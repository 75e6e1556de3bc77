----------------------------- MODULE Conversions -----------------------------
(***************************************************************************)
(* What lies between a value in memory and the bytes of a file.  A         *)
(* behaviour has one subject: a setting, which is loaded, set and saved;   *)
(* or a text that grows by one symbol at a time: the characters of a file  *)
(* someone types, those of a text the mod puts into a setting, and the     *)
(* bytes or wide units of one that is converted.                           *)
(***************************************************************************)
EXTENDS Settings, Jsonc, Utf

CONSTANTS
    Subjects,   \* the subjects of this run
    Alphabet,   \* Alphabet[subject]: the symbols of its texts
    Bound       \* Bound[subject]: how long they grow

TextSubjects == {"file", "value", "bytes", "units16", "units32"}

ASSUME ConversionsAssumption ==
    /\ Subjects \subseteq TextSubjects \cup {"setting"}
    /\ \A s \in Subjects \ {"setting"} : Bound[s] \in Nat

\* A char is 8 bits wide; a wide unit is 16, where wchar_t is, or more.
ASSUME AlphabetAssumption ==
    /\ Alphabet["bytes"] \subseteq 0..255
    /\ Alphabet["units16"] \subseteq {u \in Nat : u < 65536}
    /\ Alphabet["units32"] \subseteq Nat

VARIABLES
    subject,
    text
vars == <<settingVars, subject, text>>

Init ==
    /\ subject \in Subjects
    /\ text = <<>>
    /\ IF subject = "setting" THEN SettingInit
       ELSE field = Unset /\ node = Null /\ value = Unset /\ report = "none" /\ last = "set"

Grow(symbol) ==
    /\ Len(text) < Bound[subject]
    /\ text' = Append(text, symbol)
    /\ UNCHANGED <<settingVars, subject>>

Next ==
    \/ subject = "setting" /\ SettingNext /\ UNCHANGED <<subject, text>>
    \/ subject # "setting" /\ \E symbol \in Alphabet[subject] : Grow(symbol)

Spec == Init /\ [][Next]_vars

-----------------------------------------------------------------------------
(* Properties *)

TypeOK ==
    /\ subject \in Subjects
    /\ IF subject = "setting" THEN text = <<>> /\ SettingTypeOK
       ELSE text \in Seq(Alphabet[subject])

\* Jsonc.hpp:5-9: the scanner and the library agree on every text without a bare
\* carriage return.
TrailingCommasMatch == subject = "file" => CommasMatch(text)

\* Whatever a text setting and its help text hold, the file a save writes is
\* untouched by the scanner and gives the text back.
RenderedTextSurvives == subject = "value" => RenderedSurvives(text)

\* Utf.hpp:19-20 and README.md:276-282: no bytes and no units make a save write
\* a file that does not parse, and a text that was well formed comes back.
WideTextSurvives ==
    /\ subject = "bytes" => BytesSurvive(text)
    /\ subject = "units16" => UnitsSurvive(16, text)
    /\ subject = "units32" => UnitsSurvive(32, text)
==============================================================================
