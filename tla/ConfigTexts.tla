----------------------------- MODULE ConfigTexts -----------------------------
(***************************************************************************)
(* What a config file holds, as far as the rest of PalCfg tells one text   *)
(* from another, and what a stat of the file tells about it.               *)
(*                                                                         *)
(* A text that parses to an object is a "doc": the settings it spells, the *)
(* keys the schema does not claim, and whether PalCfg rendered it or a     *)
(* person edited it (comments, order, spacing: same settings, other        *)
(* bytes).  Every other text is one of three kinds the code tells apart:   *)
(* no bytes at all, bytes that Document::Parse rejects (or whose root is   *)
(* not an object), and bytes on which Document::Parse throws, because it   *)
(* catches parse_error only and the JSON library raises out_of_range for   *)
(* a number too large for a double.                                        *)
(***************************************************************************)
EXTENDS Naturals

CONSTANTS
    Values,     \* what a settings struct can hold, or a document spell
    Norm,       \* Norm[v]: the settings that loading a document spelling v gives
    Default,    \* the declared defaults, T{}
    Extras,     \* keys the schema does not claim
    Marks,      \* (size, modification time) pairs a file can have
    Absent,     \* no file
    NoStamp     \* the stamp of no file: FileStamp{}

Docs == [kind: {"doc"}, value: Values, kept: SUBSET Extras,
         form: {"rendered", "edited"}]

Empty      == [kind |-> "empty"]
Broken     == [kind |-> "broken"]
Overflow   == [kind |-> "overflow"]
Unreadable == [kind |-> "unreadable"]   \* not a text: ReadFileText gave false

Text == Docs \cup {Empty, Broken, Overflow}
File == [text: Text, mark: Marks]

IsDoc(text)  == text.kind = "doc"
Throws(text) == text.kind = "overflow"
Rejects(text) == text.kind \in {"broken", "empty"}

(***************************************************************************)
(* LoadFromText on a doc: a fresh struct, its fields read, clamped and     *)
(* swapped: Documents says how.  Norm need not be the identity, as a       *)
(* number is clamped to its field's range, nor idempotent.                 *)
(***************************************************************************)
LoadFromText(doc) == Norm[doc.value]

\* RenderDocument: the bytes depend on the value and the carried keys only.
Render(value, kept) ==
    [kind |-> "doc", value |-> value, kept |-> kept, form |-> "rendered"]

\* The keys a regeneration carries over from what the file held.
Kept(text) == IF IsDoc(text) THEN text.kept ELSE {}

StatFile(file) == IF file = Absent THEN NoStamp ELSE file.mark

\* The live settings that agree with a doc: what loading it gives, or, for a
\* document rendered from a struct, that struct itself.
Agrees(value, doc) ==
    \/ value = LoadFromText(doc)
    \/ doc.form = "rendered" /\ value = doc.value

ASSUME TextsAssumption ==
    /\ Norm \in [Values -> Values]
    /\ Default \in Values
    /\ Absent \notin File
    /\ NoStamp \notin Marks
==============================================================================
