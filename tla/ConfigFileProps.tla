--------------------------- MODULE ConfigFileProps ---------------------------
(***************************************************************************)
(* What ConfigFile promises.                                               *)
(***************************************************************************)
EXTENDS ConfigFile

(***************************************************************************)
(* The type invariant of the disk, the members and the running call.       *)
(***************************************************************************)
TypeOK ==
    /\ target \in File \cup {Absent}
    /\ tmp \in File \cup {Absent}
    /\ bak \in File \cup {Absent}
    /\ live \in Values
    /\ lastText \in Text
    /\ stamp \in Marks \cup {NoStamp}
    /\ due \in BOOLEAN
    /\ pc \in Labels
    /\ job \in Jobs
    /\ result \in Results
    /\ own \in BOOLEAN
    /\ told \in Text \cup {None}
-------------------------------------------------------------------------------
(***************************************************************************)
(* Between calls, a stamp that matches the file means that the bytes in    *)
(* the file are the last ones read: the shortcut Tick takes when the stamp *)
(* has not moved skips nothing (ConfigFile.hpp:97-98).                     *)
(***************************************************************************)
StampMatchesText ==
    Idle /\ target # Absent /\ StatFile(target) = stamp
        => target.text = lastText

(***************************************************************************)
(* Between calls, the live settings are those of the last text read that   *)
(* could be loaded: the shortcut Tick takes when the bytes are the same    *)
(* (ConfigFile.hpp:109-113) leaves no stale settings running.              *)
(***************************************************************************)
LiveMatchesText ==
    Idle /\ IsDoc(lastText) => Agrees(live, lastText)

(***************************************************************************)
(* The two invariants above hold because of what is true inside a call.    *)
(* They need an undisturbed one: no edit while it runs, no edit that keeps *)
(* the stamp, no failing read of an existing file.  Writes may fail and    *)
(* the process may be killed anywhere.                                     *)
(***************************************************************************)
Undisturbed == Faults \cap {"edit_mid_call", "same_stamp", "read"} = {}

\* Two files never share a stamp, so restoring the backup is always noticed.
MarksDiffer ==
    /\ target # Absent /\ bak # Absent => target.mark # bak.mark
    /\ target # Absent /\ tmp # Absent => target.mark # tmp.mark
    /\ bak # Absent /\ tmp # Absent => bak.mark # tmp.mark

\* What the running call has read or written is still so.
CallAgrees ==
    /\ pc = "load_miss" => target = Absent
    /\ pc = "tick_read" => job.stamp = StatFile(target)
    /\ pc = "apply" => target # Absent /\ job.text = target.text
    /\ pc \in {"compare", "write_tmp", "rename_bak", "rename_tmp", "adopt"}
          => \E kept \in SUBSET Extras : job.text = Render(job.value, kept)
    /\ pc \in {"rename_bak", "rename_tmp"}
          => tmp # Absent /\ tmp.text \in {job.text, Broken, Empty}
    /\ pc = "adopt"
          => target # Absent /\ target.text \in {job.text, Broken, Empty}
    /\ pc = "save_stat" /\ target # Absent => target.text = lastText

\* From the rename on, the recorded stamp lags behind the text until SaveStat.
StampAgrees ==
    pc \notin {"adopt", "save_stat"}
        => /\ target # Absent /\ target.mark = stamp => target.text = lastText
           /\ bak # Absent /\ bak.mark = stamp => bak.text = lastText

LiveAgrees == IsDoc(lastText) => Agrees(live, lastText)

Coherent == MarksDiffer /\ CallAgrees /\ StampAgrees /\ LiveAgrees

(***************************************************************************)
(* What a save holds on to from its first read of the file to its end, in  *)
(* an undisturbed call: the file is still the one it found until it is     *)
(* moved aside, the text it carries is that of the settings with every     *)
(* unclaimed key of that file, what it found does parse and is in the      *)
(* backup once moved, and, where no bytes are lost on close, what it puts  *)
(* at the path is that text.  NothingLost, NeverTorn, SaveKeepsKeys,       *)
(* SavedIsOnDisk and ImplementsStore follow from it.                       *)
(***************************************************************************)
WholeWrites == "short_write" \notin Faults

\* The steps of a save while the target is still the one it found.
Replacing == {"gen_read", "compare", "write_tmp", "rename_bak"}

\* The steps of a save that has a text to write.
Rendered == {"compare", "write_tmp", "rename_bak", "rename_tmp", "adopt"}

SaveOnCourse ==
    /\ pc \in Replacing => TextOf(target) = job.before
    /\ pc \in Rendered
          => /\ IsDoc(job.text) /\ job.text.value = job.value
             /\ Kept(job.before) \subseteq job.text.kept
             /\ job.before \in Docs \cup {Empty, None}
    /\ pc = "write_tmp" /\ ~job.found => target = Absent
    /\ pc = "rename_tmp"
          => /\ target = Absent
             /\ job.before # None => bak # Absent /\ bak.text = job.before
    /\ pc \in {"rename_bak", "rename_tmp"}
          => tmp # Absent /\ (WholeWrites => tmp.text = job.text)
    /\ pc = "adopt" => target # Absent /\ (WholeWrites => target.text = job.text)
    /\ WholeWrites /\ pc = "save_stat"
          => /\ target # Absent /\ IsDoc(target.text) /\ target.text.value = live
             /\ Kept(job.before) \subseteq target.text.kept
    /\ WholeWrites /\ own => target # Absent /\ IsDoc(target.text)

\* Which calls take which steps.
CallOnCourse ==
    /\ Idle => job.call = "none"
    /\ pc \in {"load_read", "load_miss"} => job.call \in {"load", "create"}
    /\ pc = "tick_read" => job.call = "tick"
    /\ pc = "apply" => job.call \in {"load", "create", "tick"}
    /\ pc = "notify" => job.call \in {"tick", "apply"}
    /\ pc \in Replacing \cup Rendered \cup {"save_stat"}
          => job.call \in {"create", "save", "apply"}

\* Bytes this process saved are the last text it read, once they are read back.
OwnSeen ==
    /\ pc \in {"rename_bak", "rename_tmp"} => tmp # Absent
    /\ own => target # Absent
    /\ own /\ pc # "adopt" => target.text = lastText
    /\ own /\ pc = "apply" => job.text = target.text

\* Where nobody types a number too large for a double, no text makes a parse throw.
NothingThrows ==
    /\ \A file \in {target, tmp, bak} : TextOf(file) # Overflow
    /\ job.text # Overflow

(***************************************************************************)
(* A text a Tick has failed on is the last text read for as long as the    *)
(* target keeps it, so that the Tick that would fail on it again returns   *)
(* at the comparison; what a call has read stays the text of the target,   *)
(* or nothing is told of it any more.                                      *)
(***************************************************************************)
ToldIsRead ==
    /\ told # None => lastText = told \/ TextOf(target) # told
    /\ pc = "apply" /\ told # None => TextOf(target) = job.text
    /\ pc \in {"apply", "notify"} /\ job.call = "tick" => told # job.text
    /\ pc = "notify" /\ job.call = "tick" => lastText = job.text

(***************************************************************************)
(* The mod's own write is not seen as an edit: a Tick never reloads a file *)
(* whose bytes this process saved (ConfigFile.hpp:5-7 and 121-122).        *)
(***************************************************************************)
SaveIsNoEdit ==
    [][own /\ pc = "tick_read" => pc' # "apply"]_vars

(***************************************************************************)
(* A file that cannot be parsed is reported once rather than on every poll *)
(* (ConfigFile.hpp:177-178), and one whose settings the callback throws on *)
(* is not loaded again: while the target keeps its bytes, no second Tick   *)
(* fails on them.                                                          *)
(***************************************************************************)
FailsOnce ==
    [][job.call = "tick" /\ result' \in {"error", "threw"} /\ Idle'
           => told # job.text]_vars

(***************************************************************************)
(* Replacing a file keeps the previous copy beside it (File.hpp:5-6): no   *)
(* step of a call makes the bytes of the target disappear from it without  *)
(* leaving them in the backup.                                             *)
(***************************************************************************)
NothingLost ==
    [][GameThread /\ target # Absent
           => \/ target' # Absent /\ target'.text = target.text
              \/ bak' # Absent /\ bak'.text = target.text]_vars

(***************************************************************************)
(* The target is never half written (File.hpp:44-45): what a save puts     *)
(* there is a whole rendered document, wherever the process is killed.     *)
(***************************************************************************)
NeverTorn ==
    own => target.text.kind = "doc"

\* The last step of a save; a commit goes on to the callback.
SaveSucceeds == pc = "save_stat" /\ (result' = "ok" \/ pc' = "notify")

(***************************************************************************)
(* A save keeps every key the schema does not claim (ConfigFile.hpp:121):  *)
(* the file that a successful save leaves carries the keys of the file the *)
(* save found.                                                             *)
(***************************************************************************)
SaveKeepsKeys ==
    [][SaveSucceeds /\ job.before # None
           => /\ target # Absent
              /\ Kept(job.before) \subseteq Kept(target.text)]_vars

(***************************************************************************)
(* What is saved is what is live, and what the file says: a restart after  *)
(* a successful save loads the saved settings (as the file spells them).   *)
(***************************************************************************)
SavedIsOnDisk ==
    [][SaveSucceeds
           => /\ target # Absent
              /\ IsDoc(target.text) /\ target.text.value = live]_vars

(***************************************************************************)
(* ApplyDocument writes nothing on an Error (ConfigFile.hpp:139-141): when *)
(* it reports one, the target holds the text the call found.               *)
(***************************************************************************)
ErrorWritesNothing ==
    [][job.call = "apply" /\ Idle' /\ result' = "error"
           => TextOf(target') = job.before]_vars
-------------------------------------------------------------------------------
(***************************************************************************)
(* An edit goes live (README.md:408-411 and 525): if from some time on the *)
(* file holds one document, then from some time on the live settings agree *)
(* with it.                                                                *)
(***************************************************************************)
EditsGoLive ==
    \A text \in EditTexts :
        (IsDoc(text) /\ <>[](target # Absent /\ target.text = text))
            => <>[](Agrees(live, text))

(***************************************************************************)
(* The same of a file that is never away from its path: "an edit to        *)
(* config.json reloaded within a second" (README.md:525).                  *)
(***************************************************************************)
RewritesGoLive == [](target # Absent) => EditsGoLive
-------------------------------------------------------------------------------
(***************************************************************************)
(* The store that a ConfigFile is to those who do not see its steps.       *)
(* Between the two renames of a save the text is still the one the save    *)
(* found; the rename of the temporary is the moment of the commit, and the *)
(* saved settings are live from it on.                                     *)
(***************************************************************************)
StoredText == IF pc = "rename_tmp" THEN job.before ELSE TextOf(target)

StoredLive == IF pc = "adopt" THEN job.value ELSE live

Store == INSTANCE SettingsStore WITH
    text <- StoredText, shelf <- TextOf(bak), live <- StoredLive, calling <- ~Idle

(***************************************************************************)
(* In undisturbed calls that lose no bytes on close, a ConfigFile is such  *)
(* a store, wherever an operation fails or the process ends: it loads the  *)
(* text at the path and no other, commits in one step, keeps what it does  *)
(* not claim, leaves a text that does not parse alone, and loses none      *)
(* (ConfigFile.hpp:121-122 and 139-141, File.hpp:5-6 and 44-45).           *)
(***************************************************************************)
ImplementsStore == Store!Spec
==============================================================================
