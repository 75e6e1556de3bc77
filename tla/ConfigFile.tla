------------------------------ MODULE ConfigFile ------------------------------
(***************************************************************************)
(* ConfigFile<T, N>: one config file, kept live by polling.                *)
(*                                                                         *)
(* The game thread runs one call at a time: Load, LoadOrCreate, Tick, Save *)
(* or ApplyDocument.  Each call is cut where it touches the file system,   *)
(* because that is where the other writers of the same file (a person in   *)
(* an editor, another program) can come between, where an operation can    *)
(* fail, and where the process can be killed.  Everything between two such *)
(* points is one step.  The constant Faults selects which of these things  *)
(* happen; without any, the file is edited only while no call is running.  *)
(***************************************************************************)
EXTENDS ConfigTexts

CONSTANTS
    EditTexts,  \* the texts an editor may write
    MenuTexts,  \* the documents a menu may commit
    SaveValues, \* the settings the mod may save
    Faults      \* which faults the environment may inject

FaultKinds ==
    { "edit_mid_call",  \* the file is edited while a call is running
      "same_stamp",     \* an edit leaves size and modification time as they were
      "read",           \* an existing file cannot be opened for reading
      "write",          \* the temporary cannot be opened or written
      "short_write",    \* bytes are lost when the temporary is closed, undetected
      "rename_bak",     \* moving the target aside fails
      "rename_tmp",     \* moving the temporary into place fails
      "callback",       \* the reload callback throws
      "crash" }         \* the process is killed and started again

ASSUME ConfigFileAssumption ==
    /\ EditTexts \subseteq Text
    /\ MenuTexts \subseteq Text
    /\ SaveValues \subseteq Values
    /\ Faults \subseteq FaultKinds

VARIABLES
    target,     \* the config file: a File, or Absent
    tmp,        \* "<path>.tmp"
    bak,        \* "<path>.bak"
    live,       \* m_live
    lastText,   \* m_lastText
    stamp,      \* m_stamp
    due,        \* now - m_lastPoll >= m_interval
    pc,         \* where the game thread is inside its call
    job,        \* the locals of that call
    result,     \* how the last call ended
    own,        \* history: this process's Save wrote the bytes in the target
    told        \* history: the text a Tick failed on, while the target keeps it

disk    == <<target, tmp, bak, own>>
members == <<live, lastText, stamp>>
vars    == <<target, tmp, bak, live, lastText, stamp, due, pc, job, result,
             own, told>>

None == [kind |-> "none"]

Calls   == {"none", "load", "create", "tick", "save", "apply"}
Labels  == {"idle", "load_read", "load_miss", "tick_read", "apply",
            "gen_read", "compare", "write_tmp", "rename_bak", "rename_tmp",
            "adopt", "save_stat", "notify"}
Results == {"none", "ok", "error", "threw"}

Jobs == [call: Calls, value: Values, text: Text, found: BOOLEAN,
         stamp: Marks \cup {NoStamp}, before: Text \cup {None}]

NewJob(call, value, seen, before) ==
    [call |-> call, value |-> value, text |-> Empty, found |-> FALSE,
     stamp |-> seen, before |-> before]

NoJob == NewJob("none", Default, NoStamp, None)

\* The text of a file, if there is one.
TextOf(file) == IF file = Absent THEN None ELSE file.text

Idle == pc = "idle"

Init ==
    /\ target \in {Absent} \cup
                  [text: EditTexts, mark: Marks]
    /\ tmp = Absent
    /\ bak = Absent
    /\ live = Default
    /\ lastText = Empty
    /\ stamp = NoStamp
    /\ due \in BOOLEAN
    /\ pc = "idle"
    /\ job = NoJob
    /\ result = "none"
    /\ own = FALSE
    /\ told = None
-------------------------------------------------------------------------------
\* A call starts, moves on, and ends.
Begin(label, locals) ==
    /\ Idle
    /\ pc' = label
    /\ job' = locals
    /\ result' = "none"

Goto(label, locals) ==
    /\ pc' = label
    /\ job' = locals
    /\ UNCHANGED result

Return(how) ==
    /\ pc' = "idle"
    /\ job' = NoJob
    /\ result' = how

\* What ReadFileText may give of a file.
ReadFileText(file) ==
    (IF file = Absent THEN {} ELSE {file.text}) \cup
    (IF file = Absent \/ "read" \in Faults THEN {Unreadable} ELSE {})

\* A modification time nobody has recorded for any other version of the file.
FreshMarks ==
    Marks \ ({StatFile(target), StatFile(tmp), StatFile(bak), stamp, job.stamp})

\* History: a target whose bytes change is a new text to report.
Retell == told' = IF /\ target # Absent
                     /\ target' # Absent
                     /\ target'.text = target.text
                  THEN told ELSE None
-------------------------------------------------------------------------------
(* Load and LoadOrCreate *)

Load ==
    /\ Begin("load_read", NewJob("load", Default, NoStamp, None))
    /\ UNCHANGED <<disk, members, due, told>>

LoadOrCreate ==
    /\ Begin(IF target # Absent THEN "load_read" ELSE "gen_read",
             NewJob("create", Default, NoStamp, None))
    /\ UNCHANGED <<disk, members, due, told>>

\* Variant with a bug: the failed read is not noticed.
LoadReadUnchecked ==
    /\ pc = "load_read"
    /\ \E text \in ReadFileText(target) : Goto("apply", [job EXCEPT !.text = text])
    /\ UNCHANGED <<disk, members, due, told>>

LoadRead ==
    /\ pc = "load_read"
    /\ \E text \in ReadFileText(target) :
          \/ text = Unreadable /\ Goto("load_miss", job)
          \/ text # Unreadable /\ Goto("apply", [job EXCEPT !.text = text])
    /\ UNCHANGED <<disk, members, due, told>>

\* The file cannot be read: its stamp is recorded, the live settings stay.
LoadMiss ==
    /\ pc = "load_miss"
    /\ stamp' = StatFile(target)
    /\ Return("error")
    /\ UNCHANGED <<disk, live, lastText, due, told>>
-------------------------------------------------------------------------------
(* Tick *)

\* The interval has passed: one stat, and nothing more while the stamp stands.
TickStat ==
    /\ Idle
    /\ due
    /\ due' = FALSE
    /\ IF StatFile(target) = stamp
       THEN /\ result' = "none"
            /\ UNCHANGED <<pc, job>>
       ELSE Begin("tick_read", NewJob("tick", Default, StatFile(target), None))
    /\ UNCHANGED <<disk, members, told>>

\* An unreadable file, and bytes already seen, only move the stamp.
TickRead ==
    /\ pc = "tick_read"
    /\ \E text \in ReadFileText(target) :
          \/ /\ text \in {Unreadable, lastText}
             /\ stamp' = job.stamp
             /\ Return("none")
          \/ /\ text \notin {Unreadable, lastText}
             /\ Goto("apply", [job EXCEPT !.text = text])
             /\ UNCHANGED stamp
    /\ UNCHANGED <<disk, live, lastText, due, told>>
-------------------------------------------------------------------------------
(* Apply: the end of Load and of a Tick that read new bytes *)

\* Document::Parse throws: the call is left before anything is recorded.
ApplyThrows ==
    /\ pc = "apply"
    /\ Throws(job.text)
    /\ told' = IF job.call = "tick" THEN job.text ELSE told
    /\ Return("threw")
    /\ UNCHANGED <<disk, members, due>>

\* Variant with a bug: of a text that does not load only the stamp is recorded.
ApplyRejectsStampOnly ==
    /\ pc = "apply"
    /\ Rejects(job.text)
    /\ stamp' = StatFile(target)
    /\ told' = IF job.call = "tick" THEN job.text ELSE told
    /\ Return("error")
    /\ UNCHANGED <<disk, live, lastText, due>>

\* The text and the stamp are recorded even though nothing goes live.
ApplyRejects ==
    /\ pc = "apply"
    /\ Rejects(job.text)
    /\ lastText' = job.text
    /\ stamp' = StatFile(target)
    /\ told' = IF job.call = "tick" THEN job.text ELSE told
    /\ Return("error")
    /\ UNCHANGED <<disk, live, due>>

\* Variant with a bug: the text is recorded and the settings are not stored.
ApplyLoadsKeepsLive ==
    /\ pc = "apply"
    /\ IsDoc(job.text)
    /\ lastText' = job.text
    /\ stamp' = StatFile(target)
    /\ \/ job.call = "tick" /\ Goto("notify", job)
       \/ job.call # "tick" /\ Return("ok")
    /\ UNCHANGED <<disk, live, due, told>>

\* Variant with a bug: the callback runs before anything is recorded.
ApplyLoadsAfterCallback ==
    /\ pc = "apply"
    /\ IsDoc(job.text)
    /\ \/ /\ job.call = "tick" /\ "callback" \in Faults
          /\ told' = job.text
          /\ Return("threw")
          /\ UNCHANGED members
       \/ /\ lastText' = job.text
          /\ stamp' = StatFile(target)
          /\ live' = LoadFromText(job.text)
          /\ Return("ok")
          /\ UNCHANGED told
    /\ UNCHANGED <<disk, due>>

\* All is recorded and live before the callback of a Tick runs.
ApplyLoads ==
    /\ pc = "apply"
    /\ IsDoc(job.text)
    /\ lastText' = job.text
    /\ stamp' = StatFile(target)
    /\ live' = LoadFromText(job.text)
    /\ \/ job.call = "tick" /\ Goto("notify", job)
       \/ job.call # "tick" /\ Return("ok")
    /\ UNCHANGED <<disk, due, told>>
-------------------------------------------------------------------------------
(* Save, and what leads to it *)

Save ==
    /\ \E value \in SaveValues :
          Begin("gen_read", NewJob("save", value, NoStamp, TextOf(target)))
    /\ UNCHANGED <<disk, members, due, told>>

\* The committed document is loaded in memory first; a bad one goes no further.
ApplyDocument ==
    /\ Idle
    /\ \E json \in MenuTexts :
          \/ /\ IsDoc(json)
             /\ Begin("gen_read", NewJob("apply", LoadFromText(json), NoStamp,
                                      TextOf(target)))
          \/ Rejects(json) /\ Return("error")
          \/ Throws(json) /\ Return("threw")
    /\ UNCHANGED <<disk, members, due, told>>

\* Variant with a bug: the document is rendered without the carried keys.
GenerateReadDropsKeys ==
    /\ pc = "gen_read"
    /\ \E text \in ReadFileText(target) :
          \/ text = Broken /\ Return("error")
          \/ Throws(text) /\ Return("threw")
          \/ /\ text # Broken /\ ~Throws(text)
             /\ Goto("compare", [job EXCEPT !.text = Render(job.value, {})])
    /\ UNCHANGED <<disk, members, due, told>>

(***************************************************************************)
(* GenerateFile: what the file holds decides which keys are carried.  A    *)
(* file that does not parse stops the save; an unreadable or empty one is  *)
(* taken for no file.                                                      *)
(***************************************************************************)
GenerateRead ==
    /\ pc = "gen_read"
    /\ \E text \in ReadFileText(target) :
          \/ text = Broken /\ Return("error")
          \/ Throws(text) /\ Return("threw")
          \/ /\ text # Broken /\ ~Throws(text)
             /\ Goto("compare", [job EXCEPT !.text = Render(job.value, Kept(text))])
    /\ UNCHANGED <<disk, members, due, told>>

\* Variant with a bug: the existing file is not noticed.
CompareNoBackup ==
    /\ pc = "compare"
    /\ \E text \in ReadFileText(target) :
          \/ text = job.text /\ Goto("adopt", job)
          \/ text # job.text /\ Goto("write_tmp", job)
    /\ UNCHANGED <<disk, members, due, told>>

\* WriteFileIfChanged reads the file again, and writes nothing it already holds.
Compare ==
    /\ pc = "compare"
    /\ \E text \in ReadFileText(target) :
          \/ text = job.text /\ Goto("adopt", job)
          \/ /\ text # job.text
             /\ Goto("write_tmp", [job EXCEPT !.found = (text # Unreadable)])
    /\ UNCHANGED <<disk, members, due, told>>

\* The bytes that reach the disk: a failure on close goes unnoticed.
Written(text) ==
    {text} \cup (IF "short_write" \in Faults THEN {Broken, Empty} ELSE {})

\* Variant with a bug: the target itself is opened for writing.
WriteTmpInPlace ==
    /\ pc = "write_tmp"
    /\ \E mark \in FreshMarks :
          /\ target' = [text |-> Empty, mark |-> mark]
          /\ tmp' = [text |-> job.text, mark |-> mark]
    /\ own' = TRUE
    /\ Retell
    /\ Goto(IF job.found THEN "rename_bak" ELSE "rename_tmp", job)
    /\ UNCHANGED <<bak, members, due>>

WriteTmp ==
    /\ pc = "write_tmp"
    /\ \E text \in Written(job.text), mark \in FreshMarks :
          tmp' = [text |-> text, mark |-> mark]
    /\ Goto(IF job.found THEN "rename_bak" ELSE "rename_tmp", job)
    /\ UNCHANGED <<target, bak, own, members, due, told>>

\* The temporary cannot be opened, or holds part of the text and stays behind.
WriteTmpFails ==
    /\ pc = "write_tmp"
    /\ "write" \in Faults
    /\ \/ UNCHANGED tmp
       \/ \E mark \in FreshMarks : tmp' = [text |-> Broken, mark |-> mark]
    /\ Return("error")
    /\ UNCHANGED <<target, bak, own, members, due, told>>

RenameBak ==
    /\ pc = "rename_bak"
    /\ target # Absent
    /\ bak' = target
    /\ target' = Absent
    /\ own' = FALSE
    /\ Retell
    /\ Goto("rename_tmp", job)
    /\ UNCHANGED <<tmp, members, due>>

\* Variant with a bug: the cleanup removes the wrong file.
RenameBakFailsRemovesTarget ==
    /\ pc = "rename_bak"
    /\ target = Absent \/ "rename_bak" \in Faults
    /\ target' = Absent
    /\ own' = FALSE
    /\ Retell
    /\ Return("error")
    /\ UNCHANGED <<tmp, bak, members, due>>

RenameBakFails ==
    /\ pc = "rename_bak"
    /\ target = Absent \/ "rename_bak" \in Faults
    /\ tmp' = Absent
    /\ Return("error")
    /\ UNCHANGED <<target, bak, own, members, due, told>>

RenameTmp ==
    /\ pc = "rename_tmp"
    /\ target' = tmp
    /\ tmp' = Absent
    /\ own' = TRUE
    /\ Retell
    /\ Goto("adopt", job)
    /\ UNCHANGED <<bak, members, due>>

\* Variant with a bug: the failed rename is not noticed.
RenameTmpFailsUnchecked ==
    /\ pc = "rename_tmp"
    /\ "rename_tmp" \in Faults
    /\ tmp' = Absent
    /\ Goto("adopt", job)
    /\ UNCHANGED <<target, bak, own, members, due, told>>

RenameTmpFails ==
    /\ pc = "rename_tmp"
    /\ "rename_tmp" \in Faults
    /\ tmp' = Absent
    /\ Return("error")
    /\ UNCHANGED <<target, bak, own, members, due, told>>

\* Variant with a bug: the text just written is not read back.
AdoptKeepsLastText ==
    /\ pc = "adopt"
    /\ live' = job.value
    /\ Goto("save_stat", job)
    /\ UNCHANGED <<disk, lastText, stamp, due, told>>

\* Variant with a bug: the saved value is not stored.
AdoptForgetsLive ==
    /\ pc = "adopt"
    /\ \E text \in ReadFileText(target) :
          lastText' = IF text = Unreadable THEN Empty ELSE text
    /\ Goto("save_stat", job)
    /\ UNCHANGED <<disk, live, stamp, due, told>>

\* The saved value goes live; the last text is whatever the file holds by now.
Adopt ==
    /\ pc = "adopt"
    /\ live' = job.value
    /\ \E text \in ReadFileText(target) :
          lastText' = IF text = Unreadable THEN Empty ELSE text
    /\ Goto("save_stat", job)
    /\ UNCHANGED <<disk, stamp, due, told>>

SaveStat ==
    /\ pc = "save_stat"
    /\ stamp' = StatFile(target)
    /\ \/ job.call = "apply" /\ Goto("notify", job)
       \/ job.call # "apply" /\ Return("ok")
    /\ UNCHANGED <<disk, live, lastText, due, told>>
-------------------------------------------------------------------------------
(* The reload callback, the end of a Tick that loaded and of a commit; a Save *)
(* of its own is the next call, as nothing is left to do when it returns      *)

Notify ==
    /\ pc = "notify"
    /\ Return("ok")
    /\ UNCHANGED <<disk, members, due, told>>

NotifyThrows ==
    /\ pc = "notify"
    /\ "callback" \in Faults
    /\ told' = IF job.call = "tick" THEN job.text ELSE told
    /\ Return("threw")
    /\ UNCHANGED <<disk, members, due>>
-------------------------------------------------------------------------------
(* The environment: the clock, the people and programs that share the file, *)
(* and the end of the process                                              *)

TimePasses ==
    /\ ~due
    /\ due' = TRUE
    /\ UNCHANGED <<disk, members, pc, job, result, told>>

MayTouchFile == Idle \/ "edit_mid_call" \in Faults

\* Someone writes the file, perhaps (or just touches it) with the bytes it had.
Edit ==
    /\ MayTouchFile
    /\ \E text \in EditTexts \cup ({TextOf(target)} \ {None}),
          mark \in FreshMarks \cup
             (IF "same_stamp" \in Faults THEN {StatFile(target)} \ {NoStamp} ELSE {}) :
          /\ target' = [text |-> text, mark |-> mark]
          /\ own' = (own /\ text = target.text)
    /\ Retell
    /\ UNCHANGED <<tmp, bak, members, due, pc, job, result>>

Delete ==
    /\ MayTouchFile
    /\ target # Absent
    /\ target' = Absent
    /\ own' = FALSE
    /\ Retell
    /\ UNCHANGED <<tmp, bak, members, due, pc, job, result>>

\* Someone moves the backup into place, with the time it was written at.
RestoreBackup ==
    /\ MayTouchFile
    /\ bak # Absent
    /\ target' = bak
    /\ bak' = Absent
    /\ own' = FALSE
    /\ Retell
    /\ UNCHANGED <<tmp, members, due, pc, job, result>>

\* The disk survives, the object does not: a new one is constructed.
Crash ==
    /\ "crash" \in Faults
    /\ live' = Default
    /\ lastText' = Empty
    /\ stamp' = NoStamp
    /\ due' \in BOOLEAN
    /\ pc' = "idle"
    /\ job' = NoJob
    /\ result' = "none"
    /\ own' = FALSE
    /\ told' = None
    /\ UNCHANGED <<target, tmp, bak>>
-------------------------------------------------------------------------------
\* The steps that carry a call to its end.
CallStep ==
    \/ LoadRead \/ LoadMiss
    \/ TickRead
    \/ ApplyThrows \/ ApplyRejects \/ ApplyLoads
    \/ GenerateRead \/ Compare
    \/ WriteTmp \/ WriteTmpFails
    \/ RenameBak \/ RenameBakFails
    \/ RenameTmp \/ RenameTmpFails
    \/ Adopt \/ SaveStat
    \/ Notify \/ NotifyThrows

GameThread ==
    \/ Load \/ LoadOrCreate \/ TickStat \/ Save \/ ApplyDocument
    \/ CallStep

Environment ==
    \/ TimePasses \/ Edit \/ Delete \/ RestoreBackup \/ Crash

Next == GameThread \/ Environment

Spec == Init /\ [][Next]_vars

(***************************************************************************)
(* A call that has started runs to its end, the clock moves, and the game  *)
(* loop calls Tick on every frame whatever else it calls.  Nobody is       *)
(* obliged to edit, to save or to fail.                                    *)
(***************************************************************************)
Fairness ==
    /\ WF_vars(CallStep)
    /\ WF_vars(TimePasses)
    /\ SF_vars(TickStat)

FairSpec == Spec /\ Fairness
===============================================================================
