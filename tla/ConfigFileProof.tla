--------------------------- MODULE ConfigFileProof ---------------------------
(***************************************************************************)
(* Proofs about ConfigFile, for every value of its constants: the          *)
(* shortcuts of Tick; the saves, who is told of them, and how often a file *)
(* that does not parse is reported; and that a ConfigFile implements the   *)
(* settings store.                                                         *)
(***************************************************************************)
EXTENDS ConfigFileProps, TLAPS

-----------------------------------------------------------------------------
(* The disk between calls *)

(***************************************************************************)
(* The texts and files the operators of ConfigTexts return.                *)
(***************************************************************************)
LEMMA TextTypes ==
    /\ Empty \in Text /\ Broken \in Text
    /\ None \notin Text /\ Unreadable \notin Text
    /\ \A v \in Values, k \in SUBSET Extras :
          /\ Render(v, k) \in Docs \cap Text
          /\ IsDoc(Render(v, k))
    /\ \A t \in Text \cup {Unreadable} : Kept(t) \in SUBSET Extras
    /\ \A t \in Text : IsDoc(t) => t \in Docs /\ LoadFromText(t) \in Values
  BY TextsAssumption
     DEF Text, Docs, Empty, Broken, Overflow, Unreadable, None, Render, IsDoc,
         Kept, LoadFromText

(***************************************************************************)
(* What a stat, a read and the text of a file can be (File.cpp:15-42).     *)
(***************************************************************************)
LEMMA FileTypes ==
    /\ \A f \in File : f # Absent /\ f.text \in Text /\ f.mark \in Marks
    /\ \A f \in File \cup {Absent} :
          /\ StatFile(f) \in Marks \cup {NoStamp}
          /\ TextOf(f) \in Text \cup {None}
          /\ \A t \in ReadFileText(f) : t \in Text \/ t = Unreadable
  BY TextsAssumption DEF File, StatFile, TextOf, ReadFileText

(***************************************************************************)
(* The locals of a call keep their types when one of them is assigned.     *)
(***************************************************************************)
LEMMA JobTypes ==
    \A j \in Jobs :
       /\ \A c \in Calls : [j EXCEPT !.call = c] \in Jobs
       /\ \A v \in Values : [j EXCEPT !.value = v] \in Jobs
       /\ \A t \in Text : [j EXCEPT !.text = t] \in Jobs
       /\ \A b \in BOOLEAN : [j EXCEPT !.found = b] \in Jobs
       /\ \A m \in Marks \cup {NoStamp} : [j EXCEPT !.stamp = m] \in Jobs
       /\ \A t \in Text \cup {None} : [j EXCEPT !.before = t] \in Jobs
       /\ j.call \in Calls /\ j.value \in Values /\ j.text \in Text
       /\ j.stamp \in Marks \cup {NoStamp}
  BY DEF Jobs

(***************************************************************************)
(* The locals a call of ConfigFile.hpp:63-164 starts with are well typed.  *)
(***************************************************************************)
LEMMA NewJobTypes ==
    /\ \A c \in Calls, v \in Values, m \in Marks \cup {NoStamp},
          t \in Text \cup {None} : NewJob(c, v, m, t) \in Jobs
    /\ NoJob \in Jobs
  BY TextTypes, TextsAssumption DEF NoJob, NewJob, Jobs, Calls

(***************************************************************************)
(* Every variable keeps its type, whatever the faults.                     *)
(***************************************************************************)
THEOREM TypeCorrect == Spec => []TypeOK
<1>1. Init => TypeOK
  BY NewJobTypes, TextTypes, TextsAssumption, ConfigFileAssumption
     DEF Init, TypeOK, File, Labels, Results
<1>2. TypeOK /\ [Next]_vars => TypeOK'
  <2> SUFFICES ASSUME TypeOK, [Next]_vars PROVE TypeOK'
    OBVIOUS
  <2> USE TextTypes, FileTypes, JobTypes, NewJobTypes, TextsAssumption, ConfigFileAssumption
      DEF TypeOK, disk, members, Labels, Results, Idle, Begin, Goto, Return
  <2>1. CASE Load
    BY <2>1 DEF Load, Calls
  <2>2. CASE LoadOrCreate
    BY <2>2 DEF LoadOrCreate, Calls
  <2>3. CASE TickStat
    <3>1. NewJob("tick", Default, StatFile(target), None) \in Jobs
      BY DEF Calls
    <3> QED BY <2>3, <3>1 DEF TickStat
  <2>4. CASE Save
    BY <2>4 DEF Save, Calls
  <2>5. CASE ApplyDocument
    BY <2>5 DEF ApplyDocument, Calls, Throws, Rejects
  <2>6. CASE LoadRead
    BY <2>6 DEF LoadRead
  <2>7. CASE LoadMiss
    BY <2>7 DEF LoadMiss
  <2>8. CASE TickRead
    BY <2>8 DEF TickRead
  <2>9. CASE ApplyThrows
    BY <2>9 DEF ApplyThrows
  <2>10. CASE ApplyRejects
    BY <2>10 DEF ApplyRejects
  <2>11. CASE ApplyLoads
    BY <2>11 DEF ApplyLoads
  <2>12. CASE GenerateRead
    <3>1. ASSUME NEW text \in ReadFileText(target)
          PROVE [job EXCEPT !.text = Render(job.value, Kept(text))] \in Jobs
      <4>1. Kept(text) \in SUBSET Extras
        OBVIOUS
      <4>2. Render(job.value, Kept(text)) \in Text
        BY <4>1
      <4> QED BY <4>2
    <3> QED BY <2>12, <3>1 DEF GenerateRead
  <2>13. CASE Compare
    BY <2>13 DEF Compare
  <2>14. CASE WriteTmp
    BY <2>14 DEF WriteTmp, File, FreshMarks, Written
  <2>15. CASE WriteTmpFails
    BY <2>15 DEF WriteTmpFails, File, FreshMarks
  <2>16. CASE RenameBak
    BY <2>16 DEF RenameBak, Retell
  <2>17. CASE RenameBakFails
    BY <2>17 DEF RenameBakFails
  <2>18. CASE RenameTmp
    BY <2>18 DEF RenameTmp, Retell
  <2>19. CASE RenameTmpFails
    BY <2>19 DEF RenameTmpFails
  <2>20. CASE Adopt
    BY <2>20 DEF Adopt
  <2>21. CASE SaveStat
    BY <2>21 DEF SaveStat
  <2>22. CASE TimePasses
    BY <2>22 DEF TimePasses
  <2>23. CASE Edit
    BY <2>23 DEF Edit, File, FreshMarks, Retell, MayTouchFile
  <2>24. CASE Delete
    BY <2>24 DEF Delete, Retell
  <2>25. CASE RestoreBackup
    BY <2>25 DEF RestoreBackup, Retell
  <2>26. CASE Crash
    BY <2>26 DEF Crash
  <2>27. CASE UNCHANGED vars
    BY <2>27 DEF vars
  <2>28. CASE Notify \/ NotifyThrows
    BY <2>28 DEF Notify, NotifyThrows
  <2> QED
    BY <2>1, <2>2, <2>3, <2>4, <2>5, <2>6, <2>7, <2>8, <2>9, <2>10, <2>11, <2>12, <2>13, <2>14, <2>15, <2>16, <2>17, <2>18, <2>19, <2>20, <2>21, <2>22, <2>23, <2>24, <2>25, <2>26, <2>27, <2>28 DEF Next, GameThread, CallStep, Environment
<1> QED BY <1>1, <1>2, PTL DEF Spec
-------------------------------------------------------------------------------
(***************************************************************************)
(* In an undisturbed call, reading a file gives its text.                  *)
(***************************************************************************)
LEMMA UndisturbedRead ==
    ASSUME Undisturbed
    PROVE  \A f \in File \cup {Absent} : \A t \in ReadFileText(f) :
              IF f = Absent THEN t = Unreadable ELSE t = f.text
  BY DEF Undisturbed, ReadFileText

(***************************************************************************)
(* A rendered document spells the struct it was rendered from              *)
(* (Write.hpp:194-205).                                                    *)
(***************************************************************************)
LEMMA RenderAgrees ==
    \A v \in Values, k \in SUBSET Extras :
       Render(v, k).value = v /\ Agrees(v, Render(v, k))
  BY DEF Render, Agrees

(***************************************************************************)
(* An empty text and one that does not parse are no documents              *)
(* (JsonBackend.cpp:126-137).                                              *)
(***************************************************************************)
LEMMA OddTexts ==
    ~IsDoc(Empty) /\ ~IsDoc(Broken)
  BY DEF IsDoc, Empty, Broken

(***************************************************************************)
(* The invariant behind the two shortcuts of Tick is inductive.            *)
(***************************************************************************)
LEMMA CoherentStep ==
    ASSUME Undisturbed, TypeOK, Coherent, [Next]_vars
    PROVE  Coherent'
<1> USE TextTypes, FileTypes, TextsAssumption
    DEF TypeOK, Coherent, MarksDiffer, CallAgrees, StampAgrees, LiveAgrees,
        disk, members, Idle, Begin, Goto, Return
<1>1. CASE Load
  BY <1>1 DEF Load
<1>2. CASE LoadOrCreate
  BY <1>2 DEF LoadOrCreate
<1>3. CASE TickStat
  BY <1>3 DEF TickStat, NewJob
<1>4. CASE Save
  BY <1>4 DEF Save
<1>5. CASE ApplyDocument
  BY <1>5 DEF ApplyDocument
<1>6. CASE LoadRead
  BY <1>6, UndisturbedRead DEF LoadRead, Jobs
<1>7. CASE LoadMiss
  BY <1>7 DEF LoadMiss, StatFile
<1>8. CASE TickRead
  BY <1>8, UndisturbedRead DEF TickRead, Jobs, StatFile
<1>9. CASE ApplyThrows
  BY <1>9 DEF ApplyThrows
<1>10. CASE ApplyRejects
  BY <1>10 DEF ApplyRejects, Rejects, IsDoc, StatFile
<1>11. CASE ApplyLoads
  BY <1>11 DEF ApplyLoads, Agrees, StatFile
<1>12. CASE GenerateRead
  BY <1>12, UndisturbedRead DEF GenerateRead, Jobs
<1>13. CASE Compare
  BY <1>13, UndisturbedRead DEF Compare, Jobs
<1>14. CASE WriteTmp
  <2>1. PICK text \in Written(job.text), mark \in FreshMarks :
           tmp' = [text |-> text, mark |-> mark]
    BY <1>14 DEF WriteTmp
  <2>2. tmp'.text \in {job.text, Broken, Empty} /\ tmp'.mark = mark
    BY <2>1 DEF Written
  <2>3. tmp' # Absent
    BY <2>1 DEF Written, FreshMarks, File, Jobs
  <2>4. MarksDiffer'
    BY <1>14, <2>2 DEF WriteTmp, FreshMarks, StatFile
  <2>5. CallAgrees'
    BY <1>14, <2>2, <2>3 DEF WriteTmp
  <2> QED
    BY <1>14, <2>4, <2>5 DEF WriteTmp
<1>15. CASE WriteTmpFails
  BY <1>15 DEF WriteTmpFails, FreshMarks, StatFile
<1>16. CASE RenameBak
  BY <1>16 DEF RenameBak
<1>17. CASE RenameBakFails
  BY <1>17 DEF RenameBakFails
<1>18. CASE RenameTmp
  BY <1>18 DEF RenameTmp
<1>19. CASE RenameTmpFails
  BY <1>19 DEF RenameTmpFails
<1>20. CASE Adopt
  <2>1. live' = job.value /\ target' = target /\ lastText' = target.text
    BY <1>20, UndisturbedRead DEF Adopt
  <2>2. job.value \in Values
    BY JobTypes
  <2>3. IsDoc(target.text) => Agrees(job.value, target.text)
    BY <1>20, <2>2, RenderAgrees, OddTexts DEF Adopt
  <2>4. LiveAgrees'
    BY <2>1, <2>3
  <2> QED
    BY <1>20, <2>1, <2>4 DEF Adopt
<1>21. CASE SaveStat
  BY <1>21 DEF SaveStat, StatFile
<1>22. CASE TimePasses
  BY <1>22 DEF TimePasses
<1>23. CASE Edit
  BY <1>23 DEF Edit, FreshMarks, StatFile, MayTouchFile, Undisturbed
<1>24. CASE Delete
  BY <1>24 DEF Delete, MayTouchFile, Undisturbed
<1>25. CASE RestoreBackup
  BY <1>25 DEF RestoreBackup, MayTouchFile, Undisturbed
<1>26. CASE Crash
  BY <1>26, OddTexts DEF Crash
<1>27. CASE UNCHANGED vars
  BY <1>27 DEF vars
<1>28. CASE Notify \/ NotifyThrows
  BY <1>28 DEF Notify, NotifyThrows
<1> QED
  BY <1>1, <1>2, <1>3, <1>4, <1>5, <1>6, <1>7, <1>8, <1>9, <1>10, <1>11, <1>12, <1>13, <1>14, <1>15, <1>16, <1>17, <1>18, <1>19, <1>20, <1>21, <1>22, <1>23, <1>24, <1>25, <1>26, <1>27, <1>28 DEF Next, GameThread, CallStep, Environment

(***************************************************************************)
(* What a call has read and written agrees with the disk at every step.    *)
(***************************************************************************)
THEOREM CoherentInv ==
    ASSUME Undisturbed
    PROVE  Spec => []Coherent
<1>1. Init => Coherent
  BY OddTexts, TextsAssumption, FileTypes, ConfigFileAssumption
     DEF Init, Coherent, MarksDiffer, CallAgrees, StampAgrees, LiveAgrees, File
<1>2. TypeOK /\ Coherent /\ [Next]_vars => Coherent'
  BY CoherentStep
<1> QED
  BY <1>1, <1>2, TypeCorrect, PTL DEF Spec

(***************************************************************************)
(* With undisturbed calls, a stamp that has not moved means bytes already  *)
(* read: the first shortcut of Tick (ConfigFile.hpp:97-98).                *)
(***************************************************************************)
THEOREM StampMatchesTextAlways ==
    ASSUME Undisturbed
    PROVE  Spec => []StampMatchesText
<1>1. Coherent => StampMatchesText
  BY DEF Coherent, StampAgrees, StampMatchesText, Idle, StatFile
<1> QED
  BY <1>1, CoherentInv, PTL

(***************************************************************************)
(* With undisturbed calls, bytes already read mean settings already live:  *)
(* the second shortcut of Tick (ConfigFile.hpp:109-113).                   *)
(***************************************************************************)
THEOREM LiveMatchesTextAlways ==
    ASSUME Undisturbed
    PROVE  Spec => []LiveMatchesText
<1>1. Coherent => LiveMatchesText
  BY DEF Coherent, LiveAgrees, LiveMatchesText
<1> QED
  BY <1>1, CoherentInv, PTL

-----------------------------------------------------------------------------
(* Saves, callbacks and the store *)

(***************************************************************************)
(* Every step belongs to a call that takes it, whatever the faults.        *)
(***************************************************************************)
LEMMA CallOnCourseAlways == Spec => []CallOnCourse
<1> USE DEF CallOnCourse, Idle, Begin, Goto, Return, NoJob, NewJob, Replacing, Rendered
<1>1. Init => CallOnCourse
  BY DEF Init
<1>2. TypeOK /\ CallOnCourse /\ [Next]_vars => CallOnCourse'
  <2> SUFFICES ASSUME TypeOK, CallOnCourse, [Next]_vars PROVE CallOnCourse'
    OBVIOUS
  <2> USE DEF TypeOK, Jobs
  <2>1. CASE Load
    BY <2>1 DEF Load
  <2>2. CASE LoadOrCreate
    BY <2>2 DEF LoadOrCreate
  <2>3. CASE TickStat
    BY <2>3 DEF TickStat
  <2>4. CASE Save
    BY <2>4 DEF Save
  <2>5. CASE ApplyDocument
    BY <2>5 DEF ApplyDocument
  <2>6. CASE LoadRead
    BY <2>6 DEF LoadRead
  <2>7. CASE LoadMiss
    BY <2>7 DEF LoadMiss
  <2>8. CASE TickRead
    BY <2>8 DEF TickRead
  <2>9. CASE ApplyThrows
    BY <2>9 DEF ApplyThrows
  <2>10. CASE ApplyRejects
    BY <2>10 DEF ApplyRejects
  <2>11. CASE ApplyLoads
    BY <2>11 DEF ApplyLoads
  <2>12. CASE GenerateRead
    BY <2>12 DEF GenerateRead
  <2>13. CASE Compare
    BY <2>13 DEF Compare
  <2>14. CASE WriteTmp
    BY <2>14 DEF WriteTmp
  <2>15. CASE WriteTmpFails
    BY <2>15 DEF WriteTmpFails
  <2>16. CASE RenameBak
    BY <2>16 DEF RenameBak
  <2>17. CASE RenameBakFails
    BY <2>17 DEF RenameBakFails
  <2>18. CASE RenameTmp
    BY <2>18 DEF RenameTmp
  <2>19. CASE RenameTmpFails
    BY <2>19 DEF RenameTmpFails
  <2>20. CASE Adopt
    BY <2>20 DEF Adopt
  <2>21. CASE SaveStat
    BY <2>21 DEF SaveStat
  <2>22. CASE TimePasses
    BY <2>22 DEF TimePasses
  <2>23. CASE Edit
    BY <2>23 DEF Edit
  <2>24. CASE Delete
    BY <2>24 DEF Delete
  <2>25. CASE RestoreBackup
    BY <2>25 DEF RestoreBackup
  <2>26. CASE Crash
    BY <2>26 DEF Crash
  <2>27. CASE UNCHANGED vars
    BY <2>27 DEF vars
  <2>28. CASE Notify \/ NotifyThrows
    BY <2>28 DEF Notify, NotifyThrows
  <2> QED
    BY <2>1, <2>2, <2>3, <2>4, <2>5, <2>6, <2>7, <2>8, <2>9, <2>10, <2>11, <2>12, <2>13, <2>14, <2>15, <2>16, <2>17, <2>18, <2>19, <2>20, <2>21, <2>22, <2>23, <2>24, <2>25, <2>26, <2>27, <2>28 DEF Next, GameThread, CallStep, Environment
<1> QED
  BY <1>1, <1>2, TypeCorrect, PTL DEF Spec
-------------------------------------------------------------------------------
(***************************************************************************)
(* A save stays on course from its first read to its end.                  *)
(***************************************************************************)
LEMMA SaveOnCourseStep ==
    ASSUME Undisturbed, TypeOK, SaveOnCourse, [Next]_vars
    PROVE  SaveOnCourse'
<1> USE TextTypes, FileTypes, TextsAssumption
    DEF TypeOK, SaveOnCourse, disk, members, Idle, Begin, Goto, Return, Replacing, Rendered
<1>1. CASE Load
  BY <1>1 DEF Load
<1>2. CASE LoadOrCreate
  BY <1>2 DEF LoadOrCreate, NewJob, TextOf
<1>3. CASE TickStat
  BY <1>3 DEF TickStat
<1>4. CASE Save
  BY <1>4 DEF Save, NewJob
<1>5. CASE ApplyDocument
  BY <1>5 DEF ApplyDocument, NewJob
<1>6. CASE LoadRead
  BY <1>6 DEF LoadRead
<1>7. CASE LoadMiss
  BY <1>7 DEF LoadMiss
<1>8. CASE TickRead
  BY <1>8 DEF TickRead
<1>9. CASE ApplyThrows
  BY <1>9 DEF ApplyThrows
<1>10. CASE ApplyRejects
  BY <1>10 DEF ApplyRejects
<1>11. CASE ApplyLoads
  BY <1>11 DEF ApplyLoads
<1>12. CASE GenerateRead
  BY <1>12, UndisturbedRead, RenderAgrees DEF GenerateRead, Jobs, TextOf, Kept, Render, IsDoc, None, Unreadable, Text, Throws, Overflow
<1>13. CASE Compare
  <2>1. PICK text \in ReadFileText(target) :
           \/ text = job.text /\ Goto("adopt", job)
           \/ /\ text # job.text
              /\ Goto("write_tmp", [job EXCEPT !.found = (text # Unreadable)])
    BY <1>13 DEF Compare
  <2>2. /\ target = Absent => text = Unreadable
        /\ target # Absent => text = target.text /\ text # Unreadable
    BY <2>1, UndisturbedRead
  <2>3. CASE text = job.text
    <3>1. text # Unreadable
      BY <2>3 DEF Jobs
    <3>2. target # Absent /\ target.text = job.text
      BY <3>1, <2>2, <2>3
    <3>3. pc' = "adopt" /\ job' = job
      BY <2>1, <2>3
    <3> QED
      BY <1>13, <3>2, <3>3 DEF Compare
  <2>4. CASE text # job.text
    <3>1. pc' = "write_tmp" /\ job' = [job EXCEPT !.found = (text # Unreadable)]
      BY <2>1, <2>4
    <3>2. /\ job'.text = job.text /\ job'.value = job.value
          /\ job'.before = job.before
          /\ job'.found = (text # Unreadable)
      BY <3>1 DEF Jobs
    <3> QED
      BY <1>13, <2>2, <3>1, <3>2 DEF Compare
  <2> QED
    BY <2>3, <2>4
<1>14. CASE WriteTmp
  <2>1. WholeWrites => tmp'.text = job.text
    BY <1>14 DEF WriteTmp, Written, WholeWrites
  <2>2. tmp' # Absent
    BY <1>14 DEF WriteTmp, Written, File, FreshMarks, Jobs
  <2>3. pc' = IF job.found THEN "rename_bak" ELSE "rename_tmp"
    BY <1>14 DEF WriteTmp
  <2>4. job' = job /\ target' = target /\ own' = own
    BY <1>14 DEF WriteTmp
  <2> QED
    BY <1>14, <2>1, <2>2, <2>3, <2>4 DEF WriteTmp, TextOf
<1>15. CASE WriteTmpFails
  BY <1>15 DEF WriteTmpFails
<1>16. CASE RenameBak
  BY <1>16 DEF RenameBak, TextOf
<1>17. CASE RenameBakFails
  BY <1>17 DEF RenameBakFails
<1>18. CASE RenameTmp
  BY <1>18 DEF RenameTmp
<1>19. CASE RenameTmpFails
  BY <1>19 DEF RenameTmpFails
<1>20. CASE Adopt
  BY <1>20 DEF Adopt
<1>21. CASE SaveStat
  BY <1>21 DEF SaveStat
<1>22. CASE TimePasses
  BY <1>22 DEF TimePasses
<1>23. CASE Edit
  <2>1. Idle /\ pc' = pc
    BY <1>23 DEF Edit, MayTouchFile, Undisturbed
  <2>2. target' \in File
    BY <1>23, ConfigFileAssumption DEF Edit, File, FreshMarks, Undisturbed
  <2>3. own' => own /\ target'.text = target.text
    <3>1. PICK text, mark : /\ target' = [text |-> text, mark |-> mark]
                            /\ own' = (own /\ text = target.text)
      BY <1>23, Zenon DEF Edit
    <3>2. target'.text = text
      BY <3>1
    <3>3. own' <=> own /\ text = target.text
      BY <3>1, Zenon
    <3> QED
      BY <3>2, <3>3
  <2> QED
    BY <2>1, <2>2, <2>3
<1>24. CASE Delete
  BY <1>24 DEF Delete, MayTouchFile, Undisturbed
<1>25. CASE RestoreBackup
  BY <1>25 DEF RestoreBackup, MayTouchFile, Undisturbed
<1>26. CASE Crash
  BY <1>26 DEF Crash
<1>27. CASE UNCHANGED vars
  BY <1>27 DEF vars
<1>28. CASE Notify \/ NotifyThrows
  BY <1>28 DEF Notify, NotifyThrows
<1> QED
  BY <1>1, <1>2, <1>3, <1>4, <1>5, <1>6, <1>7, <1>8, <1>9, <1>10, <1>11, <1>12, <1>13, <1>14, <1>15, <1>16, <1>17, <1>18, <1>19, <1>20, <1>21, <1>22, <1>23, <1>24, <1>25, <1>26, <1>27, <1>28 DEF Next, GameThread, CallStep, Environment

(***************************************************************************)
(* With undisturbed calls, every save stays on course.                     *)
(***************************************************************************)
THEOREM SaveOnCourseAlways ==
    ASSUME Undisturbed
    PROVE  Spec => [](TypeOK /\ SaveOnCourse)
<1>1. Init => SaveOnCourse
  BY DEF Init, SaveOnCourse, Replacing, Rendered
<1>2. TypeOK /\ SaveOnCourse /\ [Next]_vars => SaveOnCourse'
  BY SaveOnCourseStep
<1> QED
  BY <1>1, <1>2, TypeCorrect, PTL DEF Spec

(***************************************************************************)
(* What a save puts at the path is a whole document (File.hpp:44-45).      *)
(***************************************************************************)
THEOREM NeverTornAlways ==
    ASSUME Undisturbed, WholeWrites
    PROVE  Spec => []NeverTorn
<1>1. SaveOnCourse => NeverTorn
  BY DEF SaveOnCourse, NeverTorn, IsDoc
<1> QED
  BY <1>1, SaveOnCourseAlways, PTL

(***************************************************************************)
(* No step of a call takes bytes off the disk that the backup does not     *)
(* hold (File.hpp:5-6).                                                    *)
(***************************************************************************)
THEOREM NothingLostAlways ==
    ASSUME Undisturbed
    PROVE  Spec => NothingLost
<1>1. ASSUME TypeOK, SaveOnCourse, GameThread, target # Absent
      PROVE  \/ target' # Absent /\ target'.text = target.text
             \/ bak' # Absent /\ bak'.text = target.text
  <2>1. CASE RenameBak
    BY <1>1, <2>1 DEF RenameBak
  <2>2. CASE RenameTmp
    BY <1>1, <2>2 DEF RenameTmp, SaveOnCourse
  <2>3. CASE ~RenameBak /\ ~RenameTmp
    <3>1. target' = target
      BY <1>1, <2>3 DEF GameThread, CallStep, disk, Load, LoadOrCreate, TickStat,
         Save, ApplyDocument, LoadRead, LoadMiss, TickRead, ApplyThrows,
         ApplyRejects, ApplyLoads, GenerateRead, Compare, WriteTmp,
         WriteTmpFails, RenameBakFails, RenameTmpFails, Adopt, SaveStat, Notify, NotifyThrows
    <3> QED
      BY <1>1, <3>1
  <2> QED
    BY <2>1, <2>2, <2>3
<1>2. TypeOK /\ SaveOnCourse /\ [Next]_vars
         => [GameThread /\ target # Absent
               => \/ target' # Absent /\ target'.text = target.text
                  \/ bak' # Absent /\ bak'.text = target.text]_vars
  BY <1>1
<1> QED
  BY <1>2, SaveOnCourseAlways, PTL DEF Spec, NothingLost

(***************************************************************************)
(* A successful save keeps every key nobody claims (ConfigFile.hpp:121).   *)
(***************************************************************************)
THEOREM SaveKeepsKeysAlways ==
    ASSUME Undisturbed, WholeWrites
    PROVE  Spec => SaveKeepsKeys
<1>1. TypeOK /\ SaveOnCourse /\ [Next]_vars
         => [SaveSucceeds /\ job.before # None
               => /\ target # Absent
                  /\ Kept(job.before) \subseteq Kept(target.text)]_vars
  BY DEF SaveOnCourse, SaveSucceeds, Kept
<1> QED
  BY <1>1, SaveOnCourseAlways, PTL DEF Spec, SaveKeepsKeys

(***************************************************************************)
(* After a successful save the file spells the live settings.              *)
(***************************************************************************)
THEOREM SavedIsOnDiskAlways ==
    ASSUME Undisturbed, WholeWrites
    PROVE  Spec => SavedIsOnDisk
<1>1. TypeOK /\ SaveOnCourse /\ [Next]_vars
         => [SaveSucceeds
               => /\ target # Absent
                  /\ IsDoc(target.text) /\ target.text.value = live]_vars
  BY DEF SaveOnCourse, SaveSucceeds
<1> QED
  BY <1>1, SaveOnCourseAlways, PTL DEF Spec, SavedIsOnDisk

(***************************************************************************)
(* A commit that answers with an error has written nothing, as long as the *)
(* second rename does not fail (ConfigFile.hpp:139-141).                   *)
(***************************************************************************)
THEOREM ErrorWritesNothingAlways ==
    ASSUME Undisturbed, "rename_tmp" \notin Faults
    PROVE  Spec => ErrorWritesNothing
<1>1. ASSUME TypeOK, SaveOnCourse, CallOnCourse, [Next]_vars,
             vars' # vars, job.call = "apply", Idle', result' = "error"
      PROVE  TextOf(target') = job.before
  <2> USE <1>1 DEF Idle, Begin, Goto, Return, disk, CallOnCourse, SaveOnCourse, Replacing
  <2>1. CASE GenerateRead
    BY <2>1 DEF GenerateRead
  <2>2. CASE WriteTmpFails
    BY <2>2 DEF WriteTmpFails
  <2>3. CASE RenameBakFails
    BY <2>3 DEF RenameBakFails
  <2>4. CASE GameThread /\ ~GenerateRead /\ ~WriteTmpFails /\ ~RenameBakFails
    <3>1. FALSE
      BY <2>4 DEF GameThread, CallStep, Load, LoadOrCreate, TickStat,
         Save, ApplyDocument, LoadRead, LoadMiss, TickRead, ApplyThrows,
         ApplyRejects, ApplyLoads, Compare, WriteTmp, RenameBak,
         RenameTmp, RenameTmpFails, Adopt, SaveStat, Notify, NotifyThrows
    <3> QED
      BY <3>1
  <2>5. CASE Environment
    BY <2>5 DEF Environment, TimePasses, Edit, Delete, RestoreBackup, Crash
  <2> QED
    BY <2>1, <2>2, <2>3, <2>4, <2>5 DEF Next
<1>2. TypeOK /\ SaveOnCourse /\ CallOnCourse /\ [Next]_vars
         => [job.call = "apply" /\ Idle' /\ result' = "error"
               => TextOf(target') = job.before]_vars
  BY <1>1
<1> QED
  BY <1>2, SaveOnCourseAlways, CallOnCourseAlways, PTL DEF Spec, ErrorWritesNothing
-------------------------------------------------------------------------------
(***************************************************************************)
(* As long as the file can be read back, a Tick never reloads bytes this   *)
(* process saved, even with edits in the middle of calls and edits that    *)
(* keep the stamp (ConfigFile.hpp:5-7).                                    *)
(***************************************************************************)
THEOREM SaveIsNoEditAlways ==
    ASSUME "read" \notin Faults
    PROVE  Spec => SaveIsNoEdit
<1>1. Init => OwnSeen
  BY DEF Init, OwnSeen
<1>2. TypeOK /\ OwnSeen /\ [Next]_vars => OwnSeen'
  <2> SUFFICES ASSUME TypeOK, OwnSeen, [Next]_vars PROVE OwnSeen'
    OBVIOUS
  <2> USE TextTypes, FileTypes DEF TypeOK, Jobs, OwnSeen, disk, members, Idle, Begin, Goto, Return, ReadFileText
  <2>1. CASE Load
    BY <2>1 DEF Load
  <2>2. CASE LoadOrCreate
    BY <2>2 DEF LoadOrCreate
  <2>3. CASE TickStat
    BY <2>3 DEF TickStat
  <2>4. CASE Save
    BY <2>4 DEF Save
  <2>5. CASE ApplyDocument
    BY <2>5 DEF ApplyDocument
  <2>6. CASE LoadRead
    BY <2>6 DEF LoadRead
  <2>7. CASE LoadMiss
    BY <2>7 DEF LoadMiss
  <2>8. CASE TickRead
    BY <2>8 DEF TickRead
  <2>9. CASE ApplyThrows
    BY <2>9 DEF ApplyThrows
  <2>10. CASE ApplyRejects
    BY <2>10 DEF ApplyRejects
  <2>11. CASE ApplyLoads
    BY <2>11 DEF ApplyLoads
  <2>12. CASE GenerateRead
    BY <2>12 DEF GenerateRead
  <2>13. CASE Compare
    BY <2>13 DEF Compare
  <2>14. CASE WriteTmp
    BY <2>14 DEF WriteTmp, Written, File, FreshMarks
  <2>15. CASE WriteTmpFails
    BY <2>15 DEF WriteTmpFails
  <2>16. CASE RenameBak
    BY <2>16 DEF RenameBak
  <2>17. CASE RenameBakFails
    BY <2>17 DEF RenameBakFails
  <2>18. CASE RenameTmp
    BY <2>18 DEF RenameTmp
  <2>19. CASE RenameTmpFails
    BY <2>19 DEF RenameTmpFails
  <2>20. CASE Adopt
    BY <2>20 DEF Adopt
  <2>21. CASE SaveStat
    BY <2>21 DEF SaveStat
  <2>22. CASE TimePasses
    BY <2>22 DEF TimePasses
  <2>23. CASE Edit
    <3>1. PICK text, mark :
                  /\ text \in EditTexts \cup ({TextOf(target)} \ {None})
                  /\ target' = [text |-> text, mark |-> mark]
                  /\ own' = (own /\ text = target.text)
      BY <2>23, Zenon DEF Edit
    <3>2. text \in Text /\ target'.text = text
      BY <3>1, ConfigFileAssumption
    <3>3. own' <=> own /\ text = target.text
      BY <3>1, Zenon
    <3>4. target' # Absent
      <4>1. target' \in File
        BY <2>23, ConfigFileAssumption DEF Edit, File, FreshMarks, StatFile
      <4> QED
        BY <4>1
    <3>5. pc' = pc /\ job' = job /\ lastText' = lastText /\ tmp' = tmp
      BY <2>23 DEF Edit
    <3> QED
      BY <3>2, <3>3, <3>4, <3>5
  <2>24. CASE Delete
    BY <2>24 DEF Delete
  <2>25. CASE RestoreBackup
    BY <2>25 DEF RestoreBackup
  <2>26. CASE Crash
    BY <2>26 DEF Crash
  <2>27. CASE UNCHANGED vars
    BY <2>27 DEF vars
  <2>28. CASE Notify \/ NotifyThrows
    BY <2>28 DEF Notify, NotifyThrows
  <2> QED
    BY <2>1, <2>2, <2>3, <2>4, <2>5, <2>6, <2>7, <2>8, <2>9, <2>10, <2>11, <2>12, <2>13, <2>14, <2>15, <2>16, <2>17, <2>18, <2>19, <2>20, <2>21, <2>22, <2>23, <2>24, <2>25, <2>26, <2>27, <2>28 DEF Next, GameThread, CallStep, Environment
<1>3. TypeOK /\ OwnSeen /\ [Next]_vars
         => [own /\ pc = "tick_read" => pc' # "apply"]_vars
  <2> SUFFICES ASSUME TypeOK, OwnSeen, Next, own, pc = "tick_read", pc' = "apply"
               PROVE  FALSE
    OBVIOUS
  <2>1. TickRead
    BY DEF Next, GameThread, CallStep, Environment, Idle, Begin, Goto, Return,
       Load, LoadOrCreate, TickStat, Save, ApplyDocument, LoadRead, LoadMiss,
       ApplyThrows, ApplyRejects, ApplyLoads, GenerateRead, Compare, WriteTmp,
       WriteTmpFails, RenameBak, RenameBakFails, RenameTmp, RenameTmpFails,
       Adopt, SaveStat, Notify, NotifyThrows, TimePasses, Edit, Delete, RestoreBackup, Crash
  <2> QED
    BY <2>1 DEF TickRead, ReadFileText, OwnSeen, Return, Goto
<1> QED
  BY <1>1, <1>2, <1>3, TypeCorrect, PTL DEF Spec, SaveIsNoEdit

-----------------------------------------------------------------------------
(* Reports of a file that does not parse, where no text makes the parse throw *)

(***************************************************************************)
(* If no editor writes a number too large for a double, no file and no     *)
(* text of a call holds one: PalCfg renders none, and a lost flush leaves  *)
(* none behind (JsonBackend.cpp:126-137).                                  *)
(***************************************************************************)
LEMMA NothingThrowsAlways ==
    ASSUME Overflow \notin EditTexts
    PROVE  Spec => []NothingThrows
<1> USE DEF NothingThrows, TextOf
<1>1. Init => NothingThrows
  BY TextTypes, ConfigFileAssumption DEF Init, NoJob, NewJob, Overflow, Empty, None, File
<1>2. TypeOK /\ NothingThrows /\ [Next]_vars => NothingThrows'
  <2> SUFFICES ASSUME TypeOK, NothingThrows, [Next]_vars PROVE NothingThrows'
    OBVIOUS
  <2> USE DEF disk, Idle, Begin, Goto, Return, NewJob, NoJob
  <2>1. None # Overflow /\ Empty # Overflow /\ Broken # Overflow
    BY DEF None, Overflow, Empty, Broken
  <2>2. \A v \in Values, k \in SUBSET Extras : Render(v, k) # Overflow
    BY DEF Render, Overflow
  <2>3. CASE Load
    BY <2>1, <2>2, <2>3 DEF Load
  <2>4. CASE LoadOrCreate
    BY <2>1, <2>2, <2>4 DEF LoadOrCreate
  <2>5. CASE TickStat
    BY <2>1, <2>2, <2>5 DEF TickStat
  <2>6. CASE Save
    BY <2>1, <2>2, <2>6 DEF Save
  <2>7. CASE ApplyDocument
    BY <2>1, <2>2, <2>7 DEF ApplyDocument, TypeOK
  <2>8. CASE LoadRead
    BY <2>1, <2>2, <2>8 DEF LoadRead, ReadFileText, Jobs, TypeOK
  <2>9. CASE LoadMiss
    BY <2>1, <2>2, <2>9 DEF LoadMiss
  <2>10. CASE TickRead
    BY <2>1, <2>2, <2>10 DEF TickRead, ReadFileText, Jobs, TypeOK
  <2>11. CASE ApplyThrows
    BY <2>1, <2>2, <2>11 DEF ApplyThrows
  <2>12. CASE ApplyRejects
    BY <2>1, <2>2, <2>12 DEF ApplyRejects
  <2>13. CASE ApplyLoads
    BY <2>1, <2>2, <2>13 DEF ApplyLoads
  <2>14. CASE GenerateRead
    <3>1. UNCHANGED <<target, tmp, bak>>
      BY <2>14 DEF GenerateRead
    <3>2. CASE job' = NoJob
      BY <2>1, <3>1, <3>2
    <3>3. CASE \E text \in ReadFileText(target) :
                  job' = [job EXCEPT !.text = Render(job.value, Kept(text))]
      <4>1. PICK text \in ReadFileText(target) :
                job' = [job EXCEPT !.text = Render(job.value, Kept(text))]
        BY <3>3
      <4>2. job \in Jobs /\ job.value \in Values /\ Kept(text) \in SUBSET Extras
        BY TextTypes, FileTypes, JobTypes DEF TypeOK
      <4>3. job'.text = Render(job.value, Kept(text))
        BY <4>1, <4>2 DEF Jobs
      <4> QED
        BY <2>2, <3>1, <4>2, <4>3
    <3> QED
      BY <2>14, <3>2, <3>3 DEF GenerateRead
  <2>15. CASE Compare
    <3>1. UNCHANGED <<target, tmp, bak>> /\ job'.text = job.text
      BY <2>15 DEF Compare, TypeOK, Jobs
    <3> QED
      BY <3>1
  <2>16. CASE WriteTmp
    BY <2>1, <2>2, <2>16 DEF WriteTmp, Written
  <2>17. CASE WriteTmpFails
    BY <2>1, <2>2, <2>17 DEF WriteTmpFails
  <2>18. CASE RenameBak
    BY <2>1, <2>2, <2>18 DEF RenameBak
  <2>19. CASE RenameBakFails
    BY <2>1, <2>2, <2>19 DEF RenameBakFails
  <2>20. CASE RenameTmp
    BY <2>1, <2>2, <2>20 DEF RenameTmp
  <2>21. CASE RenameTmpFails
    BY <2>1, <2>2, <2>21 DEF RenameTmpFails
  <2>22. CASE Adopt
    BY <2>1, <2>2, <2>22 DEF Adopt
  <2>23. CASE SaveStat
    BY <2>1, <2>2, <2>23 DEF SaveStat
  <2>24. CASE TimePasses
    BY <2>1, <2>2, <2>24 DEF TimePasses
  <2>25. CASE Edit
    BY <2>1, <2>2, <2>25 DEF Edit, TypeOK
  <2>26. CASE Delete
    BY <2>1, <2>2, <2>26 DEF Delete
  <2>27. CASE RestoreBackup
    BY <2>1, <2>2, <2>27 DEF RestoreBackup
  <2>28. CASE Crash
    BY <2>1, <2>2, <2>28 DEF Crash
  <2>29. CASE UNCHANGED vars
    BY <2>29 DEF vars
  <2>30. CASE Notify \/ NotifyThrows
    BY <2>1, <2>2, <2>30 DEF Notify, NotifyThrows
  <2> QED
    BY <2>3, <2>4, <2>5, <2>6, <2>7, <2>8, <2>9, <2>10, <2>11, <2>12, <2>13, <2>14, <2>15, <2>16, <2>17, <2>18, <2>19, <2>20, <2>21, <2>22, <2>23, <2>24, <2>25, <2>26, <2>27, <2>28, <2>29, <2>30 DEF Next, GameThread, CallStep, Environment
<1> QED
  BY <1>1, <1>2, TypeCorrect, PTL DEF Spec

(***************************************************************************)
(* What is told of is what was read, in every step of a call whose files   *)
(* can be read (ConfigFile.hpp:109-118 and 177-193).                       *)
(***************************************************************************)
LEMMA ToldIsReadAlways ==
    ASSUME Overflow \notin EditTexts, "read" \notin Faults
    PROVE  Spec => []ToldIsRead
<1> USE DEF ToldIsRead, TextOf
<1>1. Init => ToldIsRead
  BY DEF Init
<1>2. TypeOK /\ CallOnCourse /\ NothingThrows /\ ToldIsRead /\ [Next]_vars => ToldIsRead'
  <2> SUFFICES ASSUME TypeOK, CallOnCourse, NothingThrows, ToldIsRead, [Next]_vars PROVE ToldIsRead'
    OBVIOUS
  <2> USE TextTypes, FileTypes DEF TypeOK, Jobs, disk, members, Idle, Begin, Goto, Return, ReadFileText
  <2>1. CASE Load
    BY <2>1 DEF Load
  <2>2. CASE LoadOrCreate
    BY <2>2 DEF LoadOrCreate
  <2>3. CASE TickStat
    BY <2>3 DEF TickStat
  <2>4. CASE Save
    BY <2>4 DEF Save
  <2>5. CASE ApplyDocument
    BY <2>5 DEF ApplyDocument
  <2>6. CASE LoadRead
    <3>1. CASE pc' = "apply"
      <4>1. job'.text = TextOf(target) /\ job'.call = job.call
        BY <2>6, <3>1 DEF LoadRead
      <4>2. job.call # "tick"
        BY <2>6 DEF LoadRead, CallOnCourse
      <4> QED
        BY <2>6, <3>1, <4>1, <4>2 DEF LoadRead
    <3>2. CASE pc' # "apply"
      BY <2>6, <3>2 DEF LoadRead
    <3> QED
      BY <3>1, <3>2
  <2>7. CASE LoadMiss
    BY <2>7 DEF LoadMiss
  <2>8. CASE TickRead
    BY <2>8 DEF TickRead
  <2>9. CASE ApplyThrows
    BY <2>9 DEF ApplyThrows, NothingThrows, Throws, Overflow, Text, Docs, Empty, Broken
  <2>10. CASE ApplyRejects
    BY <2>10 DEF ApplyRejects
  <2>11. CASE ApplyLoads
    BY <2>11 DEF ApplyLoads
  <2>12. CASE GenerateRead
    BY <2>12 DEF GenerateRead
  <2>13. CASE Compare
    BY <2>13 DEF Compare
  <2>14. CASE WriteTmp
    BY <2>14 DEF WriteTmp
  <2>15. CASE WriteTmpFails
    BY <2>15 DEF WriteTmpFails
  <2>16. CASE RenameBak
    BY <2>16 DEF RenameBak, Retell
  <2>17. CASE RenameBakFails
    BY <2>17 DEF RenameBakFails
  <2>18. CASE RenameTmp
    BY <2>18 DEF RenameTmp, Retell
  <2>19. CASE RenameTmpFails
    BY <2>19 DEF RenameTmpFails
  <2>20. CASE Adopt
    BY <2>20 DEF Adopt
  <2>21. CASE SaveStat
    BY <2>21 DEF SaveStat
  <2>22. CASE TimePasses
    BY <2>22 DEF TimePasses
  <2>23. CASE Edit
    BY <2>23 DEF Edit, Retell
  <2>24. CASE Delete
    BY <2>24 DEF Delete, Retell
  <2>25. CASE RestoreBackup
    BY <2>25 DEF RestoreBackup, Retell
  <2>26. CASE Crash
    BY <2>26 DEF Crash
  <2>27. CASE UNCHANGED vars
    BY <2>27 DEF vars
  <2>28. CASE Notify \/ NotifyThrows
    BY <2>28 DEF Notify, NotifyThrows
  <2> QED
    BY <2>1, <2>2, <2>3, <2>4, <2>5, <2>6, <2>7, <2>8, <2>9, <2>10, <2>11, <2>12, <2>13, <2>14, <2>15, <2>16, <2>17, <2>18, <2>19, <2>20, <2>21, <2>22, <2>23, <2>24, <2>25, <2>26, <2>27, <2>28 DEF Next, GameThread, CallStep, Environment
<1> QED
  BY <1>1, <1>2, TypeCorrect, CallOnCourseAlways, NothingThrowsAlways, PTL DEF Spec

(***************************************************************************)
(* A file that cannot be parsed is reported once rather than on every poll *)
(* (ConfigFile.hpp:177-178), and one on which the callback throws is not   *)
(* loaded again, with edits in the middle of calls, edits that keep the    *)
(* stamp, failing writes and restarts, if the file can be read and nobody  *)
(* types a number too large for a double.                                  *)
(***************************************************************************)
THEOREM FailsOnceAlways ==
    ASSUME Overflow \notin EditTexts, "read" \notin Faults
    PROVE  Spec => FailsOnce
<1>1. ASSUME TypeOK, CallOnCourse, ToldIsRead, [Next]_vars,
             vars' # vars, job.call = "tick", result' \in {"error", "threw"}, Idle'
      PROVE  told # job.text
  <2> USE <1>1 DEF Idle, Begin, Goto, Return, CallOnCourse, Replacing, Rendered, ToldIsRead
  <2>1. CASE ApplyRejects \/ ApplyThrows \/ NotifyThrows
    BY <2>1 DEF ApplyRejects, ApplyThrows, NotifyThrows
  <2>2. CASE GameThread /\ ~ApplyRejects /\ ~ApplyThrows /\ ~NotifyThrows
    <3>1. FALSE
      BY <2>2 DEF GameThread, CallStep, Load, LoadOrCreate, TickStat,
         Save, ApplyDocument, LoadRead, LoadMiss, TickRead, ApplyLoads,
         GenerateRead, Compare, WriteTmp, WriteTmpFails, RenameBak,
         RenameBakFails, RenameTmp, RenameTmpFails, Adopt, SaveStat, Notify
    <3> QED
      BY <3>1
  <2>3. CASE Environment
    BY <2>3 DEF Environment, TimePasses, Edit, Delete, RestoreBackup, Crash
  <2> QED
    BY <2>1, <2>2, <2>3 DEF Next
<1>2. TypeOK /\ CallOnCourse /\ ToldIsRead /\ [Next]_vars
         => [job.call = "tick" /\ result' \in {"error", "threw"} /\ Idle'
               => told # job.text]_vars
  BY <1>1
<1> QED
  BY <1>2, TypeCorrect, CallOnCourseAlways, ToldIsReadAlways, PTL DEF Spec, FailsOnce

-----------------------------------------------------------------------------
(* The settings store, where calls are undisturbed and no bytes are lost on close *)

(***************************************************************************)
(* What the mapping rests on, in each state.                               *)
(***************************************************************************)
OnCourse == TypeOK /\ Coherent /\ SaveOnCourse

(***************************************************************************)
(* The store reads a text as ConfigFile does.                              *)
(***************************************************************************)
LEMMA SameTexts ==
    /\ Store!Docs = Docs /\ Store!Text = Text /\ Store!Empty = Empty
    /\ \A t : Store!Kept(t) = Kept(t)
    /\ \A t : Store!LoadFromText(t) = LoadFromText(t)
    /\ \A v, k : Store!Render(v, k) = Render(v, k)
  BY DEF Store!Docs, Docs, Store!Text, Text, Store!Empty, Empty, Store!Broken,
     Broken, Store!Overflow, Overflow, Store!Kept, Kept, Store!IsDoc, IsDoc,
     Store!LoadFromText, LoadFromText, Store!Render, Render

(***************************************************************************)
(* A step that leaves the target, the backup and the live settings alone   *)
(* and stays out of the two labels the mapping looks at begins a call,     *)
(* ends one, or is not seen.                                               *)
(***************************************************************************)
LEMMA Unseen ==
    ASSUME UNCHANGED <<target, bak, live>>,
           pc \notin {"rename_tmp", "adopt"}, pc' \notin {"rename_tmp", "adopt"}
    PROVE  [Store!Next]_(Store!vars)
<1>1. StoredText' = StoredText /\ StoredLive' = StoredLive /\ TextOf(bak)' = TextOf(bak)
  BY DEF StoredText, StoredLive, TextOf
<1>2. CASE Idle /\ ~Idle'
  BY <1>1, <1>2 DEF Store!Next, Store!Begin
<1>3. CASE ~Idle /\ Idle'
  BY <1>1, <1>3 DEF Store!Next, Store!End
<1>4. CASE Idle <=> Idle'
  BY <1>1, <1>4, Zenon DEF Store!vars, Idle
<1> QED
  BY <1>2, <1>3, <1>4

(***************************************************************************)
(* The moment a save puts its text at the path, or finds it there, is the  *)
(* commit (File.cpp:60-61 and 84).                                         *)
(***************************************************************************)
LEMMA CommitPoint ==
    ASSUME WholeWrites, OnCourse, OnCourse',
           pc \in {"compare", "rename_tmp"}, pc' = "adopt",
           job' = job, bak' = bak,
           StoredText = job.before,
           job.before \in {None, TextOf(bak), job.text}
    PROVE  Store!Commit
<1>1. /\ job.before \in Docs \cup {Empty, None}
      /\ Kept(job.before) \subseteq job.text.kept
  BY DEF OnCourse, SaveOnCourse, Rendered
<1>2. StoredText' = job.text
  BY DEF OnCourse, SaveOnCourse, StoredText, TextOf
<1>3. StoredLive' = job.value /\ job.value \in Values
  BY JobTypes DEF OnCourse, TypeOK, StoredLive
<1>4. PICK kept \in SUBSET Extras : job.text = Render(job.value, kept)
  BY DEF OnCourse, Coherent, CallAgrees
<1>5. Kept(job.before) \subseteq kept
  BY <1>1, <1>4 DEF Render
<1>6. TextOf(bak)' = TextOf(bak)
  BY DEF TextOf
<1>7. ~Idle /\ ~Idle'
  BY DEF Idle
<1> QED
  BY <1>1, <1>2, <1>3, <1>4, <1>5, <1>6, <1>7, SameTexts
     DEF Store!Commit, Store!Replaceable

(***************************************************************************)
(* Every step of a call and of its surroundings is a step of the store.    *)
(***************************************************************************)
LEMMA StoreStep ==
    ASSUME Undisturbed, WholeWrites, OnCourse, OnCourse', [Next]_vars
    PROVE  [Store!Next]_(Store!vars)
<1> USE DEF disk, members, Begin, Goto, Return
<1>1. CASE Load \/ LoadOrCreate \/ TickStat \/ Save \/ ApplyDocument
  BY <1>1, Unseen DEF Load, LoadOrCreate, TickStat, Save, ApplyDocument, Idle
<1>2. CASE LoadRead \/ LoadMiss \/ TickRead
  BY <1>2, Unseen DEF LoadRead, LoadMiss, TickRead
<1>3. CASE ApplyThrows \/ ApplyRejects
  BY <1>3, Unseen DEF ApplyThrows, ApplyRejects
<1>4. CASE ApplyLoads
  <2>1. /\ target # Absent /\ job.text = target.text
        /\ job.text \in Docs
    BY <1>4, TextTypes, JobTypes DEF ApplyLoads, OnCourse, Coherent, CallAgrees, TypeOK
  <2>2. /\ StoredText = job.text /\ StoredText' = StoredText
        /\ TextOf(bak)' = TextOf(bak)
    BY <1>4, <2>1 DEF ApplyLoads, StoredText, TextOf
  <2>3. StoredLive' = LoadFromText(job.text) /\ ~Idle /\ (~Idle)' \in BOOLEAN
    BY <1>4 DEF ApplyLoads, StoredLive, Idle
  <2>4. Store!Load
    BY <2>1, <2>2, <2>3, SameTexts DEF Store!Load
  <2> QED
    BY <2>4 DEF Store!Next
<1>5. CASE GenerateRead
  BY <1>5, Unseen DEF GenerateRead
<1>6. CASE Compare
  <2>1. CASE pc' = "adopt"
    <3>1. job' = job /\ target' = target /\ bak' = bak /\ pc = "compare"
      BY <1>6, <2>1 DEF Compare
    <3>2. StoredText = job.before
      BY <3>1 DEF OnCourse, SaveOnCourse, Replacing, StoredText
    <3>3. target' # Absent /\ target'.text = job.text
      BY <2>1, <3>1 DEF OnCourse, SaveOnCourse
    <3>4. job.before = job.text
      BY <3>1, <3>3 DEF OnCourse, SaveOnCourse, Replacing, TextOf
    <3>5. Store!Commit
      BY <2>1, <3>1, <3>2, <3>4, CommitPoint
    <3> QED
      BY <3>5 DEF Store!Next
  <2>2. CASE pc' # "adopt"
    BY <1>6, <2>2, Unseen DEF Compare
  <2> QED
    BY <2>1, <2>2
<1>7. CASE WriteTmp
  <2>1. /\ pc = "write_tmp" /\ TextOf(target) = job.before
        /\ target' = target /\ bak' = bak /\ live' = live /\ job' = job
        /\ pc' \in {"rename_bak", "rename_tmp"}
    BY <1>7 DEF WriteTmp, OnCourse, SaveOnCourse, Replacing
  <2>2. UNCHANGED <<StoredText, TextOf(bak), StoredLive>> /\ ~Idle /\ ~Idle'
    BY <2>1 DEF StoredText, StoredLive, TextOf, Idle
  <2> QED
    BY <2>2 DEF Store!vars
<1>8. CASE WriteTmpFails
  BY <1>8, Unseen DEF WriteTmpFails
<1>9. CASE RenameBak
  <2>1. /\ pc = "rename_bak" /\ pc' = "rename_tmp" /\ job' = job
        /\ target # Absent /\ bak' = target /\ live' = live
        /\ TextOf(target) = job.before
    BY <1>9 DEF RenameBak, OnCourse, SaveOnCourse, Replacing
  <2>2. /\ StoredText = job.before /\ StoredText' = StoredText
        /\ StoredLive' = StoredLive /\ ~Idle /\ ~Idle'
    BY <2>1 DEF StoredText, StoredLive, Idle
  <2>3. TextOf(bak)' = job.before /\ job.before # None
    BY <2>1, TextTypes, FileTypes DEF TextOf, OnCourse, TypeOK
  <2>4. job.before \in Docs \cup {Empty, None}
    BY <2>1 DEF OnCourse, SaveOnCourse, Rendered
  <2>5. Store!Shelve
    BY <2>2, <2>3, <2>4, SameTexts DEF Store!Shelve, Store!Replaceable
  <2> QED
    BY <2>5 DEF Store!Next
<1>10. CASE RenameBakFails
  BY <1>10, Unseen DEF RenameBakFails
<1>11. CASE RenameTmp
  <2>1. pc = "rename_tmp" /\ pc' = "adopt" /\ job' = job /\ bak' = bak
    BY <1>11 DEF RenameTmp
  <2>2. StoredText = job.before
    BY <2>1 DEF StoredText
  <2>3. job.before # None => TextOf(bak) = job.before
    BY <2>1 DEF OnCourse, SaveOnCourse, TextOf
  <2>4. Store!Commit
    BY <2>1, <2>2, <2>3, CommitPoint
  <2> QED
    BY <2>4 DEF Store!Next
<1>12. CASE RenameTmpFails
  <2>1. /\ pc = "rename_tmp" /\ Idle' /\ ~Idle /\ pc' # "rename_tmp" /\ pc' # "adopt"
        /\ target = Absent /\ target' = target /\ bak' = bak /\ live' = live
        /\ job.before # None => TextOf(bak) = job.before
    BY <1>12 DEF RenameTmpFails, OnCourse, SaveOnCourse, TextOf, Idle
  <2>2. /\ StoredText = job.before /\ StoredText' = None
        /\ StoredLive' = StoredLive /\ TextOf(bak)' = TextOf(bak)
    BY <2>1 DEF StoredText, StoredLive, TextOf
  <2>3. CASE job.before = None
    BY <2>1, <2>2, <2>3 DEF Store!Next, Store!End
  <2>4. CASE job.before # None
    BY <2>1, <2>2, <2>4 DEF Store!Next, Store!FallShort
  <2> QED
    BY <2>3, <2>4
<1>13. CASE Adopt
  <2>1. /\ pc = "adopt" /\ pc' = "save_stat" /\ live' = job.value
        /\ target' = target /\ bak' = bak
    BY <1>13 DEF Adopt
  <2>2. UNCHANGED <<StoredText, TextOf(bak), StoredLive>> /\ ~Idle /\ ~Idle'
    BY <2>1 DEF StoredText, StoredLive, TextOf, Idle
  <2> QED
    BY <2>2 DEF Store!vars
<1>14. CASE SaveStat
  BY <1>14, Unseen DEF SaveStat
<1>15. CASE TimePasses
  <2>1. UNCHANGED <<StoredText, TextOf(bak), StoredLive, Idle>>
    BY <1>15 DEF TimePasses, StoredText, StoredLive, TextOf, Idle
  <2> QED
    BY <2>1 DEF Store!vars
<1>16. CASE Edit \/ Delete
  <2>1. /\ Idle /\ pc' = pc /\ live' = live /\ bak' = bak
        /\ target' \in File \cup {Absent}
    BY <1>16 DEF Edit, Delete, MayTouchFile, Undisturbed, OnCourse, TypeOK
  <2>2. /\ StoredText' = TextOf(target') /\ TextOf(target') \in Text \cup {None}
        /\ StoredLive' = StoredLive /\ TextOf(bak)' = TextOf(bak) /\ Idle'
    BY <2>1, FileTypes DEF StoredText, StoredLive, TextOf, Idle
  <2>3. Store!Edit
    BY <2>1, <2>2, SameTexts DEF Store!Edit
  <2> QED
    BY <2>3 DEF Store!Next
<1>17. CASE RestoreBackup
  <2>1. /\ Idle /\ pc' = pc /\ live' = live
        /\ bak # Absent /\ target' = bak /\ bak' = Absent
    BY <1>17 DEF RestoreBackup, MayTouchFile, Undisturbed
  <2>2. TextOf(bak) # None
    BY <2>1, TextTypes, FileTypes DEF TextOf, OnCourse, TypeOK
  <2>3. /\ StoredText' = TextOf(bak) /\ TextOf(bak)' = None
        /\ StoredLive' = StoredLive /\ Idle'
    BY <2>1 DEF StoredText, StoredLive, TextOf, Idle
  <2>4. Store!Restore
    BY <2>1, <2>2, <2>3 DEF Store!Restore
  <2> QED
    BY <2>4 DEF Store!Next
<1>18. CASE Crash
  <2>1. /\ Idle' /\ pc' # "rename_tmp" /\ pc' # "adopt" /\ live' = Default
        /\ target' = target /\ bak' = bak
    BY <1>18 DEF Crash, Idle
  <2>2. /\ StoredLive' = Default /\ TextOf(bak)' = TextOf(bak)
        /\ StoredText' = TextOf(target)
    BY <2>1 DEF StoredText, StoredLive, TextOf
  <2>3. CASE pc = "rename_tmp" /\ job.before # None
    <3>1. StoredText' = None /\ TextOf(bak) = StoredText /\ ~Idle
      BY <2>2, <2>3 DEF OnCourse, SaveOnCourse, StoredText, TextOf, Idle
    <3> QED
      BY <2>1, <2>2, <3>1 DEF Store!Next, Store!Restart
  <2>4. CASE ~(pc = "rename_tmp" /\ job.before # None)
    <3>1. StoredText' = StoredText
      BY <2>2, <2>4 DEF OnCourse, SaveOnCourse, StoredText, TextOf
    <3> QED
      BY <2>1, <2>2, <3>1 DEF Store!Next, Store!Restart
  <2> QED
    BY <2>3, <2>4
<1>20. CASE Notify \/ NotifyThrows
  BY <1>20, Unseen DEF Notify, NotifyThrows
<1>19. CASE UNCHANGED vars
  <2>1. UNCHANGED <<StoredText, TextOf(bak), StoredLive, Idle>>
    BY <1>19 DEF vars, StoredText, StoredLive, TextOf, Idle
  <2> QED
    BY <2>1 DEF Store!vars
<1> QED
  BY <1>1, <1>2, <1>3, <1>4, <1>5, <1>6, <1>7, <1>8, <1>9, <1>10, <1>11, <1>12, <1>13, <1>14, <1>15, <1>16, <1>17, <1>18, <1>19, <1>20 DEF Next, GameThread, CallStep, Environment

(***************************************************************************)
(* With undisturbed calls and whole writes, a ConfigFile is a settings     *)
(* store: its saves look like one step that keeps what it does not claim,  *)
(* and the text they replace is never nowhere.                             *)
(***************************************************************************)
THEOREM StoreImplemented ==
    ASSUME Undisturbed, WholeWrites
    PROVE  Spec => ImplementsStore
<1>1. Init => Store!Init
  <2> SUFFICES ASSUME Init PROVE Store!Init
    OBVIOUS
  <2>1. target \in File \cup {Absent}
    BY ConfigFileAssumption DEF Init, File
  <2>2. StoredText = TextOf(target) /\ TextOf(target) \in Text \cup {None}
    BY <2>1, FileTypes DEF Init, StoredText
  <2> QED
    BY <2>2, SameTexts DEF Init, Store!Init, StoredLive, TextOf, Idle
<1>2. Spec => []OnCourse
  BY TypeCorrect, CoherentInv, SaveOnCourseAlways, PTL DEF OnCourse
<1>3. OnCourse /\ OnCourse' /\ [Next]_vars => [Store!Next]_(Store!vars)
  BY StoreStep
<1> QED
  BY <1>1, <1>2, <1>3, PTL DEF Spec, Store!Spec, ImplementsStore
==============================================================================
