---------------------------- MODULE RegistryProof ----------------------------
(***************************************************************************)
(* Proofs about the registry and its clients, for any mods and any names:  *)
(* the invariants of the table, and that it implements the roster.         *)
(***************************************************************************)
EXTENDS RegistryLinks, SequenceTheorems, FiniteSetTheorems, TLAPS

(***************************************************************************)
(* What std::vector::erase leaves (Registry.cpp:110-117).                  *)
(***************************************************************************)
LEMMA RemoveAtFacts ==
    ASSUME NEW S, NEW s \in Seq(S), NEW i \in 1 .. Len(s)
    PROVE  /\ RemoveAt(s, i) \in Seq(S)
           /\ Len(RemoveAt(s, i)) = Len(s) - 1
           /\ \A j \in 1 .. Len(s) - 1 :
                 RemoveAt(s, i)[j] = IF j < i THEN s[j] ELSE s[j + 1]
<1> DEFINE front == SubSeq(s, 1, i - 1)
           back  == SubSeq(s, i + 1, Len(s))
<1>1. /\ front \in Seq(S) /\ Len(front) = i - 1
      /\ \A j \in 1 .. i - 1 : front[j] = s[j]
  BY SubSeqProperties
<1>2. /\ back \in Seq(S) /\ Len(back) = Len(s) - i
      /\ \A j \in 1 .. Len(s) - i : back[j] = s[i + j]
  BY SubSeqProperties
<1> HIDE DEF front, back
<1>3. Len(s) \in Nat /\ i \in Nat /\ 1 <= i /\ i <= Len(s)
  BY LenProperties
<1>4. /\ front \o back \in Seq(S)
      /\ Len(front \o back) = Len(front) + Len(back)
      /\ \A j \in 1 .. Len(front) + Len(back) :
            (front \o back)[j] = IF j <= Len(front) THEN front[j]
                                                   ELSE back[j - Len(front)]
  BY <1>1, <1>2, ConcatProperties
<1>5. Len(front) + Len(back) = Len(s) - 1
  BY <1>1, <1>2, <1>3
<1>6. ASSUME NEW j \in 1 .. Len(s) - 1
      PROVE  (front \o back)[j] = IF j < i THEN s[j] ELSE s[j + 1]
  <2>1. (front \o back)[j] = IF j <= i - 1 THEN front[j] ELSE back[j - (i - 1)]
    BY <1>1, <1>4, <1>5
  <2>2. CASE j < i
    BY <1>1, <1>3, <2>1, <2>2
  <2>3. CASE ~(j < i)
    <3>1. j - (i - 1) \in 1 .. Len(s) - i
      BY <1>3, <2>3
    <3>2. i + (j - (i - 1)) = j + 1
      BY <1>3
    <3> QED
      BY <1>2, <1>3, <2>1, <2>3, <3>1, <3>2
  <2> QED BY <2>2, <2>3
<1> QED
  BY <1>4, <1>5, <1>6 DEF RemoveAt, front, back

(***************************************************************************)
(* The mutex and the threads that take it are different things.            *)
(***************************************************************************)
LEMMA Threads == Nobody \notin Mods /\ Menu \notin Mods /\ Menu # Nobody
  BY RegistryAssumption, LinksAssumption

(***************************************************************************)
(* A lookup gives an entry of the table or a null (Registry.cpp:61-65).    *)
(***************************************************************************)
LEMMA AtEntry ==
    ASSUME table \in Seq(Mods), NEW index \in Nat, At(index) # Nobody
    PROVE  At(index) \in Entries /\ At(index) \in Mods
<1>1. index < Len(table)
  BY DEF At
<1>2. index + 1 \in DOMAIN table /\ At(index) = table[index + 1]
  BY <1>1 DEF At
<1> QED
  BY <1>2 DEF Entries

(***************************************************************************)
(* Registering keeps names apart and adds the mod, or changes nothing.     *)
(***************************************************************************)
LEMMA RegisterFacts ==
    ASSUME NEW m \in Mods, table \in Seq(Mods), NamesUnique, Register(m)
    PROVE  /\ table' \in Seq(Mods)
           /\ NamesUnique'
           /\ table' = table \/ Entries' = Entries \cup {m}
<1>1. CASE NameTaken(NameOf[m])
  BY <1>1 DEF Register, NamesUnique
<1>2. CASE ~NameTaken(NameOf[m])
  <2>1. table' = Append(table, m)
    BY <1>2 DEF Register
  <2>2. /\ table' \in Seq(Mods) /\ Len(table') = Len(table) + 1
        /\ DOMAIN table = 1 .. Len(table) /\ DOMAIN table' = 1 .. Len(table) + 1
        /\ \A i \in 1 .. Len(table) : table'[i] = table[i]
        /\ table'[Len(table) + 1] = m
    BY <2>1, AppendProperties, LenProperties
  <2>3. \A i \in DOMAIN table : NameOf[table[i]] # NameOf[m]
    BY <1>2 DEF NameTaken
  <2>4. NamesUnique'
    <3> SUFFICES ASSUME NEW i \in DOMAIN table', NEW j \in DOMAIN table',
                        NameOf[table'[i]] = NameOf[table'[j]]
                 PROVE  i = j
      BY DEF NamesUnique
    <3>1. Len(table) \in Nat
      BY LenProperties
    <3>2. (i \in 1 .. Len(table) \/ i = Len(table) + 1) /\ (j \in 1 .. Len(table) \/ j = Len(table) + 1)
      BY <2>2, <3>1
    <3> QED
      BY <2>2, <2>3, <3>2 DEF NamesUnique
  <2>5. Entries' = Entries \cup {m}
    <3>1. Len(table) \in Nat
      BY LenProperties
    <3>2. \A i \in 1 .. Len(table) + 1 : i \in 1 .. Len(table) \/ i = Len(table) + 1
      BY <3>1
    <3>3. Len(table) + 1 \in 1 .. Len(table) + 1
      BY <3>1
    <3>4. \A i \in 1 .. Len(table) : i \in 1 .. Len(table) + 1
      BY <3>1
    <3> QED
      BY <2>2, <3>2, <3>3, <3>4 DEF Entries
  <2> QED
    BY <2>2, <2>4, <2>5
<1> QED
  BY <1>1, <1>2

(***************************************************************************)
(* Unregistering takes out the one entry of the mod and keeps the rest.    *)
(***************************************************************************)
LEMMA UnregisterFacts ==
    ASSUME NEW m \in Mods, table \in Seq(Mods), NamesUnique, Unregister(m)
    PROVE  /\ table' \in Seq(Mods)
           /\ NamesUnique'
           /\ Entries' = Entries \ {m}
<1>1. CASE \A i \in DOMAIN table : table[i] # m
  BY <1>1 DEF Unregister, NamesUnique, Entries
<1>2. CASE \E i \in DOMAIN table : table[i] = m
  <2> DEFINE k == CHOOSE i \in DOMAIN table : table[i] = m
  <2>1. k \in DOMAIN table /\ table[k] = m
    BY <1>2
  <2>2. table' = RemoveAt(table, k)
    BY <1>2 DEF Unregister
  <2> HIDE DEF k
  <2>3. Len(table) \in Nat /\ DOMAIN table = 1 .. Len(table) /\ k \in 1 .. Len(table)
    BY <2>1, LenProperties
  <2>4. /\ table' \in Seq(Mods)
        /\ Len(table') = Len(table) - 1
        /\ \A j \in 1 .. Len(table) - 1 :
              table'[j] = IF j < k THEN table[j] ELSE table[j + 1]
    BY <2>2, <2>3, RemoveAtFacts
  <2>5. DOMAIN table' = 1 .. Len(table) - 1
    BY <2>4, LenProperties
  <2> DEFINE from(j) == IF j < k THEN j ELSE j + 1
  <2>6. \A j \in DOMAIN table' :
           from(j) \in DOMAIN table /\ from(j) # k /\ table'[j] = table[from(j)]
    BY <2>3, <2>4, <2>5
  <2>7. \A i, j \in DOMAIN table' : from(i) = from(j) => i = j
    BY <2>3, <2>5
  <2>8. \A i \in DOMAIN table : i # k => \E j \in DOMAIN table' : from(j) = i
    <3> SUFFICES ASSUME NEW i \in DOMAIN table, i # k
                 PROVE  \E j \in DOMAIN table' : from(j) = i
      OBVIOUS
    <3>1. CASE i < k
      BY <2>3, <2>5, <3>1
    <3>2. CASE i > k
      <4>1. i - 1 \in DOMAIN table' /\ from(i - 1) = i
        BY <2>3, <2>5, <3>2
      <4> QED
        BY <4>1
    <3> QED
      BY <2>3, <3>1, <3>2
  <2> HIDE DEF from
  <2>9. NamesUnique'
    BY <2>6, <2>7 DEF NamesUnique
  <2>10. \A i \in DOMAIN table : table[i] = m => i = k
    BY <2>1 DEF NamesUnique
  <2>11. Entries' = Entries \ {m}
    BY <2>1, <2>6, <2>8, <2>10 DEF Entries
  <2> QED
    BY <2>4, <2>9, <2>11
<1> QED
  BY <1>1, <1>2
-------------------------------------------------------------------------------
(***************************************************************************)
(* The inductive invariant: names, table, phases and mutex together.       *)
(***************************************************************************)
Shape ==
    /\ table \in Seq(Mods)
    /\ mutex \in Mods \cup {Menu, Nobody}
    /\ phase \in [Mods -> Phases]
    /\ menu \in MenuStates

RegistryInv == Shape /\ NamesUnique /\ NoDanglingEntry /\ MutexHeld

(***************************************************************************)
(* No step of a mod or of the menu breaks it.                              *)
(***************************************************************************)
LEMMA RegistryStep ==
    ASSUME RegistryInv, [Next]_vars
    PROVE  RegistryInv'
<1> USE Threads DEF RegistryInv, Shape, NoDanglingEntry, MutexHeld, tableVars, Move, Lock, Unlock, Phases, MenuCalls, MenuStates
<1>1. ASSUME NEW m \in Mods, LoadMod(m) PROVE RegistryInv'
  <2>1. NamesUnique' /\ Entries' = Entries
    BY <1>1 DEF LoadMod, NamesUnique, Entries
  <2> QED
    BY <1>1, <2>1 DEF LoadMod
<1>2. ASSUME NEW m \in Mods, ProbeRegistry(m) PROVE RegistryInv'
  <2>1. NamesUnique' /\ Entries' = Entries
    BY <1>2 DEF ProbeRegistry, NamesUnique, Entries
  <2> QED
    BY <1>2, <2>1 DEF ProbeRegistry
<1>3. ASSUME NEW m \in Mods, Attach(m) PROVE RegistryInv'
  <2>1. NamesUnique' /\ Entries' = Entries
    BY <1>3 DEF Attach, NamesUnique, Entries
  <2> QED
    BY <1>3, <2>1 DEF Attach
<1>4. ASSUME NEW m \in Mods, Registered(m) PROVE RegistryInv'
  <2>1. /\ table' \in Seq(Mods) /\ NamesUnique'
        /\ table' = table \/ Entries' = Entries \cup {m}
    BY <1>4, RegisterFacts DEF Registered
  <2>2. table' = table => Entries' = Entries
    BY DEF Entries
  <2> QED
    BY <1>4, <2>1, <2>2 DEF Registered
<1>5. ASSUME NEW m \in Mods, Detach(m) PROVE RegistryInv'
  <2>1. NamesUnique' /\ Entries' = Entries
    BY <1>5 DEF Detach, NamesUnique, Entries
  <2> QED
    BY <1>5, <2>1 DEF Detach
<1>6. ASSUME NEW m \in Mods, UnregisterLocks(m) PROVE RegistryInv'
  <2>1. NamesUnique' /\ Entries' = Entries
    BY <1>6 DEF UnregisterLocks, NamesUnique, Entries
  <2> QED
    BY <1>6, <2>1 DEF UnregisterLocks
<1>7. ASSUME NEW m \in Mods, Unregistered(m) PROVE RegistryInv'
  <2>1. /\ table' \in Seq(Mods) /\ NamesUnique' /\ Entries' = Entries \ {m}
    BY <1>7, UnregisterFacts DEF Unregistered
  <2> QED
    BY <1>7, <2>1 DEF Unregistered
<1>8. ASSUME NEW m \in Mods, ReleaseRegistry(m) PROVE RegistryInv'
  <2>1. NamesUnique' /\ Entries' = Entries
    BY <1>8 DEF ReleaseRegistry, NamesUnique, Entries
  <2> QED
    BY <1>8, <2>1 DEF ReleaseRegistry
<1>9. ASSUME NEW m \in Mods, UnloadMod(m) PROVE RegistryInv'
  <2>1. NamesUnique' /\ Entries' = Entries
    BY <1>9 DEF UnloadMod, NamesUnique, Entries
  <2> QED
    BY <1>9, <2>1 DEF UnloadMod
<1>10. CASE OpenMenu
  <2>1. NamesUnique' /\ Entries' = Entries
    BY <1>10 DEF OpenMenu, NamesUnique, Entries
  <2> QED
    BY <1>10, <2>1 DEF OpenMenu, Names, Answers, ClosedMenu
<1>11. CASE CloseMenu
  <2>1. NamesUnique' /\ Entries' = Entries
    BY <1>11 DEF CloseMenu, NamesUnique, Entries
  <2> QED
    BY <1>11, <2>1 DEF CloseMenu, Names, Answers, ClosedMenu
<1>12. CASE CallName
  <2>1. NamesUnique' /\ Entries' = Entries
    BY <1>12 DEF CallName, NamesUnique, Entries
  <2>2. Cardinality(Mods) \in Nat
    BY LinksAssumption, FS_CardinalityType
  <2>3. PICK index \in 0 .. Cardinality(Mods) - 1 :
           menu' = [ClosedMenu EXCEPT !.call = "name", !.index = index]
    BY <1>12 DEF CallName
  <2>4. index \in Nat
    BY <2>2
  <2>5. /\ menu' \in MenuStates
        /\ menu'.call = "name"
    BY <2>3, <2>4 DEF ClosedMenu, Answers
  <2> QED
    BY <1>12, <2>1, <2>5 DEF CallName
<1>13. CASE Name
  <2>1. NamesUnique' /\ Entries' = Entries
    BY <1>13 DEF Name, NamesUnique, Entries
  <2>2. At(menu.index) # Nobody => At(menu.index) \in Entries /\ At(menu.index) \in Mods
    BY AtEntry
  <2> QED
    BY <1>13, <2>1, <2>2 DEF Name, Names, Answers, ClosedMenu
<1>14. CASE CallGetDocument
  <2>1. NamesUnique' /\ Entries' = Entries
    BY <1>14 DEF CallGetDocument, NamesUnique, Entries
  <2> QED
    BY <1>14, <2>1 DEF CallGetDocument, Names, Answers, ClosedMenu
<1>15. CASE GetDocument
  <2>1. NamesUnique' /\ Entries' = Entries
    BY <1>15 DEF GetDocument, NamesUnique, Entries
  <2>2. CASE At(menu.index) = Nobody
    <3>1. menu' = [menu EXCEPT !.call = "open", !.answer = "null"] /\ mutex' = Nobody
      BY <1>15, <2>2 DEF GetDocument
    <3>2. menu'.call = "open" /\ menu' \in MenuStates
      BY <3>1 DEF Answers
    <3>3. mutex = Menu /\ phase' = phase /\ table' = table
      BY <1>15 DEF GetDocument
    <3> QED
      BY <2>1, <3>1, <3>2, <3>3
  <2>3. CASE At(menu.index) # Nobody
    <3>1. At(menu.index) \in Entries /\ At(menu.index) \in Mods
      BY <2>3, AtEntry
    <3>2. menu' = [menu EXCEPT !.call = "getting", !.mod = At(menu.index)]
      BY <1>15, <2>3 DEF GetDocument
    <3>3. menu'.call = "getting" /\ menu'.mod = At(menu.index)
      BY <3>2
    <3> QED
      BY <1>15, <2>1, <2>3, <3>1, <3>2, <3>3 DEF GetDocument
  <2> QED
    BY <2>2, <2>3
<1>16. CASE GetDocumentReturns
  <2>1. NamesUnique' /\ Entries' = Entries
    BY <1>16 DEF GetDocumentReturns, NamesUnique, Entries
  <2> QED
    BY <1>16, <2>1 DEF GetDocumentReturns, Names, Answers, ClosedMenu
<1>17. CASE CommitPage
  <2>1. NamesUnique' /\ Entries' = Entries
    BY <1>17 DEF CommitPage, NamesUnique, Entries
  <2> QED
    BY <1>17, <2>1 DEF CommitPage, Names, Answers, ClosedMenu
<1>18. CASE SetDocument
  <2>1. NamesUnique' /\ Entries' = Entries
    BY <1>18 DEF SetDocument, NamesUnique, Entries
  <2>2. CASE At(menu.index) = Nobody
    <3>1. menu' = [menu EXCEPT !.call = "open", !.answer = "null"] /\ mutex' = Nobody
      BY <1>18, <2>2 DEF SetDocument
    <3>2. menu'.call = "open" /\ menu' \in MenuStates
      BY <3>1 DEF Answers
    <3>3. mutex = Menu /\ phase' = phase /\ table' = table
      BY <1>18 DEF SetDocument
    <3> QED
      BY <2>1, <3>1, <3>2, <3>3
  <2>3. CASE At(menu.index) # Nobody
    <3>1. At(menu.index) \in Entries /\ At(menu.index) \in Mods
      BY <2>3, AtEntry
    <3>2. menu' = [menu EXCEPT !.call = "setting", !.mod = At(menu.index)]
      BY <1>18, <2>3 DEF SetDocument
    <3>3. menu'.call = "setting" /\ menu'.mod = At(menu.index)
      BY <3>2
    <3> QED
      BY <1>18, <2>1, <2>3, <3>1, <3>2, <3>3 DEF SetDocument
  <2> QED
    BY <2>2, <2>3
<1>19. CASE SetDocumentReturns
  <2>1. NamesUnique' /\ Entries' = Entries
    BY <1>19 DEF SetDocumentReturns, NamesUnique, Entries
  <2>2. PICK answer \in {"clean", "error"}, taken \in BOOLEAN :
           menu' = [menu EXCEPT !.call = "open", !.mod = Nobody, !.answer = answer,
                                !.taker = IF taken THEN menu.mod ELSE Nobody]
    BY <1>19 DEF SetDocumentReturns
  <2>3. (IF taken THEN menu.mod ELSE Nobody) \in Mods \cup {Nobody}
    OBVIOUS
  <2>4. /\ menu' \in MenuStates
        /\ menu'.call = "open"
    BY <2>2, <2>3 DEF Answers
  <2> QED
    BY <1>19, <2>1, <2>4 DEF SetDocumentReturns
<1>20. CASE UNCHANGED vars
  BY <1>20 DEF vars, NamesUnique, Entries
<1> QED
  BY <1>1, <1>2, <1>3, <1>4, <1>5, <1>6, <1>7, <1>8, <1>9, <1>10, <1>11, <1>12, <1>13, <1>14, <1>15, <1>16, <1>17, <1>18, <1>19, <1>20 DEF Next, MenuStep, MenuReturns, ModStep, LinkStep

(***************************************************************************)
(* Names, table, phases and mutex agree in every reachable state.          *)
(***************************************************************************)
THEOREM RegistryInvAlways == Spec => []RegistryInv
<1>1. Init => RegistryInv
  BY Threads DEF Init, RegistryInv, Shape, NamesUnique, NoDanglingEntry, Entries,
     MutexHeld, Phases, MenuCalls, MenuStates, ClosedMenu, Names, Answers
<1>2. RegistryInv /\ [Next]_vars => RegistryInv'
  BY RegistryStep
<1> QED
  BY <1>1, <1>2, PTL DEF Spec

(***************************************************************************)
(* A thread holds the mutex exactly while it is inside a call, and a call  *)
(* into a mod is one on an entry of the table (Registry.cpp:9-10).          *)
(***************************************************************************)
THEOREM MutexHeldAlways == Spec => []MutexHeld
<1>1. RegistryInv => MutexHeld
  BY DEF RegistryInv
<1> QED
  BY <1>1, RegistryInvAlways, PTL

(***************************************************************************)
(* No two entries ever have one name.                                      *)
(***************************************************************************)
THEOREM NamesUniqueAlways == Spec => []NamesUnique
<1>1. RegistryInv => NamesUnique
  BY DEF RegistryInv
<1> QED
  BY <1>1, RegistryInvAlways, PTL

(***************************************************************************)
(* The table holds exactly the mods that have registered and not left.     *)
(***************************************************************************)
THEOREM NoDanglingEntryAlways == Spec => []NoDanglingEntry
<1>1. RegistryInv => NoDanglingEntry
  BY DEF RegistryInv
<1> QED
  BY <1>1, RegistryInvAlways, PTL

(***************************************************************************)
(* The registry never calls into a mod whose ConfigFile may be gone.       *)
(***************************************************************************)
THEOREM CallbackOnLiveModAlways == Spec => []CallbackOnLiveMod
<1>1. RegistryInv => CallbackOnLiveMod
  BY DEF RegistryInv, NoDanglingEntry, MutexHeld, CallbackOnLiveMod
<1> QED
  BY <1>1, RegistryInvAlways, PTL
-------------------------------------------------------------------------------
(***************************************************************************)
(* How the number of holders moves when one mod takes a step.              *)
(***************************************************************************)
LEMMA HoldersMove ==
    ASSUME NEW m \in Mods, NEW to, phase \in [Mods -> Phases],
           phase' = [phase EXCEPT ![m] = to]
    PROVE  /\ Cardinality(Holders) \in Nat
           /\ (phase[m] \in Holding <=> to \in Holding)
                 => Cardinality(Holders') = Cardinality(Holders)
           /\ phase[m] \notin Holding /\ to \in Holding
                 => Cardinality(Holders') = Cardinality(Holders) + 1
           /\ phase[m] \in Holding /\ to \notin Holding
                 => Cardinality(Holders') = Cardinality(Holders) - 1
<1>1. IsFiniteSet(Holders)
  BY LinksAssumption, FS_Subset DEF Holders
<1>2. Cardinality(Holders) \in Nat
  BY <1>1, FS_CardinalityType
<1>3. Holders' = IF to \in Holding THEN Holders \cup {m} ELSE Holders \ {m}
  BY DEF Holders
<1>4. m \in Holders <=> phase[m] \in Holding
  BY DEF Holders
<1>5. CASE phase[m] \in Holding <=> to \in Holding
  <2>1. Holders' = Holders
    BY <1>3, <1>4, <1>5
  <2> QED
    BY <1>2, <1>5, <2>1
<1>6. CASE phase[m] \notin Holding /\ to \in Holding
  <2>1. Cardinality(Holders \cup {m}) = Cardinality(Holders) + 1
    BY <1>1, <1>4, <1>6, FS_AddElement
  <2> QED
    BY <1>2, <1>3, <1>6, <2>1
<1>7. CASE phase[m] \in Holding /\ to \notin Holding
  <2>1. Cardinality(Holders \ {m}) = Cardinality(Holders) - 1
    BY <1>1, <1>4, <1>7, FS_RemoveElement
  <2> QED
    BY <1>2, <1>3, <1>7, <2>1
<1> QED
  BY <1>5, <1>6, <1>7

(***************************************************************************)
(* The first half of LibraryRefs: the count is that of its holders.        *)
(***************************************************************************)
RefsCounted ==
    refs = Cardinality(Holders) + (IF menu.call = "closed" THEN 0 ELSE 1)

(***************************************************************************)
(* The library's reference count is exact (win32/Registry.cpp:41-66).      *)
(***************************************************************************)
LEMMA RefsCountedStep ==
    ASSUME RegistryInv, RefsCounted, [Next]_vars
    PROVE  RefsCounted'
<1>1. menu \in MenuStates /\ phase \in [Mods -> Phases]
  BY DEF RegistryInv, Shape
<1>2. Cardinality(Holders) \in Nat
  BY LinksAssumption, FS_Subset, FS_CardinalityType DEF Holders
<1>3. phase' = phase => Holders' = Holders
  BY DEF Holders
<1>4. ASSUME NEW m \in Mods, LoadMod(m) PROVE RefsCounted'
  <2>1. phase[m] = "unloaded" /\ phase' = [phase EXCEPT ![m] = "loaded"]
    BY <1>4 DEF LoadMod, Move
  <2>2. refs' = refs /\ menu' = menu
    BY <1>4 DEF LoadMod
  <2>3. phase[m] \notin Holding /\ "loaded" \notin Holding
    BY <2>1 DEF Holding
  <2>4. Cardinality(Holders') = Cardinality(Holders)
    BY <1>1, <2>1, <2>3, HoldersMove
  <2> QED
    BY <1>2, <2>2, <2>4 DEF RefsCounted
<1>5. ASSUME NEW m \in Mods, ProbeRegistry(m) PROVE RefsCounted'
  <2>1. CASE Move(m, "loaded", "probed") /\ refs' = refs + 1
    <3>1. phase[m] = "loaded" /\ phase' = [phase EXCEPT ![m] = "probed"]
      BY <1>5, <2>1 DEF ProbeRegistry, Move
    <3>2. refs' = refs + 1 /\ menu' = menu
      BY <1>5, <2>1 DEF ProbeRegistry
    <3>3. phase[m] \notin Holding /\ "probed" \in Holding
      BY <3>1 DEF Holding
    <3>4. Cardinality(Holders') = Cardinality(Holders) + 1
      BY <1>1, <3>1, <3>3, HoldersMove
    <3> QED
      BY <1>2, <3>2, <3>4 DEF RefsCounted
  <2>2. CASE Move(m, "loaded", "detached") /\ refs' = refs
    <3>1. phase[m] = "loaded" /\ phase' = [phase EXCEPT ![m] = "detached"]
      BY <1>5, <2>2 DEF ProbeRegistry, Move
    <3>2. refs' = refs /\ menu' = menu
      BY <1>5, <2>2 DEF ProbeRegistry
    <3>3. phase[m] \notin Holding /\ "detached" \notin Holding
      BY <3>1 DEF Holding
    <3>4. Cardinality(Holders') = Cardinality(Holders)
      BY <1>1, <3>1, <3>3, HoldersMove
    <3> QED
      BY <1>2, <3>2, <3>4 DEF RefsCounted
  <2> QED
    BY <1>5, <2>1, <2>2 DEF ProbeRegistry
<1>6. ASSUME NEW m \in Mods, Attach(m) PROVE RefsCounted'
  <2>1. phase[m] = "probed" /\ phase' = [phase EXCEPT ![m] = "registering"]
    BY <1>6 DEF Attach, Move
  <2>2. refs' = refs /\ menu' = menu
    BY <1>6 DEF Attach
  <2>3. phase[m] \in Holding /\ "registering" \in Holding
    BY <2>1 DEF Holding
  <2>4. Cardinality(Holders') = Cardinality(Holders)
    BY <1>1, <2>1, <2>3, HoldersMove
  <2> QED
    BY <1>2, <2>2, <2>4 DEF RefsCounted
<1>7. ASSUME NEW m \in Mods, Registered(m) PROVE RefsCounted'
  <2>1. CASE table' = table
    <3>1. phase[m] = "registering" /\ phase' = [phase EXCEPT ![m] = "refused"]
      BY <1>7, <2>1 DEF Registered, Move
    <3>2. refs' = refs /\ menu' = menu
      BY <1>7, <2>1 DEF Registered
    <3>3. phase[m] \in Holding /\ "refused" \in Holding
      BY <3>1 DEF Holding
    <3>4. Cardinality(Holders') = Cardinality(Holders)
      BY <1>1, <3>1, <3>3, HoldersMove
    <3> QED
      BY <1>2, <3>2, <3>4 DEF RefsCounted
  <2>2. CASE table' # table
    <3>1. phase[m] = "registering" /\ phase' = [phase EXCEPT ![m] = "registered"]
      BY <1>7, <2>2 DEF Registered, Move
    <3>2. refs' = refs /\ menu' = menu
      BY <1>7, <2>2 DEF Registered
    <3>3. phase[m] \in Holding /\ "registered" \in Holding
      BY <3>1 DEF Holding
    <3>4. Cardinality(Holders') = Cardinality(Holders)
      BY <1>1, <3>1, <3>3, HoldersMove
    <3> QED
      BY <1>2, <3>2, <3>4 DEF RefsCounted
  <2> QED
    BY <2>1, <2>2
<1>8. ASSUME NEW m \in Mods, Detach(m) PROVE RefsCounted'
  <2>1. phase[m] = "registered" /\ phase' = [phase EXCEPT ![m] = "unregistering"]
    BY <1>8 DEF Detach, Move
  <2>2. refs' = refs /\ menu' = menu
    BY <1>8 DEF Detach
  <2>3. phase[m] \in Holding /\ "unregistering" \in Holding
    BY <2>1 DEF Holding
  <2>4. Cardinality(Holders') = Cardinality(Holders)
    BY <1>1, <2>1, <2>3, HoldersMove
  <2> QED
    BY <1>2, <2>2, <2>4 DEF RefsCounted
<1>9. ASSUME NEW m \in Mods, UnregisterLocks(m) PROVE RefsCounted'
  BY <1>3, <1>9 DEF UnregisterLocks, RefsCounted
<1>10. ASSUME NEW m \in Mods, Unregistered(m) PROVE RefsCounted'
  <2>1. phase[m] = "unregistering" /\ phase' = [phase EXCEPT ![m] = "unregistered"]
    BY <1>10 DEF Unregistered, Move
  <2>2. refs' = refs /\ menu' = menu
    BY <1>10 DEF Unregistered
  <2>3. phase[m] \in Holding /\ "unregistered" \in Holding
    BY <2>1 DEF Holding
  <2>4. Cardinality(Holders') = Cardinality(Holders)
    BY <1>1, <2>1, <2>3, HoldersMove
  <2> QED
    BY <1>2, <2>2, <2>4 DEF RefsCounted
<1>11. ASSUME NEW m \in Mods, ReleaseRegistry(m) PROVE RefsCounted'
  <2>1. CASE phase[m] \in {"probed", "refused", "unregistered"} /\ refs' = refs - 1
    <3>1. phase[m] \in {"probed", "refused", "unregistered"} /\ phase' = [phase EXCEPT ![m] = "closing"]
      BY <1>11, <2>1 DEF ReleaseRegistry, Move
    <3>2. refs' = refs - 1 /\ menu' = menu
      BY <1>11, <2>1 DEF ReleaseRegistry
    <3>3. phase[m] \in Holding /\ "closing" \notin Holding
      BY <3>1 DEF Holding
    <3>4. Cardinality(Holders') = Cardinality(Holders) - 1
      BY <1>1, <3>1, <3>3, HoldersMove
    <3> QED
      BY <1>2, <3>2, <3>4 DEF RefsCounted
  <2>2. CASE phase[m] = "detached" /\ refs' = refs
    <3>1. phase[m] = "detached" /\ phase' = [phase EXCEPT ![m] = "closing"]
      BY <1>11, <2>2 DEF ReleaseRegistry, Move
    <3>2. refs' = refs /\ menu' = menu
      BY <1>11, <2>2 DEF ReleaseRegistry
    <3>3. phase[m] \notin Holding /\ "closing" \notin Holding
      BY <3>1 DEF Holding
    <3>4. Cardinality(Holders') = Cardinality(Holders)
      BY <1>1, <3>1, <3>3, HoldersMove
    <3> QED
      BY <1>2, <3>2, <3>4 DEF RefsCounted
  <2> QED
    BY <1>11, <2>1, <2>2 DEF ReleaseRegistry
<1>12. ASSUME NEW m \in Mods, UnloadMod(m) PROVE RefsCounted'
  <2>1. phase[m] = "closing" /\ phase' = [phase EXCEPT ![m] = "unloaded"]
    BY <1>12 DEF UnloadMod, Move
  <2>2. refs' = refs /\ menu' = menu
    BY <1>12 DEF UnloadMod
  <2>3. phase[m] \notin Holding /\ "unloaded" \notin Holding
    BY <2>1 DEF Holding
  <2>4. Cardinality(Holders') = Cardinality(Holders)
    BY <1>1, <2>1, <2>3, HoldersMove
  <2> QED
    BY <1>2, <2>2, <2>4 DEF RefsCounted
<1>13. CASE OpenMenu
  BY <1>1, <1>2, <1>3, <1>13 DEF OpenMenu, RefsCounted, ClosedMenu, MenuStates
<1>14. CASE CloseMenu
  BY <1>1, <1>2, <1>3, <1>14 DEF CloseMenu, RefsCounted, ClosedMenu, MenuStates
<1>15. CASE CallName
  BY <1>1, <1>2, <1>3, <1>15 DEF CallName, RefsCounted, ClosedMenu, MenuStates
<1>16. CASE Name
  BY <1>1, <1>2, <1>3, <1>16 DEF Name, RefsCounted, ClosedMenu, MenuStates
<1>17. CASE CallGetDocument
  BY <1>1, <1>2, <1>3, <1>17 DEF CallGetDocument, RefsCounted, ClosedMenu, MenuStates
<1>18. CASE GetDocument
  BY <1>1, <1>2, <1>3, <1>18 DEF GetDocument, RefsCounted, ClosedMenu, MenuStates
<1>19. CASE GetDocumentReturns
  BY <1>1, <1>2, <1>3, <1>19 DEF GetDocumentReturns, RefsCounted, ClosedMenu, MenuStates
<1>20. CASE CommitPage
  BY <1>1, <1>2, <1>3, <1>20 DEF CommitPage, RefsCounted, ClosedMenu, MenuStates
<1>21. CASE SetDocument
  BY <1>1, <1>2, <1>3, <1>21 DEF SetDocument, RefsCounted, ClosedMenu, MenuStates
<1>22. CASE SetDocumentReturns
  BY <1>1, <1>2, <1>3, <1>22 DEF SetDocumentReturns, RefsCounted, ClosedMenu, MenuStates
<1>23. CASE UNCHANGED vars
  BY <1>3, <1>23 DEF vars, RefsCounted
<1> QED
  BY <1>4, <1>5, <1>6, <1>7, <1>8, <1>9, <1>10, <1>11, <1>12, <1>13, <1>14, <1>15, <1>16, <1>17, <1>18, <1>19, <1>20, <1>21, <1>22, <1>23 DEF Next, MenuStep, MenuReturns, ModStep, LinkStep

(***************************************************************************)
(* No reference on the library is leaked or given back twice, and it stays *)
(* loaded while a mod is in the table or a thread is inside.               *)
(***************************************************************************)
THEOREM LibraryRefsAlways == Spec => []LibraryRefs
<1>1. Init => RefsCounted
  <2> SUFFICES ASSUME Init PROVE RefsCounted
    OBVIOUS
  <2>1. Holders = {}
    BY DEF Init, Holders, Holding
  <2> QED
    BY <2>1, FS_EmptySet DEF Init, RefsCounted, ClosedMenu
<1>2. RegistryInv /\ RefsCounted /\ [Next]_vars => RefsCounted'
  BY RefsCountedStep
<1>3. RegistryInv /\ RefsCounted => LibraryRefs
  <2> SUFFICES ASSUME RegistryInv, RefsCounted PROVE LibraryRefs
    OBVIOUS
  <2>1. IsFiniteSet(Holders) /\ Cardinality(Holders) \in Nat
    BY LinksAssumption, FS_Subset, FS_CardinalityType DEF Holders
  <2>2. Holders # {} => Cardinality(Holders) > 0
    BY <2>1, FS_EmptySet
  <2>3. table # << >> => Entries # {}
    <3>1. table \in Seq(Mods)
      BY DEF RegistryInv, Shape
    <3>2. table # << >> => 1 \in DOMAIN table
      BY <3>1
    <3> QED
      BY <3>2 DEF Entries
  <2>4. Entries # {} => Holders # {}
    BY DEF RegistryInv, NoDanglingEntry, Holders, Holding
  <2>5. mutex \in Mods => Holders # {}
    BY DEF RegistryInv, MutexHeld, Holders, Holding
  <2>6. mutex = Menu => menu.call # "closed"
    BY DEF RegistryInv, MutexHeld
  <2>7. table # << >> \/ mutex # Nobody => refs > 0
    BY <2>1, <2>2, <2>3, <2>4, <2>5, <2>6 DEF RefsCounted, RegistryInv, Shape
  <2> QED
    BY <2>7 DEF LibraryRefs, RefsCounted
<1> QED
  BY <1>1, <1>2, <1>3, RegistryInvAlways, PTL DEF Spec

(***************************************************************************)
(* Every variable keeps its type; that the count of references is never    *)
(* negative needs the two results above.                                   *)
(***************************************************************************)
THEOREM RegistryTypeCorrect == Spec => []TypeOK
<1>1. RegistryInv /\ LibraryRefs => TypeOK
  <2> SUFFICES ASSUME RegistryInv, LibraryRefs PROVE TypeOK
    OBVIOUS
  <2>1. Cardinality(Holders) \in Nat
    BY LinksAssumption, FS_Subset, FS_CardinalityType DEF Holders
  <2>2. refs \in Nat
    BY <2>1 DEF LibraryRefs
  <2> QED
    BY <2>2 DEF RegistryInv, Shape, TypeOK
<1> QED
  BY <1>1, RegistryInvAlways, LibraryRefsAlways, PTL

-----------------------------------------------------------------------------
(* The registry implements the roster *)

(***************************************************************************)
(* A step that moves one mod between two phases other than "refused", or   *)
(* none, leaves the set of refused mods as it was.                         *)
(***************************************************************************)
LEMMA RefusedMoves ==
    ASSUME NEW m \in Mods, NEW to, phase \in [Mods -> Phases],
           phase' = [phase EXCEPT ![m] = to]
    PROVE  /\ to = "refused" => Refused' = Refused \cup {m}
           /\ to # "refused" => Refused' = Refused \ {m}
BY DEF Refused

(***************************************************************************)
(* Every step of a mod or of the menu is a step of the roster, or none.    *)
(***************************************************************************)
LEMMA RosterStep ==
    ASSUME RegistryInv, [Next]_vars
    PROVE  [Roster!Next]_(Roster!vars)
<1> USE Threads DEF RegistryInv, Shape, tableVars, Move, Lock, Unlock, MutexHeld, Roster!vars
<1>0. /\ phase \in [Mods -> Phases]
      /\ \A m \in Mods : mutex = m => Served = Nobody
      /\ mutex = Nobody => Served = Nobody
  BY DEF Served, MenuCalls
<1>e. table' = table => Entries' = Entries
  BY DEF Entries
<1>r. phase' = phase => Refused' = Refused
  BY DEF Refused
<1>s. menu' = menu => Served' = Served
  BY DEF Served
<1>1. ASSUME NEW m \in Mods, LoadMod(m) PROVE UNCHANGED Roster!vars
  <2>1. Refused' = Refused \ {m} /\ m \notin Refused
    BY <1>1, RefusedMoves DEF LoadMod, Refused
  <2> QED
    BY <1>1, <1>e, <1>s, <2>1 DEF LoadMod
<1>2. ASSUME NEW m \in Mods, ProbeRegistry(m) PROVE UNCHANGED Roster!vars
  <2>1. Refused' = Refused
    BY <1>2 DEF ProbeRegistry, Refused
  <2> QED
    BY <1>2, <1>e, <1>s, <2>1 DEF ProbeRegistry
<1>3. ASSUME NEW m \in Mods, Attach(m) PROVE UNCHANGED Roster!vars
  <2>1. Refused' = Refused
    BY <1>3 DEF Attach, Refused
  <2> QED
    BY <1>3, <1>e, <1>s, <2>1 DEF Attach
<1>4. ASSUME NEW m \in Mods, Registered(m) PROVE Roster!Next
  <2>1. /\ Served = Nobody /\ Served' = Served
        /\ phase[m] = "registering"
    BY <1>0, <1>4, <1>s DEF Registered
  <2>2. CASE NameTaken(NameOf[m])
    <3>1. table' = table
      BY <1>4, <2>2 DEF Registered, Register
    <3>2. Refused' = Refused \cup {m}
      BY <1>0, <1>4, <3>1, RefusedMoves DEF Registered
    <3>3. Roster!Taken(NameOf[m])
      BY <2>2 DEF NameTaken, Entries, Roster!Taken
    <3>4. Roster!Refuse(m)
      BY <1>e, <2>1, <3>1, <3>2, <3>3 DEF Roster!Refuse
    <3> QED
      BY <3>4 DEF Roster!Next
  <2>3. CASE ~NameTaken(NameOf[m])
    <3>1. table' = Append(table, m)
      BY <1>4, <2>3 DEF Registered, Register
    <3>2. table' # table
      BY <3>1, AppendProperties, LenProperties
    <3>3. Entries' = Entries \cup {m}
      BY <1>4, <3>2, RegisterFacts DEF Registered
    <3>4. phase' = [phase EXCEPT ![m] = "registered"]
      BY <1>4, <3>2 DEF Registered
    <3>5. Refused' = Refused
      BY <1>0, <2>1, <3>4, RefusedMoves DEF Refused
    <3>6. ~Roster!Taken(NameOf[m]) /\ m \notin Entries
      BY <2>3 DEF NameTaken, Entries, Roster!Taken
    <3>7. Roster!Join(m)
      BY <2>1, <3>3, <3>5, <3>6 DEF Roster!Join
    <3> QED
      BY <3>7 DEF Roster!Next
  <2> QED
    BY <2>2, <2>3
<1>5. ASSUME NEW m \in Mods, Detach(m) PROVE UNCHANGED Roster!vars
  <2>1. Refused' = Refused
    BY <1>5 DEF Detach, Refused
  <2> QED
    BY <1>5, <1>e, <1>s, <2>1 DEF Detach
<1>6. ASSUME NEW m \in Mods, UnregisterLocks(m) PROVE UNCHANGED Roster!vars
  BY <1>6, <1>e, <1>r, <1>s DEF UnregisterLocks
<1>7. ASSUME NEW m \in Mods, Unregistered(m) PROVE Roster!Next
  <2>1. Served = Nobody /\ Served' = Served
    BY <1>0, <1>7, <1>s DEF Unregistered
  <2>2. Entries' = Entries \ {m}
    BY <1>7, UnregisterFacts DEF Unregistered
  <2>3. m \in Entries
    BY <1>7 DEF Unregistered, NoDanglingEntry
  <2>4. Refused' = Refused
    BY <1>7 DEF Unregistered, Refused
  <2>5. Roster!Leave(m)
    BY <2>1, <2>2, <2>3, <2>4 DEF Roster!Leave
  <2> QED
    BY <2>5 DEF Roster!Next
<1>8. ASSUME NEW m \in Mods, ReleaseRegistry(m) PROVE [Roster!Next]_(Roster!vars)
  <2>1. Entries' = Entries /\ Served' = Served
    BY <1>8, <1>e, <1>s DEF ReleaseRegistry
  <2>2. Refused' = Refused \ {m}
    BY <1>0, <1>8, RefusedMoves DEF ReleaseRegistry
  <2>3. CASE phase[m] = "refused"
    <3>1. m \in Refused \ Entries
      BY <2>3 DEF Refused, NoDanglingEntry
    <3>2. Roster!Forget(m)
      BY <2>1, <2>2, <3>1 DEF Roster!Forget
    <3> QED
      BY <3>2 DEF Roster!Next
  <2>4. CASE phase[m] # "refused"
    <3>1. Refused' = Refused
      BY <2>2, <2>4 DEF Refused
    <3> QED
      BY <2>1, <3>1
  <2> QED
    BY <2>3, <2>4
<1>9. ASSUME NEW m \in Mods, UnloadMod(m) PROVE UNCHANGED Roster!vars
  <2>1. Refused' = Refused
    BY <1>9 DEF UnloadMod, Refused
  <2> QED
    BY <1>9, <1>e, <1>s, <2>1 DEF UnloadMod
<1>10. CASE OpenMenu \/ CloseMenu \/ CallName \/ Name \/ CallGetDocument \/ CommitPage
  <2>1. menu.call \notin {"getting", "setting"} /\ menu'.call \notin {"getting", "setting"}
    <3>1. CASE OpenMenu
      BY <3>1 DEF OpenMenu, MenuStates
    <3>2. CASE CloseMenu
      BY <3>2 DEF CloseMenu, ClosedMenu
    <3>3. CASE CallName
      BY <3>3 DEF CallName, ClosedMenu
    <3>4. CASE Name
      BY <3>4 DEF Name, MenuStates
    <3>5. CASE CallGetDocument
      BY <3>5 DEF CallGetDocument, MenuStates
    <3>6. CASE CommitPage
      BY <3>6 DEF CommitPage, MenuStates
    <3> QED
      BY <1>10, <3>1, <3>2, <3>3, <3>4, <3>5, <3>6
  <2>2. table' = table /\ phase' = phase
    BY <1>10 DEF OpenMenu, CloseMenu, CallName, Name, CallGetDocument, CommitPage
  <2>3. Served' = Served
    BY <2>1 DEF Served
  <2> QED
    BY <1>e, <1>r, <2>2, <2>3
<1>11. CASE GetDocument \/ SetDocument
  <2>1. /\ menu.call \in {"get", "set"} /\ Served = Nobody
        /\ table' = table /\ phase' = phase
    BY <1>11 DEF GetDocument, SetDocument, Served
  <2>2. CASE At(menu.index) = Nobody
    <3>1. menu'.call = "open"
      BY <1>11, <2>2 DEF GetDocument, SetDocument, MenuStates
    <3>2. Served' = Served
      BY <2>1, <3>1 DEF Served
    <3> QED
      BY <1>e, <1>r, <2>1, <3>2
  <2>3. CASE At(menu.index) # Nobody
    <3>1. At(menu.index) \in Entries /\ At(menu.index) \in Mods
      BY <2>3, AtEntry DEF MenuStates
    <3>2. Served' = At(menu.index)
      BY <1>11, <2>3 DEF GetDocument, SetDocument, Served, MenuStates
    <3>3. Roster!Serve(At(menu.index))
      BY <1>e, <1>r, <2>1, <3>1, <3>2 DEF Roster!Serve
    <3> QED
      BY <3>1, <3>3 DEF Roster!Next
  <2> QED
    BY <2>2, <2>3
<1>12. CASE GetDocumentReturns \/ SetDocumentReturns
  <2>1. table' = table /\ phase' = phase
    BY <1>12 DEF GetDocumentReturns, SetDocumentReturns
  <2>2. menu'.call = "open" /\ menu.call \in {"getting", "setting"}
    BY <1>12 DEF GetDocumentReturns, SetDocumentReturns, MenuStates
  <2>3. Served # Nobody /\ Served' = Nobody
    BY <2>2 DEF Served, NoDanglingEntry
  <2>4. Roster!Answered
    BY <1>e, <1>r, <2>1, <2>3 DEF Roster!Answered
  <2> QED
    BY <2>4 DEF Roster!Next
<1>13. CASE UNCHANGED vars
  BY <1>13, <1>e, <1>r, <1>s DEF vars
<1> QED
  BY <1>1, <1>2, <1>3, <1>4, <1>5, <1>6, <1>7, <1>8, <1>9, <1>10, <1>11, <1>12, <1>13 DEF Next, MenuStep, MenuReturns, ModStep, LinkStep

(***************************************************************************)
(* The registry is a roster.                                               *)
(***************************************************************************)
THEOREM RosterImplemented == Spec => ImplementsRoster
<1>1. Init => Roster!Init
  BY DEF Init, Roster!Init, Entries, Refused, Served, ClosedMenu
<1>2. RegistryInv /\ [Next]_vars => [Roster!Next]_(Roster!vars)
  BY RosterStep
<1> QED
  BY <1>1, <1>2, RegistryInvAlways, PTL DEF Spec, Roster!Spec, ImplementsRoster
==============================================================================
