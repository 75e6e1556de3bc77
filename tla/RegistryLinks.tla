---------------------------- MODULE RegistryLinks ----------------------------
(***************************************************************************)
(* The registry with its clients: the mods, whose RegistryLink probes the  *)
(* library, registers a ConfigFile and takes it back on unload, and the    *)
(* menu, which lists the table and commits documents through an index.     *)
(* Each mod loads and unloads on a thread of its own and the menu runs on  *)
(* another, which is what the mutex is there for; a schedule that keeps    *)
(* them all on the game thread is one of the interleavings.                *)
(*                                                                         *)
(* The menu is not part of the repository: it is the caller that the       *)
(* exported functions and the design document describe.                    *)
(***************************************************************************)
EXTENDS Registry, FiniteSets

CONSTANTS
    Menu,           \* the menu's thread
    ReloadThrows    \* whether a mod's reload callback may throw

ASSUME LinksAssumption ==
    /\ Menu \notin Mods
    /\ Menu # Nobody
    /\ ReloadThrows \in BOOLEAN
    /\ IsFiniteSet(Mods)

VARIABLES
    phase,      \* phase[m]: where the mod is in its life
    refs,       \* references held on the library; it is loaded while refs > 0
    menu        \* the menu's call, its index and the page it shows

tableVars == <<table, mutex>>
vars == <<table, mutex, phase, refs, menu>>

Phases ==
    { "unloaded",       \* no ConfigFile, no link
      "loaded",         \* the ConfigFile exists
      "detached",       \* the link found no registry
      "probed",         \* the link holds a reference on the library
      "registering", "registered", "refused",
      "unregistering", "unregistered",
      "closing" }       \* the link is gone, the ConfigFile not yet

\* The phases in which a link holds a reference on the library.
Holding == {"probed", "registering", "registered", "refused",
            "unregistering", "unregistered"}

\* The phases in which the mod's ConfigFile can be used.
FileAlive(m) == phase[m] # "unloaded"

MenuCalls == {"closed", "open", "name", "get", "getting", "set", "setting"}
Answers   == {"none", "null", "clean", "error"}

Names == {NameOf[m] : m \in Mods}
NoName == "no name"

MenuStates ==
    [call: MenuCalls, index: Nat, name: Names \cup {NoName},
     page: Mods \cup {Nobody}, mod: Mods \cup {Nobody},
     answer: Answers, taker: Mods \cup {Nobody}]

\* The index the menu works on, the name and the owner of the document it shows
\* for it, the mod being called, the last answer and, after a commit, the mod
\* whose ConfigFile took the document.
ClosedMenu ==
    [call |-> "closed", index |-> 0, name |-> NoName, page |-> Nobody,
     mod |-> Nobody, answer |-> "none", taker |-> Nobody]

Init ==
    /\ table = << >>
    /\ mutex = Nobody
    /\ phase = [m \in Mods |-> "unloaded"]
    /\ refs = 0
    /\ menu = ClosedMenu

Move(m, from, to) ==
    /\ phase[m] = from
    /\ phase' = [phase EXCEPT ![m] = to]
-------------------------------------------------------------------------------
(* A mod and its link *)

LoadMod(m) ==
    /\ Move(m, "unloaded", "loaded")
    /\ UNCHANGED <<tableVars, refs, menu>>

\* Variant with a bug: a library of another ABI is not released.
ProbeRegistryLeaks(m) ==
    /\ \/ Move(m, "loaded", "probed")
       \/ Move(m, "loaded", "detached")
    /\ refs' = refs + 1
    /\ UNCHANGED <<tableVars, menu>>

\* The library is absent, has another ABI (its reference is given back), or is held.
ProbeRegistry(m) ==
    /\ \/ Move(m, "loaded", "probed") /\ refs' = refs + 1
       \/ Move(m, "loaded", "detached") /\ refs' = refs
    /\ UNCHANGED <<tableVars, menu>>

\* Attach calls PalCfgRegistry_Register, which waits for the mutex.
Attach(m) ==
    /\ Move(m, "probed", "registering")
    /\ Lock(m)
    /\ UNCHANGED <<table, refs, menu>>

Registered(m) ==
    /\ mutex = m
    /\ Register(m)
    /\ Move(m, "registering", IF table' = table THEN "refused" ELSE "registered")
    /\ Unlock
    /\ UNCHANGED <<refs, menu>>

\* ~RegistryLink calls PalCfgRegistry_Unregister, which waits for the mutex.
Detach(m) ==
    /\ Move(m, "registered", "unregistering")
    /\ UNCHANGED <<tableVars, refs, menu>>

UnregisterLocks(m) ==
    /\ phase[m] = "unregistering"
    /\ Lock(m)
    /\ UNCHANGED <<table, phase, refs, menu>>

Unregistered(m) ==
    /\ mutex = m
    /\ Move(m, "unregistering", "unregistered")
    /\ Unregister(m)
    /\ Unlock
    /\ UNCHANGED <<refs, menu>>

\* Variant with a bug: a detached link gives back a reference it never took.
ReleaseRegistryUnowned(m) ==
    /\ phase[m] \in {"probed", "refused", "unregistered", "detached"}
    /\ phase' = [phase EXCEPT ![m] = "closing"]
    /\ refs' = refs - 1
    /\ UNCHANGED <<tableVars, menu>>

\* Variant with a bug: the destructor of a registered link only lets go of the library.
ReleaseWithoutUnregister(m) ==
    /\ phase[m] \in {"probed", "registered", "refused", "unregistered"}
    /\ phase' = [phase EXCEPT ![m] = "closing"]
    /\ refs' = refs - 1
    /\ UNCHANGED <<tableVars, menu>>

\* The end of ~RegistryLink: the reference on the library goes last.
ReleaseRegistry(m) ==
    /\ \/ /\ phase[m] \in {"probed", "refused", "unregistered"}
          /\ refs' = refs - 1
       \/ phase[m] = "detached" /\ refs' = refs
    /\ phase' = [phase EXCEPT ![m] = "closing"]
    /\ UNCHANGED <<tableVars, menu>>

\* The ConfigFile is destroyed after the link that points at it.
UnloadMod(m) ==
    /\ Move(m, "closing", "unloaded")
    /\ UNCHANGED <<tableVars, refs, menu>>
-------------------------------------------------------------------------------
(* The menu *)

\* The menu mod ships the library and holds a reference while it runs.
OpenMenu ==
    /\ menu.call = "closed"
    /\ menu' = [menu EXCEPT !.call = "open"]
    /\ refs' = refs + 1
    /\ UNCHANGED <<tableVars, phase>>

CloseMenu ==
    /\ menu.call = "open"
    /\ menu' = ClosedMenu
    /\ refs' = refs - 1
    /\ UNCHANGED <<tableVars, phase>>

\* The menu turns to an index and asks for its name.
CallName ==
    /\ menu.call = "open"
    /\ \E index \in 0 .. Cardinality(Mods) - 1 :
          menu' = [ClosedMenu EXCEPT !.call = "name", !.index = index]
    /\ Lock(Menu)
    /\ UNCHANGED <<table, phase, refs>>

\* PalCfgRegistry_Name: out of range is a null answer.
Name ==
    /\ menu.call = "name"
    /\ menu' = IF At(menu.index) = Nobody
               THEN [menu EXCEPT !.call = "open", !.answer = "null"]
               ELSE [menu EXCEPT !.call = "open", !.name = NameOf[At(menu.index)]]
    /\ Unlock
    /\ UNCHANGED <<table, phase, refs>>

\* It asks for the document to show under that name.
CallGetDocument ==
    /\ menu.call = "open"
    /\ menu.name # NoName
    /\ menu' = [menu EXCEPT !.call = "get", !.page = Nobody, !.answer = "none",
                            !.taker = Nobody]
    /\ Lock(Menu)
    /\ UNCHANGED <<table, phase, refs>>

\* Variant with a bug: the early return leaves the mutex locked.
GetDocumentKeepsLock ==
    /\ menu.call = "get"
    /\ menu' = IF At(menu.index) = Nobody
               THEN [menu EXCEPT !.call = "open", !.answer = "null"]
               ELSE [menu EXCEPT !.call = "getting", !.mod = At(menu.index)]
    /\ UNCHANGED <<tableVars, phase, refs>>

\* PalCfgRegistry_GetDocument: the mod's thunk is called with the mutex held.
GetDocument ==
    /\ menu.call = "get"
    /\ IF At(menu.index) = Nobody
       THEN /\ menu' = [menu EXCEPT !.call = "open", !.answer = "null"]
            /\ Unlock
       ELSE /\ menu' = [menu EXCEPT !.call = "getting", !.mod = At(menu.index)]
            /\ UNCHANGED mutex
    /\ UNCHANGED <<table, phase, refs>>

GetDocumentReturns ==
    /\ menu.call = "getting"
    /\ menu' = [menu EXCEPT !.call = "open", !.page = menu.mod, !.mod = Nobody]
    /\ Unlock
    /\ UNCHANGED <<table, phase, refs>>

\* The user commits the page that is shown.
CommitPage ==
    /\ menu.call = "open"
    /\ menu.page # Nobody
    /\ menu' = [menu EXCEPT !.call = "set", !.answer = "none", !.taker = Nobody]
    /\ Lock(Menu)
    /\ UNCHANGED <<table, phase, refs>>

\* Variant with a bug: the mutex is not held across the mod's callback.
SetDocumentUnlocked ==
    /\ menu.call = "set"
    /\ menu' = IF At(menu.index) = Nobody
               THEN [menu EXCEPT !.call = "open", !.answer = "null"]
               ELSE [menu EXCEPT !.call = "setting", !.mod = At(menu.index)]
    /\ Unlock
    /\ UNCHANGED <<table, phase, refs>>

SetDocument ==
    /\ menu.call = "set"
    /\ IF At(menu.index) = Nobody
       THEN /\ menu' = [menu EXCEPT !.call = "open", !.answer = "null"]
            /\ Unlock
       ELSE /\ menu' = [menu EXCEPT !.call = "setting", !.mod = At(menu.index)]
            /\ UNCHANGED mutex
    /\ UNCHANGED <<table, phase, refs>>

(***************************************************************************)
(* SetDocumentThunk over ApplyDocument: the document is taken and the      *)
(* answer is clean; it is refused, or something throws before the save, or *)
(* the thunk returns null, and the answer is an error; or it is taken and  *)
(* then the reload callback throws, which the thunk also turns into an     *)
(* error.                                                                  *)
(***************************************************************************)
SetDocumentReturns ==
    /\ menu.call = "setting"
    /\ \E answer \in {"clean", "error"}, taken \in BOOLEAN :
          /\ answer = "clean" => taken
          /\ answer = "error" /\ taken => ReloadThrows
          /\ menu' = [menu EXCEPT !.call = "open", !.mod = Nobody,
                                  !.answer = answer,
                                  !.taker = IF taken THEN menu.mod ELSE Nobody]
    /\ Unlock
    /\ UNCHANGED <<table, phase, refs>>
-------------------------------------------------------------------------------
LinkStep(m) ==
    \/ Registered(m) \/ UnregisterLocks(m) \/ Unregistered(m)
    \/ ReleaseRegistry(m) \/ UnloadMod(m)

ModStep(m) ==
    \/ LoadMod(m) \/ ProbeRegistry(m) \/ Attach(m) \/ Detach(m)
    \/ LinkStep(m)

MenuReturns ==
    \/ Name \/ GetDocument \/ GetDocumentReturns
    \/ SetDocument \/ SetDocumentReturns

MenuStep ==
    \/ OpenMenu \/ CloseMenu \/ CallName \/ CallGetDocument \/ CommitPage
    \/ MenuReturns

Next == MenuStep \/ \E m \in Mods : ModStep(m)

Spec == Init /\ [][Next]_vars

(***************************************************************************)
(* A call that holds the mutex returns, an unload that has begun goes on,  *)
(* and a thread that waits for the mutex is not passed over for ever.      *)
(* std::mutex promises no order, so the last is strong fairness.           *)
(***************************************************************************)
FairSpec ==
    /\ Spec
    /\ WF_vars(MenuReturns)
    /\ \A m \in Mods :
          /\ WF_vars(Registered(m) \/ Unregistered(m))
          /\ SF_vars(UnregisterLocks(m))
          /\ WF_vars(ReleaseRegistry(m) /\ phase[m] = "unregistered")
          /\ WF_vars(UnloadMod(m))
-------------------------------------------------------------------------------
(***************************************************************************)
(* The type invariant.                                                     *)
(***************************************************************************)
TypeOK ==
    /\ table \in Seq(Mods)
    /\ mutex \in Mods \cup {Menu, Nobody}
    /\ phase \in [Mods -> Phases]
    /\ refs \in Nat
    /\ menu \in MenuStates

Entries == {table[i] : i \in DOMAIN table}

(***************************************************************************)
(* No two entries have one name (Registry.cpp:86-89), whatever the order   *)
(* in which mods load and unload.                                          *)
(***************************************************************************)
NamesUnique ==
    \A i, j \in DOMAIN table : NameOf[table[i]] = NameOf[table[j]] => i = j

(***************************************************************************)
(* The table holds exactly the mods whose link has registered and not yet  *)
(* unregistered: a mod that has gone leaves no dangling entry              *)
(* (Registry.hpp:78-83).                                                   *)
(***************************************************************************)
NoDanglingEntry ==
    Entries = {m \in Mods : phase[m] \in {"registered", "unregistering"}}

(***************************************************************************)
(* Who holds the mutex: a thread holds it exactly while it is inside a     *)
(* call, and the call it makes into a mod is one on an entry of the table. *)
(* NoDanglingEntry and CallbackOnLiveMod rest on it (Registry.cpp:9-10).    *)
(***************************************************************************)
MutexHeld ==
    /\ mutex = Menu <=> menu.call \in MenuCalls \ {"closed", "open"}
    /\ \A m \in Mods :
          /\ mutex = m => phase[m] \in {"registering", "unregistering"}
          /\ phase[m] = "registering" => mutex = m
    /\ menu.call \in {"getting", "setting"} => menu.mod \in Entries

(***************************************************************************)
(* While the menu is inside a mod's callback, that mod is still in the     *)
(* table, so its ConfigFile has not been destroyed: the mutex held across  *)
(* the callback keeps an unload out (Registry.cpp:49-52).                  *)
(***************************************************************************)
CallbackOnLiveMod ==
    menu.call \in {"getting", "setting"}
        => /\ phase[menu.mod] \in {"registered", "unregistering"}
           /\ menu.mod \in Entries

Holders == {m \in Mods : phase[m] \in Holding}

(***************************************************************************)
(* The library's references are those of the links that attached and of    *)
(* the menu: none is leaked when a probe fails or a link is destroyed, and *)
(* while the table has an entry or a thread is inside, it stays loaded     *)
(* (Registry.hpp:50-53 and 78-83).                                         *)
(***************************************************************************)
LibraryRefs ==
    /\ refs = Cardinality(Holders)
              + (IF menu.call = "closed" THEN 0 ELSE 1)
    /\ table # << >> \/ mutex # Nobody => refs > 0

(***************************************************************************)
(* A mod that starts to unload gets through: no call of the menu keeps it  *)
(* waiting for the mutex for ever.                                         *)
(***************************************************************************)
UnloadCompletes ==
    \A m \in Mods : phase[m] = "unregistering" ~> phase[m] = "unloaded"

(***************************************************************************)
(* The design document says that a mod that unregistered while the menu    *)
(* held an index yields null: a document committed on a page never goes to *)
(* a mod of another name.                                                  *)
(***************************************************************************)
CommitReachesShownMod ==
    menu.taker # Nobody => NameOf[menu.taker] = menu.name

-------------------------------------------------------------------------------
(***************************************************************************)
(* What of this a client can tell: who is in the table, who was refused    *)
(* and who is inside a callback.                                           *)
(***************************************************************************)
Refused == {m \in Mods : phase[m] = "refused"}

Served == IF menu.call \in {"getting", "setting"} THEN menu.mod ELSE Nobody

Roster == INSTANCE Roster WITH
    members <- Entries, refused <- Refused, served <- Served

(***************************************************************************)
(* The registry is a roster: whatever the order in which threads take the  *)
(* mutex, registration, refusal and removal look instantaneous, names are  *)
(* decided among the members of that moment, and nobody comes or goes      *)
(* while a mod is answering (Registry.cpp:9-10, 80-121 and 136-164).       *)
(***************************************************************************)
ImplementsRoster == Roster!Spec
==============================================================================
