-------------------------------- MODULE Roster --------------------------------
(***************************************************************************)
(* What the registry promises, without its table, its indices, its mutex   *)
(* and its threads: a set of member mods of different names, one of which  *)
(* may be answering a call of the menu.  Joining, being refused, leaving   *)
(* and answering are each one step, and nobody joins or leaves during an   *)
(* answer.                                                                 *)
(***************************************************************************)
EXTENDS Naturals

CONSTANTS Mods, NameOf, Nobody

VARIABLES
    members,    \* the mods a menu can reach
    refused,    \* the mods that were told their name is taken
    served      \* the member that is answering the menu, or Nobody

vars == <<members, refused, served>>

Taken(name) == \E m \in members : NameOf[m] = name

Init ==
    /\ members = {}
    /\ refused = {}
    /\ served = Nobody

\* A mod is a member at once, or refused at once, and the name decides which.
Join(m) ==
    /\ served = Nobody
    /\ m \notin members
    /\ ~Taken(NameOf[m])
    /\ members' = members \cup {m}
    /\ UNCHANGED <<refused, served>>

Refuse(m) ==
    /\ served = Nobody
    /\ Taken(NameOf[m])
    /\ refused' = refused \cup {m}
    /\ UNCHANGED <<members, served>>

\* A refused mod goes away; it was never a member.
Forget(m) ==
    /\ m \in refused \ members
    /\ refused' = refused \ {m}
    /\ UNCHANGED <<members, served>>

Leave(m) ==
    /\ served = Nobody
    /\ m \in members
    /\ members' = members \ {m}
    /\ UNCHANGED <<refused, served>>

Serve(m) ==
    /\ served = Nobody
    /\ m \in members
    /\ served' = m
    /\ UNCHANGED <<members, refused>>

Answered ==
    /\ served # Nobody
    /\ served' = Nobody
    /\ UNCHANGED <<members, refused>>

Next ==
    \/ Answered
    \/ \E m \in Mods : Join(m) \/ Refuse(m) \/ Forget(m) \/ Leave(m) \/ Serve(m)

Spec == Init /\ [][Next]_vars
===============================================================================
