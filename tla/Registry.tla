------------------------------- MODULE Registry -------------------------------
(***************************************************************************)
(* The table inside PalCfgRegistry.dll: the mods that have registered, in  *)
(* registration order, behind one mutex.  Every exported function locks    *)
(* the mutex, does its work and unlocks; GetDocument and SetDocument call  *)
(* into the mod with the mutex still held.                                 *)
(***************************************************************************)
EXTENDS Naturals, Sequences, SequencesExt

CONSTANTS
    Mods,       \* registrations a mod's RegistryLink can make, one per link
    NameOf,     \* NameOf[m]: the mod id it registers under
    Nobody      \* the mutex is free

VARIABLES
    table,      \* State::mods
    mutex       \* State::mutex: the thread that holds it, or Nobody

ASSUME RegistryAssumption == Nobody \notin Mods

Lock(thread) ==
    /\ mutex = Nobody
    /\ mutex' = thread

Unlock == mutex' = Nobody

\* Indices are zero-based across the ABI; out of range gives Nobody, a null entry.
At(index) == IF index < Len(table) THEN table[index + 1] ELSE Nobody

NameTaken(name) == \E i \in DOMAIN table : NameOf[table[i]] = name

\* Variant with a bug: a second mod may take a name.
RegisterAnyName(mod) == table' = Append(table, mod)

\* PalCfgRegistry_Register under the mutex; a duplicate name is refused.
Register(mod) ==
    table' = IF NameTaken(NameOf[mod]) THEN table ELSE Append(table, mod)

\* PalCfgRegistry_Unregister under the mutex: the handle's entry goes, if any.
Unregister(mod) ==
    table' = IF \E i \in DOMAIN table : table[i] = mod
             THEN RemoveAt(table, CHOOSE i \in DOMAIN table : table[i] = mod)
             ELSE table
===============================================================================
