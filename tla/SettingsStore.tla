----------------------------- MODULE SettingsStore -----------------------------
(***************************************************************************)
(* What a ConfigFile promises the mod and the person who edits its file,   *)
(* without stamps, temporaries, reads and the steps of a call: a text, the *)
(* copy of the one before it on a shelf, and the settings that are live.   *)
(*                                                                         *)
(* A commit is one step.  It never replaces a text that does not parse, it *)
(* carries every key the schema does not claim, and the text it replaces   *)
(* is on the shelf by then.  Replacing is not promised to be atomic: when  *)
(* it fails or the process ends in the middle, the text may be left on the *)
(* shelf only, never nowhere.                                              *)
(***************************************************************************)
EXTENDS ConfigTexts

CONSTANT None   \* no text

VARIABLES
    text,       \* what a person finds at the path
    shelf,      \* what is left of an earlier text
    live,       \* the settings the mod runs with
    calling     \* the mod is inside a call

vars == <<text, shelf, live, calling>>

Init ==
    /\ text \in Text \cup {None}
    /\ shelf = None
    /\ live = Default
    /\ calling = FALSE

\* What a save may replace: no file, an empty one, or one that parses.
Replaceable == text \in Docs \cup {Empty, None}

Begin == ~calling /\ calling' = TRUE /\ UNCHANGED <<text, shelf, live>>
End   == calling /\ calling' = FALSE /\ UNCHANGED <<text, shelf, live>>

\* The settings that go live are those of the text at the path; the call may
\* have more to do.
Load ==
    /\ calling
    /\ text \in Docs
    /\ live' = LoadFromText(text)
    /\ calling' \in BOOLEAN
    /\ UNCHANGED <<text, shelf>>

Shelve ==
    /\ calling
    /\ text # None
    /\ Replaceable
    /\ shelf' = text
    /\ UNCHANGED <<text, live, calling>>

Commit ==
    /\ calling
    /\ Replaceable
    /\ \E kept \in SUBSET Extras :
          /\ Kept(text) \subseteq kept
          /\ text' = Render(live', kept)
    /\ text \in {None, shelf, text'}
    /\ live' \in Values
    /\ UNCHANGED <<shelf, calling>>

\* A replacement that fails half-way leaves the text on the shelf only.
FallShort ==
    /\ calling
    /\ text # None
    /\ shelf = text
    /\ text' = None
    /\ calling' = FALSE
    /\ UNCHANGED <<shelf, live>>

Restart ==
    /\ \/ UNCHANGED text
       \/ calling /\ shelf = text /\ text' = None
    /\ live' = Default
    /\ calling' = FALSE
    /\ UNCHANGED shelf

\* A person edits or deletes the file, or brings the earlier text back.
Edit ==
    /\ ~calling
    /\ text' \in Text \cup {None}
    /\ UNCHANGED <<shelf, live, calling>>

Restore ==
    /\ ~calling
    /\ shelf # None
    /\ text' = shelf
    /\ shelf' = None
    /\ UNCHANGED <<live, calling>>

Next ==
    \/ Begin \/ End \/ Load \/ Shelve \/ Commit \/ FallShort
    \/ Restart \/ Edit \/ Restore

Spec == Init /\ [][Next]_vars
===============================================================================
