------------------------------ MODULE Versions ------------------------------
(***************************************************************************)
(* One config file and the programs that meet at it: the versions of a     *)
(* mod, of which one runs at a time, each with a schema of its own; a menu *)
(* that edits the running one's settings; and a person with a text editor. *)
(* Every operation is whole here.  What happens when they overlap is the   *)
(* subject of ConfigFile; this module is about which settings and keys     *)
(* come through a load, a save and a change of version.                    *)
(***************************************************************************)
EXTENDS Documents

CONSTANTS
    Versions,       \* the versions of the mod
    SchemaOf,       \* SchemaOf[v]: its schema
    StartDocs,      \* what the file may hold at first
    EditPaths,      \* where the person may type
    EditNodes,      \* what the person may type there
    SaveValues,     \* numbers the mod or the menu may set a field to
    EditBound       \* how often the person edits: a bound on the state space

ASSUME VersionsAssumption ==
    /\ \A v \in Versions : WellFormed(SchemaOf[v])
    /\ Numbers \subseteq Int /\ SaveValues \subseteq Numbers
    /\ {Null, Words, Object} \cap Numbers = {}
    /\ \A doc \in StartDocs : DocumentOK(doc)
    /\ \A path \in EditPaths : path \in Paths /\ Len(path) \in 1..3
    /\ EditNodes \subseteq Scalars \cup {Object}
    /\ EditBound \in Nat

VARIABLES
    file,       \* the document at the path
    version,    \* the version that runs
    live,       \* its settings, by field
    last,       \* what was last done to the file: "load", "save" or "edit"
    edits       \* how often the person has edited
vars == <<file, version, live, last, edits>>

Schema == SchemaOf[version]

-----------------------------------------------------------------------------
\* A document without a path and all below it.
Without(doc, path) == [p \in {q \in DOMAIN doc : ~IsPrefix(path, q)} |-> doc[p]]

With(doc, path, node) ==
    LET rest == Without(doc, path)
    IN  [p \in DOMAIN rest \cup {path} |-> IF p = path THEN node ELSE rest[p]]

\* What can be set on a field in memory: nothing clamps it there.
Settable(i) == SaveValues \cup (IF Schema.fields[i].optional THEN {Null} ELSE {})

Init ==
    /\ file \in StartDocs
    /\ version \in Versions
    /\ live = LoadFields(SchemaOf[version], file)
    /\ last = "load"
    /\ edits = 0

\* The game is restarted with another version, which loads the file.
Start(v) ==
    /\ v # version
    /\ version' = v
    /\ live' = LoadFields(SchemaOf[v], file)
    /\ last' = "load"
    /\ UNCHANGED <<file, edits>>

\* Tick finds bytes it has not seen and loads them into a fresh struct.
Reload ==
    /\ last = "edit"
    /\ live' = LoadFields(Schema, file)
    /\ last' = "load"
    /\ UNCHANGED <<file, version, edits>>

\* ConfigFile::Save: the settings over whatever the file now holds.
SaveSettings(settings) ==
    /\ file' = RenderDocument(Schema, settings, file)
    /\ live' = settings
    /\ last' = "save"
    /\ UNCHANGED <<version, edits>>

Save(i, value) == SaveSettings([live EXCEPT ![i] = value])

\* The menu takes Document(), changes one field of it and hands it to
\* ApplyDocument, which loads it into a fresh struct and saves that.
Commit(i, node) ==
    LET document == RenderDocument(Schema, live, NoDocument)
    IN  SaveSettings(LoadFields(Schema, With(document, AsPath(Schema.fields[i].key), node)))

\* The person types a member into an object that is there, or removes one.
Edit(path, node) ==
    /\ edits < EditBound
    /\ Parent(path) = <<>> \/ (Parent(path) \in DOMAIN file /\ file[Parent(path)] = Object)
    /\ file' = With(file, path, node)
    /\ file' # file
    /\ last' = "edit" /\ edits' = edits + 1
    /\ UNCHANGED <<version, live>>

Remove(path) ==
    /\ edits < EditBound
    /\ path \in DOMAIN file
    /\ file' = Without(file, path)
    /\ last' = "edit" /\ edits' = edits + 1
    /\ UNCHANGED <<version, live>>

Saves == \E i \in Written(Schema) : \E value \in Settable(i) : Save(i, value)
Commits == \E i \in Written(Schema) : \E node \in SaveValues \cup {Null} : Commit(i, node)
Starts == \E v \in Versions : Start(v)

Next ==
    \/ Saves
    \/ Commits
    \/ Starts
    \/ Reload
    \/ \E path \in EditPaths : \E node \in EditNodes : Edit(path, node)
    \/ \E path \in EditPaths : Remove(path)

Spec == Init /\ [][Next]_vars

-----------------------------------------------------------------------------
(* Properties *)

\* Every member of the file stands in an object, and every field of the running
\* version holds a value its type has.
TypeOK ==
    /\ DocumentOK(file)
    /\ version \in Versions
    /\ DOMAIN live = DOMAIN Schema.fields
    /\ \A i \in DOMAIN live :
        live[i] \in Numbers \/ (Schema.fields[i].optional /\ live[i] = Null)
    /\ last \in {"load", "save", "edit"} /\ edits \in 0..EditBound

\* What a struct is after a save and a load: in range, pairs in order, and the
\* declared default where the file cannot say what the struct holds.
Settled(settings) ==
    SwapIfInverted(Schema,
        [i \in DOMAIN settings |->
            IF settings[i] = Null \/ ~Schema.fields[i].written THEN Schema.fields[i].default
            ELSE Clamp(Schema.fields[i], settings[i])])

\* Whatever the file held before, with other spellings, aliases, stray members
\* or values of the wrong type, a save leaves a file that reads back as the
\* settings saved: nothing carried forward shadows a value written.
SavedReadsBack ==
    [][last' = "save" => LoadFields(Schema, file') = Settled(live')]_vars

Subtree(doc, path) == [p \in {q \in DOMAIN doc : IsPrefix(path, q)} |-> doc[p]]

\* README.md:357-359 and the note CollectUnknownKeys reports, "not a setting
\* this version knows; kept as it is": a key reported unknown is in the file
\* after a save, unchanged and with all that was below it.
UnknownKept ==
    [][last' = "save" =>
        \A p \in CollectUnknownKeys(Schema, file) : Subtree(file', p) = Subtree(file, p)]_vars

\* Neither at, above nor below the key of a field of the running version.
Elsewhere(key) ==
    \A i \in DOMAIN Schema.fields :
        LET own == Schema.fields[i].key
        IN  ~KeysEqual(own, key, TRUE) /\ ~IsUnderPath(own, key, TRUE) /\ ~IsUnderPath(key, own, TRUE)

\* "So a downgrade or a future version still finds its own settings": what a
\* field of another version reads under its own key, it still reads after this
\* version has saved, older spellings this version accepts as aliases included.
OtherVersionsKeepTheirs ==
    [][last' = "save" =>
        \A v \in Versions \ {version} : \A i \in DOMAIN SchemaOf[v].fields :
            LET key == SchemaOf[v].fields[i].key
                Found(doc) == ResolvePath(doc, key, SchemaOf[v].insensitive)
            IN  Elsewhere(key) =>
                    /\ Found(file') = Found(file)
                    /\ \A p \in Found(file) : Subtree(file', p) = Subtree(file, p)]_vars

\* Settings that were loaded are in range and their pairs in order, also where
\* one of the pair came from the file and the other is a default or was clamped.
LoadedIsInOrder ==
    [][last' = "load" =>
        \A i \in DOMAIN live' :
            LET field == Schema'.fields[i]
            IN  /\ live'[i] # Null => live'[i] \in field.min..field.max
                /\ field.lower => live'[i] <= live'[i + 1]]_vars
=============================================================================
