------------------------------ MODULE Documents ------------------------------
(***************************************************************************)
(* Settings read out of a document and written back into one: LoadFields   *)
(* and CollectUnknownKeys of Load.hpp, Renderer of Write.hpp, the key      *)
(* rules of Keys.hpp they share, and the descriptors of Field.hpp that     *)
(* drive them.                                                             *)
(*                                                                         *)
(* A segment is a key without dots, such as "rate" or "Rate".  A member's  *)
(* name in a document is a sequence of segments: nearly always of one, of  *)
(* more if a person typed a key with dots in it.  A schema's dotted key is *)
(* a sequence of segments too, each naming a child of the object before.   *)
(*                                                                         *)
(* A document is a function from paths, sequences of names, to what stands *)
(* there: a number, one of the two other scalars, or Object for a nested   *)
(* object whose members the function maps too.  The order of members and   *)
(* the comments are left out: the JSON library sorts the first and drops   *)
(* the second when it parses.                                              *)
(***************************************************************************)
EXTENDS Integers, Sequences, FiniteSets

CONSTANTS
    Numbers,    \* the numbers a document may hold, wider than a field's range
    Null,       \* null, and a settings struct's nullopt
    Words,      \* text that no number can be read from
    Object,     \* the node of a nested object
    LowerCase   \* LowerCase[s]: the segment s in small letters

Scalars == Numbers \cup {Null, Words}
Segments == DOMAIN LowerCase
Paths == Seq(Seq(Segments))

-----------------------------------------------------------------------------
(* Keys *)

Prefix(s, n) == SubSeq(s, 1, n)
IsPrefix(s, t) == Len(s) <= Len(t) /\ Prefix(t, Len(s)) = s
Parent(path) == Prefix(path, Len(path) - 1)
Own(path) == path[Len(path)]
AsPath(key) == [i \in DOMAIN key |-> <<key[i]>>]

\* The dotted spelling of a path, as CollectUnknownKeys joins it.  Paths are at
\* most three names long here.
Dotted(path) ==
    (IF Len(path) >= 1 THEN path[1] ELSE <<>>)
        \o (IF Len(path) >= 2 THEN path[2] ELSE <<>>)
        \o (IF Len(path) >= 3 THEN path[3] ELSE <<>>)

KeysEqual(a, b, insensitive) ==
    \/ a = b
    \/ insensitive /\ Len(a) = Len(b) /\ \A i \in DOMAIN a : LowerCase[a[i]] = LowerCase[b[i]]

InCapitals(name) == \E i \in DOMAIN name : name[i] # LowerCase[name[i]]

IsUnderPath(candidate, path, insensitive) ==
    /\ Len(candidate) > Len(path)
    /\ KeysEqual(Prefix(candidate, Len(path)), path, insensitive)

(***************************************************************************)
(* Whether the member at a path is the one its object finds for a segment. *)
(* Without regard to case that is the first name in the order of the JSON  *)
(* library's map, in which capitals come before small letters.  A segment  *)
(* has two spellings here.                                                 *)
(***************************************************************************)
FindChild(doc, path, segment, insensitive) ==
    /\ KeysEqual(Own(path), <<segment>>, insensitive)
    /\ insensitive /\ ~InCapitals(Own(path)) =>
        ~\E other \in DOMAIN doc :
            /\ Len(other) = Len(path) /\ InCapitals(Own(other))
            /\ KeysEqual(Own(other), <<segment>>, TRUE) /\ Parent(other) = Parent(path)

\* Where a dotted key leads: one path, or none.
ResolvePath(doc, key, insensitive) ==
    {p \in DOMAIN doc :
        /\ Len(p) = Len(key)
        /\ \A i \in DOMAIN key : FindChild(doc, Prefix(p, i), key[i], insensitive)}

-----------------------------------------------------------------------------
(* Load *)

\* The node a field is read from.  An alias answers only for an absent key.
Source(schema, doc, i) ==
    LET aliases == schema.fields[i].aliases
        Found(key) == ResolvePath(doc, key, schema.insensitive)
        primary == Found(schema.fields[i].key)
        present == {n \in DOMAIN aliases : Found(aliases[n]) # {}}
    IN  IF primary # {} THEN primary
        ELSE UNION {Found(aliases[n]) : n \in {m \in present : \A k \in present : m <= k}}

Clamp(field, value) ==
    IF value < field.min THEN field.min
    ELSE IF value > field.max THEN field.max ELSE value

\* A field that is absent or cannot be read keeps its default.  null is not
\* read, for an optional field either.
Parsed(schema, doc, i) ==
    LET field == schema.fields[i]
        readable == {p \in Source(schema, doc, i) : doc[p] \in Numbers}
    IN  IF readable = {} THEN field.default
        ELSE Clamp(field, doc[CHOOSE p \in readable : TRUE])

Inverted(schema, values, i) ==
    schema.fields[i].lower /\ values[i] > values[i + 1]

\* Every pair put in order, once all fields have their values.
SwapIfInverted(schema, values) ==
    [i \in DOMAIN values |->
        IF Inverted(schema, values, i) THEN values[i + 1]
        ELSE IF i > 1 /\ Inverted(schema, values, i - 1) THEN values[i - 1]
        ELSE values[i]]

\* Variant with a bug: a pair is looked at only if the file has both of its fields.
LoadFieldsSwapsPresent(schema, doc) ==
    LET values == [i \in DOMAIN schema.fields |-> Parsed(schema, doc, i)]
    IN  [i \in DOMAIN values |->
            IF \A j \in {i - 1, i, i + 1} \cap DOMAIN values : Source(schema, doc, j) # {}
            THEN SwapIfInverted(schema, values)[i] ELSE values[i]]

LoadFields(schema, doc) ==
    SwapIfInverted(schema, [i \in DOMAIN schema.fields |-> Parsed(schema, doc, i)])

\* Whether a field answers to this dotted name, by its key or by an alias.
ClaimedOnLoad(schema, dotted) ==
    \E i \in DOMAIN schema.fields :
        \E key \in {schema.fields[i].key} \cup {schema.fields[i].aliases[n] :
                                                n \in DOMAIN schema.fields[i].aliases} :
            KeysEqual(key, dotted, schema.insensitive)

HasDescendant(schema, dotted) ==
    \E i \in DOMAIN schema.fields :
        IsUnderPath(schema.fields[i].key, dotted, schema.insensitive)

\* LoadResult::unknownKeys.  The search goes on inside containers only.
CollectUnknownKeys(schema, doc) ==
    LET Container(p) == ~ClaimedOnLoad(schema, Dotted(p)) /\ HasDescendant(schema, Dotted(p))
    IN  {p \in DOMAIN doc :
            /\ \A n \in 1..(Len(p) - 1) : Container(Prefix(p, n))
            /\ ~ClaimedOnLoad(schema, Dotted(p)) /\ ~HasDescendant(schema, Dotted(p))}

-----------------------------------------------------------------------------
(* Write *)

Written(schema) == {i \in DOMAIN schema.fields : schema.fields[i].written}

\* The object levels a rendering opens: the root, and one for every prefix of
\* the key of a field that is written.
Levels(schema) ==
    {<<>>} \cup
    UNION {{AsPath(Prefix(schema.fields[i].key, n)) : n \in 0..(Len(schema.fields[i].key) - 1)}
           : i \in Written(schema)}

\* Variant with a bug: keys are compared exactly, whatever the schema says.
ClaimedExactly(schema, level, name) ==
    \E i \in DOMAIN schema.fields :
        IsPrefix(Append(level, name), AsPath(schema.fields[i].key))

\* Variant with a bug: a key an alias answers to is not carried forward.
ClaimedByAlias(schema, level, name) ==
    \E i \in DOMAIN schema.fields :
        \E key \in {schema.fields[i].key} \cup {schema.fields[i].aliases[n] :
                                                n \in DOMAIN schema.fields[i].aliases} :
            IsPrefix(Append(level, name), AsPath(key))

\* Whether some field, written or not, lives at or below this name of a level.
\* Keys only, not aliases; the level is compared exactly, the name by the
\* schema's rule.
Claimed(schema, level, name) ==
    \E i \in DOMAIN schema.fields :
        LET key == schema.fields[i].key
        IN  /\ Len(key) > Len(level)
            /\ \A n \in DOMAIN level : level[n] = <<key[n]>>
            /\ KeysEqual(<<key[Len(level) + 1]>>, name, schema.insensitive)

\* Variant with a bug: only the root's unclaimed members are kept.
CarryRootOnly(schema, preserved) ==
    {p \in DOMAIN preserved : ~Claimed(schema, <<>>, p[1])}

\* What is kept of the file being replaced: at every level that is rendered, the
\* members no field claims, each with all that is below it.
Carry(schema, preserved) ==
    LET levels == Levels(schema)
        roots == {p \in DOMAIN preserved :
                    Parent(p) \in levels /\ ~Claimed(schema, Parent(p), Own(p))}
    IN  {p \in DOMAIN preserved : \E r \in roots : IsPrefix(r, p)}

\* Variant with a bug: fields and kept members are written, their object is not opened.
RenderUnopened(schema, settings, preserved) ==
    LET leaf(i) == AsPath(schema.fields[i].key)
        leaves == {leaf(i) : i \in Written(schema)}
    IN  [p \in leaves \cup Carry(schema, preserved) |->
            IF p \in leaves THEN settings[CHOOSE i \in Written(schema) : leaf(i) = p]
            ELSE preserved[p]]

RenderDocument(schema, settings, preserved) ==
    LET leaf(i) == AsPath(schema.fields[i].key)
        leaves == {leaf(i) : i \in Written(schema)}
        opened == Levels(schema) \ {<<>>}
    IN  [p \in leaves \cup opened \cup Carry(schema, preserved) |->
            IF p \in leaves THEN settings[CHOOSE i \in Written(schema) : leaf(i) = p]
            ELSE IF p \in opened THEN Object
            ELSE preserved[p]]

NoDocument == [p \in {} |-> Null]

\* What a document parses into here: every member stands in an object.
DocumentOK(doc) ==
    \A p \in DOMAIN doc :
        /\ p \in Paths /\ Len(p) \in 1..3
        /\ doc[p] \in Scalars \cup {Object}
        /\ Len(p) > 1 => Parent(p) \in DOMAIN doc /\ doc[Parent(p)] = Object

-----------------------------------------------------------------------------
(***************************************************************************)
(* A schema: its fields in order, and whether keys match without regard to *)
(* case.  A field has a key and aliases, the range and default of its      *)
(* struct member, and is "written" unless its type can be read only.       *)
(* "lower" marks the lower field of a pair that asked to be swapped; the   *)
(* upper one is the next, and a modifier reaches both.  No field lives at  *)
(* or under the key of another, which the code leaves to the author.       *)
(***************************************************************************)
WellFormed(schema) ==
    LET fields == schema.fields
    IN  /\ schema.insensitive \in BOOLEAN
        /\ fields \in Seq({fields[i] : i \in DOMAIN fields})
        /\ \A i \in DOMAIN fields :
            /\ fields[i].key \in Seq(Segments) /\ Len(fields[i].key) \in 1..3
            /\ Len(fields[i].aliases) <= 4 /\ fields[i].written \in BOOLEAN
            /\ {fields[i].min, fields[i].max} \subseteq Numbers /\ fields[i].min <= fields[i].max
            /\ \/ fields[i].default \in Numbers \cap (fields[i].min..fields[i].max)
               \/ fields[i].optional /\ fields[i].default = Null
            /\ fields[i].lower =>
                /\ i + 1 \in DOMAIN fields /\ ~fields[i + 1].lower
                /\ fields[i].min = fields[i + 1].min /\ fields[i].max = fields[i + 1].max
                /\ ~fields[i].optional /\ ~fields[i + 1].optional
            /\ \A j \in DOMAIN fields \ {i} :
                /\ ~KeysEqual(fields[i].key, fields[j].key, TRUE)
                /\ ~IsUnderPath(fields[i].key, fields[j].key, TRUE)
==============================================================================
