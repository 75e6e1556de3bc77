---------------------------- MODULE VersionsProof ----------------------------
(***************************************************************************)
(* What loads and saves keep, for every schema and every document: types,  *)
(* and the bounds and order of what is loaded; and that a save keeps       *)
(* unknown keys, what other versions read, and the settings it was given,  *)
(* where objects are spelled the way the schemas spell them or keys are    *)
(* compared exactly.                                                       *)
(***************************************************************************)
EXTENDS Versions, SequenceTheorems, TLAPS

-----------------------------------------------------------------------------
(* Paths and keys, element by element *)

\* A prefix of a sequence, element by element.
LEMMA PrefixOf ==
    ASSUME NEW S, NEW s \in Seq(S), NEW n \in 0..Len(s)
    PROVE  /\ Prefix(s, n) \in Seq(S) /\ Len(Prefix(s, n)) = n
           /\ \A i \in 1..n : Prefix(s, n)[i] = s[i]
<1>1. \A i \in 1..n : s[i] \in S
  BY ElementOfSeq, LenProperties
<1> QED
  BY <1>1, SubSeqProperties, LenProperties DEF Prefix

\* To be a prefix is to agree as far as one goes.
LEMMA PrefixPointwise ==
    ASSUME NEW S, NEW s \in Seq(S), NEW t \in Seq(S)
    PROVE  IsPrefix(s, t) <=> Len(s) <= Len(t) /\ \A i \in 1..Len(s) : t[i] = s[i]
<1>1. ASSUME Len(s) <= Len(t)
      PROVE  /\ Prefix(t, Len(s)) \in Seq(S) /\ Len(Prefix(t, Len(s))) = Len(s)
             /\ \A i \in 1..Len(s) : Prefix(t, Len(s))[i] = t[i]
  BY <1>1, PrefixOf, LenProperties
<1>2. ASSUME Len(s) <= Len(t), \A i \in 1..Len(s) : t[i] = s[i]
      PROVE  Prefix(t, Len(s)) = s
  BY <1>1, <1>2, SeqEqual
<1> QED
  BY <1>1, <1>2 DEF IsPrefix

\* The same for paths.
LEMMA PathPrefix ==
    ASSUME NEW path \in Paths, NEW n \in Nat, n <= Len(path)
    PROVE  /\ Prefix(path, n) \in Paths /\ Len(Prefix(path, n)) = n
           /\ \A i \in 1..n : Prefix(path, n)[i] = path[i]
           /\ IsPrefix(Prefix(path, n), path)
<1>1. path \in Seq(Seq(Segments)) /\ n \in 0..Len(path)
  BY LenProperties DEF Paths
<1>2. /\ Prefix(path, n) \in Paths /\ Len(Prefix(path, n)) = n
      /\ \A i \in 1..n : Prefix(path, n)[i] = path[i]
  BY <1>1, PrefixOf DEF Paths
<1>3. IsPrefix(Prefix(path, n), path)
  BY <1>1, <1>2, PrefixPointwise DEF Paths
<1> QED
  BY <1>2, <1>3

\* A parent is the path without its last name.
LEMMA ParentOf ==
    ASSUME NEW S, NEW p \in Seq(S), Len(p) >= 1
    PROVE  /\ Parent(p) \in Seq(S) /\ Len(Parent(p)) = Len(p) - 1
           /\ \A i \in 1..(Len(p) - 1) : Parent(p)[i] = p[i]
<1>1. Len(p) - 1 \in 0..Len(p)
  BY LenProperties
<1> QED
  BY <1>1, PrefixOf DEF Parent

\* Arithmetic on lengths, which are at most three.
LEMMA Positive ==
    ASSUME NEW n \in 1..3
    PROVE  n >= 1
  OBVIOUS

\* A shorter length is below a longer one.
LEMMA LengthsInOrder ==
    ASSUME NEW m \in 1..3, NEW n \in 1..3, m < n
    PROVE  m \in 1..(n - 1)
  OBVIOUS

\* Of two lengths that are in order one is longer, or they are the same.
LEMMA LongerOrEqual ==
    ASSUME NEW m \in 1..3, NEW n \in 1..3, m >= n
    PROVE  m > n \/ m = n
  OBVIOUS

\* A position is the last or before it.
LEMMA LastOrBefore ==
    ASSUME NEW len \in 1..3, NEW n \in 1..len
    PROVE  n = len \/ n < len
  OBVIOUS

\* The last position of a path is one of a key as long.
LEMMA LastWithin ==
    ASSUME NEW m \in 1..3, NEW n \in 1..3, n >= m
    PROVE  m \in 1..n /\ m \in 1..m
  OBVIOUS

\* The lengths of the prefixes of a path.
LEMMA UpToThree ==
    ASSUME NEW len \in 1..3, NEW n \in 1..len
    PROVE  /\ len \in Nat /\ n \in Nat
           /\ n = len \/ (len > 1 /\ n = len - 1) \/ (len = 3 /\ n = 1)
  OBVIOUS

\* The parent of a path of a document.
LEMMA ParentOfPath ==
    ASSUME NEW path \in Paths, Len(path) \in 1..3
    PROVE  /\ Parent(path) \in Paths /\ Len(Parent(path)) = Len(path) - 1
           /\ \A n \in 1..(Len(path) - 1) : Parent(path)[n] = path[n]
<1>1. Len(path) >= 1
  BY Positive
<1> QED
  BY <1>1, ParentOf DEF Paths

\* The path of a key has one name for each segment.
LEMMA AsPathOf ==
    ASSUME NEW key \in Seq(Segments)
    PROVE  /\ AsPath(key) \in Paths /\ Len(AsPath(key)) = Len(key)
           /\ \A i \in 1..Len(key) : AsPath(key)[i] = <<key[i]>>
<1>1. DOMAIN key = 1..Len(key) /\ Len(key) \in Nat /\ \A i \in 1..Len(key) : key[i] \in Segments
  BY LenProperties, ElementOfSeq
<1>2. \A i \in 1..Len(key) : <<key[i]>> \in Seq(Segments)
  BY <1>1
<1> QED
  BY <1>1, <1>2 DEF AsPath, Paths

\* A path of names without dots is spelled as a key of the same length.
LEMMA DottedSingles ==
    ASSUME NEW p \in Paths, Len(p) \in 1..3, \A i \in 1..Len(p) : Len(p[i]) = 1
    PROVE  /\ Dotted(p) \in Seq(Segments) /\ Len(Dotted(p)) = Len(p)
           /\ \A i \in 1..Len(p) : p[i] = <<Dotted(p)[i]>>
<1>1. \A i \in 1..Len(p) : p[i] \in Seq(Segments) /\ p[i] = <<p[i][1]>> /\ p[i][1] \in Segments
  BY DEF Paths
<1>2. CASE Len(p) = 1
  <2>1. Dotted(p) = p[1]
    BY <1>1, <1>2, ConcatEmptySeq, EmptySeq DEF Dotted
  <2> QED
    BY <1>1, <1>2, <2>1
<1>3. CASE Len(p) = 2
  <2>1. p[1] \o p[2] \in Seq(Segments)
    BY <1>1, <1>3, ConcatProperties
  <2>2. Dotted(p) = p[1] \o p[2]
    BY <1>1, <1>3, <2>1, ConcatEmptySeq DEF Dotted
  <2> QED
    BY <1>1, <1>3, <2>2, ConcatProperties
<1>4. CASE Len(p) = 3
  <2>1. /\ p[1] \o p[2] \in Seq(Segments) /\ Len(p[1] \o p[2]) = 2
        /\ (p[1] \o p[2])[1] = p[1][1] /\ (p[1] \o p[2])[2] = p[2][1]
    BY <1>1, <1>4, ConcatProperties
  <2>2. Dotted(p) = (p[1] \o p[2]) \o p[3]
    BY <1>4 DEF Dotted
  <2>3. /\ Dotted(p) \in Seq(Segments) /\ Len(Dotted(p)) = 3
        /\ Dotted(p)[1] = p[1][1] /\ Dotted(p)[2] = p[2][1] /\ Dotted(p)[3] = p[3][1]
    BY <1>1, <1>4, <2>1, <2>2, ConcatProperties
  <2> QED
    BY <1>1, <1>4, <2>3
<1> QED
  BY <1>2, <1>3, <1>4

-----------------------------------------------------------------------------
(* Loading *)

\* The fields of a well-formed schema are a sequence, and their keys are keys.
LEMMA FieldsOf ==
    ASSUME NEW schema, WellFormed(schema)
    PROVE  /\ Len(schema.fields) \in Nat
           /\ DOMAIN schema.fields = 1..Len(schema.fields)
           /\ \A i \in DOMAIN schema.fields :
                schema.fields[i].key \in Seq(Segments) /\ Len(schema.fields[i].key) \in 1..3
  BY LenProperties DEF WellFormed

\* A value a field's type has, and one that its range has too.
Typed(field, value) == value \in Numbers \/ (field.optional /\ value = Null)
InRange(field, value) ==
    value \in field.min..field.max \/ (field.optional /\ value = Null)

\* Whatever the document, a field that is read is in range, and one that is not
\* read has its default (Traits.hpp:68-83).
LEMMA ParsedInRange ==
    ASSUME NEW schema, WellFormed(schema), NEW doc, NEW i \in DOMAIN schema.fields
    PROVE  /\ Typed(schema.fields[i], Parsed(schema, doc, i))
           /\ InRange(schema.fields[i], Parsed(schema, doc, i))
<1> DEFINE field == schema.fields[i]
           readable == {p \in Source(schema, doc, i) : doc[p] \in Numbers}
<1>1. /\ field.min \in Numbers /\ field.max \in Numbers /\ field.min <= field.max
      /\ InRange(field, field.default) /\ Typed(field, field.default) /\ Numbers \subseteq Int
  BY VersionsAssumption DEF WellFormed, InRange, Typed
<1>2. CASE readable = {}
  BY <1>1, <1>2 DEF Parsed
<1>3. CASE readable # {}
  <2>1. PICK x \in Numbers : Parsed(schema, doc, i) = Clamp(field, x)
    BY <1>3 DEF Parsed
  <2>2. x \in Int /\ field.min \in Int /\ field.max \in Int
    BY <1>1
  <2>3. Clamp(field, x) \in Numbers /\ Clamp(field, x) \in field.min..field.max
    BY <1>1, <2>2 DEF Clamp
  <2> QED
    BY <2>1, <2>3 DEF Typed, InRange
<1> QED
  BY <1>2, <1>3

\* Putting the pairs in order moves a value only between two fields of one type
\* and range (Schema.hpp:98-137).
LEMMA SwappedInRange ==
    ASSUME NEW schema, WellFormed(schema), NEW values, DOMAIN values = DOMAIN schema.fields,
           \A i \in DOMAIN schema.fields :
                Typed(schema.fields[i], values[i]) /\ InRange(schema.fields[i], values[i]),
           NEW i \in DOMAIN schema.fields
    PROVE  LET settings == SwapIfInverted(schema, values)
           IN  /\ Typed(schema.fields[i], settings[i])
               /\ InRange(schema.fields[i], settings[i])
               /\ schema.fields[i].lower => settings[i] <= settings[i + 1]
<1> DEFINE settings == SwapIfInverted(schema, values)
<1>1. /\ Len(schema.fields) \in Nat /\ DOMAIN schema.fields = 1..Len(schema.fields)
      /\ \A j \in DOMAIN schema.fields : schema.fields[j].lower =>
            /\ j + 1 \in DOMAIN schema.fields /\ ~schema.fields[j + 1].lower
            /\ schema.fields[j].min = schema.fields[j + 1].min
            /\ schema.fields[j].max = schema.fields[j + 1].max
            /\ ~schema.fields[j].optional /\ ~schema.fields[j + 1].optional
      /\ \A j \in DOMAIN schema.fields :
            {schema.fields[j].min, schema.fields[j].max} \subseteq Int
  BY FieldsOf, VersionsAssumption DEF WellFormed
<1>2. \A j \in DOMAIN schema.fields :
        settings[j] = IF Inverted(schema, values, j) THEN values[j + 1]
                      ELSE IF j > 1 /\ Inverted(schema, values, j - 1) THEN values[j - 1]
                      ELSE values[j]
  BY DEF SwapIfInverted
<1>3. Typed(schema.fields[i], settings[i]) /\ InRange(schema.fields[i], settings[i])
  <2>1. CASE Inverted(schema, values, i)
    <3>1. settings[i] = values[i + 1] /\ schema.fields[i].lower
      BY <1>2, <2>1 DEF Inverted
    <3> QED
      BY <1>1, <3>1 DEF Typed, InRange
  <2>2. CASE ~Inverted(schema, values, i) /\ i > 1 /\ Inverted(schema, values, i - 1)
    <3>1. settings[i] = values[i - 1] /\ schema.fields[i - 1].lower /\ i - 1 \in DOMAIN schema.fields
      BY <1>1, <1>2, <2>2 DEF Inverted
    <3> QED
      BY <1>1, <3>1 DEF Typed, InRange
  <2>3. CASE ~Inverted(schema, values, i) /\ ~(i > 1 /\ Inverted(schema, values, i - 1))
    <3>1. settings[i] = values[i]
      BY <1>2, <2>3
    <3> QED
      BY <3>1
  <2> QED
    BY <2>1, <2>2, <2>3
<1>4. ASSUME schema.fields[i].lower PROVE settings[i] <= settings[i + 1]
  <2>1. /\ i + 1 \in DOMAIN schema.fields /\ ~Inverted(schema, values, i + 1)
        /\ ~(i > 1 /\ Inverted(schema, values, i - 1)) /\ i + 1 > 1 /\ (i + 1) - 1 = i
    BY <1>1, <1>4 DEF Inverted
  <2>2. values[i] \in Int /\ values[i + 1] \in Int
    BY <1>1, <1>4, <2>1 DEF InRange
  <2>3. CASE Inverted(schema, values, i)
    <3>1. settings[i] = values[i + 1] /\ settings[i + 1] = values[i]
      BY <1>2, <2>1, <2>3
    <3> QED
      BY <2>2, <2>3, <3>1 DEF Inverted
  <2>4. CASE ~Inverted(schema, values, i)
    <3>1. settings[i] = values[i] /\ settings[i + 1] = values[i + 1]
      BY <1>2, <2>1, <2>4
    <3> QED
      BY <1>4, <2>2, <2>4, <3>1 DEF Inverted
  <2> QED
    BY <2>3, <2>4
<1> QED
  BY <1>3, <1>4

\* What LoadFields makes of any document.
LEMMA LoadedSettings ==
    ASSUME NEW schema, WellFormed(schema), NEW doc
    PROVE  LET settings == LoadFields(schema, doc)
           IN  /\ DOMAIN settings = DOMAIN schema.fields
               /\ \A i \in DOMAIN schema.fields :
                    /\ Typed(schema.fields[i], settings[i])
                    /\ InRange(schema.fields[i], settings[i])
                    /\ schema.fields[i].lower => settings[i] <= settings[i + 1]
<1> DEFINE values == [i \in DOMAIN schema.fields |-> Parsed(schema, doc, i)]
<1>1. \A i \in DOMAIN schema.fields :
        Typed(schema.fields[i], values[i]) /\ InRange(schema.fields[i], values[i])
  BY ParsedInRange
<1>2. LoadFields(schema, doc) = SwapIfInverted(schema, values)
  BY DEF LoadFields
<1>3. DOMAIN SwapIfInverted(schema, values) = DOMAIN schema.fields
  BY DEF SwapIfInverted
<1> HIDE DEF values
<1>4. DOMAIN values = DOMAIN schema.fields
  BY DEF values
<1> QED
  BY <1>1, <1>2, <1>3, <1>4, SwappedInRange

-----------------------------------------------------------------------------
(* Rendering *)

\* Whether a field, written or not, has this path or one below it.
Owned(schema, path) ==
    \E i \in DOMAIN schema.fields :
        LET key == schema.fields[i].key
        IN  Len(key) >= Len(path) /\ \A n \in 1..Len(path) : path[n] = <<key[n]>>

\* The renderer claims every name of an owned path (Write.hpp:72-89).
LEMMA ClaimedIsOwned ==
    ASSUME NEW schema, WellFormed(schema), NEW path \in Paths, Len(path) >= 1,
           Owned(schema, path)
    PROVE  Claimed(schema, Parent(path), Own(path))
<1>1. PICK i \in DOMAIN schema.fields :
        /\ Len(schema.fields[i].key) >= Len(path)
        /\ \A n \in 1..Len(path) : path[n] = <<schema.fields[i].key[n]>>
  BY DEF Owned
<1>2. /\ Parent(path) \in Paths /\ Len(Parent(path)) = Len(path) - 1
      /\ \A n \in 1..(Len(path) - 1) : Parent(path)[n] = path[n]
      /\ Len(path) \in Nat /\ DOMAIN Parent(path) = 1..(Len(path) - 1)
  BY ParentOf, LenProperties DEF Paths
<1>3. Len(schema.fields[i].key) \in Nat
  BY FieldsOf
<1>4. /\ Len(schema.fields[i].key) > Len(Parent(path))
      /\ \A n \in DOMAIN Parent(path) : Parent(path)[n] = <<schema.fields[i].key[n]>>
      /\ Own(path) = <<schema.fields[i].key[Len(Parent(path)) + 1]>>
  BY <1>1, <1>2, <1>3 DEF Own
<1> QED
  BY <1>4 DEF Claimed, KeysEqual

\* A name of one segment, compared with a segment.
LEMMA SameName ==
    ASSUME NEW name \in Seq(Segments), NEW segment \in Segments, NEW insensitive \in BOOLEAN
    PROVE  /\ KeysEqual(name, <<segment>>, insensitive) <=>
                \/ name = <<segment>>
                \/ insensitive /\ Len(name) = 1 /\ LowerCase[name[1]] = LowerCase[segment]
           /\ KeysEqual(<<segment>>, name, insensitive) <=> KeysEqual(name, <<segment>>, insensitive)
<1>1. <<segment>> \in Seq(Segments) /\ Len(<<segment>>) = 1 /\ <<segment>>[1] = segment
      /\ DOMAIN <<segment>> = 1..1
  OBVIOUS
<1>2. DOMAIN name = 1..Len(name) /\ Len(name) \in Nat
  BY LenProperties
<1>3. KeysEqual(name, <<segment>>, insensitive) <=>
        \/ name = <<segment>>
        \/ insensitive /\ Len(name) = 1 /\ LowerCase[name[1]] = LowerCase[segment]
  BY <1>1, <1>2 DEF KeysEqual
<1>4. KeysEqual(<<segment>>, name, insensitive) <=>
        \/ name = <<segment>>
        \/ insensitive /\ Len(name) = 1 /\ LowerCase[name[1]] = LowerCase[segment]
  BY <1>1, <1>2 DEF KeysEqual
<1> QED
  BY <1>3, <1>4

\* Two segments that one name stands for are the same in any case.
LEMMA SameSegments ==
    ASSUME NEW name \in Seq(Segments), NEW a \in Segments, NEW b \in Segments,
           KeysEqual(name, <<a>>, TRUE), KeysEqual(name, <<b>>, TRUE)
    PROVE  LowerCase[a] = LowerCase[b]
<1>1. name = <<a>> \/ (Len(name) = 1 /\ LowerCase[name[1]] = LowerCase[a])
  BY SameName
<1>2. name = <<b>> \/ (Len(name) = 1 /\ LowerCase[name[1]] = LowerCase[b])
  BY SameName
<1>3. <<a>>[1] = a /\ <<b>>[1] = b
  OBVIOUS
<1>4. LowerCase[name[1]] = LowerCase[a]
  BY <1>1, <1>3, Zenon
<1>5. LowerCase[name[1]] = LowerCase[b]
  BY <1>2, <1>3, Zenon
<1> QED
  BY <1>4, <1>5

\* A key that begins in any case as another is equal to it or lies under it.
LEMMA EqualOrUnder ==
    ASSUME NEW a \in Seq(Segments), NEW b \in Seq(Segments), Len(a) \in 1..3, Len(b) \in 1..3,
           Len(a) >= Len(b), \A n \in 1..Len(b) : LowerCase[a[n]] = LowerCase[b[n]]
    PROVE  /\ Len(a) > Len(b) => IsUnderPath(a, b, TRUE)
           /\ Len(a) = Len(b) => KeysEqual(a, b, TRUE) /\ KeysEqual(b, a, TRUE)
<1>1. /\ Prefix(a, Len(b)) \in Seq(Segments) /\ Len(Prefix(a, Len(b))) = Len(b)
      /\ \A n \in 1..Len(b) : Prefix(a, Len(b))[n] = a[n]
  <2>1. Len(b) \in 0..Len(a)
    OBVIOUS
  <2> QED
    BY <2>1, PrefixOf
<1>2. DOMAIN Prefix(a, Len(b)) = 1..Len(b) /\ DOMAIN a = 1..Len(a) /\ DOMAIN b = 1..Len(b)
  BY <1>1, LenProperties
<1>3. KeysEqual(Prefix(a, Len(b)), b, TRUE)
  <2>1. \A n \in 1..Len(b) : LowerCase[Prefix(a, Len(b))[n]] = LowerCase[b[n]]
    BY <1>1
  <2> QED
    BY <1>1, <1>2, <2>1, Zenon DEF KeysEqual
<1>4. ASSUME Len(a) > Len(b) PROVE IsUnderPath(a, b, TRUE)
  BY <1>3, <1>4, Zenon DEF IsUnderPath
<1>5. ASSUME Len(a) = Len(b) PROVE KeysEqual(a, b, TRUE) /\ KeysEqual(b, a, TRUE)
  BY <1>2, <1>5, Zenon DEF KeysEqual
<1> QED
  BY <1>4, <1>5

\* Whether a path spells the start of a key, in any case.
Follows(path, key) ==
    Len(path) <= Len(key) /\ \A n \in 1..Len(path) : KeysEqual(path[n], <<key[n]>>, TRUE)

\* Where case does not matter, an object some field lives in is spelled the way
\* the schema spells it.
AsDeclared(schema, path) ==
    schema.insensitive =>
        \A i \in DOMAIN schema.fields :
            LET key == schema.fields[i].key
            IN  Len(path) < Len(key) /\ Follows(path, key) =>
                    \A n \in 1..Len(path) : path[n] = <<key[n]>>

\* At the key of a field or below, by the schema's rule.
AtOrBelowField(schema, path) ==
    \E i \in DOMAIN schema.fields :
        LET key == schema.fields[i].key
        IN  Len(key) <= Len(path)
            /\ \A n \in 1..Len(key) : KeysEqual(path[n], <<key[n]>>, schema.insensitive)

(***************************************************************************)
(* Only a field's own path or one above or below it is claimed, if objects *)
(* are spelled as declared (Write.hpp:72-89).                              *)
(***************************************************************************)
LEMMA OutsideIsUnclaimed ==
    ASSUME NEW schema, WellFormed(schema), NEW path \in Paths, Len(path) \in 1..3,
           AsDeclared(schema, path), ~Owned(schema, path), ~AtOrBelowField(schema, path)
    PROVE  ~Claimed(schema, Parent(path), Own(path))
<1> SUFFICES ASSUME NEW i \in DOMAIN schema.fields,
                    Len(schema.fields[i].key) > Len(Parent(path)),
                    \A n \in DOMAIN Parent(path) : Parent(path)[n] = <<schema.fields[i].key[n]>>,
                    KeysEqual(<<schema.fields[i].key[Len(Parent(path)) + 1]>>, Own(path),
                              schema.insensitive)
             PROVE  FALSE
  BY DEF Claimed
<1> DEFINE key == schema.fields[i].key
           len == Len(path)
<1>1. /\ Parent(path) \in Paths /\ Len(Parent(path)) = len - 1
      /\ \A n \in 1..(len - 1) : Parent(path)[n] = path[n]
      /\ DOMAIN Parent(path) = 1..(len - 1)
  BY ParentOfPath, LenProperties DEF Paths
<1>2. /\ key \in Seq(Segments) /\ Len(key) \in 1..3 /\ schema.insensitive \in BOOLEAN
      /\ \A n \in 1..Len(key) : key[n] \in Segments
      /\ \A n \in 1..len : path[n] \in Seq(Segments)
  BY FieldsOf, ElementOfSeq DEF WellFormed, Paths
<1>3. Len(key) >= len
  BY <1>1, <1>2
<1>4. /\ \A n \in 1..(len - 1) : path[n] = <<key[n]>>
      /\ Len(Parent(path)) + 1 = len /\ Own(path) = path[len]
  BY <1>1 DEF Own
<1>5. KeysEqual(path[len], <<key[len]>>, schema.insensitive)
  <2>1. KeysEqual(<<key[len]>>, path[len], schema.insensitive)
    BY <1>4
  <2>2. key[len] \in Segments /\ path[len] \in Seq(Segments)
    <3>1. len \in 1..Len(key) /\ len \in 1..len
      BY <1>2, <1>3, LastWithin
    <3> QED
      BY <1>2, <3>1, Zenon
  <2> QED
    BY <1>2, <2>1, <2>2, SameName
<1>6. ASSUME NEW n \in 1..len
      PROVE  KeysEqual(path[n], <<key[n]>>, schema.insensitive)
  <2>1. CASE n = len
    BY <1>5, <2>1
  <2>2. CASE n # len
    BY <1>4, <2>2 DEF KeysEqual
  <2> QED
    BY <2>1, <2>2
<1>7. CASE Len(key) = len
  BY <1>6, <1>7 DEF AtOrBelowField
<1>8. CASE Len(key) > len /\ schema.insensitive
  <2>1. Follows(path, key)
    BY <1>2, <1>6, <1>8 DEF Follows, KeysEqual
  <2>2. \A n \in 1..len : path[n] = <<key[n]>>
    BY <1>8, <2>1 DEF AsDeclared
  <2> QED
    BY <1>3, <2>2 DEF Owned
<1>9. CASE ~schema.insensitive
  BY <1>3, <1>6, <1>9 DEF KeysEqual, Owned
<1> QED
  BY <1>2, <1>3, <1>7, <1>8, <1>9

\* What is at or below a field stays so further down.
LEMMA BelowStaysBelow ==
    ASSUME NEW schema, WellFormed(schema), NEW root \in Paths, NEW path \in Paths,
           IsPrefix(root, path), AtOrBelowField(schema, root)
    PROVE  AtOrBelowField(schema, path)
<1>1. /\ Len(root) <= Len(path) /\ \A n \in 1..Len(root) : path[n] = root[n]
      /\ Len(root) \in Nat /\ Len(path) \in Nat
  BY PrefixPointwise, LenProperties DEF Paths
<1>2. PICK i \in DOMAIN schema.fields :
        /\ Len(schema.fields[i].key) <= Len(root)
        /\ \A n \in 1..Len(schema.fields[i].key) :
                KeysEqual(root[n], <<schema.fields[i].key[n]>>, schema.insensitive)
  BY DEF AtOrBelowField
<1> DEFINE key == schema.fields[i].key
<1>3. Len(key) \in Nat
  BY FieldsOf
<1>4. /\ Len(key) <= Len(path)
      /\ \A n \in 1..Len(key) : n \in 1..Len(root) /\ path[n] = root[n]
  BY <1>1, <1>2, <1>3
<1>5. \A n \in 1..Len(key) : KeysEqual(path[n], <<key[n]>>, schema.insensitive)
  BY <1>2, <1>4, Zenon
<1> QED
  BY <1>4, <1>5, Zenon DEF AtOrBelowField

\* What is above or at an owned path is owned.
LEMMA OwnedAbove ==
    ASSUME NEW schema, NEW path \in Paths, NEW root \in Paths,
           WellFormed(schema), IsPrefix(root, path), Owned(schema, path)
    PROVE  Owned(schema, root)
<1>1. /\ Len(root) <= Len(path) /\ \A n \in 1..Len(root) : path[n] = root[n]
      /\ Len(root) \in Nat /\ Len(path) \in Nat
  BY PrefixPointwise, LenProperties DEF Paths
<1>2. PICK i \in DOMAIN schema.fields :
        /\ Len(schema.fields[i].key) >= Len(path)
        /\ \A n \in 1..Len(path) : path[n] = <<schema.fields[i].key[n]>>
  BY DEF Owned
<1>3. Len(schema.fields[i].key) \in Nat
  BY FieldsOf
<1>4. Len(schema.fields[i].key) >= Len(root) /\ \A n \in 1..Len(root) : n \in 1..Len(path)
  BY <1>1, <1>2, <1>3
<1>5. \A n \in 1..Len(root) : root[n] = <<schema.fields[i].key[n]>>
  BY <1>1, <1>2, <1>4, Zenon
<1> QED
  BY <1>4, <1>5, Zenon DEF Owned

\* The paths a rendering writes on its own account are owned.
LEMMA RenderedIsOwned ==
    ASSUME NEW schema, WellFormed(schema), NEW i \in DOMAIN schema.fields,
           NEW n \in 0..Len(schema.fields[i].key)
    PROVE  LET path == AsPath(Prefix(schema.fields[i].key, n))
           IN  path \in Paths /\ Len(path) = n /\ Owned(schema, path)
<1> DEFINE key == schema.fields[i].key
           path == AsPath(Prefix(key, n))
<1>1. key \in Seq(Segments) /\ Len(key) \in Nat
  BY FieldsOf
<1>2. /\ Prefix(key, n) \in Seq(Segments) /\ Len(Prefix(key, n)) = n
      /\ \A k \in 1..n : Prefix(key, n)[k] = key[k]
  BY <1>1, PrefixOf
<1>3. path \in Paths /\ Len(path) = n /\ \A k \in 1..n : path[k] = <<key[k]>>
  BY <1>2, AsPathOf
<1> QED
  BY <1>1, <1>3 DEF Owned

\* A key is its own longest prefix.
LEMMA WholeKey ==
    ASSUME NEW schema, WellFormed(schema), NEW i \in DOMAIN schema.fields
    PROVE  Prefix(schema.fields[i].key, Len(schema.fields[i].key)) = schema.fields[i].key
  BY FieldsOf, SubSeqFull DEF Prefix

(***************************************************************************)
(* A member of a rendered level that is no field's, nor above or below     *)
(* one, is kept with all that is below it, and nothing is added there      *)
(* (Write.hpp:156-188).                                                    *)
(***************************************************************************)
LEMMA RootKept ==
    ASSUME NEW schema, WellFormed(schema), NEW settings, NEW doc, DocumentOK(doc),
           NEW root \in DOMAIN doc, Parent(root) \in Levels(schema), AsDeclared(schema, root),
           ~Owned(schema, root), ~AtOrBelowField(schema, root),
           NEW path \in Paths, IsPrefix(root, path)
    PROVE  Subtree(RenderDocument(schema, settings, doc), path) = Subtree(doc, path)
<1> DEFINE saved == RenderDocument(schema, settings, doc)
           leaves == {AsPath(schema.fields[i].key) : i \in Written(schema)}
           opened == Levels(schema) \ {<<>>}
<1>1. root \in Paths /\ Len(root) \in 1..3 /\ \A q \in DOMAIN doc : q \in Paths
  BY DEF DocumentOK
<1>2. ASSUME NEW q \in Paths, IsPrefix(path, q) PROVE IsPrefix(root, q)
  <2>1. Len(root) \in Nat /\ Len(path) \in Nat /\ Len(q) \in Nat
    BY <1>1, LenProperties DEF Paths
  <2>2. /\ Len(root) <= Len(path) /\ \A n \in 1..Len(root) : path[n] = root[n]
        /\ Len(path) <= Len(q) /\ \A n \in 1..Len(path) : q[n] = path[n]
    BY <1>1, <1>2, PrefixPointwise DEF Paths
  <2>3. Len(root) <= Len(q) /\ \A n \in 1..Len(root) : q[n] = root[n]
    BY <2>1, <2>2
  <2> QED
    BY <1>1, <2>3, PrefixPointwise DEF Paths
<1>3. ASSUME NEW q \in leaves \cup opened PROVE q \in Paths /\ Owned(schema, q)
  <2>1. CASE q \in leaves
    BY <2>1, WholeKey, RenderedIsOwned, FieldsOf DEF Written
  <2>2. CASE q \in opened
    <3>1. PICK i \in Written(schema) : \E n \in 0..(Len(schema.fields[i].key) - 1) :
            q = AsPath(Prefix(schema.fields[i].key, n))
      BY <2>2 DEF Levels
    <3> QED
      BY <3>1, RenderedIsOwned, FieldsOf DEF Written
  <2> QED
    BY <1>3, <2>1, <2>2
<1>4. ASSUME NEW q \in leaves \cup opened PROVE ~IsPrefix(path, q)
  BY <1>1, <1>2, <1>3, <1>4, OwnedAbove
<1>5. ASSUME NEW q \in DOMAIN doc, IsPrefix(path, q) PROVE q \in Carry(schema, doc)
  BY <1>1, <1>2, <1>5, OutsideIsUnclaimed DEF Carry
<1>6. /\ Carry(schema, doc) \subseteq DOMAIN doc
      /\ DOMAIN saved = leaves \cup opened \cup Carry(schema, doc)
      /\ \A q \in Carry(schema, doc) : q \notin leaves \cup opened => saved[q] = doc[q]
  BY DEF Carry, RenderDocument
<1> HIDE DEF saved, leaves, opened
<1>7. {q \in DOMAIN saved : IsPrefix(path, q)} = {q \in DOMAIN doc : IsPrefix(path, q)}
  BY <1>4, <1>5, <1>6
<1>8. \A q \in {p \in DOMAIN doc : IsPrefix(path, p)} : saved[q] = doc[q]
  BY <1>4, <1>5, <1>6
<1>9. Subtree(saved, path) = Subtree(doc, path)
  BY <1>7, <1>8 DEF Subtree
<1> QED
  BY <1>9 DEF saved

-----------------------------------------------------------------------------
(* What a save keeps *)

\* Every object some field lives in has a field that is written.
ContainersWritten(schema) ==
    \A i \in DOMAIN schema.fields : \A n \in 0..(Len(schema.fields[i].key) - 1) :
        AsPath(Prefix(schema.fields[i].key, n)) \in Levels(schema)

\* Of the prefixes of a path that no field owns, the shortest stands in an
\* object that is rendered.
LEMMA ShortestUnowned ==
    ASSUME NEW schema, WellFormed(schema), ContainersWritten(schema),
           NEW path \in Paths, Len(path) \in 1..3, ~Owned(schema, path),
           ~AtOrBelowField(schema, path)
    PROVE  \E n \in 1..Len(path) : /\ ~Owned(schema, Prefix(path, n))
                                   /\ Parent(Prefix(path, n)) \in Levels(schema)
<1> DEFINE U(n) == ~Owned(schema, Prefix(path, n))
<1>1. ASSUME NEW n \in 0..Len(path)
      PROVE  /\ Prefix(path, n) \in Paths /\ Len(Prefix(path, n)) = n
             /\ \A k \in 1..n : Prefix(path, n)[k] = path[k]
  BY PrefixOf DEF Paths
<1>2. Prefix(path, Len(path)) = path
  BY SubSeqFull DEF Prefix, Paths
<1>3. \E n \in 1..Len(path) : U(n) /\ \A k \in 1..(n - 1) : ~U(k)
  <2>1. U(Len(path))
    BY <1>2
  <2> HIDE DEF U
  <2>2. CASE U(1)
    BY <2>2
  <2>3. CASE ~U(1) /\ Len(path) >= 2 /\ U(2)
    BY <2>3
  <2>4. CASE ~U(1) /\ Len(path) = 3 /\ ~U(2)
    BY <2>1, <2>4
  <2>5. CASE ~U(1) /\ Len(path) = 2 /\ ~U(2)
    BY <2>1, <2>5
  <2>6. CASE ~U(1) /\ Len(path) = 1
    BY <2>1, <2>6
  <2> QED
    BY <2>2, <2>3, <2>4, <2>5, <2>6
<1>4. PICK n \in 1..Len(path) : U(n) /\ \A k \in 1..(n - 1) : ~U(k)
  BY <1>3
<1>5. /\ Parent(Prefix(path, n)) \in Paths /\ Len(Parent(Prefix(path, n))) = n - 1
      /\ \A k \in 1..(n - 1) : Parent(Prefix(path, n))[k] = path[k]
  <2>1. n \in 0..Len(path) /\ n >= 1
    BY <1>4
  <2>2. /\ Prefix(path, n) \in Paths /\ Len(Prefix(path, n)) = n
        /\ \A k \in 1..n : Prefix(path, n)[k] = path[k]
    BY <1>1, <2>1
  <2>3. /\ Parent(Prefix(path, n)) \in Paths /\ Len(Parent(Prefix(path, n))) = n - 1
        /\ \A k \in 1..(n - 1) : Parent(Prefix(path, n))[k] = Prefix(path, n)[k]
    BY <2>1, <2>2, ParentOf DEF Paths
  <2> QED
    BY <2>1, <2>2, <2>3
<1>6. CASE n = 1
  <2>1. Parent(Prefix(path, n)) = <<>>
    BY <1>5, <1>6, EmptySeq DEF Paths
  <2> QED
    BY <1>4, <2>1 DEF Levels
<1>7. CASE n > 1
  <2>1. Owned(schema, Prefix(path, n - 1)) /\ n - 1 \in 0..Len(path)
    BY <1>4, <1>7
  <2>2. PICK i \in DOMAIN schema.fields :
            /\ Len(schema.fields[i].key) >= n - 1
            /\ \A k \in 1..(n - 1) : path[k] = <<schema.fields[i].key[k]>>
    BY <1>1, <2>1 DEF Owned
  <2> DEFINE key == schema.fields[i].key
  <2>3. key \in Seq(Segments) /\ Len(key) \in Nat /\ n - 1 \in 0..Len(key)
    BY <1>7, <2>2, FieldsOf
  <2>4. /\ Prefix(key, n - 1) \in Seq(Segments) /\ Len(Prefix(key, n - 1)) = n - 1
        /\ \A k \in 1..(n - 1) : Prefix(key, n - 1)[k] = key[k]
    BY <2>3, PrefixOf
  <2>5. /\ AsPath(Prefix(key, n - 1)) \in Paths /\ Len(AsPath(Prefix(key, n - 1))) = n - 1
        /\ \A k \in 1..(n - 1) : AsPath(Prefix(key, n - 1))[k] = <<key[k]>>
    BY <2>4, AsPathOf
  <2>6. Parent(Prefix(path, n)) = AsPath(Prefix(key, n - 1))
    BY <1>5, <2>2, <2>5, SeqEqual DEF Paths
  <2>7. CASE n - 1 < Len(key)
    BY <1>4, <2>3, <2>6, <2>7 DEF ContainersWritten
  <2>8. CASE n - 1 = Len(key)
    BY <2>2, <2>3, <2>8 DEF AtOrBelowField, KeysEqual
  <2> QED
    BY <2>3, <2>7, <2>8
<1> QED
  BY <1>6, <1>7

\* The objects a member stands in are members too.
LEMMA Ancestors ==
    ASSUME NEW doc, DocumentOK(doc), NEW path \in DOMAIN doc, NEW n \in 1..Len(path)
    PROVE  Prefix(path, n) \in DOMAIN doc
<1>1. path \in Paths /\ Len(path) \in 1..3
  BY DEF DocumentOK
<1>2. ASSUME NEW q \in DOMAIN doc, NEW len \in Nat, len > 1, Len(q) = len
      PROVE  Prefix(q, len - 1) \in DOMAIN doc
  BY <1>2 DEF DocumentOK, Parent
<1>3. /\ 3 - 1 = 2 /\ 2 - 1 = 1 /\ 3 > 1 /\ 2 > 1 /\ 2 <= 3 /\ 1 <= 3 /\ 1 <= 2
      /\ 1 \in Nat /\ 2 \in Nat /\ 3 \in Nat
  OBVIOUS
<1>4. CASE n = Len(path)
  <2>1. Prefix(path, Len(path)) = path
    BY <1>1, SubSeqFull DEF Prefix, Paths
  <2> QED
    BY <1>4, <2>1
<1>5. CASE Len(path) > 1 /\ n = Len(path) - 1
  <2>1. Len(path) \in Nat
    BY <1>1, UpToThree
  <2> QED
    BY <1>2, <1>5, <2>1
<1>6. CASE Len(path) = 3 /\ n = 1
  <2> DEFINE above == Prefix(path, 2)
  <2>1. Prefix(path, 3 - 1) \in DOMAIN doc
    BY <1>2, <1>6, <1>3, Zenon
  <2>2. above \in Paths /\ Len(above) = 2 /\ \A k \in 1..2 : above[k] = path[k]
    BY <1>1, <1>6, <1>3, PathPrefix
  <2>3. /\ Prefix(path, 1) \in Paths /\ Len(Prefix(path, 1)) = 1
        /\ \A k \in 1..1 : Prefix(path, 1)[k] = path[k]
    BY <1>1, <1>6, <1>3, PathPrefix
  <2>4. above \in DOMAIN doc
    BY <1>3, <2>1
  <2> HIDE DEF above
  <2>5. Prefix(above, 2 - 1) \in DOMAIN doc
    BY <1>2, <1>3, <2>2, <2>4, Zenon
  <2>6. /\ Prefix(above, 1) \in Paths /\ Len(Prefix(above, 1)) = 1
        /\ \A k \in 1..1 : Prefix(above, 1)[k] = above[k]
    BY <1>3, <2>2, PathPrefix
  <2>7. \A k \in 1..1 : Prefix(above, 1)[k] = Prefix(path, 1)[k]
    BY <2>2, <2>3, <2>6
  <2>8. Prefix(above, 1) = Prefix(path, 1)
    BY <2>3, <2>6, <2>7, SeqEqual DEF Paths
  <2> QED
    BY <1>6, <1>3, <2>5, <2>8
<1> QED
  BY <1>1, <1>4, <1>5, <1>6, UpToThree

\* What is neither a field's nor above or below one is kept by a save.
LEMMA OutsideKept ==
    ASSUME NEW schema, WellFormed(schema), ContainersWritten(schema),
           NEW settings, NEW doc, DocumentOK(doc), \A q \in DOMAIN doc : AsDeclared(schema, q),
           NEW path \in DOMAIN doc, ~Owned(schema, path), ~AtOrBelowField(schema, path)
    PROVE  Subtree(RenderDocument(schema, settings, doc), path) = Subtree(doc, path)
<1>1. path \in Paths /\ Len(path) \in 1..3
  BY DEF DocumentOK
<1>2. PICK n \in 1..Len(path) : /\ ~Owned(schema, Prefix(path, n))
                                /\ Parent(Prefix(path, n)) \in Levels(schema)
  BY <1>1, ShortestUnowned
<1>3. Prefix(path, n) \in DOMAIN doc
  BY Ancestors
<1>4. Prefix(path, n) \in Paths /\ IsPrefix(Prefix(path, n), path)
  BY <1>1, PathPrefix
<1>5. ~AtOrBelowField(schema, Prefix(path, n))
  BY <1>1, <1>4, BelowStaysBelow
<1> QED
  BY <1>1, <1>2, <1>3, <1>4, <1>5, RootKept

\* A path that follows a key is spelled as the start of the key.
LEMMA Spelling ==
    ASSUME NEW path \in Paths, Len(path) \in 1..3, NEW key \in Seq(Segments),
           Len(key) >= Len(path), \A n \in 1..Len(path) : path[n] = <<key[n]>>
    PROVE  Dotted(path) = Prefix(key, Len(path))
<1>1. ASSUME NEW n \in 1..Len(path) PROVE Len(path[n]) = 1
  <2>1. path[n] = <<key[n]>>
    OBVIOUS
  <2> QED
    BY <2>1
<1>2. /\ Dotted(path) \in Seq(Segments) /\ Len(Dotted(path)) = Len(path)
      /\ \A n \in 1..Len(path) : path[n] = <<Dotted(path)[n]>>
  BY <1>1, DottedSingles
<1>3. /\ Prefix(key, Len(path)) \in Seq(Segments) /\ Len(Prefix(key, Len(path))) = Len(path)
      /\ \A n \in 1..Len(path) : Prefix(key, Len(path))[n] = key[n]
  <2>1. Len(key) \in Nat /\ Len(path) \in 0..Len(key)
    BY LenProperties
  <2> QED
    BY <2>1, PrefixOf
<1>4. \A n \in 1..Len(path) : <<Dotted(path)[n]>> = <<key[n]>>
  BY <1>2
<1>5. \A n \in 1..Len(path) : Dotted(path)[n] = Prefix(key, Len(path))[n]
  BY <1>3, <1>4
<1> QED
  BY <1>2, <1>3, <1>5, SeqEqual

\* The same for a path that is a key but for its case.
LEMMA SpellingInAnyCase ==
    ASSUME NEW path \in Paths, Len(path) \in 1..3, NEW key \in Seq(Segments),
           Len(key) = Len(path), NEW insensitive \in BOOLEAN,
           \A n \in 1..Len(path) : KeysEqual(path[n], <<key[n]>>, insensitive)
    PROVE  KeysEqual(key, Dotted(path), insensitive)
<1>1. ASSUME NEW n \in 1..Len(path)
      PROVE  /\ Len(path[n]) = 1 /\ key[n] \in Segments
             /\ path[n] = <<key[n]>> \/ (insensitive /\ LowerCase[path[n][1]] = LowerCase[key[n]])
  <2>1. path[n] \in Seq(Segments) /\ key[n] \in Segments
    BY ElementOfSeq DEF Paths
  <2>2. KeysEqual(path[n], <<key[n]>>, insensitive)
    OBVIOUS
  <2>3. path[n] = <<key[n]>> \/ (insensitive /\ Len(path[n]) = 1 /\ LowerCase[path[n][1]] = LowerCase[key[n]])
    BY <2>1, <2>2, SameName
  <2> QED
    BY <2>1, <2>3
<1>2. /\ Dotted(path) \in Seq(Segments) /\ Len(Dotted(path)) = Len(path)
      /\ \A n \in 1..Len(path) : path[n] = <<Dotted(path)[n]>>
  BY <1>1, DottedSingles
<1>3. DOMAIN key = 1..Len(path)
  BY LenProperties
<1>4. \A n \in 1..Len(path) : path[n][1] = Dotted(path)[n]
  BY <1>2
<1>5. CASE \E n \in 1..Len(path) : path[n] # <<key[n]>>
  <2>1. insensitive
    BY <1>1, <1>5
  <2>2. ASSUME NEW n \in 1..Len(path)
        PROVE  LowerCase[key[n]] = LowerCase[Dotted(path)[n]]
    <3>1. path[n] = <<key[n]>> => path[n][1] = key[n]
      OBVIOUS
    <3> QED
      BY <1>1, <1>4, <3>1
  <2> QED
    BY <1>2, <1>3, <2>1, <2>2 DEF KeysEqual
<1>6. CASE \A n \in 1..Len(path) : path[n] = <<key[n]>>
  <2>1. \A n \in 1..Len(path) : key[n] = Dotted(path)[n]
    BY <1>4, <1>6
  <2>2. key = Dotted(path)
    BY <1>2, <2>1, SeqEqual
  <2> QED
    BY <2>2 DEF KeysEqual
<1> QED
  BY <1>5, <1>6

\* A key that is reported unknown is neither a field's nor above or below one.
LEMMA UnknownIsOutside ==
    ASSUME NEW schema, WellFormed(schema), NEW doc, DocumentOK(doc),
           NEW path \in CollectUnknownKeys(schema, doc)
    PROVE  ~Owned(schema, path) /\ ~AtOrBelowField(schema, path)
<1>1. path \in DOMAIN doc /\ path \in Paths /\ Len(path) \in 1..3
  BY DEF CollectUnknownKeys, DocumentOK
<1>2. ~ClaimedOnLoad(schema, Dotted(path)) /\ ~HasDescendant(schema, Dotted(path))
  BY DEF CollectUnknownKeys
<1>3. \A n \in 1..(Len(path) - 1) : ~ClaimedOnLoad(schema, Dotted(Prefix(path, n)))
  BY DEF CollectUnknownKeys
<1>4. ASSUME NEW i \in DOMAIN schema.fields, NEW dotted, dotted = schema.fields[i].key
      PROVE  ClaimedOnLoad(schema, dotted)
  BY <1>4 DEF ClaimedOnLoad, KeysEqual
<1>5. ASSUME Owned(schema, path) PROVE FALSE
  <2>1. PICK i \in DOMAIN schema.fields :
            /\ Len(schema.fields[i].key) >= Len(path)
            /\ \A n \in 1..Len(path) : path[n] = <<schema.fields[i].key[n]>>
    BY <1>5 DEF Owned
  <2> DEFINE key == schema.fields[i].key
  <2>2. key \in Seq(Segments) /\ Len(key) \in Nat /\ Prefix(key, Len(key)) = key
    BY FieldsOf, WholeKey
  <2>3. Dotted(path) = Prefix(key, Len(path)) /\ Len(Dotted(path)) = Len(path)
    <3>1. Dotted(path) = Prefix(key, Len(path))
      BY <1>1, <2>1, <2>2, Spelling
    <3> QED
      BY <1>1, <2>1, <2>2, <3>1, PrefixOf
  <2>4. CASE Len(key) = Len(path)
    BY <1>2, <1>4, <2>2, <2>3, <2>4
  <2>5. CASE Len(key) > Len(path)
    BY <1>2, <2>3, <2>5 DEF HasDescendant, IsUnderPath, KeysEqual
  <2> QED
    BY <1>1, <2>1, <2>2, <2>4, <2>5
<1>6. ASSUME AtOrBelowField(schema, path) PROVE FALSE
  <2>1. PICK i \in DOMAIN schema.fields :
            /\ Len(schema.fields[i].key) <= Len(path)
            /\ \A n \in 1..Len(schema.fields[i].key) :
                    KeysEqual(path[n], <<schema.fields[i].key[n]>>, schema.insensitive)
    BY <1>6 DEF AtOrBelowField
  <2> DEFINE key == schema.fields[i].key
             above == Prefix(path, Len(key))
  <2>2. key \in Seq(Segments) /\ Len(key) \in 1..3 /\ schema.insensitive \in BOOLEAN
    BY FieldsOf DEF WellFormed
  <2>3. /\ above \in Paths /\ Len(above) = Len(key)
        /\ \A n \in 1..Len(key) : above[n] = path[n]
    <3>1. Len(key) \in Nat /\ Len(key) <= Len(path)
      BY <1>1, <2>1, <2>2
    <3> QED
      BY <1>1, <3>1, PathPrefix
  <2>4. KeysEqual(key, Dotted(above), schema.insensitive)
    <3> HIDE DEF above
    <3>1. \A n \in 1..Len(above) : KeysEqual(above[n], <<key[n]>>, schema.insensitive)
      BY <2>1, <2>2, <2>3
    <3> QED
      BY <2>2, <2>3, <3>1, SpellingInAnyCase
  <2>5. ClaimedOnLoad(schema, Dotted(above))
    BY <2>4 DEF ClaimedOnLoad
  <2>6. CASE Len(key) < Len(path)
    <3>1. Len(key) \in 1..(Len(path) - 1)
      BY <1>1, <2>2, <2>6, LengthsInOrder
    <3> QED
      BY <1>3, <2>5, <3>1
  <2>7. CASE Len(key) = Len(path)
    <3>1. above = path
      BY <1>1, <2>7, SubSeqFull DEF Prefix, Paths
    <3> QED
      BY <1>2, <2>5, <3>1
  <2> QED
    BY <1>1, <2>1, <2>2, <2>6, <2>7, LongerOrEqual
<1> QED
  BY <1>5, <1>6

-----------------------------------------------------------------------------
(* Types *)

\* A position in a key, and the one before.
LEMMA Within ==
    ASSUME NEW len \in 1..3, NEW n \in 1..len
    PROVE  /\ n \in 0..len /\ n - 1 \in 0..len /\ n - 1 \in 0..(len - 1)
           /\ n \in 1..3
  OBVIOUS

\* The last position of a key.
LEMMA WithinItself ==
    ASSUME NEW len \in 1..3
    PROVE  len \in 1..len
  OBVIOUS

\* What is above a rendered path is an object the rendering opens.
LEMMA OpenedAbove ==
    ASSUME NEW schema, WellFormed(schema), NEW i \in Written(schema),
           NEW n \in 1..Len(schema.fields[i].key)
    PROVE  LET path == AsPath(Prefix(schema.fields[i].key, n))
           IN  n > 1 => Parent(path) \in Levels(schema) \ {<<>>}
<1> DEFINE key == schema.fields[i].key
           path == AsPath(Prefix(key, n))
           above == AsPath(Prefix(key, n - 1))
<1>1. i \in DOMAIN schema.fields /\ key \in Seq(Segments) /\ Len(key) \in 1..3
  BY FieldsOf DEF Written
<1>2. /\ n \in 0..Len(key) /\ n - 1 \in 0..Len(key) /\ n - 1 \in 0..(Len(key) - 1)
      /\ n \in 1..3
  BY <1>1, Within
<1>3. /\ Prefix(key, n) \in Seq(Segments) /\ Len(Prefix(key, n)) = n
      /\ \A k \in 1..n : Prefix(key, n)[k] = key[k]
  BY <1>1, <1>2, PrefixOf
<1>4. /\ Prefix(key, n - 1) \in Seq(Segments) /\ Len(Prefix(key, n - 1)) = n - 1
      /\ \A k \in 1..(n - 1) : Prefix(key, n - 1)[k] = key[k]
  BY <1>1, <1>2, PrefixOf
<1>5. path \in Paths /\ Len(path) = n /\ \A k \in 1..n : path[k] = <<key[k]>>
  BY <1>3, AsPathOf
<1>6. above \in Paths /\ Len(above) = n - 1 /\ \A k \in 1..(n - 1) : above[k] = <<key[k]>>
  BY <1>4, AsPathOf
<1>7. above \in Levels(schema)
  BY <1>2 DEF Levels
<1> HIDE DEF path, above
<1>8. /\ Parent(path) \in Paths /\ Len(Parent(path)) = n - 1
      /\ \A k \in 1..(n - 1) : Parent(path)[k] = path[k]
  BY <1>2, <1>5, ParentOfPath
<1>9. \A k \in 1..(n - 1) : Parent(path)[k] = above[k]
  BY <1>2, <1>5, <1>6, <1>8
<1>10. Parent(path) = above
  BY <1>6, <1>8, <1>9, SeqEqual DEF Paths
<1>11. ASSUME n > 1 PROVE above # <<>>
  BY <1>2, <1>6, <1>11, EmptySeq
<1> QED
  BY <1>7, <1>10, <1>11 DEF path

\* No field's path is that of an object another field lives in.
LEMMA LeafIsNoLevel ==
    ASSUME NEW schema, WellFormed(schema), NEW i \in DOMAIN schema.fields,
           NEW j \in DOMAIN schema.fields, NEW n \in 0..(Len(schema.fields[i].key) - 1)
    PROVE  AsPath(schema.fields[j].key) # AsPath(Prefix(schema.fields[i].key, n))
<1> DEFINE own == schema.fields[i].key
           other == schema.fields[j].key
<1>1. /\ own \in Seq(Segments) /\ Len(own) \in 1..3
      /\ other \in Seq(Segments) /\ Len(other) \in 1..3
  BY FieldsOf
<1>2. /\ Prefix(own, n) \in Seq(Segments) /\ Len(Prefix(own, n)) = n
  BY <1>1, PrefixOf
<1>3. SUFFICES ASSUME AsPath(other) = AsPath(Prefix(own, n)) PROVE FALSE
  OBVIOUS
<1>4. /\ Len(AsPath(other)) = Len(other) /\ Len(AsPath(Prefix(own, n))) = n
      /\ \A k \in 1..Len(other) : AsPath(other)[k] = <<other[k]>>
      /\ \A k \in 1..n : AsPath(Prefix(own, n))[k] = <<Prefix(own, n)[k]>>
  BY <1>1, <1>2, AsPathOf
<1>5. Len(other) = n
  BY <1>3, <1>4
<1>6. \A k \in 1..n : other[k] = Prefix(own, n)[k]
  <2>1. \A k \in 1..n : <<other[k]>> = <<Prefix(own, n)[k]>>
    BY <1>3, <1>4, <1>5
  <2> QED
    BY <2>1
<1>7. other = Prefix(own, n)
  BY <1>1, <1>2, <1>5, <1>6, SeqEqual
<1>8. Len(own) > Len(other) /\ Prefix(own, Len(other)) = other
  BY <1>1, <1>5, <1>7
<1>9. IsUnderPath(own, other, TRUE)
  BY <1>8 DEF IsUnderPath, KeysEqual
<1>10. i = j
  BY <1>9 DEF WellFormed
<1> QED
  BY <1>1, <1>8, <1>10

\* A save leaves a document whose members stand in objects (Write.hpp:91-188).
LEMMA RenderedOK ==
    ASSUME NEW schema, WellFormed(schema), NEW settings,
           \A i \in DOMAIN schema.fields : Typed(schema.fields[i], settings[i]),
           NEW doc, DocumentOK(doc)
    PROVE  DocumentOK(RenderDocument(schema, settings, doc))
<1> DEFINE saved == RenderDocument(schema, settings, doc)
           leaf(i) == AsPath(schema.fields[i].key)
           leaves == {leaf(i) : i \in Written(schema)}
           opened == Levels(schema) \ {<<>>}
           carried == Carry(schema, doc)
<1>1. DOMAIN saved = leaves \cup opened \cup carried
  BY DEF RenderDocument
<1>2. ASSUME NEW q \in leaves PROVE saved[q] \in Scalars
  <2>1. saved[q] = settings[CHOOSE i \in Written(schema) : leaf(i) = q]
    BY <1>2 DEF RenderDocument
  <2>2. (CHOOSE i \in Written(schema) : leaf(i) = q) \in Written(schema)
    BY <1>2
  <2> QED
    BY <2>1, <2>2 DEF Typed, Scalars, Written
<1>3. ASSUME NEW q \in opened
      PROVE  \E i \in Written(schema) : \E n \in 1..(Len(schema.fields[i].key) - 1) :
                q = AsPath(Prefix(schema.fields[i].key, n))
  <2>1. PICK i \in Written(schema) : \E n \in 0..(Len(schema.fields[i].key) - 1) :
            q = AsPath(Prefix(schema.fields[i].key, n))
    BY <1>3 DEF Levels
  <2>2. PICK n \in 0..(Len(schema.fields[i].key) - 1) :
            q = AsPath(Prefix(schema.fields[i].key, n))
    BY <2>1
  <2>3. i \in DOMAIN schema.fields /\ Len(schema.fields[i].key) \in 1..3
    BY FieldsOf DEF Written
  <2>4. q \in Paths /\ Len(q) = n
    BY <2>2, <2>3, RenderedIsOwned
  <2>5. n # 0
    BY <1>3, <2>4, EmptySeq DEF Paths
  <2> QED
    BY <2>2, <2>3, <2>5
<1>4. ASSUME NEW q \in opened PROVE q \notin leaves /\ saved[q] = Object
  <2>1. q \notin leaves
    <3>1. PICK i \in Written(schema) : \E n \in 1..(Len(schema.fields[i].key) - 1) :
            q = AsPath(Prefix(schema.fields[i].key, n))
      BY <1>3, <1>4
    <3>2. PICK n \in 1..(Len(schema.fields[i].key) - 1) :
            q = AsPath(Prefix(schema.fields[i].key, n))
      BY <3>1
    <3>3. n \in 0..(Len(schema.fields[i].key) - 1)
      BY <3>2
    <3> QED
      BY <3>2, <3>3, LeafIsNoLevel DEF Written
  <2> QED
    BY <1>4, <2>1 DEF RenderDocument
<1>5. ASSUME NEW q \in leaves \cup opened
      PROVE  /\ q \in Paths /\ Len(q) \in 1..3 /\ Owned(schema, q)
             /\ Len(q) > 1 => Parent(q) \in opened
  <2>1. \E i \in Written(schema) : \E n \in 1..Len(schema.fields[i].key) :
            q = AsPath(Prefix(schema.fields[i].key, n))
    <3>1. CASE q \in leaves
      <4>1. PICK i \in Written(schema) : q = AsPath(schema.fields[i].key)
        BY <3>1
      <4>2. /\ Prefix(schema.fields[i].key, Len(schema.fields[i].key)) = schema.fields[i].key
            /\ Len(schema.fields[i].key) \in 1..Len(schema.fields[i].key)
        BY WholeKey, FieldsOf, WithinItself DEF Written
      <4> QED
        BY <4>1, <4>2
    <3>2. CASE q \in opened
      <4>1. PICK i \in Written(schema) : \E n \in 1..(Len(schema.fields[i].key) - 1) :
              q = AsPath(Prefix(schema.fields[i].key, n))
        BY <1>3, <3>2
      <4>2. 1..(Len(schema.fields[i].key) - 1) \subseteq 1..Len(schema.fields[i].key)
        BY FieldsOf DEF Written
      <4> QED
        BY <4>1, <4>2
    <3> QED
      BY <1>5, <3>1, <3>2
  <2>2. PICK i \in Written(schema) : \E n \in 1..Len(schema.fields[i].key) :
            q = AsPath(Prefix(schema.fields[i].key, n))
    BY <2>1
  <2>3. PICK n \in 1..Len(schema.fields[i].key) : q = AsPath(Prefix(schema.fields[i].key, n))
    BY <2>2
  <2>4. i \in DOMAIN schema.fields /\ n \in 0..Len(schema.fields[i].key) /\ n \in 1..3
    BY FieldsOf, Within DEF Written
  <2>5. q \in Paths /\ Len(q) = n /\ Owned(schema, q)
    BY <2>3, <2>4, RenderedIsOwned
  <2> QED
    BY <2>3, <2>4, <2>5, OpenedAbove
<1>6. ASSUME NEW q \in carried
      PROVE  \E root \in DOMAIN doc :
                /\ Parent(root) \in Levels(schema) /\ ~Owned(schema, root)
                /\ IsPrefix(root, q)
  <2>1. PICK root \in DOMAIN doc : /\ Parent(root) \in Levels(schema)
                                   /\ ~Claimed(schema, Parent(root), Own(root))
                                   /\ IsPrefix(root, q)
    BY <1>6 DEF Carry
  <2>2. root \in Paths /\ Len(root) >= 1
    BY DEF DocumentOK
  <2> QED
    BY <2>1, <2>2, ClaimedIsOwned
<1>7. ASSUME NEW q \in carried
      PROVE  /\ q \in DOMAIN doc /\ q \in Paths /\ Len(q) \in 1..3
             /\ q \notin leaves \cup opened /\ saved[q] = doc[q]
  <2>1. q \in DOMAIN doc /\ q \in Paths /\ Len(q) \in 1..3
    BY <1>7 DEF Carry, DocumentOK
  <2>2. q \notin leaves \cup opened
    BY <1>5, <1>6, <1>7, <2>1, OwnedAbove DEF DocumentOK
  <2> QED
    BY <1>7, <2>1, <2>2 DEF RenderDocument
<1>8. ASSUME NEW q \in carried, Len(q) > 1
      PROVE  Parent(q) \in DOMAIN saved /\ saved[Parent(q)] = Object
  <2>1. q \in DOMAIN doc /\ q \in Paths /\ Len(q) \in 1..3
    BY <1>7, <1>8
  <2>2. Parent(q) \in DOMAIN doc /\ doc[Parent(q)] = Object
    BY <1>8, <2>1 DEF DocumentOK
  <2>3. PICK root \in DOMAIN doc : /\ Parent(root) \in Levels(schema)
                                   /\ ~Claimed(schema, Parent(root), Own(root))
                                   /\ IsPrefix(root, q)
    BY <1>8 DEF Carry
  <2>4. root \in Paths /\ Len(root) \in 1..3
    BY DEF DocumentOK
  <2>5. Len(root) <= Len(q) /\ \A n \in 1..Len(root) : q[n] = root[n]
    BY <2>1, <2>3, <2>4, PrefixPointwise DEF Paths
  <2>6. CASE Len(root) = Len(q)
    <3>1. root = q
      BY <2>1, <2>4, <2>5, <2>6, SeqEqual DEF Paths
    <3>2. Parent(q) \in opened
      <4>1. Parent(q) # <<>>
        BY <2>1, <2>2, <1>8, ParentOfPath, EmptySeq DEF Paths
      <4> QED
        BY <2>3, <3>1, <4>1
    <3> QED
      BY <1>1, <1>4, <3>2
  <2>7. CASE Len(root) < Len(q)
    <3>1. /\ Parent(q) \in Paths /\ Len(Parent(q)) = Len(q) - 1
          /\ \A n \in 1..(Len(q) - 1) : Parent(q)[n] = q[n]
      BY <2>1, ParentOfPath
    <3>2. Len(root) <= Len(Parent(q)) /\ \A n \in 1..Len(root) : Parent(q)[n] = root[n]
      BY <2>1, <2>4, <2>5, <2>7, <3>1
    <3>3. IsPrefix(root, Parent(q))
      BY <2>4, <3>1, <3>2, PrefixPointwise DEF Paths
    <3>4. Parent(q) \in carried
      BY <2>2, <2>3, <3>3 DEF Carry
    <3> QED
      BY <1>1, <1>7, <2>2, <3>4
  <2> QED
    BY <2>1, <2>4, <2>5, <2>6, <2>7
<1> HIDE DEF saved, leaves, opened, carried
<1>9. ASSUME NEW q \in DOMAIN saved
      PROVE  /\ q \in Paths /\ Len(q) \in 1..3 /\ saved[q] \in Scalars \cup {Object}
             /\ Len(q) > 1 => Parent(q) \in DOMAIN saved /\ saved[Parent(q)] = Object
  <2>1. CASE q \in leaves \cup opened
    BY <1>1, <1>2, <1>4, <1>5, <2>1
  <2>2. CASE q \in carried
    <3>1. doc[q] \in Scalars \cup {Object}
      BY <1>7, <2>2 DEF DocumentOK
    <3> QED
      BY <1>7, <1>8, <2>2, <3>1
  <2> QED
    BY <1>1, <1>9, <2>1, <2>2
<1>10. DocumentOK(saved)
  BY <1>9 DEF DocumentOK
<1> QED
  BY <1>10 DEF saved

\* A path is below itself, and what is above a path is not below it.
LEMMA BelowParent ==
    ASSUME NEW path \in Paths, NEW q \in Paths, Len(path) \in 1..3, Len(q) \in 1..3
    PROVE  /\ IsPrefix(path, path) /\ ~IsPrefix(path, Parent(path))
           /\ IsPrefix(path, Parent(q)) => IsPrefix(path, q)
<1>1. /\ Parent(path) \in Paths /\ Len(Parent(path)) = Len(path) - 1
      /\ Parent(q) \in Paths /\ Len(Parent(q)) = Len(q) - 1
      /\ \A n \in 1..(Len(q) - 1) : Parent(q)[n] = q[n]
  BY ParentOfPath
<1>2. IsPrefix(path, path)
  BY PrefixPointwise DEF Paths
<1>3. ~IsPrefix(path, Parent(path))
  BY <1>1 DEF IsPrefix
<1>4. ASSUME IsPrefix(path, Parent(q)) PROVE IsPrefix(path, q)
  <2>1. Len(path) <= Len(Parent(q)) /\ \A n \in 1..Len(path) : Parent(q)[n] = path[n]
    BY <1>1, <1>4, PrefixPointwise, SMTT(30) DEF Paths
  <2>2. Len(path) <= Len(q) /\ \A n \in 1..Len(path) : q[n] = path[n]
    BY <1>1, <2>1
  <2> QED
    BY <2>2, PrefixPointwise DEF Paths
<1> QED
  BY <1>2, <1>3, <1>4

\* A person who removes a member leaves a document.
LEMMA WithoutOK ==
    ASSUME NEW doc, DocumentOK(doc), NEW path \in Paths, Len(path) \in 1..3
    PROVE  DocumentOK(Without(doc, path))
<1>1. ASSUME NEW q \in DOMAIN doc, ~IsPrefix(path, q)
      PROVE  /\ q \in Paths /\ Len(q) \in 1..3 /\ doc[q] \in Scalars \cup {Object}
             /\ Len(q) > 1 => /\ Parent(q) \in DOMAIN doc /\ doc[Parent(q)] = Object
                              /\ ~IsPrefix(path, Parent(q))
  BY <1>1, BelowParent DEF DocumentOK
<1>2. /\ DOMAIN Without(doc, path) = {q \in DOMAIN doc : ~IsPrefix(path, q)}
      /\ \A q \in DOMAIN Without(doc, path) : Without(doc, path)[q] = doc[q]
  BY DEF Without
<1> QED
  BY <1>1, <1>2 DEF DocumentOK

\* A person who types a member into an object leaves a document.
LEMMA WithOK ==
    ASSUME NEW doc, DocumentOK(doc), NEW path \in Paths, Len(path) \in 1..3,
           NEW node \in Scalars \cup {Object},
           Parent(path) = <<>> \/ (Parent(path) \in DOMAIN doc /\ doc[Parent(path)] = Object)
    PROVE  DocumentOK(With(doc, path, node))
<1> DEFINE rest == Without(doc, path)
           new == With(doc, path, node)
<1>1. DocumentOK(rest)
  BY WithoutOK
<1>2. /\ DOMAIN rest = {q \in DOMAIN doc : ~IsPrefix(path, q)}
      /\ \A q \in DOMAIN rest : rest[q] = doc[q]
  BY DEF Without
<1>3. /\ DOMAIN new = DOMAIN rest \cup {path} /\ new[path] = node
      /\ \A q \in DOMAIN rest \ {path} : new[q] = rest[q]
  BY DEF With
<1>4. IsPrefix(path, path) /\ ~IsPrefix(path, Parent(path))
  BY BelowParent
<1>5. path \notin DOMAIN rest
  BY <1>2, <1>4
<1>6. ASSUME Len(path) > 1 PROVE Parent(path) \in DOMAIN rest /\ rest[Parent(path)] = Object
  <2>1. Parent(path) # <<>>
    BY <1>6, ParentOfPath, EmptySeq DEF Paths
  <2> QED
    BY <1>2, <1>4, <2>1
<1> HIDE DEF rest, new
<1>7. ASSUME NEW q \in DOMAIN new
      PROVE  /\ q \in Paths /\ Len(q) \in 1..3 /\ new[q] \in Scalars \cup {Object}
             /\ Len(q) > 1 => Parent(q) \in DOMAIN new /\ new[Parent(q)] = Object
  <2>1. CASE q = path
    BY <1>3, <1>5, <1>6, <2>1
  <2>2. CASE q \in DOMAIN rest
    <3>1. /\ q \in Paths /\ Len(q) \in 1..3 /\ rest[q] \in Scalars \cup {Object}
          /\ Len(q) > 1 => Parent(q) \in DOMAIN rest /\ rest[Parent(q)] = Object
      BY <1>1, <2>2 DEF DocumentOK
    <3> QED
      BY <1>3, <1>5, <2>2, <3>1
  <2> QED
    BY <1>3, <1>7, <2>1, <2>2
<1>8. DocumentOK(new)
  BY <1>7 DEF DocumentOK
<1> QED
  BY <1>8 DEF new

SettingsOK(schema, settings) ==
    /\ DOMAIN settings = DOMAIN schema.fields
    /\ \A i \in DOMAIN schema.fields : Typed(schema.fields[i], settings[i])

\* A save leaves a document, and settings of their types.
LEMMA SaveTypes ==
    ASSUME TypeOK, NEW settings, SettingsOK(Schema, settings), SaveSettings(settings)
    PROVE  TypeOK'
<1>1. WellFormed(Schema)
  BY VersionsAssumption DEF TypeOK, Schema
<1>2. DocumentOK(RenderDocument(Schema, settings, file))
  BY <1>1, RenderedOK DEF TypeOK, SettingsOK
<1>3. DocumentOK(file)'
  BY <1>2 DEF SaveSettings, DocumentOK
<1> QED
  BY <1>3 DEF TypeOK, SaveSettings, SettingsOK, Typed, Schema

\* A load of any document gives settings of their types.
LEMMA LoadTypes ==
    ASSUME NEW v \in Versions, NEW doc
    PROVE  SettingsOK(SchemaOf[v], LoadFields(SchemaOf[v], doc))
  BY VersionsAssumption, LoadedSettings DEF SettingsOK

(***************************************************************************)
(* Every member of the file stands in an object and every setting has a    *)
(* value of its type, for any schemas, any file and any edits: a load      *)
(* takes only what it can read, and a save opens every object it writes    *)
(* into and overwrites none it carries.                                    *)
(***************************************************************************)
THEOREM VersionsTypeCorrect == Spec => []TypeOK
<1>1. Init => TypeOK
  <2> SUFFICES ASSUME Init PROVE TypeOK
    OBVIOUS
  <2>1. DocumentOK(file) /\ version \in Versions
    BY VersionsAssumption DEF Init
  <2>2. SettingsOK(Schema, live)
    BY <2>1, LoadTypes DEF Init, Schema
  <2> QED
    BY <2>1, <2>2, VersionsAssumption DEF Init, TypeOK, SettingsOK, Typed
<1>2. TypeOK /\ [Next]_vars => TypeOK'
  <2> SUFFICES ASSUME TypeOK, [Next]_vars PROVE TypeOK'
    OBVIOUS
  <2>1. version \in Versions /\ DocumentOK(file) /\ SettingsOK(Schema, live) /\ edits \in 0..EditBound
    BY DEF TypeOK, SettingsOK, Typed
  <2>2. CASE Saves
    <3>1. PICK i \in Written(Schema), value \in Numbers \cup {Null} :
            value \in Settable(i) /\ Save(i, value)
      BY <2>2, VersionsAssumption DEF Saves, Settable
    <3>2. SettingsOK(Schema, [live EXCEPT ![i] = value])
      BY <2>1, <3>1, VersionsAssumption DEF SettingsOK, Typed, Settable, Written
    <3> QED
      BY <3>1, <3>2, SaveTypes DEF Save
  <2>3. CASE Commits
    <3>1. PICK doc : SaveSettings(LoadFields(Schema, doc))
      BY <2>3 DEF Commits, Commit
    <3>2. SettingsOK(Schema, LoadFields(Schema, doc))
      BY <2>1, LoadTypes DEF Schema
    <3> QED
      BY <3>1, <3>2, SaveTypes
  <2>4. CASE Starts
    <3>1. PICK v \in Versions : Start(v)
      BY <2>4 DEF Starts
    <3>2. SettingsOK(SchemaOf[v], LoadFields(SchemaOf[v], file))
      BY LoadTypes
    <3>3. SettingsOK(Schema, live)'
      BY <3>1, <3>2 DEF Start, SettingsOK, Typed, Schema
    <3> QED
      BY <2>1, <3>1, <3>3 DEF Start, TypeOK, SettingsOK, Typed, DocumentOK
  <2>5. CASE Reload
    <3>1. SettingsOK(Schema, LoadFields(Schema, file))
      BY <2>1, LoadTypes DEF Schema
    <3>2. SettingsOK(Schema, live)'
      BY <2>5, <3>1 DEF Reload, SettingsOK, Typed, Schema
    <3> QED
      BY <2>1, <2>5, <3>2 DEF Reload, TypeOK, SettingsOK, Typed, DocumentOK
  <2>6. CASE \E path \in EditPaths : \E node \in EditNodes : Edit(path, node)
    <3>1. PICK path \in EditPaths, node \in EditNodes : Edit(path, node)
      BY <2>6
    <3>2. path \in Paths /\ Len(path) \in 1..3 /\ node \in Scalars \cup {Object}
      BY <3>1, VersionsAssumption
    <3>3. DocumentOK(With(file, path, node))
      BY <2>1, <3>1, <3>2, WithOK DEF Edit
    <3>4. DocumentOK(file)'
      BY <3>1, <3>3 DEF Edit, DocumentOK
    <3>5. edits' \in 0..EditBound
      BY <2>1, <3>1, VersionsAssumption DEF Edit
    <3> QED
      BY <3>1, <3>4, <3>5 DEF TypeOK, Edit, Schema
  <2>7. CASE \E path \in EditPaths : Remove(path)
    <3>1. PICK path \in EditPaths : Remove(path)
      BY <2>7
    <3>2. DocumentOK(Without(file, path))
      BY <2>1, <3>1, WithoutOK, VersionsAssumption
    <3>3. DocumentOK(file)'
      BY <3>1, <3>2 DEF Remove, DocumentOK
    <3>4. edits' \in 0..EditBound
      BY <2>1, <3>1, VersionsAssumption DEF Remove
    <3> QED
      BY <3>1, <3>3, <3>4 DEF TypeOK, Remove, Schema
  <2>8. CASE UNCHANGED vars
    BY <2>8 DEF vars, TypeOK, Schema, DocumentOK
  <2> QED
    BY <2>2, <2>3, <2>4, <2>5, <2>6, <2>7, <2>8 DEF Next
<1> QED
  BY <1>1, <1>2, PTL DEF Spec

-----------------------------------------------------------------------------
(* The properties *)

(***************************************************************************)
(* Settings that were loaded are in range and their pairs in order, for    *)
(* any schemas, any file and any edits, whatever the rule for keys: it is  *)
(* the defaults and the equal bounds of a pair that make it so             *)
(* (Load.hpp:126-137, Schema.hpp:98-137).                                  *)
(***************************************************************************)
THEOREM LoadedIsInOrderAlways == Spec => LoadedIsInOrder
<1> DEFINE InOrder(schema, settings) ==
            \A i \in DOMAIN settings :
                LET field == schema.fields[i]
                IN  /\ settings[i] # Null => settings[i] \in field.min..field.max
                    /\ field.lower => settings[i] <= settings[i + 1]
           Property ==
            last' = "load" =>
                \A i \in DOMAIN live' :
                    LET field == Schema'.fields[i]
                    IN  /\ live'[i] # Null => live'[i] \in field.min..field.max
                        /\ field.lower => live'[i] <= live'[i + 1]
<1>1. ASSUME NEW v \in Versions, NEW doc
      PROVE  InOrder(SchemaOf[v], LoadFields(SchemaOf[v], doc))
  BY VersionsAssumption, LoadedSettings DEF InRange
<1>2. TypeOK /\ [Next]_vars => [Property]_vars
  <2> SUFFICES ASSUME TypeOK, Next, last' = "load" PROVE InOrder(SchemaOf[version'], live')
    BY DEF Schema
  <2> HIDE DEF InOrder
  <2>1. version \in Versions
    BY DEF TypeOK
  <2>2. CASE Starts
    <3>1. PICK v \in Versions : Start(v)
      BY <2>2 DEF Starts
    <3> QED
      BY <1>1, <3>1 DEF Start
  <2>3. CASE Reload
    BY <1>1, <2>1, <2>3 DEF Reload, Schema
  <2>4. Starts \/ Reload
    BY DEF Next, Saves, Commits, Save, Commit, SaveSettings, Edit, Remove
  <2> QED
    BY <2>2, <2>3, <2>4
<1>3. LoadedIsInOrder <=> [][Property]_vars
  BY DEF LoadedIsInOrder
<1> QED
  BY <1>2, <1>3, VersionsTypeCorrect, PTL DEF Spec

\* The keys of one schema spell objects the way another spells them.
FieldsAsDeclared(schema, other) ==
    \A i \in DOMAIN other.fields : \A n \in 1..Len(other.fields[i].key) :
        AsDeclared(schema, AsPath(Prefix(other.fields[i].key, n)))

\* So do the keys of all versions, the files there may be at first and the person
\* who edits them.  It says nothing of a version that compares keys exactly, nor
\* of how fields are spelled.  Without it unknown keys are lost, as the run
\* versions_case shows.
ObjectsAsDeclared ==
    \A v \in Versions :
        /\ \A w \in Versions : FieldsAsDeclared(SchemaOf[v], SchemaOf[w])
        /\ \A doc \in StartDocs : \A path \in DOMAIN doc : AsDeclared(SchemaOf[v], path)
        /\ \A path \in EditPaths : AsDeclared(SchemaOf[v], path)

\* Every object some field lives in has a field that is written.
AllContainersWritten == \A v \in Versions : ContainersWritten(SchemaOf[v])

\* What a step that ends in a save has done.
LEMMA SaveStep ==
    ASSUME TypeOK, Next, last' = "save"
    PROVE  /\ version' = version /\ version \in Versions
           /\ WellFormed(Schema) /\ DocumentOK(file)
           /\ \E settings : /\ SettingsOK(Schema, settings) /\ live' = settings
                            /\ file' = RenderDocument(Schema, settings, file)
<1>1. version \in Versions /\ DocumentOK(file) /\ SettingsOK(Schema, live)
  BY DEF TypeOK, SettingsOK, Typed
<1>2. WellFormed(Schema)
  BY <1>1, VersionsAssumption DEF Schema
<1>3. Saves \/ Commits
  BY DEF Next, Starts, Start, Reload, Edit, Remove
<1>4. \E settings : SettingsOK(Schema, settings) /\ SaveSettings(settings)
  <2>1. CASE Saves
    <3>1. PICK i \in Written(Schema), value \in Numbers \cup {Null} :
            value \in Settable(i) /\ Save(i, value)
      BY <2>1, VersionsAssumption DEF Saves, Settable
    <3>2. SettingsOK(Schema, [live EXCEPT ![i] = value])
      BY <1>1, <3>1, VersionsAssumption DEF SettingsOK, Typed, Settable, Written
    <3> QED
      BY <3>1, <3>2 DEF Save
  <2>2. CASE Commits
    <3>1. PICK doc : SaveSettings(LoadFields(Schema, doc))
      BY <2>2 DEF Commits, Commit
    <3> QED
      BY <1>1, <3>1, LoadTypes DEF Schema
  <2> QED
    BY <1>3, <2>1, <2>2
<1> QED
  BY <1>1, <1>2, <1>4 DEF SaveSettings

\* What a rendering does not carry is some field's, or holds one.
LEMMA RenderedOrCarried ==
    ASSUME NEW schema, WellFormed(schema), NEW settings, NEW doc,
           NEW q \in DOMAIN RenderDocument(schema, settings, doc), q \notin Carry(schema, doc)
    PROVE  /\ Owned(schema, q)
           /\ \E i \in DOMAIN schema.fields : \E n \in 1..Len(schema.fields[i].key) :
                q = AsPath(Prefix(schema.fields[i].key, n))
<1>1. \E i \in DOMAIN schema.fields : \E n \in 1..Len(schema.fields[i].key) :
        q = AsPath(Prefix(schema.fields[i].key, n))
  <2>1. CASE \E i \in Written(schema) : q = AsPath(schema.fields[i].key)
    <3>1. PICK i \in Written(schema) : q = AsPath(schema.fields[i].key)
      BY <2>1
    <3>2. i \in DOMAIN schema.fields /\ Len(schema.fields[i].key) \in 1..Len(schema.fields[i].key)
      BY FieldsOf, WithinItself DEF Written
    <3> QED
      BY <3>1, <3>2, WholeKey
  <2>2. CASE q \in Levels(schema) \ {<<>>}
    <3>1. PICK i \in Written(schema) : \E n \in 0..(Len(schema.fields[i].key) - 1) :
              q = AsPath(Prefix(schema.fields[i].key, n))
      BY <2>2 DEF Levels
    <3>2. PICK n \in 0..(Len(schema.fields[i].key) - 1) : q = AsPath(Prefix(schema.fields[i].key, n))
      BY <3>1
    <3>3. i \in DOMAIN schema.fields /\ Len(schema.fields[i].key) \in 1..3
      BY FieldsOf DEF Written
    <3>4. q \in Paths /\ Len(q) = n
      BY <3>2, <3>3, RenderedIsOwned
    <3>5. n # 0
      BY <2>2, <3>4, EmptySeq DEF Paths
    <3> QED
      BY <3>2, <3>3, <3>5
  <2> QED
    BY <2>1, <2>2 DEF RenderDocument
<1>2. PICK i \in DOMAIN schema.fields : \E n \in 1..Len(schema.fields[i].key) :
        q = AsPath(Prefix(schema.fields[i].key, n))
  BY <1>1
<1>3. PICK n \in 1..Len(schema.fields[i].key) : q = AsPath(Prefix(schema.fields[i].key, n))
  BY <1>2
<1>4. n \in 0..Len(schema.fields[i].key)
  BY FieldsOf, Within
<1> QED
  BY <1>1, <1>3, <1>4, RenderedIsOwned

\* So is what it has that the file did not.
LEMMA NothingElseAdded ==
    ASSUME NEW schema, WellFormed(schema), NEW settings, NEW doc,
           NEW q \in DOMAIN RenderDocument(schema, settings, doc), q \notin DOMAIN doc
    PROVE  /\ Owned(schema, q)
           /\ \E i \in DOMAIN schema.fields : \E n \in 1..Len(schema.fields[i].key) :
                q = AsPath(Prefix(schema.fields[i].key, n))
<1>1. q \notin Carry(schema, doc)
  BY DEF Carry
<1> QED
  BY <1>1, RenderedOrCarried

\* The file spells objects the way the schemas do.
FileAsDeclared ==
    \A v \in Versions : \A path \in DOMAIN file : AsDeclared(SchemaOf[v], path)

\* It goes on doing so, since what a save adds to it the schemas spell.
LEMMA FileAsDeclaredAlways ==
    ASSUME ObjectsAsDeclared
    PROVE  Spec => []FileAsDeclared
<1>1. Init => FileAsDeclared
  BY DEF Init, FileAsDeclared, ObjectsAsDeclared
<1>2. TypeOK /\ FileAsDeclared /\ [Next]_vars => FileAsDeclared'
  <2> SUFFICES ASSUME TypeOK, FileAsDeclared, [Next]_vars,
                      NEW v \in Versions, NEW path \in DOMAIN file'
               PROVE  AsDeclared(SchemaOf[v], path)
    BY DEF FileAsDeclared, AsDeclared, Follows
  <2>1. CASE path \in DOMAIN file
    BY <2>1 DEF FileAsDeclared
  <2>2. CASE path \notin DOMAIN file /\ Next /\ last' = "save"
    <3>1. PICK settings : file' = RenderDocument(Schema, settings, file)
      BY <2>2, SaveStep
    <3>2. WellFormed(Schema) /\ version \in Versions
      BY <2>2, SaveStep
    <3>3. \E i \in DOMAIN Schema.fields : \E n \in 1..Len(Schema.fields[i].key) :
            path = AsPath(Prefix(Schema.fields[i].key, n))
      BY <2>2, <3>1, <3>2, NothingElseAdded
    <3> QED
      BY <3>2, <3>3 DEF ObjectsAsDeclared, FieldsAsDeclared, Schema
  <2>3. CASE \E p \in EditPaths : \E node \in EditNodes : Edit(p, node)
    <3>1. PICK p \in EditPaths, node \in EditNodes : Edit(p, node)
      BY <2>3
    <3>2. path \in DOMAIN file \/ path = p
      BY <3>1 DEF Edit, With, Without
    <3> QED
      BY <2>1, <3>2 DEF ObjectsAsDeclared
  <2>4. CASE \E p \in EditPaths : Remove(p)
    BY <2>1, <2>4 DEF Remove, Without
  <2>5. CASE Starts \/ Reload \/ UNCHANGED vars
    BY <2>1, <2>5 DEF Starts, Start, Reload, vars
  <2>6. CASE Saves \/ Commits
    <3>1. Next /\ last' = "save"
      BY <2>6 DEF Next, Saves, Commits, Save, Commit, SaveSettings
    <3> QED
      BY <2>1, <2>2, <3>1
  <2> QED
    BY <2>3, <2>4, <2>5, <2>6 DEF Next
<1> QED
  BY <1>1, <1>2, VersionsTypeCorrect, PTL DEF Spec

(***************************************************************************)
(* The note "kept as it is" is true of every key it is given about, with   *)
(* all that is below the key, as long as objects are spelled as declared   *)
(* or keys compared exactly, and no object has only fields that cannot be  *)
(* written (Load.hpp:83-84).                                               *)
(***************************************************************************)
THEOREM UnknownKeptAlways ==
    ASSUME ObjectsAsDeclared, AllContainersWritten
    PROVE  Spec => UnknownKept
<1> DEFINE Property ==
        last' = "save" =>
            \A p \in CollectUnknownKeys(Schema, file) : Subtree(file', p) = Subtree(file, p)
<1>1. TypeOK /\ FileAsDeclared /\ [Next]_vars => [Property]_vars
  <2> SUFFICES ASSUME TypeOK, FileAsDeclared, Next, last' = "save",
                      NEW p \in CollectUnknownKeys(Schema, file)
               PROVE  Subtree(file', p) = Subtree(file, p)
    OBVIOUS
  <2>1. /\ WellFormed(Schema) /\ DocumentOK(file) /\ ContainersWritten(Schema)
        /\ \A q \in DOMAIN file : AsDeclared(Schema, q)
    BY SaveStep DEF AllContainersWritten, FileAsDeclared, Schema
  <2>2. PICK settings : file' = RenderDocument(Schema, settings, file)
    BY SaveStep
  <2>3. ~Owned(Schema, p) /\ ~AtOrBelowField(Schema, p) /\ p \in DOMAIN file
    BY <2>1, UnknownIsOutside DEF CollectUnknownKeys
  <2> QED
    BY <2>1, <2>2, <2>3, OutsideKept
<1>2. UnknownKept <=> [][Property]_vars
  BY DEF UnknownKept
<1> QED
  BY <1>1, <1>2, VersionsTypeCorrect, FileAsDeclaredAlways, PTL DEF Spec

\* Where keys are compared exactly, a key leads to its own path or nowhere.
LEMMA ExactResolve ==
    ASSUME NEW doc, DocumentOK(doc), NEW key \in Seq(Segments), Len(key) \in 1..3
    PROVE  ResolvePath(doc, key, FALSE) = {AsPath(key)} \cap DOMAIN doc
<1>1. /\ AsPath(key) \in Paths /\ Len(AsPath(key)) = Len(key)
      /\ \A i \in 1..Len(key) : AsPath(key)[i] = <<key[i]>>
  BY AsPathOf
<1>2. DOMAIN key = 1..Len(key) /\ \A i \in 1..Len(key) : i \in Nat /\ i <= Len(key) /\ i \in 1..i
  BY LenProperties
<1>3. ASSUME NEW p \in Paths, Len(p) = Len(key), NEW i \in 1..Len(key)
      PROVE  FindChild(doc, Prefix(p, i), key[i], FALSE) <=> p[i] = <<key[i]>>
  <2>1. Len(Prefix(p, i)) = i /\ Prefix(p, i)[i] = p[i]
    BY <1>2, <1>3, PathPrefix
  <2>2. Own(Prefix(p, i)) = p[i]
    BY <2>1 DEF Own
  <2> QED
    BY <2>2 DEF FindChild, KeysEqual
<1>4. ASSUME NEW p \in DOMAIN doc
      PROVE  p \in ResolvePath(doc, key, FALSE) <=> p = AsPath(key)
  <2>1. p \in Paths
    BY DEF DocumentOK
  <2>2. p \in ResolvePath(doc, key, FALSE)
            <=> Len(p) = Len(key) /\ \A i \in 1..Len(key) : p[i] = <<key[i]>>
    BY <1>2, <1>3, <2>1 DEF ResolvePath
  <2>3. ASSUME Len(p) = Len(key), \A i \in 1..Len(key) : p[i] = <<key[i]>>
        PROVE  p = AsPath(key)
    <3>1. \A i \in 1..Len(p) : p[i] = AsPath(key)[i]
      BY <1>1, <2>3
    <3> QED
      BY <1>1, <2>1, <2>3, <3>1, SeqEqual DEF Paths
  <2> QED
    BY <1>1, <2>2, <2>3
<1> QED
  BY <1>4 DEF ResolvePath

\* The members of a document that a key names in some spelling.
Spellings(doc, key) == {p \in DOMAIN doc : Len(p) = Len(key) /\ Follows(p, key)}

\* Whatever the rule, what a key leads to is one of them.
LEMMA FoundIsSpelling ==
    ASSUME NEW doc, DocumentOK(doc), NEW key \in Seq(Segments), Len(key) \in 1..3,
           NEW insensitive \in BOOLEAN
    PROVE  ResolvePath(doc, key, insensitive) \subseteq Spellings(doc, key)
<1> SUFFICES ASSUME NEW p \in ResolvePath(doc, key, insensitive)
             PROVE  Len(p) = Len(key) /\ Follows(p, key) /\ p \in DOMAIN doc
  BY DEF Spellings
<1>1. /\ p \in Paths /\ p \in DOMAIN doc /\ Len(p) = Len(key) /\ DOMAIN key = 1..Len(key)
      /\ \A n \in DOMAIN key : FindChild(doc, Prefix(p, n), key[n], insensitive)
  BY LenProperties DEF ResolvePath, DocumentOK
<1>2. ASSUME NEW n \in 1..Len(key) PROVE KeysEqual(p[n], <<key[n]>>, TRUE)
  <2>1. Own(Prefix(p, n)) = p[n]
    <3>1. n \in Nat /\ n <= Len(p) /\ n \in 1..n
      BY <1>1
    <3> QED
      BY <1>1, <3>1, PathPrefix DEF Own
  <2>2. KeysEqual(Own(Prefix(p, n)), <<key[n]>>, insensitive)
    BY <1>1 DEF FindChild
  <2> QED
    BY <2>1, <2>2 DEF KeysEqual
<1>3. Len(p) <= Len(key)
  BY <1>1
<1>4. \A n \in 1..Len(p) : KeysEqual(p[n], <<key[n]>>, TRUE)
  BY <1>1, <1>2, Zenon
<1> QED
  BY <1>1, <1>3, <1>4, Zenon DEF Follows

\* The objects a member stands in follow its key too.
LEMMA AboveFollows ==
    ASSUME NEW key \in Seq(Segments), Len(key) \in 1..3, NEW p \in Paths, Follows(p, key),
           NEW n \in 1..Len(p)
    PROVE  /\ Prefix(p, n) \in Paths /\ Len(Prefix(p, n)) = n
           /\ Own(Prefix(p, n)) = p[n] /\ Follows(Prefix(p, n), key)
<1>1. n \in Nat /\ n <= Len(p) /\ n \in 1..n /\ Len(p) <= Len(key) /\ Len(p) \in Nat
  BY LenProperties DEF Follows, Paths
<1>2. /\ Prefix(p, n) \in Paths /\ Len(Prefix(p, n)) = n
      /\ \A k \in 1..n : Prefix(p, n)[k] = p[k]
  BY <1>1, PathPrefix
<1>3. Follows(Prefix(p, n), key)
  <2>1. \A k \in 1..n : k \in 1..Len(p)
    BY <1>1
  <2>2. \A k \in 1..n : KeysEqual(Prefix(p, n)[k], <<key[k]>>, TRUE)
    BY <1>2, <2>1, Zenon DEF Follows
  <2>3. Len(Prefix(p, n)) <= Len(key)
    BY <1>1, <1>2
  <2> QED
    BY <1>2, <2>2, <2>3, Zenon DEF Follows
<1> QED
  BY <1>1, <1>2, <1>3 DEF Own

\* So does another member of the same object with a name like the key's.
LEMMA SiblingFollows ==
    ASSUME NEW key \in Seq(Segments), Len(key) \in 1..3, NEW p \in Paths, Follows(p, key),
           Len(p) \in 1..3, NEW other \in Paths, Len(other) = Len(p), Parent(other) = Parent(p),
           KeysEqual(Own(other), <<key[Len(p)]>>, TRUE)
    PROVE  Follows(other, key)
<1>1. /\ \A n \in 1..(Len(p) - 1) : Parent(p)[n] = p[n]
      /\ \A n \in 1..(Len(p) - 1) : Parent(other)[n] = other[n]
  BY ParentOfPath
<1>2. ASSUME NEW n \in 1..Len(p) PROVE KeysEqual(other[n], <<key[n]>>, TRUE)
  <2>1. CASE n = Len(p)
    BY <2>1 DEF Own
  <2>2. CASE n # Len(p)
    <3>1. other[n] = p[n]
      BY <1>1, <2>2
    <3> QED
      BY <3>1 DEF Follows
  <2> QED
    BY <2>1, <2>2
<1> QED
  BY <1>2 DEF Follows

(***************************************************************************)
(* Where case does not matter and objects are spelled as declared, a key   *)
(* leads to the preferred of its spellings (Keys.hpp:62-115).              *)
(***************************************************************************)
Preferred(doc, key) ==
    {p \in Spellings(doc, key) : ~InCapitals(Own(p)) =>
        ~\E other \in Spellings(doc, key) :
            InCapitals(Own(other)) /\ Parent(other) = Parent(p)}

LEMMA PreferredFound ==
    ASSUME NEW schema, WellFormed(schema), schema.insensitive, NEW i \in DOMAIN schema.fields,
           NEW doc, DocumentOK(doc), \A q \in DOMAIN doc : AsDeclared(schema, q)
    PROVE  ResolvePath(doc, schema.fields[i].key, TRUE) = Preferred(doc, schema.fields[i].key)
<1> DEFINE key == schema.fields[i].key
<1>1. key \in Seq(Segments) /\ Len(key) \in 1..3 /\ DOMAIN key = 1..Len(key)
  BY FieldsOf, LenProperties
<1>2. \A q \in DOMAIN doc : q \in Paths
  BY DEF DocumentOK
<1> HIDE DEF key
<1>3. ASSUME NEW p \in ResolvePath(doc, key, TRUE) PROVE p \in Preferred(doc, key)
  <2>1. p \in Spellings(doc, key)
    BY <1>1, FoundIsSpelling
  <2>2. p \in Paths /\ Len(p) = Len(key) /\ Prefix(p, Len(key)) = p
    <3>1. p \in Paths /\ Len(p) = Len(key)
      BY <1>2, <2>1 DEF Spellings
    <3> QED
      BY <3>1, SubSeqFull DEF Prefix, Paths
  <2>3. FindChild(doc, p, key[Len(key)], TRUE)
    <3>1. Len(key) \in DOMAIN key
      BY <1>1
    <3>2. FindChild(doc, Prefix(p, Len(key)), key[Len(key)], TRUE)
      BY <3>1, Zenon DEF ResolvePath
    <3> QED
      BY <2>2, <3>2, Zenon
  <2>4. ASSUME NEW other \in Spellings(doc, key)
        PROVE  /\ other \in DOMAIN doc /\ Len(other) = Len(p)
               /\ KeysEqual(Own(other), <<key[Len(key)]>>, TRUE)
    <3>1. other \in DOMAIN doc /\ Len(other) = Len(key) /\ Follows(other, key)
      BY DEF Spellings
    <3>2. Len(key) \in 1..Len(other)
      BY <1>1, <3>1
    <3>3. KeysEqual(other[Len(key)], <<key[Len(key)]>>, TRUE)
      BY <3>1, <3>2, Zenon DEF Follows
    <3> QED
      BY <2>2, <3>1, <3>3, Zenon DEF Own
  <2> QED
    BY <2>1, <2>3, <2>4 DEF Preferred, FindChild
<1>4. ASSUME NEW p \in Preferred(doc, key) PROVE p \in ResolvePath(doc, key, TRUE)
  <2>1. p \in DOMAIN doc /\ p \in Paths /\ Len(p) = Len(key) /\ Follows(p, key)
    BY <1>2 DEF Preferred, Spellings
  <2>2. ASSUME NEW n \in 1..Len(key) PROVE FindChild(doc, Prefix(p, n), key[n], TRUE)
    <3> DEFINE here == Prefix(p, n)
    <3>1. /\ here \in Paths /\ Len(here) = n /\ Own(here) = p[n] /\ Follows(here, key)
          /\ here \in DOMAIN doc /\ n \in 1..3
      <4>1. n \in 1..Len(p)
        BY <2>1
      <4>2. here \in DOMAIN doc
        BY <2>1, <4>1, Ancestors
      <4>3. here \in Paths /\ Len(here) = n /\ Own(here) = p[n] /\ Follows(here, key)
        BY <1>1, <2>1, <4>1, AboveFollows
      <4>4. n \in 1..3
        BY <1>1, Within
      <4> QED
        BY <4>2, <4>3, <4>4
    <3> HIDE DEF here
    <3>2. KeysEqual(Own(here), <<key[n]>>, TRUE)
      BY <1>1, <2>1, <3>1 DEF Follows
    <3>3. ASSUME ~InCapitals(Own(here)),
                 NEW other \in DOMAIN doc, Len(other) = Len(here), InCapitals(Own(other)),
                 KeysEqual(Own(other), <<key[n]>>, TRUE), Parent(other) = Parent(here)
          PROVE  FALSE
      <4>1. other \in Paths /\ Follows(other, key)
        BY <1>1, <1>2, <3>1, <3>3, SiblingFollows
      <4>2. CASE n = Len(key)
        <5>1. here = p
          BY <2>1, <4>2, SubSeqFull DEF here, Prefix, Paths
        <5>2. other \in Spellings(doc, key)
          BY <3>1, <3>3, <4>1, <4>2 DEF Spellings
        <5> QED
          BY <3>3, <5>1, <5>2 DEF Preferred
      <4>3. CASE n < Len(key)
        <5>1. other[n] = <<key[n]>> /\ here[n] = <<key[n]>>
          BY <3>1, <3>3, <4>1, <4>3 DEF AsDeclared, key
        <5>2. Own(other) = other[n] /\ Own(here) = here[n]
          BY <3>1, <3>3 DEF Own
        <5>3. Own(other) = Own(here)
          BY <5>1, <5>2, Zenon
        <5> QED
          BY <3>3, <5>3, Zenon
      <4>4. n = Len(key) \/ n < Len(key)
        BY <1>1, LastOrBefore, Zenon
      <4> QED
        BY <4>2, <4>3, <4>4, Zenon
    <3>4. FindChild(doc, here, key[n], TRUE)
      BY <3>2, <3>3 DEF FindChild
    <3> QED
      BY <3>4 DEF here
  <2> QED
    BY <1>1, <2>1, <2>2 DEF ResolvePath
<1>5. ResolvePath(doc, key, TRUE) = Preferred(doc, key)
  BY <1>3, <1>4
<1> QED
  BY <1>5 DEF key

\* A member found under a key kept elsewhere is no field's, nor above or below one.
LEMMA ElsewhereIsOutside ==
    ASSUME NEW key \in Seq(Segments), Len(key) \in 1..3, Elsewhere(key), WellFormed(Schema),
           NEW path \in Paths, Len(path) = Len(key), Follows(path, key)
    PROVE  ~Owned(Schema, path) /\ ~AtOrBelowField(Schema, path)
<1>1. ASSUME NEW i \in DOMAIN Schema.fields
      PROVE  LET own == Schema.fields[i].key
             IN  /\ own \in Seq(Segments) /\ Len(own) \in 1..3
                 /\ \A n \in 1..Len(own) : own[n] \in Segments
                 /\ ~KeysEqual(own, key, TRUE)
                 /\ ~IsUnderPath(own, key, TRUE) /\ ~IsUnderPath(key, own, TRUE)
  <2>1. Schema.fields[i].key \in Seq(Segments) /\ Len(Schema.fields[i].key) \in 1..3
    BY FieldsOf
  <2> QED
    BY <2>1, ElementOfSeq DEF Elsewhere
<1>2. /\ \A n \in 1..Len(key) : path[n] \in Seq(Segments) /\ key[n] \in Segments
      /\ \A n \in 1..Len(key) : KeysEqual(path[n], <<key[n]>>, TRUE)
      /\ Schema.insensitive \in BOOLEAN
  BY ElementOfSeq DEF Paths, Follows, WellFormed
<1>3. ASSUME Owned(Schema, path) PROVE FALSE
  <2>1. PICK i \in DOMAIN Schema.fields :
            /\ Len(Schema.fields[i].key) >= Len(key)
            /\ \A n \in 1..Len(key) : path[n] = <<Schema.fields[i].key[n]>>
    BY <1>3 DEF Owned
  <2> DEFINE own == Schema.fields[i].key
  <2>2. ASSUME NEW n \in 1..Len(key) PROVE LowerCase[own[n]] = LowerCase[key[n]]
    <3>1. /\ own[n] \in Segments /\ key[n] \in Segments /\ path[n] \in Seq(Segments)
          /\ path[n] = <<own[n]>> /\ KeysEqual(path[n], <<key[n]>>, TRUE)
      <4>1. n \in 1..Len(own)
        BY <1>1, <2>1
      <4> QED
        BY <1>1, <1>2, <2>1, <4>1, Zenon
    <3>2. KeysEqual(path[n], <<own[n]>>, TRUE)
      BY <3>1, Zenon DEF KeysEqual
    <3> QED
      BY <3>1, <3>2, SameSegments
  <2> QED
    BY <1>1, <2>1, <2>2, EqualOrUnder, LongerOrEqual
<1>4. ASSUME AtOrBelowField(Schema, path) PROVE FALSE
  <2>1. PICK i \in DOMAIN Schema.fields :
            /\ Len(Schema.fields[i].key) <= Len(key)
            /\ \A n \in 1..Len(Schema.fields[i].key) :
                    KeysEqual(path[n], <<Schema.fields[i].key[n]>>, Schema.insensitive)
    BY <1>4 DEF AtOrBelowField
  <2> DEFINE own == Schema.fields[i].key
  <2>2. ASSUME NEW n \in 1..Len(own) PROVE LowerCase[key[n]] = LowerCase[own[n]]
    <3>1. /\ own[n] \in Segments /\ key[n] \in Segments /\ path[n] \in Seq(Segments)
          /\ KeysEqual(path[n], <<own[n]>>, Schema.insensitive)
          /\ KeysEqual(path[n], <<key[n]>>, TRUE)
      <4>1. Len(own) \in 1..3 /\ Len(own) <= Len(key)
        BY <1>1, <2>1, Zenon
      <4>2. n \in 1..Len(key)
        BY <4>1
      <4> QED
        BY <1>1, <1>2, <2>1, <4>2, Zenon
    <3>2. KeysEqual(path[n], <<own[n]>>, TRUE)
      BY <3>1, Zenon DEF KeysEqual
    <3> QED
      BY <3>1, <3>2, SameSegments
  <2>3. Len(key) >= Len(own)
    BY <1>1, <2>1
  <2> QED
    BY <1>1, <2>2, <2>3, EqualOrUnder, LongerOrEqual
<1> QED
  BY <1>3, <1>4

(***************************************************************************)
(* "So a downgrade or a future version still finds its own settings"       *)
(* (Write.hpp:66-67): whatever another version reads under a key of its    *)
(* own is after a save what it was before, and a key it did not find it    *)
(* does not find now.  Each version may have its own rule for keys.        *)
(***************************************************************************)
THEOREM OtherVersionsKeepTheirsAlways ==
    ASSUME ObjectsAsDeclared, AllContainersWritten
    PROVE  Spec => OtherVersionsKeepTheirs
<1> DEFINE Property ==
        last' = "save" =>
            \A v \in Versions \ {version} : \A i \in DOMAIN SchemaOf[v].fields :
                LET key == SchemaOf[v].fields[i].key
                    Found(doc) == ResolvePath(doc, key, SchemaOf[v].insensitive)
                IN  Elsewhere(key) =>
                        /\ Found(file') = Found(file)
                        /\ \A p \in Found(file) : Subtree(file', p) = Subtree(file, p)
<1>1. TypeOK /\ FileAsDeclared /\ FileAsDeclared' /\ [Next]_vars => [Property]_vars
  <2> SUFFICES ASSUME TypeOK, FileAsDeclared, FileAsDeclared', Next, last' = "save",
                      NEW v \in Versions, NEW i \in DOMAIN SchemaOf[v].fields,
                      Elsewhere(SchemaOf[v].fields[i].key)
               PROVE  LET key == SchemaOf[v].fields[i].key
                          Found(doc) == ResolvePath(doc, key, SchemaOf[v].insensitive)
                      IN  /\ Found(file') = Found(file)
                          /\ \A p \in Found(file) : Subtree(file', p) = Subtree(file, p)
    OBVIOUS
  <2> DEFINE key == SchemaOf[v].fields[i].key
  <2>1. /\ WellFormed(Schema) /\ DocumentOK(file) /\ ContainersWritten(Schema)
        /\ \A q \in DOMAIN file : AsDeclared(Schema, q)
    BY SaveStep DEF AllContainersWritten, FileAsDeclared, Schema
  <2>2. PICK settings : /\ SettingsOK(Schema, settings)
                        /\ file' = RenderDocument(Schema, settings, file)
    BY SaveStep
  <2> DEFINE saved == RenderDocument(Schema, settings, file)
  <2>3. key \in Seq(Segments) /\ Len(key) \in 1..3 /\ WellFormed(SchemaOf[v])
    BY VersionsAssumption, FieldsOf
  <2>4. SchemaOf[v].insensitive \in BOOLEAN
    BY <2>3 DEF WellFormed
  <2>5. DocumentOK(saved)
    BY <2>1, <2>2, RenderedOK DEF SettingsOK
  <2>6. /\ \A q \in DOMAIN file : AsDeclared(SchemaOf[v], q)
        /\ \A q \in DOMAIN saved : AsDeclared(SchemaOf[v], q)
    BY <2>2 DEF FileAsDeclared, AsDeclared, Follows
  <2> HIDE DEF key, saved
  <2>7. ASSUME NEW p \in Paths, Len(p) = Len(key), Follows(p, key)
        PROVE  ~Owned(Schema, p) /\ ~AtOrBelowField(Schema, p)
    BY <2>1, <2>3, <2>7, ElsewhereIsOutside DEF key
  <2>8. ASSUME NEW p \in Spellings(file, key)
        PROVE  Subtree(saved, p) = Subtree(file, p) /\ p \in DOMAIN saved
    <3>1. p \in Paths /\ p \in DOMAIN file /\ Len(p) = Len(key) /\ Follows(p, key)
      BY <2>1 DEF Spellings, DocumentOK
    <3>2. Subtree(saved, p) = Subtree(file, p)
      BY <2>1, <2>7, <3>1, OutsideKept DEF saved
    <3>3. p \in DOMAIN Subtree(file, p)
      <4>1. IsPrefix(p, p)
        BY <3>1, PrefixPointwise DEF Paths
      <4> QED
        BY <3>1, <4>1 DEF Subtree
    <3>4. DOMAIN Subtree(saved, p) \subseteq DOMAIN saved
      BY DEF Subtree
    <3> QED
      BY <3>2, <3>3, <3>4
  <2>9. ASSUME NEW p \in Spellings(saved, key) PROVE p \in DOMAIN file
    <3>1. p \in Paths /\ p \in DOMAIN saved /\ Len(p) = Len(key) /\ Follows(p, key)
      BY <2>5 DEF Spellings, DocumentOK
    <3> QED
      BY <2>1, <2>7, <3>1, NothingElseAdded DEF saved
  <2>10. Spellings(saved, key) = Spellings(file, key)
    BY <2>8, <2>9 DEF Spellings
  <2>11. ResolvePath(file, key, SchemaOf[v].insensitive) \subseteq Spellings(file, key)
    BY <2>1, <2>3, <2>4, FoundIsSpelling
  <2>12. ResolvePath(saved, key, SchemaOf[v].insensitive)
            = ResolvePath(file, key, SchemaOf[v].insensitive)
    <3>1. CASE SchemaOf[v].insensitive
      <4>1. SchemaOf[v].insensitive = TRUE
        BY <2>4, <3>1
      <4>2. ResolvePath(file, key, TRUE) = Preferred(file, key)
        BY <2>1, <2>3, <2>6, <3>1, PreferredFound DEF key
      <4>3. ResolvePath(saved, key, TRUE) = Preferred(saved, key)
        BY <2>3, <2>5, <2>6, <3>1, PreferredFound DEF key
      <4>4. Preferred(saved, key) = Preferred(file, key)
        BY <2>10 DEF Preferred
      <4> QED
        BY <4>1, <4>2, <4>3, <4>4
    <3>2. CASE ~SchemaOf[v].insensitive
      <4>1. SchemaOf[v].insensitive = FALSE
        BY <2>4, <3>2
      <4>2. /\ ResolvePath(file, key, FALSE) = {AsPath(key)} \cap DOMAIN file
            /\ ResolvePath(saved, key, FALSE) = {AsPath(key)} \cap DOMAIN saved
        BY <2>1, <2>3, <2>5, ExactResolve
      <4>3. Len(AsPath(key)) = Len(key) /\ Follows(AsPath(key), key)
        BY <2>3, AsPathOf DEF Follows, KeysEqual
      <4>4. AsPath(key) \in DOMAIN saved <=> AsPath(key) \in DOMAIN file
        BY <2>10, <4>3 DEF Spellings
      <4> QED
        BY <4>1, <4>2, <4>4
    <3> QED
      BY <3>1, <3>2
  <2> QED
    BY <2>2, <2>8, <2>11, <2>12 DEF key, saved
<1>2. OtherVersionsKeepTheirs <=> [][Property]_vars
  BY DEF OtherVersionsKeepTheirs
<1> QED
  BY <1>1, <1>2, VersionsTypeCorrect, FileAsDeclaredAlways, PTL DEF Spec

\* A field that is never written has no older name either, under which the file
\* could go on saying what the struct no longer holds.
ReadOnlyHasNoAlias ==
    \A v \in Versions : \A i \in DOMAIN SchemaOf[v].fields :
        SchemaOf[v].fields[i].written \/ DOMAIN SchemaOf[v].fields[i].aliases = {}

\* Two fields have two paths.
LEMMA LeavesDiffer ==
    ASSUME NEW schema, WellFormed(schema),
           NEW i \in DOMAIN schema.fields, NEW j \in DOMAIN schema.fields,
           AsPath(schema.fields[i].key) = AsPath(schema.fields[j].key)
    PROVE  i = j
<1> DEFINE a == schema.fields[i].key
           b == schema.fields[j].key
<1>1. a \in Seq(Segments) /\ b \in Seq(Segments)
  BY FieldsOf
<1>2. /\ Len(AsPath(a)) = Len(a) /\ \A n \in 1..Len(a) : AsPath(a)[n] = <<a[n]>>
      /\ Len(AsPath(b)) = Len(b) /\ \A n \in 1..Len(b) : AsPath(b)[n] = <<b[n]>>
  BY <1>1, AsPathOf
<1>3. Len(a) = Len(b) /\ \A n \in 1..Len(a) : <<a[n]>> = <<b[n]>>
  BY <1>2
<1>4. a = b
  <2>1. \A n \in 1..Len(a) : a[n] = b[n]
    BY <1>3
  <2> QED
    BY <1>1, <1>3, <2>1, SeqEqual
<1>5. KeysEqual(a, b, TRUE)
  BY <1>4 DEF KeysEqual
<1> QED
  BY <1>5 DEF WellFormed

\* Of a file just saved, nothing but a field's own path follows its key: other
\* spellings were claimed.
LEMMA OneSpellingSaved ==
    ASSUME NEW schema, WellFormed(schema), schema.insensitive, FieldsAsDeclared(schema, schema),
           NEW settings, NEW doc, DocumentOK(doc), NEW i \in DOMAIN schema.fields,
           NEW path \in Paths, path \in DOMAIN RenderDocument(schema, settings, doc),
           Len(path) \in 1..3, Follows(path, schema.fields[i].key)
    PROVE  \A n \in 1..Len(path) : path[n] = <<schema.fields[i].key[n]>>
<1> DEFINE key == schema.fields[i].key
           len == Len(path)
<1>1. /\ key \in Seq(Segments) /\ Len(key) \in 1..3 /\ len <= Len(key)
      /\ \A n \in 1..Len(key) : key[n] \in Segments
      /\ \A n \in 1..len : path[n] \in Seq(Segments) /\ KeysEqual(path[n], <<key[n]>>, TRUE)
  BY FieldsOf, ElementOfSeq DEF Paths, Follows
<1>2. ASSUME NEW j \in DOMAIN schema.fields, NEW m \in 1..Len(schema.fields[j].key),
             path = AsPath(Prefix(schema.fields[j].key, m))
      PROVE  \A n \in 1..len : path[n] = <<key[n]>>
  <2> DEFINE own == schema.fields[j].key
  <2>1. /\ own \in Seq(Segments) /\ Len(own) \in 1..3 /\ \A n \in 1..Len(own) : own[n] \in Segments
    BY FieldsOf, ElementOfSeq
  <2>2. m \in 0..Len(own) /\ m \in 1..3
    BY <2>1, Within
  <2>3. /\ Prefix(own, m) \in Seq(Segments) /\ Len(Prefix(own, m)) = m
        /\ \A n \in 1..m : Prefix(own, m)[n] = own[n]
    BY <2>1, <2>2, PrefixOf
  <2>4. len = m /\ \A n \in 1..m : path[n] = <<own[n]>>
    BY <1>2, <2>3, AsPathOf
  <2>5. CASE len < Len(key)
    <3>1. AsDeclared(schema, path)
      BY <1>2 DEF FieldsAsDeclared
    <3> QED
      BY <2>5, <3>1 DEF AsDeclared
  <2>6. CASE len = Len(key)
    <3>1. ASSUME NEW n \in 1..Len(key) PROVE LowerCase[own[n]] = LowerCase[key[n]]
      <4>1. /\ own[n] \in Segments /\ key[n] \in Segments /\ path[n] \in Seq(Segments)
            /\ KeysEqual(path[n], <<key[n]>>, TRUE) /\ path[n] = <<own[n]>>
        <5>1. n \in 1..Len(own) /\ n \in 1..len /\ n \in 1..m
          BY <2>1, <2>2, <2>4, <2>6
        <5> QED
          BY <1>1, <2>1, <2>4, <5>1, Zenon
      <4>2. KeysEqual(path[n], <<own[n]>>, TRUE)
        BY <4>1, Zenon DEF KeysEqual
      <4> QED
        BY <4>1, <4>2, SameSegments, ZenonT(40)
    <3>2. Len(own) >= Len(key)
      BY <2>1, <2>4, <2>6
    <3>3. /\ Len(own) > Len(key) => IsUnderPath(own, key, TRUE)
          /\ Len(own) = Len(key) => KeysEqual(own, key, TRUE)
      BY <1>1, <2>1, <3>1, <3>2, EqualOrUnder
    <3>4. IsUnderPath(own, key, TRUE) \/ KeysEqual(own, key, TRUE)
      BY <1>1, <2>1, <3>2, <3>3, LongerOrEqual
    <3>5. i = j
      BY <3>4 DEF WellFormed
    <3> QED
      BY <2>4, <2>6, <3>5
  <2> QED
    BY <1>1, <2>5, <2>6
<1>3. CASE path \notin Carry(schema, doc)
  <2>1. \E j \in DOMAIN schema.fields : \E m \in 1..Len(schema.fields[j].key) :
            path = AsPath(Prefix(schema.fields[j].key, m))
    BY <1>3, RenderedOrCarried
  <2> QED
    BY <1>2, <2>1
<1>4. CASE path \in Carry(schema, doc)
  <2>1. PICK root \in DOMAIN doc : /\ Parent(root) \in Levels(schema)
                                   /\ ~Claimed(schema, Parent(root), Own(root))
                                   /\ IsPrefix(root, path)
    BY <1>4 DEF Carry
  <2> DEFINE m == Len(root)
             level == Parent(root)
  <2>2. root \in Paths /\ m \in 1..3
    BY DEF DocumentOK
  <2>3. m <= len /\ \A n \in 1..m : path[n] = root[n]
    BY <2>1, <2>2, PrefixPointwise DEF Paths
  <2>4. /\ level \in Paths /\ Len(level) = m - 1 /\ DOMAIN level = 1..(m - 1)
        /\ \A n \in 1..(m - 1) : level[n] = path[n]
    <3>1. /\ level \in Paths /\ Len(level) = m - 1
          /\ \A n \in 1..(m - 1) : level[n] = root[n]
      BY <2>2, ParentOfPath
    <3> QED
      BY <2>2, <2>3, <3>1, LenProperties DEF Paths
  <2>5. \A n \in 1..(m - 1) : level[n] = <<key[n]>>
    <3>1. CASE m = 1
      BY <3>1
    <3>2. CASE m > 1
      <4>1. level # <<>>
        BY <2>2, <2>4, <3>2, EmptySeq
      <4>2. PICK j \in Written(schema) : \E n \in 0..(Len(schema.fields[j].key) - 1) :
                level = AsPath(Prefix(schema.fields[j].key, n))
        BY <2>1, <4>1 DEF Levels
      <4>3. PICK n \in 0..(Len(schema.fields[j].key) - 1) :
                level = AsPath(Prefix(schema.fields[j].key, n))
        BY <4>2
      <4>4. j \in DOMAIN schema.fields /\ Len(schema.fields[j].key) \in 1..3
        BY FieldsOf DEF Written
      <4>5. n \in 0..Len(schema.fields[j].key)
        BY <4>3, <4>4
      <4>6. Len(level) = n
        BY <4>3, <4>4, <4>5, RenderedIsOwned
      <4>7. n \in 1..Len(schema.fields[j].key)
        BY <2>2, <2>4, <3>2, <4>3, <4>4, <4>6
      <4>8. AsDeclared(schema, level)
        <5>1. AsDeclared(schema, AsPath(Prefix(schema.fields[j].key, n)))
          BY <4>4, <4>7, Zenon DEF FieldsAsDeclared
        <5> QED
          BY <4>3, <5>1, Zenon
      <4>9. Len(level) < Len(key) /\ Follows(level, key)
        <5>1. Len(level) < Len(key) /\ Len(level) <= Len(key)
          BY <1>1, <2>2, <2>3, <2>4
        <5>2. \A k \in 1..Len(level) : k \in 1..len /\ level[k] = path[k]
          BY <1>1, <2>2, <2>3, <2>4
        <5>3. \A k \in 1..Len(level) : KeysEqual(level[k], <<key[k]>>, TRUE)
          BY <1>1, <5>2, Zenon
        <5> QED
          BY <5>1, <5>3, Zenon DEF Follows
      <4> QED
        BY <2>4, <4>8, <4>9 DEF AsDeclared
    <3> QED
      BY <2>2, <3>1, <3>2
  <2>6. KeysEqual(<<key[m]>>, Own(root), schema.insensitive)
    <3>1. m \in 1..len /\ m \in 1..m /\ m \in 1..Len(key)
      <4>1. m \in 1..3 /\ len \in 1..3 /\ Len(key) \in 1..3 /\ len >= m /\ Len(key) >= len
        BY <1>1, <2>2, <2>3
      <4> HIDE DEF m, len, key
      <4> QED
        BY <4>1
    <3>2. Own(root) = path[m]
      BY <2>3, <3>1 DEF Own
    <3>3. KeysEqual(path[m], <<key[m]>>, TRUE) /\ path[m] \in Seq(Segments) /\ key[m] \in Segments
      BY <1>1, <3>1, Zenon
    <3>4. KeysEqual(<<key[m]>>, path[m], TRUE)
      BY <3>3, SameName
    <3> QED
      BY <3>2, <3>4 DEF KeysEqual
  <2>7. Claimed(schema, level, Own(root))
    <3>1. Len(key) > Len(level) /\ Len(level) + 1 = m
      BY <1>1, <2>2, <2>3, <2>4
    <3> QED
      BY <2>4, <2>5, <2>6, <3>1 DEF Claimed
  <2> QED
    BY <2>1, <2>7
<1> QED
  BY <1>3, <1>4

\* A field's key leads to the field's own path in a file just saved, or nowhere.
LEMMA ResolveSaved ==
    ASSUME NEW schema, WellFormed(schema), FieldsAsDeclared(schema, schema),
           NEW settings, SettingsOK(schema, settings), NEW doc, DocumentOK(doc),
           NEW i \in DOMAIN schema.fields
    PROVE  LET saved == RenderDocument(schema, settings, doc)
           IN  ResolvePath(saved, schema.fields[i].key, schema.insensitive)
                = {AsPath(schema.fields[i].key)} \cap DOMAIN saved
<1> DEFINE saved == RenderDocument(schema, settings, doc)
           key == schema.fields[i].key
           path == AsPath(key)
<1>1. DocumentOK(saved)
  BY RenderedOK DEF SettingsOK
<1>2. key \in Seq(Segments) /\ Len(key) \in 1..3 /\ DOMAIN key = 1..Len(key)
  BY FieldsOf, LenProperties
<1>3. path \in Paths /\ Len(path) = Len(key) /\ \A n \in 1..Len(key) : path[n] = <<key[n]>>
  BY <1>2, AsPathOf
<1>4. schema.insensitive \in BOOLEAN
  BY DEF WellFormed
<1>5. CASE ~schema.insensitive
  <2>1. schema.insensitive = FALSE
    BY <1>4, <1>5
  <2> HIDE DEF saved
  <2>2. ResolvePath(saved, key, FALSE) = {path} \cap DOMAIN saved
    BY <1>1, <1>2, ExactResolve
  <2> QED
    BY <2>1, <2>2 DEF saved
<1>6. CASE schema.insensitive
  <2>1. schema.insensitive = TRUE
    BY <1>4, <1>6
  <2>2. ASSUME NEW q \in DOMAIN saved, Follows(q, key)
        PROVE  q \in Paths /\ Len(q) \in 1..3 /\ \A n \in 1..Len(q) : q[n] = <<key[n]>>
    <3>1. q \in Paths /\ Len(q) \in 1..3
      BY <1>1, <2>2 DEF DocumentOK
    <3> QED
      BY <1>6, <2>2, <3>1, OneSpellingSaved
  <2> HIDE DEF saved, key
  <2>3. ASSUME NEW q \in ResolvePath(saved, key, TRUE) PROVE q = path /\ q \in DOMAIN saved
    <3>1. q \in Spellings(saved, key)
      BY <1>1, <1>2, FoundIsSpelling
    <3>2. q \in DOMAIN saved /\ Len(q) = Len(key) /\ Follows(q, key)
      BY <3>1 DEF Spellings
    <3>3. q \in Paths /\ \A n \in 1..Len(q) : q[n] = path[n]
      BY <1>3, <2>2, <3>2
    <3> QED
      BY <1>3, <3>2, <3>3, SeqEqual DEF Paths
  <2>4. ASSUME path \in DOMAIN saved PROVE path \in ResolvePath(saved, key, TRUE)
    <3>1. Follows(path, key)
      BY <1>2, <1>3 DEF Follows, KeysEqual
    <3>2. ASSUME NEW n \in 1..Len(key) PROVE FindChild(saved, Prefix(path, n), key[n], TRUE)
      <4> DEFINE here == Prefix(path, n)
      <4>1. /\ here \in Paths /\ Len(here) = n /\ Own(here) = path[n] /\ Follows(here, key)
            /\ n \in 1..3
        <5>1. n \in 1..Len(path) /\ n \in 1..3
          BY <1>2, <1>3, Within
        <5> QED
          BY <1>2, <1>3, <3>1, <5>1, AboveFollows
      <4> HIDE DEF here
      <4>2. Own(here) = <<key[n]>>
        BY <1>3, <4>1
      <4>3. ASSUME ~InCapitals(Own(here)),
                   NEW other \in DOMAIN saved, Len(other) = Len(here), InCapitals(Own(other)),
                   KeysEqual(Own(other), <<key[n]>>, TRUE), Parent(other) = Parent(here)
            PROVE  FALSE
        <5>1. other \in Paths
          BY <1>1 DEF DocumentOK
        <5>2. Follows(other, key)
          BY <1>2, <4>1, <4>3, <5>1, SiblingFollows
        <5>3. Own(other) = <<key[n]>>
          BY <2>2, <4>1, <4>3, <5>2 DEF Own
        <5> QED
          BY <4>2, <4>3, <5>3
      <4>4. FindChild(saved, here, key[n], TRUE)
        BY <4>2, <4>3 DEF FindChild, KeysEqual
      <4> QED
        BY <4>4 DEF here
    <3> QED
      BY <1>2, <1>3, <2>4, <3>2 DEF ResolvePath
  <2>5. ResolvePath(saved, key, TRUE) = {path} \cap DOMAIN saved
    BY <2>3, <2>4
  <2> QED
    BY <2>1, <2>5 DEF saved, key
<1> QED
  BY <1>5, <1>6

\* What a field is parsed to from a file just saved.
LEMMA ParsedBack ==
    ASSUME NEW schema, WellFormed(schema), FieldsAsDeclared(schema, schema),
           NEW settings, SettingsOK(schema, settings), NEW doc, DocumentOK(doc),
           NEW i \in DOMAIN schema.fields,
           schema.fields[i].written \/ DOMAIN schema.fields[i].aliases = {}
    PROVE  Parsed(schema, RenderDocument(schema, settings, doc), i) =
            IF settings[i] = Null \/ ~schema.fields[i].written THEN schema.fields[i].default
            ELSE Clamp(schema.fields[i], settings[i])
<1> DEFINE saved == RenderDocument(schema, settings, doc)
           field == schema.fields[i]
           path == AsPath(field.key)
           leaves == {AsPath(schema.fields[j].key) : j \in Written(schema)}
<1>1. DocumentOK(saved)
  BY RenderedOK DEF SettingsOK
<1>2. field.key \in Seq(Segments) /\ Len(field.key) \in 1..3
  BY FieldsOf
<1>3. path \in Paths /\ Len(path) = Len(field.key) /\ Owned(schema, path)
  <2>1. Len(field.key) \in 0..Len(field.key)
    BY <1>2
  <2> QED
    BY <2>1, RenderedIsOwned, WholeKey
<1>4. ResolvePath(saved, field.key, schema.insensitive) = {path} \cap DOMAIN saved
  BY ResolveSaved
<1>5. CASE field.written
  <2>1. i \in Written(schema) /\ path \in leaves
    BY <1>5 DEF Written
  <2>2. path \in DOMAIN saved
    BY <2>1 DEF RenderDocument
  <2>3. saved[path] = settings[i]
    <3>1. saved[path] = settings[CHOOSE j \in Written(schema) : AsPath(schema.fields[j].key) = path]
      BY <2>1, <2>2 DEF RenderDocument
    <3>2. \A j \in Written(schema) : AsPath(schema.fields[j].key) = path => j = i
      BY LeavesDiffer DEF Written
    <3>3. (CHOOSE j \in Written(schema) : AsPath(schema.fields[j].key) = path) = i
      BY <2>1, <3>2
    <3> QED
      BY <3>1, <3>3
  <2> HIDE DEF saved, path
  <2>4. Source(schema, saved, i) = {path}
    BY <1>4, <2>2 DEF Source
  <2>5. CASE settings[i] \in Numbers
    <3>1. {p \in Source(schema, saved, i) : saved[p] \in Numbers} = {path}
      BY <2>3, <2>4, <2>5
    <3>2. Parsed(schema, saved, i) = Clamp(field, settings[i])
      BY <2>3, <3>1 DEF Parsed
    <3>3. settings[i] # Null
      BY <2>5, VersionsAssumption
    <3> QED
      BY <1>5, <3>2, <3>3 DEF saved
  <2>6. CASE settings[i] = Null
    <3>1. {p \in Source(schema, saved, i) : saved[p] \in Numbers} = {}
      BY <2>3, <2>4, <2>6, VersionsAssumption
    <3>2. Parsed(schema, saved, i) = field.default
      BY <3>1 DEF Parsed
    <3> QED
      BY <2>6, <3>2 DEF saved
  <2> QED
    BY <2>5, <2>6 DEF SettingsOK, Typed
<1>6. CASE ~field.written
  <2>1. path \notin leaves
    BY <1>6, LeavesDiffer DEF Written
  <2>2. path \notin Levels(schema) \ {<<>>}
    <3>1. SUFFICES ASSUME path \in Levels(schema) \ {<<>>} PROVE FALSE
      OBVIOUS
    <3>2. PICK j \in Written(schema) : \E n \in 0..(Len(schema.fields[j].key) - 1) :
            path = AsPath(Prefix(schema.fields[j].key, n))
      BY <3>1 DEF Levels
    <3> QED
      BY <3>2, LeafIsNoLevel DEF Written
  <2>3. path \notin Carry(schema, doc)
    <3>1. SUFFICES ASSUME path \in Carry(schema, doc) PROVE FALSE
      OBVIOUS
    <3>2. PICK root \in DOMAIN doc : ~Claimed(schema, Parent(root), Own(root)) /\ IsPrefix(root, path)
      BY <3>1 DEF Carry
    <3>3. root \in Paths /\ Len(root) \in 1..3
      BY DEF DocumentOK
    <3>4. Len(root) >= 1
      BY <3>3, Positive
    <3> QED
      BY <1>3, <3>2, <3>3, <3>4, OwnedAbove, ClaimedIsOwned
  <2>4. path \notin DOMAIN saved
    BY <2>1, <2>2, <2>3 DEF RenderDocument
  <2> HIDE DEF saved, path
  <2>5. Source(schema, saved, i) = {}
    BY <1>4, <1>6, <2>4 DEF Source
  <2>6. Parsed(schema, saved, i) = field.default
    BY <2>5 DEF Parsed
  <2> QED
    BY <1>6, <2>6 DEF saved
<1> QED
  BY <1>5, <1>6

(***************************************************************************)
(* Whatever the file held, stray members, older names and values of the    *)
(* wrong type included, and however it was spelled, a save leaves one that *)
(* reads back as the settings saved, clamped and with their pairs in order *)
(* (Write.hpp:91-188, Load.hpp:89-140).                                    *)
(***************************************************************************)
THEOREM SavedReadsBackAlways ==
    ASSUME \A v \in Versions : FieldsAsDeclared(SchemaOf[v], SchemaOf[v]), ReadOnlyHasNoAlias
    PROVE  Spec => SavedReadsBack
<1> DEFINE Property == last' = "save" => LoadFields(Schema, file') = Settled(live')
<1>1. TypeOK /\ [Next]_vars => [Property]_vars
  <2> SUFFICES ASSUME TypeOK, Next, last' = "save"
               PROVE  LoadFields(Schema, file') = Settled(live')
    OBVIOUS
  <2>1. /\ WellFormed(Schema) /\ DocumentOK(file) /\ FieldsAsDeclared(Schema, Schema)
        /\ \A i \in DOMAIN Schema.fields :
                Schema.fields[i].written \/ DOMAIN Schema.fields[i].aliases = {}
    BY SaveStep DEF ReadOnlyHasNoAlias, Schema
  <2>2. PICK settings : /\ SettingsOK(Schema, settings) /\ live' = settings
                        /\ file' = RenderDocument(Schema, settings, file)
    BY SaveStep
  <2>3. \A i \in DOMAIN Schema.fields :
            Parsed(Schema, file', i) =
                IF settings[i] = Null \/ ~Schema.fields[i].written THEN Schema.fields[i].default
                ELSE Clamp(Schema.fields[i], settings[i])
    BY <2>1, <2>2, ParsedBack
  <2>4. DOMAIN settings = DOMAIN Schema.fields
    BY <2>2 DEF SettingsOK
  <2>5. [i \in DOMAIN Schema.fields |-> Parsed(Schema, file', i)] =
            [i \in DOMAIN settings |->
                IF settings[i] = Null \/ ~Schema.fields[i].written THEN Schema.fields[i].default
                ELSE Clamp(Schema.fields[i], settings[i])]
    BY <2>3, <2>4
  <2> QED
    BY <2>2, <2>5 DEF LoadFields, Settled
<1>2. SavedReadsBack <=> [][Property]_vars
  BY DEF SavedReadsBack
<1> QED
  BY <1>1, <1>2, VersionsTypeCorrect, PTL DEF Spec
==============================================================================
