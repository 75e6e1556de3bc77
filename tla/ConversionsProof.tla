-------------------------- MODULE ConversionsProof --------------------------
(***************************************************************************)
(* A setting between memory and file, for every width, precision, field    *)
(* and node: that it holds what its type holds and the file what the       *)
(* library holds, that a number loads without a warning only as the number *)
(* in the file, and that what a save writes loads as it was.  And texts of *)
(* any length: that they keep their commas, their quotes and their bytes.  *)
(***************************************************************************)
EXTENDS Conversions, NumbersProof, TextsProof, JsoncProof, FiniteSetTheorems, SequenceTheorems

-----------------------------------------------------------------------------
(* Numbers *)

Ranges == {<<>>} \cup (Doubles \X Doubles)

\* A 64-bit signed integer is finite as a double.
LEMMA Int64Finite ==
    ASSUME NEW w \in Lowest("int64")..Highest("int64") + 1
    PROVE  w \in Int /\ Finite(w)
  BY Sizes DEF Lowest, Highest, Signed, Half, One, Finite

\* What the library wraps is a 64-bit signed integer.
LEMMA WrapFits ==
    ASSUME NEW x \in Int
    PROVE  Wrap(x) \in Lowest("int64")..Highest("int64") + 1
<1> DEFINE half == One * WideHalf
<1>1. half \in Nat \ {0} /\ x + half \in Int /\ 2 * half \in Nat \ {0}
  BY Sizes DEF One
<1>2. (x + half) % (2 * half) \in 0..(2 * half) - 1
  BY <1>1
<1> QED
  BY <1>1, <1>2, Sizes DEF Wrap, Lowest, Highest, Signed, Half, One

\* A number that the library holds is finite, and a double if it has that form.
LEMMA NumeralsFinite ==
    ASSUME NEW n \in Numerals
    PROVE  /\ n.kind = "number" /\ n.number \in Int /\ Finite(n.number)
           /\ \/ n.form = "double" /\ n.number \in Doubles
              \/ n.form = "unsigned" /\ Whole(n.number) /\ n.number \in 0..Highest("uint64")
              \/ n.form = "signed" /\ Whole(n.number) /\ n.number \in Lowest("int64").. -1
<1>1. CASE n \in {Number("double", x) : x \in Doubles}
  BY <1>1, DoublesFinite DEF Number
<1>2. CASE n \in {Number("unsigned", x) : x \in {y \in 0..Highest("uint64") : Whole(y)}}
  <2>1. n.kind = "number" /\ n.form = "unsigned" /\ Whole(n.number) /\ n.number \in 0..Highest("uint64")
    BY <1>2 DEF Number
  <2> QED
    BY <2>1, Sizes DEF Highest, Signed, Half, One, Finite
<1>3. CASE n \in {Number("signed", x) : x \in {y \in Lowest("int64").. -1 : Whole(y)}}
  <2>1. n.kind = "number" /\ n.form = "signed" /\ Whole(n.number) /\ n.number \in Lowest("int64").. -1
    BY <1>3 DEF Number
  <2> QED
    BY <2>1, Sizes DEF Lowest, Highest, Signed, Half, One, Finite
<1> QED
  BY <1>1, <1>2, <1>3 DEF Numerals

\* The numbers a node can be read as, before any of them is an integer.
NumberNode(n) ==
    /\ n.kind = "number" => n \in Numerals
    /\ n.kind = "string" => n.tokens \in Seq(Tokens)

\* What a node is read as for a floating type is a double.
LEMMA CoerceDoubleDoubles ==
    ASSUME NEW n, NumberNode(n)
    PROVE  CoerceDouble(n) \subseteq Doubles
<1>1. AsDouble(n) \subseteq Doubles
  BY NumeralsFinite, DoubleIsDouble DEF AsDouble, NumberNode
<1>2. ParseNumber(n) \subseteq Doubles
  BY DoubleIsDouble DEF ParseNumber
<1> QED
  BY <1>1, <1>2 DEF CoerceDouble

\* What a node is read as for an integer is finite: the number of the file, or a
\* cast that is inside 64 bits.
LEMMA CoerceInt64Fits ==
    ASSUME NEW n, NumberNode(n), NEW w \in CoerceInt64(n)
    PROVE  w \in Int /\ Finite(w)
<1>1. CASE w \in AsInt64(n)
  BY <1>1, NumeralsFinite, WrapFits, Int64Finite DEF AsInt64, NumberNode
<1>2. CASE w \notin AsInt64(n)
  <2>1. PICK x : w \in ToInt64(x)
    BY <1>2 DEF CoerceInt64
  <2>2. w \in Lowest("int64")..Highest("int64")
    BY <2>1, CastFits
  <2>3. Lowest("int64") \in Int /\ Highest("int64") \in Int
    BY Limits DEF IntegerTypes
  <2>4. w \in Lowest("int64")..Highest("int64") + 1
    BY <2>2, <2>3
  <2> QED
    BY <2>4, Int64Finite
<1> QED
  BY <1>1, <1>2

\* The type's own limits are applied to a double.
LEMMA ClampedDoubles ==
    ASSUME NEW type, NEW n, NumberNode(n)
    PROVE  Clamped(type, n) \subseteq Doubles
  BY CoerceDoubleDoubles, CoerceInt64Fits, DoubleIsDouble DEF Clamped

\* A range of doubles clamps a double to a double, and leaves one in it alone.
LEMMA ClampDouble ==
    ASSUME NEW range \in Ranges, NEW x \in Doubles
    PROVE  Clamp(range, x) \in Doubles /\ (~Outside(range, x) => Clamp(range, x) = x)
  BY DEF Clamp, Outside, Ranges

\* An integer that is read is whole.
LEMMA IntegersWhole ==
    ASSUME NEW type \in IntegerTypes, NEW range \in Ranges, NEW n, NumberNode(n),
           NEW v \in ReadInteger(type, range, n)
    PROVE  Whole(v)
<1>1. PICK x \in Clamped(type, n) : v \in ToInt64(Clamp(range, x))
  BY DEF ReadInteger
<1>2. Clamp(range, x) \in Int
  BY <1>1, ClampedDoubles, ClampDouble, DoublesFinite
<1>3. Whole(Trunc(Clamp(range, x)))
  BY <1>2, TruncWhole
<1>4. Whole(Lowest("int64")) /\ Whole(Highest("int64"))
  BY Sizes DEF Lowest, Highest, Signed, Half, Whole, One
<1> QED
  BY <1>1, <1>3, <1>4 DEF ToInt64

(***************************************************************************)
(* A number that is read is one that its type holds: whole and within the  *)
(* limits, a double within the largest, or what a float holds              *)
(* (Traits.hpp:64-122).                                                    *)
(***************************************************************************)
THEOREM NumbersHold ==
    ASSUME NEW type \in IntegerTypes \cup FloatingTypes, NEW range \in Ranges,
           NEW n, NumberNode(n), NEW v \in ReadNumber(type, range, n)
    PROVE  Holds(type, v)
<1>1. CASE type \in IntegerTypes
  <2>1. v \in ReadInteger(type, range, n)
    BY <1>1 DEF ReadNumber
  <2>2. Whole(v)
    BY <1>1, <2>1, IntegersWhole
  <2>3. v \in Lowest(type)..Highest(type)
    BY <1>1, <2>1, IntegersFit
  <2> QED
    BY <1>1, <2>2, <2>3 DEF Holds, IntegerTypes
<1>2. CASE type \notin IntegerTypes
  <2>1. PICK x \in Clamped(type, n) :
            v = IF type = "float" THEN Float(Clamp(range, x)) ELSE Clamp(range, x)
    BY <1>2 DEF ReadNumber
  <2>2. Clamp(range, x) \in Doubles
    BY <2>1, ClampedDoubles, ClampDouble
  <2>3. CASE type = "float"
    <3>1. v \in {Infinity, -Infinity} \/ (Finite(v) /\ Float(v) = v)
      BY <2>1, <2>2, <2>3, DoublesFinite, FloatHolds
    <3> QED
      BY <2>3, <3>1 DEF Holds, IntegerTypes
  <2>4. CASE type = "double"
    BY <2>1, <2>2, <2>4 DEF Holds, IntegerTypes
  <2> QED
    BY <1>2, <2>3, <2>4 DEF FloatingTypes
<1> QED
  BY <1>1, <1>2

-----------------------------------------------------------------------------
(* What is read *)

\* The shape of the nodes, by their kind.
LEMMA NodeShapes ==
    ASSUME NEW n \in Nodes
    PROVE  /\ NumberNode(n)
           /\ n.kind = "bool" => n.bool \in BOOLEAN
           /\ n.kind = "list" => n.items \in Seq(ScalarNodes)
<1>1. CASE n \in NoNode
  <2>1. n = Null => n.kind = "null"
    BY DEF Null
  <2>2. n = NotJson => n.kind = "invalid"
    BY DEF NotJson
  <2>3. n = [kind |-> "object"] => n.kind = "object"
    OBVIOUS
  <2>4. n = Null \/ n = NotJson \/ n = [kind |-> "object"]
    BY <1>1 DEF NoNode
  <2> QED
    BY <2>1, <2>2, <2>3, <2>4 DEF NumberNode
<1>2. CASE n \in [kind : {"bool"}, bool : BOOLEAN]
  BY <1>2 DEF NumberNode
<1>3. CASE n \in Numerals
  BY <1>3, NumeralsFinite DEF NumberNode
<1>4. CASE n \in [kind : {"string"}, tokens : Seq(Tokens)]
  BY <1>4 DEF NumberNode
<1>5. CASE n \in [kind : {"list"}, items : Seq(ScalarNodes)]
  BY <1>5 DEF NumberNode
<1> QED
  BY <1>1, <1>2, <1>3, <1>4, <1>5 DEF Nodes, ScalarNodes

\* One token is a text.
LEMMA OneToken == \A t \in Tokens : <<t>> \in Seq(Tokens)
  OBVIOUS

\* A bool reads as true or false from whatever node.
LEMMA ReadBoolHolds ==
    ASSUME NEW n \in Nodes, NEW v \in CoerceBool(n)
    PROVE  v \in BOOLEAN
<1>1. CASE n.kind = "bool"
  <2>1. v = n.bool
    BY <1>1 DEF CoerceBool
  <2> QED
    BY <1>1, <2>1, NodeShapes
<1>2. CASE n.kind # "bool"
  <2>1. v \in {TRUE : w \in WordOf(n) \cap TrueWords} \cup {FALSE : w \in WordOf(n) \cap FalseWords}
              \cup {x # 0 : x \in CoerceDouble(n)}
    BY <1>2 DEF CoerceBool
  <2>2. CASE v \in {x # 0 : x \in CoerceDouble(n)}
    BY <2>2
  <2>3. CASE v \notin {x # 0 : x \in CoerceDouble(n)}
    BY <2>1, <2>3
  <2> QED
    BY <2>2, <2>3
<1> QED
  BY <1>1, <1>2

\* A string reads as tokens: its own, or those of the number or bool that stands
\* in its place.
LEMMA ReadTextHolds ==
    ASSUME NEW n \in Nodes, NEW v \in CoerceUtf8(n)
    PROVE  v \in Seq(Tokens)
<1>1. CASE n.kind = "string"
  BY <1>1, NodeShapes DEF CoerceUtf8, NumberNode
<1>2. CASE n.kind = "bool"
  <2>1. v = <<Word(IF n.bool THEN "true" ELSE "false")>>
    BY <1>2 DEF CoerceUtf8
  <2>2. Word(IF n.bool THEN "true" ELSE "false") \in Tokens
    <3>1. Word("true") \in Tokens /\ Word("false") \in Tokens
      BY SettingsAssumption DEF Word, Tokens
    <3> QED
      BY <3>1
  <2> QED
    BY <2>1, <2>2, OneToken
<1>3. CASE n.kind \notin {"string", "bool"}
  <2>1. PICK x \in AsInt64(n) \cup AsDouble(n) : v = <<Digits(x)>>
    BY <1>3 DEF CoerceUtf8
  <2>2. AsDouble(n) \subseteq CoerceDouble(n) /\ AsInt64(n) \subseteq CoerceInt64(n)
    BY DEF CoerceDouble, CoerceInt64
  <2>3. x \in Int
    BY <2>1, <2>2, NodeShapes, CoerceDoubleDoubles, CoerceInt64Fits, DoublesFinite
  <2>4. Digits(x) \in Tokens
    BY <2>3 DEF Digits, Tokens
  <2> QED
    BY <2>1, <2>4, OneToken
<1> QED
  BY <1>1, <1>2, <1>3

\* A scalar that is read is one that its type holds.
LEMMA ReadScalarHolds ==
    ASSUME NEW type \in ScalarTypes, NEW range \in Ranges, NEW n \in Nodes,
           NEW v \in ReadScalar(type, range, n)
    PROVE  Holds(type, v)
<1>1. CASE type = "bool"
  <2>1. v \in BOOLEAN
    BY <1>1, ReadBoolHolds DEF ReadScalar
  <2> QED
    BY <1>1, <2>1 DEF Holds, IntegerTypes
<1>2. CASE type = "string"
  <2>1. v \in Seq(Tokens)
    BY <1>2, ReadTextHolds DEF ReadScalar
  <2> QED
    BY <1>2, <2>1 DEF Holds, IntegerTypes
<1>3. CASE type = "enum"
  <2>1. PICK w \in DOMAIN EnumNames : v = EnumNames[w]
    BY <1>3 DEF ReadScalar, ReadEnum
  <2> QED
    BY <1>3, <2>1, SettingsAssumption
<1>4. CASE type \in IntegerTypes \cup FloatingTypes
  <2>1. v \in ReadNumber(type, range, n)
    BY <1>4 DEF ReadScalar, IntegerTypes, FloatingTypes
  <2> QED
    BY <1>4, <2>1, NodeShapes, NumbersHold
<1> QED
  BY <1>1, <1>2, <1>3, <1>4 DEF ScalarTypes

\* The readings of an element, and what reading one element after the other gives.
Readings(f, n, k) == ReadScalar(f.element, f.range, Elements(n)[k])

ElementsRead(f, n, read) ==
    /\ read[0] = <<>>
    /\ \A k \in Nat : read[k + 1] =
            IF Readings(f, n, k + 1) = {} THEN read[k]
            ELSE Append(read[k], CHOOSE v \in Readings(f, n, k + 1) : TRUE)
    /\ ReadElements(f, n) = read[Len(Elements(n))]

\* Reading one element after the other is a function on the numbers of elements.
LEMMA ReadElementsExists ==
    ASSUME NEW f, NEW n, Len(Elements(n)) \in Nat
    PROVE  \E read : ElementsRead(f, n, read)
<1> DEFINE U == UNION {Readings(f, n, k) : k \in Nat}
           V == Seq(U)
           First(k) == CHOOSE v \in Readings(f, n, k) : TRUE
           step == [k \in Nat |-> [s \in V |-> IF Readings(f, n, k + 1) = {} THEN s
                                               ELSE Append(s, First(k + 1))]]
           start == <<>>
           Is(r) == r = [k \in Nat |-> IF k = 0 THEN <<>>
                            ELSE IF Readings(f, n, k) = {} THEN r[k - 1]
                            ELSE Append(r[k - 1], First(k))]
<1>1. start \in V
  OBVIOUS
<1>2. ASSUME NEW k \in Nat, Readings(f, n, k) # {} PROVE First(k) \in U
  BY <1>2
<1>3. step \in [Nat -> [V -> V]]
  <2> HIDE DEF U, First
  <2>1. ASSUME NEW k \in Nat, NEW s \in V
        PROVE  (IF Readings(f, n, k + 1) = {} THEN s ELSE Append(s, First(k + 1))) \in V
    <3>1. CASE Readings(f, n, k + 1) = {}
      BY <3>1
    <3>2. CASE Readings(f, n, k + 1) # {}
      <4>1. First(k + 1) \in U
        BY <1>2, <3>2
      <4> QED
        BY <3>2, <4>1
    <3> QED
      BY <3>1, <3>2
  <2> QED
    BY <2>1
<1> HIDE DEF start, step, U, V, First
<1>4. PICK r : IsIteration(r, V, start, step)
  BY <1>1, <1>3, Iterates
<1>5. r \in [Nat -> V] /\ r[0] = <<>> /\ \A k \in Nat : r[k + 1] = step[k][r[k]]
  BY <1>4 DEF IsIteration, start
<1>6. ASSUME NEW k \in Nat
      PROVE  r[k] = IF k = 0 THEN <<>> ELSE IF Readings(f, n, k) = {} THEN r[k - 1]
                    ELSE Append(r[k - 1], First(k))
  <2>1. CASE k = 0
    BY <1>5, <2>1
  <2>2. CASE k # 0
    <3>1. k - 1 \in Nat /\ (k - 1) + 1 = k
      BY <2>2
    <3>2. r[k] = step[k - 1][r[k - 1]] /\ r[k - 1] \in V
      BY <1>5, <3>1
    <3> QED
      BY <2>2, <3>1, <3>2 DEF step
  <2> QED
    BY <2>1, <2>2
<1>7. Is(r)
  BY <1>5, <1>6
<1> DEFINE read == CHOOSE s : Is(s)
<1>8. Is(read)
  BY <1>7
<1>9. ReadElements(f, n) = read[Len(Elements(n))]
  BY DEF ReadElements, Readings, First
<1> HIDE DEF read
<1>10. ASSUME NEW k \in Nat
      PROVE  read[k] = IF k = 0 THEN <<>> ELSE IF Readings(f, n, k) = {} THEN read[k - 1]
                    ELSE Append(read[k - 1], First(k))
  BY <1>8
<1>11. read[0] = <<>>
  BY <1>10
<1>12. ASSUME NEW k \in Nat
       PROVE read[k + 1] = IF Readings(f, n, k + 1) = {} THEN read[k]
                           ELSE Append(read[k], First(k + 1))
  <2>1. k + 1 \in Nat /\ k + 1 # 0 /\ (k + 1) - 1 = k
    OBVIOUS
  <2> QED
    BY <1>10, <2>1
<1>13. ElementsRead(f, n, read)
  BY <1>9, <1>11, <1>12 DEF ElementsRead, First
<1> QED
  BY <1>13

\* The elements of a node are nodes.
LEMMA ElementsAreNodes ==
    ASSUME NEW n \in Nodes
    PROVE  Elements(n) \in Seq(ScalarNodes)
<1>1. CASE n.kind = "string"
  <2>1. n.tokens \in Seq(Tokens)
    BY <1>1, NodeShapes DEF NumberNode
  <2>2. ASSUME NEW k \in DOMAIN n.tokens PROVE String(<<n.tokens[k]>>) \in ScalarNodes
    <3>1. n.tokens[k] \in Tokens
      BY <2>1
    <3>2. <<n.tokens[k]>> \in Seq(Tokens)
      BY <3>1, OneToken
    <3> QED
      BY <3>2 DEF String, ScalarNodes
  <2>3. DOMAIN n.tokens = 1..Len(n.tokens) /\ Len(n.tokens) \in Nat
    BY <2>1
  <2>4. Elements(n) = [k \in DOMAIN n.tokens |-> String(<<n.tokens[k]>>)]
    BY <1>1 DEF Elements
  <2> QED
    BY <2>2, <2>3, <2>4
<1>2. CASE n.kind = "list"
  BY <1>2, NodeShapes DEF Elements
<1>3. CASE n.kind \notin {"string", "list"}
  BY <1>3 DEF Elements
<1> QED
  BY <1>1, <1>2, <1>3

\* What the schemas are: the type, element, range, default and offered values of a
\* field fit each other.
LEMMA FieldShape ==
    ASSUME NEW f \in Fields
    PROVE  /\ f.type \in ScalarTypes \cup Lists \cup {"optional"} /\ f.element \in ScalarTypes
           /\ f.range \in Ranges
           /\ FieldHolds(f, f.default)
           /\ \A v \in SetValues[f.type] : FieldHolds(f, v)
  BY SettingsAssumption DEF Ranges

\* A scalar node is a node.
LEMMA ScalarsAreNodes == ScalarNodes \subseteq Nodes
  BY DEF Nodes

\* What reading the elements gives is a sequence, and the type of an element
\* holds each of its members.
LEMMA ReadElementsHold ==
    ASSUME NEW f \in Fields, NEW n \in Nodes
    PROVE  \E H : ReadElements(f, n) \in Seq(H) /\ \A v \in H : Holds(f.element, v)
<1> DEFINE H == UNION {Readings(f, n, k) : k \in 1..Len(Elements(n))}
<1>1. Elements(n) \in Seq(ScalarNodes) /\ Len(Elements(n)) \in Nat
  BY ElementsAreNodes
<1>2. ASSUME NEW k \in 1..Len(Elements(n)), NEW v \in Readings(f, n, k)
      PROVE  v \in H /\ Holds(f.element, v)
  <2>1. Elements(n)[k] \in Nodes
    BY <1>1, ScalarsAreNodes
  <2>2. Holds(f.element, v)
    BY <2>1, FieldShape, ReadScalarHolds DEF Readings
  <2> QED
    BY <2>2
<1>3. \A v \in H : Holds(f.element, v)
  BY <1>2
<1> HIDE DEF H
<1>4. PICK read : ElementsRead(f, n, read)
  BY <1>1, ReadElementsExists
<1> DEFINE S == {k \in Nat : k <= Len(Elements(n)) => read[k] \in Seq(H)}
<1>5. 0 \in S
  <2>1. read[0] = <<>> /\ <<>> \in Seq(H)
    BY <1>4 DEF ElementsRead
  <2> QED
    BY <2>1
<1>6. ASSUME NEW k \in Nat, k \in S PROVE k + 1 \in S
  <2>1. SUFFICES ASSUME k + 1 <= Len(Elements(n)) PROVE read[k + 1] \in Seq(H)
    OBVIOUS
  <2>2. read[k] \in Seq(H) /\ k + 1 \in 1..Len(Elements(n))
    BY <1>1, <1>6, <2>1
  <2>3. CASE Readings(f, n, k + 1) = {}
    BY <1>4, <2>2, <2>3 DEF ElementsRead
  <2>4. CASE Readings(f, n, k + 1) # {}
    <3>1. (CHOOSE v \in Readings(f, n, k + 1) : TRUE) \in H
      BY <1>2, <2>2, <2>4
    <3>2. read[k + 1] = Append(read[k], CHOOSE v \in Readings(f, n, k + 1) : TRUE)
      BY <1>4, <2>4 DEF ElementsRead
    <3> QED
      BY <2>2, <3>1, <3>2, AppendProperties
  <2> QED
    BY <2>3, <2>4
<1> HIDE DEF S
<1>7. Nat \subseteq S
  BY <1>5, <1>6, NatSetInduction
<1>8. read[Len(Elements(n))] \in Seq(H)
  BY <1>1, <1>7 DEF S
<1> QED
  BY <1>3, <1>4, <1>8 DEF ElementsRead

\* The members of a sequence are finitely many, and among those it is made of.
LEMMA MembersOf ==
    ASSUME NEW H, NEW s \in Seq(H)
    PROVE  /\ ToSet(s) \subseteq H
           /\ s \in Seq(ToSet(s))
           /\ IsFiniteSet(ToSet(s))
<1>1. DOMAIN s = 1..Len(s) /\ Len(s) \in Nat /\ s \in [1..Len(s) -> H]
  OBVIOUS
<1>2. ToSet(s) \subseteq H /\ \A k \in 1..Len(s) : s[k] \in ToSet(s)
  BY <1>1 DEF ToSet
<1>3. s \in [1..Len(s) -> ToSet(s)]
  BY <1>1, <1>2
<1>4. s \in Seq(ToSet(s))
  BY <1>1, <1>3
<1>5. s \in Surjection(1..Len(s), ToSet(s))
  BY <1>1, <1>3 DEF Surjection, ToSet
<1>6. IsFiniteSet(ToSet(s))
  <2> DEFINE T == ToSet(s)
  <2>1. ExistsSurjection(1..Len(s), T)
    BY <1>5 DEF ExistsSurjection
  <2> HIDE DEF T
  <2>2. \E n \in Nat : ExistsSurjection(1..n, T)
    BY <1>1, <2>1
  <2>3. IsFiniteSet(T)
    BY <2>2, FS_NatSurjection
  <2> QED
    BY <2>3 DEF T
<1> QED
  BY <1>2, <1>4, <1>6

\* What holds of a list and of a set.
LEMMA ListHolds ==
    ASSUME NEW f, f.type \in Lists, NEW v
    PROVE  FieldHolds(f, v) <=>
                /\ IF f.type = "set" THEN IsFiniteSet(v) ELSE v \in Seq(Members(f, v))
                /\ \A w \in Members(f, v) : Holds(f.element, w)
<1>1. f.type \in Lists /\ f.type # "optional"
  BY DEF Lists
<1> QED
  BY <1>1 DEF FieldHolds

(***************************************************************************)
(* Whatever the file holds for a field, what Read makes of it is a value   *)
(* of the field's type (Traits.hpp, all specialisations of ValueTraits).   *)
(***************************************************************************)
THEOREM ReadHolds ==
    ASSUME NEW f \in Fields, NEW n \in Nodes, NEW v \in Read(f, n)
    PROVE  FieldHolds(f, v)
<1>1. CASE f.type \in Lists
  <2>1. v \in ReadList(f, n)
    BY <1>1 DEF Read, Lists
  <2>2. v = f.default \/ v = Collected(f, ReadElements(f, n))
    BY <2>1 DEF ReadList
  <2>3. CASE v = f.default
    BY <2>3, FieldShape
  <2>4. CASE v = Collected(f, ReadElements(f, n))
    <3>1. PICK H : ReadElements(f, n) \in Seq(H) /\ \A w \in H : Holds(f.element, w)
      BY ReadElementsHold
    <3> DEFINE s == ReadElements(f, n)
    <3>2. ToSet(s) \subseteq H /\ s \in Seq(ToSet(s)) /\ IsFiniteSet(ToSet(s))
      BY <3>1, MembersOf
    <3>3. \A w \in ToSet(s) : Holds(f.element, w)
      BY <3>1, <3>2
    <3> HIDE DEF s
    <3>4. v = IF f.type = "set" THEN ToSet(s) ELSE s
      BY <2>4 DEF Collected, s
    <3>5. Members(f, v) = ToSet(s)
      BY <3>4 DEF Members
    <3>6. IF f.type = "set" THEN IsFiniteSet(v) ELSE v \in Seq(Members(f, v))
      BY <3>2, <3>4, <3>5
    <3> QED
      BY <1>1, <3>3, <3>5, <3>6, ListHolds
  <2> QED
    BY <2>2, <2>3, <2>4
<1>2. CASE f.type = "optional"
  <2>1. v \in ReadScalar(f.element, f.range, n)
    BY <1>2 DEF Read, Lists
  <2>2. Holds(f.element, v)
    BY <2>1, FieldShape, ReadScalarHolds
  <2> QED
    BY <1>2, <2>2 DEF FieldHolds, Lists
<1>3. CASE f.type \in ScalarTypes
  <2>1. f.type \notin Lists /\ f.type # "optional"
    BY <1>3 DEF ScalarTypes, IntegerTypes, FloatingTypes, Lists
  <2>2. v \in ReadScalar(f.type, f.range, n)
    BY <2>1 DEF Read
  <2>3. Holds(f.type, v)
    BY <1>3, <2>2, FieldShape, ReadScalarHolds
  <2> QED
    BY <2>1, <2>3 DEF FieldHolds
<1> QED
  BY <1>1, <1>2, <1>3, FieldShape

-----------------------------------------------------------------------------
(* What is written *)

\* The values of the integral types are finite as doubles.
LEMMA LimitsFinite ==
    ASSUME NEW type \in IntegerTypes, NEW v \in Lowest(type)..Highest(type)
    PROVE  v \in Int /\ Finite(v)
<1>1. -(2 * WideHalf) <= Lowest(type) /\ Highest(type) <= 4 * WideHalf
      /\ Lowest(type) \in Int /\ Highest(type) \in Int
  BY Sizes DEF IntegerTypes, Lowest, Highest, Signed, Half, One
<1>2. v \in Int /\ Lowest(type) <= v /\ v <= Highest(type)
  BY <1>1
<1>3. -DoubleMax <= -(2 * WideHalf) /\ 4 * WideHalf <= DoubleMax
      /\ WideHalf \in Int /\ DoubleMax \in Int
  BY Sizes
<1>4. -DoubleMax <= v /\ v <= DoubleMax
  BY <1>1, <1>2, <1>3
<1> QED
  BY <1>2, <1>3, <1>4 DEF Finite

\* What the library makes of a finite literal is a number it can hold.
LEMMA ParsedNumeral ==
    ASSUME NEW literal, Finite(literal.number)
    PROVE  ParseLiteral(literal) \in Numerals
<1> DEFINE x == literal.number
<1>1. x \in Int /\ Double(x) \in Doubles
  BY DoubleIsDouble, Sizes DEF Finite
<1>2. Number("double", Double(x)) \in Numerals
  BY <1>1 DEF Numerals
<1>3. ASSUME Whole(x), x >= 0 /\ x <= Highest("uint64") PROVE Number("unsigned", x) \in Numerals
  <2>1. Highest("uint64") \in Int
    BY Limits DEF IntegerTypes
  <2>2. x \in {y \in 0..Highest("uint64") : Whole(y)}
    BY <1>1, <1>3, <2>1
  <2> QED
    BY <2>2 DEF Numerals
<1>4. ASSUME Whole(x), x < 0 /\ x >= Lowest("int64") PROVE Number("signed", x) \in Numerals
  <2>1. Lowest("int64") \in Int
    BY Limits DEF IntegerTypes
  <2>2. x \in {y \in Lowest("int64").. -1 : Whole(y)}
    BY <1>1, <1>4, <2>1
  <2> QED
    BY <2>2 DEF Numerals
<1> HIDE DEF x
<1>5. ParseLiteral(literal) \in
        {Number("double", Double(x))}
        \cup {Number("unsigned", y) : y \in {z \in {x} : Whole(z) /\ z >= 0 /\ z <= Highest("uint64")}}
        \cup {Number("signed", y) : y \in {z \in {x} : Whole(z) /\ z < 0 /\ z >= Lowest("int64")}}
  BY DEF ParseLiteral, x
<1> QED
  BY <1>2, <1>3, <1>4, <1>5

\* The decimal of a finite float is finite and nearest to that float, and is written
\* as the double nearest to it.
LEMMA FloatWritten ==
    ASSUME NEW v, Holds("float", v), Finite(v)
    PROVE  /\ v \in Int /\ Float(v) = v
           /\ Finite(FloatDecimal[v]) /\ Float(FloatDecimal[v]) = v
           /\ Reread("float", v) = Double(FloatDecimal[v]) /\ Reread("float", v) \in Doubles
           /\ AppendJsonFloat(v) = Number("double", Reread("float", v))
<1>1. v \in -DoubleMax..DoubleMax /\ v \in Int
  BY Sizes DEF Finite
<1>2. Float(v) = v
  <2>1. v \notin {Infinity, -Infinity}
    BY Sizes DEF Finite, Infinity
  <2> QED
    BY <2>1 DEF Holds, IntegerTypes
<1>3. v \in Floats
  BY <1>1, <1>2 DEF Floats
<1>4. Finite(FloatDecimal[v]) /\ Float(FloatDecimal[v]) = v
  BY <1>3, DecimalsAssumption
<1>5. Reread("float", v) = Double(FloatDecimal[v])
  BY DEF Reread
<1>6. Reread("float", v) \in Doubles
  BY <1>4, <1>5, DoubleIsDouble
<1>7. AppendJsonFloat(v) = Number("double", Reread("float", v))
  <2> DEFINE literal == [number |-> FloatDecimal[v], fractional |-> TRUE]
  <2>1. literal.number = FloatDecimal[v] /\ literal.fractional = TRUE
    OBVIOUS
  <2>2. AppendJsonFloat(v) = ParseLiteral(literal)
    BY DEF AppendJsonFloat
  <2> HIDE DEF literal
  <2> QED
    BY <1>5, <2>1, <2>2 DEF ParseLiteral
<1> QED
  BY <1>1, <1>2, <1>4, <1>5, <1>6, <1>7

\* A number is written as a node that an element of a list can be.
LEMMA WrittenNumber ==
    ASSUME NEW type \in IntegerTypes \cup FloatingTypes, NEW v, Holds(type, v)
    PROVE  WriteNumber(type, v) \in ScalarNodes
<1>1. ASSUME NEW x, NEW fractional PROVE AppendJsonNumber(x, fractional) \in ScalarNodes
  <2>1. CASE Finite(x)
    <3> DEFINE literal == [number |-> x, fractional |-> fractional \/ x \in Exponential]
    <3>1. Finite(literal.number)
      BY <2>1
    <3>2. AppendJsonNumber(x, fractional) = ParseLiteral(literal)
      BY <2>1 DEF AppendJsonNumber
    <3> HIDE DEF literal
    <3> QED
      BY <3>1, <3>2, ParsedNumeral DEF ScalarNodes
  <2>2. CASE ~Finite(x)
    BY <2>2 DEF AppendJsonNumber, ScalarNodes, NoNode
  <2> QED
    BY <2>1, <2>2
<1>2. CASE type = "float"
  <2>1. WriteNumber(type, v) = AppendJsonFloat(v)
    BY <1>2 DEF WriteNumber, IntegerTypes
  <2>2. CASE Finite(v)
    <3>1. AppendJsonFloat(v) \in Numerals
      BY <1>2, <2>2, FloatWritten DEF Numerals
    <3> QED
      BY <2>1, <3>1 DEF ScalarNodes
  <2>3. CASE ~Finite(v)
    BY <2>1, <2>3 DEF AppendJsonFloat, ScalarNodes, NoNode
  <2> QED
    BY <2>2, <2>3
<1>3. CASE type # "float"
  <2>1. WriteNumber(type, v) \in {AppendJsonNumber(Double(v), FALSE), AppendJsonNumber(v, TRUE)}
    BY <1>3 DEF WriteNumber
  <2> QED
    BY <1>1, <2>1
<1> QED
  BY <1>2, <1>3

\* What is written for a scalar is a node.
LEMMA WrittenScalar ==
    ASSUME NEW type \in ScalarTypes, NEW v, Holds(type, v)
    PROVE  WriteScalar(type, v) \in ScalarNodes
<1>1. CASE type = "bool"
  <2>1. v \in BOOLEAN
    BY <1>1 DEF Holds, IntegerTypes
  <2> QED
    BY <1>1, <2>1 DEF WriteScalar, Bool, ScalarNodes
<1>2. CASE type = "string"
  <2>1. v \in Seq(Tokens)
    BY <1>2 DEF Holds, IntegerTypes
  <2> QED
    BY <1>2, <2>1 DEF WriteScalar, String, ScalarNodes
<1>3. CASE type = "enum"
  <2>1. WriteScalar(type, v) = WriteEnum(v)
    BY <1>3 DEF WriteScalar
  <2> DEFINE names == {w \in DOMAIN EnumNames : EnumNames[w] = v}
  <2>2. CASE names = {}
    <3>1. WriteEnum(v) = AppendJsonNumber(Double(v), FALSE)
      BY <2>2 DEF WriteEnum
    <3>2. Whole(v) /\ v \in Lowest("int64")..Highest("int64")
      BY <1>3 DEF Holds, IntegerTypes
    <3>3. Finite(Double(v))
      BY <3>2, LimitsFinite, DoubleIsDouble, DoublesFinite DEF IntegerTypes
    <3> DEFINE literal == [number |-> Double(v), fractional |-> FALSE \/ Double(v) \in Exponential]
    <3>4. AppendJsonNumber(Double(v), FALSE) = ParseLiteral(literal) /\ Finite(literal.number)
      BY <3>3 DEF AppendJsonNumber
    <3> HIDE DEF literal
    <3> QED
      BY <2>1, <3>1, <3>4, ParsedNumeral DEF ScalarNodes
  <2>3. CASE names # {}
    <3> DEFINE name == CHOOSE w \in names : TRUE
    <3>1. name \in names
      BY <2>3
    <3>2. WriteEnum(v) = String(<<Word(name)>>)
      BY <2>3 DEF WriteEnum
    <3> HIDE DEF name
    <3>3. Word(name) \in Tokens
      BY <3>1, SettingsAssumption DEF Word, Tokens
    <3>4. <<Word(name)>> \in Seq(Tokens)
      BY <3>3, OneToken
    <3> QED
      BY <2>1, <3>2, <3>4 DEF String, ScalarNodes
  <2> QED
    BY <2>2, <2>3
<1>4. CASE type \in IntegerTypes \cup FloatingTypes
  <2>1. WriteScalar(type, v) = WriteNumber(type, v)
    BY <1>4 DEF WriteScalar, IntegerTypes, FloatingTypes
  <2> QED
    BY <1>4, <2>1, WrittenNumber
<1> QED
  BY <1>1, <1>2, <1>3, <1>4 DEF ScalarTypes

\* A finite set in the order of a sequence.
LEMMA SetInOrder ==
    ASSUME NEW S, IsFiniteSet(S)
    PROVE  SetToSeq(S) \in Seq(S) /\ ToSet(SetToSeq(S)) = S
<1>1. Cardinality(S) \in Nat /\ ExistsBijection(1..Cardinality(S), S)
  BY FS_CardinalityType
<1>2. PICK b : b \in Bijection(1..Cardinality(S), S)
  BY <1>1 DEF ExistsBijection
<1>3. b \in [1..Cardinality(S) -> S] /\ IsInjective(b)
  BY <1>2 DEF Bijection, Injection
<1>4. SetToSeq(S) \in [1..Cardinality(S) -> S] /\ IsInjective(SetToSeq(S))
  BY <1>3 DEF SetToSeq
<1> DEFINE s == SetToSeq(S)
           I == 1..Cardinality(S)
<1>5. s \in Injection(I, S)
  BY <1>4 DEF Injection
<1>6. IsFiniteSet(I) /\ Cardinality(I) = Cardinality(S)
  BY <1>1, FS_Interval
<1>7. s \in Surjection(I, S)
  BY <1>5, <1>6, FS_Injection
<1>8. s \in Seq(S)
  BY <1>1, <1>4
<1>9. DOMAIN s = I /\ \A x \in S : \E i \in I : s[i] = x
  BY <1>4, <1>7 DEF Surjection
<1> QED
  BY <1>4, <1>8, <1>9 DEF ToSet

\* The elements in the order they are written.
InOrder(f, v) == IF f.type = "set" THEN SetToSeq(v) ELSE v

\* A list, and a set put in order, is written with exactly its members.
LEMMA InOrderOf ==
    ASSUME NEW f, f.type \in Lists, NEW v, FieldHolds(f, v)
    PROVE  InOrder(f, v) \in Seq(Members(f, v)) /\ ToSet(InOrder(f, v)) = Members(f, v)
<1>1. CASE f.type = "set"
  BY <1>1, ListHolds, SetInOrder DEF InOrder, Members
<1>2. CASE f.type # "set"
  BY <1>2, ListHolds DEF InOrder, Members
<1> QED
  BY <1>1, <1>2

(***************************************************************************)
(* Whatever the struct holds for a field, what Write makes of it is text   *)
(* that the library can hold, or no JSON at all (Write.cpp:21-33).         *)
(***************************************************************************)
THEOREM WrittenIsNode ==
    ASSUME NEW f \in Fields, NEW v, FieldHolds(f, v)
    PROVE  Write(f, v) \in Nodes
<1>1. CASE f.type \in Lists
  <2> DEFINE elements == InOrder(f, v)
             items == [k \in DOMAIN elements |-> WriteScalar(f.element, elements[k])]
  <2>1. elements \in Seq(Members(f, v)) /\ \A w \in Members(f, v) : Holds(f.element, w)
    BY <1>1, InOrderOf, ListHolds
  <2>2. DOMAIN elements = 1..Len(elements) /\ Len(elements) \in Nat
        /\ \A k \in DOMAIN elements : elements[k] \in Members(f, v)
    BY <2>1
  <2>3. \A k \in DOMAIN elements : WriteScalar(f.element, elements[k]) \in ScalarNodes
    BY <2>1, <2>2, FieldShape, WrittenScalar
  <2>4. items \in Seq(ScalarNodes)
    BY <2>2, <2>3
  <2>5. Write(f, v) = IF \E k \in DOMAIN items : items[k] = NotJson THEN NotJson ELSE List(items)
    BY <1>1 DEF Write, WriteElements, InOrder, Lists
  <2> HIDE DEF items
  <2>6. List(items) \in Nodes
    BY <2>4 DEF List, Nodes
  <2>7. NotJson \in Nodes
    BY DEF Nodes, ScalarNodes, NoNode
  <2> QED
    BY <2>5, <2>6, <2>7
<1>2. CASE f.type = "optional"
  <2>1. v = Unset \/ Holds(f.element, v)
    BY <1>2 DEF FieldHolds, Lists
  <2>2. Write(f, v) = IF v = Unset THEN Null ELSE WriteScalar(f.element, v)
    BY <1>2 DEF Write, Lists
  <2>3. Null \in ScalarNodes
    BY DEF ScalarNodes, NoNode
  <2> QED
    BY <2>1, <2>2, <2>3, FieldShape, WrittenScalar, ScalarsAreNodes
<1>3. CASE f.type \in ScalarTypes
  <2>1. f.type \notin Lists /\ f.type # "optional"
    BY <1>3 DEF ScalarTypes, IntegerTypes, FloatingTypes, Lists
  <2>2. Write(f, v) = WriteScalar(f.type, v) /\ Holds(f.type, v)
    BY <2>1 DEF Write, FieldHolds
  <2> QED
    BY <1>3, <2>2, WrittenScalar, ScalarsAreNodes
<1> QED
  BY <1>1, <1>2, <1>3, FieldShape

-----------------------------------------------------------------------------
(* The setting *)

\* A setting begins with the default of its field.
LEMMA SettingInitOK == ASSUME SettingInit PROVE SettingTypeOK
  BY SettingsAssumption DEF SettingInit, SettingTypeOK

\* What a diagnosis may be.
LEMMA Diagnoses == \A f, n : Diagnose(f, n) \in {"none", "warning", "error"}
  BY DEF Diagnose

\* A load, a save and a change by the mod keep the types of field, value and node.
LEMMA SettingStepOK ==
    ASSUME SettingTypeOK, SettingNext
    PROVE  SettingTypeOK'
<1>1. CASE Load
  <2>1. field' = field /\ node' = node /\ last' = "load" /\ report' = Diagnose(field, node)
    BY <1>1 DEF Load
  <2>2. value' \in {field.default} \cup Read(field, node)
    BY <1>1 DEF Load
  <2>3. FieldHolds(field, value')
    BY <2>2, FieldShape, ReadHolds DEF SettingTypeOK
  <2> QED
    BY <2>1, <2>3, Diagnoses DEF SettingTypeOK
<1>2. CASE Save
  <2>1. UNCHANGED <<field, value, report>> /\ node' = Write(field, value) /\ last' = "save"
    BY <1>2 DEF Save
  <2>2. Write(field, value) \in Nodes
    BY WrittenIsNode DEF SettingTypeOK
  <2> QED
    BY <2>1, <2>2 DEF SettingTypeOK
<1>3. ASSUME NEW v \in SetValues[field.type], Set(v) PROVE SettingTypeOK'
  <2>1. FieldHolds(field, v)
    BY FieldShape DEF SettingTypeOK
  <2> QED
    BY <1>3, <2>1 DEF Set, SettingTypeOK
<1> QED
  BY <1>1, <1>2, <1>3 DEF SettingNext

(***************************************************************************)
(* A setting always holds a value of its type and the file always holds a  *)
(* node that the library can hold, however loads, saves and changes of the *)
(* mod follow each other, for every field, width, precision and start.     *)
(***************************************************************************)
THEOREM ConversionsTypeCorrect == Spec => []TypeOK
<1>1. Init => TypeOK
  BY SettingInitOK DEF Init, TypeOK
<1>2. TypeOK /\ [Next]_vars => TypeOK'
  <2> SUFFICES ASSUME TypeOK, [Next]_vars PROVE TypeOK'
    OBVIOUS
  <2>1. CASE UNCHANGED vars
    BY <2>1 DEF TypeOK, SettingTypeOK, vars, settingVars
  <2>2. CASE subject = "setting" /\ SettingNext /\ UNCHANGED <<subject, text>>
    BY <2>2, SettingStepOK DEF TypeOK
  <2>3. ASSUME subject # "setting", NEW symbol \in Alphabet[subject], Grow(symbol)
        PROVE  TypeOK'
    <3>1. text \in Seq(Alphabet[subject]) /\ subject' = subject /\ text' = Append(text, symbol)
      BY <2>3 DEF TypeOK, Grow
    <3>2. text' \in Seq(Alphabet[subject])
      BY <3>1, AppendProperties
    <3> QED
      BY <2>3, <3>1, <3>2 DEF TypeOK
  <2> QED
    BY <2>1, <2>2, <2>3 DEF Next
<1> QED
  BY <1>1, <1>2, PTL DEF Spec

-----------------------------------------------------------------------------
(* A load without a warning *)

\* The number a node spells is the one that it is read from as a double.
LEMMA SpelledDouble ==
    ASSUME NEW n \in Nodes, NEW x \in Spelled(n), NEW z \in CoerceDouble(n)
    PROVE  z = Double(x) /\ x \in Int /\ Finite(x)
<1>1. CASE n.kind = "number"
  <2>1. x = n.number /\ n \in Numerals
    BY <1>1, NodeShapes DEF Spelled, NumberNode
  <2>2. z = Double(n.number)
    BY <1>1 DEF CoerceDouble, AsDouble, ParseNumber
  <2> QED
    BY <2>1, <2>2, NumeralsFinite
<1>2. CASE n.kind # "number"
  <2>1. n.kind = "string" /\ Len(n.tokens) = 1 /\ z \in ParseNumber(n)
    BY <1>2 DEF Spelled, CoerceDouble, AsDouble
  <2>2. x = n.tokens[1].number
    BY <1>2, <2>1 DEF Spelled
  <2>3. z = Double(n.tokens[1].number) /\ Finite(n.tokens[1].number)
    BY <2>1 DEF ParseNumber
  <2> QED
    BY <2>2, <2>3, Sizes DEF Finite
<1> QED
  BY <1>1, <1>2

\* The ends of the signed 64 bits: the lower one is a double, and both are
\* beyond the numbers that every double holds.
LEMMA WideEnds ==
    /\ Lowest("int64") \in Doubles /\ Double(Lowest("int64")) = Lowest("int64")
    /\ Lowest("int64") = -(2 * WideHalf) /\ Highest("int64") = 2 * WideHalf - 2
    /\ Lowest("int64") \in Int /\ Highest("int64") \in Int
    /\ Finite(Lowest("int64")) /\ Finite(Highest("int64"))
    /\ Pow2[DoubleBits] <= Magnitude(Lowest("int64"))
    /\ Pow2[DoubleBits] <= Magnitude(Highest("int64"))
<1>1. Lowest("int64") = -(2 * WideHalf) /\ Highest("int64") = 2 * WideHalf - 2
  BY Sizes DEF Lowest, Highest, Signed, Half, One
<1>2. Lowest("int64") \in Int /\ Highest("int64") \in Int
  BY <1>1, Sizes
<1>3. Finite(Lowest("int64")) /\ Finite(Highest("int64"))
  BY <1>1, Sizes DEF Finite
<1>4. Magnitude(Lowest("int64")) = 2 * WideHalf /\ Magnitude(Highest("int64")) = 2 * WideHalf - 2
  BY <1>1, Sizes DEF Magnitude
<1>5. Pow2[DoubleBits] <= 2 * WideHalf - 2
  <2>1. PICK p \in Nat : Pow2[DoubleBits] = 2 * p
    <3>1. DoubleBits - 1 \in Nat /\ (DoubleBits - 1) + 1 = DoubleBits
      BY Bits
    <3> QED
      BY <3>1, Powers
  <2> QED
    BY <2>1, Sizes
<1>6. Double(Lowest("int64")) = Lowest("int64")
  <2>1. Nearest(2 * WideHalf, DoubleBits) = 2 * WideHalf
    BY EndsAssumption DEF Double, One
  <2>2. Magnitude(2 * WideHalf) = Magnitude(-(2 * WideHalf)) /\ 2 * WideHalf > 0
    BY Sizes DEF Magnitude
  <2>3. Nearest(-(2 * WideHalf), DoubleBits) = -(2 * WideHalf)
    BY <2>1, <2>2, Sizes DEF Nearest, WithSign
  <2> QED
    BY <1>1, <2>3 DEF Double
<1>7. Lowest("int64") \in Doubles
  BY <1>3, <1>6 DEF Doubles, Finite
<1> QED
  BY <1>1, <1>2, <1>3, <1>4, <1>5, <1>6, <1>7, Sizes

\* A cast to the signed 64 bits leaves a whole number of them as it is.
LEMMA CastKeeps ==
    ASSUME NEW x \in Int, Trunc(x) \in Lowest("int64")..Highest("int64"), NEW v \in ToInt64(x)
    PROVE  v = Trunc(x)
  BY DEF ToInt64

\* And a large number large.
LEMMA CastLarge ==
    ASSUME NEW z \in Doubles, Pow2[DoubleBits] <= Magnitude(z), NEW v \in ToInt64(z)
    PROVE  v \in Int /\ Finite(v) /\ Pow2[DoubleBits] <= Magnitude(v)
<1>1. z \in Int /\ Finite(z) /\ Nearest(z, DoubleBits) = z
  BY DoublesFinite DEF Double
<1>2. Whole(z)
  BY <1>1, Bits, FiniteInReach, LargeWhole
<1>3. Trunc(z) = z
  BY <1>1, <1>2, TruncWhole
<1>4. v \in {z, Lowest("int64"), Highest("int64")}
  BY <1>3 DEF ToInt64
<1> QED
  BY <1>1, <1>4, WideEnds

\* What a narrow type holds is small.
LEMMA NarrowSmall ==
    ASSUME NEW type \in {"int", "unsigned"}, NEW v \in Lowest(type)..Highest(type)
    PROVE  ~(Pow2[DoubleBits] <= Magnitude(v))
<1>1. Lowest(type) \in Int /\ Highest(type) \in Int
      /\ -(2 * NarrowHalf) <= Lowest(type) /\ Highest(type) <= 4 * NarrowHalf - 2
  BY Sizes DEF Lowest, Highest, Signed, Half, One
<1>2. v \in Int /\ Lowest(type) <= v /\ v <= Highest(type)
  BY <1>1
<1> QED
  BY <1>1, <1>2, Sizes DEF Magnitude

\* A large number stays large as a double.
LEMMA DoubleLarge ==
    ASSUME NEW x, Finite(x), Pow2[DoubleBits] <= Magnitude(x)
    PROVE  Double(x) \in Doubles /\ Pow2[DoubleBits] <= Magnitude(Double(x))
  BY Bits, FiniteInReach, LargeStays, DoubleIsDouble DEF Double

\* What reading does to an integer before anything is clamped.
LEMMA IntegerRead ==
    ASSUME NEW type \in IntegerTypes, NEW range \in Ranges, NEW n \in Nodes,
           \A z \in Clamped(type, n) : ~Outside(range, z),
           NEW v \in ReadInteger(type, range, n)
    PROVE  /\ type # "uint64" /\ v \in Lowest(type)..Highest(type)
           /\ \E w \in CoerceInt64(n) : v \in ToInt64(Double(w))
<1>1. type # "uint64"
  BY Uint64Unread
<1>2. v \in Lowest(type)..Highest(type)
  BY IntegersFit
<1>3. PICK z \in Clamped(type, n) : v \in ToInt64(Clamp(range, z))
  BY DEF ReadInteger
<1>4. PICK w \in CoerceInt64(n) : z = Double(w)
  BY <1>3 DEF Clamped
<1>5. Clamp(range, z) = z
  BY <1>3, NodeShapes, ClampedDoubles, ClampDouble
<1> QED
  BY <1>1, <1>2, <1>3, <1>4, <1>5

\* What the library holds as an integer wraps, or is the signed integer it spells.
LEMMA HeldInteger ==
    ASSUME NEW n \in Nodes, NEW x \in Spelled(n), AsInt64(n) # {}, NEW w \in CoerceInt64(n)
    PROVE  /\ x \in Int /\ Finite(x)
           /\ Wraps(n, x) \/ (w = x /\ Whole(x) /\ x \in Lowest("int64")..Highest("int64"))
<1>1. n.kind = "number" /\ n.form # "double"
  BY DEF AsInt64
<1>2. w = Wrap(x) /\ x = n.number
  BY <1>1 DEF CoerceInt64, AsInt64, Spelled
<1>3. /\ x \in Int /\ Finite(x) /\ Whole(x)
      /\ \/ n.form = "unsigned" /\ x \in 0..Highest("uint64")
         \/ x \in Lowest("int64").. -1
  BY <1>1, <1>2, NodeShapes, NumeralsFinite DEF NumberNode
<1>4. CASE x > Highest("int64")
  <2>1. n.form = "unsigned"
    BY <1>3, <1>4, WideEnds, Sizes
  <2> QED
    BY <1>1, <1>3, <1>4, <2>1 DEF Wraps
<1>5. CASE ~(x > Highest("int64"))
  <2>1. Lowest("int64") <= x
    BY <1>3, WideEnds, Sizes
  <2>2. Wrap(x) = x
    BY <1>3, <1>5, <2>1, WideEnds, Sizes, WrapKeeps DEF One
  <2> QED
    BY <1>2, <1>3, <1>5, <2>1, <2>2, WideEnds
<1> QED
  BY <1>4, <1>5

\* What else is taken for an integer is cast from the double that is nearest.
LEMMA HeldDouble ==
    ASSUME NEW n \in Nodes, NEW x \in Spelled(n), AsInt64(n) = {}, NEW w \in CoerceInt64(n)
    PROVE  /\ x \in Int /\ Finite(x) /\ w \in ToInt64(Double(x))
           /\ Lowest("int64") <= Trunc(Double(x)) /\ Trunc(Double(x)) <= Double(Highest("int64"))
<1>1. PICK z \in CoerceDouble(n) :
            w \in ToInt64(z) /\ Trunc(z) >= Double(Lowest("int64")) /\ Trunc(z) <= Double(Highest("int64"))
  BY DEF CoerceInt64
<1>2. z = Double(x) /\ x \in Int /\ Finite(x) /\ Double(x) \in Int
  BY SpelledDouble, DoubleIsDouble, DoublesFinite
<1>3. Trunc(Double(x)) \in Int
  BY <1>2, TruncWhole
<1> QED
  BY <1>1, <1>2, <1>3, WideEnds

\* A cast through the signed 64 bits and back to a double and again is that cast.
LEMMA CastTwice ==
    ASSUME NEW z \in Doubles, NEW w \in ToInt64(z), NEW v \in ToInt64(Double(w)),
           Lowest("int64") <= Trunc(z), Trunc(z) <= Double(Highest("int64"))
    PROVE  v \in ToInt64(z)
<1>1. z \in Int /\ Trunc(z) \in Int /\ Trunc(z) \in Doubles
  BY DoublesFinite, TruncWhole, TruncDouble
<1>2. CASE Trunc(z) <= Highest("int64")
  <2>1. Trunc(z) \in Lowest("int64")..Highest("int64")
    BY <1>1, <1>2, WideEnds
  <2>2. w = Trunc(z)
    BY <1>1, <2>1, CastKeeps
  <2>3. Double(w) = w /\ Trunc(w) = w /\ w \in Int
    BY <1>1, <2>2, DoublesFinite, TruncWhole
  <2>4. v = w
    BY <2>1, <2>2, <2>3, CastKeeps
  <2> QED
    BY <2>2, <2>4
<1>3. CASE ~(Trunc(z) <= Highest("int64"))
  <2>1. Trunc(z) \notin Lowest("int64")..Highest("int64")
    BY <1>1, <1>3, WideEnds
  <2>2. ToInt64(z) = {Lowest("int64"), Highest("int64")}
    BY <2>1 DEF ToInt64
  <2>3. CASE w = Lowest("int64")
    <3>1. Trunc(Lowest("int64")) = Lowest("int64")
      BY WideEnds, Sizes, TruncWhole DEF Whole, One
    <3>2. v = Lowest("int64")
      BY <2>3, <3>1, WideEnds, Sizes, CastKeeps
    <3> QED
      BY <2>2, <3>2
  <2>4. CASE w = Highest("int64")
    <3> DEFINE top == Double(Highest("int64"))
    <3>1. top \in Doubles /\ Pow2[DoubleBits] <= Magnitude(top)
      BY WideEnds, DoubleLarge
    <3>2. top \in Int /\ Finite(top) /\ Nearest(top, DoubleBits) = top
      BY <3>1, DoublesFinite DEF Double
    <3>3. Trunc(top) = top
      BY <3>1, <3>2, Bits, FiniteInReach, LargeWhole, TruncWhole
    <3>4. Highest("int64") < top
      BY <1>1, <1>3, <3>2, WideEnds
    <3>5. top \notin Lowest("int64")..Highest("int64")
      BY <3>2, <3>4, WideEnds
    <3>6. v \in {Lowest("int64"), Highest("int64")}
      BY <2>4, <3>3, <3>5 DEF ToInt64
    <3> QED
      BY <2>2, <3>6
  <2> QED
    BY <2>2, <2>3, <2>4
<1> QED
  BY <1>2, <1>3

(***************************************************************************)
(* An integer that no range clamps is read as the number in the file, cut  *)
(* to a whole one, but for two cases (Traits.hpp:64-83, Coerce.cpp:139-    *)
(* 158): an unsigned literal above the signed 64 bits wraps, and what an   *)
(* int64 is given is a cast of the nearest double, which may be another    *)
(* number or 2^63.                                                         *)
(***************************************************************************)
THEOREM IntegerUnchanged ==
    ASSUME NEW type \in IntegerTypes, NEW range \in Ranges, NEW n \in Nodes,
           \A z \in Clamped(type, n) : ~Outside(range, z),
           NEW v \in ReadInteger(type, range, n), NEW x \in Spelled(n)
    PROVE  \/ v = Trunc(x)
           \/ Wraps(n, x)
           \/ ThroughDouble(type, x) /\ v \in ToInt64(Double(x))
<1>1. PICK w \in CoerceInt64(n) : v \in ToInt64(Double(w))
  BY IntegerRead
<1>2. type # "uint64" /\ v \in Lowest(type)..Highest(type)
  BY IntegerRead
<1>3. SUFFICES ASSUME ~Wraps(n, x)
               PROVE  v = Trunc(x) \/ (ThroughDouble(type, x) /\ v \in ToInt64(Double(x)))
  OBVIOUS
<1>4. /\ x \in Int /\ Finite(x) /\ v \in ToInt64(Double(x))
      /\ Double(x) = x => Lowest("int64") <= Trunc(x)
  <2>1. CASE AsInt64(n) # {}
    <3>1. x \in Int /\ Finite(x) /\ w = x /\ Whole(x) /\ x \in Lowest("int64")..Highest("int64")
      BY <1>3, <2>1, HeldInteger
    <3>2. Trunc(x) = x /\ Lowest("int64") <= x
      BY <3>1, TruncWhole, WideEnds
    <3> QED
      BY <1>1, <3>1, <3>2
  <2>2. CASE AsInt64(n) = {}
    <3>1. /\ x \in Int /\ Finite(x) /\ w \in ToInt64(Double(x))
          /\ Lowest("int64") <= Trunc(Double(x)) /\ Trunc(Double(x)) <= Double(Highest("int64"))
      BY <2>2, HeldDouble
    <3>2. Double(x) \in Doubles
      BY <3>1, DoubleIsDouble
    <3>3. v \in ToInt64(Double(x))
      BY <1>1, <3>1, <3>2, CastTwice
    <3> QED
      BY <3>1, <3>3
  <2> QED
    BY <2>1, <2>2
<1>5. Trunc(x) \in Int /\ Double(x) \in Doubles
  BY <1>4, TruncWhole, DoubleIsDouble
<1>6. CASE Double(x) = x /\ Trunc(x) <= Highest("int64")
  <2>1. Trunc(x) \in Lowest("int64")..Highest("int64")
    BY <1>4, <1>5, <1>6, WideEnds
  <2> QED
    BY <1>4, <1>6, <2>1, CastKeeps
<1>7. CASE ~(Double(x) = x /\ Trunc(x) <= Highest("int64"))
  <2>1. CASE type = "int64"
    <3>1. Double(x) # x \/ Trunc(Double(x)) > Highest("int64")
      BY <1>5, <1>7, WideEnds
    <3> QED
      BY <1>4, <2>1, <3>1 DEF ThroughDouble
  <2>2. CASE type # "int64"
    <3>1. Finite(x) /\ Pow2[DoubleBits] <= Magnitude(x)
      <4>1. CASE Double(x) # x
        BY <1>4, <4>1, Bits, Sizes, SmallExact, MagnitudeNat DEF Double
      <4>2. CASE Trunc(x) > Highest("int64")
        <5>1. Highest("int64") >= 0 /\ Magnitude(Highest("int64")) = Highest("int64")
          BY WideEnds, Sizes DEF Magnitude
        <5>2. x >= 0
          BY <1>4, <1>5, <4>2, <5>1, TruncWhole, WideEnds
        <5>3. Trunc(x) <= x /\ Magnitude(x) = x
          BY <1>4, <5>2, TruncWhole DEF Magnitude
        <5> QED
          BY <1>4, <1>5, <4>2, <5>1, <5>3, WideEnds, Sizes
      <4> QED
        BY <1>5, <1>7, <4>1, <4>2, WideEnds
    <3>2. Pow2[DoubleBits] <= Magnitude(v)
      BY <1>4, <1>5, <3>1, DoubleLarge, CastLarge
    <3>3. type \in {"int", "unsigned"}
      BY <1>2, <2>2 DEF IntegerTypes
    <3> QED
      BY <1>2, <3>2, <3>3, NarrowSmall
  <2> QED
    BY <2>1, <2>2
<1> QED
  BY <1>6, <1>7

\* A field of a numeric type is neither a list nor an optional.
LEMMA NumericField ==
    ASSUME NEW f, f.type \in IntegerTypes \cup FloatingTypes
    PROVE  /\ f.type \notin Lists /\ f.type # "optional"
           /\ f.type \notin {"bool", "string", "enum"}
  BY DEF IntegerTypes, FloatingTypes, Lists

\* A node that is read without a warning is read, and nothing of it is clamped.
LEMMA NoWarning ==
    ASSUME NEW f, f.type \in IntegerTypes \cup FloatingTypes, NEW n, Diagnose(f, n) = "none"
    PROVE  /\ n # NotJson /\ Read(f, n) # {}
           /\ Read(f, n) = ReadNumber(f.type, f.range, n)
           /\ \A z \in Clamped(f.type, n) : ~Outside(f.range, z)
<1>1. f.type \notin Lists \cup {"optional"}
  BY NumericField
<1>2. Read(f, n) = ReadNumber(f.type, f.range, n)
  BY <1>1, NumericField DEF Read, ReadScalar
<1>3. 1 \in DOMAIN <<n>> /\ <<n>>[1] = n
  OBVIOUS
<1> QED
  BY <1>1, <1>2, <1>3 DEF Diagnose

\* A number of a floating type is read as the nearest that the type holds.
LEMMA FloatingUnchanged ==
    ASSUME NEW type \in FloatingTypes, NEW range \in Ranges, NEW n \in Nodes,
           \A z \in Clamped(type, n) : ~Outside(range, z),
           NEW v \in ReadNumber(type, range, n), NEW x \in Spelled(n)
    PROVE  v = IF type = "float" THEN Float(Double(x)) ELSE Double(x)
<1>1. type \notin IntegerTypes
  BY DEF IntegerTypes, FloatingTypes
<1>2. PICK z \in CoerceDouble(n) :
          v = IF type = "float" THEN Float(Clamp(range, z)) ELSE Clamp(range, z)
  BY <1>1 DEF ReadNumber, Clamped
<1>3. ~Outside(range, z)
  BY <1>1, <1>2 DEF Clamped
<1> QED
  BY <1>2, <1>3, SpelledDouble DEF Clamp

(***************************************************************************)
(* A finite double in the file that is beyond the largest float loads into *)
(* a float without a range as an infinity, and without a warning           *)
(* (Traits.hpp:98-103), against Diagnostics.hpp:31-33.  What a save then   *)
(* writes is no JSON (Write.cpp:87-90).                                    *)
(***************************************************************************)
THEOREM InfinityLoadsSilently ==
    ASSUME NEW f, f.type = "float", f.range = <<>>, NEW x \in Doubles, BeyondFloat(x)
    PROVE  /\ Diagnose(f, Number("double", x)) = "none"
           /\ Read(f, Number("double", x)) = {WithSign(x, Infinity)}
           /\ Write(f, WithSign(x, Infinity)) = NotJson
<1> DEFINE n == Number("double", x)
<1>1. Double(x) = x /\ x \in Int
  BY DEF Doubles
<1>2. Float(x) = WithSign(x, Infinity) /\ ~Finite(WithSign(x, Infinity))
  <2> DEFINE y == Nearest(x, FloatBits)
  <2>1. ~Finite(Float(x))
    BY <1>1 DEF BeyondFloat
  <2>2. y \in Int
    BY FiniteInReach, Bits, NearestSign, DoublesFinite
  <2>3. CASE Magnitude(y) > FloatMax
    BY <2>1, <2>3 DEF Float
  <2>4. CASE ~(Magnitude(y) > FloatMax)
    <3>1. Finite(y)
      BY <2>2, <2>4, Sizes DEF Finite, Magnitude
    <3> QED
      BY <2>1, <2>4, <3>1 DEF Float
  <2> QED
    BY <2>3, <2>4
<1>3. n.kind = "number" /\ n # NotJson /\ n.number = x
  BY DEF Number, NotJson
<1>4. Clamped("float", n) = {x}
  BY <1>1, <1>3 DEF Clamped, IntegerTypes, CoerceDouble, AsDouble, ParseNumber
<1> HIDE DEF n
<1>5. f.type \notin Lists \cup {"optional"} /\ f.type \notin IntegerTypes
  BY DEF Lists, IntegerTypes
<1>6. Read(f, n) = {Float(x)}
  <2>1. Read(f, n) = ReadNumber("float", <<>>, n)
    BY <1>5 DEF Read, ReadScalar, Lists
  <2>2. Clamp(<<>>, x) = x
    BY DEF Clamp, Outside
  <2> QED
    BY <1>4, <1>5, <2>1, <2>2 DEF ReadNumber
<1>7. \A z : ~Outside(f.range, z)
  BY DEF Outside
<1>8. Diagnose(f, n) = "none"
  BY <1>3, <1>5, <1>6, <1>7 DEF Diagnose
<1>9. Write(f, WithSign(x, Infinity)) = NotJson
  BY <1>2, <1>5 DEF Write, WriteScalar, WriteNumber, AppendJsonFloat
<1> QED
  BY <1>2, <1>6, <1>8, <1>9 DEF n

(***************************************************************************)
(* "Something was discarded or altered" is a Warning (Diagnostics.hpp:     *)
(* 31-33): for every field, width and precision, a number that loads       *)
(* without one is the number in the file as nearly as the type holds it,   *)
(* or one of the three that are named: an unsigned literal above the       *)
(* signed 64 bits, which wraps; an int64 that is no double or is 2^63,     *)
(* which is a cast of that double; and a number beyond the largest float,  *)
(* which becomes an infinity.                                              *)
(***************************************************************************)
THEOREM NumbersUnchanged == Spec => NoSilentChange
<1> DEFINE Unchanged(x) ==
            CASE field.type \in IntegerTypes ->
                    \/ value' = Trunc(x)
                    \/ Wraps(node, x)
                    \/ ThroughDouble(field.type, x) /\ value' \in ToInt64(Double(x))
              [] field.type = "float" -> value' = Float(Double(x)) \/ BeyondFloat(x)
              [] field.type = "double" -> value' = Double(x)
              [] OTHER -> TRUE
           NoChange == last' = "load" /\ report' = "none" => \A x \in Spelled(node) : Unchanged(x)
<1>1. TypeOK /\ [Next]_vars => [NoChange]_settingVars
  <2> SUFFICES ASSUME TypeOK, Next, ~UNCHANGED settingVars, last' = "load", report' = "none",
                      NEW x \in Spelled(node)
               PROVE  Unchanged(x)
    BY DEF vars
  <2>1. SettingTypeOK /\ SettingNext
    BY DEF Next, Grow, TypeOK
  <2>2. Load
    BY <2>1 DEF SettingNext, Save, Set
  <2>3. field \in Fields /\ node \in Nodes /\ Diagnose(field, node) = "none"
    BY <2>1, <2>2 DEF SettingTypeOK, Load
  <2>4. CASE field.type \in IntegerTypes \cup FloatingTypes
    <3>1. node # NotJson /\ Read(field, node) # {}
      BY <2>3, <2>4, NoWarning
    <3>2. value' \in ReadNumber(field.type, field.range, node)
      BY <2>2, <2>3, <2>4, <3>1, NoWarning DEF Load
    <3>3. \A z \in Clamped(field.type, node) : ~Outside(field.range, z)
      BY <2>3, <2>4, NoWarning
    <3>4. field.range \in Ranges
      BY <2>3, FieldShape
    <3>5. CASE field.type \in IntegerTypes
      <4>1. value' \in ReadInteger(field.type, field.range, node)
        BY <3>2, <3>5 DEF ReadNumber
      <4>2. \/ value' = Trunc(x)
            \/ Wraps(node, x)
            \/ ThroughDouble(field.type, x) /\ value' \in ToInt64(Double(x))
        BY <2>3, <3>3, <3>4, <3>5, <4>1, IntegerUnchanged
      <4> QED
        BY <3>5, <4>2 DEF IntegerTypes
    <3>6. CASE field.type \in FloatingTypes
      <4>1. value' = IF field.type = "float" THEN Float(Double(x)) ELSE Double(x)
        BY <2>3, <3>2, <3>3, <3>4, <3>6, FloatingUnchanged
      <4> QED
        BY <3>6, <4>1 DEF IntegerTypes, FloatingTypes
    <3> QED
      BY <2>4, <3>5, <3>6
  <2>5. CASE field.type \notin IntegerTypes \cup FloatingTypes
    BY <2>5 DEF FloatingTypes
  <2> QED
    BY <2>4, <2>5
<1>2. Spec => [][NoChange]_settingVars
  BY <1>1, ConversionsTypeCorrect, PTL DEF Spec
<1>3. (Spec => [][NoChange]_settingVars) <=> (Spec => NoSilentChange)
  BY DEF NoSilentChange
<1> QED
  BY <1>2, <1>3

-----------------------------------------------------------------------------
(* What is saved *)

\* The file spells a finite number as one that the library holds without loss,
\* whatever its form.
LEMMA DoubleWritten ==
    ASSUME NEW v, Finite(v), Double(v) = v, NEW fractional
    PROVE  \E form \in {"double", "unsigned", "signed"} :
                /\ AppendJsonNumber(v, fractional) = Number(form, v)
                /\ fractional = TRUE => form = "double"
<1> DEFINE literal == [number |-> v, fractional |-> fractional \/ v \in Exponential]
<1>1. AppendJsonNumber(v, fractional) = ParseLiteral(literal) /\ literal.number = v
      /\ literal.fractional = (fractional \/ v \in Exponential)
  BY DEF AppendJsonNumber
<1> HIDE DEF literal
<1>2. CASE literal.fractional \/ ~Whole(v)
  BY <1>1, <1>2 DEF ParseLiteral
<1>3. CASE ~(literal.fractional \/ ~Whole(v))
  <2>1. \E form \in {"double", "unsigned", "signed"} : ParseLiteral(literal) = Number(form, v)
    BY <1>1, <1>3 DEF ParseLiteral
  <2>2. fractional # TRUE
    BY <1>1, <1>3
  <2> QED
    BY <1>1, <2>1, <2>2
<1> QED
  BY <1>2, <1>3

\* A whole double of the signed 64 bits is read as itself, whatever its form.
LEMMA IntegerReadBack ==
    ASSUME NEW form \in {"double", "unsigned", "signed"}, NEW v, Double(v) = v, Whole(v),
           v \in Lowest("int64")..Highest("int64")
    PROVE  CoerceInt64(Number(form, v)) = {v} /\ ToInt64(v) = {v}
<1> DEFINE n == Number(form, v)
<1>1. n.kind = "number" /\ n.form = form /\ n.number = v
  BY DEF Number
<1>2. v \in Int /\ Lowest("int64") <= v /\ v <= Highest("int64") /\ Trunc(v) = v
  BY WideEnds, TruncWhole
<1>3. ToInt64(v) = {v}
  BY <1>2 DEF ToInt64
<1> HIDE DEF n
<1>4. CASE form = "double"
  <2>1. AsInt64(n) = {} /\ CoerceDouble(n) = {v}
    BY <1>1, <1>4 DEF AsInt64, CoerceDouble, AsDouble, ParseNumber
  <2>2. v <= Double(Highest("int64")) /\ Double(Highest("int64")) \in Int
    <3> DEFINE top == Highest("int64")
    <3>1. top \in Int /\ Finite(top) /\ top >= 0 /\ v <= top
      BY <1>2, WideEnds, Sizes
    <3> HIDE DEF top
    <3>2. Double(top) \in Int /\ Double(top) >= 0
      BY <3>1, DoubleIsDouble, DoublesFinite
    <3>3. CASE v <= 0
      BY <1>2, <3>2, <3>3 DEF top
    <3>4. CASE v > 0
      <4>1. v \in Nat /\ Finite(v) /\ Nearest(v, DoubleBits) = v
        BY <1>2, <3>1, <3>4, Sizes DEF Finite, Double
      <4>2. v <= Magnitude(top) /\ Magnitude(Double(top)) = Double(top)
        BY <1>2, <3>1, <3>2 DEF Magnitude
      <4>3. InReach(v, DoubleBits) /\ InReach(top, DoubleBits)
        BY <3>1, <4>1, FiniteInReach
      <4>4. v <= Magnitude(Double(top))
        BY <4>1, <4>2, <4>3, Bits, NearestOrdered DEF Double
      <4> QED
        BY <3>2, <4>2, <4>4 DEF top
    <3> QED
      BY <1>2, <3>3, <3>4
  <2>3. {y \in CoerceDouble(n) :
            Trunc(y) >= Double(Lowest("int64")) /\ Trunc(y) <= Double(Highest("int64"))} = {v}
    BY <1>2, <2>1, <2>2, WideEnds
  <2>4. CoerceInt64(n) = UNION {ToInt64(x) : x \in {v}}
    BY <2>1, <2>3 DEF CoerceInt64
  <2> QED
    BY <1>3, <2>4 DEF n
<1>5. CASE form # "double"
  <2>1. AsInt64(n) = {Wrap(v)}
    BY <1>1, <1>5 DEF AsInt64
  <2>2. Wrap(v) = v
    BY <1>2, WideEnds, Sizes, WrapKeeps DEF One
  <2> QED
    BY <1>3, <2>1, <2>2 DEF CoerceInt64, n
<1> QED
  BY <1>4, <1>5

\* The values of an integral type but uint64 are signed 64-bit integers.
LEMMA SignedRange ==
    ASSUME NEW type \in IntegerTypes, type # "uint64", NEW v \in Lowest(type)..Highest(type)
    PROVE  v \in Lowest("int64")..Highest("int64")
<1>1. Lowest("int64") <= Lowest(type) /\ Highest(type) <= Highest("int64")
      /\ Lowest(type) \in Int /\ Highest(type) \in Int
      /\ Lowest("int64") \in Int /\ Highest("int64") \in Int
  BY Sizes DEF IntegerTypes, Lowest, Highest, Signed, Half, One
<1>2. v \in Int /\ Lowest(type) <= v /\ v <= Highest(type)
  BY <1>1
<1> QED
  BY <1>1, <1>2

\* The double that a float is read from becomes that float, if it is not rounded
\* twice, and also when a range clamps the double and not the float.
LEMMA FloatReread ==
    ASSUME NEW range \in Ranges, NEW v, Holds("float", v), Finite(v), ~RoundedTwice(v),
           ~(Outside(range, v) /\ Outside(range, Reread("float", v)))
    PROVE  Float(Clamp(range, Reread("float", v))) = v
<1> DEFINE d == FloatDecimal[v]
           x == Reread("float", v)
<1>1. v \in Int /\ Float(v) = v /\ Finite(d) /\ Float(d) = v /\ x = Double(d) /\ x \in Doubles
  BY FloatWritten
<1>2. x \in Int /\ Finite(x)
  BY <1>1, DoublesFinite
<1>3. Float(x) = v
  <2>1. Double(d) = d \/ ~Halfway(Double(d))
    BY <1>1 DEF RoundedTwice
  <2>2. Float(Double(d)) = Float(d)
    BY <1>1, <2>1, DoubleRounding
  <2> QED
    BY <1>1, <2>2
<1> HIDE DEF d, x
<1>4. CASE ~Outside(range, x)
  <2>1. Clamp(range, x) = x
    BY <1>4 DEF Clamp
  <2> QED
    BY <1>3, <2>1 DEF x
<1>5. CASE Outside(range, x)
  <2>1. ~Outside(range, v) /\ range # <<>>
    BY <1>5 DEF Outside, x
  <2>2. range[1] \in Doubles /\ range[2] \in Doubles
    BY <2>1 DEF Ranges
  <2>3. /\ range[1] \in Int /\ Finite(range[1]) /\ range[2] \in Int /\ Finite(range[2])
        /\ range[1] <= v /\ v <= range[2]
    BY <1>1, <2>1, <2>2, DoublesFinite DEF Outside
  <2>4. CASE x < range[1]
    <3>1. Clamp(range, x) = range[1] /\ x <= range[1]
      BY <1>2, <1>5, <2>3, <2>4 DEF Clamp
    <3>2. Float(range[1]) = Float(x)
      BY <1>1, <1>2, <1>3, <2>3, <3>1, FloatBetween
    <3> QED
      BY <1>3, <3>1, <3>2 DEF x
  <2>5. CASE ~(x < range[1])
    <3>1. Clamp(range, x) = range[2] /\ range[2] <= x
      BY <1>2, <1>5, <2>1, <2>3, <2>5 DEF Clamp, Outside
    <3>2. Float(range[2]) = Float(v)
      BY <1>1, <1>2, <1>3, <2>3, <3>1, FloatBetween
    <3> QED
      BY <1>1, <3>1, <3>2 DEF x
  <2> QED
    BY <2>4, <2>5
<1> QED
  BY <1>4, <1>5

\* A number that a file can spell is read as it was written.
LEMMA NumberReadBack ==
    ASSUME NEW type \in IntegerTypes \cup FloatingTypes, NEW range \in Ranges, NEW v,
           Holds(type, v), ~UnspelledScalar(type, range, v)
    PROVE  /\ WriteNumber(type, v) # NotJson
           /\ ReadNumber(type, range, WriteNumber(type, v)) = {v}
<1>1. /\ type # "uint64" /\ Finite(v)
      /\ IF type = "float" THEN ~RoundedTwice(v) ELSE Double(v) = v
      /\ ~(Outside(range, v) /\ Outside(range, Reread(type, v)))
  <2>1. type # "uint64"
    BY DEF UnspelledScalar, IntegerTypes, FloatingTypes
  <2>2. type \in (IntegerTypes \ {"uint64"}) \cup FloatingTypes
    BY <2>1
  <2>3. UnspelledScalar(type, range, v) <=>
            \/ ~Finite(v)
            \/ IF type = "float" THEN RoundedTwice(v) ELSE Double(v) # v
            \/ Outside(range, v) /\ Outside(range, Reread(type, v))
    BY <2>1, <2>2 DEF UnspelledScalar, IntegerTypes, FloatingTypes
  <2> QED
    BY <2>1, <2>3
<1>2. CASE type = "float"
  <2> DEFINE x == Reread("float", v)
  <2>1. type \notin IntegerTypes
    BY <1>2 DEF IntegerTypes
  <2>2. WriteNumber(type, v) = Number("double", x) /\ x \in Doubles
    BY <1>1, <1>2, <2>1, FloatWritten DEF WriteNumber
  <2>3. Float(Clamp(range, x)) = v
    BY <1>1, <1>2, FloatReread
  <2> HIDE DEF x
  <2>4. WriteNumber(type, v) # NotJson
    BY <2>2 DEF Number, NotJson
  <2>5. Clamped(type, Number("double", x)) = {x}
    BY <2>1, <2>2, DoublesFinite DEF Clamped, CoerceDouble, AsDouble, ParseNumber, Number
  <2>6. ReadNumber(type, range, Number("double", x)) = {Float(Clamp(range, x))}
    BY <1>2, <2>1, <2>5 DEF ReadNumber
  <2> QED
    BY <2>2, <2>3, <2>4, <2>6
<1>3. CASE type # "float"
  <2>1. Double(v) = v /\ Clamp(range, v) = v
    BY <1>1, <1>3 DEF Clamp, Reread
  <2>2. PICK form \in {"double", "unsigned", "signed"} : WriteNumber(type, v) = Number(form, v)
    BY <1>1, <1>3, <2>1, DoubleWritten DEF WriteNumber
  <2>3. WriteNumber(type, v) # NotJson
    BY <2>2 DEF Number, NotJson
  <2>4. CASE type \in IntegerTypes
    <3>1. Whole(v) /\ v \in Lowest(type)..Highest(type)
      BY <2>4 DEF Holds, IntegerTypes
    <3>2. CoerceInt64(Number(form, v)) = {v} /\ ToInt64(v) = {v}
      BY <1>1, <2>1, <2>4, <3>1, SignedRange, IntegerReadBack
    <3>3. Clamped(type, Number(form, v)) = {v}
      BY <2>1, <2>4, <3>2 DEF Clamped
    <3>4. Wrap(Lowest(type)) <= v /\ v <= Wrap(Highest(type))
      BY <1>1, <2>4, <3>1, Limits
    <3>5. UNION {ToInt64(Clamp(range, x)) : x \in Clamped(type, Number(form, v))} = {v}
      BY <2>1, <3>2, <3>3
    <3>6. ReadInteger(type, range, Number(form, v)) = {v}
      BY <3>4, <3>5 DEF ReadInteger
    <3> QED
      BY <2>2, <2>3, <2>4, <3>6 DEF ReadNumber
  <2>5. CASE type \notin IntegerTypes
    <3>1. Clamped(type, Number(form, v)) = {v}
      BY <2>1, <2>5 DEF Clamped, CoerceDouble, AsDouble, ParseNumber, Number
    <3> QED
      BY <1>3, <2>1, <2>2, <2>3, <2>5, <3>1 DEF ReadNumber
  <2> QED
    BY <2>4, <2>5
<1> QED
  BY <1>2, <1>3

\* So is a scalar of every type.
LEMMA ScalarReadBack ==
    ASSUME NEW type \in ScalarTypes, NEW range \in Ranges, NEW v,
           Holds(type, v), ~UnspelledScalar(type, range, v)
    PROVE  /\ WriteScalar(type, v) # NotJson
           /\ ReadScalar(type, range, WriteScalar(type, v)) = {v}
<1>1. CASE type = "bool"
  <2>1. WriteScalar(type, v) = Bool(v)
    BY <1>1 DEF WriteScalar
  <2>2. Bool(v) # NotJson /\ CoerceBool(Bool(v)) = {v}
    BY DEF Bool, NotJson, CoerceBool
  <2> QED
    BY <1>1, <2>1, <2>2 DEF ReadScalar
<1>2. CASE type = "string"
  <2>1. WriteScalar(type, v) = String(v)
    BY <1>2 DEF WriteScalar
  <2>2. String(v) # NotJson /\ CoerceUtf8(String(v)) = {v}
    BY DEF String, NotJson, CoerceUtf8
  <2> QED
    BY <1>2, <2>1, <2>2 DEF ReadScalar
<1>3. CASE type = "enum"
  <2> DEFINE names == {w \in DOMAIN EnumNames : EnumNames[w] = v}
             name == CHOOSE w \in names : TRUE
             n == String(<<Word(name)>>)
  <2>1. names # {}
    BY <1>3 DEF UnspelledScalar, IntegerTypes, FloatingTypes
  <2>2. name \in DOMAIN EnumNames /\ EnumNames[name] = v
    BY <2>1
  <2>3. WriteScalar(type, v) = n
    BY <1>3, <2>1 DEF WriteScalar, WriteEnum
  <2> HIDE DEF name
  <2>4. n # NotJson /\ n.kind = "string" /\ n.tokens = <<Word(name)>>
    BY DEF String, NotJson
  <2> HIDE DEF n
  <2>5. WordOf(n) = {name}
    <3>1. Len(n.tokens) = 1 /\ n.tokens[1] = Word(name)
      BY <2>4
    <3>2. Word(name).kind = "word" /\ Word(name).word = name
      BY DEF Word
    <3> QED
      BY <2>4, <3>1, <3>2 DEF WordOf
  <2>6. ReadEnum(n) = {EnumNames[w] : w \in {name}}
    BY <2>2, <2>4, <2>5 DEF ReadEnum
  <2> QED
    BY <1>3, <2>2, <2>3, <2>4, <2>6 DEF ReadScalar
<1>4. CASE type \in IntegerTypes \cup FloatingTypes
  <2>1. type \notin {"bool", "string", "enum"}
    BY <1>4 DEF IntegerTypes, FloatingTypes
  <2> QED
    BY <1>4, <2>1, NumberReadBack DEF WriteScalar, ReadScalar
<1> QED
  BY <1>1, <1>2, <1>3, <1>4 DEF ScalarTypes

\* A sequence whose elements are all read as they were written is read as it was.
LEMMA ElementsReadBack ==
    ASSUME NEW f, NEW n, NEW H, NEW s \in Seq(H), Len(Elements(n)) = Len(s),
           \A k \in 1..Len(s) : Readings(f, n, k) = {s[k]}
    PROVE  ReadElements(f, n) = s
<1>1. Len(s) \in Nat /\ DOMAIN s = 1..Len(s) /\ \A k \in 1..Len(s) : s[k] \in H
  OBVIOUS
<1>2. PICK read : ElementsRead(f, n, read)
  BY <1>1, ReadElementsExists
<1> DEFINE Prefix(k) == [i \in 1..k |-> s[i]]
           S == {k \in Nat : k <= Len(s) => read[k] = Prefix(k)}
<1>3. 0 \in S
  BY <1>2 DEF ElementsRead
<1>4. ASSUME NEW k \in Nat, k \in S PROVE k + 1 \in S
  <2>1. SUFFICES ASSUME k + 1 <= Len(s) PROVE read[k + 1] = Prefix(k + 1)
    OBVIOUS
  <2>2. read[k] = Prefix(k) /\ k + 1 \in 1..Len(s)
    BY <1>1, <1>4, <2>1
  <2>3. Readings(f, n, k + 1) = {s[k + 1]}
    BY <2>2
  <2>4. (CHOOSE v \in Readings(f, n, k + 1) : TRUE) = s[k + 1]
    BY <2>3
  <2>5. read[k + 1] = Append(read[k], s[k + 1])
    BY <1>2, <2>3, <2>4 DEF ElementsRead
  <2>6. Prefix(k) \in Seq(H) /\ Len(Prefix(k)) = k
    BY <1>1, <2>2
  <2>7. Prefix(k + 1) \in Seq(H) /\ Len(Prefix(k + 1)) = k + 1
    BY <1>1, <2>2
  <2>8. Append(Prefix(k), s[k + 1]) \in Seq(H) /\ Len(Append(Prefix(k), s[k + 1])) = k + 1
        /\ \A i \in 1..(k + 1) : Append(Prefix(k), s[k + 1])[i] = s[i]
    BY <1>1, <2>2, <2>6
  <2>9. \A i \in 1..(k + 1) : Prefix(k + 1)[i] = s[i]
    OBVIOUS
  <2> HIDE DEF Prefix
  <2>10. Append(Prefix(k), s[k + 1]) = Prefix(k + 1)
    BY <2>7, <2>8, <2>9
  <2> QED
    BY <2>2, <2>5, <2>10
<1> HIDE DEF S
<1>5. Nat \subseteq S
  BY <1>3, <1>4, NatSetInduction
<1>6. read[Len(s)] = Prefix(Len(s))
  BY <1>1, <1>5 DEF S
<1>7. Prefix(Len(s)) = s
  BY <1>1
<1> QED
  BY <1>2, <1>6, <1>7 DEF ElementsRead

(***************************************************************************)
(* "The shortest form that reads back as the same value" (Write.hpp:38):   *)
(* a value is read as it was written, and as nothing else, at every width  *)
(* and precision, but for those that Unspelled names: a uint64, a 64-bit   *)
(* integer that is no double, an infinite float and one whose decimal is   *)
(* rounded twice (Traits.hpp:98-106), an enum value without a name, what   *)
(* is out of the field's range, an unset optional, an empty list where the *)
(* field keeps its default.                                                *)
(***************************************************************************)
THEOREM ReadsBack ==
    ASSUME NEW f \in Fields, NEW v, FieldHolds(f, v), ~Unspelled(f, v)
    PROVE  Write(f, v) # NotJson /\ Read(f, Write(f, v)) = {v}
<1>1. CASE f.type \in Lists
  <2> DEFINE s == InOrder(f, v)
             items == [k \in DOMAIN s |-> WriteScalar(f.element, s[k])]
             n == List(items)
  <2>1. s \in Seq(Members(f, v)) /\ ToSet(s) = Members(f, v)
        /\ \A w \in Members(f, v) : Holds(f.element, w)
    BY <1>1, InOrderOf, ListHolds
  <2>2. DOMAIN s = 1..Len(s) /\ Len(s) \in Nat /\ \A k \in DOMAIN s : s[k] \in Members(f, v)
    BY <2>1
  <2>3. /\ ~(Members(f, v) = {} /\ f.keepDefaultIfEmpty)
        /\ \A w \in Members(f, v) : ~UnspelledScalar(f.element, f.range, w)
    BY <1>1 DEF Unspelled, Lists
  <2>4. ASSUME NEW k \in DOMAIN s
        PROVE  items[k] # NotJson /\ ReadScalar(f.element, f.range, items[k]) = {s[k]}
    BY <2>1, <2>2, <2>3, FieldShape, ScalarReadBack
  <2>5. Write(f, v) = n
    <3>1. Write(f, v) = IF \E k \in DOMAIN items : items[k] = NotJson THEN NotJson ELSE List(items)
      BY <1>1 DEF Write, WriteElements, InOrder, Lists
    <3> QED
      BY <2>4, <3>1
  <2>6. DOMAIN items = DOMAIN s /\ Len(items) = Len(s)
    BY <2>2
  <2> HIDE DEF items, s
  <2>7. n # NotJson /\ n.kind = "list" /\ n.items = items
    BY DEF List, NotJson
  <2> HIDE DEF n
  <2>8. Elements(n) = items
    BY <2>7 DEF Elements
  <2>9. \A k \in 1..Len(s) : Readings(f, n, k) = {s[k]}
    BY <2>2, <2>4, <2>8 DEF Readings
  <2>10. ReadElements(f, n) = s
    BY <2>1, <2>6, <2>8, <2>9, ElementsReadBack
  <2>11. ~(s = <<>> /\ f.keepDefaultIfEmpty)
    <3>1. s = <<>> => Members(f, v) = {}
      BY <2>1, <2>2 DEF ToSet
    <3> QED
      BY <2>3, <3>1
  <2>12. Collected(f, s) = v
    BY <2>1 DEF Collected, InOrder, Members, s
  <2>13. ReadList(f, n) = {v}
    BY <2>7, <2>10, <2>11, <2>12 DEF ReadList
  <2> QED
    BY <1>1, <2>5, <2>7, <2>13 DEF Read, Lists
<1>2. CASE f.type = "optional"
  <2>1. v # Unset /\ ~UnspelledScalar(f.element, f.range, v) /\ Holds(f.element, v)
    BY <1>2 DEF Unspelled, FieldHolds, Lists
  <2>2. Write(f, v) = WriteScalar(f.element, v)
    BY <1>2, <2>1 DEF Write, Lists
  <2>3. \A n : Read(f, n) = ReadScalar(f.element, f.range, n)
    BY <1>2 DEF Read, Lists
  <2> QED
    BY <2>1, <2>2, <2>3, FieldShape, ScalarReadBack
<1>3. CASE f.type \in ScalarTypes
  <2>1. f.type \notin Lists /\ f.type # "optional"
    BY <1>3 DEF ScalarTypes, IntegerTypes, FloatingTypes, Lists
  <2>2. ~UnspelledScalar(f.type, f.range, v) /\ Holds(f.type, v)
    BY <2>1 DEF Unspelled, FieldHolds
  <2>3. Write(f, v) = WriteScalar(f.type, v)
    BY <2>1 DEF Write
  <2>4. \A n : Read(f, n) = ReadScalar(f.type, f.range, n)
    BY <2>1 DEF Read
  <2> QED
    BY <1>3, <2>2, <2>3, <2>4, FieldShape, ScalarReadBack
<1> QED
  BY <1>1, <1>2, <1>3, FieldShape

\* Between a save and what follows it, the file holds what was written.
Saved == subject = "setting" /\ last = "save" => node = Write(field, value)

(***************************************************************************)
(* What is saved loads as it was, for every value of every type but the    *)
(* ones Unspelled names, as in ReadsBack (Write.hpp:38, ConfigFile.hpp:    *)
(* 129-171).                                                               *)
(***************************************************************************)
THEOREM SavesReadBack == Spec => WrittenReadsBack
<1> DEFINE Back == last = "save" /\ last' = "load" => value' = value \/ Unspelled(field, value)
<1>1. Init => Saved
  BY DEF Init, SettingInit, Saved
<1>2. Saved /\ [Next]_vars => Saved'
  <2> SUFFICES ASSUME Saved, [Next]_vars PROVE Saved'
    OBVIOUS
  <2>1. CASE UNCHANGED vars
    BY <2>1 DEF Saved, vars, settingVars
  <2>2. CASE subject = "setting" /\ SettingNext /\ UNCHANGED <<subject, text>>
    BY <2>2 DEF SettingNext, Load, Save, Set, Saved
  <2>3. ASSUME subject # "setting", NEW symbol \in Alphabet[subject], Grow(symbol)
        PROVE  Saved'
    BY <2>3 DEF Grow, Saved
  <2> QED
    BY <2>1, <2>2, <2>3 DEF Next
<1>3. TypeOK /\ Saved /\ [Next]_vars => [Back]_settingVars
  <2> SUFFICES ASSUME TypeOK, Saved, Next, ~UNCHANGED settingVars, last = "save", last' = "load",
                      ~Unspelled(field, value)
               PROVE  value' = value
    BY DEF vars
  <2>1. subject = "setting" /\ SettingTypeOK /\ SettingNext
    BY DEF Next, Grow, TypeOK
  <2>2. Load
    BY <2>1 DEF SettingNext, Save, Set
  <2>3. field \in Fields /\ FieldHolds(field, value) /\ node = Write(field, value)
    BY <2>1 DEF SettingTypeOK, Saved
  <2>4. node # NotJson /\ Read(field, node) = {value}
    BY <2>3, ReadsBack
  <2> QED
    BY <2>2, <2>4 DEF Load
<1>4. Spec => [][Back]_settingVars
  BY <1>1, <1>2, <1>3, ConversionsTypeCorrect, PTL DEF Spec
<1>5. (Spec => [][Back]_settingVars) <=> (Spec => WrittenReadsBack)
  BY DEF WrittenReadsBack
<1> QED
  BY <1>4, <1>5

-----------------------------------------------------------------------------
(* Wide texts *)

\* A sequence over a set is one over a larger set.
LEMMA LargerSet ==
    ASSUME NEW S, NEW T, S \subseteq T
    PROVE  Seq(S) \subseteq Seq(T)
  OBVIOUS

(***************************************************************************)
(* A wide setting costs the file nothing, whatever symbols its text is    *)
(* made of and however long it is (Utf.hpp:19-20, README.md:276-285): it   *)
(* is saved as well-formed UTF-8 with every plain character of it, and     *)
(* comes back as it was if it was well-formed.                             *)
(***************************************************************************)
THEOREM WideTextSurvivesAlways == Spec => []WideTextSurvives
<1>1. TypeOK => WideTextSurvives
  <2> SUFFICES ASSUME TypeOK PROVE WideTextSurvives
    OBVIOUS
  <2>1. subject # "setting" => text \in Seq(Alphabet[subject])
    BY DEF TypeOK
  <2>2. ASSUME subject = "bytes" PROVE BytesSurvive(text)
    <3>1. Alphabet["bytes"] \subseteq Byte
      BY AlphabetAssumption DEF Byte
    <3>2. text \in Seq(Byte)
      BY <2>1, <2>2, <3>1, LargerSet
    <3> QED
      BY <3>2, BytesSurviveAlways
  <2>3. ASSUME subject = "units16" PROVE UnitsSurvive(16, text)
    <3>1. Alphabet["units16"] \subseteq Units(16)
      BY AlphabetAssumption DEF Units
    <3>2. text \in Seq(Units(16))
      BY <2>1, <2>3, <3>1, LargerSet
    <3> QED
      BY <3>2, UnitsSurviveAlways
  <2>4. ASSUME subject = "units32" PROVE UnitsSurvive(32, text)
    <3>1. Alphabet["units32"] \subseteq Units(32)
      BY AlphabetAssumption DEF Units
    <3>2. text \in Seq(Units(32))
      BY <2>1, <2>4, <3>1, LargerSet
    <3> QED
      BY <3>2, UnitsSurviveAlways
  <2> QED
    BY <2>2, <2>3, <2>4 DEF WideTextSurvives
<1> QED
  BY <1>1, ConversionsTypeCorrect, PTL

(***************************************************************************)
(* However long a file grows, the scanner and the library agree on its     *)
(* trailing commas (Jsonc.hpp:5-9), unless a carriage return stands in it  *)
(* without a line feed after it.                                           *)
(***************************************************************************)
THEOREM TrailingCommasMatchAlways == Spec => []TrailingCommasMatch
<1>1. TypeOK => TrailingCommasMatch
  <2> SUFFICES ASSUME TypeOK, subject = "file" PROVE CommasMatch(text)
    BY DEF TrailingCommasMatch
  <2>1. text \in Seq(Alphabet["file"])
    BY DEF TypeOK
  <2> QED
    BY <2>1, CommasAlwaysMatch, Zenon
<1> QED
  BY <1>1, ConversionsTypeCorrect, PTL

(***************************************************************************)
(* Whatever text the mod puts into a setting and into the help text beside *)
(* it, the file a save writes comes through the scanner untouched and      *)
(* gives the text back (Write.cpp).                                        *)
(***************************************************************************)
THEOREM RenderedTextSurvivesAlways == Spec => []RenderedTextSurvives
<1>1. TypeOK => RenderedTextSurvives
  <2> SUFFICES ASSUME TypeOK, subject = "value" PROVE RenderedSurvives(text)
    BY DEF RenderedTextSurvives
  <2>1. text \in Seq(Alphabet["value"])
    BY DEF TypeOK
  <2> QED
    BY <2>1, RenderedAlwaysSurvives, Zenon
<1> QED
  BY <1>1, ConversionsTypeCorrect, PTL
=============================================================================
