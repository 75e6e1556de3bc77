------------------------------- MODULE Numbers -------------------------------
(***************************************************************************)
(* The numbers a file can spell and the C++ types that hold them, at       *)
(* widths scaled down: WideHalf stands for 2^63, NarrowHalf for 2^31, and  *)
(* the significands of a double and a float for 53 and 24 bits.  Their     *)
(* order is that of the code, so each edge of the code has its own here.   *)
(*                                                                         *)
(* Every number is counted in halves, so that there are fractions.  An     *)
(* operation that may fail, or whose outcome the language leaves open,     *)
(* returns the set of its outcomes; the empty set is "returns false".      *)
(***************************************************************************)
EXTENDS Integers, Sequences

CONSTANTS
    WideHalf, NarrowHalf,       \* half the values of an std::int64_t and of an int
    DoubleBits, FloatBits,      \* the bits of a significand
    DoubleMax, FloatMax,        \* the largest finite values
    Exponential,                \* the whole numbers std::to_chars spells with an exponent
    FloatDecimal                \* FloatDecimal[v]: the decimal it spells for a float

One == 2
Whole(x) == x % One = 0

\* The powers of two.
Pow2[n \in Nat] == IF n = 0 THEN 1 ELSE 2 * Pow2[n - 1]

ASSUME NumbersAssumption ==
    /\ {WideHalf, NarrowHalf, DoubleBits, FloatBits, DoubleMax, FloatMax} \subseteq Nat \ {0}
    /\ FloatBits < DoubleBits /\ 2 * NarrowHalf <= WideHalf
    /\ One * 2 * NarrowHalf <= Pow2[DoubleBits] /\ Pow2[DoubleBits] < One * WideHalf
    /\ One * 2 * WideHalf <= FloatMax /\ FloatMax < DoubleMax
    /\ DoubleMax < Pow2[2 * DoubleBits + 1]
    /\ Exponential \subseteq {x \in Int : Whole(x)}

Infinity == 4 * DoubleMax   \* beyond every double
Finite(x) == x \in -DoubleMax..DoubleMax

Magnitude(x) == IF x < 0 THEN -x ELSE x
WithSign(x, magnitude) == IF x < 0 THEN -magnitude ELSE magnitude

Trunc(x) == WithSign(x, Magnitude(x) - (Magnitude(x) % One))

\* The power of two that counts so many bits of a number of this size.
Unit(size, bits) ==
    CHOOSE u \in {Pow2[k] : k \in 0..2 * DoubleBits} :
        /\ size < Pow2[bits] * u
        /\ u = 1 \/ Pow2[bits] * (u \div 2) <= size

\* The nearest number with so many significant bits, ties to even.
Nearest(x, bits) ==
    LET size == Magnitude(x)
        unit == Unit(size, bits)
        low  == size - (size % unit)
        up   == 2 * (size % unit) > unit
                    \/ (2 * (size % unit) = unit /\ (low \div unit) % 2 = 1)
    IN  WithSign(x, IF up THEN low + unit ELSE low)

Double(x) == Nearest(x, DoubleBits)

Float(x) ==
    LET rounded == Nearest(x, FloatBits)
    IN  IF Magnitude(rounded) > FloatMax THEN WithSign(x, Infinity) ELSE rounded

\* The numbers a double holds, and those a float does.
Doubles == {x \in -DoubleMax..DoubleMax : Double(x) = x}
Floats == {x \in -DoubleMax..DoubleMax : Float(x) = x}

\* A number exactly between two floats: a tie, which goes to the even one.
Halfway(x) ==
    LET unit == Unit(Magnitude(x), FloatBits) IN 2 * (Magnitude(x) % unit) = unit

\* The ends of the types are numbers the types hold: -2^63 is a double, and the
\* largest double and float are what they are.
ASSUME EndsAssumption ==
    Double(One * WideHalf) = One * WideHalf /\ Double(DoubleMax) = DoubleMax /\ Float(FloatMax) = FloatMax

\* The shortest decimal that tells a float from every other one: the float is the
\* nearest to it.  It is generally another number than the float.
ASSUME DecimalsAssumption ==
    \A v \in Floats : Finite(FloatDecimal[v]) /\ Float(FloatDecimal[v]) = v

-----------------------------------------------------------------------------
(* The integral types *)

IntegerTypes == {"int", "unsigned", "int64", "uint64"}
FloatingTypes == {"float", "double"}

Half(type) == IF type \in {"int64", "uint64"} THEN WideHalf ELSE NarrowHalf
Signed(type) == type \in {"int", "int64"}

\* std::numeric_limits.
Lowest(type) == IF Signed(type) THEN -(One * Half(type)) ELSE 0
Highest(type) == One * (IF Signed(type) THEN Half(type) - 1 ELSE 2 * Half(type) - 1)

\* static_cast<std::int64_t> of an integer: it wraps.
Wrap(x) == LET half == One * WideHalf IN ((x + half) % (2 * half)) - half

\* static_cast<std::int64_t> of a double: beyond the type it is undefined, and
\* processors answer with one end or the other.
ToInt64(x) ==
    IF Trunc(x) \in Lowest("int64")..Highest("int64") THEN {Trunc(x)}
    ELSE {Lowest("int64"), Highest("int64")}

-----------------------------------------------------------------------------
(* Numbers in a document *)

Number(form, x) == [kind |-> "number", form |-> form, number |-> x]

\* The numbers that the JSON library holds in each of its forms.
Numerals ==
    {Number("double", x) : x \in Doubles}
    \cup {Number("unsigned", x) : x \in {y \in 0..Highest("uint64") : Whole(y)}}
    \cup {Number("signed", x) : x \in {y \in Lowest("int64").. -1 : Whole(y)}}

\* How the JSON library holds a literal: without a fraction or an exponent as
\* the narrowest of its integers that has room, otherwise as a double.
ParseLiteral(literal) ==
    LET x == literal.number
    IN  IF literal.fractional \/ ~Whole(x) THEN Number("double", Double(x))
        ELSE IF x >= 0 /\ x <= Highest("uint64") THEN Number("unsigned", x)
        ELSE IF x < 0 /\ x >= Lowest("int64") THEN Number("signed", x)
        ELSE Number("double", Double(x))

AsInt64(node) ==
    IF node.kind # "number" \/ node.form = "double" THEN {} ELSE {Wrap(node.number)}

AsDouble(node) ==
    IF node.kind # "number" THEN {} ELSE {Double(node.number)}

\* A text that is a number from end to end; strtod makes the rest infinite.
ParseNumber(node) ==
    IF node.kind # "string" \/ Len(node.tokens) # 1 THEN {}
    ELSE {Double(t.number) : t \in {u \in {node.tokens[1]} : u.kind = "number" /\ Finite(u.number)}}

CoerceDouble(node) == AsDouble(node) \cup ParseNumber(node)

\* Variant with a bug: a number the library holds as a double is not taken for
\* an integer.
CoerceInt64WholeOnly(node) == AsInt64(node)

\* The bounds of the comparison are doubles, and the upper one rounds up.
CoerceInt64(node) ==
    IF AsInt64(node) # {} THEN AsInt64(node)
    ELSE UNION {ToInt64(x) : x \in
            {y \in CoerceDouble(node) :
                Trunc(y) >= Double(Lowest("int64")) /\ Trunc(y) <= Double(Highest("int64"))}}

\* A range is a pair of bounds, or empty.
Outside(range, x) == range # <<>> /\ (x < range[1] \/ x > range[2])

Clamp(range, x) ==
    IF ~Outside(range, x) THEN x ELSE IF x < range[1] THEN range[1] ELSE range[2]

-----------------------------------------------------------------------------
(* ValueTraits<M>::Read and Write for the arithmetic types *)

\* The numbers that are clamped: integers pass through a double on the way.
Clamped(type, node) ==
    IF type \in IntegerTypes THEN {Double(w) : w \in CoerceInt64(node)} ELSE CoerceDouble(node)

\* Variant with a bug: the value is cut to the width of the type.
ReadIntegerNarrows(type, range, node) ==
    LET base == One * 2 * Half(type)
    IN  {Lowest(type) + ((v - Lowest(type)) % base) :
            v \in UNION {ToInt64(Clamp(range, x)) : x \in Clamped(type, node)}}

\* Variant with a bug: nothing looks at the width of the type.
ReadIntegerUnchecked(type, range, node) ==
    UNION {ToInt64(Clamp(range, x)) : x \in Clamped(type, node)}

\* The limits are compared as 64-bit signed values, as the limit of a uint64 is
\* not: nothing passes between 0 and what it wraps to.
ReadInteger(type, range, node) ==
    {v \in UNION {ToInt64(Clamp(range, x)) : x \in Clamped(type, node)} :
        Wrap(Lowest(type)) <= v /\ v <= Wrap(Highest(type))}

ReadNumber(type, range, node) ==
    IF type \in IntegerTypes THEN ReadInteger(type, range, node)
    ELSE LET Hold(x) == IF type = "float" THEN Float(x) ELSE x
         IN  {Hold(Clamp(range, x)) : x \in Clamped(type, node)}

\* No spelling of an infinity is JSON.
NotJson == [kind |-> "invalid"]

\* The decimal of a double is nearest to that double, which is what the library
\* makes of it again: the number itself stands for it.
AppendJsonNumber(x, fractional) ==
    IF ~Finite(x) THEN NotJson
    ELSE ParseLiteral([number |-> x, fractional |-> fractional \/ x \in Exponential])

\* Variant with a bug: the decimal has too few digits.
AppendJsonFloatShort(v) ==
    IF ~Finite(v) THEN NotJson
    ELSE ParseLiteral([number |-> v - (v % 5), fractional |-> TRUE])

\* The decimal of a float is read as a double all the same.
AppendJsonFloat(v) ==
    IF ~Finite(v) THEN NotJson
    ELSE ParseLiteral([number |-> FloatDecimal[v], fractional |-> TRUE])

WriteNumber(type, value) ==
    CASE type \in IntegerTypes -> AppendJsonNumber(Double(value), FALSE)
      [] type = "float"        -> AppendJsonFloat(value)
      [] OTHER                 -> AppendJsonNumber(value, TRUE)
=============================================================================
