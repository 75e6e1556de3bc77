---------------------------- MODULE NumbersProof ----------------------------
(***************************************************************************)
(* Rounding, and what reading an integer can and cannot return, for every  *)
(* width and every precision: the powers of two, which are a recursive     *)
(* function, what a number is rounded to, that rounding again changes      *)
(* nothing and that it keeps the order.                                    *)
(***************************************************************************)
EXTENDS Numbers, Recursion

-----------------------------------------------------------------------------
(* Powers of two *)

\* The powers of two are what their definition says.
LEMMA Powers ==
    /\ Pow2 \in [Nat -> Nat \ {0}]
    /\ Pow2[0] = 1
    /\ \A n \in Nat : Pow2[n + 1] = 2 * Pow2[n]
<1> DEFINE V == Nat \ {0}
           step == [n \in Nat |-> [p \in V |-> 2 * p]]
           Is(f) == f = [n \in Nat |-> IF n = 0 THEN 1 ELSE 2 * f[n - 1]]
           start == 1
<1>1. start \in V /\ step \in [Nat -> [V -> V]]
  OBVIOUS
<1> HIDE DEF step, V, start
<1>2. PICK f : IsIteration(f, V, start, step)
  BY <1>1, Iterates
<1> USE DEF start, V
<1>3. f \in [Nat -> V] /\ f[0] = 1 /\ \A n \in Nat : f[n + 1] = step[n][f[n]]
  BY <1>2 DEF IsIteration
<1>4. ASSUME NEW n \in Nat PROVE f[n] = IF n = 0 THEN 1 ELSE 2 * f[n - 1]
  <2>1. CASE n = 0
    BY <1>3, <2>1
  <2>2. CASE n # 0
    <3>1. n - 1 \in Nat /\ (n - 1) + 1 = n
      BY <2>2
    <3>2. f[n] = step[n - 1][f[n - 1]]
      BY <1>3, <3>1
    <3> QED
      BY <1>3, <2>2, <3>1, <3>2 DEF step
  <2> QED
    BY <2>1, <2>2
<1>5. Is(f)
  BY <1>3, <1>4
<1>6. Is(Pow2)
  BY <1>5 DEF Pow2
<1>7. ASSUME NEW n \in Nat PROVE Pow2[n] = IF n = 0 THEN 1 ELSE 2 * Pow2[n - 1]
  BY <1>6
<1> HIDE DEF Is
<1>8. ASSUME NEW n \in Nat PROVE Pow2[n + 1] = 2 * Pow2[n]
  BY <1>7
<1> DEFINE S == {n \in Nat : Pow2[n] \in Nat \ {0}}
<1>9. 0 \in S
  BY <1>7
<1>10. \A n \in Nat : n \in S => n + 1 \in S
  BY <1>8
<1> HIDE DEF S
<1>11. Nat \subseteq S
  BY <1>9, <1>10, NatSetInduction
<1>12. \A n \in Nat : Pow2[n] \in Nat \ {0}
  BY <1>11 DEF S
<1> QED
  BY <1>6, <1>7, <1>8, <1>12 DEF Is

-----------------------------------------------------------------------------
(* Rounding *)

\* The power of a sum is the product of the powers.
LEMMA PowersAdd == \A m \in Nat, n \in Nat : Pow2[m + n] = Pow2[m] * Pow2[n]
<1> SUFFICES ASSUME NEW m \in Nat PROVE \A n \in Nat : Pow2[m + n] = Pow2[m] * Pow2[n]
  OBVIOUS
<1> DEFINE S == {n \in Nat : Pow2[m + n] = Pow2[m] * Pow2[n]}
<1>1. 0 \in S
  BY Powers
<1>2. ASSUME NEW n \in Nat, n \in S PROVE n + 1 \in S
  <2>1. Pow2[m] \in Int /\ Pow2[n] \in Int /\ Pow2[m + n] = Pow2[m] * Pow2[n]
    BY <1>2, Powers
  <2>2. Pow2[m + (n + 1)] = 2 * Pow2[m + n] /\ Pow2[n + 1] = 2 * Pow2[n]
    <3>1. m + (n + 1) = (m + n) + 1 /\ m + n \in Nat
      OBVIOUS
    <3> QED
      BY <3>1, Powers
  <2>3. 2 * (Pow2[m] * Pow2[n]) = Pow2[m] * (2 * Pow2[n])
    BY <2>1
  <2> QED
    BY <2>1, <2>2, <2>3
<1> HIDE DEF S
<1>3. Nat \subseteq S
  BY <1>1, <1>2, NatSetInduction
<1> QED
  BY <1>3 DEF S

\* A greater power is at least twice as much.
LEMMA PowersGrow ==
    ASSUME NEW m \in Nat, NEW n \in Nat, m < n
    PROVE  2 * Pow2[m] <= Pow2[n]
<1>1. n - (m + 1) \in Nat /\ m + 1 \in Nat /\ n = (m + 1) + (n - (m + 1))
  OBVIOUS
<1>2. Pow2[n] = Pow2[m + 1] * Pow2[n - (m + 1)]
  BY <1>1, PowersAdd
<1>3. Pow2[m + 1] = 2 * Pow2[m] /\ Pow2[m] \in Nat \ {0} /\ Pow2[n - (m + 1)] \in Nat \ {0}
  BY <1>1, Powers
<1>4. ASSUME NEW a \in Nat \ {0}, NEW b \in Nat \ {0} PROVE a <= a * b
  OBVIOUS
<1> QED
  BY <1>2, <1>3, <1>4

\* A greater exponent has no smaller power.
LEMMA PowersMonotone ==
    ASSUME NEW m \in Nat, NEW n \in Nat, m <= n
    PROVE  Pow2[m] <= Pow2[n]
<1>1. CASE m = n
  BY <1>1, Powers
<1>2. CASE m < n
  BY <1>2, PowersGrow, Powers
<1> QED
  BY <1>1, <1>2

\* x is a multiple of u.
Multiple(u, x) == \E q \in Int : x = q * u

\* Every power is a multiple of the smaller ones.
LEMMA PowersMultiple ==
    ASSUME NEW m \in Nat, NEW n \in Nat, m <= n
    PROVE  Multiple(Pow2[m], Pow2[n])
<1>1. n - m \in Nat /\ n = (n - m) + m
  OBVIOUS
<1>2. Pow2[(n - m) + m] = Pow2[n - m] * Pow2[m]
  BY <1>1, PowersAdd
<1>3. Pow2[n - m] \in Int
  BY <1>1, Powers
<1> QED
  BY <1>1, <1>2, <1>3 DEF Multiple

\* Multiples of the same number are at least that far apart.
LEMMA MultiplesApart ==
    ASSUME NEW u \in Nat \ {0}, NEW x \in Int, NEW y \in Int,
           Multiple(u, x), Multiple(u, y), x < y + u
    PROVE  x <= y
<1>1. PICK p \in Int : x = p * u
  BY DEF Multiple
<1>2. PICK q \in Int : y = q * u
  BY DEF Multiple
<1>3. p <= q
  BY <1>1, <1>2
<1>4. \A r \in Int, s \in Int : r <= s => r * u <= s * u
  OBVIOUS
<1> QED
  BY <1>1, <1>2, <1>3, <1>4

\* The unit in which a number of this size is rounded is Pow2[k].
IsUnit(size, bits, k) ==
    /\ k \in 0..2 * DoubleBits
    /\ size < Pow2[bits + k]
    /\ k = 0 \/ Pow2[bits + k - 1] <= size

\* The two precisions are numbers, and a double has at least two bits.
LEMMA Bits == DoubleBits \in Nat /\ FloatBits \in Nat \ {0} /\ FloatBits < DoubleBits /\ DoubleBits >= 2
  BY NumbersAssumption

\* A number in reach of the units has one, by induction over the exponents.
LEMMA UnitExists ==
    ASSUME NEW size \in Nat, NEW bits \in Nat \ {0}, size < Pow2[bits + 2 * DoubleBits]
    PROVE  \E k : IsUnit(size, bits, k)
<1> DEFINE S == {n \in Nat : size < Pow2[bits + n] =>
                    \E k \in 0..n : size < Pow2[bits + k] /\ (k = 0 \/ Pow2[bits + k - 1] <= size)}
<1>1. 0 \in S
  OBVIOUS
<1>2. ASSUME NEW n \in Nat, n \in S PROVE n + 1 \in S
  <2>1. SUFFICES ASSUME size < Pow2[bits + (n + 1)]
                 PROVE  \E k \in 0..n + 1 :
                            size < Pow2[bits + k] /\ (k = 0 \/ Pow2[bits + k - 1] <= size)
    OBVIOUS
  <2>2. CASE size < Pow2[bits + n]
    <3>1. PICK k \in 0..n : size < Pow2[bits + k] /\ (k = 0 \/ Pow2[bits + k - 1] <= size)
      BY <1>2, <2>2
    <3>2. k \in 0..n + 1
      OBVIOUS
    <3> QED
      BY <3>1, <3>2
  <2>3. CASE ~(size < Pow2[bits + n])
    <3>1. bits + n \in Nat /\ bits + (n + 1) - 1 = bits + n
      OBVIOUS
    <3>2. Pow2[bits + (n + 1) - 1] <= size
      BY <2>3, <3>1, Powers
    <3>3. n + 1 \in 0..n + 1
      OBVIOUS
    <3> QED
      BY <2>1, <3>2, <3>3
  <2> QED
    BY <2>2, <2>3
<1> HIDE DEF S
<1>3. Nat \subseteq S
  BY <1>1, <1>2, NatSetInduction
<1>4. 2 * DoubleBits \in S
  BY <1>3, Bits
<1>5. PICK k \in 0..2 * DoubleBits : size < Pow2[bits + k] /\ (k = 0 \/ Pow2[bits + k - 1] <= size)
  BY <1>4 DEF S
<1> QED
  BY <1>5 DEF IsUnit

\* The greater of two sizes has the greater unit.
LEMMA UnitsOrdered ==
    ASSUME NEW bits \in Nat \ {0}, NEW x \in Nat, NEW y \in Nat, x <= y,
           NEW k \in Nat, NEW m \in Nat, IsUnit(x, bits, k), IsUnit(y, bits, m)
    PROVE  k <= m
<1>1. SUFFICES ASSUME m < k PROVE FALSE
  OBVIOUS
<1>2. bits + m \in Nat /\ bits + k - 1 \in Nat /\ bits + m <= bits + k - 1 /\ k # 0
  BY <1>1
<1>3. Pow2[bits + m] <= Pow2[bits + k - 1]
  BY <1>2, PowersMonotone
<1>4. Pow2[bits + k - 1] <= x /\ y < Pow2[bits + m]
  BY <1>2 DEF IsUnit
<1>5. Pow2[bits + m] \in Int /\ Pow2[bits + k - 1] \in Int
  BY <1>2, Powers
<1> QED
  BY <1>3, <1>4, <1>5

\* The unit that Nearest chooses is the only one there is.
LEMMA UnitChosen ==
    ASSUME NEW size \in Nat, NEW bits \in Nat \ {0}, NEW k, IsUnit(size, bits, k)
    PROVE  Unit(size, bits) = Pow2[k]
<1> DEFINE Fits(u) == /\ size < Pow2[bits] * u
                      /\ u = 1 \/ Pow2[bits] * (u \div 2) <= size
           Units == {Pow2[j] : j \in 0..2 * DoubleBits}
<1>1. ASSUME NEW j \in 0..2 * DoubleBits
      PROVE  /\ Fits(Pow2[j]) <=> IsUnit(size, bits, j)
             /\ Pow2[j] \in Units
  <2>1. j \in Nat
    BY Bits
  <2>2. Pow2[bits] * Pow2[j] = Pow2[bits + j]
    BY <2>1, PowersAdd
  <2>3. CASE j = 0
    BY <2>2, <2>3, Powers DEF IsUnit
  <2>4. CASE j # 0
    <3>1. j - 1 \in Nat /\ (j - 1) + 1 = j /\ bits + (j - 1) = bits + j - 1
      BY <2>1, <2>4
    <3>2. Pow2[j] = 2 * Pow2[j - 1] /\ Pow2[j - 1] \in Nat \ {0}
      BY <3>1, Powers
    <3>3. Pow2[j] \div 2 = Pow2[j - 1] /\ Pow2[j] # 1
      BY <3>2
    <3>4. Pow2[bits] * Pow2[j - 1] = Pow2[bits + j - 1]
      BY <3>1, PowersAdd
    <3> QED
      BY <2>2, <2>4, <3>3, <3>4 DEF IsUnit
  <2> QED
    BY <2>3, <2>4
<1>2. k \in 0..2 * DoubleBits
  BY DEF IsUnit
<1>3. Pow2[k] \in Units /\ Fits(Pow2[k])
  BY <1>1, <1>2
<1>4. ASSUME NEW u \in Units, Fits(u) PROVE u = Pow2[k]
  <2>1. PICK j \in 0..2 * DoubleBits : u = Pow2[j]
    OBVIOUS
  <2>2. IsUnit(size, bits, j) /\ j \in Nat /\ k \in Nat
    BY <1>1, <1>2, <1>4, <2>1, Bits
  <2>3. j <= k /\ k <= j
    BY <2>2, UnitsOrdered
  <2> QED
    BY <2>1, <2>2, <2>3
<1>5. Unit(size, bits) = CHOOSE u \in Units : Fits(u)
  BY DEF Unit
<1> HIDE DEF Fits, Units
<1> QED
  BY <1>3, <1>4, <1>5

\* What Nearest returns, without its remainders: a multiple of the unit that is
\* less than a unit away.
IsRounded(x, bits, k, r) ==
    /\ IsUnit(Magnitude(x), bits, k)
    /\ r \in Nat /\ Multiple(Pow2[k], r)
    /\ r < Magnitude(x) + Pow2[k] /\ Magnitude(x) < r + Pow2[k]
    /\ Multiple(Pow2[k], Magnitude(x)) => r = Magnitude(x)

\* A magnitude is a natural number.
LEMMA MagnitudeNat == \A x \in Int : Magnitude(x) \in Nat
  BY DEF Magnitude

\* Nearest returns such a multiple, with the sign of the number.
LEMMA NearestRounds ==
    ASSUME NEW x \in Int, NEW bits \in Nat \ {0}, NEW k, IsUnit(Magnitude(x), bits, k)
    PROVE  \E r : IsRounded(x, bits, k, r) /\ Nearest(x, bits) = WithSign(x, r)
<1> DEFINE size == Magnitude(x)
           unit == Pow2[k]
           low == size - (size % unit)
           up == 2 * (size % unit) > unit
                    \/ (2 * (size % unit) = unit /\ (low \div unit) % 2 = 1)
           r == IF up THEN low + unit ELSE low
<1>1. size \in Nat /\ k \in Nat /\ unit \in Nat \ {0}
  BY MagnitudeNat, Bits, Powers DEF IsUnit
<1>2. Nearest(x, bits) = WithSign(x, r)
  <2>1. Unit(Magnitude(x), bits) = Pow2[k]
    BY <1>1, UnitChosen
  <2> QED
    BY <2>1 DEF Nearest
<1> HIDE DEF size, unit
<1>3. size % unit \in 0..unit - 1 /\ size \div unit \in Nat
      /\ size = unit * (size \div unit) + (size % unit)
  BY <1>1
<1>4. Multiple(unit, low)
  <2>1. low = (size \div unit) * unit
    BY <1>1, <1>3
  <2> QED
    BY <1>3, <2>1 DEF Multiple
<1>5. Multiple(unit, low + unit)
  <2>1. PICK q \in Int : low = q * unit
    BY <1>4 DEF Multiple
  <2>2. low + unit = (q + 1) * unit
    BY <1>1, <2>1
  <2> QED
    BY <2>2 DEF Multiple
<1>6. low \in Nat /\ low <= size /\ size < low + unit
  <2>1. size % unit <= size
    BY <1>1, <1>3
  <2> QED
    BY <1>1, <1>3, <2>1
<1>7. up => low # size
  BY <1>1, <1>3
<1> HIDE DEF up, low
<1>8. r \in Nat /\ Multiple(unit, r) /\ r < size + unit /\ size < r + unit
  BY <1>1, <1>4, <1>5, <1>6, <1>7
<1>9. Multiple(unit, size) => r = size
  <2>1. SUFFICES ASSUME Multiple(unit, size) PROVE r = size
    OBVIOUS
  <2>2. size <= low
    BY <1>1, <1>4, <1>6, <2>1, MultiplesApart
  <2>3. low = size
    BY <1>1, <1>6, <2>2
  <2> QED
    BY <1>7, <2>3
<1> HIDE DEF r
<1>10. IsRounded(x, bits, k, r)
  BY <1>8, <1>9 DEF IsRounded, size, unit
<1> QED
  BY <1>2, <1>10

\* Numbers small enough to have a unit.
InReach(x, bits) == x \in Int /\ Magnitude(x) < Pow2[bits + 2 * DoubleBits]

\* A sign given to a magnitude can be taken off it again.
LEMMA Signs ==
    ASSUME NEW x \in Int, NEW r \in Nat
    PROVE  /\ WithSign(x, r) \in Int /\ Magnitude(WithSign(x, r)) = r
           /\ WithSign(x, r) = x <=> r = Magnitude(x)
           /\ \A s \in Nat : WithSign(WithSign(x, r), s) = IF r = 0 THEN s ELSE WithSign(x, s)
  BY DEF WithSign, Magnitude

\* The unit of a number in reach, and what Nearest makes of the number.
LEMMA NearestOf ==
    ASSUME NEW bits \in Nat \ {0}, NEW x, InReach(x, bits)
    PROVE  \E k \in Nat : \E r \in Nat :
                IsRounded(x, bits, k, r) /\ Nearest(x, bits) = WithSign(x, r)
<1>1. x \in Int /\ Magnitude(x) \in Nat /\ Magnitude(x) < Pow2[bits + 2 * DoubleBits]
  BY MagnitudeNat DEF InReach
<1>2. PICK k : IsUnit(Magnitude(x), bits, k)
  BY <1>1, UnitExists
<1>3. PICK r : IsRounded(x, bits, k, r) /\ Nearest(x, bits) = WithSign(x, r)
  BY <1>1, <1>2, NearestRounds
<1>4. k \in Nat /\ r \in Nat
  BY <1>2, <1>3, Bits DEF IsUnit, IsRounded
<1> QED
  BY <1>3, <1>4

\* A number is what Nearest makes of it just when it is a multiple of its unit.
LEMMA ExactMultiple ==
    ASSUME NEW bits \in Nat \ {0}, NEW x \in Int, NEW k, IsUnit(Magnitude(x), bits, k)
    PROVE  Nearest(x, bits) = x <=> Multiple(Pow2[k], Magnitude(x))
<1>1. PICK r : IsRounded(x, bits, k, r) /\ Nearest(x, bits) = WithSign(x, r)
  BY NearestRounds
<1>2. r \in Nat /\ Multiple(Pow2[k], r) /\ (Multiple(Pow2[k], Magnitude(x)) => r = Magnitude(x))
  BY <1>1 DEF IsRounded
<1>3. WithSign(x, r) = x <=> r = Magnitude(x)
  BY <1>2, Signs
<1> QED
  BY <1>1, <1>2, <1>3

\* Rounding keeps the sign and returns an integral number of halves.
LEMMA NearestSign ==
    ASSUME NEW bits \in Nat \ {0}, NEW x, InReach(x, bits)
    PROVE  /\ Nearest(x, bits) \in Int
           /\ x >= 0 => Nearest(x, bits) >= 0
           /\ x <= 0 => Nearest(x, bits) <= 0
<1>1. PICK k \in Nat : \E r \in Nat :
                IsRounded(x, bits, k, r) /\ Nearest(x, bits) = WithSign(x, r)
  BY NearestOf
<1>2. PICK r \in Nat : IsRounded(x, bits, k, r) /\ Nearest(x, bits) = WithSign(x, r)
  BY <1>1
<1>3. x \in Int
  BY DEF InReach
<1>4. x # 0 \/ r = 0
  <2>1. SUFFICES ASSUME x = 0 PROVE r = 0
    OBVIOUS
  <2>2. Magnitude(x) = 0 /\ 0 = 0 * Pow2[k]
    BY <2>1, Powers DEF Magnitude
  <2> QED
    BY <1>2, <2>2 DEF IsRounded, Multiple
<1> QED
  BY <1>2, <1>3, <1>4 DEF WithSign

\* What a number is rounded to stays within the power of two above it and the one
\* below it, and on its side of every multiple of the unit.
LEMMA RoundedBounds ==
    ASSUME NEW bits \in Nat \ {0}, NEW x \in Int, NEW k \in Nat, NEW r \in Nat,
           IsRounded(x, bits, k, r)
    PROVE  /\ r <= Pow2[bits + k]
           /\ k = 0 \/ Pow2[bits + k - 1] <= r
           /\ \A d \in Nat : Multiple(Pow2[k], d) =>
                    (d <= Magnitude(x) => d <= r) /\ (Magnitude(x) <= d => r <= d)
<1>1. Magnitude(x) \in Nat /\ Pow2[k] \in Nat \ {0}
  BY MagnitudeNat, Powers
<1>2. Multiple(Pow2[k], r) /\ r < Magnitude(x) + Pow2[k] /\ Magnitude(x) < r + Pow2[k]
  BY DEF IsRounded
<1>3. ASSUME NEW d \in Nat, Multiple(Pow2[k], d)
      PROVE  (d <= Magnitude(x) => d <= r) /\ (Magnitude(x) <= d => r <= d)
  <2>1. ASSUME d <= Magnitude(x) PROVE d <= r
    <3>1. d < r + Pow2[k]
      BY <1>1, <1>2, <2>1
    <3> QED
      BY <1>1, <1>2, <1>3, <3>1, MultiplesApart
  <2>2. ASSUME Magnitude(x) <= d PROVE r <= d
    <3>1. r < d + Pow2[k]
      BY <1>1, <1>2, <2>2
    <3> QED
      BY <1>1, <1>2, <1>3, <3>1, MultiplesApart
  <2> QED
    BY <2>1, <2>2
<1>4. r <= Pow2[bits + k]
  <2>1. bits + k \in Nat /\ k <= bits + k
    OBVIOUS
  <2>2. Multiple(Pow2[k], Pow2[bits + k]) /\ Pow2[bits + k] \in Nat
    BY <2>1, PowersMultiple, Powers
  <2>3. Magnitude(x) <= Pow2[bits + k]
    BY <1>1, <2>2 DEF IsRounded, IsUnit
  <2> QED
    BY <1>3, <2>2, <2>3
<1>5. ASSUME k # 0 PROVE Pow2[bits + k - 1] <= r
  <2>1. bits + k - 1 \in Nat /\ k <= bits + k - 1
    OBVIOUS
  <2>2. Multiple(Pow2[k], Pow2[bits + k - 1]) /\ Pow2[bits + k - 1] \in Nat
    BY <2>1, PowersMultiple, Powers
  <2>3. Pow2[bits + k - 1] <= Magnitude(x)
    BY <1>5 DEF IsRounded, IsUnit
  <2> QED
    BY <1>3, <2>2, <2>3
<1> QED
  BY <1>3, <1>4, <1>5

(***************************************************************************)
(* Rounding once is rounding for good: what a number is rounded to is the  *)
(* same number when it is rounded again, for every number of bits.         *)
(***************************************************************************)
THEOREM NearestIdempotent ==
    ASSUME NEW bits \in Nat \ {0}, NEW x, InReach(x, bits), InReach(Nearest(x, bits), bits)
    PROVE  Nearest(Nearest(x, bits), bits) = Nearest(x, bits)
<1>1. PICK k \in Nat : \E s \in Nat :
                IsRounded(x, bits, k, s) /\ Nearest(x, bits) = WithSign(x, s)
  BY NearestOf
<1>2. PICK r \in Nat : IsRounded(x, bits, k, r) /\ Nearest(x, bits) = WithSign(x, r)
  BY <1>1
<1> DEFINE y == Nearest(x, bits)
<1>3. x \in Int /\ y \in Int /\ Magnitude(y) = r /\ r < Pow2[bits + 2 * DoubleBits]
  BY <1>2, Signs DEF InReach
<1>4. k \in 0..2 * DoubleBits /\ Multiple(Pow2[k], r)
  BY <1>2 DEF IsRounded, IsUnit
<1>5. r <= Pow2[bits + k] /\ (k = 0 \/ Pow2[bits + k - 1] <= r)
  BY <1>2, <1>3, RoundedBounds
<1> HIDE DEF y
<1>6. CASE r < Pow2[bits + k]
  <2>1. IsUnit(Magnitude(y), bits, k)
    BY <1>3, <1>4, <1>5, <1>6 DEF IsUnit
  <2> QED
    BY <1>3, <1>4, <2>1, ExactMultiple DEF y
<1>7. CASE ~(r < Pow2[bits + k])
  <2>1. bits + k \in Nat /\ bits + (k + 1) = (bits + k) + 1 /\ bits + (k + 1) - 1 = bits + k
    OBVIOUS
  <2>2. r = Pow2[bits + k] /\ Pow2[bits + (k + 1)] = 2 * Pow2[bits + k] /\ Pow2[bits + k] \in Nat \ {0}
    BY <1>5, <1>7, <2>1, Powers
  <2>3. k + 1 \in 0..2 * DoubleBits
    BY <1>3, <1>4, <2>2, Bits
  <2>4. IsUnit(Magnitude(y), bits, k + 1)
    BY <1>3, <2>1, <2>2, <2>3 DEF IsUnit
  <2>5. k + 1 \in Nat /\ k + 1 <= bits + k
    OBVIOUS
  <2>6. Multiple(Pow2[k + 1], r)
    BY <2>1, <2>2, <2>5, PowersMultiple
  <2> QED
    BY <1>3, <2>4, <2>6, ExactMultiple DEF y
<1> QED
  BY <1>6, <1>7

(***************************************************************************)
(* Rounding never leaves a number it could have kept behind: a number that *)
(* is exactly held stands between the same numbers before and after.       *)
(***************************************************************************)
THEOREM NearestOrdered ==
    ASSUME NEW bits \in Nat \ {0}, NEW x, InReach(x, bits),
           NEW d \in Nat, InReach(d, bits), Nearest(d, bits) = d
    PROVE  /\ d <= Magnitude(x) => d <= Magnitude(Nearest(x, bits))
           /\ Magnitude(x) <= d => Magnitude(Nearest(x, bits)) <= d
<1>1. PICK k \in Nat : \E s \in Nat :
                IsRounded(x, bits, k, s) /\ Nearest(x, bits) = WithSign(x, s)
  BY NearestOf
<1>2. PICK r \in Nat : IsRounded(x, bits, k, r) /\ Nearest(x, bits) = WithSign(x, r)
  BY <1>1
<1>3. x \in Int /\ Magnitude(x) \in Nat /\ Magnitude(d) = d /\ d \in Int
  BY MagnitudeNat DEF InReach, Magnitude
<1>4. Magnitude(Nearest(x, bits)) = r
  BY <1>2, <1>3, Signs
<1>5. PICK m \in Nat : \E s \in Nat : IsRounded(d, bits, m, s)
  BY NearestOf
<1>6. IsUnit(d, bits, m) /\ IsUnit(Magnitude(x), bits, k)
  BY <1>2, <1>3, <1>5 DEF IsRounded
<1>7. Multiple(Pow2[m], d)
  BY <1>3, <1>6, ExactMultiple
<1>8. r <= Pow2[bits + k] /\ (k = 0 \/ Pow2[bits + k - 1] <= r)
      /\ (Multiple(Pow2[k], d) => (d <= Magnitude(x) => d <= r) /\ (Magnitude(x) <= d => r <= d))
  BY <1>2, <1>3, RoundedBounds
<1>9. ASSUME d <= Magnitude(x) PROVE d <= r
  <2>1. m <= k
    BY <1>3, <1>6, <1>9, UnitsOrdered
  <2>2. CASE m = k
    BY <1>7, <1>8, <1>9, <2>2
  <2>3. CASE m < k
    <3>1. bits + m \in Nat /\ bits + k - 1 \in Nat /\ bits + m <= bits + k - 1 /\ k # 0
      BY <2>3
    <3>2. Pow2[bits + m] <= Pow2[bits + k - 1] /\ Pow2[bits + m] \in Nat /\ Pow2[bits + k - 1] \in Nat
      BY <3>1, PowersMonotone, Powers
    <3>3. d < Pow2[bits + m] /\ Pow2[bits + k - 1] <= r
      BY <1>6, <1>8, <3>1 DEF IsUnit
    <3> QED
      BY <3>2, <3>3
  <2> QED
    BY <2>1, <2>2, <2>3
<1>10. ASSUME Magnitude(x) <= d PROVE r <= d
  <2>1. k <= m
    BY <1>3, <1>6, <1>10, UnitsOrdered
  <2>2. CASE m = k
    BY <1>7, <1>8, <1>10, <2>2
  <2>3. CASE k < m
    <3>1. bits + k \in Nat /\ bits + m - 1 \in Nat /\ bits + k <= bits + m - 1 /\ m # 0
      BY <2>3
    <3>2. Pow2[bits + k] <= Pow2[bits + m - 1] /\ Pow2[bits + k] \in Nat /\ Pow2[bits + m - 1] \in Nat
      BY <3>1, PowersMonotone, Powers
    <3>3. Pow2[bits + m - 1] <= d /\ r <= Pow2[bits + k]
      BY <1>6, <1>8, <3>1 DEF IsUnit
    <3> QED
      BY <3>2, <3>3
  <2> QED
    BY <2>1, <2>2, <2>3
<1> QED
  BY <1>4, <1>9, <1>10

\* A number with no more bits than are kept is kept.
LEMMA SmallExact ==
    ASSUME NEW bits \in Nat \ {0}, NEW x \in Int, Magnitude(x) < Pow2[bits]
    PROVE  Nearest(x, bits) = x
<1>1. Magnitude(x) \in Nat /\ bits + 0 = bits /\ 0 \in 0..2 * DoubleBits
  BY MagnitudeNat, Bits
<1>2. IsUnit(Magnitude(x), bits, 0)
  BY <1>1 DEF IsUnit
<1>3. Multiple(Pow2[0], Magnitude(x))
  <2>1. Magnitude(x) = Magnitude(x) * 1
    BY <1>1
  <2> QED
    BY <1>1, <2>1, Powers DEF Multiple
<1> QED
  BY <1>2, <1>3, ExactMultiple

\* A greater number never becomes one of those.
LEMMA LargeStays ==
    ASSUME NEW bits \in Nat \ {0}, NEW x, InReach(x, bits), Pow2[bits] <= Magnitude(x)
    PROVE  Pow2[bits] <= Magnitude(Nearest(x, bits))
<1> DEFINE d == Pow2[bits]
<1>1. d \in Nat \ {0} /\ Magnitude(d) = d /\ Pow2[bits + 1] = 2 * d /\ bits + 1 - 1 = bits
  BY Powers DEF Magnitude
<1>2. 1 \in 0..2 * DoubleBits /\ bits + 1 \in Nat /\ bits < bits + 2 * DoubleBits
      /\ bits + 2 * DoubleBits \in Nat
  BY Bits
<1>3. IsUnit(d, bits, 1)
  BY <1>1, <1>2 DEF IsUnit
<1>4. Multiple(Pow2[1], d)
  BY PowersMultiple
<1>5. Nearest(d, bits) = d
  BY <1>1, <1>3, <1>4, ExactMultiple
<1>6. InReach(d, bits)
  <2>1. 2 * d <= Pow2[bits + 2 * DoubleBits] /\ Pow2[bits + 2 * DoubleBits] \in Nat
    BY <1>2, PowersGrow, Powers
  <2> QED
    BY <1>1, <2>1 DEF InReach
<1> HIDE DEF d
<1>7. d <= Magnitude(x)
  BY DEF d
<1>8. d <= Magnitude(Nearest(x, bits))
  BY <1>1, <1>5, <1>6, <1>7, NearestOrdered
<1> QED
  BY <1>8 DEF d

\* And if it is exactly held, it has no fraction.
LEMMA LargeWhole ==
    ASSUME NEW bits \in Nat \ {0}, NEW x, InReach(x, bits), Nearest(x, bits) = x,
           Pow2[bits] <= Magnitude(x)
    PROVE  Whole(x)
<1>1. x \in Int /\ Magnitude(x) \in Nat
  BY MagnitudeNat DEF InReach
<1>2. PICK k \in Nat : \E s \in Nat : IsRounded(x, bits, k, s)
  BY NearestOf
<1>3. IsUnit(Magnitude(x), bits, k)
  BY <1>2 DEF IsRounded
<1>4. k # 0
  <2>1. SUFFICES ASSUME k = 0 PROVE FALSE
    OBVIOUS
  <2>2. Magnitude(x) < Pow2[bits] /\ Pow2[bits] \in Nat
    BY <1>3, <2>1, Powers DEF IsUnit
  <2> QED
    BY <1>1, <2>2
<1>5. Multiple(Pow2[k], Magnitude(x))
  BY <1>1, <1>3, ExactMultiple
<1>6. PICK q \in Int : Magnitude(x) = q * Pow2[k]
  BY <1>5 DEF Multiple
<1>7. k - 1 \in Nat /\ (k - 1) + 1 = k
  BY <1>4
<1>8. Pow2[k] = 2 * Pow2[k - 1] /\ Pow2[k - 1] \in Int
  BY <1>7, Powers
<1>9. Magnitude(x) = 2 * (q * Pow2[k - 1]) /\ q * Pow2[k - 1] \in Int
  BY <1>6, <1>8
<1>10. ASSUME NEW m \in Int PROVE (2 * m) % 2 = 0 /\ (-(2 * m)) % 2 = 0
  OBVIOUS
<1>11. Magnitude(x) % 2 = 0 /\ (-Magnitude(x)) % 2 = 0
  BY <1>9, <1>10
<1> QED
  BY <1>1, <1>11 DEF Whole, One, Magnitude

-----------------------------------------------------------------------------
(* Doubles and floats *)

\* The sizes of the types in halves, in their order.
LEMMA Sizes ==
    /\ WideHalf \in Nat \ {0} /\ NarrowHalf \in Nat \ {0} /\ DoubleMax \in Nat /\ FloatMax \in Nat
    /\ 2 * NarrowHalf < WideHalf
    /\ 4 * NarrowHalf <= Pow2[DoubleBits] /\ Pow2[DoubleBits] < 2 * WideHalf
    /\ 4 * WideHalf <= FloatMax /\ FloatMax < DoubleMax
    /\ Pow2[DoubleBits] \in Nat
  BY NumbersAssumption, Bits, Powers DEF One

\* Every finite number has a unit.
LEMMA FiniteInReach ==
    ASSUME NEW x, Finite(x)
    PROVE  InReach(x, DoubleBits) /\ InReach(x, FloatBits)
<1>1. x \in Int /\ Magnitude(x) \in Nat /\ Magnitude(x) <= DoubleMax
  BY Sizes DEF Finite, Magnitude
<1>2. DoubleMax < Pow2[2 * DoubleBits + 1]
  BY NumbersAssumption
<1>3. ASSUME NEW bits \in {DoubleBits, FloatBits}
      PROVE  Magnitude(x) < Pow2[bits + 2 * DoubleBits]
  <2>1. 2 * DoubleBits + 1 \in Nat /\ bits + 2 * DoubleBits \in Nat
        /\ 2 * DoubleBits + 1 <= bits + 2 * DoubleBits
    BY Bits
  <2>2. Pow2[2 * DoubleBits + 1] <= Pow2[bits + 2 * DoubleBits]
        /\ Pow2[2 * DoubleBits + 1] \in Nat /\ Pow2[bits + 2 * DoubleBits] \in Nat
    BY <2>1, PowersMonotone, Powers
  <2> QED
    BY <1>1, <1>2, <2>2, Sizes
<1> QED
  BY <1>1, <1>3 DEF InReach

\* What a double holds is finite and rounds to itself.
LEMMA DoublesFinite ==
    ASSUME NEW x \in Doubles
    PROVE  x \in Int /\ Finite(x) /\ Double(x) = x
  BY Sizes DEF Doubles, Finite

\* A finite number becomes a double, of the same sign.
LEMMA DoubleIsDouble ==
    ASSUME NEW x, Finite(x)
    PROVE  /\ Double(x) \in Doubles
           /\ x >= 0 => Double(x) >= 0
           /\ x <= 0 => Double(x) <= 0
<1>1. InReach(x, DoubleBits) /\ DoubleBits \in Nat \ {0}
  BY FiniteInReach, Bits
<1>2. Double(x) \in Int /\ (x >= 0 => Double(x) >= 0) /\ (x <= 0 => Double(x) <= 0)
  BY <1>1, NearestSign DEF Double
<1>3. Finite(DoubleMax) /\ Nearest(DoubleMax, DoubleBits) = DoubleMax
  BY Sizes, EndsAssumption DEF Finite, Double
<1>4. InReach(DoubleMax, DoubleBits)
  BY <1>3, FiniteInReach
<1>5. Magnitude(x) <= DoubleMax
  BY Sizes DEF Finite, Magnitude
<1>6. Magnitude(Double(x)) <= DoubleMax
  BY <1>1, <1>3, <1>4, <1>5, Sizes, NearestOrdered DEF Double
<1>7. Finite(Double(x))
  BY <1>2, <1>6, Sizes DEF Finite, Magnitude
<1>8. Double(Double(x)) = Double(x)
  <2>1. InReach(Double(x), DoubleBits)
    BY <1>7, FiniteInReach
  <2> QED
    BY <1>1, <2>1, NearestIdempotent DEF Double
<1> QED
  BY <1>2, <1>7, <1>8 DEF Doubles, Finite

(***************************************************************************)
(* A value that a float setting takes is one a float holds: static_cast    *)
(* rounds it once, and rounding it again changes nothing (Traits.hpp:100). *)
(***************************************************************************)
THEOREM FloatHolds ==
    ASSUME NEW x, Finite(x)
    PROVE  Float(x) \in {Infinity, -Infinity} \/ (Finite(Float(x)) /\ Float(Float(x)) = Float(x))
<1> DEFINE y == Nearest(x, FloatBits)
<1>1. InReach(x, FloatBits) /\ FloatBits \in Nat \ {0}
  BY FiniteInReach, Bits
<1>2. y \in Int
  BY <1>1, NearestSign
<1>3. CASE Magnitude(y) > FloatMax
  BY <1>3 DEF Float, WithSign
<1>4. CASE ~(Magnitude(y) > FloatMax)
  <2>1. Finite(y)
    BY <1>2, <1>4, Sizes DEF Finite, Magnitude
  <2>2. InReach(y, FloatBits)
    BY <2>1, FiniteInReach
  <2>3. Nearest(y, FloatBits) = y
    BY <1>1, <2>2, NearestIdempotent
  <2>4. Float(x) = y
    BY <1>4 DEF Float
  <2> HIDE DEF y
  <2>5. Float(y) = y
    BY <1>4, <2>3 DEF Float
  <2> QED
    BY <2>1, <2>4, <2>5
<1> QED
  BY <1>3, <1>4

\* Cutting off a fraction leaves a whole number less than one away, towards zero.
LEMMA TruncWhole ==
    ASSUME NEW x \in Int
    PROVE  /\ Trunc(x) \in Int /\ Whole(Trunc(x))
           /\ Whole(x) => Trunc(x) = x
           /\ x >= 0 => Trunc(x) <= x /\ x < Trunc(x) + 2 /\ Trunc(x) >= 0
           /\ x <= 0 => x <= Trunc(x) /\ Trunc(x) < x + 2 /\ Trunc(x) <= 0
  BY DEF Trunc, Whole, WithSign, Magnitude, One

\* A number cut to a whole one is as large as any even number it was as large as.
LEMMA TruncBounds ==
    ASSUME NEW x \in Int, NEW m \in Int
    PROVE  /\ 2 * m <= x /\ 0 <= m => 2 * m <= Trunc(x)
           /\ x <= 2 * m /\ m <= 0 => Trunc(x) <= 2 * m
<1>1. PICK q \in Int : Trunc(x) = 2 * q
  <2>1. ASSUME NEW y \in Int, y % 2 = 0 PROVE \E q \in Int : y = 2 * q
    BY <2>1
  <2> QED
    BY <2>1, TruncWhole DEF Whole, One
<1> QED
  BY <1>1, TruncWhole

\* The whole part of a double is a double.
LEMMA TruncDouble ==
    ASSUME NEW x \in Doubles
    PROVE  Trunc(x) \in Doubles
<1>1. x \in Int /\ Finite(x) /\ Nearest(x, DoubleBits) = x
  BY DoublesFinite DEF Double
<1>2. CASE Pow2[DoubleBits] <= Magnitude(x)
  <2>1. Whole(x)
    BY <1>1, <1>2, FiniteInReach, LargeWhole, Bits
  <2> QED
    BY <1>1, <2>1, TruncWhole
<1>3. CASE ~(Pow2[DoubleBits] <= Magnitude(x))
  <2>1. Trunc(x) \in Int /\ Magnitude(Trunc(x)) <= Magnitude(x)
    BY <1>1, TruncWhole DEF Magnitude
  <2>2. Magnitude(x) \in Nat /\ Magnitude(Trunc(x)) \in Nat
    BY <1>1, <2>1, MagnitudeNat
  <2>3. Magnitude(Trunc(x)) < Pow2[DoubleBits]
    BY <1>3, <2>1, <2>2, Sizes
  <2>4. Double(Trunc(x)) = Trunc(x)
    BY <2>1, <2>3, SmallExact, Bits DEF Double
  <2>5. Finite(Trunc(x))
    BY <1>1, <2>1, Sizes DEF Finite, Magnitude
  <2> QED
    BY <2>1, <2>4, <2>5 DEF Doubles, Finite
<1> QED
  BY <1>2, <1>3

-----------------------------------------------------------------------------
(* Rounding twice *)

\* Every number stands between two multiples of a unit.
LEMMA MultipleBelow ==
    ASSUME NEW u \in Nat \ {0}, NEW a \in Nat
    PROVE  \E low \in Nat : Multiple(u, low) /\ low <= a /\ a < low + u
<1>1. a \div u \in Nat /\ a % u \in 0..u - 1 /\ a = u * (a \div u) + (a % u)
  OBVIOUS
<1> DEFINE low == u * (a \div u)
<1>2. low \in Nat /\ a \div u \in Int /\ low = (a \div u) * u
  BY <1>1
<1>3. Multiple(u, low)
  BY <1>2 DEF Multiple
<1>4. low <= a /\ a < low + u
  BY <1>1, <1>2
<1> QED
  BY <1>2, <1>3, <1>4

\* The multiple of the unit that a size is rounded to, if low is the one below.
RoundedFrom(size, low, unit) ==
    IF \/ 2 * (size - low) > unit
       \/ 2 * (size - low) = unit /\ (low \div unit) % 2 = 1
    THEN low + unit ELSE low

\* The multiple of its unit below a number.
StandsOn(x, bits, k, low) ==
    /\ x \in Int /\ bits \in Nat \ {0} /\ k \in Nat /\ low \in Nat
    /\ IsUnit(Magnitude(x), bits, k) /\ Multiple(Pow2[k], low)
    /\ low <= Magnitude(x) /\ Magnitude(x) < low + Pow2[k]

\* What Nearest makes of such a number.
RoundsBetween(x, bits, k, low) ==
    /\ Unit(Magnitude(x), bits) = Pow2[k]
    /\ Magnitude(x) % Pow2[k] = Magnitude(x) - low
    /\ Nearest(x, bits) = WithSign(x, RoundedFrom(Magnitude(x), low, Pow2[k]))
    /\ 2 * (Magnitude(x) - low) < Pow2[k] => Nearest(x, bits) = WithSign(x, low)
    /\ 2 * (Magnitude(x) - low) > Pow2[k] => Nearest(x, bits) = WithSign(x, low + Pow2[k])

\* Between two multiples of its unit, a number is rounded to the nearer.
LEMMA BetweenUnits ==
    ASSUME NEW bits, NEW x, NEW k, NEW low, StandsOn(x, bits, k, low)
    PROVE  RoundsBetween(x, bits, k, low)
<1> DEFINE size == Magnitude(x)
           unit == Pow2[k]
<1>1. size \in Nat /\ unit \in Nat \ {0} /\ low \in Nat /\ low <= size /\ size < low + unit
  BY MagnitudeNat, Powers DEF StandsOn
<1>2. Unit(size, bits) = unit
  BY <1>1, UnitChosen DEF StandsOn
<1>3. Multiple(unit, low)
  BY DEF StandsOn
<1>4. Nearest(x, bits) = WithSign(x,
            IF \/ 2 * (size % unit) > unit
               \/ 2 * (size % unit) = unit /\ ((size - (size % unit)) \div unit) % 2 = 1
            THEN size - (size % unit) + unit ELSE size - (size % unit))
  BY <1>2 DEF Nearest
<1> HIDE DEF size, unit
<1>5. size % unit = size - low
  <2>1. size % unit \in 0..unit - 1 /\ size \div unit \in Nat
        /\ size - (size % unit) = (size \div unit) * unit
    BY <1>1
  <2>2. Multiple(unit, size - (size % unit)) /\ size - (size % unit) \in Int
    BY <1>1, <2>1 DEF Multiple
  <2>3. size - (size % unit) < low + unit /\ low < size - (size % unit) + unit
    BY <1>1, <2>1
  <2>4. size - (size % unit) <= low /\ low <= size - (size % unit)
    BY <1>1, <1>3, <2>2, <2>3, MultiplesApart
  <2> QED
    BY <1>1, <2>1, <2>4
<1>6. size - (size % unit) = low
  BY <1>1, <1>5
<1>7. ASSUME 2 * (size - low) < unit PROVE Nearest(x, bits) = WithSign(x, low)
  <2>1. ~(2 * (size % unit) > unit) /\ ~(2 * (size % unit) = unit)
    BY <1>1, <1>5, <1>7
  <2> QED
    BY <1>4, <1>6, <2>1
<1>8. ASSUME 2 * (size - low) > unit PROVE Nearest(x, bits) = WithSign(x, low + unit)
  BY <1>4, <1>5, <1>6, <1>8
<1>9. Nearest(x, bits) = WithSign(x, RoundedFrom(size, low, unit))
  BY <1>4, <1>5, <1>6 DEF RoundedFrom
<1> QED
  BY <1>2, <1>5, <1>7, <1>8, <1>9 DEF size, unit, RoundsBetween

\* A multiple of a power of two that has few enough bits is held as it is.
LEMMA MultipleHeld ==
    ASSUME NEW bits \in Nat \ {0}, NEW j \in 0..2 * DoubleBits, NEW z \in Nat,
           Multiple(Pow2[j], z), z < Pow2[bits + j]
    PROVE  InReach(z, bits) /\ Nearest(z, bits) = z
<1>1. j \in Nat /\ bits + j \in Nat /\ bits + 2 * DoubleBits \in Nat /\ bits + j <= bits + 2 * DoubleBits
  BY Bits
<1>2. Pow2[bits + j] <= Pow2[bits + 2 * DoubleBits] /\ Pow2[bits + j] \in Nat
      /\ Pow2[bits + 2 * DoubleBits] \in Nat
  BY <1>1, PowersMonotone, Powers
<1>3. Magnitude(z) = z /\ z \in Int
  BY DEF Magnitude
<1>4. InReach(z, bits)
  BY <1>2, <1>3 DEF InReach
<1>5. PICK m : IsUnit(z, bits, m)
  BY <1>2, UnitExists
<1>6. m \in Nat /\ m <= j
  <2>1. m \in Nat /\ z < Pow2[bits + j] /\ (m = 0 \/ Pow2[bits + m - 1] <= z)
    BY <1>5, Bits DEF IsUnit
  <2>2. SUFFICES ASSUME j < m PROVE FALSE
    BY <1>1, <2>1
  <2>3. bits + m - 1 \in Nat /\ bits + j <= bits + m - 1 /\ m # 0
    BY <1>1, <2>1, <2>2
  <2>4. Pow2[bits + j] <= Pow2[bits + m - 1] /\ Pow2[bits + m - 1] \in Nat
    BY <1>1, <2>3, PowersMonotone, Powers
  <2> QED
    BY <1>2, <2>1, <2>3, <2>4
<1>7. Multiple(Pow2[m], z)
  <2>1. PICK p \in Int : z = p * Pow2[j]
    BY DEF Multiple
  <2>2. Multiple(Pow2[m], Pow2[j])
    BY <1>1, <1>6, PowersMultiple
  <2>3. PICK q \in Int : Pow2[j] = q * Pow2[m]
    BY <2>2 DEF Multiple
  <2>4. Pow2[m] \in Int /\ z = (p * q) * Pow2[m]
    BY <1>6, <2>1, <2>3, Powers
  <2> QED
    BY <2>4 DEF Multiple
<1> QED
  BY <1>3, <1>4, <1>5, <1>7, ExactMultiple

\* What is no more than a number that both precisions hold is no more than it as a
\* double, and what is no less is no less.
LEMMA DoubleOrdered ==
    ASSUME NEW x, Finite(x), NEW d \in Nat, InReach(d, DoubleBits), Nearest(d, DoubleBits) = d
    PROVE  /\ d <= Magnitude(x) => d <= Magnitude(Double(x))
           /\ Magnitude(x) <= d => Magnitude(Double(x)) <= d
<1>1. InReach(x, DoubleBits) /\ DoubleBits \in Nat \ {0}
  BY FiniteInReach, Bits
<1> QED
  BY <1>1, NearestOrdered DEF Double

(***************************************************************************)
(* Rounding to a double and then to a float, as a load does (Traits.hpp:   *)
(* 98-103), is rounding to a float once, unless the double is another      *)
(* number and exactly between two floats.                                  *)
(***************************************************************************)
THEOREM DoubleRounding ==
    ASSUME NEW x, Finite(x), Double(x) = x \/ ~Halfway(Double(x))
    PROVE  Float(Double(x)) = Float(x)
<1>1. SUFFICES ASSUME Double(x) # x
               PROVE  Nearest(Double(x), FloatBits) = Nearest(x, FloatBits)
  <2>1. CASE Double(x) = x
    BY <2>1
  <2>2. CASE Double(x) # x
    <3>1. Nearest(Double(x), FloatBits) = Nearest(x, FloatBits)
      BY <1>1, <2>2
    <3>2. x \in Int /\ Nearest(x, FloatBits) \in Int /\ Double(x) \in Int
          /\ (x >= 0 => Nearest(x, FloatBits) >= 0) /\ (x <= 0 => Nearest(x, FloatBits) <= 0)
          /\ (Double(x) >= 0 => Nearest(Double(x), FloatBits) >= 0)
          /\ (Double(x) <= 0 => Nearest(Double(x), FloatBits) <= 0)
      BY FiniteInReach, NearestSign, DoubleIsDouble, DoublesFinite, Bits DEF InReach
    <3>3. Magnitude(Nearest(x, FloatBits)) > FloatMax => Nearest(x, FloatBits) # 0
      BY Sizes DEF Magnitude
    <3>4. Magnitude(Nearest(x, FloatBits)) > FloatMax => WithSign(Double(x), Infinity) = WithSign(x, Infinity)
      BY <3>1, <3>2, <3>3 DEF WithSign
    <3> QED
      BY <3>1, <3>4 DEF Float
  <2> QED
    BY <2>1, <2>2
<1> DEFINE a == Magnitude(x)
           y == Double(x)
           b == Magnitude(y)
<1>2. x \in Int /\ a \in Nat /\ y \in Int /\ b \in Nat /\ Finite(y)
      /\ (x >= 0 => y >= 0) /\ (x <= 0 => y <= 0)
  BY DoubleIsDouble, DoublesFinite, MagnitudeNat, FiniteInReach DEF InReach
<1>3. InReach(x, FloatBits) /\ InReach(y, FloatBits)
  BY <1>2, FiniteInReach
<1>4. FloatBits \in Nat \ {0} /\ DoubleBits \in Nat \ {0} /\ FloatBits < DoubleBits
  BY Bits
<1>5. PICK k \in Nat : IsUnit(a, FloatBits, k)
  <2>1. PICK j \in Nat : \E r \in Nat : IsRounded(x, FloatBits, j, r)
    BY <1>3, <1>4, NearestOf
  <2> QED
    BY <2>1 DEF IsRounded
<1> DEFINE u == Pow2[k]
           P == Pow2[FloatBits + k]
<1>6. k \in 0..2 * DoubleBits /\ a < P /\ (k = 0 \/ Pow2[FloatBits + k - 1] <= a)
  BY <1>5 DEF IsUnit
<1>7. u \in Nat \ {0} /\ P \in Nat \ {0}
  BY <1>4, Powers
<1>8. PICK low \in Nat : Multiple(u, low) /\ low <= a /\ a < low + u
  BY <1>2, <1>7, MultipleBelow
<1>9. low + u \in Nat /\ Multiple(u, low + u)
  <2>1. PICK q \in Int : low = q * u
    BY <1>8 DEF Multiple
  <2> HIDE DEF u
  <2>2. q + 1 \in Int /\ low + u = (q + 1) * u
    BY <1>7, <2>1
  <2> QED
    BY <1>7, <1>8, <2>2 DEF Multiple
<1>10. /\ 2 * (a - low) < u => Nearest(x, FloatBits) = WithSign(x, low)
       /\ 2 * (a - low) > u => Nearest(x, FloatBits) = WithSign(x, low + u)
  <2>1. StandsOn(x, FloatBits, k, low)
    BY <1>2, <1>4, <1>5, <1>8 DEF StandsOn
  <2>2. RoundsBetween(x, FloatBits, k, low)
    BY <2>1, BetweenUnits
  <2> QED
    BY <2>2 DEF RoundsBetween
<1> HIDE DEF a, y, b
<1>11. low + u <= P /\ (k = 0 \/ Pow2[FloatBits + k - 1] <= low)
  <2>1. Multiple(u, P) /\ FloatBits + k \in Nat /\ k <= FloatBits + k
    BY <1>4, PowersMultiple
  <2>2. low + u < P + u
    BY <1>2, <1>6, <1>7, <1>8
  <2>3. low + u <= P
    BY <1>7, <1>9, <2>1, <2>2, MultiplesApart
  <2>4. ASSUME k # 0 PROVE Pow2[FloatBits + k - 1] <= low
    <3>1. FloatBits + k - 1 \in Nat /\ k <= FloatBits + k - 1
      BY <1>4, <2>4
    <3>2. Multiple(u, Pow2[FloatBits + k - 1]) /\ Pow2[FloatBits + k - 1] \in Nat
      BY <3>1, PowersMultiple, Powers
    <3>3. Pow2[FloatBits + k - 1] < low + u
      BY <1>2, <1>6, <1>7, <1>8, <2>4, <3>2
    <3> QED
      BY <1>7, <1>8, <3>2, <3>3, MultiplesApart
  <2> QED
    BY <2>3, <2>4
<1>12. k # 0
  <2>1. SUFFICES ASSUME k = 0 PROVE FALSE
    OBVIOUS
  <2>2. a < Pow2[FloatBits] /\ Pow2[FloatBits] \in Nat /\ Pow2[DoubleBits] \in Nat
        /\ Pow2[FloatBits] <= Pow2[DoubleBits]
    <3>1. FloatBits + k = FloatBits /\ FloatBits <= DoubleBits
      BY <1>4, <2>1
    <3>2. Pow2[FloatBits] <= Pow2[DoubleBits]
      BY <1>4, <3>1, PowersMonotone
    <3> QED
      BY <1>4, <1>6, <3>1, <3>2, Powers
  <2>3. a < Pow2[DoubleBits]
    BY <1>2, <2>2
  <2> QED
    BY <1>1, <1>2, <1>4, <2>3, SmallExact DEF Double, a
<1> DEFINE h == Pow2[k - 1]
<1>13. k - 1 \in Nat /\ k - 1 \in 0..2 * DoubleBits /\ h \in Nat \ {0} /\ u = 2 * h
  <2>1. k - 1 \in Nat /\ (k - 1) + 1 = k
    BY <1>12
  <2>2. k - 1 \in 0..2 * DoubleBits
    BY <1>4, <1>6, <2>1
  <2>3. Pow2[(k - 1) + 1] = 2 * Pow2[k - 1] /\ Pow2[k - 1] \in Nat \ {0}
    BY <2>1, Powers
  <2> QED
    BY <2>1, <2>2, <2>3
<1>14. P <= Pow2[DoubleBits + (k - 1)] /\ P < Pow2[DoubleBits + k]
       /\ Pow2[DoubleBits + (k - 1)] \in Nat /\ Pow2[DoubleBits + k] \in Nat
  <2>1. FloatBits + k \in Nat /\ DoubleBits + (k - 1) \in Nat /\ DoubleBits + k \in Nat
        /\ FloatBits + k <= DoubleBits + (k - 1) /\ FloatBits + k < DoubleBits + k
    BY <1>4, <1>13
  <2>2. 2 * P <= Pow2[DoubleBits + k]
    BY <2>1, PowersGrow
  <2> QED
    BY <1>7, <2>1, <2>2, PowersMonotone, Powers
<1>15. Multiple(h, low + h)
  <2>1. PICK q \in Int : low = q * u
    BY <1>8 DEF Multiple
  <2>2. low + h = (2 * q + 1) * h /\ 2 * q + 1 \in Int
    BY <1>13, <2>1
  <2> QED
    BY <2>2 DEF Multiple
<1> HIDE DEF u, h, P
<1>16. /\ InReach(low, DoubleBits) /\ Nearest(low, DoubleBits) = low
       /\ InReach(low + u, DoubleBits) /\ Nearest(low + u, DoubleBits) = low + u
       /\ InReach(low + h, DoubleBits) /\ Nearest(low + h, DoubleBits) = low + h
  <2>1. low < Pow2[DoubleBits + k] /\ low + u < Pow2[DoubleBits + k]
        /\ low + h < Pow2[DoubleBits + (k - 1)] /\ low + h \in Nat
    BY <1>7, <1>8, <1>11, <1>13, <1>14
  <2> QED
    BY <1>4, <1>6, <1>8, <1>9, <1>13, <1>15, <2>1, MultipleHeld DEF u, h
<1>17. /\ low <= b /\ b <= low + u
       /\ a < low + h => b <= low + h
       /\ low + h < a => low + h <= b
  <2>1. low \in Nat /\ low + u \in Nat /\ low + h \in Nat /\ low <= a /\ a <= low + u /\ a \in Nat
    BY <1>2, <1>7, <1>8, <1>13
  <2> QED
    BY <1>16, <2>1, DoubleOrdered DEF a, b, y
<1>18. a # low + h
  <2>1. SUFFICES ASSUME a = low + h PROVE FALSE
    OBVIOUS
  <2>2. b = a
    BY <1>2, <1>7, <1>8, <1>13, <1>17, <2>1, DoubleOrdered, <1>16 DEF a, b, y
  <2>3. y = x
    BY <1>2, <2>2 DEF a, b, Magnitude
  <2> QED
    BY <1>1, <2>3 DEF y
<1>19. b # 0 /\ (x < 0 <=> y < 0)
  <2>1. low > 0
    <3>1. FloatBits + k - 1 \in Nat
      BY <1>4, <1>13
    <3> QED
      BY <1>8, <1>11, <1>12, <3>1, Powers
  <2>2. b # 0
    BY <1>2, <1>8, <1>17, <2>1
  <2> QED
    BY <1>2, <2>2 DEF b, Magnitude
<1>20. ASSUME NEW r PROVE WithSign(x, r) = WithSign(y, r)
  BY <1>19 DEF WithSign
<1>21. CASE b < low + u
  <2>1. IsUnit(b, FloatBits, k)
    <3>1. b < P
      BY <1>2, <1>7, <1>8, <1>11, <1>21
    <3>2. Pow2[FloatBits + k - 1] <= b
      <4>1. FloatBits + k - 1 \in Nat
        BY <1>4, <1>13
      <4>2. Pow2[FloatBits + k - 1] \in Nat
        BY <4>1, Powers
      <4> QED
        BY <1>2, <1>8, <1>11, <1>12, <1>17, <4>2
    <3> QED
      BY <1>6, <3>1, <3>2 DEF IsUnit, P
  <2>2. /\ Unit(b, FloatBits) = u
        /\ b % u = b - low
        /\ 2 * (b - low) < u => Nearest(y, FloatBits) = WithSign(y, low)
        /\ 2 * (b - low) > u => Nearest(y, FloatBits) = WithSign(y, low + u)
    <3>1. StandsOn(y, FloatBits, k, low)
      BY <1>2, <1>4, <1>8, <1>17, <1>21, <2>1 DEF b, u, StandsOn
    <3>2. RoundsBetween(y, FloatBits, k, low)
      BY <3>1, BetweenUnits
    <3> QED
      BY <3>2 DEF RoundsBetween, b, u
  <2>3. 2 * (b - low) # u
    <3>1. ~Halfway(y)
      BY <1>1 DEF y
    <3> QED
      BY <2>2, <3>1 DEF Halfway, b
  <2>4. b # low + h
    BY <1>2, <1>8, <1>13, <2>3
  <2>5. CASE a < low + h
    <3>1. 2 * (a - low) < u /\ 2 * (b - low) < u
      BY <1>2, <1>8, <1>13, <1>17, <2>4, <2>5
    <3> QED
      BY <1>20, <1>10, <2>2, <3>1 DEF y
  <2>6. CASE low + h < a
    <3>1. 2 * (a - low) > u /\ 2 * (b - low) > u
      BY <1>2, <1>8, <1>13, <1>17, <2>4, <2>6
    <3> QED
      BY <1>20, <1>10, <2>2, <3>1 DEF y
  <2> QED
    BY <1>2, <1>8, <1>13, <1>18, <2>5, <2>6
<1>22. CASE ~(b < low + u)
  <2>1. b = low + u
    BY <1>2, <1>7, <1>8, <1>17, <1>22
  <2>2. 2 * (a - low) > u
    BY <1>2, <1>8, <1>13, <1>17, <1>18, <2>1
  <2>3. Nearest(x, FloatBits) = WithSign(x, b)
    BY <1>10, <2>1, <2>2
  <2>4. Nearest(x, FloatBits) = y
    BY <1>2, <1>19, <2>3 DEF b, WithSign, Magnitude
  <2>5. InReach(Nearest(x, FloatBits), FloatBits)
    BY <1>3, <2>4
  <2>6. Nearest(Nearest(x, FloatBits), FloatBits) = Nearest(x, FloatBits)
    BY <1>3, <1>4, <2>5, NearestIdempotent
  <2> QED
    BY <2>4, <2>6 DEF y
<1> QED
  BY <1>21, <1>22

(***************************************************************************)
(* Rounding keeps the order: of two numbers the one that is no nearer to   *)
(* zero is no nearer to it afterwards.                                     *)
(***************************************************************************)
THEOREM NearestMonotone ==
    ASSUME NEW bits \in Nat \ {0}, NEW x, InReach(x, bits), NEW y, InReach(y, bits),
           Magnitude(x) <= Magnitude(y)
    PROVE  Magnitude(Nearest(x, bits)) <= Magnitude(Nearest(y, bits))
<1>1. PICK k \in Nat : \E s \in Nat :
                IsRounded(x, bits, k, s) /\ Nearest(x, bits) = WithSign(x, s)
  BY NearestOf
<1>2. PICK r \in Nat : IsRounded(x, bits, k, r) /\ Nearest(x, bits) = WithSign(x, r)
  BY <1>1
<1>3. PICK m \in Nat : \E s \in Nat :
                IsRounded(y, bits, m, s) /\ Nearest(y, bits) = WithSign(y, s)
  BY NearestOf
<1>4. PICK t \in Nat : IsRounded(y, bits, m, t) /\ Nearest(y, bits) = WithSign(y, t)
  BY <1>3
<1>5. x \in Int /\ y \in Int /\ Magnitude(x) \in Nat /\ Magnitude(y) \in Nat
  BY MagnitudeNat DEF InReach
<1>6. Magnitude(Nearest(x, bits)) = r /\ Magnitude(Nearest(y, bits)) = t
  BY <1>2, <1>4, <1>5, Signs
<1>7. IsUnit(Magnitude(x), bits, k) /\ IsUnit(Magnitude(y), bits, m)
  BY <1>2, <1>4 DEF IsRounded
<1>8. k <= m
  BY <1>5, <1>7, UnitsOrdered
<1>9. CASE k < m
  <2>1. bits + k \in Nat /\ bits + m - 1 \in Nat /\ bits + k <= bits + m - 1 /\ m # 0
    BY <1>9
  <2>2. Pow2[bits + k] <= Pow2[bits + m - 1] /\ Pow2[bits + k] \in Nat /\ Pow2[bits + m - 1] \in Nat
    BY <2>1, PowersMonotone, Powers
  <2>3. r <= Pow2[bits + k] /\ Pow2[bits + m - 1] <= t
    BY <1>2, <1>4, <1>5, <2>1, RoundedBounds
  <2> QED
    BY <1>6, <2>2, <2>3
<1>10. CASE k = m
  <2> DEFINE a == Magnitude(x)
             b == Magnitude(y)
             u == Pow2[k]
  <2>1. a \in Nat /\ b \in Nat /\ u \in Nat \ {0} /\ a <= b
    BY <1>5, Powers
  <2> HIDE DEF a, b, u
  <2>2. PICK low \in Nat : Multiple(u, low) /\ low <= a /\ a < low + u
    BY <2>1, MultipleBelow
  <2>3. PICK base \in Nat : Multiple(u, base) /\ base <= b /\ b < base + u
    BY <2>1, MultipleBelow
  <2>4. Nearest(x, bits) = WithSign(x, RoundedFrom(a, low, u))
    <3>1. StandsOn(x, bits, k, low)
      BY <1>5, <1>7, <2>2 DEF a, u, StandsOn
    <3>2. RoundsBetween(x, bits, k, low)
      BY <3>1, BetweenUnits
    <3> QED
      BY <3>2 DEF RoundsBetween, a, u
  <2>5. Nearest(y, bits) = WithSign(y, RoundedFrom(b, base, u))
    <3>1. StandsOn(y, bits, k, base)
      BY <1>5, <1>7, <1>10, <2>3 DEF b, u, StandsOn
    <3>2. RoundsBetween(y, bits, k, base)
      BY <3>1, BetweenUnits
    <3> QED
      BY <3>2 DEF RoundsBetween, b, u
  <2>6. r = RoundedFrom(a, low, u)
    <3>1. RoundedFrom(a, low, u) \in Nat
      BY <2>1 DEF RoundedFrom
    <3> QED
      BY <1>5, <1>6, <2>4, <3>1, Signs, Zenon
  <2>7. t = RoundedFrom(b, base, u)
    <3>1. RoundedFrom(b, base, u) \in Nat
      BY <2>1 DEF RoundedFrom
    <3> QED
      BY <1>5, <1>6, <2>5, <3>1, Signs, Zenon
  <2>8. low <= base
    BY <2>1, <2>2, <2>3, MultiplesApart
  <2>9. CASE low = base
    <3>1. r <= t
      BY <2>1, <2>2, <2>3, <2>6, <2>7, <2>9 DEF RoundedFrom
    <3> QED
      BY <1>6, <3>1
  <2>10. CASE low # base
    <3>1. low + u <= base
      <4>1. CASE base < low + u
        BY <2>1, <2>2, <2>3, <2>8, <2>10, <4>1, MultiplesApart
      <4> QED
        BY <2>1, <4>1
    <3> QED
      BY <1>6, <2>1, <2>6, <2>7, <3>1 DEF RoundedFrom
  <2> QED
    BY <2>9, <2>10
<1> QED
  BY <1>8, <1>9, <1>10

\* Only zero is rounded to zero.
LEMMA NearestZero ==
    ASSUME NEW bits \in Nat \ {0}, NEW x, InReach(x, bits), Nearest(x, bits) = 0
    PROVE  x = 0
<1>1. x \in Int /\ Magnitude(x) \in Nat /\ Pow2[bits] \in Nat \ {0}
  BY MagnitudeNat, Powers DEF InReach
<1>2. CASE Magnitude(x) < Pow2[bits]
  BY <1>1, <1>2, SmallExact
<1>3. CASE ~(Magnitude(x) < Pow2[bits])
  <2>1. Pow2[bits] <= Magnitude(0)
    BY <1>1, <1>3, LargeStays
  <2> QED
    BY <1>1, <2>1 DEF Magnitude
<1> QED
  BY <1>2, <1>3

\* A number between two that become the same finite float becomes it too.
LEMMA FloatBetween ==
    ASSUME NEW x, Finite(x), NEW y, Finite(y), NEW z, Finite(z), x <= z, z <= y,
           Finite(Float(x)), Float(y) = Float(x)
    PROVE  Float(z) = Float(x)
<1> DEFINE N(w) == Nearest(w, FloatBits)
<1>1. x \in Int /\ y \in Int /\ z \in Int /\ FloatBits \in Nat \ {0}
      /\ InReach(x, FloatBits) /\ InReach(y, FloatBits) /\ InReach(z, FloatBits)
  BY FiniteInReach, Bits DEF InReach
<1>2. /\ N(x) \in Int /\ (x >= 0 => N(x) >= 0) /\ (x <= 0 => N(x) <= 0)
      /\ N(y) \in Int /\ (y >= 0 => N(y) >= 0) /\ (y <= 0 => N(y) <= 0)
      /\ N(z) \in Int /\ (z >= 0 => N(z) >= 0) /\ (z <= 0 => N(z) <= 0)
  BY <1>1, NearestSign
<1>3. N(x) = Float(x) /\ N(y) = Float(x)
  <2>1. ASSUME NEW w PROVE ~Finite(WithSign(w, Infinity))
    BY Sizes DEF Finite, WithSign, Infinity
  <2> QED
    BY <2>1 DEF Float
<1>4. ~(Magnitude(Float(x)) > FloatMax)
  <2>1. ASSUME NEW w PROVE ~Finite(WithSign(w, Infinity))
    BY Sizes DEF Finite, WithSign, Infinity
  <2> QED
    BY <1>3, <2>1 DEF Float
<1>5. N(z) = N(x)
  <2>1. CASE N(x) > 0
    <3>1. 0 < x /\ 0 < z /\ 0 < y
      BY <1>1, <1>2, <2>1
    <3>2. Magnitude(x) <= Magnitude(z) /\ Magnitude(z) <= Magnitude(y)
      BY <1>1, <3>1 DEF Magnitude
    <3>3. Magnitude(N(x)) <= Magnitude(N(z)) /\ Magnitude(N(z)) <= Magnitude(N(y))
      BY <1>1, <3>2, NearestMonotone
    <3>4. N(z) >= 0
      BY <1>1, <1>2, <3>1
    <3> HIDE DEF N
    <3> QED
      BY <1>2, <1>3, <2>1, <3>3, <3>4 DEF Magnitude
  <2>2. CASE N(x) < 0
    <3>1. x < 0 /\ z < 0 /\ y < 0
      BY <1>1, <1>2, <1>3, <2>2
    <3>2. Magnitude(y) <= Magnitude(z) /\ Magnitude(z) <= Magnitude(x)
      BY <1>1, <3>1 DEF Magnitude
    <3>3. Magnitude(N(y)) <= Magnitude(N(z)) /\ Magnitude(N(z)) <= Magnitude(N(x))
      BY <1>1, <3>2, NearestMonotone
    <3>4. N(z) <= 0
      BY <1>1, <1>2, <3>1
    <3> HIDE DEF N
    <3> QED
      BY <1>2, <1>3, <2>2, <3>3, <3>4 DEF Magnitude
  <2>3. CASE N(x) = 0
    <3>1. x = 0 /\ y = 0
      BY <1>1, <1>3, <2>3, NearestZero
    <3>2. z = x
      BY <1>1, <3>1
    <3> QED
      BY <3>2
  <2> QED
    BY <1>2, <2>1, <2>2, <2>3
<1> QED
  BY <1>3, <1>4, <1>5 DEF Float

-----------------------------------------------------------------------------
(* Reading an integer *)

\* The remainder of a number less than the modulus.
LEMMA SmallRemainder ==
    ASSUME NEW a \in Int, NEW n \in Nat \ {0}, 0 <= a, a < n
    PROVE  a % n = a
  OBVIOUS

\* And of one between the modulus and twice the modulus.
LEMMA NextRemainder ==
    ASSUME NEW a \in Int, NEW n \in Nat \ {0}, n <= a, a < 2 * n
    PROVE  a % n = a - n
  OBVIOUS

\* A number that a 64-bit signed integer holds does not wrap.
LEMMA WrapKeeps ==
    ASSUME NEW x \in Int, -(One * WideHalf) <= x, x < One * WideHalf
    PROVE  Wrap(x) = x
<1> DEFINE half == One * WideHalf
<1>1. half \in Nat \ {0} /\ x + half \in Int /\ 0 <= x + half /\ x + half < 2 * half
      /\ 2 * half \in Nat \ {0}
  BY NumbersAssumption DEF One
<1>2. (x + half) % (2 * half) = x + half
  BY <1>1, SmallRemainder
<1> QED
  BY <1>1, <1>2 DEF Wrap

\* What a cast to 64 bits answers is a 64-bit signed integer, also where the
\* language leaves it open (Coerce.cpp:157, Traits.hpp:74).
LEMMA CastFits ==
    ASSUME NEW x, NEW v \in ToInt64(x)
    PROVE  v \in Lowest("int64")..Highest("int64")
  BY NumbersAssumption DEF ToInt64, Lowest, Highest, Signed, Half, One

\* The limits of the types are integers, and those of all types but uint64 are
\* 64-bit signed integers.
LEMMA Limits ==
    ASSUME NEW type \in IntegerTypes
    PROVE  /\ Lowest(type) \in Int /\ Highest(type) \in Int
           /\ type # "uint64" => /\ Wrap(Lowest(type)) = Lowest(type)
                                 /\ Wrap(Highest(type)) = Highest(type)
<1>1. WideHalf \in Nat \ {0} /\ NarrowHalf \in Nat \ {0} /\ 2 * NarrowHalf <= WideHalf
  BY NumbersAssumption
<1>2. Lowest(type) \in Int /\ Highest(type) \in Int
  BY <1>1 DEF IntegerTypes, Lowest, Highest, Signed, Half, One
<1>3. ASSUME type # "uint64"
      PROVE  /\ -(One * WideHalf) <= Lowest(type) /\ Lowest(type) < One * WideHalf
             /\ -(One * WideHalf) <= Highest(type) /\ Highest(type) < One * WideHalf
  BY <1>1, <1>3 DEF IntegerTypes, Lowest, Highest, Signed, Half, One
<1> QED
  BY <1>2, <1>3, WrapKeeps

(***************************************************************************)
(* No number, text or bool in a file is ever read into a uint64: the limit *)
(* of Traits.hpp:79 is cast to a signed integer, wraps to -1, and nothing  *)
(* is both at least 0 and at most -1.  README.md:179 lists every integral  *)
(* as supported.                                                           *)
(***************************************************************************)
THEOREM Uint64Unread ==
    ASSUME NEW range, NEW node
    PROVE  ReadInteger("uint64", range, node) = {}
<1> DEFINE half == One * WideHalf
           limit == Highest("uint64") + half
<1>1. WideHalf \in Nat \ {0} /\ half \in Nat \ {0} /\ 2 * half \in Nat \ {0}
  BY NumbersAssumption DEF One
<1>2. Wrap(Lowest("uint64")) = 0
  BY <1>1, WrapKeeps DEF Lowest, Signed
<1>3. limit \in Int /\ limit = 2 * half + half - 2
  BY <1>1 DEF Highest, Signed, Half, One
<1>4. 2 * half <= limit /\ limit < 2 * (2 * half)
  BY <1>1, <1>3 DEF One
<1>5. limit % (2 * half) = half - 2
  BY <1>1, <1>3, <1>4, NextRemainder
<1>6. Wrap(Highest("uint64")) = -2
  BY <1>1, <1>5 DEF Wrap
<1>7. SUFFICES ASSUME NEW v \in ReadInteger("uint64", range, node) PROVE FALSE
  OBVIOUS
<1>8. PICK x : v \in ToInt64(x)
  BY <1>7 DEF ReadInteger
<1>9. v \in Int
  BY <1>8, CastFits, Limits DEF IntegerTypes
<1>10. 0 <= v /\ v <= -2
  BY <1>2, <1>6, <1>7 DEF ReadInteger
<1> QED
  BY <1>9, <1>10

(***************************************************************************)
(* An integer setting never holds a value that its type has not, whatever  *)
(* the file spells and whatever an undefined cast answers: the check of    *)
(* Traits.hpp:76-79 is enough.                                             *)
(***************************************************************************)
THEOREM IntegersFit ==
    ASSUME NEW type \in IntegerTypes, NEW range, NEW node
    PROVE  ReadInteger(type, range, node) \subseteq Lowest(type)..Highest(type)
<1>1. CASE type = "uint64"
  BY <1>1, Uint64Unread
<1>2. CASE type # "uint64"
  <2>1. SUFFICES ASSUME NEW v \in ReadInteger(type, range, node)
                 PROVE  v \in Lowest(type)..Highest(type)
    OBVIOUS
  <2>2. PICK x : v \in ToInt64(x)
    BY <2>1 DEF ReadInteger
  <2>3. v \in Int
    BY <2>2, CastFits, Limits DEF IntegerTypes
  <2>4. Wrap(Lowest(type)) <= v /\ v <= Wrap(Highest(type))
    BY <2>1 DEF ReadInteger
  <2> QED
    BY <1>2, <2>3, <2>4, Limits
<1> QED
  BY <1>1, <1>2
=============================================================================
