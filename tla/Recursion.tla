------------------------------ MODULE Recursion ------------------------------
(***************************************************************************)
(* What the proofs about recursive functions rest on.  Induction over sets *)
(* of numbers, upwards from 0 and downwards from a bound; that a step can  *)
(* be iterated; and that a function is defined by what it is at later      *)
(* positions, up to a bound beyond which it is given.                      *)
(***************************************************************************)
EXTENDS Integers, WellFoundedInduction, TLAPS

-----------------------------------------------------------------------------
(* Upwards *)

(***************************************************************************)
(* Induction over the natural numbers: a set that has 0 and the successor  *)
(* of each of its numbers has them all.  (The induction theorem of the     *)
(* library takes an operator; this one takes a set.)                       *)
(***************************************************************************)
LEMMA NatSetInduction ==
    ASSUME NEW S, 0 \in S, \A n \in Nat : n \in S => n + 1 \in S
    PROVE  Nat \subseteq S
<1> DEFINE R == OpToRel(<, Nat)
           T == {n \in Nat : n \notin S}
<1>1. SUFFICES ASSUME T # {} PROVE FALSE
  OBVIOUS
<1>2. IsWellFoundedOn(R, Nat)
  BY NatLessThanWellFounded
<1>3. T \subseteq Nat
  OBVIOUS
<1> HIDE DEF T, R
<1>4. PICK x \in T : \A y \in T : ~ (<<y, x>> \in R)
  BY <1>1, <1>2, <1>3, WFMin
<1> USE DEF T
<1>5. x \in Nat /\ x # 0 /\ x \notin S
  OBVIOUS
<1>6. x - 1 \in Nat /\ x - 1 < x /\ (x - 1) + 1 = x
  BY <1>5
<1>7. x - 1 \in T
  BY <1>5, <1>6
<1>8. <<x - 1, x>> \in R
  BY <1>5, <1>6 DEF R, OpToRel
<1> QED
  BY <1>4, <1>7, <1>8

\* The initial segments of a function that iterates a step.
Segments(V, start, step, n) ==
    {g \in [0..n -> V] : g[0] = start /\ \A i \in 0..n - 1 : g[i + 1] = step[i][g[i]]}

\* Two segments agree as far as both go.
LEMMA SegmentsAgree ==
    ASSUME NEW V, NEW start, NEW step, NEW m \in Nat, NEW n \in Nat, n <= m,
           NEW g \in Segments(V, start, step, n), NEW h \in Segments(V, start, step, m)
    PROVE  \A i \in 0..n : g[i] = h[i]
<1> DEFINE S == {i \in Nat : i <= n => g[i] = h[i]}
<1>1. 0 \in S
  BY DEF Segments
<1>2. ASSUME NEW i \in Nat, i \in S PROVE i + 1 \in S
  <2>1. SUFFICES ASSUME i + 1 <= n PROVE g[i + 1] = h[i + 1]
    OBVIOUS
  <2>2. g[i] = h[i] /\ i \in 0..n - 1 /\ i \in 0..m - 1
    BY <1>2, <2>1
  <2> QED
    BY <2>2 DEF Segments
<1> HIDE DEF S
<1>3. Nat \subseteq S
  BY <1>1, <1>2, NatSetInduction
<1> QED
  BY <1>3 DEF S

\* There is a segment of every length.
LEMMA SegmentsExist ==
    ASSUME NEW V, NEW start \in V, NEW step \in [Nat -> [V -> V]]
    PROVE  \A n \in Nat : Segments(V, start, step, n) # {}
<1> DEFINE S == {n \in Nat : Segments(V, start, step, n) # {}}
<1>1. 0 \in S
  <2>1. [i \in 0..0 |-> start] \in Segments(V, start, step, 0)
    BY DEF Segments
  <2> QED
    BY <2>1
<1>2. ASSUME NEW n \in Nat, n \in S PROVE n + 1 \in S
  <2>1. PICK g : g \in Segments(V, start, step, n)
    BY <1>2
  <2> DEFINE h == [i \in 0..n + 1 |-> IF i = n + 1 THEN step[n][g[n]] ELSE g[i]]
  <2>2. g \in [0..n -> V] /\ g[0] = start /\ \A i \in 0..n - 1 : g[i + 1] = step[i][g[i]]
    BY <2>1 DEF Segments
  <2>3. g[n] \in V /\ step[n][g[n]] \in V
    BY <2>2
  <2>4. h \in [0..n + 1 -> V]
    BY <2>2, <2>3
  <2>5. h[0] = start
    BY <2>2
  <2>6. ASSUME NEW i \in 0..(n + 1) - 1 PROVE h[i + 1] = step[i][h[i]]
    <3>1. CASE i = n
      BY <3>1
    <3>2. CASE i # n
      <4>1. i \in 0..n - 1 /\ i + 1 \in 0..n + 1 /\ i + 1 # n + 1 /\ i \in 0..n + 1 /\ i # n + 1
        BY <3>2
      <4> QED
        BY <2>2, <4>1
    <3> QED
      BY <3>1, <3>2
  <2>7. h \in Segments(V, start, step, n + 1)
    BY <2>4, <2>5, <2>6 DEF Segments
  <2> QED
    BY <2>7
<1> HIDE DEF S
<1>3. Nat \subseteq S
  BY <1>1, <1>2, NatSetInduction
<1> QED
  BY <1>3 DEF S

\* f is what iterating the step from start gives.
IsIteration(f, V, start, step) ==
    /\ f \in [Nat -> V]
    /\ f[0] = start
    /\ \A n \in Nat : f[n + 1] = step[n][f[n]]

(***************************************************************************)
(* A step can be iterated: recursion over the natural numbers defines a    *)
(* function.                                                               *)
(***************************************************************************)
LEMMA Iterates ==
    ASSUME NEW V, NEW start \in V, NEW step \in [Nat -> [V -> V]]
    PROVE  \E f : IsIteration(f, V, start, step)
<1> DEFINE segment(n) == CHOOSE g : g \in Segments(V, start, step, n)
           f == [n \in Nat |-> segment(n)[n]]
<1>1. ASSUME NEW n \in Nat PROVE segment(n) \in Segments(V, start, step, n)
  BY SegmentsExist
<1> HIDE DEF segment
<1>2. f \in [Nat -> V]
  BY <1>1 DEF Segments
<1>3. f[0] = start
  BY <1>1 DEF Segments
<1>4. ASSUME NEW n \in Nat PROVE f[n + 1] = step[n][f[n]]
  <2>1. segment(n + 1)[n + 1] = step[n][segment(n + 1)[n]]
    BY <1>1 DEF Segments
  <2>2. segment(n)[n] = segment(n + 1)[n]
    BY <1>1, SegmentsAgree
  <2> QED
    BY <2>1, <2>2
<1> QED
  BY <1>2, <1>3, <1>4 DEF IsIteration

-----------------------------------------------------------------------------
(* Downwards *)

(***************************************************************************)
(* Induction over the positions of a sequence, from its end: a set that    *)
(* has the positions beyond L, and each position of whose later ones it    *)
(* has all, has every position.                                            *)
(***************************************************************************)
LEMMA DownwardInduction ==
    ASSUME NEW S, NEW L \in Nat,
           \A i \in Nat \ {0} : i > L => i \in S,
           \A i \in 1..L : (\A j \in Nat \ {0} : j > i => j \in S) => i \in S
    PROVE  Nat \ {0} \subseteq S
<1> DEFINE T == {n \in Nat : \A i \in Nat \ {0} : i > L - n => i \in S}
<1>1. 0 \in T
  OBVIOUS
<1>2. ASSUME NEW n \in Nat, n \in T PROVE n + 1 \in T
  <2>1. SUFFICES ASSUME NEW i \in Nat \ {0}, i > L - (n + 1) PROVE i \in S
    OBVIOUS
  <2>2. \A j \in Nat \ {0} : j > L - n => j \in S
    BY <1>2
  <2>3. CASE i > L - n
    BY <2>2, <2>3
  <2>4. CASE i = L - n
    <3>1. i \in 1..L
      BY <2>4
    <3>2. \A j \in Nat \ {0} : j > i => j \in S
      BY <2>2, <2>4
    <3> QED
      BY <3>1, <3>2
  <2> QED
    BY <2>1, <2>3, <2>4
<1> HIDE DEF T
<1>3. Nat \subseteq T
  BY <1>1, <1>2, NatSetInduction
<1>4. L \in T
  BY <1>3
<1> QED
  BY <1>4 DEF T

\* f is base beyond L, and up to L what the step makes of its later values.
IsBackward(f, V, L, base, step) ==
    /\ f \in [Nat \ {0} -> V]
    /\ \A i \in Nat \ {0} : f[i] = IF i > L THEN base ELSE step[i][f]

\* The step at i looks at later values only.
LooksAhead(V, L, step) ==
    \A i \in 1..L : \A g \in [Nat \ {0} -> V], h \in [Nat \ {0} -> V] :
        (\A j \in Nat \ {0} : j > i => g[j] = h[j]) => step[i][g] = step[i][h]

(***************************************************************************)
(* Recursion from the end of a sequence defines a function.                *)
(***************************************************************************)
LEMMA BackwardExists ==
    ASSUME NEW V, NEW L \in Nat, NEW base \in V,
           NEW step \in [1..L -> [[Nat \ {0} -> V] -> V]], LooksAhead(V, L, step)
    PROVE  \E f : IsBackward(f, V, L, base, step)
<1> DEFINE W == [Nat \ {0} -> V]
           start == [i \in Nat \ {0} |-> base]
           Improve(g) == [i \in Nat \ {0} |-> IF i > L THEN base ELSE step[i][g]]
           improve == [n \in Nat |-> [g \in W |-> Improve(g)]]
<1>1. start \in W
  OBVIOUS
<1>2. ASSUME NEW g \in W PROVE Improve(g) \in W
  <2>1. ASSUME NEW i \in Nat \ {0} PROVE (IF i > L THEN base ELSE step[i][g]) \in V
    <3>1. CASE i > L
      BY <3>1
    <3>2. CASE ~(i > L)
      <4>1. i \in 1..L
        BY <3>2
      <4> QED
        BY <3>2, <4>1
    <3> QED
      BY <3>1, <3>2
  <2> QED
    BY <2>1
<1>3. improve \in [Nat -> [W -> W]]
  <2> HIDE DEF Improve, W
  <2> QED
    BY <1>2
<1> HIDE DEF improve, start
<1>4. PICK r : IsIteration(r, W, start, improve)
  <2> HIDE DEF W
  <2> QED
    BY <1>1, <1>3, Iterates
<1>5. \A n \in Nat : r[n] \in W
  BY <1>4 DEF IsIteration
<1>6. ASSUME NEW n \in Nat PROVE r[n + 1] = Improve(r[n])
  <2>1. r[n + 1] = improve[n][r[n]]
    BY <1>4 DEF IsIteration
  <2> HIDE DEF W, Improve
  <2> QED
    BY <1>5, <2>1 DEF improve
<1> HIDE DEF W
<1> DEFINE T == {n \in Nat : \A i \in Nat \ {0} : i > L - n => r[n][i] = r[n + 1][i]}
<1>7. 0 \in T
  <2>1. r[0] = start
    BY <1>4 DEF IsIteration
  <2>2. r[0 + 1] = Improve(r[0])
    BY <1>6
  <2>3. ASSUME NEW i \in Nat \ {0}, i > L - 0 PROVE r[0][i] = r[0 + 1][i]
    <3>1. r[0][i] = base
      BY <2>1 DEF start
    <3>2. r[0 + 1][i] = base
      BY <2>2, <2>3
    <3> QED
      BY <3>1, <3>2
  <2> QED
    BY <2>3
<1>8. ASSUME NEW n \in Nat, n \in T PROVE n + 1 \in T
  <2>1. SUFFICES ASSUME NEW i \in Nat \ {0}, i > L - (n + 1)
                 PROVE  r[n + 1][i] = r[n + 1 + 1][i]
    OBVIOUS
  <2>2. r[n + 1] = Improve(r[n]) /\ r[n + 1 + 1] = Improve(r[n + 1])
    <3> DEFINE m == n + 1
    <3>1. m \in Nat
      OBVIOUS
    <3> HIDE DEF m, Improve
    <3>2. r[m + 1] = Improve(r[m])
      BY <1>6, <3>1
    <3>3. r[n + 1] = Improve(r[n])
      BY <1>6
    <3> QED
      BY <3>2, <3>3 DEF m
  <2>3. CASE i > L
    BY <2>2, <2>3
  <2>4. CASE ~(i > L)
    <3>1. i \in 1..L
      BY <2>4
    <3>2. \A j \in Nat \ {0} : j > i => r[n][j] = r[n + 1][j]
      BY <1>8, <2>1
    <3>3. r[n] \in W /\ r[n + 1] \in W
      BY <1>5
    <3>4. step[i][r[n]] = step[i][r[n + 1]]
      BY <3>1, <3>2, <3>3 DEF LooksAhead, W
    <3> QED
      BY <2>2, <2>4, <3>4
  <2> QED
    BY <2>3, <2>4
<1> HIDE DEF T
<1>9. Nat \subseteq T
  BY <1>7, <1>8, NatSetInduction
<1>10. L \in T
  BY <1>9
<1> DEFINE f == r[L]
<1>11. f \in W
  BY <1>5
<1>12. ASSUME NEW i \in Nat \ {0} PROVE f[i] = IF i > L THEN base ELSE step[i][f]
  <2>1. r[L][i] = r[L + 1][i]
    BY <1>10 DEF T
  <2>2. r[L + 1] = Improve(r[L])
    BY <1>6
  <2> QED
    BY <2>1, <2>2
<1> QED
  BY <1>11, <1>12 DEF IsBackward, W
=============================================================================
