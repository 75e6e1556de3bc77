------------------------------ MODULE TextsProof ------------------------------
(***************************************************************************)
(* UTF-8 and wide texts, for texts of every length: that whatever bytes or *)
(* units come in, well-formed UTF-8 comes out, that what was well formed   *)
(* comes back as it was, and that damage costs no plain character.         *)
(***************************************************************************)
EXTENDS Utf, Recursion, SequenceTheorems

\* What a char holds, and what a text is made of.
Byte == 0..255
Scalars == (0..MaxCodePoint) \ Surrogates

\* As a number of its own, the last code point is too large for the provers.
LEMMA PlanesAre == Planes = 17
  BY DEF Planes

\* The surrogates are one range, of two halves.
LEMMA SurrogateRanges ==
    ASSUME NEW x \in Int
    PROVE  /\ x \in HighSurrogates <=> 55296 <= x /\ x <= 56319
           /\ x \in LowSurrogates <=> 56320 <= x /\ x <= 57343
           /\ x \in Surrogates <=> 55296 <= x /\ x <= 57343
<1>1. x \in Surrogates <=> x \in HighSurrogates \/ x \in LowSurrogates
  BY DEF Surrogates
<1>2. x \in HighSurrogates <=> 55296 <= x /\ x <= 56319
  BY SMT DEF HighSurrogates
<1>3. x \in LowSurrogates <=> 56320 <= x /\ x <= 57343
  BY SMT DEF LowSurrogates
<1> QED
  BY <1>1, <1>2, <1>3, SMT

\* There is a last code point.
LEMMA LastIs == MaxCodePoint \in Nat /\ MaxCodePoint >= 65536
  BY PlanesAre, SMT DEF MaxCodePoint

\* A code point is up to the last one and no surrogate.
LEMMA ScalarRanges ==
    ASSUME NEW x \in Int
    PROVE  /\ x \in Scalars <=> 0 <= x /\ x <= MaxCodePoint /\ x \notin Surrogates
           /\ 0 <= x /\ x < 55296 => x \in Scalars
           /\ 57343 < x /\ x < 65536 => x \in Scalars
           /\ 65536 <= x /\ x <= MaxCodePoint => x \in Scalars
<1>1. MaxCodePoint \in Nat /\ MaxCodePoint >= 65536
  BY LastIs
<1>2. x \in Scalars <=> 0 <= x /\ x <= MaxCodePoint /\ x \notin Surrogates
  BY <1>1, SMT DEF Scalars
<1> QED
  BY <1>1, <1>2, SurrogateRanges, SMT

\* The code points are the numbers up to the last one but the surrogates.
LEMMA ScalarIs ==
    \A x : x \in Scalars <=> x \in Nat /\ x <= MaxCodePoint /\ x \notin Surrogates
  BY LastIs, SMT DEF Scalars

\* U+FFFD is a code point, and no plain character.
LEMMA ReplacementIs == Replacement \in Scalars /\ Replacement \in Nat /\ Replacement >= 128
<1>1. Replacement \in Nat /\ Replacement >= 128 /\ 57343 < Replacement /\ Replacement < 65536
  BY SMT DEF Replacement
<1> QED
  BY <1>1, ScalarRanges, SMT

-----------------------------------------------------------------------------
(* Decoding one code point *)

\* So many of the announced continuations are there, and no more.
IsArrived(bytes, i, extra, come) ==
    /\ come \in 0..extra
    /\ \A j \in i + 1..i + come : j <= Len(bytes) /\ bytes[j] \in Continuations
    /\ come < extra => ~(i + come + 1 <= Len(bytes) /\ bytes[i + come + 1] \in Continuations)

\* A byte and a continuation, as numbers.
LEMMA ByteIs == \A x : x \in Byte <=> x \in Nat /\ x <= 255
  BY DEF Byte

\* The continuation bytes, by their bounds.
LEMMA ContinuationIs ==
    \A x : x \in Continuations <=> x \in Nat /\ 128 <= x /\ x <= 191
  BY DEF Continuations

\* What a lead byte announces.
LEMMA LeadIs ==
    /\ \A l \in 194..223 : Lead(l) = [extra |-> 1, bits |-> l % 32]
    /\ \A l \in 224..239 : Lead(l) = [extra |-> 2, bits |-> l % 16]
    /\ \A l \in 240..244 : Lead(l) = [extra |-> 3, bits |-> l % 8]
<1>1. ASSUME NEW l \in 194..223 PROVE Lead(l) = [extra |-> 1, bits |-> l % 32]
  BY SMT DEF Lead
<1>2. ASSUME NEW l \in 224..239 PROVE Lead(l) = [extra |-> 2, bits |-> l % 16]
  BY SMT DEF Lead
<1>3. ASSUME NEW l \in 240..244 PROVE Lead(l) = [extra |-> 3, bits |-> l % 8]
  BY SMT DEF Lead
<1> QED
  BY <1>1, <1>2, <1>3

\* What a lead byte announces is at most three bytes more.
LEMMA Leads ==
    ASSUME NEW byte \in Byte
    PROVE  /\ Lead(byte).extra \in 0..3 /\ Lead(byte).bits \in Nat
           /\ byte < 128 => Lead(byte).extra = 0
  BY DEF Lead, Byte

\* There is one number of continuations that have arrived.
LEMMA ArrivedExists ==
    ASSUME NEW bytes \in Seq(Byte), NEW i \in 1..Len(bytes), NEW extra \in 0..3
    PROVE  IsArrived(bytes, i, extra, Arrived(bytes, i, extra))
<1> DEFINE Good(j) == j <= Len(bytes) /\ bytes[j] \in Continuations
           S == {k \in 0..extra : \A j \in i + 1..i + k : Good(j)}
           Top(m) == m \in S /\ \A y \in S : m >= y
<1>1. Arrived(bytes, i, extra) = CHOOSE m \in S : \A y \in S : m >= y
  BY DEF Arrived, Max
<1> HIDE DEF Good
<1>2. 0 \in S
  OBVIOUS
<1>3. \E m \in S : \A y \in S : m >= y
  <2>1. S \subseteq {0, 1, 2, 3}
    OBVIOUS
  <2> HIDE DEF S
  <2>2. CASE 3 \in S
    BY <2>1, <2>2
  <2>3. CASE 3 \notin S /\ 2 \in S
    BY <2>1, <2>3
  <2>4. CASE 3 \notin S /\ 2 \notin S /\ 1 \in S
    BY <2>1, <2>4
  <2>5. CASE 3 \notin S /\ 2 \notin S /\ 1 \notin S
    BY <1>2, <2>1, <2>5
  <2> QED
    BY <2>2, <2>3, <2>4, <2>5
<1> DEFINE m == Arrived(bytes, i, extra)
<1>4. m \in S /\ \A y \in S : m >= y
  BY <1>1, <1>3
<1> HIDE DEF m
<1>5. m < extra => ~Good(i + m + 1)
  <2>1. SUFFICES ASSUME m < extra, Good(i + m + 1) PROVE FALSE
    OBVIOUS
  <2>2. m \in Nat /\ m + 1 \in 0..extra
    BY <1>4, <2>1
  <2>3. ASSUME NEW j \in i + 1..i + (m + 1) PROVE Good(j)
    <3>1. j \in i + 1..i + m \/ j = i + m + 1
      BY <2>2
    <3> QED
      BY <1>4, <2>1, <3>1
  <2>4. m + 1 \in S
    BY <2>2, <2>3
  <2> QED
    BY <1>4, <2>2, <2>4
<1> QED
  BY <1>4, <1>5 DEF IsArrived, Good, m

\* How many continuation bytes arrive is one number.
LEMMA ArrivedOnce ==
    ASSUME NEW bytes \in Seq(Byte), NEW i \in 1..Len(bytes), NEW extra \in 0..3,
           NEW k, IsArrived(bytes, i, extra, k), NEW m, IsArrived(bytes, i, extra, m)
    PROVE  k = m
<1> DEFINE Good(j) == j <= Len(bytes) /\ bytes[j] \in Continuations
<1>1. /\ k \in 0..extra /\ m \in 0..extra
      /\ \A j \in i + 1..i + k : Good(j)
      /\ \A j \in i + 1..i + m : Good(j)
      /\ k < extra => ~Good(i + k + 1)
      /\ m < extra => ~Good(i + m + 1)
  BY DEF IsArrived
<1> HIDE DEF Good
<1>2. ~(k < m)
  <2>1. SUFFICES ASSUME k < m PROVE FALSE
    OBVIOUS
  <2>2. i + k + 1 \in i + 1..i + m /\ k < extra
    BY <1>1, <2>1
  <2> QED
    BY <1>1, <2>2
<1>3. ~(m < k)
  <2>1. SUFFICES ASSUME m < k PROVE FALSE
    OBVIOUS
  <2>2. i + m + 1 \in i + 1..i + k /\ m < extra
    BY <1>1, <2>1
  <2> QED
    BY <1>1, <2>2
<1> QED
  BY <1>1, <1>2, <1>3

\* What a lead byte and up to three continuations spell, written out.
Own(bytes, i, k) == bytes[i + k] % 64
Spelt(bytes, i, come) ==
    IF come = 0 THEN Lead(bytes[i]).bits
    ELSE IF come = 1 THEN (Lead(bytes[i]).bits * 64) + Own(bytes, i, 1)
    ELSE IF come = 2
    THEN (((Lead(bytes[i]).bits * 64) + Own(bytes, i, 1)) * 64) + Own(bytes, i, 2)
    ELSE (((((Lead(bytes[i]).bits * 64) + Own(bytes, i, 1)) * 64) + Own(bytes, i, 2)) * 64)
            + Own(bytes, i, 3)

\* The bits that the fold of the decoder gathers, spelled out.
LEMMA GatheredIs ==
    ASSUME NEW bytes, NEW i, NEW come \in 0..3
    PROVE  Gathered(bytes, i, come) = Spelt(bytes, i, come)
<1> DEFINE T(k) == Own(bytes, i, k)
           L == Lead(bytes[i]).bits
           Is(f) == f = [k \in 0..come |-> IF k = 0 THEN L ELSE (f[k - 1] * 64) + T(k)]
           g == [k \in 0..come |-> Spelt(bytes, i, k)]
           bits == CHOOSE f : Is(f)
<1>1. Gathered(bytes, i, come) = bits[come]
  BY DEF Gathered, Own
<1>2. \A k \in 1..3 : Spelt(bytes, i, k) = (Spelt(bytes, i, k - 1) * 64) + T(k)
  BY DEF Spelt
<1>3. Spelt(bytes, i, 0) = L
  BY DEF Spelt
<1> HIDE DEF T, L
<1>4. ASSUME NEW k \in 0..come
      PROVE  g[k] = IF k = 0 THEN L ELSE (g[k - 1] * 64) + T(k)
  <2>1. CASE k = 0
    BY <1>3, <2>1
  <2>2. CASE k # 0
    <3>1. k \in 1..3 /\ k - 1 \in 0..come
      BY <2>2
    <3> QED
      BY <1>2, <2>2, <3>1
  <2> QED
    BY <2>1, <2>2
<1>5. Is(g)
  BY <1>4
<1>6. Is(bits)
  BY <1>5
<1> HIDE DEF bits
<1>7. \A k \in 0..come : bits[k] = IF k = 0 THEN L ELSE (bits[k - 1] * 64) + T(k)
  BY <1>6
<1>8. bits[0] = Spelt(bytes, i, 0)
  BY <1>3, <1>7
<1>9. come >= 1 => bits[1] = Spelt(bytes, i, 1)
  BY <1>2, <1>7, <1>8
<1>10. come >= 2 => bits[2] = Spelt(bytes, i, 2)
  BY <1>2, <1>7, <1>9
<1>11. come >= 3 => bits[3] = Spelt(bytes, i, 3)
  BY <1>2, <1>7, <1>10
<1> QED
  BY <1>1, <1>8, <1>9, <1>10, <1>11

\* The code point of a lead byte and so many continuations that spell cp.
Code(byte, come, cp) ==
    LET extra == Lead(byte).extra
    IN  IF byte < 128 THEN byte
        ELSE IF \/ extra = 0 \/ come < extra \/ cp < Shortest(extra)
                \/ cp \in Surrogates \/ cp > MaxCodePoint
        THEN Replacement ELSE cp

\* What is decoded at i, from how much of it has arrived.
LEMMA DecodeIs ==
    ASSUME NEW bytes \in Seq(Byte), NEW i \in 1..Len(bytes),
           NEW come, IsArrived(bytes, i, Lead(bytes[i]).extra, come)
    PROVE  DecodeUtf8(bytes, i) =
                [next |-> i + come + 1, cp |-> Code(bytes[i], come, Spelt(bytes, i, come))]
<1>1. bytes[i] \in Byte
  OBVIOUS
<1>2. Lead(bytes[i]).extra \in 0..3
  BY <1>1, Leads
<1>3. Arrived(bytes, i, Lead(bytes[i]).extra) = come
  BY <1>2, ArrivedExists, ArrivedOnce
<1>4. come \in 0..3
  BY <1>2 DEF IsArrived
<1>5. Gathered(bytes, i, come) = Spelt(bytes, i, come)
  BY <1>4, GatheredIs
<1> QED
  BY <1>3, <1>5, SMT DEF DecodeUtf8, Code

\* A code point is decoded from any bytes, and at least one of them is consumed;
\* a plain character is decoded from one that is plain, and nothing plain is
\* consumed with anything else.
LEMMA DecodeFacts ==
    ASSUME NEW bytes \in Seq(Byte), NEW i \in 1..Len(bytes)
    PROVE  /\ DecodeUtf8(bytes, i).cp \in Scalars
           /\ DecodeUtf8(bytes, i).next \in i + 1..Len(bytes) + 1
           /\ bytes[i] < 128 =>
                DecodeUtf8(bytes, i).cp = bytes[i] /\ DecodeUtf8(bytes, i).next = i + 1
           /\ bytes[i] >= 128 =>
                /\ DecodeUtf8(bytes, i).cp >= 128
                /\ \A j \in i..DecodeUtf8(bytes, i).next - 1 : bytes[j] >= 128
<1> DEFINE extra == Lead(bytes[i]).extra
           come == Arrived(bytes, i, extra)
           cp == Spelt(bytes, i, come)
           bad == come < extra \/ cp < Shortest(extra) \/ cp \in Surrogates \/ cp > MaxCodePoint
           d == DecodeUtf8(bytes, i)
<1>1. bytes[i] \in Byte
  OBVIOUS
<1>2. extra \in 0..3 /\ (bytes[i] < 128 => extra = 0) /\ Lead(bytes[i]).bits \in Nat
  BY <1>1, Leads
<1>3. IsArrived(bytes, i, extra, come)
  BY <1>2, ArrivedExists
<1>4. d = [next |-> i + come + 1, cp |-> Code(bytes[i], come, cp)]
  BY <1>3, DecodeIs
<1>5. /\ come \in 0..extra /\ come \in 0..3
      /\ \A j \in i + 1..i + come : j \in 1..Len(bytes) /\ bytes[j] \in Continuations /\ bytes[j] >= 128
  BY <1>2, <1>3, ContinuationIs DEF IsArrived
<1>6. cp \in Int
  <2>1. \A k \in 1..come : Own(bytes, i, k) \in Int
    <3>1. ASSUME NEW k \in 1..come PROVE bytes[i + k] \in Int
      <4>1. i + k \in i + 1..i + come
        BY <1>5
      <4>2. bytes[i + k] \in Continuations
        BY <1>5, <4>1
      <4> QED
        BY <4>2, ContinuationIs
    <3> QED
      BY <3>1 DEF Own
  <2> DEFINE l == Lead(bytes[i]).bits
  <2>2. l \in Int
    BY <1>2
  <2> HIDE DEF l
  <2>3. CASE come = 0
    BY <2>2, <2>3 DEF Spelt, l
  <2>4. CASE come = 1
    BY <2>1, <2>2, <2>4 DEF Spelt, l
  <2>5. CASE come = 2
    BY <2>1, <2>2, <2>5 DEF Spelt, l
  <2>6. CASE come = 3
    BY <2>1, <2>2, <2>6 DEF Spelt, l
  <2> QED
    BY <1>5, <2>3, <2>4, <2>5, <2>6
<1>7. extra # 0 => Shortest(extra) \in Nat /\ Shortest(extra) >= 128
  BY <1>2 DEF Shortest
<1>8. d.cp = IF bytes[i] < 128 THEN bytes[i] ELSE IF extra = 0 \/ bad THEN Replacement ELSE cp
  BY <1>4, SMT DEF Code
<1> HIDE DEF extra, come, cp, d, bad
<1>9. d.next = i + come + 1 /\ d.next \in i + 1..Len(bytes) + 1
  <2>1. d.next = i + come + 1 /\ i \in Nat /\ come \in Nat /\ Len(bytes) \in Nat /\ i >= 1
    BY <1>4, <1>5
  <2>2. i + come <= Len(bytes)
    <3>1. CASE come = 0
      BY <3>1
    <3>2. CASE come > 0
      <4>1. i + come \in i + 1..i + come
        BY <2>1, <3>2
      <4> QED
        BY <1>5, <4>1
    <3> QED
      BY <2>1, <3>1, <3>2
  <2> QED
    BY <2>1, <2>2
<1> DEFINE Goal == /\ d.cp \in Scalars /\ d.next \in i + 1..Len(bytes) + 1
                   /\ bytes[i] < 128 => d.cp = bytes[i] /\ d.next = i + 1
                   /\ bytes[i] >= 128 => d.cp >= 128 /\ \A j \in i..d.next - 1 : bytes[j] >= 128
<1>10. ASSUME bytes[i] < 128 PROVE Goal
  <2>1. extra = 0 /\ come = 0 /\ d.cp = bytes[i]
    BY <1>2, <1>5, <1>10, <1>8
  <2>2. bytes[i] \in Nat
    BY <1>1, ByteIs
  <2>3. d.cp \in Scalars
    BY <1>10, <2>1, <2>2, ScalarRanges, SMT
  <2> QED
    BY <1>9, <1>10, <2>1, <2>2, <2>3
<1>11. ASSUME ~(bytes[i] < 128) PROVE Goal
  <2>1. bytes[i] >= 128 /\ bytes[i] \in Nat
    BY <1>1, <1>11, ByteIs
  <2>2. d.cp = IF extra = 0 \/ bad THEN Replacement ELSE cp
    BY <1>11, <1>8
  <2>3. d.cp \in Scalars /\ d.cp >= 128
    <3>1. CASE extra = 0 \/ bad
      BY <2>2, <3>1, ReplacementIs
    <3>2. CASE ~(extra = 0 \/ bad)
      <4>1. d.cp = cp /\ cp >= Shortest(extra) /\ cp \notin Surrogates /\ cp <= MaxCodePoint
        BY <1>6, <1>7, <2>2, <3>2, LastIs, SMT DEF bad
      <4>2. cp >= 128
        BY <1>6, <1>7, <3>2, <4>1, SMT
      <4> QED
        BY <1>6, <4>1, <4>2, ScalarRanges, SMT
    <3> QED
      BY <3>1, <3>2
  <2>4. ASSUME NEW j \in i..d.next - 1 PROVE bytes[j] >= 128
    <3>1. j = i \/ j \in i + 1..i + come
      BY <1>5, <1>9, <2>4
    <3> QED
      BY <1>5, <2>1, <3>1
  <2> QED
    BY <1>9, <1>11, <2>3, <2>4
<1> QED
  BY <1>10, <1>11 DEF d

\* Decoding looks at nothing before the code point.
LEMMA DecodeShifts ==
    ASSUME NEW a \in Seq(Byte), NEW b \in Seq(Byte), NEW i \in 1..Len(b)
    PROVE  /\ DecodeUtf8(a \o b, Len(a) + i).cp = DecodeUtf8(b, i).cp
           /\ DecodeUtf8(a \o b, Len(a) + i).next = Len(a) + DecodeUtf8(b, i).next
<1> DEFINE t == a \o b
           p == Len(a)
           extra == Lead(b[i]).extra
           come == Arrived(b, i, extra)
<1>1. t \in Seq(Byte) /\ Len(t) = p + Len(b) /\ p \in Nat /\ Len(b) \in Nat
  OBVIOUS
<1>2. \A j \in 1..Len(b) : t[p + j] = b[j]
  OBVIOUS
<1> HIDE DEF t, p
<1>3. b[i] \in Byte /\ t[p + i] = b[i] /\ p + i \in 1..Len(t)
  BY <1>1, <1>2
<1>4. extra \in 0..3
  BY <1>3, Leads
<1>5. IsArrived(b, i, extra, come)
  BY <1>4, ArrivedExists
<1> HIDE DEF extra, come
<1>6. /\ come \in 0..extra /\ come \in 0..3
      /\ \A j \in i + 1..i + come : j <= Len(b) /\ b[j] \in Continuations
      /\ come < extra => ~(i + come + 1 <= Len(b) /\ b[i + come + 1] \in Continuations)
  BY <1>4, <1>5 DEF IsArrived
<1>7. IsArrived(t, p + i, extra, come)
  <2>1. ASSUME NEW j \in (p + i) + 1..(p + i) + come
        PROVE  j <= Len(t) /\ t[j] \in Continuations
    <3>1. j - p \in i + 1..i + come
      BY <1>1, <1>6
    <3>2. j - p <= Len(b) /\ b[j - p] \in Continuations /\ j - p \in 1..Len(b)
      BY <1>6, <3>1
    <3>3. t[p + (j - p)] = b[j - p] /\ p + (j - p) = j
      BY <1>1, <1>2, <3>2
    <3> QED
      BY <1>1, <3>2, <3>3
  <2>2. ASSUME come < extra, (p + i) + come + 1 <= Len(t), t[(p + i) + come + 1] \in Continuations
        PROVE  FALSE
    <3>1. i + come + 1 \in 1..Len(b)
      BY <1>1, <1>6, <2>2
    <3>2. t[p + (i + come + 1)] = b[i + come + 1] /\ p + (i + come + 1) = (p + i) + come + 1
      BY <1>1, <1>2, <1>6, <3>1
    <3> QED
      BY <1>6, <2>2, <3>1, <3>2
  <2> QED
    BY <1>6, <2>1, <2>2 DEF IsArrived
<1>8. Spelt(t, p + i, come) = Spelt(b, i, come)
  <2>1. ASSUME NEW k \in 1..come PROVE Own(t, p + i, k) = Own(b, i, k)
    <3>1. i + k \in i + 1..i + come
      BY <1>6
    <3>2. i + k \in 1..Len(b)
      BY <1>6, <3>1
    <3>3. t[p + (i + k)] = b[i + k] /\ p + (i + k) = (p + i) + k
      BY <1>1, <1>2, <3>2
    <3> QED
      BY <3>3 DEF Own
  <2>2. Lead(t[p + i]) = Lead(b[i])
    BY <1>3
  <2>3. CASE come = 0
    BY <2>2, <2>3 DEF Spelt
  <2>4. CASE come = 1
    BY <2>1, <2>2, <2>4 DEF Spelt
  <2>5. CASE come = 2
    BY <2>1, <2>2, <2>5 DEF Spelt
  <2>6. CASE come = 3
    BY <2>1, <2>2, <2>6 DEF Spelt
  <2> QED
    BY <1>6, <2>3, <2>4, <2>5, <2>6
<1>9. DecodeUtf8(b, i) = [next |-> i + come + 1, cp |-> Code(b[i], come, Spelt(b, i, come))]
  BY <1>5, DecodeIs DEF extra
<1>10. DecodeUtf8(t, p + i) =
            [next |-> (p + i) + come + 1, cp |-> Code(b[i], come, Spelt(b, i, come))]
  <2>1. IsArrived(t, p + i, Lead(t[p + i]).extra, come)
    BY <1>3, <1>7 DEF extra
  <2> QED
    BY <1>1, <1>3, <1>8, <2>1, DecodeIs
<1>11. (p + i) + come + 1 = p + (i + come + 1)
  BY <1>1, <1>6
<1> QED
  BY <1>9, <1>10, <1>11 DEF t, p

-----------------------------------------------------------------------------
(* Encoding one code point *)

\* A sequence that is whole and as short as it can be is decoded to what it spells.
LEMMA DecodeWhole ==
    ASSUME NEW bytes \in Seq(Byte), NEW i \in 1..Len(bytes),
           NEW extra \in 1..3, extra = Lead(bytes[i]).extra, bytes[i] >= 128,
           i + extra <= Len(bytes), \A k \in 1..extra : bytes[i + k] \in Continuations,
           NEW cp \in Scalars, cp = Spelt(bytes, i, extra), cp >= Shortest(extra)
    PROVE  DecodeUtf8(bytes, i) = [next |-> i + extra + 1, cp |-> cp]
<1>1. bytes[i] \in Nat /\ Len(bytes) \in Nat /\ i \in Nat
  BY ByteIs
<1>2. IsArrived(bytes, i, extra, extra)
  <2>1. ASSUME NEW j \in i + 1..i + extra PROVE j <= Len(bytes) /\ bytes[j] \in Continuations
    <3>1. j - i \in 1..extra /\ i + (j - i) = j
      BY <1>1
    <3> QED
      BY <1>1, <3>1
  <2> QED
    BY <2>1 DEF IsArrived
<1>3. ~(bytes[i] < 128)
  BY <1>1
<1>4. cp \in Nat /\ cp \notin Surrogates /\ ~(cp > MaxCodePoint)
  BY LastIs, ScalarIs, SMT
<1>5. Shortest(extra) \in Nat
  BY SMT DEF Shortest
<1>6. ~(cp < Shortest(extra))
  BY <1>4, <1>5, SMT
<1> QED
  <2>1. Code(bytes[i], extra, cp) = cp
    BY <1>3, <1>4, <1>6, SMT DEF Code
  <2> QED
    BY <1>2, <2>1, DecodeIs

\* The well-formed sequences of one to four bytes, and what they spell.
Form1(l) == l \in 0..127
Form2(l, x) == l \in 194..223 /\ x \in Continuations
Form3(l, x, y) ==
    /\ l \in 224..239 /\ x \in Continuations /\ y \in Continuations
    /\ l = 224 => x >= 160
    /\ l = 237 => x <= 159
Form4(l, x, y, z) ==
    /\ l \in 240..244 /\ x \in Continuations /\ y \in Continuations /\ z \in Continuations
    /\ l = 240 => x >= 144
    /\ l = 244 => x <= 143

Two(l, x) == ((l % 32) * 64) + (x % 64)
Three(l, x, y) == ((((l % 16) * 64) + (x % 64)) * 64) + (y % 64)
Four(l, x, y, z) == ((((((l % 8) * 64) + (x % 64)) * 64) + (y % 64)) * 64) + (z % 64)

\* A well-formed sequence of n bytes stands at i, and what it spells.
WellFormedAt(bytes, i, n) ==
    /\ i + n <= Len(bytes) + 1
    /\ \/ n = 1 /\ Form1(bytes[i])
       \/ n = 2 /\ Form2(bytes[i], bytes[i + 1])
       \/ n = 3 /\ Form3(bytes[i], bytes[i + 1], bytes[i + 2])
       \/ n = 4 /\ Form4(bytes[i], bytes[i + 1], bytes[i + 2], bytes[i + 3])

\* The code point that the n bytes from i on spell.
CodePoint(bytes, i, n) ==
    IF n = 1 THEN bytes[i]
    ELSE IF n = 2 THEN Two(bytes[i], bytes[i + 1])
    ELSE IF n = 3 THEN Three(bytes[i], bytes[i + 1], bytes[i + 2])
    ELSE Four(bytes[i], bytes[i + 1], bytes[i + 2], bytes[i + 3])

\* The four lengths of an encoding, each with the numbers it is made of.
LEMMA Encoding1 ==
    ASSUME NEW cp \in Nat, cp < 128
    PROVE  AppendUtf8(cp) = <<cp>>
  BY SMT DEF AppendUtf8

\* The encoding of a code point below 2048 has two bytes.
LEMMA Encoding2 ==
    ASSUME NEW cp \in Nat, 128 <= cp, cp < 2048
    PROVE  \E l, x : Form2(l, x) /\ Two(l, x) = cp /\ AppendUtf8(cp) = <<l, x>>
<1> DEFINE l == 192 + (cp \div 64)
           x == 128 + ((cp \div 1) % 64)
<1>1. AppendUtf8(cp) = <<l, x>>
  BY SMT DEF AppendUtf8
<1>2. /\ l \in Nat /\ 194 <= l /\ l <= 223
      /\ x \in Nat /\ 128 <= x /\ x <= 191
      /\ ((l - 192) * 64) + (x - 128) = cp
  BY SMT
<1> HIDE DEF l, x
<1>3. l % 32 = l - 192 /\ x % 64 = x - 128
  BY <1>2, SMT
<1>4. ((l % 32) * 64) + (x % 64) = cp
  BY <1>2, <1>3
<1>5. l \in 194..223 /\ x \in Continuations
  BY <1>2, ContinuationIs
<1>6. Form2(l, x) /\ Two(l, x) = cp
  BY <1>4, <1>5 DEF Form2, Two
<1> QED
  BY <1>1, <1>6

\* That of one below 65536 has three, none of them of a surrogate.
LEMMA Encoding3 ==
    ASSUME NEW cp \in Nat, 2048 <= cp, cp < 65536, cp \notin Surrogates
    PROVE  \E l, x, y : Form3(l, x, y) /\ Three(l, x, y) = cp /\ AppendUtf8(cp) = <<l, x, y>>
<1> DEFINE l == 224 + (cp \div 4096)
           x == 128 + ((cp \div 64) % 64)
           y == 128 + ((cp \div 1) % 64)
<1>1. AppendUtf8(cp) = <<l, x, y>>
  BY SMT DEF AppendUtf8
<1>2. /\ l \in Nat /\ 224 <= l /\ l <= 239
      /\ x \in Nat /\ 128 <= x /\ x <= 191
      /\ y \in Nat /\ 128 <= y /\ y <= 191
      /\ ((((l - 224) * 64) + (x - 128)) * 64) + (y - 128) = cp
  BY SMT
<1>3. l = 224 => x >= 160
  BY SMT
<1>4. l = 237 => x <= 159
  BY SurrogateRanges, SMT
<1> HIDE DEF l, x, y
<1>5. l % 16 = l - 224 /\ x % 64 = x - 128 /\ y % 64 = y - 128
  BY <1>2, SMT
<1>6. ((((l % 16) * 64) + (x % 64)) * 64) + (y % 64) = cp
  BY <1>2, <1>5
<1>7. l \in 224..239 /\ x \in Continuations /\ y \in Continuations
  BY <1>2, ContinuationIs
<1>8. Form3(l, x, y) /\ Three(l, x, y) = cp
  BY <1>3, <1>4, <1>6, <1>7 DEF Form3, Three
<1> QED
  BY <1>1, <1>8

\* That of any other has four.
LEMMA Encoding4 ==
    ASSUME NEW cp \in Nat, cp >= 65536, cp <= MaxCodePoint
    PROVE  \E l, x, y, z :
                Form4(l, x, y, z) /\ Four(l, x, y, z) = cp /\ AppendUtf8(cp) = <<l, x, y, z>>
<1> DEFINE l == 240 + (cp \div (64 * 4096))
           x == 128 + ((cp \div 4096) % 64)
           y == 128 + ((cp \div 64) % 64)
           z == 128 + ((cp \div 1) % 64)
<1>1. AppendUtf8(cp) = <<l, x, y, z>>
  BY SMT DEF AppendUtf8
<1>2. /\ l \in Nat /\ x \in Nat /\ 128 <= x /\ x <= 191
      /\ y \in Nat /\ 128 <= y /\ y <= 191 /\ z \in Nat /\ 128 <= z /\ z <= 191
      /\ ((((((l - 240) * 64) + (x - 128)) * 64) + (y - 128)) * 64) + (z - 128) = cp
  BY SMT
<1>3. 240 <= l /\ l <= 244
  BY PlanesAre, SMT DEF MaxCodePoint
<1>4. l = 240 => x >= 144
  BY SMT
<1>5. l = 244 => x <= 143
  BY PlanesAre, SMT DEF MaxCodePoint
<1> HIDE DEF l, x, y, z
<1>6. l % 8 = l - 240 /\ x % 64 = x - 128 /\ y % 64 = y - 128 /\ z % 64 = z - 128
  BY <1>2, <1>3, SMT
<1>7. ((((((l % 8) * 64) + (x % 64)) * 64) + (y % 64)) * 64) + (z % 64) = cp
  BY <1>2, <1>6
<1>8. l \in 240..244 /\ x \in Continuations /\ y \in Continuations /\ z \in Continuations
  BY <1>2, <1>3, ContinuationIs
<1>9. Form4(l, x, y, z) /\ Four(l, x, y, z) = cp
  BY <1>4, <1>5, <1>7, <1>8 DEF Form4, Four
<1> QED
  BY <1>1, <1>9

\* The four ranges of code points, by the length of their encoding.
LEMMA ScalarLengths ==
    ASSUME NEW cp \in Scalars
    PROVE  /\ cp \in Nat /\ cp <= MaxCodePoint /\ cp \notin Surrogates
           /\ cp < 128 \/ (128 <= cp /\ cp < 2048) \/ (2048 <= cp /\ cp < 65536) \/ 65536 <= cp
<1>1. cp \in Nat /\ cp <= MaxCodePoint /\ cp \notin Surrogates
  BY ScalarIs
<1> QED
  BY <1>1, SMT

\* The bytes of a well-formed sequence, and what its lead announces.
LEMMA Form1Is == \A l : Form1(l) <=> l \in Nat /\ l < 128
  BY SMT DEF Form1

\* The numbers of the forms are bytes.
LEMMA FormBytes ==
    /\ \A l, x : Form2(l, x) => l \in Byte /\ x \in Byte
    /\ \A l, x, y : Form3(l, x, y) => l \in Byte /\ x \in Byte /\ y \in Byte
    /\ \A l, x, y, z : Form4(l, x, y, z) => l \in Byte /\ x \in Byte /\ y \in Byte /\ z \in Byte
  BY SMT DEF Form2, Form3, Form4, Byte, Continuations

\* A decoder reads the length and the own bits of a form off its lead byte.
LEMMA FormLeads ==
    /\ \A l, x : Form2(l, x) =>
            /\ Lead(l).extra = 1 /\ Lead(l).bits = l % 32 /\ l >= 128 /\ x \in Continuations
    /\ \A l, x, y : Form3(l, x, y) =>
            /\ Lead(l).extra = 2 /\ Lead(l).bits = l % 16 /\ l >= 128
            /\ x \in Continuations /\ y \in Continuations
    /\ \A l, x, y, z : Form4(l, x, y, z) =>
            /\ Lead(l).extra = 3 /\ Lead(l).bits = l % 8 /\ l >= 128
            /\ x \in Continuations /\ y \in Continuations /\ z \in Continuations
<1>1. (\A l \in 194..223 : l >= 128) /\ (\A l \in 224..239 : l >= 128) /\ (\A l \in 240..244 : l >= 128)
  BY SMT
<1>2. /\ \A l \in 194..223 : Lead(l).extra = 1 /\ Lead(l).bits = l % 32
      /\ \A l \in 224..239 : Lead(l).extra = 2 /\ Lead(l).bits = l % 16
      /\ \A l \in 240..244 : Lead(l).extra = 3 /\ Lead(l).bits = l % 8
  BY LeadIs
<1> QED
  BY <1>1, <1>2 DEF Form2, Form3, Form4

\* And the other way: what well-formed bytes spell is a code point, of which they
\* are the encoding.
LEMMA Spelling2 ==
    ASSUME NEW l, NEW x, Form2(l, x)
    PROVE  Two(l, x) \in Scalars /\ 128 <= Two(l, x) /\ AppendUtf8(Two(l, x)) = <<l, x>>
<1> DEFINE cp == Two(l, x)
<1>1. x \in Nat /\ 128 <= x /\ x <= 191
      /\ l \in Nat /\ 194 <= l /\ l <= 223
  BY ContinuationIs, SMT DEF Form2
<1>2. cp \in Nat /\ cp = ((l - 192) * 64) + (x - 128)
  BY <1>1, SMT DEF Two
<1> HIDE DEF cp
<1>3. 128 <= cp /\ cp < 2048 /\ cp \div 64 = l - 192 /\ (cp \div 1) % 64 = x - 128
  BY <1>1, <1>2, SMT
<1>4. AppendUtf8(cp) = <<192 + (cp \div 64), 128 + ((cp \div 1) % 64)>>
  BY <1>2, <1>3, SMT DEF AppendUtf8
<1>5. 192 + (cp \div 64) = l /\ 128 + ((cp \div 1) % 64) = x
  BY <1>1, <1>3, SMT
<1> QED
  <2>1. cp \in Scalars
    BY <1>2, <1>3, ScalarRanges, SMT
  <2> QED
    BY <1>3, <1>4, <1>5, <2>1 DEF cp

\* Three bytes of the form spell a code point that is written as those bytes.
LEMMA Spelling3 ==
    ASSUME NEW l, NEW x, NEW y, Form3(l, x, y)
    PROVE  Three(l, x, y) \in Scalars /\ 2048 <= Three(l, x, y) /\ AppendUtf8(Three(l, x, y)) = <<l, x, y>>
<1> DEFINE cp == Three(l, x, y)
<1>1. x \in Nat /\ 128 <= x /\ x <= 191 /\ y \in Nat /\ 128 <= y /\ y <= 191
      /\ l \in Nat /\ 224 <= l /\ l <= 239 /\ (l = 224 => x >= 160) /\ (l = 237 => x <= 159)
  BY ContinuationIs, SMT DEF Form3
<1>2. cp \in Nat /\ cp = ((((l - 224) * 64) + (x - 128)) * 64) + (y - 128)
  BY <1>1, SMT DEF Three
<1> HIDE DEF cp
<1>3. 2048 <= cp /\ cp < 65536
  BY <1>1, <1>2, SMT
<1>4. cp < 55296 \/ 57343 < cp
  BY <1>1, <1>2, SMT
<1>5. cp \div 4096 = l - 224 /\ (cp \div 64) % 64 = x - 128 /\ (cp \div 1) % 64 = y - 128
  BY <1>1, <1>2, SMT
<1>6. AppendUtf8(cp) = <<224 + (cp \div 4096), 128 + ((cp \div 64) % 64), 128 + ((cp \div 1) % 64)>>
  BY <1>2, <1>3, SMT DEF AppendUtf8
<1>7. 224 + (cp \div 4096) = l /\ 128 + ((cp \div 64) % 64) = x /\ 128 + ((cp \div 1) % 64) = y
  BY <1>1, <1>5, SMT
<1>8. cp \in Scalars
  BY <1>2, <1>3, <1>4, ScalarRanges, SMT
<1> QED
  BY <1>3, <1>6, <1>7, <1>8 DEF cp

\* So do four.
LEMMA Spelling4 ==
    ASSUME NEW l, NEW x, NEW y, NEW z, Form4(l, x, y, z)
    PROVE  /\ Four(l, x, y, z) \in Scalars /\ 65536 <= Four(l, x, y, z)
           /\ AppendUtf8(Four(l, x, y, z)) = <<l, x, y, z>>
<1> DEFINE cp == Four(l, x, y, z)
<1>1. x \in Nat /\ 128 <= x /\ x <= 191 /\ y \in Nat /\ 128 <= y /\ y <= 191
      /\ z \in Nat /\ 128 <= z /\ z <= 191
      /\ l \in Nat /\ 240 <= l /\ l <= 244 /\ (l = 240 => x >= 144) /\ (l = 244 => x <= 143)
  BY ContinuationIs, SMT DEF Form4
<1>2. l % 8 = l - 240 /\ x % 64 = x - 128 /\ y % 64 = y - 128 /\ z % 64 = z - 128
  BY <1>1, SMT
<1>3. cp \in Nat /\ cp = ((((((l - 240) * 64) + (x - 128)) * 64) + (y - 128)) * 64) + (z - 128)
  BY <1>1, <1>2, SMT DEF Four
<1> HIDE DEF cp
<1>4. 65536 <= cp
  BY <1>1, <1>3, SMT
<1>5. cp <= MaxCodePoint
  BY <1>1, <1>3, PlanesAre, SMT DEF MaxCodePoint
<1>6. /\ cp \div (64 * 4096) = l - 240 /\ (cp \div 4096) % 64 = x - 128
      /\ (cp \div 64) % 64 = y - 128 /\ (cp \div 1) % 64 = z - 128
  BY <1>1, <1>3, SMT
<1>7. AppendUtf8(cp) = <<240 + (cp \div (64 * 4096)), 128 + ((cp \div 4096) % 64),
                         128 + ((cp \div 64) % 64), 128 + ((cp \div 1) % 64)>>
  BY <1>3, <1>4, SMT DEF AppendUtf8
<1>8. /\ 240 + (cp \div (64 * 4096)) = l /\ 128 + ((cp \div 4096) % 64) = x
      /\ 128 + ((cp \div 64) % 64) = y /\ 128 + ((cp \div 1) % 64) = z
  BY <1>1, <1>6, SMT
<1>9. cp \in Scalars
  BY <1>3, <1>4, <1>5, ScalarRanges, SMT
<1> QED
  BY <1>4, <1>7, <1>8, <1>9 DEF cp

\* The bytes from i on, as many as n.
Piece(bytes, i, n) == [k \in 1..n |-> bytes[i + k - 1]]

(***************************************************************************)
(* A well-formed sequence, wherever it stands, is decoded to a code point  *)
(* whose encoding it is, and the decoder goes on right after it            *)
(* (Utf.cpp:25-141).                                                       *)
(***************************************************************************)
THEOREM Decoded ==
    ASSUME NEW bytes \in Seq(Byte), NEW i \in 1..Len(bytes), NEW n \in 1..4,
           WellFormedAt(bytes, i, n)
    PROVE  /\ CodePoint(bytes, i, n) \in Scalars
           /\ DecodeUtf8(bytes, i) = [next |-> i + n, cp |-> CodePoint(bytes, i, n)]
           /\ AppendUtf8(CodePoint(bytes, i, n)) = Piece(bytes, i, n)
<1> DEFINE l == bytes[i]
           x == bytes[i + 1]
           y == bytes[i + 2]
           z == bytes[i + 3]
           cp == CodePoint(bytes, i, n)
<1>1. Len(bytes) \in Nat /\ i \in Nat /\ i + n <= Len(bytes) + 1
  BY DEF WellFormedAt
<1>2. n = 1 \/ n = 2 \/ n = 3 \/ n = 4
  OBVIOUS
<1>3. CASE n = 1
  <2>1. Form1(l) /\ cp = l
    BY <1>3 DEF WellFormedAt, CodePoint
  <2>2. l \in Nat /\ l < 128
    BY <2>1, Form1Is
  <2>3. DecodeUtf8(bytes, i).cp = l /\ DecodeUtf8(bytes, i).next = i + 1
    BY <2>2, DecodeFacts
  <2>4. DecodeUtf8(bytes, i) = [next |-> DecodeUtf8(bytes, i).next, cp |-> DecodeUtf8(bytes, i).cp]
    BY DEF DecodeUtf8
  <2>5. AppendUtf8(l) = <<l>>
    BY <2>2, Encoding1
  <2>6. Piece(bytes, i, 1) = <<l>>
    BY <1>1 DEF Piece
  <2>7. l \in Scalars
    BY <2>3, DecodeFacts
  <2> HIDE DEF cp
  <2> QED
    BY <1>3, <2>1, <2>3, <2>4, <2>5, <2>6, <2>7 DEF cp
<1>4. ASSUME n # 1, Lead(l).extra = n - 1, l >= 128,
             \A k \in 1..n - 1 : bytes[i + k] \in Continuations,
             cp = Spelt(bytes, i, n - 1), cp \in Scalars, cp >= Shortest(n - 1)
      PROVE  DecodeUtf8(bytes, i) = [next |-> i + n, cp |-> cp]
  <2>1. n - 1 \in 1..3 /\ i + (n - 1) <= Len(bytes) /\ i + (n - 1) + 1 = i + n
    BY <1>1, <1>4
  <2> HIDE DEF cp
  <2>2. DecodeUtf8(bytes, i) = [next |-> i + (n - 1) + 1, cp |-> cp]
    BY <1>4, <2>1, DecodeWhole
  <2> QED
    BY <2>1, <2>2
<1>5. CASE n = 2
  <2>1. Form2(l, x) /\ cp = Two(l, x)
    BY <1>5 DEF WellFormedAt, CodePoint
  <2>2. Lead(l).extra = 1 /\ Lead(l).bits = l % 32 /\ l >= 128 /\ x \in Continuations
    BY <2>1, FormLeads
  <2>3. Spelt(bytes, i, 1) = cp
    BY <2>1, <2>2 DEF Spelt, Own, Two
  <2>4. cp \in Scalars /\ 128 <= cp /\ AppendUtf8(cp) = <<l, x>>
    BY <2>1, Spelling2
  <2>5. Piece(bytes, i, 2) = <<l, x>>
    BY <1>1 DEF Piece
  <2>6. Shortest(1) = 128
    BY SMT DEF Shortest
  <2>7. \A k \in 1..1 : bytes[i + k] \in Continuations
    BY <2>2
  <2> HIDE DEF cp
  <2> QED
    BY <1>4, <1>5, <2>2, <2>3, <2>4, <2>5, <2>6, <2>7 DEF cp
<1>6. CASE n = 3
  <2>1. Form3(l, x, y) /\ cp = Three(l, x, y)
    BY <1>6 DEF WellFormedAt, CodePoint
  <2>2. /\ Lead(l).extra = 2 /\ Lead(l).bits = l % 16 /\ l >= 128
        /\ x \in Continuations /\ y \in Continuations
    BY <2>1, FormLeads
  <2>3. Spelt(bytes, i, 2) = cp
    BY <2>1, <2>2 DEF Spelt, Own, Three
  <2>4. cp \in Scalars /\ 2048 <= cp /\ AppendUtf8(cp) = <<l, x, y>>
    BY <2>1, Spelling3
  <2>5. Piece(bytes, i, 3) = <<l, x, y>>
    BY <1>1 DEF Piece
  <2>6. Shortest(2) = 2048
    BY SMT DEF Shortest
  <2>7. \A k \in 1..2 : bytes[i + k] \in Continuations
    BY <2>2
  <2> HIDE DEF cp
  <2> QED
    BY <1>4, <1>6, <2>2, <2>3, <2>4, <2>5, <2>6, <2>7 DEF cp
<1>7. CASE n = 4
  <2>1. Form4(l, x, y, z) /\ cp = Four(l, x, y, z)
    BY <1>7 DEF WellFormedAt, CodePoint
  <2>2. /\ Lead(l).extra = 3 /\ Lead(l).bits = l % 8 /\ l >= 128
        /\ x \in Continuations /\ y \in Continuations /\ z \in Continuations
    BY <2>1, FormLeads
  <2>3. Spelt(bytes, i, 3) = cp
    BY <2>1, <2>2 DEF Spelt, Own, Four
  <2>4. cp \in Scalars /\ AppendUtf8(cp) = <<l, x, y, z>>
    BY <2>1, Spelling4
  <2>5. Piece(bytes, i, 4) = <<l, x, y, z>>
    BY <1>1 DEF Piece
  <2>6. cp >= Shortest(3)
    <3>1. cp \in Nat /\ 65536 <= cp
      BY <2>1, <2>4, Spelling4, ScalarIs
    <3> HIDE DEF cp
    <3> QED
      BY SMT, <3>1 DEF Shortest
  <2>7. \A k \in 1..3 : bytes[i + k] \in Continuations
    BY <2>2
  <2>8. n # 1 /\ n - 1 = 3
    BY <1>7
  <2> HIDE DEF cp
  <2>9. DecodeUtf8(bytes, i) = [next |-> i + n, cp |-> cp]
    BY Zenon, <1>4, <2>2, <2>3, <2>4, <2>6, <2>7, <2>8
  <2> QED
    BY Zenon, <1>7, <2>4, <2>5, <2>9 DEF cp
<1> QED
  BY <1>2, <1>3, <1>5, <1>6, <1>7

(***************************************************************************)
(* What a code point is encoded as is well-formed, and decodes to that     *)
(* code point, whatever comes after it (Utf.cpp:25-141).                   *)
(***************************************************************************)
THEOREM Encoded ==
    ASSUME NEW cp \in Scalars, NEW b \in Seq(Byte)
    PROVE  LET a == AppendUtf8(cp)
           IN  /\ a \in Seq(Byte) /\ Len(a) \in 1..4
               /\ WellFormedAt(a \o b, 1, Len(a))
               /\ DecodeUtf8(a \o b, 1) = [next |-> 1 + Len(a), cp |-> cp]
<1> DEFINE a == AppendUtf8(cp)
           t == a \o b
           Whole(n) == /\ a \in Seq(Byte) /\ Len(a) = n
                       /\ WellFormedAt(t, 1, n) /\ CodePoint(t, 1, n) = cp
<1>1. cp \in Nat /\ cp <= MaxCodePoint /\ cp \notin Surrogates
  BY ScalarLengths
<1>2. ASSUME cp < 128 PROVE Whole(1)
  <2>1. a = <<cp>>
    BY <1>1, <1>2, Encoding1
  <2>2. cp \in Byte /\ Form1(cp)
    BY <1>1, <1>2, ByteIs, Form1Is
  <2>3. t[1] = cp /\ Len(t) >= 1 /\ a \in Seq(Byte) /\ Len(a) = 1 /\ Len(t) \in Nat
    BY <2>1, <2>2
  <2> HIDE DEF a, t
  <2> QED
    BY <2>2, <2>3 DEF WellFormedAt, CodePoint
<1>3. ASSUME 128 <= cp, cp < 2048 PROVE Whole(2)
  <2>1. PICK l, x : Form2(l, x) /\ Two(l, x) = cp /\ a = <<l, x>>
    BY <1>1, <1>3, Encoding2
  <2>2. l \in Byte /\ x \in Byte
    BY <2>1, FormBytes
  <2>3. t[1] = l /\ t[2] = x /\ Len(t) >= 2 /\ a \in Seq(Byte) /\ Len(a) = 2 /\ Len(t) \in Nat
    BY <2>1, <2>2
  <2> HIDE DEF a, t
  <2> QED
    BY <2>1, <2>3 DEF WellFormedAt, CodePoint
<1>4. ASSUME 2048 <= cp, cp < 65536 PROVE Whole(3)
  <2>1. PICK l, x, y : Form3(l, x, y) /\ Three(l, x, y) = cp /\ a = <<l, x, y>>
    BY <1>1, <1>4, Encoding3
  <2>2. l \in Byte /\ x \in Byte /\ y \in Byte
    BY <2>1, FormBytes
  <2>3. /\ t[1] = l /\ t[2] = x /\ t[3] = y /\ Len(t) >= 3
        /\ a \in Seq(Byte) /\ Len(a) = 3 /\ Len(t) \in Nat
    BY <2>1, <2>2
  <2> HIDE DEF a, t
  <2> QED
    BY <2>1, <2>3 DEF WellFormedAt, CodePoint
<1>5. ASSUME 65536 <= cp PROVE Whole(4)
  <2>1. PICK l, x, y, z : Form4(l, x, y, z) /\ Four(l, x, y, z) = cp /\ a = <<l, x, y, z>>
    BY <1>1, <1>5, Encoding4
  <2>2. l \in Byte /\ x \in Byte /\ y \in Byte /\ z \in Byte
    BY <2>1, FormBytes
  <2>3. /\ t[1] = l /\ t[2] = x /\ t[3] = y /\ t[4] = z /\ Len(t) >= 4
        /\ a \in Seq(Byte) /\ Len(a) = 4 /\ Len(t) \in Nat
    BY <2>1, <2>2
  <2> HIDE DEF a, t
  <2> QED
    BY <2>1, <2>3 DEF WellFormedAt, CodePoint
<1> HIDE DEF a
<1>6. PICK n \in 1..4 : Whole(n)
  BY <1>2, <1>3, <1>4, <1>5, ScalarLengths
<1>7. t \in Seq(Byte) /\ 1 \in 1..Len(t)
  BY <1>6
<1> HIDE DEF t
<1>8. DecodeUtf8(t, 1) = [next |-> 1 + n, cp |-> cp]
  BY <1>6, <1>7, Decoded
<1> QED
  BY <1>6, <1>8 DEF a, t

-----------------------------------------------------------------------------
(* The recursive functions *)

\* A wide text from every position of the bytes.
IsToWide(f, bits, bytes) ==
    /\ f \in [Nat \ {0} -> Seq(Nat)]
    /\ \A i \in Nat \ {0} :
            f[i] = IF i > Len(bytes) THEN <<>>
                   ELSE AppendWide(bits, DecodeUtf8(bytes, i).cp) \o f[DecodeUtf8(bytes, i).next]

\* f joins the pieces of a sequence: from i on, the piece at i and what comes
\* from next[i] on.
IsJoin(f, L, piece, next) ==
    f = [i \in Nat \ {0} |-> IF i > L THEN <<>> ELSE piece[i] \o f[next[i]]]

\* The two parts of a text make a text.
LEMMA ConcatIn ==
    ASSUME NEW S, NEW s \in Seq(S), NEW t \in Seq(S)
    PROVE  s \o t \in Seq(S)
OBVIOUS

\* The pieces can be joined, and what joins them consists of sequences.
LEMMA JoinExists ==
    ASSUME NEW S, NEW L \in Nat, NEW piece \in [1..L -> Seq(S)],
           NEW next \in [1..L -> Nat \ {0}], \A i \in 1..L : next[i] > i
    PROVE  /\ \E f : IsJoin(f, L, piece, next)
           /\ \A f : IsJoin(f, L, piece, next) => f \in [Nat \ {0} -> Seq(S)]
<1> DEFINE P == Nat \ {0}
           V == Seq(S)
           base == <<>>
           step == [i \in 1..L |-> [f \in [P -> V] |-> piece[i] \o f[next[i]]]]
<1>1. base \in V
  OBVIOUS
<1>2. ASSUME NEW i \in 1..L, NEW x \in V PROVE piece[i] \o x \in V
  BY ConcatIn
<1> HIDE DEF V
<1>3. step \in [1..L -> [[P -> V] -> V]]
  <2>1. ASSUME NEW i \in 1..L, NEW f \in [P -> V] PROVE piece[i] \o f[next[i]] \in V
    BY <1>2
  <2> QED
    BY <2>1
<1>4. LooksAhead(V, L, step)
  BY DEF LooksAhead
<1>5. PICK f : IsBackward(f, V, L, base, step)
  <2> HIDE DEF step, base
  <2> QED
    BY <1>1, <1>3, <1>4, BackwardExists
<1>6. IsJoin(f, L, piece, next)
  <2>1. f \in [P -> V] /\ \A i \in P : f[i] = IF i > L THEN base ELSE step[i][f]
    BY <1>5 DEF IsBackward
  <2>2. ASSUME NEW i \in P PROVE f[i] = IF i > L THEN base ELSE piece[i] \o f[next[i]]
    <3>1. CASE i > L
      BY <2>1, <3>1
    <3>2. CASE ~(i > L)
      <4>1. i \in 1..L
        BY <3>2
      <4> QED
        BY <2>1, <3>2, <4>1
    <3> QED
      BY <3>1, <3>2
  <2> QED
    BY <2>1, <2>2 DEF IsJoin
<1>7. ASSUME NEW g, IsJoin(g, L, piece, next) PROVE g \in [P -> V]
  <2> DEFINE Typed == {i \in P : g[i] \in V}
  <2>1. \A i \in P : g[i] = IF i > L THEN base ELSE piece[i] \o g[next[i]]
    BY <1>7 DEF IsJoin
  <2>2. \A i \in P : i > L => i \in Typed
    BY <1>1, <2>1
  <2>3. ASSUME NEW i \in 1..L, \A j \in P : j > i => j \in Typed PROVE i \in Typed
    <3>1. piece[i] \o g[next[i]] \in V
      BY <1>2, <2>3
    <3>2. i \in P /\ ~(i > L)
      OBVIOUS
    <3> QED
      BY <2>1, <3>1, <3>2
  <2> HIDE DEF Typed
  <2>4. P \subseteq Typed
    BY <2>2, <2>3, DownwardInduction
  <2>5. \A i \in P : g[i] \in V
    BY <2>4 DEF Typed
  <2>6. g = [i \in P |-> g[i]]
    BY <1>7 DEF IsJoin
  <2> QED
    BY <2>5, <2>6
<1> QED
  BY <1>6, <1>7 DEF V

\* A code point is one wide unit or two.
LEMMA WideUnits ==
    ASSUME NEW bits \in {16, 32}, NEW cp \in Scalars
    PROVE  AppendWide(bits, cp) \in Seq(Nat) /\ Len(AppendWide(bits, cp)) \in 1..2
<1>1. cp \in Nat
  BY ScalarLengths
<1>2. CASE bits = 32 \/ cp < 65536
  <2>1. AppendWide(bits, cp) = <<cp>>
    BY <1>2 DEF AppendWide
  <2> QED
    BY <1>1, <2>1
<1>3. CASE ~(bits = 32 \/ cp < 65536)
  <2> DEFINE x == 55296 + ((cp - 65536) \div 1024)
             y == 56320 + ((cp - 65536) % 1024)
  <2>1. AppendWide(bits, cp) = <<x, y>>
    BY <1>3 DEF AppendWide
  <2>2. x \in Nat /\ y \in Nat
    BY <1>1, <1>3
  <2> HIDE DEF x, y
  <2> QED
    BY <2>1, <2>2
<1> QED
  BY <1>2, <1>3

\* Utf8ToWide joins the units of what it decodes.
LEMMA ToWideExists ==
    ASSUME NEW bits \in {16, 32}, NEW bytes \in Seq(Byte)
    PROVE  \E f : IsToWide(f, bits, bytes) /\ Utf8ToWide(bits, bytes) = f[1]
<1> DEFINE P == Nat \ {0}
           L == Len(bytes)
           Units(i) == AppendWide(bits, DecodeUtf8(bytes, i).cp)
           Next(i) == DecodeUtf8(bytes, i).next
           units == [i \in 1..L |-> Units(i)]
           next == [i \in 1..L |-> Next(i)]
           Is(f) == f = [i \in P |-> IF i > L THEN <<>> ELSE Units(i) \o f[Next(i)]]
           from == CHOOSE f : Is(f)
<1>1. Utf8ToWide(bits, bytes) = from[1]
  BY DEF Utf8ToWide
<1>2. L \in Nat
  OBVIOUS
<1>3. ASSUME NEW i \in 1..L PROVE Units(i) \in Seq(Nat) /\ Next(i) \in P /\ Next(i) > i
  <2>1. DecodeUtf8(bytes, i).cp \in Scalars /\ Next(i) \in i + 1..L + 1
    BY DecodeFacts
  <2> QED
    BY <2>1, WideUnits
<1> HIDE DEF L, Units, Next, from
<1>4. ASSUME NEW f PROVE Is(f) <=> IsJoin(f, L, units, next)
  <2>1. ASSUME NEW i \in P
        PROVE  (IF i > L THEN <<>> ELSE Units(i) \o f[Next(i)])
               = (IF i > L THEN <<>> ELSE units[i] \o f[next[i]])
    <3>1. CASE i > L
      BY <3>1
    <3>2. CASE ~(i > L)
      <4>1. i \in 1..L
        BY <1>2, <3>2
      <4> QED
        BY <4>1
    <3> QED
      BY <3>1, <3>2
  <2> QED
    BY <2>1 DEF IsJoin
<1> HIDE DEF Is
<1>5. units \in [1..L -> Seq(Nat)] /\ next \in [1..L -> P] /\ \A i \in 1..L : next[i] > i
  BY <1>3
<1>6. /\ \E f : IsJoin(f, L, units, next)
      /\ \A f : IsJoin(f, L, units, next) => f \in [P -> Seq(Nat)]
  <2> HIDE DEF units, next
  <2> QED
    BY <1>2, <1>5, JoinExists
<1>7. Is(from) /\ from \in [P -> Seq(Nat)]
  <2> HIDE DEF units, next
  <2>1. \E f : Is(f)
    BY <1>4, <1>6
  <2>2. Is(from)
    BY <2>1 DEF from
  <2> QED
    BY <1>4, <1>6, <2>2
<1>8. \A i \in P : from[i] = IF i > L THEN <<>> ELSE Units(i) \o from[Next(i)]
  BY <1>7 DEF Is
<1> QED
  BY <1>1, <1>7, <1>8 DEF IsToWide, L, Units, Next

\* The code point at i of a wide text and where the next one starts.
Char(bits, wide, i) ==
    IF IsPair(bits, wide, i) THEN FromPair(wide[i], wide[i + 1])
    ELSE IF wide[i] \in Surrogates \/ wide[i] > MaxCodePoint THEN Replacement ELSE wide[i]
After(bits, wide, i) == IF IsPair(bits, wide, i) THEN i + 2 ELSE i + 1

\* The bytes from every position of a wide text.
IsToUtf8(f, bits, wide) ==
    /\ f \in [Nat \ {0} -> Seq(Byte)]
    /\ \A i \in Nat \ {0} :
            f[i] = IF i > Len(wide) THEN <<>>
                   ELSE AppendUtf8(Char(bits, wide, i)) \o f[After(bits, wide, i)]

\* An element of a sequence over a set is in the set.
LEMMA ElementIn ==
    ASSUME NEW S, NEW s \in Seq(S), NEW i \in 1..Len(s)
    PROVE  s[i] \in S
OBVIOUS

\* An encoding is bytes, one to four of them.
LEMMA EncodedBytes ==
    ASSUME NEW cp \in Scalars
    PROVE  AppendUtf8(cp) \in Seq(Byte) /\ Len(AppendUtf8(cp)) \in 1..4
<1>1. <<>> \in Seq(Byte)
  OBVIOUS
<1> QED
  BY <1>1, Encoded

\* A surrogate pair spells a code point beyond the sixteen-bit ones.
LEMMA PairSpells ==
    ASSUME NEW high \in Nat, 55296 <= high, high <= 56319,
           NEW low \in Nat, 56320 <= low, low <= 57343
    PROVE  /\ FromPair(high, low) \in Nat /\ 65536 <= FromPair(high, low)
           /\ FromPair(high, low) <= (17 * 65536) - 1
BY SMT DEF FromPair

\* Every place of a wide text has a code point, and takes one unit or two.
LEMMA CharIsScalar ==
    ASSUME NEW bits, NEW wide \in Seq(Nat), NEW i \in 1..Len(wide)
    PROVE  /\ Char(bits, wide, i) \in Scalars
           /\ After(bits, wide, i) \in i + 1..Len(wide) + 1
           /\ AppendUtf8(Char(bits, wide, i)) \in Seq(Byte)
<1>1. wide[i] \in Nat /\ i \in Nat /\ Len(wide) \in Nat
  OBVIOUS
<1>2. CASE IsPair(bits, wide, i)
  <2> DEFINE high == wide[i]
             low == wide[i + 1]
             cp == FromPair(high, low)
  <2>1. i < Len(wide) /\ high \in HighSurrogates /\ low \in LowSurrogates
    BY <1>2 DEF IsPair
  <2>2. high \in Nat /\ low \in Nat
    <3>1. i + 1 \in 1..Len(wide)
      BY <1>1, <2>1
    <3> QED
      BY <1>1, <3>1, ElementIn
  <2>3. Char(bits, wide, i) = cp
    BY Zenon, <1>2 DEF Char
  <2> HIDE DEF high, low
  <2>4. 55296 <= high /\ high <= 56319 /\ 56320 <= low /\ low <= 57343
    BY <2>1, <2>2, SurrogateRanges
  <2>5. cp \in Nat /\ 65536 <= cp /\ cp <= (17 * 65536) - 1
    BY <2>2, <2>4, PairSpells
  <2> HIDE DEF cp
  <2>6. cp \in Scalars
    BY <2>5, ScalarRanges, PlanesAre DEF MaxCodePoint
  <2>7. After(bits, wide, i) \in i + 1..Len(wide) + 1
    BY <1>1, <1>2, <2>1 DEF After
  <2> QED
    BY Zenon, <2>3, <2>6, <2>7, EncodedBytes
<1>3. CASE ~IsPair(bits, wide, i)
  <2>1. Char(bits, wide, i) = IF wide[i] \in Surrogates \/ wide[i] > MaxCodePoint
                              THEN Replacement ELSE wide[i]
    BY Zenon, <1>3 DEF Char
  <2>2. After(bits, wide, i) \in i + 1..Len(wide) + 1
    BY <1>1, <1>3 DEF After
  <2> DEFINE u == wide[i]
  <2>3. u \in Nat
    BY <1>1
  <2> HIDE DEF u
  <2>4. (IF u \in Surrogates \/ u > MaxCodePoint THEN Replacement ELSE u) \in Scalars
    BY <2>3, ScalarIs, ReplacementIs, LastIs
  <2>5. Char(bits, wide, i) \in Scalars
    BY <2>1, <2>4 DEF u
  <2> QED
    BY Zenon, <2>2, <2>5, EncodedBytes
<1> QED
  BY <1>2, <1>3

\* WideToUtf8 joins the bytes of its code points.
LEMMA ToUtf8Exists ==
    ASSUME NEW bits, NEW wide \in Seq(Nat)
    PROVE  \E f : IsToUtf8(f, bits, wide) /\ WideToUtf8(bits, wide) = f[1]
<1> DEFINE P == Nat \ {0}
           L == Len(wide)
           Bytes(i) == AppendUtf8(Char(bits, wide, i))
           Next(i) == After(bits, wide, i)
           pieces == [i \in 1..L |-> Bytes(i)]
           next == [i \in 1..L |-> Next(i)]
           Pair(i) == AppendUtf8(FromPair(wide[i], wide[i + 1]))
           Unit(i) == AppendUtf8(IF wide[i] \in Surrogates \/ wide[i] > MaxCodePoint
                                 THEN Replacement ELSE wide[i])
           Is(f) == f = [i \in P |-> IF i > L THEN <<>>
                                     ELSE IF IsPair(bits, wide, i) THEN Pair(i) \o f[i + 2]
                                     ELSE Unit(i) \o f[i + 1]]
           from == CHOOSE f : Is(f)
<1>1. WideToUtf8(bits, wide) = from[1]
  BY DEF WideToUtf8
<1>2. L \in Nat
  OBVIOUS
<1>3. ASSUME NEW i \in 1..L PROVE Bytes(i) \in Seq(Byte) /\ Next(i) \in P /\ Next(i) > i
  BY CharIsScalar
<1>4. ASSUME NEW i
      PROVE  /\ IsPair(bits, wide, i) => Bytes(i) = Pair(i) /\ Next(i) = i + 2
             /\ ~IsPair(bits, wide, i) => Bytes(i) = Unit(i) /\ Next(i) = i + 1
  BY Zenon DEF Char, After
<1> HIDE DEF L, Bytes, Next, Pair, Unit, from
<1>5. ASSUME NEW f PROVE Is(f) <=> IsJoin(f, L, pieces, next)
  <2>1. ASSUME NEW i \in P
        PROVE  (IF i > L THEN <<>>
                ELSE IF IsPair(bits, wide, i) THEN Pair(i) \o f[i + 2] ELSE Unit(i) \o f[i + 1])
               = (IF i > L THEN <<>> ELSE pieces[i] \o f[next[i]])
    <3>1. CASE i > L
      BY <3>1
    <3>2. CASE ~(i > L)
      <4>1. i \in 1..L
        BY <1>2, <3>2
      <4>2. pieces[i] = Bytes(i) /\ next[i] = Next(i)
        BY <4>1
      <4> QED
        BY <1>4, <3>2, <4>2
    <3> QED
      BY <3>1, <3>2
  <2> QED
    BY <2>1 DEF IsJoin
<1> HIDE DEF Is
<1>6. pieces \in [1..L -> Seq(Byte)] /\ next \in [1..L -> P] /\ \A i \in 1..L : next[i] > i
  BY <1>3
<1>7. /\ \E f : IsJoin(f, L, pieces, next)
      /\ \A f : IsJoin(f, L, pieces, next) => f \in [P -> Seq(Byte)]
  <2> HIDE DEF pieces, next
  <2> QED
    BY <1>2, <1>6, JoinExists
<1>8. Is(from) /\ from \in [P -> Seq(Byte)]
  <2> HIDE DEF pieces, next
  <2>1. \E f : Is(f)
    BY <1>5, <1>7
  <2>2. Is(from)
    BY <2>1 DEF from
  <2> QED
    BY <1>5, <1>7, <2>2
<1>9. \A i \in P : from[i] = IF i > L THEN <<>> ELSE Bytes(i) \o from[Next(i)]
  <2>1. IsJoin(from, L, pieces, next)
    BY <1>5, <1>8
  <2>2. ASSUME NEW i \in P PROVE from[i] = IF i > L THEN <<>> ELSE Bytes(i) \o from[Next(i)]
    <3>1. from[i] = IF i > L THEN <<>> ELSE pieces[i] \o from[next[i]]
      BY <2>1 DEF IsJoin
    <3>2. i > L \/ i \in 1..L
      BY <1>2
    <3> QED
      BY <3>1, <3>2
  <2> QED
    BY <2>2
<1> QED
  BY <1>1, <1>8, <1>9 DEF IsToUtf8, L, Bytes, Next

\* Where the parts of a joined sequence are.
LEMMA Parts ==
    ASSUME NEW S, NEW a \in Seq(S), NEW b \in Seq(S)
    PROVE  /\ a \o b \in Seq(S) /\ Len(a \o b) = Len(a) + Len(b) /\ Len(a) \in Nat /\ Len(b) \in Nat
           /\ \A i \in 1..Len(a) : (a \o b)[i] = a[i]
           /\ \A i \in 1..Len(b) : (a \o b)[Len(a) + i] = b[i]
OBVIOUS

\* What is decoded at a place depends on the bytes from there only: its wide
\* text is the wide text of those bytes.
LEMMA ToWideSplit ==
    ASSUME NEW bits \in {16, 32}, NEW a \in Seq(Byte), NEW b \in Seq(Byte),
           NEW f, IsToWide(f, bits, a \o b), NEW g, IsToWide(g, bits, b)
    PROVE  f[Len(a) + 1] = g[1]
<1> DEFINE P == Nat \ {0}
           A == Len(a)
           B == Len(b)
           Same == {i \in P : f[A + i] = g[i]}
<1>1. A \in Nat /\ B \in Nat /\ Len(a \o b) = A + B
  BY Parts
<1>2. ASSUME NEW i \in P, i > B PROVE i \in Same
  <2>1. A + i \in P /\ A + i > A + B
    BY <1>1, <1>2
  <2> HIDE DEF A, B
  <2> QED
    BY <1>1, <1>2, <2>1 DEF IsToWide, B
<1>3. ASSUME NEW i \in 1..B, \A j \in P : j > i => j \in Same PROVE i \in Same
  <2>1. /\ DecodeUtf8(a \o b, A + i).cp = DecodeUtf8(b, i).cp
        /\ DecodeUtf8(a \o b, A + i).next = A + DecodeUtf8(b, i).next
    BY DecodeShifts
  <2>2. DecodeUtf8(b, i).next \in i + 1..B + 1
    BY DecodeFacts
  <2> DEFINE n == DecodeUtf8(b, i).next
             u == AppendWide(bits, DecodeUtf8(b, i).cp)
  <2>3. n \in P /\ n > i
    BY <1>1, <2>2
  <2>4. A + i \in P /\ ~(A + i > A + B) /\ i \in P /\ ~(i > B)
    BY <1>1
  <2>5. f[A + i] = u \o f[A + n]
    BY <1>1, <2>1, <2>4 DEF IsToWide
  <2>6. g[i] = u \o g[n]
    BY <2>4 DEF IsToWide
  <2>7. f[A + n] = g[n]
    BY <1>3, <2>3
  <2> QED
    BY <2>4, <2>5, <2>6, <2>7
<1> HIDE DEF Same
<1>4. P \subseteq Same
  BY <1>1, <1>2, <1>3, DownwardInduction
<1> QED
  BY <1>4 DEF Same

\* The wide text of bytes is that of their first code point and that of the rest.
LEMMA ToWideHead ==
    ASSUME NEW bits \in {16, 32}, NEW a \in Seq(Byte), NEW b \in Seq(Byte), Len(a) >= 1,
           DecodeUtf8(a \o b, 1).next = 1 + Len(a)
    PROVE  Utf8ToWide(bits, a \o b) =
                AppendWide(bits, DecodeUtf8(a \o b, 1).cp) \o Utf8ToWide(bits, b)
<1>1. a \o b \in Seq(Byte) /\ Len(a \o b) = Len(a) + Len(b) /\ Len(a) \in Nat /\ Len(b) \in Nat
  BY Parts
<1>2. PICK f : IsToWide(f, bits, a \o b) /\ Utf8ToWide(bits, a \o b) = f[1]
  BY <1>1, ToWideExists
<1>3. PICK g : IsToWide(g, bits, b) /\ Utf8ToWide(bits, b) = g[1]
  BY ToWideExists
<1>4. f[Len(a) + 1] = g[1]
  BY <1>2, <1>3, ToWideSplit
<1>5. 1 \in Nat \ {0} /\ ~(1 > Len(a \o b)) /\ 1 + Len(a) = Len(a) + 1
  BY <1>1
<1>6. f[1] = AppendWide(bits, DecodeUtf8(a \o b, 1).cp) \o f[DecodeUtf8(a \o b, 1).next]
  BY <1>2, <1>5 DEF IsToWide
<1> QED
  BY <1>2, <1>3, <1>4, <1>5, <1>6

\* No bytes are no units.
LEMMA ToWideEmpty ==
    ASSUME NEW bits \in {16, 32}
    PROVE  Utf8ToWide(bits, <<>>) = <<>>
<1> DEFINE none == <<>>
<1>1. none \in Seq(Byte) /\ Len(none) = 0
  OBVIOUS
<1> HIDE DEF none
<1>2. PICK f : IsToWide(f, bits, none) /\ Utf8ToWide(bits, none) = f[1]
  BY <1>1, ToWideExists
<1>3. 1 \in Nat \ {0} /\ 1 > Len(none)
  BY <1>1
<1>4. f[1] = <<>>
  BY <1>2, <1>3 DEF IsToWide
<1> QED
  BY <1>2, <1>4 DEF none

\* What the unit at a place stands for depends on the units from there only.
LEMMA CharShifts ==
    ASSUME NEW bits, NEW a \in Seq(Nat), NEW b \in Seq(Nat), NEW i \in 1..Len(b)
    PROVE  /\ IsPair(bits, a \o b, Len(a) + i) <=> IsPair(bits, b, i)
           /\ Char(bits, a \o b, Len(a) + i) = Char(bits, b, i)
           /\ After(bits, a \o b, Len(a) + i) = Len(a) + After(bits, b, i)
<1>1. /\ a \o b \in Seq(Nat) /\ Len(a \o b) = Len(a) + Len(b) /\ Len(a) \in Nat /\ Len(b) \in Nat
      /\ \A j \in 1..Len(b) : (a \o b)[Len(a) + j] = b[j]
  BY Parts
<1> DEFINE t == a \o b
           A == Len(a)
           B == Len(b)
<1>2. t[A + i] = b[i] /\ (i < B => t[A + i + 1] = b[i + 1]) /\ (A + i < Len(t) <=> i < B)
  <2>1. i < B => i + 1 \in 1..B /\ A + (i + 1) = A + i + 1
    BY <1>1
  <2>2. Len(t) = A + B /\ A \in Nat /\ B \in Nat /\ \A j \in 1..B : t[A + j] = b[j]
    BY <1>1
  <2> HIDE DEF t, A, B
  <2>3. A + i < A + B <=> i < B
    BY <2>2
  <2>4. t[A + i] = b[i] /\ (i < B => t[A + (i + 1)] = b[i + 1])
    BY <2>1, <2>2 DEF B
  <2> QED
    BY <2>1, <2>2, <2>3, <2>4
<1> HIDE DEF t
<1>3. IsPair(bits, t, A + i) <=> IsPair(bits, b, i)
  BY <1>2 DEF IsPair
<1>4. Char(bits, t, A + i) = Char(bits, b, i)
  <2>1. CASE IsPair(bits, b, i)
    <3>1. i < B
      BY <2>1 DEF IsPair
    <3> HIDE DEF A
    <3> QED
      BY Zenon, <1>2, <1>3, <2>1, <3>1 DEF Char
  <2>2. CASE ~IsPair(bits, b, i)
    <3> HIDE DEF A
    <3> QED
      BY Zenon, <1>2, <1>3, <2>2 DEF Char
  <2> QED
    BY <2>1, <2>2
<1>5. After(bits, t, A + i) = A + After(bits, b, i)
  BY <1>1, <1>3 DEF After
<1> QED
  BY <1>3, <1>4, <1>5 DEF t

\* What is written from a place on is what is written of the units from there.
LEMMA ToUtf8Split ==
    ASSUME NEW bits, NEW a \in Seq(Nat), NEW b \in Seq(Nat),
           NEW f, IsToUtf8(f, bits, a \o b), NEW g, IsToUtf8(g, bits, b)
    PROVE  f[Len(a) + 1] = g[1]
<1> DEFINE P == Nat \ {0}
           A == Len(a)
           B == Len(b)
           Same == {i \in P : f[A + i] = g[i]}
<1>1. A \in Nat /\ B \in Nat /\ Len(a \o b) = A + B
  BY Parts
<1>2. ASSUME NEW i \in P, i > B PROVE i \in Same
  <2>1. A + i \in P /\ A + i > A + B
    BY <1>1, <1>2
  <2> HIDE DEF A, B
  <2> QED
    BY <1>1, <1>2, <2>1 DEF IsToUtf8, B
<1>3. ASSUME NEW i \in 1..B, \A j \in P : j > i => j \in Same PROVE i \in Same
  <2>1. /\ Char(bits, a \o b, A + i) = Char(bits, b, i)
        /\ After(bits, a \o b, A + i) = A + After(bits, b, i)
    BY CharShifts
  <2>2. After(bits, b, i) \in i + 1..B + 1
    BY CharIsScalar
  <2> DEFINE n == After(bits, b, i)
             u == AppendUtf8(Char(bits, b, i))
  <2>3. n \in P /\ n > i
    BY <1>1, <2>2
  <2>4. A + i \in P /\ ~(A + i > A + B) /\ i \in P /\ ~(i > B)
    BY <1>1
  <2>5. f[A + i] = u \o f[A + n]
    BY <1>1, <2>1, <2>4 DEF IsToUtf8
  <2>6. g[i] = u \o g[n]
    BY <2>4 DEF IsToUtf8
  <2>7. f[A + n] = g[n]
    BY <1>3, <2>3
  <2> QED
    BY <2>4, <2>5, <2>6, <2>7
<1> HIDE DEF Same
<1>4. P \subseteq Same
  BY <1>1, <1>2, <1>3, DownwardInduction
<1> QED
  BY <1>4 DEF Same

\* The bytes of a wide text are those of its first code point and of the rest.
LEMMA ToUtf8Head ==
    ASSUME NEW bits, NEW a \in Seq(Nat), NEW b \in Seq(Nat), Len(a) >= 1,
           After(bits, a \o b, 1) = 1 + Len(a)
    PROVE  WideToUtf8(bits, a \o b) = AppendUtf8(Char(bits, a \o b, 1)) \o WideToUtf8(bits, b)
<1>1. a \o b \in Seq(Nat) /\ Len(a \o b) = Len(a) + Len(b) /\ Len(a) \in Nat /\ Len(b) \in Nat
  BY Parts
<1>2. PICK f : IsToUtf8(f, bits, a \o b) /\ WideToUtf8(bits, a \o b) = f[1]
  BY <1>1, ToUtf8Exists
<1>3. PICK g : IsToUtf8(g, bits, b) /\ WideToUtf8(bits, b) = g[1]
  BY ToUtf8Exists
<1>4. f[Len(a) + 1] = g[1]
  BY <1>2, <1>3, ToUtf8Split
<1>5. 1 \in Nat \ {0} /\ ~(1 > Len(a \o b)) /\ 1 + Len(a) = Len(a) + 1
  BY <1>1
<1>6. f[1] = AppendUtf8(Char(bits, a \o b, 1)) \o f[After(bits, a \o b, 1)]
  BY <1>2, <1>5 DEF IsToUtf8
<1> QED
  BY <1>2, <1>3, <1>4, <1>5, <1>6

\* No units are no bytes.
LEMMA ToUtf8Empty ==
    ASSUME NEW bits
    PROVE  WideToUtf8(bits, <<>>) = <<>>
<1> DEFINE none == <<>>
<1>1. none \in Seq(Nat) /\ Len(none) = 0
  OBVIOUS
<1> HIDE DEF none
<1>2. PICK f : IsToUtf8(f, bits, none) /\ WideToUtf8(bits, none) = f[1]
  BY <1>1, ToUtf8Exists
<1>3. 1 \in Nat \ {0} /\ 1 > Len(none)
  BY <1>1
<1>4. f[1] = <<>>
  BY <1>2, <1>3 DEF IsToUtf8
<1> QED
  BY <1>2, <1>4 DEF none

\* A sequence can be cut anywhere.
LEMMA Cut ==
    ASSUME NEW S, NEW s \in Seq(S), NEW n \in 0..Len(s)
    PROVE  \E a \in Seq(S), b \in Seq(S) : s = a \o b /\ Len(a) = n
<1> DEFINE L == Len(s)
           a == [k \in 1..n |-> s[k]]
           b == [k \in 1..L - n |-> s[n + k]]
<1>1. L \in Nat /\ n \in Nat /\ L - n \in Nat
  OBVIOUS
<1>2. ASSUME NEW k \in 1..L PROVE s[k] \in S
  BY ElementIn
<1>3. \A k \in 1..L - n : n + k \in 1..L
  BY <1>1
<1>4. a \in [1..n -> S] /\ b \in [1..L - n -> S]
  BY <1>1, <1>2, <1>3
<1>5. a \in Seq(S) /\ Len(a) = n /\ b \in Seq(S) /\ Len(b) = L - n
  BY <1>1, <1>4
<1>6. s = a \o b
  <2> HIDE DEF L
  <2>1. a \o b \in Seq(S) /\ Len(a \o b) = L
    BY <1>1, <1>5, Parts
  <2>2. ASSUME NEW k \in 1..L PROVE s[k] = (a \o b)[k]
    <3>1. CASE k \in 1..n
      <4> HIDE DEF b
      <4> QED
        BY <1>5, <3>1, Parts
    <3>2. CASE k \notin 1..n
      <4>1. k - n \in 1..L - n /\ n + (k - n) = k
        BY <1>1, <3>2
      <4>2. b[k - n] = s[n + (k - n)]
        BY <4>1
      <4> HIDE DEF a, b
      <4>3. (a \o b)[n + (k - n)] = b[k - n]
        BY <1>5, <4>1, Parts
      <4> QED
        BY <4>1, <4>2, <4>3
    <3> QED
      BY <3>1, <3>2
  <2> HIDE DEF a, b
  <2> QED
    BY Zenon, <2>1, <2>2, SeqEqual DEF L
<1> QED
  BY Zenon, <1>5, <1>6

-----------------------------------------------------------------------------
(* Well-formed texts *)

\* The bytes from i on are those of the form.
Fits(form, bytes, i) == \A k \in DOMAIN form : bytes[i + k - 1] \in form[k]

\* What fitting a form of one to four bytes says of them.
LEMMA Fits1 ==
    ASSUME NEW A, NEW bytes, NEW i \in Nat
    PROVE  Fits(<<A>>, bytes, i) <=>
                bytes[i] \in A
<1> DEFINE form == <<A>>
<1>1. DOMAIN form = {1} /\ form[1] = A
  OBVIOUS
<1>2. i + 1 - 1 = i
  OBVIOUS
<1> HIDE DEF form
<1>3. Fits(form, bytes, i) <=>
        bytes[i] \in A
  BY <1>1, <1>2 DEF Fits
<1> QED
  BY <1>3 DEF form

\* A form of two bytes.
LEMMA Fits2 ==
    ASSUME NEW A, NEW B, NEW bytes, NEW i \in Nat
    PROVE  Fits(<<A, B>>, bytes, i) <=>
                bytes[i] \in A /\ bytes[i + 1] \in B
<1> DEFINE form == <<A, B>>
<1>1. DOMAIN form = {1, 2} /\ form[1] = A /\ form[2] = B
  OBVIOUS
<1>2. i + 1 - 1 = i /\ i + 2 - 1 = i + 1
  OBVIOUS
<1> HIDE DEF form
<1>3. Fits(form, bytes, i) <=>
        bytes[i] \in A /\ bytes[i + 1] \in B
  BY <1>1, <1>2 DEF Fits
<1> QED
  BY <1>3 DEF form

\* A form of three bytes.
LEMMA Fits3 ==
    ASSUME NEW A, NEW B, NEW C, NEW bytes, NEW i \in Nat
    PROVE  Fits(<<A, B, C>>, bytes, i) <=>
                bytes[i] \in A /\ bytes[i + 1] \in B /\ bytes[i + 2] \in C
<1> DEFINE form == <<A, B, C>>
<1>1. DOMAIN form = {1, 2, 3} /\ form[1] = A /\ form[2] = B /\ form[3] = C
  OBVIOUS
<1>2. i + 1 - 1 = i /\ i + 2 - 1 = i + 1 /\ i + 3 - 1 = i + 2
  OBVIOUS
<1> HIDE DEF form
<1>3. Fits(form, bytes, i) <=>
        bytes[i] \in A /\ bytes[i + 1] \in B /\ bytes[i + 2] \in C
  BY <1>1, <1>2 DEF Fits
<1> QED
  BY <1>3 DEF form

\* A form of four bytes.
LEMMA Fits4 ==
    ASSUME NEW A, NEW B, NEW C, NEW D, NEW bytes, NEW i \in Nat
    PROVE  Fits(<<A, B, C, D>>, bytes, i) <=>
                bytes[i] \in A /\ bytes[i + 1] \in B /\ bytes[i + 2] \in C /\ bytes[i + 3] \in D
<1> DEFINE form == <<A, B, C, D>>
<1>1. DOMAIN form = {1, 2, 3, 4} /\ form[1] = A /\ form[2] = B /\ form[3] = C /\ form[4] = D
  OBVIOUS
<1>2. i + 1 - 1 = i /\ i + 2 - 1 = i + 1 /\ i + 3 - 1 = i + 2 /\ i + 4 - 1 = i + 3
  OBVIOUS
<1> HIDE DEF form
<1>3. Fits(form, bytes, i) <=>
        bytes[i] \in A /\ bytes[i + 1] \in B /\ bytes[i + 2] \in C /\ bytes[i + 3] \in D
  BY <1>1, <1>2 DEF Fits
<1> QED
  BY <1>3 DEF form

\* The rows of the table of well-formed sequences, by their length.
LEMMA Rows1 ==
    ASSUME NEW l
    PROVE  Form1(l) <=>
                l \in 0..127
BY DEF Form1

\* The rows of the table of two bytes.
LEMMA Rows2 ==
    ASSUME NEW l, NEW x
    PROVE  Form2(l, x) <=>
                l \in 194..223 /\ x \in Continuations
BY DEF Form2

\* The rows of the table of three bytes.
LEMMA Rows3 ==
    ASSUME NEW l, NEW x, NEW y
    PROVE  Form3(l, x, y) <=>
                \/ l \in {224} /\ x \in 160..191 /\ y \in Continuations
                \/ l \in 225..236 /\ x \in Continuations /\ y \in Continuations
                \/ l \in {237} /\ x \in 128..159 /\ y \in Continuations
                \/ l \in 238..239 /\ x \in Continuations /\ y \in Continuations
BY SMT, ContinuationIs DEF Form3

\* The rows of the table of four bytes.
LEMMA Rows4 ==
    ASSUME NEW l, NEW x, NEW y, NEW z
    PROVE  Form4(l, x, y, z) <=>
                \/ l \in {240} /\ x \in 144..191 /\ y \in Continuations /\ z \in Continuations
                \/ l \in 241..243 /\ x \in Continuations /\ y \in Continuations /\ z \in Continuations
                \/ l \in {244} /\ x \in 128..143 /\ y \in Continuations /\ z \in Continuations
BY SMT, ContinuationIs DEF Form4

\* The text from i on begins with a form, and goes on where f holds, if it is
\* well-formed there for one to four bytes, and goes on after them.
LEMMA FormsAre ==
    ASSUME NEW bytes \in Seq(Byte), NEW i \in Nat \ {0}, NEW f
    PROVE  (\E form \in WellFormedSequences :
                /\ i + Len(form) <= Len(bytes) + 1
                /\ \A k \in DOMAIN form : bytes[i + k - 1] \in form[k]
                /\ f[i + Len(form)])
           <=> (\E n \in 1..4 : WellFormedAt(bytes, i, n) /\ f[i + n])
<1> DEFINE any == Continuations
           a1 == <<0..127>>
           a2 == <<194..223, any>>
           la3 == {224}
           xa3 == 160..191
           a3 == <<la3, xa3, any>>
           lb3 == 225..236
           b3 == <<lb3, any, any>>
           lc3 == {237}
           xc3 == 128..159
           c3 == <<lc3, xc3, any>>
           ld3 == 238..239
           d3 == <<ld3, any, any>>
           la4 == {240}
           xa4 == 144..191
           a4 == <<la4, xa4, any, any>>
           lb4 == 241..243
           b4 == <<lb4, any, any, any>>
           lc4 == {244}
           xc4 == 128..143
           c4 == <<lc4, xc4, any, any>>
           Next(form) == /\ i + Len(form) <= Len(bytes) + 1
                         /\ Fits(form, bytes, i)
                         /\ f[i + Len(form)]
           Room(n) == i + n <= Len(bytes) + 1 /\ f[i + n]
           l == bytes[i]
           x == bytes[i + 1]
           y == bytes[i + 2]
           z == bytes[i + 3]
<1>1. WellFormedSequences = {a1, a2, a3, b3, c3, d3, a4, b4, c4}
  BY DEF WellFormedSequences
<1>2. /\ Len(a1) = 1 /\ Len(a2) = 2 /\ Len(a3) = 3 /\ Len(b3) = 3 /\ Len(c3) = 3 /\ Len(d3) = 3
      /\ Len(a4) = 4 /\ Len(b4) = 4 /\ Len(c4) = 4
  OBVIOUS
<1> i \in Nat
  OBVIOUS
<1>3. Fits(a1, bytes, i) <=> Form1(l)
  BY Zenon, Fits1, Rows1
<1>4. Fits(a2, bytes, i) <=> Form2(l, x)
  BY ZenonT(40), Fits2, Rows2
<1>5. Fits(a3, bytes, i) \/ Fits(b3, bytes, i) \/ Fits(c3, bytes, i) \/ Fits(d3, bytes, i) <=> Form3(l, x, y)
  <2>1. Form3(l, x, y) <=>
            \/ l \in la3 /\ x \in xa3 /\ y \in any
            \/ l \in lb3 /\ x \in any /\ y \in any
            \/ l \in lc3 /\ x \in xc3 /\ y \in any
            \/ l \in ld3 /\ x \in any /\ y \in any
    BY Zenon, Rows3
  <2> HIDE DEF any, la3, xa3, lb3, lc3, xc3, ld3
  <2>2. Fits(a3, bytes, i) <=> l \in la3 /\ x \in xa3 /\ y \in any
    BY Zenon, Fits3
  <2>3. Fits(b3, bytes, i) <=> l \in lb3 /\ x \in any /\ y \in any
    BY Zenon, Fits3
  <2>4. Fits(c3, bytes, i) <=> l \in lc3 /\ x \in xc3 /\ y \in any
    BY Zenon, Fits3
  <2>5. Fits(d3, bytes, i) <=> l \in ld3 /\ x \in any /\ y \in any
    BY Zenon, Fits3
  <2> HIDE DEF a3, b3, c3, d3, l, x, y
  <2> QED
    BY Zenon, <2>1, <2>2, <2>3, <2>4, <2>5
<1>6. Fits(a4, bytes, i) \/ Fits(b4, bytes, i) \/ Fits(c4, bytes, i) <=> Form4(l, x, y, z)
  <2>1. Form4(l, x, y, z) <=>
            \/ l \in la4 /\ x \in xa4 /\ y \in any /\ z \in any
            \/ l \in lb4 /\ x \in any /\ y \in any /\ z \in any
            \/ l \in lc4 /\ x \in xc4 /\ y \in any /\ z \in any
    BY Zenon, Rows4
  <2> HIDE DEF any, la4, xa4, lb4, lc4, xc4
  <2>2. Fits(a4, bytes, i) <=> l \in la4 /\ x \in xa4 /\ y \in any /\ z \in any
    BY Zenon, Fits4
  <2>3. Fits(b4, bytes, i) <=> l \in lb4 /\ x \in any /\ y \in any /\ z \in any
    BY Zenon, Fits4
  <2>4. Fits(c4, bytes, i) <=> l \in lc4 /\ x \in xc4 /\ y \in any /\ z \in any
    BY Zenon, Fits4
  <2> HIDE DEF a4, b4, c4, l, x, y, z
  <2> QED
    BY Zenon, <2>1, <2>2, <2>3, <2>4
<1>7. (\E form \in WellFormedSequences :
            /\ i + Len(form) <= Len(bytes) + 1
            /\ \A k \in DOMAIN form : bytes[i + k - 1] \in form[k]
            /\ f[i + Len(form)])
      <=> \E form \in WellFormedSequences : Next(form)
  BY Zenon DEF Fits
<1> HIDE DEF Next, a1, a2, a3, b3, c3, d3, a4, b4, c4
<1>8. (\E form \in WellFormedSequences : Next(form)) <=>
        \/ Next(a1) \/ Next(a2) \/ Next(a3) \/ Next(b3) \/ Next(c3) \/ Next(d3)
        \/ Next(a4) \/ Next(b4) \/ Next(c4)
  BY <1>1
<1>9. /\ Next(a1) <=> Room(1) /\ Fits(a1, bytes, i)
      /\ Next(a2) <=> Room(2) /\ Fits(a2, bytes, i)
      /\ Next(a3) \/ Next(b3) \/ Next(c3) \/ Next(d3) <=>
           /\ Room(3)
           /\ Fits(a3, bytes, i) \/ Fits(b3, bytes, i) \/ Fits(c3, bytes, i) \/ Fits(d3, bytes, i)
      /\ Next(a4) \/ Next(b4) \/ Next(c4) <=>
           /\ Room(4)
           /\ Fits(a4, bytes, i) \/ Fits(b4, bytes, i) \/ Fits(c4, bytes, i)
  BY Zenon, <1>2 DEF Next
<1>10. /\ WellFormedAt(bytes, i, 1) /\ f[i + 1] <=> Room(1) /\ Form1(l)
       /\ WellFormedAt(bytes, i, 2) /\ f[i + 2] <=> Room(2) /\ Form2(l, x)
       /\ WellFormedAt(bytes, i, 3) /\ f[i + 3] <=> Room(3) /\ Form3(l, x, y)
       /\ WellFormedAt(bytes, i, 4) /\ f[i + 4] <=> Room(4) /\ Form4(l, x, y, z)
  BY DEF WellFormedAt
<1>11. (\E n \in 1..4 : WellFormedAt(bytes, i, n) /\ f[i + n]) <=>
        \/ WellFormedAt(bytes, i, 1) /\ f[i + 1]
        \/ WellFormedAt(bytes, i, 2) /\ f[i + 2]
        \/ WellFormedAt(bytes, i, 3) /\ f[i + 3]
        \/ WellFormedAt(bytes, i, 4) /\ f[i + 4]
  <2> DEFINE Goes(n) == WellFormedAt(bytes, i, n) /\ f[i + n]
  <2> HIDE DEF Goes
  <2>1. (\E n \in 1..4 : Goes(n)) <=> Goes(1) \/ Goes(2) \/ Goes(3) \/ Goes(4)
    <3>1. 1..4 = {1, 2, 3, 4}
      OBVIOUS
    <3> QED
      BY <3>1
  <2> QED
    BY <2>1 DEF Goes
<1> HIDE DEF Room, l, x, y, z
<1> QED
  BY Zenon, <1>3, <1>4, <1>5, <1>6, <1>7, <1>8, <1>9, <1>10, <1>11

\* Whether the text is well-formed from every position on.
IsWellFormed(f, bytes) ==
    /\ f \in [Nat \ {0} -> BOOLEAN]
    /\ \A i \in Nat \ {0} :
            f[i] <=> i > Len(bytes) \/ \E n \in 1..4 : WellFormedAt(bytes, i, n) /\ f[i + n]

\* WellFormedUtf8 is well-formedness from the first position on.
LEMMA WellFormedExists ==
    ASSUME NEW bytes \in Seq(Byte)
    PROVE  \E f : IsWellFormed(f, bytes) /\ (WellFormedUtf8(bytes) <=> f[1])
<1> DEFINE P == Nat \ {0}
           L == Len(bytes)
           Goes(i, f) == \E n \in 1..4 : WellFormedAt(bytes, i, n) /\ f[i + n]
           Fit(i, f) == \E form \in WellFormedSequences :
                            /\ i + Len(form) <= Len(bytes) + 1
                            /\ \A k \in DOMAIN form : bytes[i + k - 1] \in form[k]
                            /\ f[i + Len(form)]
           step == [i \in 1..L |-> [f \in [P -> BOOLEAN] |-> Goes(i, f)]]
           Is(f) == f = [i \in P |-> i > L \/ Fit(i, f)]
           from == CHOOSE f : Is(f)
<1>1. WellFormedUtf8(bytes) <=> from[1]
  BY DEF WellFormedUtf8
<1>2. L \in Nat
  OBVIOUS
<1>3. ASSUME NEW i \in P, NEW f PROVE Fit(i, f) <=> Goes(i, f)
  <2> HIDE DEF L
  <2> QED
    BY FormsAre
<1>4. ASSUME NEW i \in P, NEW f, NEW g, \A j \in P : j > i => f[j] = g[j]
      PROVE  Goes(i, f) = Goes(i, g)
  <2>1. \A n \in 1..4 : f[i + n] = g[i + n]
    BY <1>4
  <2> QED
    BY <2>1
<1> HIDE DEF L, Fit, from
<1>5. ASSUME NEW f PROVE Is(f) <=> f = [i \in P |-> i > L \/ Goes(i, f)]
  BY <1>3
<1>6. ASSUME NEW i, NEW f PROVE Goes(i, f) \in BOOLEAN
  OBVIOUS
<1> HIDE DEF Is, Goes
<1>7. step \in [1..L -> [[P -> BOOLEAN] -> BOOLEAN]]
  BY <1>6
<1>8. LooksAhead(BOOLEAN, L, step)
  <2>1. ASSUME NEW i \in 1..L, NEW g \in [P -> BOOLEAN], NEW h \in [P -> BOOLEAN],
               \A j \in P : j > i => g[j] = h[j]
        PROVE  step[i][g] = step[i][h]
    <3>1. i \in P
      BY <1>2
    <3>2. Goes(i, g) = Goes(i, h)
      BY <1>4, <2>1, <3>1
    <3>3. step[i][g] = Goes(i, g) /\ step[i][h] = Goes(i, h)
      OBVIOUS
    <3> QED
      BY <3>2, <3>3
  <2> HIDE DEF step
  <2> QED
    BY Zenon, <2>1 DEF LooksAhead
<1>9. PICK f : IsBackward(f, BOOLEAN, L, TRUE, step)
  <2> HIDE DEF step
  <2> QED
    BY <1>2, <1>7, <1>8, BackwardExists
<1>10. f = [i \in P |-> i > L \/ Goes(i, f)]
  <2>1. f \in [P -> BOOLEAN] /\ \A i \in P : f[i] = IF i > L THEN TRUE ELSE step[i][f]
    BY <1>9 DEF IsBackward
  <2>2. ASSUME NEW i \in P PROVE f[i] = (i > L \/ Goes(i, f))
    <3>1. CASE i > L
      BY <2>1, <3>1
    <3>2. CASE ~(i > L)
      <4>1. i \in 1..L
        BY <1>2, <3>2
      <4>2. f[i] = Goes(i, f)
        BY <2>1, <3>2, <4>1
      <4> QED
        BY <1>6, <3>2, <4>2
    <3> QED
      BY <3>1, <3>2
  <2> QED
    BY <2>1, <2>2
<1>11. Is(from)
  <2>1. Is(f)
    BY <1>5, <1>10
  <2> QED
    BY <2>1 DEF from
<1>12. from = [i \in P |-> i > L \/ Goes(i, from)]
  BY <1>5, <1>11
<1>13. \A i \in P : from[i] = (i > L \/ Goes(i, from))
  BY <1>12
<1>14. from \in [P -> BOOLEAN]
  BY <1>6, <1>12
<1> QED
  BY <1>1, <1>13, <1>14 DEF IsWellFormed, L, Goes

\* Whether the bytes at a place are well-formed depends on those from there only.
LEMMA WellFormedShifts ==
    ASSUME NEW a \in Seq(Byte), NEW b \in Seq(Byte), NEW i \in 1..Len(b), NEW n \in 1..4
    PROVE  WellFormedAt(a \o b, Len(a) + i, n) <=> WellFormedAt(b, i, n)
<1> DEFINE t == a \o b
           A == Len(a)
           B == Len(b)
<1>1. Len(t) = A + B /\ A \in Nat /\ B \in Nat /\ \A j \in 1..B : t[A + j] = b[j]
  BY Parts
<1> HIDE DEF t, A
<1>2. A + i + n <= Len(t) + 1 <=> i + n <= B + 1
  BY <1>1
<1>3. ASSUME i + n <= B + 1, NEW k \in 0..n - 1 PROVE t[A + i + k] = b[i + k]
  <2>1. i + k \in 1..B /\ A + (i + k) = A + i + k
    BY <1>1, <1>3
  <2> QED
    BY Zenon, <1>1, <2>1
<1>4. t[A + i] = b[i]
  BY <1>1
<1>5. i + n <= B + 1 => /\ n >= 2 => t[A + i + 1] = b[i + 1]
                        /\ n >= 3 => t[A + i + 2] = b[i + 2]
                        /\ n >= 4 => t[A + i + 3] = b[i + 3]
  BY <1>3
<1>6. WellFormedAt(t, A + i, n) <=> WellFormedAt(b, i, n)
  BY <1>2, <1>4, <1>5 DEF WellFormedAt
<1> QED
  BY <1>6 DEF t, A

\* A text is well-formed from a place on if the bytes from there are well-formed.
LEMMA WellFormedSplit ==
    ASSUME NEW a \in Seq(Byte), NEW b \in Seq(Byte),
           NEW f, IsWellFormed(f, a \o b), NEW g, IsWellFormed(g, b)
    PROVE  f[Len(a) + 1] <=> g[1]
<1> DEFINE P == Nat \ {0}
           A == Len(a)
           B == Len(b)
           Same == {i \in P : f[A + i] <=> g[i]}
<1>1. A \in Nat /\ B \in Nat /\ Len(a \o b) = A + B
  BY Parts
<1>2. ASSUME NEW i \in P, i > B PROVE i \in Same
  <2>1. A + i \in P /\ A + i > A + B
    BY <1>1, <1>2
  <2> HIDE DEF A, B
  <2> QED
    BY <1>1, <1>2, <2>1 DEF IsWellFormed, B
<1>3. ASSUME NEW i \in 1..B, \A j \in P : j > i => j \in Same PROVE i \in Same
  <2>1. \A n \in 1..4 : WellFormedAt(a \o b, A + i, n) <=> WellFormedAt(b, i, n)
    BY WellFormedShifts
  <2>2. A + i \in P /\ ~(A + i > A + B) /\ i \in P /\ ~(i > B)
    BY <1>1
  <2>3. f[A + i] <=> \E n \in 1..4 : WellFormedAt(a \o b, A + i, n) /\ f[A + i + n]
    BY <1>1, <2>2 DEF IsWellFormed
  <2>4. g[i] <=> \E n \in 1..4 : WellFormedAt(b, i, n) /\ g[i + n]
    BY <2>2 DEF IsWellFormed
  <2>5. ASSUME NEW n \in 1..4 PROVE f[A + i + n] <=> g[i + n]
    <3>1. i + n \in P /\ i + n > i /\ A + (i + n) = A + i + n
      BY <1>1
    <3> QED
      BY <1>3, <3>1
  <2> QED
    BY <2>1, <2>2, <2>3, <2>4, <2>5
<1> HIDE DEF Same
<1>4. P \subseteq Same
  BY <1>1, <1>2, <1>3, DownwardInduction
<1> QED
  BY <1>4 DEF Same

\* No bytes are well-formed.
LEMMA WellFormedEmpty == WellFormedUtf8(<<>>)
<1> DEFINE none == <<>>
<1>1. none \in Seq(Byte) /\ Len(none) = 0
  OBVIOUS
<1> HIDE DEF none
<1>2. PICK f : IsWellFormed(f, none) /\ (WellFormedUtf8(none) <=> f[1])
  BY <1>1, WellFormedExists
<1>3. 1 \in Nat \ {0} /\ 1 > Len(none)
  BY <1>1
<1>4. f[1]
  BY <1>2, <1>3 DEF IsWellFormed
<1> QED
  BY <1>2, <1>4 DEF none

\* A well-formed sequence before a well-formed text makes a well-formed text.
LEMMA WellFormedHead ==
    ASSUME NEW a \in Seq(Byte), NEW b \in Seq(Byte), Len(a) \in 1..4,
           WellFormedAt(a \o b, 1, Len(a)), WellFormedUtf8(b)
    PROVE  WellFormedUtf8(a \o b)
<1>1. a \o b \in Seq(Byte)
  BY Parts
<1>2. PICK f : IsWellFormed(f, a \o b) /\ (WellFormedUtf8(a \o b) <=> f[1])
  BY <1>1, WellFormedExists
<1>3. PICK g : IsWellFormed(g, b) /\ (WellFormedUtf8(b) <=> g[1])
  BY WellFormedExists
<1>4. f[Len(a) + 1]
  BY <1>2, <1>3, WellFormedSplit
<1>5. 1 \in Nat \ {0} /\ 1 + Len(a) = Len(a) + 1
  OBVIOUS
<1>6. f[1]
  BY <1>2, <1>4, <1>5 DEF IsWellFormed
<1> QED
  BY <1>2, <1>6

\* A well-formed text that has bytes begins with a well-formed sequence, and
\* the rest of it is well-formed.
LEMMA WellFormedTail ==
    ASSUME NEW bytes \in Seq(Byte), Len(bytes) >= 1, WellFormedUtf8(bytes)
    PROVE  \E n \in 1..4, a \in Seq(Byte), b \in Seq(Byte) :
                /\ bytes = a \o b /\ Len(a) = n
                /\ WellFormedAt(bytes, 1, n) /\ WellFormedUtf8(b)
<1>1. PICK f : IsWellFormed(f, bytes) /\ (WellFormedUtf8(bytes) <=> f[1])
  BY WellFormedExists
<1>2. 1 \in Nat \ {0} /\ ~(1 > Len(bytes))
  OBVIOUS
<1>3. PICK n \in 1..4 : WellFormedAt(bytes, 1, n) /\ f[1 + n]
  BY <1>1, <1>2 DEF IsWellFormed
<1>4. n \in 0..Len(bytes)
  BY <1>3 DEF WellFormedAt
<1>5. PICK a \in Seq(Byte), b \in Seq(Byte) : bytes = a \o b /\ Len(a) = n
  BY ZenonT(40), <1>4, Cut
<1>6. PICK g : IsWellFormed(g, b) /\ (WellFormedUtf8(b) <=> g[1])
  BY WellFormedExists
<1>7. f[Len(a) + 1] <=> g[1]
  BY <1>1, <1>5, <1>6, WellFormedSplit
<1>8. Len(a) + 1 = 1 + n
  BY <1>5
<1> QED
  BY <1>3, <1>5, <1>6, <1>7, <1>8

-----------------------------------------------------------------------------
(* Plain characters *)

\* The plain characters among the first k, for every k.
IsAscii(f, s) ==
    /\ f \in [0..Len(s) -> Seq(Nat)]
    /\ f[0] = <<>>
    /\ \A k \in 1..Len(s) : f[k] = IF s[k] < 128 THEN Append(f[k - 1], s[k]) ELSE f[k - 1]

\* Ascii is the plain characters among all.
LEMMA AsciiExists ==
    ASSUME NEW s \in Seq(Nat)
    PROVE  \E f : IsAscii(f, s) /\ Ascii(s) = f[Len(s)]
<1> DEFINE L == Len(s)
           V == Seq(Nat)
           start == <<>>
           Take(k, x) == IF k \in 1..L /\ s[k] < 128 THEN Append(x, s[k]) ELSE x
           step == [n \in Nat |-> [x \in V |-> Take(n + 1, x)]]
           Is(f) == f = [k \in 0..L |-> IF k = 0 THEN <<>>
                                        ELSE IF s[k] < 128 THEN Append(f[k - 1], s[k]) ELSE f[k - 1]]
           plain == CHOOSE f : Is(f)
<1>1. Ascii(s) = plain[L]
  BY DEF Ascii
<1>2. L \in Nat /\ start \in V
  OBVIOUS
<1>3. ASSUME NEW k \in 1..L, NEW x \in V PROVE Append(x, s[k]) \in V
  <2>1. s[k] \in Nat
    BY ElementIn
  <2> QED
    BY <2>1
<1>4. ASSUME NEW k, NEW x \in V PROVE Take(k, x) \in V
  BY <1>3
<1> HIDE DEF L, plain, Take, V, start
<1>5. step \in [Nat -> [V -> V]]
  BY <1>4
<1>6. PICK r : IsIteration(r, V, start, step)
  <2> HIDE DEF step
  <2> QED
    BY <1>2, <1>5, Iterates
<1>7. r \in [Nat -> V] /\ r[0] = start /\ \A n \in Nat : r[n + 1] = Take(n + 1, r[n])
  BY <1>6 DEF IsIteration
<1> HIDE DEF step
<1>8. \A k \in 1..L : r[k] = IF s[k] < 128 THEN Append(r[k - 1], s[k]) ELSE r[k - 1]
  <2> SUFFICES ASSUME NEW k \in 1..L
               PROVE  r[k] = IF s[k] < 128 THEN Append(r[k - 1], s[k]) ELSE r[k - 1]
    OBVIOUS
  <2>1. k - 1 \in Nat /\ (k - 1) + 1 = k
    BY <1>2
  <2>2. r[k] = Take(k, r[k - 1])
    BY <1>7, <2>1
  <2> QED
    BY <2>2 DEF Take
<1> DEFINE f == [k \in 0..L |-> r[k]]
<1>9. Is(f)
  <2>1. ASSUME NEW k \in 0..L
        PROVE  f[k] = IF k = 0 THEN <<>>
                      ELSE IF s[k] < 128 THEN Append(f[k - 1], s[k]) ELSE f[k - 1]
    <3>1. CASE k = 0
      BY <1>7, <3>1 DEF start
    <3>2. CASE k # 0
      <4>1. k \in 1..L /\ k - 1 \in 0..L
        BY <1>2, <3>2
      <4> QED
        BY <1>8, <3>2, <4>1
    <3> QED
      BY <3>1, <3>2
  <2>2. f = [k \in 0..L |-> f[k]]
    BY Zenon
  <2> HIDE DEF f
  <2> QED
    BY <2>1, <2>2
<1>10. Is(plain)
  BY Zenon, <1>9 DEF plain
<1>11. \A k \in 0..L : plain[k] = IF k = 0 THEN <<>>
                                  ELSE IF s[k] < 128 THEN Append(plain[k - 1], s[k]) ELSE plain[k - 1]
  BY <1>10
<1>12. plain[0] = <<>>
  <2>1. 0 \in 0..L
    BY <1>2
  <2> QED
    BY Zenon, <1>11, <2>1
<1>13. \A k \in 1..L : plain[k] = IF s[k] < 128 THEN Append(plain[k - 1], s[k]) ELSE plain[k - 1]
  BY SMTT(30), <1>2, <1>11
<1>14. plain \in [0..L -> V]
  <2> DEFINE T == {n \in Nat : n <= L => plain[n] \in V}
  <2>1. 0 \in T
    BY <1>2, <1>12 DEF start
  <2>2. ASSUME NEW n \in Nat, n \in T PROVE n + 1 \in T
    <3>1. SUFFICES ASSUME n + 1 <= L PROVE plain[n + 1] \in V
      OBVIOUS
    <3>2. n + 1 \in 1..L /\ (n + 1) - 1 = n /\ plain[n] \in V
      BY <1>2, <2>2, <3>1
    <3>3. plain[n + 1] = IF s[n + 1] < 128 THEN Append(plain[n], s[n + 1]) ELSE plain[n]
      BY <1>13, <3>2
    <3> QED
      BY <1>3, <3>2, <3>3
  <2> HIDE DEF T
  <2>3. Nat \subseteq T
    BY <2>1, <2>2, NatSetInduction
  <2>4. \A k \in 0..L : plain[k] \in V
    BY <1>2, <2>3 DEF T
  <2>5. plain = [k \in 0..L |-> plain[k]]
    BY <1>10
  <2> QED
    BY <2>4, <2>5
<1> QED
  BY <1>1, <1>12, <1>13, <1>14 DEF IsAscii, L, V

\* What is appended to the second of two texts is appended to both.
LEMMA AppendConcat ==
    \A s \in Seq(Nat), t \in Seq(Nat), e \in Nat : Append(s \o t, e) = s \o Append(t, e)
<1> DEFINE S == Nat
<1> SUFFICES ASSUME NEW s \in Seq(S), NEW t \in Seq(S), NEW e \in S
             PROVE  Append(s \o t, e) = s \o Append(t, e)
  OBVIOUS
<1> HIDE DEF S
<1> QED
  OBVIOUS

\* The plain characters of a text are those of its parts.
LEMMA AsciiConcat ==
    ASSUME NEW a \in Seq(Nat), NEW b \in Seq(Nat)
    PROVE  Ascii(a \o b) = Ascii(a) \o Ascii(b)
<1> DEFINE A == Len(a)
           B == Len(b)
           t == a \o b
<1>1. /\ t \in Seq(Nat) /\ Len(t) = A + B /\ A \in Nat /\ B \in Nat
      /\ \A i \in 1..A : t[i] = a[i]
      /\ \A i \in 1..B : t[A + i] = b[i]
  BY Parts
<1> HIDE DEF t
<1>2. PICK f : IsAscii(f, t) /\ Ascii(t) = f[Len(t)]
  BY <1>1, AsciiExists
<1>3. PICK g : IsAscii(g, a) /\ Ascii(a) = g[A]
  BY AsciiExists
<1>4. PICK h : IsAscii(h, b) /\ Ascii(b) = h[B]
  BY AsciiExists
<1> HIDE DEF A, B
<1>5. /\ f[0] = <<>>
      /\ \A k \in 1..A + B : f[k] = IF t[k] < 128 THEN Append(f[k - 1], t[k]) ELSE f[k - 1]
  BY <1>1, <1>2 DEF IsAscii
<1>6. /\ g[0] = <<>> /\ g \in [0..A -> Seq(Nat)]
      /\ \A k \in 1..A : g[k] = IF a[k] < 128 THEN Append(g[k - 1], a[k]) ELSE g[k - 1]
  BY <1>3 DEF IsAscii, A
<1>7. /\ h[0] = <<>> /\ h \in [0..B -> Seq(Nat)]
      /\ \A k \in 1..B : h[k] = IF b[k] < 128 THEN Append(h[k - 1], b[k]) ELSE h[k - 1]
  BY <1>4 DEF IsAscii, B
<1>8. f[A] = g[A]
  <2> DEFINE T == {n \in Nat : n <= A => f[n] = g[n]}
  <2>1. 0 \in T
    BY <1>5, <1>6
  <2>2. ASSUME NEW n \in Nat, n \in T PROVE n + 1 \in T
    <3>1. SUFFICES ASSUME n + 1 <= A PROVE f[n + 1] = g[n + 1]
      OBVIOUS
    <3>2. n + 1 \in 1..A /\ n + 1 \in 1..A + B /\ (n + 1) - 1 = n /\ f[n] = g[n]
      BY <1>1, <2>2, <3>1
    <3>3. t[n + 1] = a[n + 1]
      BY <1>1, <3>2
    <3>4. f[n + 1] = IF a[n + 1] < 128 THEN Append(f[n], a[n + 1]) ELSE f[n]
      BY <1>5, <3>2, <3>3
    <3>5. g[n + 1] = IF a[n + 1] < 128 THEN Append(g[n], a[n + 1]) ELSE g[n]
      BY <1>6, <3>2
    <3> QED
      BY <3>2, <3>4, <3>5
  <2> HIDE DEF T
  <2>3. Nat \subseteq T
    BY <2>1, <2>2, NatSetInduction
  <2> QED
    BY <1>1, <2>3 DEF T
<1>9. f[A + B] = g[A] \o h[B]
  <2> DEFINE Joined(n) == f[A + n] = g[A] \o h[n]
             T == {n \in Nat : n <= B => Joined(n)}
  <2>1. Joined(0)
    <3>1. A + 0 = A /\ g[A] \in Seq(Nat)
      BY <1>1, <1>6
    <3>2. g[A] \o <<>> = g[A]
      BY <3>1
    <3> QED
      BY <1>7, <1>8, <3>1, <3>2
  <2>2. ASSUME NEW n \in Nat, n + 1 <= B, Joined(n) PROVE Joined(n + 1)
    <3>1. /\ n + 1 \in 1..B /\ (n + 1) - 1 = n
          /\ A + (n + 1) \in 1..A + B /\ (A + (n + 1)) - 1 = A + n /\ n \in 0..B
      BY <1>1, <2>2
    <3> DEFINE u == b[n + 1]
               old == h[n]
               head == g[A]
               k == A + (n + 1)
    <3>2. t[k] = u
      BY <1>1, <3>1
    <3>3. h[n + 1] = IF u < 128 THEN Append(old, u) ELSE old
      BY Zenon, <1>7, <3>1
    <3>4. head \in Seq(Nat) /\ old \in Seq(Nat)
      BY <1>1, <1>6, <1>7, <3>1
    <3>5. u \in Nat
      BY <3>1, ElementIn DEF B
    <3>6. f[k - 1] = head \o old
      BY Zenon, <2>2, <3>1
    <3>7. k \in 1..A + B
      BY <3>1
    <3> HIDE DEF u, old, head, k
    <3>8. f[k] = IF t[k] < 128 THEN Append(f[k - 1], t[k]) ELSE f[k - 1]
      BY Zenon, <1>5, <3>7
    <3>9. f[k] = IF u < 128 THEN Append(head \o old, u) ELSE head \o old
      BY Zenon, <3>2, <3>6, <3>8
    <3>10. Append(head \o old, u) = head \o Append(old, u)
      BY Zenon, <3>4, <3>5, AppendConcat
    <3>11. f[k] = head \o h[n + 1]
      BY Zenon, <3>3, <3>9, <3>10
    <3> QED
      BY <3>11 DEF head, k
  <2> HIDE DEF Joined
  <2>3. \A n \in Nat : n \in T => n + 1 \in T
    <3>1. \A n \in Nat : n + 1 <= B => n <= B
      BY <1>1
    <3> QED
      BY <2>2, <3>1
  <2>4. 0 \in T
    BY <2>1
  <2> HIDE DEF T
  <2>5. Nat \subseteq T
    BY <2>3, <2>4, NatSetInduction
  <2>6. Joined(B)
    BY <1>1, <2>5 DEF T
  <2> QED
    BY <2>6 DEF Joined
<1> QED
  BY <1>1, <1>2, <1>3, <1>4, <1>9 DEF t

\* Among units beyond the plain ones there is no plain character.
LEMMA AsciiNone ==
    ASSUME NEW s \in Seq(Nat), \A k \in 1..Len(s) : s[k] >= 128
    PROVE  Ascii(s) = <<>>
<1> DEFINE L == Len(s)
<1>1. PICK f : IsAscii(f, s) /\ Ascii(s) = f[L]
  BY AsciiExists
<1>2. L \in Nat
  OBVIOUS
<1>3. \A k \in 1..L : ~(s[k] < 128)
  <2>1. \A k \in 1..L : s[k] \in Nat /\ s[k] >= 128
    BY ElementIn
  <2> QED
    BY <2>1
<1> HIDE DEF L
<1>4. f[0] = <<>> /\ \A k \in 1..L : f[k] = f[k - 1]
  BY <1>1, <1>3 DEF IsAscii, L
<1> DEFINE T == {n \in Nat : n <= L => f[n] = <<>>}
<1>5. 0 \in T
  BY <1>4
<1>6. ASSUME NEW n \in Nat, n \in T PROVE n + 1 \in T
  <2>1. SUFFICES ASSUME n + 1 <= L PROVE f[n + 1] = <<>>
    OBVIOUS
  <2>2. n + 1 \in 1..L /\ (n + 1) - 1 = n /\ f[n] = <<>>
    BY <1>2, <1>6, <2>1
  <2> QED
    BY <1>4, <2>2
<1> HIDE DEF T
<1>7. Nat \subseteq T
  BY <1>5, <1>6, NatSetInduction
<1> QED
  BY <1>1, <1>2, <1>7 DEF T

-----------------------------------------------------------------------------
(* What is kept of one code point *)

\* The bytes of a code point that is not plain are not plain.
LEMMA EncodedHigh ==
    ASSUME NEW cp \in Scalars, cp >= 128
    PROVE  \A k \in 1..Len(AppendUtf8(cp)) : AppendUtf8(cp)[k] >= 128
<1> DEFINE a == AppendUtf8(cp)
<1>1. cp \in Nat /\ cp <= MaxCodePoint /\ cp \notin Surrogates
  BY ScalarLengths
<1>2. CASE cp < 2048
  <2>1. PICK l, x : Form2(l, x) /\ a = <<l, x>>
    BY <1>1, <1>2, Encoding2
  <2>2. l >= 128 /\ x \in Continuations
    BY <2>1, FormLeads
  <2>3. x >= 128
    BY <2>2, ContinuationIs
  <2> HIDE DEF a
  <2>4. Len(a) = 2 /\ a[1] >= 128 /\ a[2] >= 128
    BY <2>1, <2>2, <2>3
  <2> QED
    BY <2>4 DEF a
<1>3. CASE 2048 <= cp /\ cp < 65536
  <2>1. PICK l, x, y : Form3(l, x, y) /\ a = <<l, x, y>>
    BY <1>1, <1>3, Encoding3
  <2>2. l >= 128 /\ x \in Continuations /\ y \in Continuations
    BY <2>1, FormLeads
  <2>3. x >= 128 /\ y >= 128
    BY <2>2, ContinuationIs
  <2> HIDE DEF a
  <2>4. Len(a) = 3 /\ a[1] >= 128 /\ a[2] >= 128 /\ a[3] >= 128
    BY <2>1, <2>2, <2>3
  <2> QED
    BY <2>4 DEF a
<1>4. CASE cp >= 65536
  <2>1. PICK l, x, y, z : Form4(l, x, y, z) /\ a = <<l, x, y, z>>
    BY <1>1, <1>4, Encoding4
  <2>2. l >= 128 /\ x \in Continuations /\ y \in Continuations /\ z \in Continuations
    BY <2>1, FormLeads
  <2>3. x >= 128 /\ y >= 128 /\ z >= 128
    BY <2>2, ContinuationIs
  <2> HIDE DEF a
  <2>4. Len(a) = 4 /\ a[1] >= 128 /\ a[2] >= 128 /\ a[3] >= 128 /\ a[4] >= 128
    BY <2>1, <2>2, <2>3
  <2> QED
    BY <2>4 DEF a
<1> HIDE DEF a
<1> QED
  BY <1>2, <1>3, <1>4, ScalarLengths DEF a

\* What a code point beyond the sixteen-bit ones is split into.
LEMMA PairOf ==
    ASSUME NEW cp \in Nat, 65536 <= cp, cp <= (17 * 65536) - 1,
           NEW high, high = 55296 + ((cp - 65536) \div 1024),
           NEW low, low = 56320 + ((cp - 65536) % 1024)
    PROVE  /\ high \in Nat /\ 55296 <= high /\ high <= 56319
           /\ low \in Nat /\ 56320 <= low /\ low <= 57343
           /\ FromPair(high, low) = cp
BY SMT DEF FromPair

\* What a pair spells is split into that pair.
LEMMA PairBack ==
    ASSUME NEW high \in Nat, 55296 <= high, high <= 56319,
           NEW low \in Nat, 56320 <= low, low <= 57343,
           NEW cp, cp = FromPair(high, low)
    PROVE  high = 55296 + ((cp - 65536) \div 1024) /\ low = 56320 + ((cp - 65536) % 1024)
<1> DEFINE h == high - 55296
           l == low - 56320
<1>1. h \in Nat /\ l \in Nat /\ l < 1024
  OBVIOUS
<1>2. cp - 65536 = (h * 1024) + l
  BY SMT DEF FromPair
<1> HIDE DEF h, l
<1>3. ((h * 1024) + l) \div 1024 = h /\ ((h * 1024) + l) % 1024 = l
  BY SMT, <1>1
<1>4. high = 55296 + h /\ low = 56320 + l
  BY SMT DEF h, l
<1> QED
  BY <1>2, <1>3, <1>4

\* The units of a code point are read as that code point, whatever follows.
LEMMA WideRead ==
    ASSUME NEW bits \in {16, 32}, NEW cp \in Scalars, NEW w \in Seq(Nat)
    PROVE  /\ Char(bits, AppendWide(bits, cp) \o w, 1) = cp
           /\ After(bits, AppendWide(bits, cp) \o w, 1) = 1 + Len(AppendWide(bits, cp))
<1> DEFINE u == AppendWide(bits, cp)
           t == u \o w
<1>1. cp \in Nat /\ cp <= MaxCodePoint /\ cp \notin Surrogates
  BY ScalarLengths
<1>2. CASE bits = 32 \/ cp < 65536
  <2>1. u = <<cp>>
    BY <1>2 DEF AppendWide
  <2>2. Len(u) = 1 /\ t[1] = cp
    BY <1>1, <2>1
  <2>3. ~IsPair(bits, t, 1)
    <3>1. cp \notin HighSurrogates
      BY <1>1 DEF Surrogates
    <3> HIDE DEF t
    <3> QED
      BY <2>2, <3>1 DEF IsPair
  <2>4. ~(cp > MaxCodePoint)
    BY <1>1, LastIs
  <2> HIDE DEF u, t
  <2>5. Char(bits, t, 1) = cp
    BY Zenon, <1>1, <2>2, <2>3, <2>4 DEF Char
  <2>6. After(bits, t, 1) = 1 + Len(u)
    BY <2>2, <2>3 DEF After
  <2> QED
    BY <2>5, <2>6 DEF t, u
<1>3. CASE ~(bits = 32 \/ cp < 65536)
  <2> DEFINE high == 55296 + ((cp - 65536) \div 1024)
             low == 56320 + ((cp - 65536) % 1024)
  <2>1. u = <<high, low>>
    BY <1>3 DEF AppendWide
  <2>2. 65536 <= cp /\ cp <= (17 * 65536) - 1 /\ bits = 16
    BY <1>1, <1>3, PlanesAre DEF MaxCodePoint
  <2>3. /\ high \in Nat /\ 55296 <= high /\ high <= 56319
        /\ low \in Nat /\ 56320 <= low /\ low <= 57343
        /\ FromPair(high, low) = cp
    <3> HIDE DEF high, low
    <3> QED
      BY <1>1, <2>2, PairOf DEF high, low
  <2> HIDE DEF high, low
  <2>4. high \in HighSurrogates /\ low \in LowSurrogates
    BY <2>3, SurrogateRanges
  <2>5. Len(u) = 2 /\ t[1] = high /\ t[2] = low /\ Len(t) = 2 + Len(w)
    BY <2>1, <2>3
  <2> HIDE DEF u, t
  <2>6. IsPair(bits, t, 1)
    BY <2>2, <2>4, <2>5 DEF IsPair
  <2>7. 1 + 1 = 2
    OBVIOUS
  <2>8. Char(bits, t, 1) = cp
    <3>1. Char(bits, t, 1) = FromPair(t[1], t[2])
      BY Zenon, <2>6, <2>7 DEF Char
    <3>2. FromPair(t[1], t[2]) = FromPair(high, low)
      BY Zenon, <2>5
    <3> QED
      BY <2>3, <3>1, <3>2
  <2>9. After(bits, t, 1) = 1 + Len(u)
    BY <2>5, <2>6 DEF After
  <2> QED
    BY <2>8, <2>9 DEF t, u
<1> QED
  BY <1>2, <1>3

-----------------------------------------------------------------------------
(* Whole texts *)

\* Induction over sequences by their length.
LEMMA LengthInduction ==
    ASSUME NEW S, NEW T,
           \A s \in Seq(S) : (\A r \in Seq(S) : Len(r) < Len(s) => r \in T) => s \in T
    PROVE  Seq(S) \subseteq T
<1> DEFINE U == {n \in Nat : \A s \in Seq(S) : Len(s) < n => s \in T}
<1>1. \A s \in Seq(S) : Len(s) \in Nat
  OBVIOUS
<1>2. 0 \in U
  BY <1>1
<1>3. ASSUME NEW n \in Nat, n \in U PROVE n + 1 \in U
  <2>1. SUFFICES ASSUME NEW s \in Seq(S), Len(s) < n + 1 PROVE s \in T
    OBVIOUS
  <2>2. ASSUME NEW r \in Seq(S), Len(r) < Len(s) PROVE r \in T
    <3>1. Len(r) < n
      BY <1>1, <2>1, <2>2
    <3> QED
      BY <1>3, <3>1
  <2> QED
    BY <2>2
<1> HIDE DEF U
<1>4. Nat \subseteq U
  BY <1>2, <1>3, NatSetInduction
<1>5. ASSUME NEW s \in Seq(S) PROVE s \in T
  <2>1. Len(s) + 1 \in Nat /\ Len(s) < Len(s) + 1
    BY <1>1
  <2>2. Len(s) + 1 \in U
    BY <1>4, <2>1
  <2> QED
    BY <2>1, <2>2 DEF U
<1> QED
  BY <1>5

\* Bytes are numbers, and what is decoded and what is written has its type.
LEMMA ByteSeqs == \A s \in Seq(Byte) : s \in Seq(Nat)
<1>1. \A x \in Byte : x \in Nat
  BY ByteIs
<1> HIDE DEF Byte
<1> QED
  BY <1>1

\* What is read of bytes is a wide text.
LEMMA ToWideIn ==
    ASSUME NEW bits \in {16, 32}, NEW bytes \in Seq(Byte)
    PROVE  Utf8ToWide(bits, bytes) \in Seq(Nat)
<1>1. PICK f : IsToWide(f, bits, bytes) /\ Utf8ToWide(bits, bytes) = f[1]
  BY ToWideExists
<1>2. 1 \in Nat \ {0}
  OBVIOUS
<1> QED
  BY <1>1, <1>2 DEF IsToWide

\* What is written of a wide text is bytes.
LEMMA ToUtf8In ==
    ASSUME NEW bits, NEW wide \in Seq(Nat)
    PROVE  WideToUtf8(bits, wide) \in Seq(Byte)
<1>1. PICK f : IsToUtf8(f, bits, wide) /\ WideToUtf8(bits, wide) = f[1]
  BY ToUtf8Exists
<1>2. 1 \in Nat \ {0}
  OBVIOUS
<1> QED
  BY <1>1, <1>2 DEF IsToUtf8

\* t is cut into a and b.
Cuts(t, a, b) == t = a \o b

\* Every cut of a sequence, by its length.
LEMMA CutExists ==
    ASSUME NEW S, NEW s \in Seq(S), NEW n \in 0..Len(s)
    PROVE  \E a \in Seq(S), b \in Seq(S) : Cuts(s, a, b) /\ Len(a) = n
BY ZenonT(40), Cut DEF Cuts

\* What a sequence that is cut consists of.
LEMMA PartsOf ==
    ASSUME NEW S, NEW a \in Seq(S), NEW b \in Seq(S), NEW t, Cuts(t, a, b)
    PROVE  /\ t \in Seq(S) /\ Len(t) = Len(a) + Len(b) /\ Len(a) \in Nat /\ Len(b) \in Nat
           /\ \A i \in 1..Len(a) : t[i] = a[i]
           /\ \A i \in 1..Len(b) : t[Len(a) + i] = b[i]
BY Parts DEF Cuts

\* A sequence is cut in one way only at a place.
LEMMA CutOnce ==
    ASSUME NEW S, NEW a \in Seq(S), NEW b \in Seq(S), NEW c \in Seq(S), NEW d \in Seq(S),
           NEW t, Cuts(t, a, b), Cuts(t, c, d), Len(a) = Len(c)
    PROVE  a = c /\ b = d
<1>1. /\ Len(t) = Len(a) + Len(b) /\ Len(a) \in Nat /\ Len(b) \in Nat
      /\ \A i \in 1..Len(a) : t[i] = a[i]
      /\ \A i \in 1..Len(b) : t[Len(a) + i] = b[i]
  BY PartsOf
<1>2. /\ Len(t) = Len(c) + Len(d) /\ Len(d) \in Nat
      /\ \A i \in 1..Len(c) : t[i] = c[i]
      /\ \A i \in 1..Len(d) : t[Len(c) + i] = d[i]
  BY PartsOf
<1>3. Len(b) = Len(d)
  BY <1>1, <1>2
<1>4. \A i \in 1..Len(a) : a[i] = c[i]
  BY <1>1, <1>2
<1>5. \A i \in 1..Len(b) : b[i] = d[i]
  BY <1>1, <1>2, <1>3
<1> QED
  BY <1>3, <1>4, <1>5, SeqEqual

\* The first bytes of a text are its head.
LEMMA PieceIs ==
    ASSUME NEW a \in Seq(Byte), NEW b \in Seq(Byte)
    PROVE  Piece(a \o b, 1, Len(a)) = a
<1> DEFINE t == a \o b
<1>1. Len(a) \in Nat /\ \A i \in 1..Len(a) : t[i] = a[i]
  BY Parts
<1> HIDE DEF t
<1>2. \A k \in 1..Len(a) : t[1 + k - 1] = a[k]
  BY <1>1
<1>3. Piece(t, 1, Len(a)) = [k \in 1..Len(a) |-> a[k]]
  BY <1>2 DEF Piece
<1> QED
  BY <1>3 DEF t

\* What has to be shown of the bytes of a text, at one width.
Survive(bits, bytes) ==
    LET saved == WideToUtf8(bits, Utf8ToWide(bits, bytes))
    IN  /\ WellFormedUtf8(saved)
        /\ WellFormedUtf8(bytes) => saved = bytes
        /\ Ascii(saved) = Ascii(bytes)

\* The empty text survives.
LEMMA BytesSurviveEmpty ==
    ASSUME NEW bits \in {16, 32}
    PROVE  Survive(bits, <<>>)
<1>1. WideToUtf8(bits, Utf8ToWide(bits, <<>>)) = <<>>
  BY ToWideEmpty, ToUtf8Empty
<1> QED
  BY <1>1, WellFormedEmpty DEF Survive

\* The first code point of bytes, and what is kept of it.
LEMMA FirstKept ==
    ASSUME NEW a \in Seq(Byte), NEW r \in Seq(Byte), Len(a) >= 1,
           NEW t, Cuts(t, a, r), NEW cp, DecodeUtf8(t, 1).cp = cp, DecodeUtf8(t, 1).next = 1 + Len(a)
    PROVE  cp \in Scalars /\ Ascii(AppendUtf8(cp)) = Ascii(a)
<1> DEFINE e == AppendUtf8(cp)
<1>1. /\ t \in Seq(Byte) /\ Len(t) = Len(a) + Len(r) /\ Len(a) \in Nat /\ Len(r) \in Nat
      /\ \A i \in 1..Len(a) : t[i] = a[i]
  BY PartsOf
<1> DEFINE d == DecodeUtf8(t, 1)
<1>2. 1 \in 1..Len(t) /\ 1 \in 1..Len(a)
  BY <1>1
<1>3. /\ d.cp \in Scalars
      /\ t[1] < 128 => d.cp = t[1] /\ d.next = 1 + 1
      /\ t[1] >= 128 => d.cp >= 128 /\ \A j \in 1..d.next - 1 : t[j] >= 128
  BY <1>1, <1>2, DecodeFacts
<1> HIDE DEF d
<1>4. /\ cp \in Scalars
      /\ t[1] < 128 => cp = t[1] /\ Len(a) = 1
      /\ t[1] >= 128 => cp >= 128 /\ \A j \in 1..Len(a) : t[j] >= 128
  <2>1. d.cp = cp /\ d.next = 1 + Len(a)
    BY DEF d
  <2>2. d.next - 1 = Len(a) /\ (d.next = 1 + 1 => Len(a) = 1)
    <3>1. \A n \in Nat : \A m : m = 1 + n => m - 1 = n /\ (m = 1 + 1 => n = 1)
      OBVIOUS
    <3> QED
      BY Zenon, <1>1, <2>1, <3>1
  <2> QED
    BY Zenon, <1>3, <2>1, <2>2
<1>5. t[1] \in Nat /\ t[1] = a[1]
  <2>1. t[1] \in Byte
    BY <1>1, <1>2, ElementIn
  <2> QED
    BY <1>1, <1>2, <2>1, ByteIs
<1>6. CASE t[1] < 128
  <2>1. cp = a[1] /\ Len(a) = 1 /\ cp \in Nat /\ cp < 128
    BY Zenon, <1>4, <1>5, <1>6
  <2>2. a = <<cp>>
    <3>1. <<cp>> \in Seq(Nat) /\ Len(<<cp>>) = 1 /\ <<cp>>[1] = cp
      BY <2>1
    <3>2. \A k \in 1..Len(a) : a[k] = <<cp>>[k]
      BY <2>1
    <3>3. a \in Seq(Nat)
      BY ByteSeqs
    <3> HIDE DEF e
    <3> QED
      BY <2>1, <3>1, <3>2, <3>3, SeqEqual
  <2>3. e = <<cp>>
    BY <2>1, Encoding1
  <2> QED
    BY <1>4, <2>2, <2>3
<1>7. CASE ~(t[1] < 128)
  <2>1. t[1] >= 128
    BY <1>5, <1>7
  <2>2. \A k \in 1..Len(a) : a[k] >= 128
    BY Zenon, <1>1, <1>4, <2>1
  <2>3. a \in Seq(Nat)
    BY ByteSeqs
  <2>4. Ascii(a) = <<>>
    BY <2>2, <2>3, AsciiNone
  <2>5. e \in Seq(Nat)
    BY <1>4, EncodedBytes, ByteSeqs
  <2>6. \A k \in 1..Len(e) : e[k] >= 128
    BY <1>4, <2>1, EncodedHigh
  <2> HIDE DEF e
  <2>7. Ascii(e) = <<>>
    BY <2>5, <2>6, AsciiNone
  <2> QED
    BY <1>4, <2>4, <2>7 DEF e
<1> QED
  BY <1>6, <1>7

\* If the rest of the bytes survives, so do the bytes.
LEMMA BytesSurviveStep ==
    ASSUME NEW bits \in {16, 32}, NEW bytes \in Seq(Byte), Len(bytes) >= 1,
           \A r \in Seq(Byte) : Len(r) < Len(bytes) => Survive(bits, r)
    PROVE  Survive(bits, bytes)
<1> DEFINE cp == DecodeUtf8(bytes, 1).cp
           next == DecodeUtf8(bytes, 1).next
<1>1. Len(bytes) \in Nat /\ 1 \in 1..Len(bytes)
  OBVIOUS
<1>2. cp \in Scalars /\ next \in 1 + 1..Len(bytes) + 1 /\ DecodeUtf8(bytes, 1) = [next |-> next, cp |-> cp]
  <2>1. cp \in Scalars /\ next \in 1 + 1..Len(bytes) + 1
    BY <1>1, DecodeFacts
  <2>2. DecodeUtf8(bytes, 1) = [next |-> next, cp |-> cp]
    BY Zenon DEF DecodeUtf8
  <2> QED
    BY <2>1, <2>2
<1> HIDE DEF cp, next
<1>3. next - 1 \in 0..Len(bytes)
  BY <1>1, <1>2
<1>4. PICK a \in Seq(Byte), r \in Seq(Byte) : Cuts(bytes, a, r) /\ Len(a) = next - 1
  <2> DEFINE n == next - 1
  <2> HIDE DEF n
  <2>1. n \in 0..Len(bytes)
    BY <1>3 DEF n
  <2> DEFINE B == Byte
  <2> HIDE DEF B
  <2>2. bytes \in Seq(B)
    BY DEF B
  <2>3. \E a \in Seq(B), r \in Seq(B) : Cuts(bytes, a, r) /\ Len(a) = n
    BY <2>1, <2>2, CutExists
  <2> QED
    BY Zenon, <2>3 DEF n, B
<1>5. /\ Len(a) \in Nat /\ Len(a) >= 1 /\ next = 1 + Len(a) /\ Len(r) < Len(bytes)
  <2>1. Len(bytes) = Len(a) + Len(r) /\ Len(r) \in Nat /\ Len(a) \in Nat
    BY <1>4, PartsOf
  <2> QED
    BY <1>1, <1>2, <1>4, <2>1
<1> DEFINE e == AppendUtf8(cp)
           u == AppendWide(bits, cp)
           w == Utf8ToWide(bits, r)
           s == WideToUtf8(bits, w)
<1>6. DecodeUtf8(bytes, 1).cp = cp /\ DecodeUtf8(bytes, 1).next = 1 + Len(a)
  BY <1>5 DEF cp, next
<1>7. Ascii(e) = Ascii(a)
  BY <1>4, <1>5, <1>6, FirstKept
<1>8. e \in Seq(Byte) /\ Len(e) \in 1..4
  BY <1>2, EncodedBytes
<1>9. u \in Seq(Nat) /\ Len(u) >= 1
  <2>1. u \in Seq(Nat) /\ Len(u) \in 1..2
    BY <1>2, WideUnits
  <2>2. \A n \in 1..2 : n >= 1
    OBVIOUS
  <2> HIDE DEF u
  <2> QED
    BY Zenon, <2>1, <2>2
<1>10. w \in Seq(Nat)
  BY ToWideIn
<1>11. s \in Seq(Byte)
  BY <1>10, ToUtf8In
<1>12. Utf8ToWide(bits, bytes) = u \o w
  <2>1. bytes = a \o r
    BY <1>4 DEF Cuts
  <2>2. DecodeUtf8(a \o r, 1).next = 1 + Len(a) /\ DecodeUtf8(a \o r, 1).cp = cp
    BY <1>6, <2>1
  <2>3. Utf8ToWide(bits, a \o r) = AppendWide(bits, DecodeUtf8(a \o r, 1).cp) \o w
    BY <1>5, <2>2, ToWideHead
  <2> QED
    BY Zenon, <2>1, <2>2, <2>3
<1>13. WideToUtf8(bits, u \o w) = e \o s
  <2>1. Char(bits, u \o w, 1) = cp /\ After(bits, u \o w, 1) = 1 + Len(u)
    BY <1>2, <1>10, WideRead
  <2> HIDE DEF u, w
  <2> QED
    BY <1>9, <1>10, <2>1, ToUtf8Head
<1>14. WellFormedUtf8(s) /\ (WellFormedUtf8(r) => s = r) /\ Ascii(s) = Ascii(r)
  BY <1>5 DEF Survive
<1>15. WellFormedUtf8(e \o s)
  <2>1. WellFormedAt(e \o s, 1, Len(e))
    BY <1>2, <1>11, Encoded
  <2> HIDE DEF e, s
  <2> QED
    BY <1>8, <1>11, <1>14, <2>1, WellFormedHead
<1> HIDE DEF e, u, w, s
<1>16. ASSUME WellFormedUtf8(bytes) PROVE e \o s = bytes
  <2>1. PICK n \in 1..4, b \in Seq(Byte), c \in Seq(Byte) :
            Cuts(bytes, b, c) /\ Len(b) = n /\ WellFormedAt(bytes, 1, n) /\ WellFormedUtf8(c)
    BY <1>16, WellFormedTail DEF Cuts
  <2>2. /\ DecodeUtf8(bytes, 1) = [next |-> 1 + n, cp |-> CodePoint(bytes, 1, n)]
        /\ AppendUtf8(CodePoint(bytes, 1, n)) = Piece(bytes, 1, n)
    BY <1>1, <2>1, Decoded
  <2>3. next = 1 + n /\ cp = CodePoint(bytes, 1, n)
    BY <2>2 DEF next, cp
  <2>4. Len(a) = Len(b)
    BY <1>5, <2>1, <2>3
  <2>5. a = b /\ r = c
    BY <1>4, <2>1, <2>4, CutOnce
  <2>6. e = a
    <3>1. e = Piece(bytes, 1, n)
      BY <2>2, <2>3 DEF e
    <3>2. Piece(a \o r, 1, Len(a)) = a
      BY PieceIs
    <3>3. bytes = a \o r
      BY <1>4 DEF Cuts
    <3> QED
      BY Zenon, <2>1, <2>5, <3>1, <3>2, <3>3
  <2>7. s = r
    BY <1>14, <2>1, <2>5
  <2> QED
    BY Zenon, <1>4, <2>6, <2>7 DEF Cuts
<1>17. Ascii(e \o s) = Ascii(bytes)
  <2>1. e \in Seq(Nat) /\ s \in Seq(Nat) /\ a \in Seq(Nat) /\ r \in Seq(Nat)
    BY <1>8, <1>11, ByteSeqs
  <2>2. Ascii(e \o s) = Ascii(e) \o Ascii(s) /\ Ascii(a \o r) = Ascii(a) \o Ascii(r)
    BY <2>1, AsciiConcat
  <2> QED
    BY Zenon, <1>4, <1>7, <1>14, <2>2 DEF Cuts
<1>18. WideToUtf8(bits, Utf8ToWide(bits, bytes)) = e \o s
  BY Zenon, <1>12, <1>13
<1> QED
  BY Zenon, <1>15, <1>16, <1>17, <1>18 DEF Survive

(***************************************************************************)
(* "A corrupt file still loads with a visible marker" (Utf.hpp:19-20): a   *)
(* wide setting read from any bytes, at both widths, is written as         *)
(* well-formed UTF-8, as the same bytes if they were well-formed, and with *)
(* the same plain characters: damage eats nothing beside it.               *)
(***************************************************************************)
THEOREM BytesSurviveAlways ==
    ASSUME NEW bytes \in Seq(Byte)
    PROVE  BytesSurvive(bytes)
<1>1. ASSUME NEW bits \in {16, 32} PROVE Survive(bits, bytes)
  <2> DEFINE T == {b \in Seq(Byte) : Survive(bits, b)}
  <2>1. ASSUME NEW b \in Seq(Byte), \A r \in Seq(Byte) : Len(r) < Len(b) => r \in T
        PROVE  b \in T
    <3>1. \A r \in Seq(Byte) : Len(r) < Len(b) => Survive(bits, r)
      BY <2>1
    <3>2. CASE Len(b) >= 1
      BY <3>1, <3>2, BytesSurviveStep
    <3>3. CASE ~(Len(b) >= 1)
      <4>1. b = <<>>
        BY <3>3
      <4> QED
        BY <4>1, BytesSurviveEmpty
    <3> QED
      BY <3>2, <3>3
  <2> HIDE DEF T
  <2>2. Seq(Byte) \subseteq T
    BY <2>1, LengthInduction
  <2> QED
    BY <2>2 DEF T
<1> QED
  BY <1>1 DEF BytesSurvive, Survive

-----------------------------------------------------------------------------
(* Wide texts *)

\* What the length of the first code point is, from where the next one starts.
LEMMA LengthIs ==
    \A n \in Nat : \A next : next = 1 + n => (next = 2 => n = 1) /\ (next = 3 => n = 2)
OBVIOUS

\* Short sequences, by their elements.
LEMMA ShortSeqs ==
    ASSUME NEW S, NEW s \in Seq(S)
    PROVE  (Len(s) = 1 => s = <<s[1]>>) /\ (Len(s) = 2 => s = <<s[1], s[2]>>)
OBVIOUS

\* The units of a wide text; of 16 bits, they are below 2^16.
Units(bits) == {u \in Nat : bits = 16 => u < 65536}

\* Units are natural numbers.
LEMMA UnitSeqs ==
    ASSUME NEW bits, NEW s \in Seq(Units(bits))
    PROVE  s \in Seq(Nat)
<1>1. \A u \in Units(bits) : u \in Nat
  BY DEF Units
<1> QED
  BY <1>1

\* The first code point of a wide text: of a pair, or of one unit.
LEMMA FirstPair ==
    ASSUME NEW bits, NEW wide \in Seq(Nat), Len(wide) >= 1, IsPair(bits, wide, 1)
    PROVE  /\ bits = 16 /\ Len(wide) >= 2 /\ After(bits, wide, 1) = 3
           /\ wide[1] \in Nat \cap HighSurrogates /\ wide[2] \in Nat \cap LowSurrogates
           /\ Char(bits, wide, 1) = FromPair(wide[1], wide[2])
<1> DEFINE high == wide[1]
           low == wide[2]
<1>1. 1 + 1 = 2 /\ 1 + 2 = 3
  OBVIOUS
<1>2. bits = 16 /\ 1 < Len(wide) /\ high \in HighSurrogates /\ low \in LowSurrogates
  BY Zenon, <1>1 DEF IsPair
<1>3. Len(wide) \in Nat /\ Len(wide) >= 2
  BY <1>2
<1>4. 1 \in 1..Len(wide) /\ 2 \in 1..Len(wide)
  BY <1>3
<1>5. high \in Nat /\ low \in Nat
  BY <1>4, ElementIn
<1>6. Char(bits, wide, 1) = FromPair(high, low) /\ After(bits, wide, 1) = 3
  BY Zenon, <1>1 DEF Char, After
<1> QED
  BY Zenon, <1>2, <1>3, <1>5, <1>6

\* A unit of its own is its code point, or U+FFFD in its place.
LEMMA FirstUnit ==
    ASSUME NEW bits, NEW wide \in Seq(Nat), Len(wide) >= 1, ~IsPair(bits, wide, 1)
    PROVE  /\ After(bits, wide, 1) = 2 /\ wide[1] \in Nat
           /\ \/ Char(bits, wide, 1) = Replacement /\ (wide[1] \in Surrogates \/ wide[1] > MaxCodePoint)
              \/ Char(bits, wide, 1) = wide[1] /\ wide[1] \notin Surrogates
<1>1. 1 + 1 = 2 /\ 1 \in 1..Len(wide)
  OBVIOUS
<1>2. wide[1] \in Nat
  BY <1>1, ElementIn
<1> QED
  BY Zenon, <1>1, <1>2 DEF Char, After

\* The first code point is plain if its unit is, and is kept.
LEMMA FirstUnitKept ==
    ASSUME NEW bits \in {16, 32}, NEW p \in Seq(Nat), NEW r \in Seq(Nat),
           NEW wide, Cuts(wide, p, r), Len(p) >= 1, After(bits, wide, 1) = 1 + Len(p)
    PROVE  Ascii(AppendUtf8(Char(bits, wide, 1))) = Ascii(p)
<1> DEFINE cp == Char(bits, wide, 1)
           e == AppendUtf8(cp)
           L == Len(p)
<1>1. /\ wide \in Seq(Nat) /\ Len(wide) = L + Len(r) /\ L \in Nat /\ Len(r) \in Nat
      /\ \A i \in 1..L : wide[i] = p[i]
  BY PartsOf
<1>2. Len(wide) >= 1 /\ 1 \in 1..Len(wide) /\ 1 \in 1..L
  BY <1>1
<1>3. cp \in Scalars
  BY <1>1, <1>2, CharIsScalar
<1> HIDE DEF cp, e
<1>4. ASSUME cp >= 128, \A k \in 1..L : p[k] >= 128 PROVE Ascii(e) = Ascii(p)
  <2>1. e \in Seq(Nat) /\ \A k \in 1..Len(e) : e[k] >= 128
    BY <1>3, <1>4, EncodedBytes, EncodedHigh, ByteSeqs DEF e
  <2> QED
    BY <1>4, <2>1, AsciiNone
<1>5. CASE IsPair(bits, wide, 1)
  <2> DEFINE high == wide[1]
             low == wide[2]
  <2>1. /\ After(bits, wide, 1) = 3
        /\ high \in Nat \cap HighSurrogates /\ low \in Nat \cap LowSurrogates
        /\ cp = FromPair(high, low)
    BY Zenon, <1>1, <1>2, <1>5, FirstPair DEF cp
  <2>2. L = 2
    BY Zenon, <1>1, <2>1, LengthIs
  <2>3. p[1] = high /\ p[2] = low
    BY <1>1, <2>2
  <2> HIDE DEF high, low
  <2>4. cp >= 128
    <3>1. FromPair(high, low) \in Nat /\ 65536 <= FromPair(high, low)
      BY <2>1, PairSpells, SurrogateRanges
    <3> QED
      BY <2>1, <3>1
  <2>5. \A k \in 1..L : p[k] >= 128
    <3>1. \A k \in 1..L : k = 1 \/ k = 2
      BY <2>2
    <3>2. high >= 128 /\ low >= 128
      BY <2>1, SurrogateRanges
    <3> QED
      BY Zenon, <2>3, <3>1, <3>2
  <2> QED
    BY <1>4, <2>4, <2>5 DEF e, cp
<1>6. CASE ~IsPair(bits, wide, 1)
  <2> DEFINE u == wide[1]
  <2>1. /\ After(bits, wide, 1) = 2 /\ u \in Nat
        /\ \/ cp = Replacement /\ (u \in Surrogates \/ u > MaxCodePoint)
           \/ cp = u /\ u \notin Surrogates
    BY <1>1, <1>2, <1>6, FirstUnit DEF cp
  <2>2. L = 1
    BY Zenon, <1>1, <2>1, LengthIs
  <2>3. p[1] = u
    BY <1>1, <2>2
  <2> HIDE DEF u
  <2>4. CASE u < 128
    <3>1. ~(u \in Surrogates) /\ ~(u > MaxCodePoint)
      BY <2>1, <2>4, SurrogateRanges, LastIs
    <3>2. cp = u
      BY <2>1, <3>1
    <3>3. e = <<u>>
      BY <2>1, <2>4, <3>2, Encoding1 DEF e
    <3>4. p = <<u>>
      BY Zenon, <2>2, <2>3, ShortSeqs
    <3> QED
      BY <3>3, <3>4 DEF e, cp
  <2>5. CASE ~(u < 128)
    <3>1. u >= 128
      BY <2>1, <2>5
    <3>2. cp >= 128
      BY <2>1, <3>1, ReplacementIs
    <3>3. \A k \in 1..L : p[k] >= 128
      BY <2>2, <2>3, <3>1
    <3> QED
      BY <1>4, <3>2, <3>3 DEF e, cp
  <2> QED
    BY <2>4, <2>5
<1> QED
  BY <1>5, <1>6

\* A pair is written as the pair it was read from.
LEMMA PairWritten ==
    ASSUME NEW high \in Nat \cap HighSurrogates, NEW low \in Nat \cap LowSurrogates
    PROVE  AppendWide(16, FromPair(high, low)) = <<high, low>>
<1> DEFINE cp == FromPair(high, low)
           x == 55296 + ((cp - 65536) \div 1024)
           y == 56320 + ((cp - 65536) % 1024)
<1>1. /\ high \in Nat /\ 55296 <= high /\ high <= 56319
      /\ low \in Nat /\ 56320 <= low /\ low <= 57343
  BY SurrogateRanges
<1>2. cp \in Nat /\ 65536 <= cp
  BY <1>1, PairSpells
<1>3. high = x /\ low = y
  BY <1>1, PairBack
<1> HIDE DEF cp
<1>4. ~(16 = 32 \/ cp < 65536)
  BY SMT, <1>2
<1>5. AppendWide(16, cp) = <<x, y>>
  BY SMT, <1>4 DEF AppendWide
<1> HIDE DEF x, y
<1> QED
  BY Zenon, <1>3, <1>5 DEF cp

\* A first code point that is a character has the units it was read from.
LEMMA FirstUnitsBack ==
    ASSUME NEW bits \in {16, 32}, NEW p \in Seq(Nat), NEW r \in Seq(Nat),
           NEW wide, Cuts(wide, p, r), Len(p) >= 1, After(bits, wide, 1) = 1 + Len(p),
           wide[1] \in Units(bits), IsCharacter(bits, wide, 1)
    PROVE  AppendWide(bits, Char(bits, wide, 1)) = p
<1> DEFINE cp == Char(bits, wide, 1)
           L == Len(p)
<1>1. /\ wide \in Seq(Nat) /\ Len(wide) = L + Len(r) /\ L \in Nat /\ Len(r) \in Nat
      /\ \A i \in 1..L : wide[i] = p[i]
  BY PartsOf
<1>2. Len(wide) >= 1 /\ 1 \in 1..Len(wide) /\ 1 \in 1..L
  BY <1>1
<1> HIDE DEF cp
<1>3. CASE IsPair(bits, wide, 1)
  <2> DEFINE high == wide[1]
             low == wide[2]
  <2>1. /\ After(bits, wide, 1) = 3 /\ bits = 16
        /\ high \in Nat \cap HighSurrogates /\ low \in Nat \cap LowSurrogates
        /\ cp = FromPair(high, low)
    BY Zenon, <1>1, <1>2, <1>3, FirstPair DEF cp
  <2>2. L = 2
    BY Zenon, <1>1, <2>1, LengthIs
  <2>3. p[1] = high /\ p[2] = low
    BY <1>1, <2>2
  <2> HIDE DEF high, low
  <2>4. p = <<high, low>>
    BY Zenon, <2>2, <2>3, ShortSeqs
  <2>5. AppendWide(16, FromPair(high, low)) = <<high, low>>
    BY Zenon, <2>1, PairWritten
  <2> QED
    BY Zenon, <2>1, <2>4, <2>5 DEF cp
<1>4. CASE ~IsPair(bits, wide, 1)
  <2> DEFINE u == wide[1]
  <2>1. /\ After(bits, wide, 1) = 2 /\ u \in Nat
        /\ \/ cp = Replacement /\ (u \in Surrogates \/ u > MaxCodePoint)
           \/ cp = u /\ u \notin Surrogates
    BY <1>1, <1>2, <1>4, FirstUnit DEF cp
  <2>2. L = 1
    BY Zenon, <1>1, <2>1, LengthIs
  <2>3. p[1] = u
    BY <1>1, <2>2
  <2>4. u \notin Surrogates /\ u <= MaxCodePoint
    <3>1. ~(1 > 1)
      OBVIOUS
    <3> QED
      BY Zenon, <1>4, <3>1 DEF IsCharacter
  <2>5. bits = 32 \/ u < 65536
    BY SMT DEF Units
  <2> HIDE DEF u
  <2>6. cp = u
    <3>1. ~(u > MaxCodePoint)
      BY <2>1, <2>4, LastIs
    <3> QED
      BY <2>1, <2>4, <3>1
  <2>7. AppendWide(bits, cp) = <<u>>
    BY <2>5, <2>6 DEF AppendWide
  <2>8. p = <<u>>
    BY Zenon, <2>2, <2>3, ShortSeqs
  <2> QED
    BY <2>7, <2>8 DEF cp
<1> QED
  BY <1>3, <1>4

\* If every unit of a text is part of a character, so is every unit after its
\* first code point.
LEMMA CharactersRest ==
    ASSUME NEW bits \in {16, 32}, NEW p \in Seq(Nat), NEW r \in Seq(Nat),
           NEW wide, Cuts(wide, p, r), Len(p) >= 1, After(bits, wide, 1) = 1 + Len(p),
           \A i \in DOMAIN wide : IsCharacter(bits, wide, i)
    PROVE  \A i \in DOMAIN r : IsCharacter(bits, r, i)
<1> DEFINE L == Len(p)
           R == Len(r)
<1>1. /\ wide \in Seq(Nat) /\ Len(wide) = L + R /\ L \in Nat /\ R \in Nat
      /\ \A i \in 1..R : wide[L + i] = r[i]
  BY PartsOf
<1>2. DOMAIN wide = 1..L + R /\ DOMAIN r = 1..R
  BY <1>1
<1>3. \A i \in 1..R : IsPair(bits, wide, L + i) <=> IsPair(bits, r, i)
  BY CharShifts DEF Cuts
<1>4. ~IsPair(bits, wide, L)
  <2>1. CASE IsPair(bits, wide, 1)
    <3>1. Len(wide) >= 1
      BY <1>1
    <3>2. /\ After(bits, wide, 1) = 3
          /\ wide[2] \in Nat \cap LowSurrogates
      BY Zenon, <1>1, <2>1, <3>1, FirstPair
    <3>3. L = 2
      BY Zenon, <1>1, <3>2, LengthIs
    <3> DEFINE low == wide[2]
    <3> HIDE DEF low
    <3>4. low \notin HighSurrogates
      BY <3>2, SurrogateRanges DEF low
    <3> QED
      BY <3>3, <3>4 DEF IsPair, low
  <2>2. CASE ~IsPair(bits, wide, 1)
    <3>1. After(bits, wide, 1) = 2
      BY <1>1, <2>2, FirstUnit
    <3>2. L = 1
      BY Zenon, <1>1, <3>1, LengthIs
    <3> QED
      BY <2>2, <3>2
  <2> QED
    BY <2>1, <2>2
<1> SUFFICES ASSUME NEW i \in 1..R PROVE IsCharacter(bits, r, i)
  BY <1>2
<1>5. /\ L + i \in 1..L + R /\ L + i > 1 /\ (i = 1 => (L + i) - 1 = L)
      /\ (i # 1 => i - 1 \in 1..R /\ L + (i - 1) = (L + i) - 1 /\ i > 1)
  <2>1. L \in Nat /\ R \in Nat /\ L >= 1
    BY <1>1
  <2> HIDE DEF L, R
  <2> QED
    BY <2>1
<1>6. IsCharacter(bits, wide, L + i)
  BY <1>2, <1>5
<1>7. wide[L + i] = r[i]
  BY <1>1
<1> HIDE DEF L, R
<1>8. \/ r[i] \notin Surrogates /\ r[i] <= MaxCodePoint
      \/ IsPair(bits, wide, L + i)
      \/ IsPair(bits, wide, (L + i) - 1)
  BY Zenon, <1>6, <1>7 DEF IsCharacter
<1>9. IsPair(bits, wide, (L + i) - 1) => i > 1 /\ IsPair(bits, r, i - 1)
  BY Zenon, <1>3, <1>4, <1>5
<1> QED
  BY Zenon, <1>3, <1>8, <1>9 DEF IsCharacter

\* The empty wide text survives.
LEMMA UnitsSurviveEmpty ==
    ASSUME NEW bits \in {16, 32}
    PROVE  UnitsSurvive(bits, <<>>)
BY Zenon, ToWideEmpty, ToUtf8Empty, WellFormedEmpty DEF UnitsSurvive

\* If the rest of the units survives, so do the units.
LEMMA UnitsSurviveStep ==
    ASSUME NEW bits \in {16, 32}, NEW wide \in Seq(Units(bits)), Len(wide) >= 1,
           \A r \in Seq(Units(bits)) : Len(r) < Len(wide) => UnitsSurvive(bits, r)
    PROVE  UnitsSurvive(bits, wide)
<1> DEFINE cp == Char(bits, wide, 1)
           next == After(bits, wide, 1)
<1>1. wide \in Seq(Nat) /\ wide[1] \in Units(bits)
  <2>1. 1 \in 1..Len(wide)
    OBVIOUS
  <2> QED
    BY <2>1, UnitSeqs, ElementIn
<1>2. Len(wide) \in Nat /\ 1 \in 1..Len(wide)
  OBVIOUS
<1>3. cp \in Scalars /\ next \in 1 + 1..Len(wide) + 1
  BY <1>1, <1>2, CharIsScalar
<1> HIDE DEF cp, next
<1>4. next - 1 \in 0..Len(wide)
  BY <1>2, <1>3
<1>5. PICK p \in Seq(Units(bits)), r \in Seq(Units(bits)) : Cuts(wide, p, r) /\ Len(p) = next - 1
  <2> DEFINE n == next - 1
  <2> HIDE DEF n
  <2>1. n \in 0..Len(wide)
    BY <1>4 DEF n
  <2> DEFINE U == Units(bits)
  <2> HIDE DEF U
  <2>2. wide \in Seq(U)
    BY DEF U
  <2>3. \E p \in Seq(U), r \in Seq(U) : Cuts(wide, p, r) /\ Len(p) = n
    BY <2>1, <2>2, CutExists
  <2> QED
    BY Zenon, <2>3 DEF n, U
<1>6. Len(p) \in Nat /\ Len(p) >= 1 /\ next = 1 + Len(p) /\ Len(r) < Len(wide)
  <2>1. Len(wide) = Len(p) + Len(r) /\ Len(r) \in Nat /\ Len(p) \in Nat
    BY <1>5, PartsOf
  <2> QED
    BY <1>2, <1>3, <1>5, <2>1
<1>7. p \in Seq(Nat) /\ r \in Seq(Nat)
  BY UnitSeqs
<1>8. After(bits, wide, 1) = 1 + Len(p)
  BY <1>6 DEF next
<1> DEFINE e == AppendUtf8(cp)
           s == WideToUtf8(bits, r)
<1>9. e \in Seq(Byte) /\ Len(e) \in 1..4
  BY <1>3, EncodedBytes
<1>10. s \in Seq(Byte)
  BY <1>7, ToUtf8In
<1>11. WideToUtf8(bits, wide) = e \o s
  <2>1. wide = p \o r
    BY <1>5 DEF Cuts
  <2>2. After(bits, p \o r, 1) = 1 + Len(p)
    BY <1>8, <2>1
  <2>3. WideToUtf8(bits, p \o r) = AppendUtf8(Char(bits, p \o r, 1)) \o s
    BY <1>6, <1>7, <2>2, ToUtf8Head
  <2> QED
    BY Zenon, <2>1, <2>3 DEF cp
<1>12. UnitsSurvive(bits, r)
  BY <1>6
<1>13. /\ WellFormedUtf8(s) /\ Ascii(s) = Ascii(r)
       /\ (\A i \in DOMAIN r : IsCharacter(bits, r, i)) => Utf8ToWide(bits, s) = r
  BY Zenon, <1>12 DEF UnitsSurvive
<1>14. WellFormedAt(e \o s, 1, Len(e)) /\ DecodeUtf8(e \o s, 1) = [next |-> 1 + Len(e), cp |-> cp]
  BY <1>3, <1>10, Encoded
<1> HIDE DEF e, s
<1>15. WellFormedUtf8(e \o s)
  BY <1>9, <1>10, <1>13, <1>14, WellFormedHead
<1>16. Ascii(e \o s) = Ascii(wide)
  <2>1. Ascii(e) = Ascii(p)
    BY <1>5, <1>6, <1>7, <1>8, FirstUnitKept DEF e, cp
  <2>2. e \in Seq(Nat) /\ s \in Seq(Nat)
    BY <1>9, <1>10, ByteSeqs
  <2>3. Ascii(e \o s) = Ascii(e) \o Ascii(s) /\ Ascii(p \o r) = Ascii(p) \o Ascii(r)
    BY <1>7, <2>2, AsciiConcat
  <2> QED
    BY Zenon, <1>5, <1>13, <2>1, <2>3 DEF Cuts
<1>17. ASSUME \A i \in DOMAIN wide : IsCharacter(bits, wide, i)
       PROVE  Utf8ToWide(bits, e \o s) = wide
  <2>1. \A i \in DOMAIN r : IsCharacter(bits, r, i)
    BY <1>5, <1>6, <1>7, <1>8, <1>17, CharactersRest
  <2>2. IsCharacter(bits, wide, 1)
    <3>1. 1 \in DOMAIN wide
      BY <1>2
    <3> QED
      BY <1>17, <3>1
  <2>3. AppendWide(bits, cp) = p
    BY <1>1, <1>5, <1>6, <1>7, <1>8, <2>2, FirstUnitsBack DEF cp
  <2>4. DecodeUtf8(e \o s, 1).next = 1 + Len(e) /\ DecodeUtf8(e \o s, 1).cp = cp
    BY <1>14
  <2>5. Len(e) >= 1
    <3>1. \A n \in 1..4 : n >= 1
      OBVIOUS
    <3> QED
      BY Zenon, <1>9, <3>1
  <2>6. Utf8ToWide(bits, e \o s) = AppendWide(bits, DecodeUtf8(e \o s, 1).cp) \o Utf8ToWide(bits, s)
    BY <1>9, <1>10, <2>4, <2>5, ToWideHead
  <2> QED
    BY Zenon, <1>5, <1>13, <2>1, <2>3, <2>4, <2>6 DEF Cuts
<1> QED
  BY Zenon, <1>11, <1>15, <1>16, <1>17 DEF UnitsSurvive

(***************************************************************************)
(* Whatever units a wide setting has, 16 or 32 bits wide, WideToUtf8       *)
(* writes well-formed UTF-8 with the same plain characters, and Utf8ToWide *)
(* reads it back as those units, unless one of them was no character       *)
(* (Utf.cpp:155-194, README.md:276-285).                                   *)
(***************************************************************************)
THEOREM UnitsSurviveAlways ==
    ASSUME NEW bits \in {16, 32}, NEW wide \in Seq(Units(bits))
    PROVE  UnitsSurvive(bits, wide)
<1> DEFINE U == Units(bits)
           T == {w \in Seq(U) : UnitsSurvive(bits, w)}
<1>1. ASSUME NEW w \in Seq(U), \A r \in Seq(U) : Len(r) < Len(w) => r \in T
      PROVE  w \in T
  <2>1. \A r \in Seq(U) : Len(r) < Len(w) => UnitsSurvive(bits, r)
    BY <1>1
  <2>2. CASE Len(w) >= 1
    BY <2>1, <2>2, UnitsSurviveStep
  <2>3. CASE ~(Len(w) >= 1)
    <3>1. w = <<>>
      BY <2>3
    <3> QED
      BY <3>1, UnitsSurviveEmpty
  <2> QED
    BY <2>2, <2>3
<1> HIDE DEF T, U
<1>2. Seq(U) \subseteq T
  BY <1>1, LengthInduction
<1> QED
  BY <1>2 DEF T, U
===============================================================================
