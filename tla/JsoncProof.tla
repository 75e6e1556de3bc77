------------------------------ MODULE JsoncProof ------------------------------
(***************************************************************************)
(* The scanner against the JSON library's lexer, for texts of every        *)
(* length: that both know the same commas for trailing ones, and that what *)
(* a save writes of a text setting comes through the scanner as it is and  *)
(* is read back by the library.                                            *)
(***************************************************************************)
EXTENDS Jsonc, Recursion, SequenceTheorems

-----------------------------------------------------------------------------
(* The scanner *)

Positions == Nat \ {0}

\* A function that follows jumps forward through a sequence.
Follows(f, V, L, base, step, jump) ==
    /\ f \in [Positions -> V]
    /\ \A i \in Positions : f[i] = IF i > L THEN base ELSE step[i][f[jump[i]]]

\* There is a function that follows given jumps.
LEMMA FollowExists ==
    ASSUME NEW V, NEW L \in Nat, NEW base \in V, NEW step \in [1..L -> [V -> V]],
           NEW jump \in [1..L -> Positions], \A i \in 1..L : jump[i] > i
    PROVE  \E f : Follows(f, V, L, base, step, jump)
<1> DEFINE P == Nat \ {0}
           ahead == [i \in 1..L |-> [f \in [P -> V] |-> step[i][f[jump[i]]]]]
<1>1. ahead \in [1..L -> [[P -> V] -> V]]
  <2>1. ASSUME NEW i \in 1..L, NEW f \in [P -> V] PROVE step[i][f[jump[i]]] \in V
    BY DEF Positions
  <2> QED
    BY <2>1
<1>2. LooksAhead(V, L, ahead)
  BY DEF LooksAhead, Positions
<1>3. PICK f : IsBackward(f, V, L, base, ahead)
  <2> HIDE DEF ahead
  <2> QED
    BY <1>1, <1>2, BackwardExists
<1>4. f \in [P -> V] /\ \A i \in P : f[i] = IF i > L THEN base ELSE ahead[i][f]
  BY <1>3 DEF IsBackward
<1>5. ASSUME NEW i \in P PROVE f[i] = IF i > L THEN base ELSE step[i][f[jump[i]]]
  <2>1. CASE i > L
    BY <1>4, <2>1
  <2>2. CASE ~(i > L)
    <3>1. i \in 1..L
      BY <2>2
    <3> QED
      BY <1>4, <2>2, <3>1
  <2> QED
    BY <2>1, <2>2
<1>6. Follows(f, V, L, base, step, jump)
  BY <1>4, <1>5 DEF Follows, Positions
<1> QED
  BY <1>6

\* A set of positions has a first one.
LEMMA FirstExists ==
    ASSUME NEW P, P \subseteq Nat, P # {}
    PROVE  \E k \in P : \A j \in P : k <= j
<1> DEFINE S == {n \in Nat : \A k \in 0..n : k \notin P}
<1>1. SUFFICES ASSUME \A k \in P : \E j \in P : j < k PROVE FALSE
  OBVIOUS
<1>2. 0 \in S
  BY <1>1
<1>3. ASSUME NEW n \in Nat, n \in S PROVE n + 1 \in S
  <2>1. \A j \in P : ~(j < n + 1)
    BY <1>3
  <2>2. n + 1 \notin P
    BY Zenon, <1>1, <2>1
  <2>3. \A k \in 0..n + 1 : k \in 0..n \/ k = n + 1
    OBVIOUS
  <2> QED
    BY <1>3, <2>2, <2>3
<1> HIDE DEF S
<1>4. Nat \subseteq S
  BY <1>2, <1>3, NatSetInduction
<1>5. ASSUME NEW k \in Nat PROVE k \notin P
  <2>1. k \in S /\ k \in 0..k
    BY <1>4
  <2> QED
    BY <2>1 DEF S
<1> QED
  BY <1>5

\* The first position from k to m that is in Q.
FirstAt(t, Q, m, k) == FirstOf({j \in k..m : j \in Q}, t)

\* The search for it goes on by one position.
LEMMA FirstSteps ==
    ASSUME NEW t, Len(t) \in Nat, NEW Q, NEW m \in Nat, NEW i \in Nat
    PROVE  /\ i > m => FirstAt(t, Q, m, i) = Len(t) + 1
           /\ i <= m /\ i \in Q => FirstAt(t, Q, m, i) = i
           /\ i <= m /\ i \notin Q => FirstAt(t, Q, m, i) = FirstAt(t, Q, m, i + 1)
<1> USE DEF FirstAt
<1> DEFINE P(k) == {j \in k..m : j \in Q}
<1>1. CASE i > m
  <2>1. P(i) = {}
    BY <1>1
  <2> QED
    BY <1>1, <2>1 DEF FirstOf, Past
<1>2. CASE ~(i > m) /\ i \in Q
  <2>1. i \in P(i) /\ \A j \in P(i) : i <= j
    BY <1>2
  <2>2. \A k \in P(i) : (\A j \in P(i) : k <= j) => k = i
    BY <2>1
  <2> HIDE DEF P
  <2>3. Min(P(i)) = i
    BY <2>1, <2>2 DEF Min
  <2> USE DEF P
  <2> QED
    BY <1>2, <2>1, <2>3 DEF FirstOf
<1>3. CASE ~(i > m) /\ i \notin Q
  <2>1. P(i) = P(i + 1)
    BY <1>3
  <2> QED
    BY <1>3, <2>1
<1> QED
  BY <1>1, <1>2, <1>3

\* It is one of them, or past the end.
LEMMA FirstIn ==
    ASSUME NEW t, Len(t) \in Nat, NEW P, P \subseteq Nat
    PROVE  FirstOf(P, t) \in P \cup {Len(t) + 1}
<1>1. CASE P = {}
  BY <1>1 DEF FirstOf, Past
<1>2. CASE P # {}
  <2>1. Min(P) \in P
    BY <1>2, FirstExists DEF Min
  <2> QED
    BY <1>2, <2>1 DEF FirstOf
<1> QED
  BY <1>1, <1>2

\* Where the line comment and the block comment end that are open at i.  A block
\* comment's two last characters come before its end.
LineEnd(t, i) == FirstOf({j \in i..Len(t) : t[j] = "\n"}, t)
BlockEnd(t, i) == FirstOf({j \in i..Len(t) + 1 : t[j - 2] = "*" /\ t[j - 1] = "/"}, t)

\* The search for either goes on by one position.
LEMMA CommentSteps ==
    ASSUME NEW t, Len(t) \in Nat, NEW i \in Nat
    PROVE  /\ i > Len(t) => LineEnd(t, i) = Len(t) + 1
           /\ i <= Len(t) /\ t[i] = "\n" => LineEnd(t, i) = i
           /\ i <= Len(t) /\ t[i] # "\n" => LineEnd(t, i) = LineEnd(t, i + 1)
           /\ i > Len(t) + 1 => BlockEnd(t, i) = Len(t) + 1
           /\ i <= Len(t) + 1 /\ t[i - 2] = "*" /\ t[i - 1] = "/" => BlockEnd(t, i) = i
           /\ i <= Len(t) + 1 /\ ~(t[i - 2] = "*" /\ t[i - 1] = "/") =>
                    BlockEnd(t, i) = BlockEnd(t, i + 1)
<1> DEFINE n == Len(t)
           Q == {j \in Nat : t[j] = "\n"}
           R == {j \in Nat : t[j - 2] = "*" /\ t[j - 1] = "/"}
           First(k, m, S) == FirstAt(t, S, m, k)
<1>1. \A k \in Nat : LineEnd(t, k) = First(k, n, Q)
  <2>1. ASSUME NEW k \in Nat PROVE {j \in k..n : t[j] = "\n"} = {j \in k..n : j \in Q}
    OBVIOUS
  <2> QED
    BY <2>1 DEF LineEnd, FirstAt
<1>2. \A k \in Nat : BlockEnd(t, k) = First(k, n + 1, R)
  <2>1. ASSUME NEW k \in Nat
        PROVE  {j \in k..n + 1 : t[j - 2] = "*" /\ t[j - 1] = "/"} = {j \in k..n + 1 : j \in R}
    OBVIOUS
  <2> QED
    BY <2>1 DEF BlockEnd, FirstAt
<1>3. ASSUME NEW S, NEW m \in Nat
      PROVE  /\ i > m => First(i, m, S) = n + 1
             /\ i <= m /\ i \in S => First(i, m, S) = i
             /\ i <= m /\ i \notin S => First(i, m, S) = First(i + 1, m, S)
  BY FirstSteps
<1>4. n \in Nat /\ n + 1 \in Nat
  OBVIOUS
<1>5. i \in Q <=> t[i] = "\n"
  OBVIOUS
<1>6. i \in R <=> t[i - 2] = "*" /\ t[i - 1] = "/"
  OBVIOUS
<1> HIDE DEF Q, R, First
<1>7. /\ i > n => First(i, n, Q) = n + 1
      /\ i <= n /\ i \in Q => First(i, n, Q) = i
      /\ i <= n /\ i \notin Q => First(i, n, Q) = First(i + 1, n, Q)
  BY <1>3, <1>4, Zenon
<1>8. /\ i > n + 1 => First(i, n + 1, R) = n + 1
      /\ i <= n + 1 /\ i \in R => First(i, n + 1, R) = i
      /\ i <= n + 1 /\ i \notin R => First(i, n + 1, R) = First(i + 1, n + 1, R)
  BY <1>3, <1>4, Zenon
<1> QED
  BY <1>1, <1>2, <1>5, <1>6, <1>7, <1>8

\* A comment ends after its start, within the text or just past it.
LEMMA CommentsEnd ==
    ASSUME NEW t, Len(t) \in Nat, NEW i \in 1..Len(t)
    PROVE  /\ LineEnd(t, i) \in i..Len(t) + 1
           /\ StartsComment(t, i) => SkipComment(t, i) \in i + 1..Len(t) + 1
           /\ StartsLineComment(t, i) => SkipComment(t, i) = LineEnd(t, i + 2)
           /\ ~StartsLineComment(t, i) => SkipComment(t, i) = BlockEnd(t, i + 4)
<1>1. ASSUME NEW k \in Nat
      PROVE  /\ LineEnd(t, k) \in {j \in k..Len(t) : t[j] = "\n"} \cup {Len(t) + 1}
             /\ BlockEnd(t, k) \in {j \in k..Len(t) + 1 : t[j - 2] = "*" /\ t[j - 1] = "/"} \cup {Len(t) + 1}
  <2>1. {j \in k..Len(t) : t[j] = "\n"} \subseteq Nat
    OBVIOUS
  <2>2. {j \in k..Len(t) + 1 : t[j - 2] = "*" /\ t[j - 1] = "/"} \subseteq Nat
    OBVIOUS
  <2> QED
    BY Zenon, <2>1, <2>2, FirstIn DEF LineEnd, BlockEnd
<1>2. \A k \in Nat : LineEnd(t, k) \in (k..Len(t)) \cup {Len(t) + 1}
                   /\ BlockEnd(t, k) \in (k..Len(t) + 1) \cup {Len(t) + 1}
  BY <1>1
<1>3. SkipComment(t, i) = IF StartsLineComment(t, i) THEN LineEnd(t, i + 2) ELSE BlockEnd(t, i + 4)
  BY DEF SkipComment, LineEnd, BlockEnd, Past
<1> QED
  BY <1>2, <1>3, SMTT(30)

-----------------------------------------------------------------------------
(* The end of a string literal *)

\* As literals, these two are beyond one of the provers.
Quote == "\""
Backslash == "\\"

\* The search for the end of a string literal.
IsSkip(f, t) ==
    f = [j \in Nat \ {0} |->
            IF j > Len(t) THEN Past(t)
            ELSE IF t[j] = Backslash THEN f[j + 2]
            ELSE IF t[j] = Quote THEN j + 1
            ELSE f[j + 1]]
Skip(t) == CHOOSE f : IsSkip(f, t)

\* SkipString is that search, begun past the opening quote.
LEMMA SkipStringIs ==
    ASSUME NEW t, NEW i
    PROVE  SkipString(t, i) = Skip(t)[i + 1]
BY Zenon DEF SkipString, Skip, IsSkip, Quote, Backslash

\* The search for the end of a string goes on by a character, or by an escape,
\* and leads forward.
LEMMA SkipSteps ==
    ASSUME NEW t, Len(t) \in Nat
    PROVE  \A i \in Positions :
                /\ i > Len(t) => Skip(t)[i] = Len(t) + 1
                /\ i <= Len(t) /\ t[i] = Backslash => Skip(t)[i] = Skip(t)[i + 2]
                /\ i <= Len(t) /\ t[i] # Backslash /\ t[i] = Quote => Skip(t)[i] = i + 1
                /\ i <= Len(t) /\ t[i] # Backslash /\ t[i] # Quote => Skip(t)[i] = Skip(t)[i + 1]
                /\ Skip(t)[i] \in 1..Len(t) + 1
                /\ i <= Len(t) + 1 => Skip(t)[i] >= i
<1> DEFINE n == Len(t)
           step == [i \in 1..n |-> [v \in Nat |->
                        IF t[i] # Backslash /\ t[i] = Quote THEN i + 1 ELSE v]]
           jump == [i \in 1..n |-> IF t[i] = Backslash THEN i + 2 ELSE i + 1]
<1>1. n + 1 \in Nat /\ step \in [1..n -> [Nat -> Nat]]
  OBVIOUS
<1>2. jump \in [1..n -> Positions] /\ \A i \in 1..n : jump[i] > i
  BY DEF Positions
<1>3. PICK f : Follows(f, Nat, n, n + 1, step, jump)
  <2> HIDE DEF step, jump
  <2> QED
    BY <1>1, <1>2, FollowExists
<1>4. IsSkip(f, t)
  <2>1. f \in [Positions -> Nat]
        /\ \A i \in Positions : f[i] = IF i > n THEN n + 1 ELSE step[i][f[jump[i]]]
    BY <1>3 DEF Follows
  <2>2. ASSUME NEW i \in Positions
        PROVE  f[i] = IF i > n THEN n + 1
                      ELSE IF t[i] = Backslash THEN f[i + 2]
                      ELSE IF t[i] = Quote THEN i + 1
                      ELSE f[i + 1]
    <3>1. CASE i > n
      BY <2>1, <3>1
    <3>2. CASE ~(i > n)
      <4>1. i \in 1..n
        BY <3>2 DEF Positions
      <4>2. f[i + 1] \in Nat /\ f[i + 2] \in Nat
        BY <2>1 DEF Positions
      <4> QED
        BY <2>1, <3>2, <4>1, <4>2
    <3> QED
      BY <3>1, <3>2
  <2> QED
    BY <2>1, <2>2 DEF IsSkip, Past, Positions
<1>5. IsSkip(Skip(t), t)
  BY <1>4, Zenon DEF Skip
<1> DEFINE g == Skip(t)
<1>6. ASSUME NEW i \in Positions
      PROVE  /\ i > n => g[i] = n + 1
             /\ i <= n /\ t[i] = Backslash => g[i] = g[i + 2]
             /\ i <= n /\ t[i] # Backslash /\ t[i] = Quote => g[i] = i + 1
             /\ i <= n /\ t[i] # Backslash /\ t[i] # Quote => g[i] = g[i + 1]
  <2>1. g[i] = IF i > n THEN n + 1
               ELSE IF t[i] = Backslash THEN g[i + 2]
               ELSE IF t[i] = Quote THEN i + 1
               ELSE g[i + 1]
    BY <1>5, Zenon DEF IsSkip, Past, Positions
  <2> QED
    BY <2>1 DEF Positions
<1> DEFINE Good == {i \in Nat \ {0} : g[i] \in 1..n + 1 /\ (i <= n + 1 => g[i] >= i)}
<1>7. \A i \in Nat \ {0} : i > n => i \in Good
  BY <1>6 DEF Positions
<1>8. ASSUME NEW i \in 1..n, \A j \in Nat \ {0} : j > i => j \in Good PROVE i \in Good
  <2>1. i + 1 \in Good /\ i + 2 \in Good /\ i \in Positions
    BY <1>8 DEF Positions
  <2>2. g[i] = g[i + 2] \/ g[i] = i + 1 \/ g[i] = g[i + 1]
    BY <1>6, <2>1
  <2>3. g[i + 1] \in 1..n + 1 /\ g[i + 1] >= i
    BY <2>1
  <2>4. g[i + 2] \in 1..n + 1 /\ g[i + 2] >= i
    <3>1. CASE i + 2 > n
      BY <1>6, <3>1 DEF Positions
    <3>2. CASE i + 2 <= n
      BY <2>1, <3>2
    <3> QED
      BY <3>1, <3>2
  <2> QED
    BY <2>2, <2>3, <2>4
<1> HIDE DEF Good
<1>9. Positions \subseteq Good
  BY <1>7, <1>8, DownwardInduction DEF Positions
<1>10. \A i \in Positions : g[i] \in 1..n + 1 /\ (i <= n + 1 => g[i] >= i)
  BY <1>9 DEF Good
<1> QED
  BY <1>6, <1>10 DEF Positions

-----------------------------------------------------------------------------
(* The commas the scanner takes out *)

\* The search for what follows a comma.
IsAhead(f, t) ==
    f = [j \in Nat \ {0} |->
            IF j > Len(t) THEN Past(t)
            ELSE IF IsSpace(t[j]) THEN f[j + 1]
            ELSE IF StartsComment(t, j) THEN f[SkipComment(t, j)]
            ELSE j]
Ahead(t) == CHOOSE f : IsAhead(f, t)

\* NextSignificant is that search.
LEMMA NextSignificantIs ==
    ASSUME NEW t, NEW i
    PROVE  NextSignificant(t, i) = Ahead(t)[i]
BY Zenon DEF NextSignificant, Ahead, IsAhead

\* The search for what follows a comma goes on by a blank, or by a comment.
LEMMA AheadSteps ==
    ASSUME NEW t, Len(t) \in Nat, NEW i \in Positions
    PROVE  /\ i > Len(t) => Ahead(t)[i] = Len(t) + 1
           /\ i <= Len(t) /\ IsSpace(t[i]) => Ahead(t)[i] = Ahead(t)[i + 1]
           /\ i <= Len(t) /\ ~IsSpace(t[i]) /\ StartsComment(t, i) =>
                    Ahead(t)[i] = Ahead(t)[SkipComment(t, i)]
           /\ i <= Len(t) /\ ~IsSpace(t[i]) /\ ~StartsComment(t, i) => Ahead(t)[i] = i
<1> DEFINE n == Len(t)
           stop == {j \in 1..n : ~IsSpace(t[j]) /\ ~StartsComment(t, j)}
           step == [j \in 1..n |-> [v \in Nat |-> IF j \in stop THEN j ELSE v]]
           jump == [j \in 1..n |-> IF ~IsSpace(t[j]) /\ StartsComment(t, j)
                                   THEN SkipComment(t, j) ELSE j + 1]
<1>1. n + 1 \in Nat /\ step \in [1..n -> [Nat -> Nat]]
  <2> HIDE DEF stop
  <2> QED
    OBVIOUS
<1>2. jump \in [1..n -> Positions] /\ \A j \in 1..n : jump[j] > j
  <2>1. ASSUME NEW j \in 1..n PROVE jump[j] \in Positions /\ jump[j] > j
    BY CommentsEnd DEF Positions
  <2> QED
    BY <2>1
<1>3. PICK f : Follows(f, Nat, n, n + 1, step, jump)
  <2> HIDE DEF step, jump
  <2> QED
    BY <1>1, <1>2, FollowExists
<1>4. IsAhead(f, t)
  <2>1. f \in [Positions -> Nat]
        /\ \A j \in Positions : f[j] = IF j > n THEN n + 1 ELSE step[j][f[jump[j]]]
    BY <1>3 DEF Follows
  <2>2. ASSUME NEW j \in Positions
        PROVE  f[j] = IF j > n THEN n + 1
                      ELSE IF IsSpace(t[j]) THEN f[j + 1]
                      ELSE IF StartsComment(t, j) THEN f[SkipComment(t, j)]
                      ELSE j
    <3>1. CASE j > n
      BY <2>1, <3>1
    <3>2. CASE ~(j > n)
      <4>1. j \in 1..n
        BY <3>2 DEF Positions
      <4>2. f[jump[j]] \in Nat
        BY <1>2, <2>1, <4>1, SMTT(30)
      <4>3. f[j] = IF j \in stop THEN j ELSE f[jump[j]]
        BY <2>1, <3>2, <4>1, <4>2
      <4> QED
        BY <3>2, <4>1, <4>3
    <3> QED
      BY <3>1, <3>2
  <2> QED
    BY <2>1, <2>2 DEF IsAhead, Past, Positions
<1>5. IsAhead(Ahead(t), t)
  BY <1>4, Zenon DEF Ahead
<1>6. Ahead(t)[i] = IF i > n THEN n + 1
                    ELSE IF IsSpace(t[i]) THEN Ahead(t)[i + 1]
                    ELSE IF StartsComment(t, i) THEN Ahead(t)[SkipComment(t, i)]
                    ELSE i
  BY <1>5, Zenon DEF IsAhead, Past, Positions
<1> QED
  BY <1>6 DEF Positions

\* What follows closes a list or an object.
Closes(t, i) == NextSignificant(t, i) <= Len(t) /\ IsClosing(t[NextSignificant(t, i)])

\* What the scanner takes out at i, where no string and no comment begins.
Taken(t, i) == IF t[i] = "," /\ Closes(t, i + 1) THEN {i} ELSE {}

\* The scan of a text.
IsScan(f, t) ==
    f = [i \in Nat \ {0} |->
            IF i > Len(t) THEN {}
            ELSE IF t[i] = Quote THEN f[SkipString(t, i)]
            ELSE IF StartsComment(t, i) THEN f[SkipComment(t, i)]
            ELSE Taken(t, i) \cup f[i + 1]]
Scan(t) == CHOOSE f : IsScan(f, t)

\* TrailingCommas is that scan, from the first character.
LEMMA TrailingCommasIs ==
    ASSUME NEW t
    PROVE  TrailingCommas(t) = Scan(t)[1]
BY Zenon DEF TrailingCommas, Scan, IsScan, Taken, Closes, Quote

\* The scan goes on by a string, by a comment or by a character.
LEMMA ScanSteps ==
    ASSUME NEW t, Len(t) \in Nat, NEW i \in Positions
    PROVE  /\ i > Len(t) => Scan(t)[i] = {}
           /\ i <= Len(t) /\ t[i] = Quote => Scan(t)[i] = Scan(t)[Skip(t)[i + 1]]
           /\ i <= Len(t) /\ t[i] # Quote /\ StartsComment(t, i) =>
                    Scan(t)[i] = Scan(t)[SkipComment(t, i)]
           /\ i <= Len(t) /\ t[i] # Quote /\ ~StartsComment(t, i) =>
                    Scan(t)[i] = Taken(t, i) \cup Scan(t)[i + 1]
<1> DEFINE n == Len(t)
           found(j) == IF t[j] = Quote \/ StartsComment(t, j) THEN {} ELSE Taken(t, j)
           step == [j \in 1..n |-> [v \in SUBSET Nat |-> found(j) \cup v]]
           jump == [j \in 1..n |-> IF t[j] = Quote THEN Skip(t)[j + 1]
                                   ELSE IF StartsComment(t, j) THEN SkipComment(t, j)
                                   ELSE j + 1]
<1>1. step \in [1..n -> [SUBSET Nat -> SUBSET Nat]]
  <2>1. ASSUME NEW j \in 1..n PROVE found(j) \in SUBSET Nat
    <3>1. Taken(t, j) \subseteq {j}
      BY Zenon DEF Taken
    <3> QED
      BY <3>1
  <2> HIDE DEF found
  <2> QED
    BY <2>1
<1>2. jump \in [1..n -> Positions] /\ \A j \in 1..n : jump[j] > j
  <2>1. ASSUME NEW j \in 1..n PROVE jump[j] \in Positions /\ jump[j] > j
    <3>1. Skip(t)[j + 1] \in 1..n + 1 /\ Skip(t)[j + 1] >= j + 1
      <4>1. j + 1 \in Positions /\ j + 1 <= n + 1
        BY DEF Positions
      <4> QED
        BY <4>1, SkipSteps
    <3>2. StartsComment(t, j) => SkipComment(t, j) \in j + 1..n + 1
      BY CommentsEnd
    <3> QED
      BY <3>1, <3>2 DEF Positions
  <2> QED
    BY <2>1
<1>3. PICK f : Follows(f, SUBSET Nat, n, {}, step, jump)
  <2> HIDE DEF step, jump
  <2> QED
    BY <1>1, <1>2, FollowExists
<1>4. IsScan(f, t)
  <2>1. f \in [Positions -> SUBSET Nat]
        /\ \A j \in Positions : f[j] = IF j > n THEN {} ELSE step[j][f[jump[j]]]
    BY <1>3 DEF Follows
  <2>2. ASSUME NEW j \in Positions
        PROVE  f[j] = IF j > Len(t) THEN {}
                      ELSE IF t[j] = Quote THEN f[SkipString(t, j)]
                      ELSE IF StartsComment(t, j) THEN f[SkipComment(t, j)]
                      ELSE Taken(t, j) \cup f[j + 1]
    <3>1. CASE j > n
      BY <2>1, <3>1
    <3>2. CASE ~(j > n)
      <4>1. j \in 1..n
        BY <3>2 DEF Positions
      <4>2. f[jump[j]] \in SUBSET Nat
        BY <1>2, <2>1, <4>1, ZenonT(40)
      <4>3. f[j] = found(j) \cup f[jump[j]]
        <5> HIDE DEF found, jump
        <5> QED
          BY <2>1, <3>2, <4>1, <4>2
      <4>4. SkipString(t, j) = Skip(t)[j + 1]
        BY SkipStringIs
      <4> QED
        BY <3>2, <4>1, <4>3, <4>4
    <3> QED
      BY <3>1, <3>2
  <2> QED
    BY <2>1, <2>2 DEF IsScan, Positions
<1>5. IsScan(Scan(t), t)
  BY <1>4, Zenon DEF Scan
<1>6. Scan(t)[i] = IF i > Len(t) THEN {}
                   ELSE IF t[i] = Quote THEN Scan(t)[SkipString(t, i)]
                   ELSE IF StartsComment(t, i) THEN Scan(t)[SkipComment(t, i)]
                   ELSE Taken(t, i) \cup Scan(t)[i + 1]
  BY <1>5, Zenon DEF IsScan, Positions
<1> QED
  BY <1>6, SkipStringIs DEF Positions

-----------------------------------------------------------------------------
(* The lexer, character by character *)

\* The lexer after each of the first n characters.
IsLex(f, t, n) == f = [k \in 0..n |-> IF k = 0 THEN LexerStart ELSE LexChar(f[k - 1], t[k])]
LexTo(t) == CHOOSE f : IsLex(f, t, Len(t))

\* Lex is the lexer after the last character.
LEMMA LexIs ==
    ASSUME NEW t
    PROVE  Lex(t) = LexTo(t)[Len(t)]
BY Zenon DEF Lex, LexTo, IsLex

\* The lexer after k characters is the lexer after k - 1, once it has read one.
LEMMA LexToSteps ==
    ASSUME NEW t, Len(t) \in Nat
    PROVE  /\ LexTo(t)[0] = LexerStart
           /\ \A k \in 1..Len(t) : LexTo(t)[k] = LexChar(LexTo(t)[k - 1], t[k])
<1> DEFINE S == {n \in Nat : \E f : IsLex(f, t, n)}
<1>1. 0 \in S
  <2>1. IsLex([k \in 0..0 |-> LexerStart], t, 0)
    BY DEF IsLex
  <2> QED
    BY <2>1
<1>2. ASSUME NEW n \in Nat, n \in S PROVE n + 1 \in S
  <2>1. PICK f : IsLex(f, t, n)
    BY <1>2
  <2> DEFINE g == [k \in 0..n + 1 |-> IF k = n + 1 THEN LexChar(f[n], t[n + 1]) ELSE f[k]]
  <2>2. \A k \in 0..n : f[k] = IF k = 0 THEN LexerStart ELSE LexChar(f[k - 1], t[k])
    BY <2>1 DEF IsLex
  <2>3. ASSUME NEW k \in 0..n + 1
        PROVE  g[k] = IF k = 0 THEN LexerStart ELSE LexChar(g[k - 1], t[k])
    <3>1. CASE k = n + 1
      BY <3>1
    <3>2. CASE k \in 0..n
      <4>1. g[k] = f[k]
        BY <3>2
      <4>2. k # 0 => g[k - 1] = f[k - 1]
        BY <3>2
      <4> QED
        BY <2>2, <3>2, <4>1, <4>2
    <3> QED
      BY <3>1, <3>2
  <2>4. IsLex(g, t, n + 1)
    BY <2>3 DEF IsLex
  <2> QED
    BY <2>4
<1> HIDE DEF S
<1>3. Len(t) \in S
  BY <1>1, <1>2, NatSetInduction
<1>4. IsLex(LexTo(t), t, Len(t))
  BY <1>3, Zenon DEF S, LexTo
<1>5. \A k \in 0..Len(t) :
          LexTo(t)[k] = IF k = 0 THEN LexerStart ELSE LexChar(LexTo(t)[k - 1], t[k])
  BY <1>4, Zenon DEF IsLex
<1> QED
  BY <1>5

\* A lexer is a record of these fields.
IsLexer(l) ==
    l = [mode |-> l.mode, at |-> l.at, comma |-> l.comma, trailing |-> l.trailing,
         reading |-> l.reading, strings |-> l.strings]

\* What it is then in, and which commas it knows of.
IsIn(m, mode, comma, trailing) == m.mode = mode /\ m.comma = comma /\ m.trailing = trailing

\* A character of code has been read at a position: what it does to the comma that
\* nothing has followed yet, and to the commas a bracket has followed.
IsAfterCode(m, c, at, comma, trailing) ==
    /\ IsSpace(c) => IsIn(m, "code", comma, trailing)
    /\ c = "," => IsIn(m, "code", at, trailing)
    /\ c = Quote => IsIn(m, "string", 0, trailing)
    /\ IsClosing(c) => IsIn(m, "code", 0, trailing \cup ({comma} \ {0}))
    /\ ~IsSpace(c) /\ ~IsClosing(c) /\ c # "," /\ c # Quote => IsIn(m, "code", 0, trailing)

\* The characters that matter are different.
LEMMA Different ==
    ASSUME NEW c
    PROVE  /\ IsSpace(c) => c # "," /\ c # Quote /\ c # "/" /\ ~IsClosing(c)
           /\ IsClosing(c) => c # "," /\ c # Quote /\ c # "/"
           /\ "," # Quote /\ "," # "/" /\ Quote # "/" /\ Quote # Backslash /\ "/" # Backslash
BY Zenon DEF IsSpace, IsClosing, Quote, Backslash

\* So it is with LexCode, which leaves the position alone.
LEMMA CodeSteps ==
    ASSUME NEW l, IsLexer(l), NEW c
    PROVE  LET m == LexCode(l, c)
           IN  IsLexer(m) /\ m.at = l.at /\ IsAfterCode(m, c, l.at, l.comma, l.trailing)
<1> DEFINE m == LexCode(l, c)
<1>1. CASE IsSpace(c)
  <2>1. m = [l EXCEPT !.mode = "code"]
    BY <1>1, Different, Zenon DEF LexCode, Quote
  <2>2. IsLexer(m) /\ m.at = l.at /\ IsIn(m, "code", l.comma, l.trailing)
    BY <2>1, Zenon DEF IsLexer, IsIn
  <2> QED
    BY <1>1, <2>2, Different, Zenon DEF IsAfterCode
<1>2. CASE c = ","
  <2>1. m = [l EXCEPT !.mode = "code", !.comma = l.at]
    BY <1>2, Different, Zenon DEF LexCode, Quote
  <2>2. IsLexer(m) /\ m.at = l.at /\ IsIn(m, "code", l.at, l.trailing)
    BY <2>1, Zenon DEF IsLexer, IsIn
  <2> QED
    BY <1>2, <2>2, Different, Zenon DEF IsAfterCode
<1>3. CASE c = Quote
  <2>1. m = [l EXCEPT !.mode = "string", !.comma = 0, !.reading = <<>>]
    BY <1>3, Different, Zenon DEF LexCode, Quote
  <2>2. IsLexer(m) /\ m.at = l.at /\ IsIn(m, "string", 0, l.trailing)
    BY <2>1, Zenon DEF IsLexer, IsIn
  <2> QED
    BY <1>3, <2>2, Different, Zenon DEF IsAfterCode
<1>4. CASE IsClosing(c)
  <2>1. m = [l EXCEPT !.mode = "code", !.comma = 0,
                      !.trailing = l.trailing \cup ({l.comma} \ {0})]
    BY <1>4, Different, Zenon DEF LexCode, Quote
  <2>2. IsLexer(m) /\ m.at = l.at /\ IsIn(m, "code", 0, l.trailing \cup ({l.comma} \ {0}))
    BY <2>1, Zenon DEF IsLexer, IsIn
  <2> QED
    BY <1>4, <2>2, Different, Zenon DEF IsAfterCode
<1>5. CASE ~IsSpace(c) /\ ~IsClosing(c) /\ c # "," /\ c # Quote
  <2>1. m = [l EXCEPT !.mode = "code", !.comma = 0]
    BY <1>5, Zenon DEF LexCode, Quote
  <2>2. IsLexer(m) /\ m.at = l.at /\ IsIn(m, "code", 0, l.trailing)
    BY <2>1, Zenon DEF IsLexer, IsIn
  <2> QED
    BY <1>5, <2>2, Zenon DEF IsAfterCode
<1> QED
  BY <1>1, <1>2, <1>3, <1>4, <1>5, Zenon

\* A character has been read in a mode.
IsAfter(m, l, c) ==
    /\ l.mode = "code" /\ c = "/" => IsIn(m, "slash", l.comma, l.trailing)
    /\ l.mode = "code" /\ c # "/" => IsAfterCode(m, c, l.at, l.comma, l.trailing)
    /\ l.mode = "slash" /\ c = "/" => IsIn(m, "line", l.comma, l.trailing)
    /\ l.mode = "slash" /\ c = "*" => IsIn(m, "block", l.comma, l.trailing)
    /\ l.mode = "slash" /\ c # "/" /\ c # "*" => IsAfterCode(m, c, l.at, 0, l.trailing)
    /\ l.mode = "line" /\ c \in {"\n", "\r"} => IsIn(m, "code", l.comma, l.trailing)
    /\ l.mode = "line" /\ c \notin {"\n", "\r"} => IsIn(m, "line", l.comma, l.trailing)
    /\ l.mode = "block" /\ c = "*" => IsIn(m, "star", l.comma, l.trailing)
    /\ l.mode = "block" /\ c # "*" => IsIn(m, "block", l.comma, l.trailing)
    /\ l.mode = "star" /\ c = "/" => IsIn(m, "code", l.comma, l.trailing)
    /\ l.mode = "star" /\ c = "*" => IsIn(m, "star", l.comma, l.trailing)
    /\ l.mode = "star" /\ c # "/" /\ c # "*" => IsIn(m, "block", l.comma, l.trailing)
    /\ l.mode = "escape" => IsIn(m, "string", l.comma, l.trailing)
    /\ l.mode = "string" /\ c = Backslash => IsIn(m, "escape", l.comma, l.trailing)
    /\ l.mode = "string" /\ c # Backslash /\ c = Quote => IsIn(m, "code", l.comma, l.trailing)
    /\ l.mode = "string" /\ c # Backslash /\ c # Quote => IsIn(m, "string", l.comma, l.trailing)

\* The modes the lexer can be in.
Modes == {"code", "slash", "line", "block", "star", "escape", "string"}

\* So it is with LexMode, whatever the mode.
LEMMA ModeSteps ==
    ASSUME NEW l, IsLexer(l), l.mode \in Modes, NEW c
    PROVE  LET m == LexMode(l, c)
           IN  IsLexer(m) /\ m.at = l.at /\ IsAfter(m, l, c)
<1> DEFINE m == LexMode(l, c)
<1>1. CASE l.mode = "code"
  <2>1. CASE c = "/"
    <3>1. m = [l EXCEPT !.mode = "slash"]
      BY <1>1, <2>1, Zenon DEF LexMode
    <3>2. IsLexer(m) /\ m.at = l.at /\ IsIn(m, "slash", l.comma, l.trailing)
      BY <3>1, Zenon DEF IsLexer, IsIn
    <3> QED
      BY <1>1, <2>1, <3>2, Zenon DEF IsAfter
  <2>2. CASE c # "/"
    <3>1. m = LexCode(l, c)
      BY <1>1, <2>2, Zenon DEF LexMode
    <3> QED
      BY <1>1, <2>2, <3>1, CodeSteps, Zenon DEF IsAfter
  <2> QED
    BY <2>1, <2>2, Zenon
<1>2. CASE l.mode = "slash"
  <2>1. CASE c = "/"
    <3>1. m = [l EXCEPT !.mode = "line"]
      BY <1>2, <2>1, Zenon DEF LexMode
    <3>2. IsLexer(m) /\ m.at = l.at /\ IsIn(m, "line", l.comma, l.trailing)
      BY <3>1, Zenon DEF IsLexer, IsIn
    <3> QED
      BY <1>2, <2>1, <3>2, Zenon DEF IsAfter
  <2>2. CASE c = "*"
    <3>1. m = [l EXCEPT !.mode = "block"]
      BY <1>2, <2>2, Zenon DEF LexMode
    <3>2. IsLexer(m) /\ m.at = l.at /\ IsIn(m, "block", l.comma, l.trailing)
      BY <3>1, Zenon DEF IsLexer, IsIn
    <3> QED
      BY <1>2, <2>2, <3>2, Zenon DEF IsAfter
  <2>3. CASE c # "/" /\ c # "*"
    <3>1. PICK k : k = [l EXCEPT !.comma = 0]
      OBVIOUS
    <3>2. m = LexCode(k, c)
      BY <1>2, <2>3, <3>1, Zenon DEF LexMode
    <3>3. IsLexer(k) /\ k.at = l.at /\ k.comma = 0 /\ k.trailing = l.trailing
      BY <3>1, Zenon DEF IsLexer
    <3>4. IsLexer(LexCode(k, c)) /\ LexCode(k, c).at = k.at
          /\ IsAfterCode(LexCode(k, c), c, k.at, k.comma, k.trailing)
      BY <3>3, CodeSteps, Zenon
    <3>5. IsLexer(m) /\ m.at = l.at /\ IsAfterCode(m, c, l.at, 0, l.trailing)
      BY <3>2, <3>3, <3>4, Zenon
    <3> QED
      BY <1>2, <2>3, <3>5, Zenon DEF IsAfter
  <2> QED
    BY <2>1, <2>2, <2>3, Zenon
<1>3. CASE l.mode = "line"
  <2>1. CASE c \in {"\n", "\r"}
    <3>1. m = [l EXCEPT !.mode = "code"]
      BY <1>3, <2>1, Zenon DEF LexMode
    <3>2. IsLexer(m) /\ m.at = l.at /\ IsIn(m, "code", l.comma, l.trailing)
      BY <3>1, Zenon DEF IsLexer, IsIn
    <3> QED
      BY <1>3, <2>1, <3>2, Zenon DEF IsAfter
  <2>2. CASE c \notin {"\n", "\r"}
    <3>1. m = l
      BY <1>3, <2>2, Zenon DEF LexMode
    <3> QED
      BY <1>3, <2>2, <3>1, Zenon DEF IsAfter, IsIn
  <2> QED
    BY <2>1, <2>2, Zenon
<1>4. CASE l.mode = "block"
  <2>1. CASE c = "*"
    <3>1. m = [l EXCEPT !.mode = "star"]
      BY <1>4, <2>1, Zenon DEF LexMode
    <3>2. IsLexer(m) /\ m.at = l.at /\ IsIn(m, "star", l.comma, l.trailing)
      BY <3>1, Zenon DEF IsLexer, IsIn
    <3> QED
      BY <1>4, <2>1, <3>2, Zenon DEF IsAfter
  <2>2. CASE c # "*"
    <3>1. m = l
      BY <1>4, <2>2, Zenon DEF LexMode
    <3> QED
      BY <1>4, <2>2, <3>1, Zenon DEF IsAfter, IsIn
  <2> QED
    BY <2>1, <2>2, Zenon
<1>5. CASE l.mode = "star"
  <2>1. CASE c = "/"
    <3>1. m = [l EXCEPT !.mode = "code"]
      BY <1>5, <2>1, Zenon DEF LexMode
    <3>2. IsLexer(m) /\ m.at = l.at /\ IsIn(m, "code", l.comma, l.trailing)
      BY <3>1, Zenon DEF IsLexer, IsIn
    <3> QED
      BY <1>5, <2>1, <3>2, Zenon DEF IsAfter
  <2>2. CASE c = "*"
    <3>1. m = l
      BY <1>5, <2>2, Zenon DEF LexMode
    <3> QED
      BY <1>5, <2>2, <3>1, Zenon DEF IsAfter, IsIn
  <2>3. CASE c # "/" /\ c # "*"
    <3>1. m = [l EXCEPT !.mode = "block"]
      BY <1>5, <2>3, Zenon DEF LexMode
    <3>2. IsLexer(m) /\ m.at = l.at /\ IsIn(m, "block", l.comma, l.trailing)
      BY <3>1, Zenon DEF IsLexer, IsIn
    <3> QED
      BY <1>5, <2>3, <3>2, Zenon DEF IsAfter
  <2> QED
    BY <2>1, <2>2, <2>3, Zenon
<1>6. CASE l.mode = "escape"
  <2>1. m = [l EXCEPT !.mode = "string", !.reading = Append(l.reading, Unescaped(c))]
    BY <1>6, Zenon DEF LexMode
  <2>2. IsLexer(m) /\ m.at = l.at /\ IsIn(m, "string", l.comma, l.trailing)
    BY <2>1, Zenon DEF IsLexer, IsIn
  <2> QED
    BY <1>6, <2>2, Zenon DEF IsAfter
<1>7. CASE l.mode = "string"
  <2>1. m = LexString(l, c)
    BY <1>7, Zenon DEF LexMode
  <2>2. CASE c = Backslash
    <3>1. m = [l EXCEPT !.mode = "escape"]
      BY <2>1, <2>2, Different, Zenon DEF LexString, Quote, Backslash
    <3>2. IsLexer(m) /\ m.at = l.at /\ IsIn(m, "escape", l.comma, l.trailing)
      BY <3>1, Zenon DEF IsLexer, IsIn
    <3> QED
      BY <1>7, <2>2, <3>2, Zenon DEF IsAfter
  <2>3. CASE c # Backslash /\ c = Quote
    <3>1. m = [l EXCEPT !.mode = "code", !.strings = Append(l.strings, l.reading)]
      BY <2>1, <2>3, Different, Zenon DEF LexString, Quote, Backslash
    <3>2. IsLexer(m) /\ m.at = l.at /\ IsIn(m, "code", l.comma, l.trailing)
      BY <3>1, Zenon DEF IsLexer, IsIn
    <3> QED
      BY <1>7, <2>3, <3>2, Zenon DEF IsAfter
  <2>4. CASE c # Backslash /\ c # Quote
    <3>1. m = [l EXCEPT !.reading = Append(l.reading, c)]
      BY <2>1, <2>4, Zenon DEF LexString, Quote, Backslash
    <3>2. IsLexer(m) /\ m.at = l.at /\ IsIn(m, "string", l.comma, l.trailing)
      BY <1>7, <3>1, Zenon DEF IsLexer, IsIn
    <3> QED
      BY <1>7, <2>4, <3>2, Zenon DEF IsAfter
  <2> QED
    BY <2>2, <2>3, <2>4, Zenon
<1> QED
  BY <1>1, <1>2, <1>3, <1>4, <1>5, <1>6, <1>7, Zenon DEF Modes

\* So it is with a whole step of the lexer, which moves it on by one.
LEMMA CharSteps ==
    ASSUME NEW l, IsLexer(l), l.mode \in Modes, NEW c
    PROVE  LET m == LexChar(l, c)
           IN  IsLexer(m) /\ m.at = l.at + 1 /\ IsAfter(m, l, c)
<1> DEFINE k == LexMode(l, c)
           m == LexChar(l, c)
<1>1. IsLexer(k) /\ k.at = l.at /\ IsAfter(k, l, c)
  BY ModeSteps, Zenon
<1> HIDE DEF k
<1>2. m = [k EXCEPT !.at = k.at + 1]
  BY Zenon DEF LexChar, k
<1>3. IsLexer(m) /\ m.at = k.at + 1 /\ m.mode = k.mode /\ m.comma = k.comma /\ m.trailing = k.trailing
  BY <1>1, <1>2, Zenon DEF IsLexer
<1>4. \A mode, comma, trailing : IsIn(k, mode, comma, trailing) => IsIn(m, mode, comma, trailing)
  BY <1>3, Zenon DEF IsIn
<1>5. \A at, comma, trailing : IsAfterCode(k, c, at, comma, trailing) => IsAfterCode(m, c, at, comma, trailing)
  BY <1>4, ZenonT(40) DEF IsAfterCode
<1>6. IsAfter(m, l, c)
  <2> HIDE DEF m
  <2>1. CASE l.mode \in {"code", "slash"}
    BY <1>1, <1>4, <1>5, <2>1, Zenon DEF IsAfter
  <2>2. CASE l.mode \in {"line", "block"}
    BY <1>1, <1>4, <2>2, Zenon DEF IsAfter
  <2>3. CASE l.mode = "star"
    BY <1>1, <1>4, <2>3, Zenon DEF IsAfter
  <2>4. CASE l.mode \in {"escape", "string"}
    BY <1>1, <1>4, <2>4, Zenon DEF IsAfter
  <2> QED
    BY <2>1, <2>2, <2>3, <2>4, Zenon DEF Modes
<1> QED
  BY <1>1, <1>3, <1>6, Zenon

\* The mode is one of those a character leaves.
LEMMA ModeAfter ==
    ASSUME NEW l, l.mode \in Modes, NEW c, NEW m, IsAfter(m, l, c)
    PROVE  m.mode \in Modes
<1>1. \A mode, comma, trailing : IsIn(m, mode, comma, trailing) => m.mode = mode
  BY Zenon DEF IsIn
<1>2. \A at, comma, trailing : IsAfterCode(m, c, at, comma, trailing) => m.mode \in {"code", "string"}
  BY <1>1, Zenon DEF IsAfterCode
<1>3. CASE l.mode \in {"code", "slash"}
  BY <1>1, <1>2, <1>3, Zenon DEF IsAfter, Modes
<1>4. CASE l.mode \in {"line", "block"}
  BY <1>1, <1>4, Zenon DEF IsAfter, Modes
<1>5. CASE l.mode = "star"
  BY <1>1, <1>5, Zenon DEF IsAfter, Modes
<1>6. CASE l.mode \in {"escape", "string"}
  BY <1>1, <1>6, Zenon DEF IsAfter, Modes
<1> QED
  BY <1>3, <1>4, <1>5, <1>6, Zenon DEF Modes

-----------------------------------------------------------------------------
(* Both find the same commas *)

\* The comma c, 0 if there is none, when what follows from i on closes.
Pending(t, c, i) == IF Closes(t, i) THEN {c} \ {0} ELSE {}

\* The commas to be taken out of what is left from i on, where nothing has followed c.
Rest(t, c, i) == Pending(t, c, i) \cup Scan(t)[i]

\* What one character, string or comment at the front of the rest does to it.
LEMMA RestSteps ==
    ASSUME NEW t, Len(t) \in Nat, NEW c, NEW i \in Positions
    PROVE  /\ i > Len(t) => Rest(t, c, i) = {}
           /\ i <= Len(t) /\ IsSpace(t[i]) => Rest(t, c, i) = Rest(t, c, i + 1)
           /\ i <= Len(t) /\ t[i] = "," => Rest(t, c, i) = Rest(t, i, i + 1)
           /\ i <= Len(t) /\ t[i] = Quote => Rest(t, c, i) = Rest(t, 0, Skip(t)[i + 1])
           /\ i <= Len(t) /\ IsClosing(t[i]) => Rest(t, c, i) = ({c} \ {0}) \cup Rest(t, 0, i + 1)
           /\ i <= Len(t) /\ StartsComment(t, i) => Rest(t, c, i) = Rest(t, c, SkipComment(t, i))
           /\ i <= Len(t) /\ ~IsSpace(t[i]) /\ ~IsClosing(t[i]) /\ t[i] # "," /\ t[i] # Quote
                    /\ ~StartsComment(t, i) => Rest(t, c, i) = Rest(t, 0, i + 1)
<1> DEFINE n == Len(t)
<1>1. \A k : Pending(t, 0, k) = {}
  BY DEF Pending
<1>2. \A k : Closes(t, k) <=> Ahead(t)[k] <= n /\ IsClosing(t[Ahead(t)[k]])
  BY NextSignificantIs, Zenon DEF Closes
<1>3. t[i] # "/" => ~StartsComment(t, i)
  BY Zenon DEF StartsComment, StartsLineComment, StartsBlockComment, StartsWith
<1>4. i > n => Rest(t, c, i) = {}
  <2> SUFFICES ASSUME i > n PROVE Rest(t, c, i) = {}
    OBVIOUS
  <2>1. Ahead(t)[i] = n + 1
    BY AheadSteps
  <2>2. ~Closes(t, i)
    BY <1>2, <2>1
  <2>3. Scan(t)[i] = {}
    BY ScanSteps
  <2> QED
    BY <2>2, <2>3 DEF Rest, Pending
<1>5. SUFFICES ASSUME i <= n
      PROVE  /\ IsSpace(t[i]) => Rest(t, c, i) = Rest(t, c, i + 1)
             /\ t[i] = "," => Rest(t, c, i) = Rest(t, i, i + 1)
             /\ t[i] = Quote => Rest(t, c, i) = Rest(t, 0, Skip(t)[i + 1])
             /\ IsClosing(t[i]) => Rest(t, c, i) = ({c} \ {0}) \cup Rest(t, 0, i + 1)
             /\ StartsComment(t, i) => Rest(t, c, i) = Rest(t, c, SkipComment(t, i))
             /\ ~IsSpace(t[i]) /\ ~IsClosing(t[i]) /\ t[i] # "," /\ t[i] # Quote
                    /\ ~StartsComment(t, i) => Rest(t, c, i) = Rest(t, 0, i + 1)
  BY <1>4, Zenon
<1>6. ASSUME IsSpace(t[i]) PROVE Rest(t, c, i) = Rest(t, c, i + 1)
  <2>1. t[i] # "," /\ t[i] # Quote /\ ~StartsComment(t, i)
    BY <1>3, <1>6, Different, Zenon
  <2>2. Ahead(t)[i] = Ahead(t)[i + 1]
    BY <1>5, <1>6, AheadSteps
  <2>3. Closes(t, i) <=> Closes(t, i + 1)
    BY <1>2, <2>2, Zenon
  <2>4. Scan(t)[i] = Taken(t, i) \cup Scan(t)[i + 1] /\ Taken(t, i) = {}
    BY <1>5, <2>1, ScanSteps, Zenon DEF Taken
  <2> QED
    BY <2>3, <2>4 DEF Rest, Pending
<1>7. ASSUME ~IsSpace(t[i]), ~StartsComment(t, i), ~IsClosing(t[i]) PROVE Pending(t, c, i) = {}
  <2>1. Ahead(t)[i] = i
    BY <1>5, <1>7, AheadSteps
  <2>2. ~Closes(t, i)
    BY <1>2, <1>7, <2>1, Zenon
  <2> QED
    BY <2>2 DEF Pending
<1>8. ASSUME t[i] = "," PROVE Rest(t, c, i) = Rest(t, i, i + 1)
  <2>1. t[i] # Quote /\ ~StartsComment(t, i) /\ ~IsSpace(t[i]) /\ ~IsClosing(t[i])
    BY <1>3, <1>8, Different, Zenon
  <2>2. Pending(t, c, i) = {}
    BY <1>7, <2>1
  <2>3. Scan(t)[i] = Taken(t, i) \cup Scan(t)[i + 1]
    BY <1>5, <2>1, ScanSteps, Zenon
  <2>4. {i} \ {0} = {i}
    BY DEF Positions
  <2>5. Taken(t, i) = Pending(t, i, i + 1)
    BY <1>8, <2>4, Zenon DEF Taken, Pending
  <2> QED
    BY <2>2, <2>3, <2>5 DEF Rest
<1>9. ASSUME t[i] = Quote PROVE Rest(t, c, i) = Rest(t, 0, Skip(t)[i + 1])
  <2>1. ~StartsComment(t, i) /\ ~IsSpace(t[i]) /\ ~IsClosing(t[i])
    BY <1>3, <1>9, Different, Zenon
  <2>2. Pending(t, c, i) = {}
    BY <1>7, <2>1
  <2>3. Scan(t)[i] = Scan(t)[Skip(t)[i + 1]]
    BY <1>5, <1>9, ScanSteps, Zenon
  <2> QED
    BY <1>1, <2>2, <2>3 DEF Rest
<1>10. ASSUME IsClosing(t[i]) PROVE Rest(t, c, i) = ({c} \ {0}) \cup Rest(t, 0, i + 1)
  <2>1. t[i] # "," /\ t[i] # Quote /\ ~StartsComment(t, i) /\ ~IsSpace(t[i])
    BY <1>3, <1>10, Different, Zenon
  <2>2. Ahead(t)[i] = i
    BY <1>5, <2>1, AheadSteps, Zenon
  <2>3. Closes(t, i)
    BY <1>2, <1>5, <1>10, <2>2, Zenon
  <2>4. Scan(t)[i] = Taken(t, i) \cup Scan(t)[i + 1] /\ Taken(t, i) = {}
    BY <1>5, <2>1, ScanSteps, Zenon DEF Taken
  <2> QED
    BY <1>1, <2>3, <2>4 DEF Rest, Pending
<1>11. ASSUME StartsComment(t, i) PROVE Rest(t, c, i) = Rest(t, c, SkipComment(t, i))
  <2>1. t[i] = "/"
    BY <1>3, <1>11, Zenon
  <2>2. t[i] # Quote /\ ~IsSpace(t[i])
    BY <2>1, Different, Zenon
  <2>3. Ahead(t)[i] = Ahead(t)[SkipComment(t, i)]
    BY <1>5, <1>11, <2>2, AheadSteps
  <2>4. Closes(t, i) <=> Closes(t, SkipComment(t, i))
    BY <1>2, <2>3, Zenon
  <2>5. Scan(t)[i] = Scan(t)[SkipComment(t, i)]
    BY <1>5, <1>11, <2>2, ScanSteps, Zenon
  <2> QED
    BY <2>4, <2>5 DEF Rest, Pending
<1>12. ASSUME ~IsSpace(t[i]), ~IsClosing(t[i]), t[i] # ",", t[i] # Quote, ~StartsComment(t, i)
       PROVE  Rest(t, c, i) = Rest(t, 0, i + 1)
  <2>1. Pending(t, c, i) = {}
    BY <1>7, <1>12, Zenon
  <2>2. Scan(t)[i] = Taken(t, i) \cup Scan(t)[i + 1] /\ Taken(t, i) = {}
    BY <1>5, <1>12, ScanSteps, Zenon DEF Taken
  <2> QED
    BY <1>1, <2>1, <2>2 DEF Rest
<1> QED
  BY <1>6, <1>8, <1>9, <1>10, <1>11, <1>12, Zenon

\* The commas known of and those to be taken out of what is left make up T, for a
\* lexer that has come to i.
Adds(T, t, l, i) ==
    LET With(c, k) == T = l.trailing \cup Rest(t, c, k)
    IN  /\ l.mode = "code" => With(l.comma, i)
        /\ l.mode = "slash" /\ i <= Len(t) /\ t[i] = "/" => With(l.comma, LineEnd(t, i + 1))
        /\ l.mode = "slash" /\ i <= Len(t) /\ t[i] = "*" => With(l.comma, BlockEnd(t, i + 3))
        /\ l.mode = "slash" /\ (i > Len(t) \/ t[i] \notin {"/", "*"}) => With(0, i)
        /\ l.mode = "line" => With(l.comma, LineEnd(t, i))
        /\ l.mode = "block" => With(l.comma, BlockEnd(t, i + 2))
        /\ l.mode = "star" /\ t[i - 1] = "*" => With(l.comma, BlockEnd(t, i + 1))
        /\ l.mode = "string" /\ l.comma = 0 => With(0, Skip(t)[i])
        /\ l.mode = "escape" /\ l.comma = 0 => With(0, Skip(t)[i + 1])

\* At the end nothing is left.
LEMMA AddsAtEnd ==
    ASSUME NEW t, Len(t) \in Nat, NEW l
    PROVE  Adds(l.trailing, t, l, Len(t) + 1)
<1> DEFINE n == Len(t)
<1>1. n + 1 \in Positions /\ n + 2 \in Positions /\ n + 1 > n /\ n + 2 > n
  BY DEF Positions
<1>2. \A c : Rest(t, c, n + 1) = {}
  BY <1>1, RestSteps, Zenon
<1>3. LineEnd(t, n + 1) = n + 1 /\ LineEnd(t, (n + 1) + 1) = n + 1
  BY CommentSteps
<1>4. /\ BlockEnd(t, (n + 1) + 3) = n + 1 /\ BlockEnd(t, (n + 1) + 2) = n + 1
      /\ BlockEnd(t, (n + 1) + 1) = n + 1
  BY CommentSteps
<1>5. Skip(t)[n + 1] = n + 1 /\ Skip(t)[(n + 1) + 1] = n + 1
  BY SkipSteps DEF Positions
<1> QED
  BY <1>2, <1>3, <1>4, <1>5, Zenon DEF Adds

\* So it is before a character of code other than a slash, whatever lexer reads it,
\* if it is after it.
LEMMA AddsCode ==
    ASSUME NEW t, Len(t) \in Nat, NEW i \in 1..Len(t), t[i] # "/",
           NEW m, NEW c, NEW trailing, IsAfterCode(m, t[i], i, c, trailing),
           NEW T, Adds(T, t, m, i + 1)
    PROVE  T = trailing \cup Rest(t, c, i)
<1>1. i \in Positions /\ i <= Len(t)
  BY DEF Positions
<1>2. ~StartsComment(t, i)
  BY Zenon DEF StartsComment, StartsLineComment, StartsBlockComment, StartsWith
<1>3. /\ m.mode = "code" => T = m.trailing \cup Rest(t, m.comma, i + 1)
      /\ m.mode = "string" /\ m.comma = 0 => T = m.trailing \cup Rest(t, 0, Skip(t)[i + 1])
  BY Zenon DEF Adds
<1>4. CASE IsSpace(t[i])
  <2>1. IsIn(m, "code", c, trailing)
    BY <1>4, Zenon DEF IsAfterCode
  <2>2. Rest(t, c, i) = Rest(t, c, i + 1)
    BY <1>1, <1>4, RestSteps, Zenon
  <2> QED
    BY <1>3, <2>1, <2>2, Zenon DEF IsIn
<1>5. CASE t[i] = ","
  <2>1. IsIn(m, "code", i, trailing)
    BY <1>5, Zenon DEF IsAfterCode
  <2>2. Rest(t, c, i) = Rest(t, i, i + 1)
    BY <1>1, <1>5, RestSteps, Zenon
  <2> QED
    BY <1>3, <2>1, <2>2, Zenon DEF IsIn
<1>6. CASE t[i] = Quote
  <2>1. IsIn(m, "string", 0, trailing)
    BY <1>6, Zenon DEF IsAfterCode
  <2>2. Rest(t, c, i) = Rest(t, 0, Skip(t)[i + 1])
    BY <1>1, <1>6, RestSteps, Zenon
  <2> QED
    BY <1>3, <2>1, <2>2, Zenon DEF IsIn
<1>7. CASE IsClosing(t[i])
  <2>1. IsIn(m, "code", 0, trailing \cup ({c} \ {0}))
    BY <1>7, Zenon DEF IsAfterCode
  <2>2. Rest(t, c, i) = ({c} \ {0}) \cup Rest(t, 0, i + 1)
    BY <1>1, <1>7, RestSteps, Zenon
  <2>3. T = (trailing \cup ({c} \ {0})) \cup Rest(t, 0, i + 1)
    BY <1>3, <2>1, Zenon DEF IsIn
  <2>4. \A R : (trailing \cup ({c} \ {0})) \cup R = trailing \cup (({c} \ {0}) \cup R)
    BY Zenon
  <2> QED
    BY <2>2, <2>3, <2>4, Zenon
<1>8. CASE ~IsSpace(t[i]) /\ ~IsClosing(t[i]) /\ t[i] # "," /\ t[i] # Quote
  <2>1. IsIn(m, "code", 0, trailing)
    BY <1>8, Zenon DEF IsAfterCode
  <2>2. Rest(t, c, i) = Rest(t, 0, i + 1)
    BY <1>1, <1>2, <1>8, RestSteps, Zenon
  <2> QED
    BY <1>3, <2>1, <2>2, Zenon DEF IsIn
<1> QED
  BY <1>4, <1>5, <1>6, <1>7, <1>8, Zenon

\* The end of a block comment is two characters past a star and a slash.
LEMMA BlockSteps ==
    ASSUME NEW t, Len(t) \in Nat, NEW i \in 1..Len(t)
    PROVE  /\ t[i] # "*" => BlockEnd(t, i + 2) = BlockEnd(t, (i + 1) + 2)
           /\ t[i] # "/" => BlockEnd(t, i + 1) = BlockEnd(t, (i + 1) + 1)
           /\ t[i - 1] = "*" /\ t[i] = "/" => BlockEnd(t, i + 1) = i + 1
<1>1. i + 1 \in Nat /\ i + 2 \in Nat /\ (i + 1) - 2 = i - 1 /\ (i + 1) - 1 = i /\ (i + 2) - 2 = i
      /\ i + 1 <= Len(t) + 1 /\ (i + 2) + 1 = (i + 1) + 2 /\ (i + 1) + 1 = i + 2
  OBVIOUS
<1>2. ASSUME t[i] # "*" PROVE BlockEnd(t, i + 2) = BlockEnd(t, (i + 2) + 1)
  <2>1. CASE i + 2 <= Len(t) + 1
    BY <1>1, <1>2, <2>1, CommentSteps, Zenon
  <2>2. CASE i + 2 > Len(t) + 1
    <3>1. (i + 2) + 1 > Len(t) + 1 /\ (i + 2) + 1 \in Nat
      BY <2>2
    <3>2. \A k \in Nat : k > Len(t) + 1 => BlockEnd(t, k) = Len(t) + 1
      BY CommentSteps, Zenon
    <3> QED
      BY <1>1, <2>2, <3>1, <3>2, Zenon
  <2> QED
    BY <2>1, <2>2
<1>3. ASSUME t[i] # "/" PROVE BlockEnd(t, i + 1) = BlockEnd(t, (i + 1) + 1)
  BY <1>1, <1>3, CommentSteps, Zenon
<1>4. ASSUME t[i - 1] = "*", t[i] = "/" PROVE BlockEnd(t, i + 1) = i + 1
  BY <1>1, <1>4, CommentSteps, Zenon
<1> QED
  BY <1>1, <1>2, <1>3, <1>4, Zenon

\* A carriage return of a line comment comes before its line feed.
NoBareReturn(t) == \A i \in 1..Len(t) : t[i] = "\r" => i < Len(t) /\ t[i + 1] = "\n"

\* It holds before a character if it holds after it.
LEMMA AddsBefore ==
    ASSUME NEW t, Len(t) \in Nat, NoBareReturn(t), NEW i \in 1..Len(t),
           NEW l, l.mode \in Modes, l.at = i, NEW m, IsAfter(m, l, t[i]),
           NEW T, Adds(T, t, m, i + 1)
    PROVE  Adds(T, t, l, i)
<1> DEFINE n == Len(t)
           c == t[i]
           next == i + 1
           With(d, k) == T = l.trailing \cup Rest(t, d, k)
<1>1. i \in Nat /\ i \in Positions /\ i <= n /\ next \in Nat /\ next \in Positions
      /\ next + 1 \in Nat /\ next + 2 \in Nat /\ next - 1 = i
  BY DEF Positions
<1>2. /\ m.mode = "code" => T = m.trailing \cup Rest(t, m.comma, next)
      /\ m.mode = "line" => T = m.trailing \cup Rest(t, m.comma, LineEnd(t, next))
      /\ m.mode = "block" => T = m.trailing \cup Rest(t, m.comma, BlockEnd(t, next + 2))
      /\ m.mode = "star" /\ c = "*" => T = m.trailing \cup Rest(t, m.comma, BlockEnd(t, next + 1))
      /\ m.mode = "string" /\ m.comma = 0 => T = m.trailing \cup Rest(t, 0, Skip(t)[next])
      /\ m.mode = "escape" /\ m.comma = 0 => T = m.trailing \cup Rest(t, 0, Skip(t)[next + 1])
  BY <1>1, Zenon DEF Adds
<1>3. CASE l.mode = "code"
  <2>1. SUFFICES With(l.comma, i)
    BY <1>3, Zenon DEF Adds
  <2>2. CASE c = "/"
    <3>1. IsIn(m, "slash", l.comma, l.trailing)
      BY <1>3, <2>2, Zenon DEF IsAfter
    <3> DEFINE Slash(d, k) == T = l.trailing \cup Rest(t, d, k)
    <3>2. CASE next <= n /\ t[next] = "/"
      <4>1. StartsLineComment(t, i) /\ StartsComment(t, i)
        BY <2>2, <3>2 DEF StartsComment, StartsLineComment, StartsWith
      <4>2. Rest(t, l.comma, i) = Rest(t, l.comma, LineEnd(t, i + 2))
        <5>1. SkipComment(t, i) = LineEnd(t, i + 2)
          BY <4>1, CommentsEnd
        <5>2. Rest(t, l.comma, i) = Rest(t, l.comma, SkipComment(t, i))
          BY <1>1, <4>1, RestSteps, Zenon
        <5> QED
          BY <5>1, <5>2
      <4>3. T = l.trailing \cup Rest(t, l.comma, LineEnd(t, next + 1))
        BY <3>1, <3>2, Zenon DEF Adds, IsIn
      <4> QED
        BY <4>2, <4>3
    <3>3. CASE next <= n /\ t[next] = "*"
      <4>1. ~StartsLineComment(t, i) /\ StartsComment(t, i)
        BY <2>2, <3>3 DEF StartsComment, StartsLineComment, StartsBlockComment, StartsWith
      <4>2. Rest(t, l.comma, i) = Rest(t, l.comma, BlockEnd(t, i + 4))
        <5>1. SkipComment(t, i) = BlockEnd(t, i + 4)
          BY <4>1, CommentsEnd
        <5>2. Rest(t, l.comma, i) = Rest(t, l.comma, SkipComment(t, i))
          BY <1>1, <4>1, RestSteps, Zenon
        <5> QED
          BY <5>1, <5>2
      <4>3. T = l.trailing \cup Rest(t, l.comma, BlockEnd(t, next + 3))
        BY <3>1, <3>3, Zenon DEF Adds, IsIn
      <4> QED
        BY <4>2, <4>3
    <3>4. CASE next > n \/ t[next] \notin {"/", "*"}
      <4>1. ~StartsComment(t, i)
        BY <3>4 DEF StartsComment, StartsLineComment, StartsBlockComment, StartsWith
      <4>2. ~IsSpace(c) /\ ~IsClosing(c) /\ c # "," /\ c # Quote
        BY <2>2, Different, Zenon
      <4>3. Rest(t, l.comma, i) = Rest(t, 0, next)
        BY <1>1, <4>1, <4>2, RestSteps, ZenonT(40)
      <4>4. T = l.trailing \cup Rest(t, 0, next)
        BY <3>1, <3>4, Zenon DEF Adds, IsIn
      <4> QED
        BY <4>3, <4>4
    <3> QED
      BY <1>1, <3>2, <3>3, <3>4
  <2>3. CASE c # "/"
    <3>1. IsAfterCode(m, c, i, l.comma, l.trailing)
      BY <1>3, <2>3, Zenon DEF IsAfter
    <3> QED
      BY <2>3, <3>1, AddsCode, Zenon
  <2> QED
    BY <2>2, <2>3
<1>4. CASE l.mode = "slash"
  <2>1. SUFFICES /\ c = "/" => With(l.comma, LineEnd(t, next))
                 /\ c = "*" => With(l.comma, BlockEnd(t, i + 3))
                 /\ c \notin {"/", "*"} => With(0, i)
    <3> DEFINE A == c = "/" => With(l.comma, LineEnd(t, next))
               B == c = "*" => With(l.comma, BlockEnd(t, i + 3))
               C == c \notin {"/", "*"} => With(0, i)
    <3>1. ASSUME A, B, C PROVE Adds(T, t, l, i)
      <4>1. ~(i > n)
        BY <1>1, SMTT(30)
      <4> QED
        BY <1>4, <3>1, <4>1, Zenon DEF Adds
    <3> QED
      BY <3>1
  <2>2. ASSUME c = "/" PROVE With(l.comma, LineEnd(t, next))
    <3>1. IsIn(m, "line", l.comma, l.trailing)
      BY <1>4, <2>2, Zenon DEF IsAfter
    <3> QED
      BY <1>2, <3>1, Zenon DEF IsIn
  <2>3. ASSUME c = "*" PROVE With(l.comma, BlockEnd(t, i + 3))
    <3>1. IsIn(m, "block", l.comma, l.trailing)
      BY <1>4, <2>3, Zenon DEF IsAfter
    <3>2. With(l.comma, BlockEnd(t, next + 2))
      BY <1>2, <3>1, Zenon DEF IsIn
    <3>3. next + 2 = i + 3
      OBVIOUS
    <3> QED
      BY <3>2, <3>3, Zenon
  <2>4. ASSUME c \notin {"/", "*"} PROVE With(0, i)
    <3>1. c # "/" /\ c # "*"
      BY <2>4, Zenon
    <3>2. IsAfterCode(m, c, i, 0, l.trailing)
      BY <1>4, <3>1, Zenon DEF IsAfter
    <3> QED
      BY <3>1, <3>2, AddsCode, Zenon
  <2> QED
    BY <2>2, <2>3, <2>4, Zenon
<1>5. CASE l.mode = "line"
  <2>1. SUFFICES With(l.comma, LineEnd(t, i))
    BY <1>5, Zenon DEF Adds
  <2>2. CASE c \in {"\n", "\r"}
    <3>1. IsIn(m, "code", l.comma, l.trailing)
      BY <1>5, <2>2, Zenon DEF IsAfter
    <3>2. With(l.comma, next)
      BY <1>2, <3>1, Zenon DEF IsIn
    <3>3. CASE c = "\n"
      <4>1. LineEnd(t, i) = i
        BY <1>1, <3>3, CommentSteps
      <4>2. IsSpace(c)
        BY <3>3, Zenon DEF IsSpace
      <4>3. Rest(t, l.comma, i) = Rest(t, l.comma, next)
        BY <1>1, <4>2, RestSteps, Zenon
      <4> QED
        BY <3>2, <4>1, <4>3, Zenon
    <3>4. CASE c = "\r"
      <4>1. next <= n /\ t[next] = "\n"
        BY <3>4 DEF NoBareReturn
      <4>2. LineEnd(t, i) = LineEnd(t, next)
        BY <1>1, <3>4, CommentSteps
      <4>3. LineEnd(t, next) = next
        BY <1>1, <4>1, CommentSteps
      <4> QED
        BY <3>2, <4>2, <4>3, Zenon
    <3> QED
      BY <2>2, <3>3, <3>4, Zenon
  <2>3. CASE c \notin {"\n", "\r"}
    <3>1. IsIn(m, "line", l.comma, l.trailing)
      BY <1>5, <2>3, Zenon DEF IsAfter
    <3>2. With(l.comma, LineEnd(t, next))
      BY <1>2, <3>1, Zenon DEF IsIn
    <3>3. LineEnd(t, i) = LineEnd(t, next)
      BY <1>1, <2>3, CommentSteps
    <3> QED
      BY <3>2, <3>3, Zenon
  <2> QED
    BY <2>2, <2>3
<1>6. CASE l.mode = "block"
  <2>1. SUFFICES With(l.comma, BlockEnd(t, i + 2))
    BY <1>6, Zenon DEF Adds
  <2>2. CASE c = "*"
    <3>1. IsIn(m, "star", l.comma, l.trailing)
      BY <1>6, <2>2, Zenon DEF IsAfter
    <3>2. With(l.comma, BlockEnd(t, next + 1))
      BY <1>2, <2>2, <3>1, Zenon DEF IsIn
    <3>3. next + 1 = i + 2
      OBVIOUS
    <3> QED
      BY <3>2, <3>3, Zenon
  <2>3. CASE c # "*"
    <3>1. IsIn(m, "block", l.comma, l.trailing)
      BY <1>6, <2>3, Zenon DEF IsAfter
    <3>2. With(l.comma, BlockEnd(t, next + 2))
      BY <1>2, <3>1, Zenon DEF IsIn
    <3>3. BlockEnd(t, i + 2) = BlockEnd(t, next + 2)
      BY <1>1, <2>3, BlockSteps
    <3> QED
      BY <3>2, <3>3, Zenon
  <2> QED
    BY <2>2, <2>3
<1>7. CASE l.mode = "star"
  <2>1. SUFFICES ASSUME t[i - 1] = "*" PROVE With(l.comma, BlockEnd(t, next))
    BY <1>7, Zenon DEF Adds
  <2>2. CASE c = "/"
    <3>1. IsIn(m, "code", l.comma, l.trailing)
      BY <1>7, <2>2, Zenon DEF IsAfter
    <3>2. With(l.comma, next)
      BY <1>2, <3>1, Zenon DEF IsIn
    <3>3. BlockEnd(t, next) = next
      BY <2>1, <2>2, BlockSteps
    <3> QED
      BY <3>2, <3>3, Zenon
  <2>3. CASE c # "/"
    <3>1. BlockEnd(t, next) = BlockEnd(t, next + 1)
      BY <2>3, BlockSteps
    <3>2. CASE c = "*"
      <4>1. IsIn(m, "star", l.comma, l.trailing)
        BY <1>7, <3>2, Zenon DEF IsAfter
      <4>2. With(l.comma, BlockEnd(t, next + 1))
        BY <1>2, <3>2, <4>1, Zenon DEF IsIn
      <4> QED
        BY <3>1, <4>2, Zenon
    <3>3. CASE c # "*"
      <4>1. IsIn(m, "block", l.comma, l.trailing)
        BY <1>7, <2>3, <3>3, Zenon DEF IsAfter
      <4>2. With(l.comma, BlockEnd(t, next + 2))
        BY <1>2, <4>1, Zenon DEF IsIn
      <4>3. BlockEnd(t, i + 2) = BlockEnd(t, next + 2) /\ next + 1 = i + 2
        BY <1>1, <3>3, BlockSteps
      <4> QED
        BY <3>1, <4>2, <4>3, Zenon
    <3> QED
      BY <3>2, <3>3
  <2> QED
    BY <2>2, <2>3
<1>8. CASE l.mode = "string"
  <2>1. SUFFICES ASSUME l.comma = 0 PROVE With(0, Skip(t)[i])
    BY <1>8, Zenon DEF Adds
  <2>2. CASE c = Backslash
    <3>1. IsIn(m, "escape", 0, l.trailing)
      BY <1>8, <2>1, <2>2, Zenon DEF IsAfter
    <3>2. With(0, Skip(t)[next + 1])
      BY <1>2, <3>1, Zenon DEF IsIn
    <3>3. Skip(t)[i] = Skip(t)[i + 2] /\ next + 1 = i + 2
      BY <1>1, <2>2, SkipSteps
    <3> QED
      BY <3>2, <3>3, Zenon
  <2>3. CASE c # Backslash /\ c = Quote
    <3>1. IsIn(m, "code", 0, l.trailing)
      BY <1>8, <2>1, <2>3, Zenon DEF IsAfter
    <3>2. With(0, next)
      BY <1>2, <3>1, Zenon DEF IsIn
    <3>3. Skip(t)[i] = next
      BY <1>1, <2>3, SkipSteps
    <3> QED
      BY <3>2, <3>3, Zenon
  <2>4. CASE c # Backslash /\ c # Quote
    <3>1. IsIn(m, "string", 0, l.trailing)
      BY <1>8, <2>1, <2>4, Zenon DEF IsAfter
    <3>2. With(0, Skip(t)[next])
      BY <1>2, <3>1, Zenon DEF IsIn
    <3>3. Skip(t)[i] = Skip(t)[next]
      BY <1>1, <2>4, SkipSteps
    <3> QED
      BY <3>2, <3>3, Zenon
  <2> QED
    BY <2>2, <2>3, <2>4
<1>9. CASE l.mode = "escape"
  <2>1. SUFFICES ASSUME l.comma = 0 PROVE With(0, Skip(t)[next])
    BY <1>9, Zenon DEF Adds
  <2>2. IsIn(m, "string", 0, l.trailing)
    BY <1>9, <2>1, Zenon DEF IsAfter
  <2> QED
    BY <1>2, <2>2, Zenon DEF IsIn
<1> QED
  BY <1>3, <1>4, <1>5, <1>6, <1>7, <1>8, <1>9, Zenon DEF Modes

\* The lexer after k characters.
LEMMA LexerAt ==
    ASSUME NEW t, Len(t) \in Nat
    PROVE  \A k \in 0..Len(t) :
                LET l == LexTo(t)[k] IN IsLexer(l) /\ l.mode \in Modes /\ l.at = k + 1
<1> DEFINE Good(l, k) == IsLexer(l) /\ l.mode \in Modes /\ l.at = k + 1
           S == {k \in Nat : k <= Len(t) => Good(LexTo(t)[k], k)}
<1>1. 0 \in S
  <2>1. IsLexer(LexerStart) /\ LexerStart.mode \in Modes /\ LexerStart.at = 0 + 1
    BY DEF LexerStart, IsLexer, Modes
  <2> QED
    BY <2>1, LexToSteps
<1>2. ASSUME NEW k \in Nat, k \in S PROVE k + 1 \in S
  <2>1. SUFFICES ASSUME k + 1 <= Len(t) PROVE Good(LexTo(t)[k + 1], k + 1)
    OBVIOUS
  <2> DEFINE l == LexTo(t)[k]
             m == LexTo(t)[k + 1]
  <2>2. Good(l, k)
    BY <1>2, <2>1
  <2>3. m = LexChar(l, t[k + 1])
    <3>1. k + 1 \in 1..Len(t) /\ (k + 1) - 1 = k
      BY <2>1
    <3> QED
      BY <3>1, LexToSteps
  <2> HIDE DEF l, m
  <2>4. IsLexer(m) /\ m.at = l.at + 1 /\ IsAfter(m, l, t[k + 1])
    BY <2>2, <2>3, CharSteps, Zenon
  <2>5. m.mode \in Modes
    BY <2>2, <2>4, ModeAfter, Zenon
  <2>6. Good(m, k + 1)
    BY <2>2, <2>4, <2>5
  <2> QED
    BY <2>6 DEF m
<1> HIDE DEF S
<1>3. Nat \subseteq S
  BY <1>1, <1>2, NatSetInduction
<1>4. ASSUME NEW k \in 0..Len(t) PROVE Good(LexTo(t)[k], k)
  <2>1. k \in S /\ k <= Len(t)
    BY <1>3
  <2> QED
    BY <2>1 DEF S
<1> QED
  BY <1>4

(***************************************************************************)
(* The scanner takes out the commas that the library would meet before a   *)
(* bracket or a brace, from a text of any length.                          *)
(***************************************************************************)
THEOREM SameCommas ==
    ASSUME NEW t, Len(t) \in Nat, NoBareReturn(t)
    PROVE  TrailingCommas(t) = Lex(t).trailing
<1> DEFINE n == Len(t)
           T == Lex(t).trailing
           S == {i \in Nat \ {0} : i <= n + 1 => Adds(T, t, LexTo(t)[i - 1], i)}
<1>1. \A i \in Nat \ {0} : i > n + 1 => i \in S
  OBVIOUS
<1>2. n + 1 \in S
  <2>1. Adds(T, t, LexTo(t)[n], n + 1)
    BY LexIs, AddsAtEnd, Zenon
  <2> QED
    BY <2>1
<1>3. ASSUME NEW i \in 1..n, i + 1 \in S PROVE i \in S
  <2> DEFINE l == LexTo(t)[i - 1]
             m == LexTo(t)[i]
  <2>1. i - 1 \in 0..n /\ (i - 1) + 1 = i /\ i + 1 <= n + 1 /\ (i + 1) - 1 = i
    OBVIOUS
  <2>2. IsLexer(l) /\ l.mode \in Modes /\ l.at = i
    BY <2>1, LexerAt
  <2>3. m = LexChar(l, t[i])
    BY LexToSteps
  <2>4. Adds(T, t, m, i + 1)
    BY <1>3, <2>1
  <2> HIDE DEF l, m
  <2>5. IsAfter(m, l, t[i])
    BY <2>2, <2>3, CharSteps, Zenon
  <2>6. Adds(T, t, l, i)
    BY <2>2, <2>4, <2>5, AddsBefore, Zenon
  <2> QED
    BY <2>6 DEF l
<1>4. ASSUME NEW i \in 1..n + 1, \A j \in Nat \ {0} : j > i => j \in S PROVE i \in S
  <2>1. CASE i = n + 1
    BY <1>2, <2>1
  <2>2. CASE i \in 1..n
    <3>1. i + 1 \in S
      BY <1>4, <2>2
    <3> QED
      BY <1>3, <2>2, <3>1
  <2> QED
    BY <2>1, <2>2
<1> HIDE DEF S
<1>5. Nat \ {0} \subseteq S
  <2>1. n + 1 \in Nat
    OBVIOUS
  <2> QED
    BY <1>1, <1>4, <2>1, DownwardInduction
<1>6. Adds(T, t, LexerStart, 1)
  <2>1. 1 \in S /\ 1 <= n + 1 /\ 1 - 1 = 0
    BY <1>5
  <2>2. Adds(T, t, LexTo(t)[1 - 1], 1)
    BY <2>1 DEF S
  <2> QED
    BY <2>1, <2>2, LexToSteps
<1>7. T = {} \cup Rest(t, 0, 1)
  BY <1>6, Zenon DEF Adds, LexerStart
<1>8. Pending(t, 0, 1) = {}
  BY DEF Pending
<1> QED
  BY <1>7, <1>8, TrailingCommasIs DEF Rest

(***************************************************************************)
(* Whatever a person types into a file, SanitiseJsonc takes out exactly    *)
(* the commas the library would meet before a bracket or a brace           *)
(* (Jsonc.hpp:5-9), with a byte order mark at its start or without, if     *)
(* every carriage return in it comes before a line feed.                   *)
(***************************************************************************)
THEOREM CommasAlwaysMatch ==
    ASSUME NEW A, NEW text \in Seq(A)
    PROVE  CommasMatch(text)
<1> DEFINE t == StripBom(text)
<1>1. SUFFICES ASSUME ~BareReturn(text) PROVE TrailingCommas(t) = Lex(t).trailing
  BY Zenon DEF CommasMatch
<1>2. \A i \in 1..Len(text) : text[i] = "\r" => i # Len(text) /\ text[i + 1] = "\n"
  BY <1>1 DEF BareReturn
<1>3. CASE text # <<>> /\ text[1] = "BOM"
  <2>1. t = Tail(text)
    BY <1>3 DEF StripBom
  <2>2. Len(t) \in Nat /\ Len(text) = Len(t) + 1 /\ \A i \in 1..Len(t) : t[i] = text[i + 1]
    BY <1>3, <2>1
  <2> HIDE DEF t
  <2>3. NoBareReturn(t)
    <3>1. SUFFICES ASSUME NEW i \in 1..Len(t), t[i] = "\r" PROVE i < Len(t) /\ t[i + 1] = "\n"
      BY DEF NoBareReturn
    <3>2. i + 1 \in 1..Len(text) /\ text[i + 1] = "\r"
      BY <2>2, <3>1
    <3>3. i + 1 # Len(text) /\ text[(i + 1) + 1] = "\n"
      BY <1>2, <3>2
    <3>4. i < Len(t) /\ i + 1 \in 1..Len(t)
      BY <2>2, <3>3
    <3> QED
      BY <2>2, <3>3, <3>4
  <2> QED
    BY <2>2, <2>3, SameCommas
<1>4. CASE ~(text # <<>> /\ text[1] = "BOM")
  <2>1. t = text /\ Len(text) \in Nat
    BY <1>4 DEF StripBom
  <2>2. NoBareReturn(text)
    BY <1>2, <2>1 DEF NoBareReturn
  <2> HIDE DEF t
  <2> QED
    BY <2>1, <2>2, SameCommas
<1> QED
  BY <1>3, <1>4

-----------------------------------------------------------------------------
(* What the writer puts into a file *)

\* What a character does to the string that is being read and to those that have
\* been.
Reads(m, l, c) ==
    /\ l.mode = "code" /\ c = Quote => m.reading = <<>>
    /\ l.mode = "escape" => m.reading = Append(l.reading, Unescaped(c))
    /\ l.mode = "string" /\ c = Backslash => m.reading = l.reading
    /\ l.mode = "string" /\ c # Backslash /\ c # Quote => m.reading = Append(l.reading, c)
    /\ l.mode = "string" /\ c = Quote => m.strings = Append(l.strings, l.reading)
    /\ l.mode # "string" \/ c # Quote => m.strings = l.strings

\* In code a quote begins a string, and no character ends one.
LEMMA CodeReads ==
    ASSUME NEW l, IsLexer(l), NEW c
    PROVE  LET m == LexCode(l, c)
           IN  m.strings = l.strings /\ (c = Quote => m.reading = <<>>)
<1> DEFINE m == LexCode(l, c)
<1>1. CASE IsSpace(c)
  <2>1. m = [l EXCEPT !.mode = "code"]
    BY <1>1, Different, Zenon DEF LexCode, Quote
  <2> QED
    BY <1>1, <2>1, Different, Zenon DEF IsLexer
<1>2. CASE c = ","
  <2>1. m = [l EXCEPT !.mode = "code", !.comma = l.at]
    BY <1>2, Different, Zenon DEF LexCode, Quote
  <2> QED
    BY <1>2, <2>1, Different, Zenon DEF IsLexer
<1>3. CASE c = Quote
  <2>1. m = [l EXCEPT !.mode = "string", !.comma = 0, !.reading = <<>>]
    BY <1>3, Different, Zenon DEF LexCode, Quote
  <2> QED
    BY <2>1, Zenon DEF IsLexer
<1>4. CASE IsClosing(c)
  <2>1. m = [l EXCEPT !.mode = "code", !.comma = 0,
                      !.trailing = l.trailing \cup ({l.comma} \ {0})]
    BY <1>4, Different, Zenon DEF LexCode, Quote
  <2> QED
    BY <1>4, <2>1, Different, Zenon DEF IsLexer
<1>5. CASE ~IsSpace(c) /\ ~IsClosing(c) /\ c # "," /\ c # Quote
  <2>1. m = [l EXCEPT !.mode = "code", !.comma = 0]
    BY <1>5, Zenon DEF LexCode, Quote
  <2> QED
    BY <1>5, <2>1, Zenon DEF IsLexer
<1> QED
  BY <1>1, <1>2, <1>3, <1>4, <1>5, Zenon

\* So it is with a step of the lexer, whatever the mode.
LEMMA CharReads ==
    ASSUME NEW l, IsLexer(l), l.mode \in Modes, NEW c
    PROVE  Reads(LexChar(l, c), l, c)
<1> DEFINE k == LexMode(l, c)
           m == LexChar(l, c)
<1>1. Quote # "/" /\ Quote # "*" /\ Quote # Backslash
  BY Zenon DEF Quote, Backslash
<1>2. Reads(k, l, c)
  <2>1. CASE l.mode = "code"
    <3>1. CASE c = "/"
      <4>1. k = [l EXCEPT !.mode = "slash"]
        BY <2>1, <3>1, Zenon DEF LexMode
      <4>2. k.strings = l.strings
        BY <4>1, Zenon DEF IsLexer
      <4> QED
        BY <1>1, <2>1, <3>1, <4>2, Zenon DEF Reads
    <3>2. CASE c # "/"
      <4>1. k = LexCode(l, c)
        BY <2>1, <3>2, Zenon DEF LexMode
      <4> QED
        BY <2>1, <4>1, CodeReads, Zenon DEF Reads
    <3> QED
      BY <3>1, <3>2, Zenon
  <2>2. CASE l.mode \in {"slash", "line", "block", "star"}
    <3>1. k.strings = l.strings
      <4>1. CASE l.mode = "slash" /\ c \in {"/", "*"}
        <5>1. k = [l EXCEPT !.mode = "line"] \/ k = [l EXCEPT !.mode = "block"]
          BY <4>1, Zenon DEF LexMode
        <5> QED
          BY <5>1, Zenon DEF IsLexer
      <4>2. CASE l.mode = "slash" /\ c \notin {"/", "*"}
        <5>1. PICK j : j = [l EXCEPT !.comma = 0]
          OBVIOUS
        <5>2. k = LexCode(j, c)
          BY <4>2, <5>1, Zenon DEF LexMode
        <5>3. IsLexer(j) /\ j.strings = l.strings
          BY <5>1, Zenon DEF IsLexer
        <5> QED
          BY <5>2, <5>3, CodeReads, Zenon
      <4>3. CASE l.mode = "line"
        <5>1. k = [l EXCEPT !.mode = "code"] \/ k = l
          BY <4>3, Zenon DEF LexMode
        <5> QED
          BY <5>1, Zenon DEF IsLexer
      <4>4. CASE l.mode = "block"
        <5>1. k = [l EXCEPT !.mode = "star"] \/ k = l
          BY <4>4, Zenon DEF LexMode
        <5> QED
          BY <5>1, Zenon DEF IsLexer
      <4>5. CASE l.mode = "star"
        <5>1. k = [l EXCEPT !.mode = "code"] \/ k = [l EXCEPT !.mode = "block"] \/ k = l
          BY <4>5, Zenon DEF LexMode
        <5> QED
          BY <5>1, Zenon DEF IsLexer
      <4> QED
        BY <2>2, <4>1, <4>2, <4>3, <4>4, <4>5, Zenon
    <3> QED
      BY <2>2, <3>1, Zenon DEF Reads
  <2>3. CASE l.mode = "escape"
    <3>1. k = [l EXCEPT !.mode = "string", !.reading = Append(l.reading, Unescaped(c))]
      BY <2>3, Zenon DEF LexMode
    <3>2. k.strings = l.strings /\ k.reading = Append(l.reading, Unescaped(c))
      BY <3>1, Zenon DEF IsLexer
    <3> QED
      BY <2>3, <3>2, Zenon DEF Reads
  <2>4. CASE l.mode = "string"
    <3>1. k = LexString(l, c)
      BY <2>4, Zenon DEF LexMode
    <3>2. CASE c = Backslash
      <4>1. k = [l EXCEPT !.mode = "escape"]
        BY <3>1, <3>2, Different, Zenon DEF LexString, Quote, Backslash
      <4>2. k.strings = l.strings /\ k.reading = l.reading
        BY <4>1, Zenon DEF IsLexer
      <4> QED
        BY <1>1, <2>4, <3>2, <4>2, Zenon DEF Reads
    <3>3. CASE c # Backslash /\ c = Quote
      <4>1. k = [l EXCEPT !.mode = "code", !.strings = Append(l.strings, l.reading)]
        BY <3>1, <3>3, Different, Zenon DEF LexString, Quote, Backslash
      <4>2. k.strings = Append(l.strings, l.reading)
        BY <4>1, Zenon DEF IsLexer
      <4> QED
        BY <1>1, <2>4, <3>3, <4>2, Zenon DEF Reads
    <3>4. CASE c # Backslash /\ c # Quote
      <4>1. k = [l EXCEPT !.reading = Append(l.reading, c)]
        BY <3>1, <3>4, Zenon DEF LexString, Quote, Backslash
      <4>2. k.strings = l.strings /\ k.reading = Append(l.reading, c)
        BY <4>1, Zenon DEF IsLexer
      <4> QED
        BY <2>4, <3>4, <4>2, Zenon DEF Reads
    <3> QED
      BY <3>2, <3>3, <3>4, Zenon
  <2> QED
    BY <2>1, <2>2, <2>3, <2>4, Zenon DEF Modes
<1>3. IsLexer(k)
  BY ModeSteps, Zenon
<1> HIDE DEF k
<1>4. m = [k EXCEPT !.at = k.at + 1]
  BY Zenon DEF LexChar, k
<1>5. m.reading = k.reading /\ m.strings = k.strings
  BY <1>3, <1>4, Zenon DEF IsLexer
<1> HIDE DEF m
<1>6. Reads(m, l, c)
  BY <1>2, <1>5, Zenon DEF Reads
<1> QED
  BY <1>6 DEF m

\* A text with a character put behind it, and the text alone, position by position.
LEMMA PutBehind ==
    ASSUME NEW A, NEW p \in Seq(A), NEW c \in A
    PROVE  /\ p \o <<c>> \in Seq(A) /\ Len(p \o <<c>>) = Len(p) + 1 /\ Len(p) \in Nat
           /\ \A i \in 1..Len(p) : (p \o <<c>>)[i] = p[i]
           /\ (p \o <<c>>)[Len(p) + 1] = c
OBVIOUS

\* The lexer reads a character more.
LEMMA LexOneMore ==
    ASSUME NEW A, NEW p \in Seq(A), NEW c \in A
    PROVE  /\ Lex(p \o <<c>>) = LexChar(Lex(p), c)
           /\ IsLexer(Lex(p)) /\ Lex(p).mode \in Modes /\ Lex(p).at = Len(p) + 1
           /\ IsAfter(Lex(p \o <<c>>), Lex(p), c)
           /\ Reads(Lex(p \o <<c>>), Lex(p), c)
<1> DEFINE n == Len(p)
<1>1. PICK q : q = p \o <<c>>
  OBVIOUS
<1>2. n \in Nat /\ Len(q) = n + 1 /\ q[n + 1] = c /\ \A i \in 1..n : q[i] = p[i]
  BY <1>1, PutBehind
<1> DEFINE S == {k \in Nat : k <= n => LexTo(q)[k] = LexTo(p)[k]}
<1>3. 0 \in S
  BY <1>2, LexToSteps
<1>4. ASSUME NEW k \in Nat, k \in S PROVE k + 1 \in S
  <2>1. SUFFICES ASSUME k + 1 <= n PROVE LexTo(q)[k + 1] = LexTo(p)[k + 1]
    OBVIOUS
  <2>2. k + 1 \in 1..n /\ k + 1 \in 1..n + 1 /\ (k + 1) - 1 = k /\ n + 1 \in Nat
    BY <1>2, <2>1
  <2>3. LexTo(q)[k] = LexTo(p)[k]
    BY <1>4, <2>1
  <2>4. LexTo(q)[k + 1] = LexChar(LexTo(q)[k], q[k + 1])
    BY <1>2, <2>2, LexToSteps
  <2>5. LexTo(p)[k + 1] = LexChar(LexTo(p)[k], p[k + 1])
    BY <1>2, <2>2, LexToSteps
  <2> QED
    BY <1>2, <2>2, <2>3, <2>4, <2>5, Zenon
<1> HIDE DEF S
<1>5. n \in S
  BY <1>2, <1>3, <1>4, NatSetInduction
<1>6. LexTo(q)[n] = LexTo(p)[n]
  BY <1>2, <1>5 DEF S
<1>7. LexTo(q)[n + 1] = LexChar(LexTo(q)[n], q[n + 1])
  <2>1. n + 1 \in 1..Len(q) /\ (n + 1) - 1 = n /\ Len(q) \in Nat
    BY <1>2
  <2> QED
    BY <2>1, LexToSteps
<1>8. Lex(q) = LexChar(Lex(p), c)
  BY <1>2, <1>6, <1>7, LexIs, Zenon
<1>9. IsLexer(Lex(p)) /\ Lex(p).mode \in Modes /\ Lex(p).at = n + 1
  <2>1. n \in 0..n
    BY <1>2
  <2>2. Lex(p) = LexTo(p)[n]
    BY LexIs, Zenon
  <2> QED
    BY <1>2, <2>1, <2>2, LexerAt
<1> QED
  BY <1>1, <1>8, <1>9, CharSteps, CharReads, Zenon

\* What FlattenSeq recurses with, as far as m.
IsFlat(g, seqs, m) == g = [i \in 1..m |-> IF i = 1 THEN seqs[i] ELSE g[i - 1] \o seqs[i]]
Flat(seqs) == CHOOSE g : IsFlat(g, seqs, Len(seqs))

\* There is such a function, for any number of pieces.
LEMMA FlatExists ==
    ASSUME NEW seqs, Len(seqs) \in Nat
    PROVE  IsFlat(Flat(seqs), seqs, Len(seqs))
<1> DEFINE n == Len(seqs)
           S == {m \in Nat : \E g : IsFlat(g, seqs, m)}
<1>1. 0 \in S
  <2>1. IsFlat([i \in 1..0 |-> <<>>], seqs, 0)
    BY DEF IsFlat
  <2> QED
    BY <2>1
<1>2. ASSUME NEW m \in Nat, m \in S PROVE m + 1 \in S
  <2>1. PICK g : IsFlat(g, seqs, m)
    BY <1>2
  <2> DEFINE h == [i \in 1..m + 1 |->
                      IF i = m + 1 THEN (IF i = 1 THEN seqs[i] ELSE g[m] \o seqs[i]) ELSE g[i]]
  <2>2. \A i \in 1..m : g[i] = IF i = 1 THEN seqs[i] ELSE g[i - 1] \o seqs[i]
    BY <2>1 DEF IsFlat
  <2>3. ASSUME NEW i \in 1..m + 1 PROVE h[i] = IF i = 1 THEN seqs[i] ELSE h[i - 1] \o seqs[i]
    <3>1. CASE i = m + 1
      <4>1. i # 1 => h[i - 1] = g[m]
        BY <3>1
      <4> QED
        BY <3>1, <4>1
    <3>2. CASE i \in 1..m
      <4>1. h[i] = g[i] /\ (i # 1 => h[i - 1] = g[i - 1])
        BY <3>2
      <4> QED
        BY <2>2, <3>2, <4>1
    <3> QED
      BY <3>1, <3>2
  <2>4. IsFlat(h, seqs, m + 1)
    BY <2>3 DEF IsFlat
  <2> HIDE DEF h
  <2> QED
    BY <2>4
<1> HIDE DEF S
<1>3. n \in S
  BY <1>1, <1>2, NatSetInduction
<1> QED
  BY <1>3, Zenon DEF S, Flat

\* The pieces up to the k-th one after another.
Joined(seqs, k) == IF k = 0 THEN <<>> ELSE Flat(seqs)[k]

\* Pieces put together one after another.
LEMMA Flattened ==
    ASSUME NEW A, NEW seqs \in Seq(Seq(A))
    PROVE  /\ Joined(seqs, 0) = <<>> /\ FlattenSeq(seqs) = Joined(seqs, Len(seqs))
           /\ \A k \in 1..Len(seqs) : Joined(seqs, k) = Joined(seqs, k - 1) \o seqs[k]
           /\ \A k \in 0..Len(seqs) : Joined(seqs, k) \in Seq(A)
<1> DEFINE n == Len(seqs)
           f(k) == Joined(seqs, k)
<1>1. n \in Nat /\ (n = 0 => seqs = <<>>)
  OBVIOUS
<1>2. \A i \in 1..n : Flat(seqs)[i] = IF i = 1 THEN seqs[i] ELSE Flat(seqs)[i - 1] \o seqs[i]
  <2>1. IsFlat(Flat(seqs), seqs, n)
    BY <1>1, FlatExists
  <2> QED
    BY <2>1, Zenon DEF IsFlat
<1>3. FlattenSeq(seqs) = f(n)
  <2>1. FlattenSeq(seqs) = IF n = 0 THEN seqs ELSE Flat(seqs)[n]
    BY Zenon DEF FlattenSeq, Flat, IsFlat
  <2> QED
    BY <1>1, <2>1 DEF Joined
<1>4. ASSUME NEW k \in 1..n PROVE f(k) = f(k - 1) \o seqs[k]
  <2>1. CASE k = 1
    <3>1. f(k) = seqs[1] /\ f(k - 1) = <<>>
      BY <1>2, <2>1 DEF Joined
    <3>2. seqs[1] \in Seq(A)
      BY <2>1
    <3>3. <<>> \o seqs[1] = seqs[1]
      BY <3>2
    <3> QED
      BY <2>1, <3>1, <3>3, Zenon
  <2>2. CASE k # 1
    <3>1. k # 0 /\ k - 1 # 0
      BY <2>2
    <3>2. f(k) = Flat(seqs)[k] /\ f(k - 1) = Flat(seqs)[k - 1]
      BY <3>1 DEF Joined
    <3> QED
      BY <1>2, <2>2, <3>2, Zenon
  <2> QED
    BY <2>1, <2>2
<1>5. f(0) = <<>>
  BY DEF Joined
<1> DEFINE Typed == {k \in Nat : k <= n => f(k) \in Seq(A)}
<1>6. 0 \in Typed
  <2>1. <<>> \in Seq(A)
    OBVIOUS
  <2> QED
    BY <1>5, <2>1
<1>7. ASSUME NEW k \in Nat, k \in Typed PROVE k + 1 \in Typed
  <2>1. SUFFICES ASSUME k + 1 <= n PROVE f(k + 1) \in Seq(A)
    OBVIOUS
  <2>2. f(k + 1) = f(k) \o seqs[k + 1]
    <3>1. k + 1 \in 1..n /\ (k + 1) - 1 = k
      BY <2>1
    <3> QED
      BY <1>4, <3>1, Zenon
  <2>3. f(k) \in Seq(A) /\ seqs[k + 1] \in Seq(A)
    BY <1>7, <2>1
  <2> QED
    BY <2>2, <2>3, ConcatProperties, Zenon
<1> HIDE DEF Typed
<1>8. Nat \subseteq Typed
  BY <1>6, <1>7, NatSetInduction
<1>9. \A k \in 0..n : f(k) \in Seq(A)
  BY <1>8 DEF Typed
<1> QED
  BY <1>3, <1>4, <1>5, <1>9

\* A piece for each character of a text.
LEMMA PiecesFlattened ==
    ASSUME NEW A, NEW text, Len(text) \in Nat, NEW pieces \in Seq(Seq(A)),
           Len(pieces) = Len(text)
    PROVE  /\ Joined(pieces, 0) = <<>> /\ FlattenSeq(pieces) = Joined(pieces, Len(text))
           /\ \A k \in Nat : k + 1 <= Len(text) =>
                    /\ Joined(pieces, k + 1) = Joined(pieces, k) \o pieces[k + 1]
                    /\ Joined(pieces, k) \in Seq(A) /\ pieces[k + 1] \in Seq(A)
           /\ Joined(pieces, Len(text)) \in Seq(A)
<1>1. ASSUME NEW k \in Nat, k + 1 <= Len(text)
      PROVE  /\ Joined(pieces, k + 1) = Joined(pieces, k) \o pieces[k + 1]
             /\ Joined(pieces, k) \in Seq(A) /\ pieces[k + 1] \in Seq(A)
  <2>1. k + 1 \in 1..Len(text) /\ k \in 0..Len(text) /\ (k + 1) - 1 = k
    BY <1>1
  <2>2. pieces[k + 1] \in Seq(A)
    BY <2>1
  <2> QED
    BY <2>1, <2>2, Flattened, Zenon
<1>2. Len(text) \in 0..Len(text)
  OBVIOUS
<1> QED
  BY <1>1, <1>2, Flattened, Zenon

\* Nothing is taken out of a text in which no comma is to be.
LEMMA NothingErased ==
    ASSUME NEW A, NEW text \in Seq(A)
    PROVE  Erase(text, {}) = text
<1> DEFINE n == Len(text)
<1>1. PICK pieces : pieces = [i \in DOMAIN text |-> IF i \in {} THEN <<>> ELSE <<text[i]>>]
  OBVIOUS
<1>2. Erase(text, {}) = FlattenSeq(pieces)
  BY <1>1, Zenon DEF Erase
<1>3. n \in Nat /\ DOMAIN text = 1..n /\ \A i \in 1..n : text[i] \in A /\ <<text[i]>> \in Seq(A)
  OBVIOUS
<1>4. \A i \in 1..n : pieces[i] = <<text[i]>>
  BY <1>1, <1>3
<1>5. pieces \in Seq(Seq(A)) /\ Len(pieces) = n
  <2>1. pieces \in [1..n -> Seq(A)]
    BY <1>1, <1>3
  <2> HIDE DEF n
  <2> QED
    BY <1>3, <2>1
<1> DEFINE f(k) == Joined(pieces, k)
           Same(q, k) == Len(q) = k /\ \A i \in 1..k : q[i] = text[i]
           S == {k \in Nat : k <= n => Same(f(k), k)}
<1>6. 0 \in S
  <2>1. f(0) = <<>>
    BY <1>3, <1>5, PiecesFlattened
  <2> QED
    BY <2>1
<1>7. ASSUME NEW k \in Nat, k \in S PROVE k + 1 \in S
  <2>1. SUFFICES ASSUME k + 1 <= n PROVE Same(f(k + 1), k + 1)
    OBVIOUS
  <2>2. k + 1 \in 1..n
    BY <2>1
  <2>3. f(k + 1) = f(k) \o pieces[k + 1] /\ f(k) \in Seq(A)
    BY <1>3, <1>5, <2>1, PiecesFlattened
  <2>4. PICK q \in Seq(A) : q = f(k)
    BY <2>3
  <2>5. Same(q, k)
    BY <1>7, <2>1, <2>4
  <2>6. PICK c \in A : c = text[k + 1]
    BY <1>3, <2>2
  <2>7. f(k + 1) = q \o <<c>>
    BY <1>4, <2>2, <2>3, <2>4, <2>6, Zenon
  <2>8. Same(q \o <<c>>, k + 1)
    BY <2>5, <2>6
  <2> QED
    BY <2>7, <2>8, Zenon
<1> HIDE DEF S
<1>8. n \in S
  BY <1>3, <1>6, <1>7, NatSetInduction
<1>9. Same(f(n), n)
  BY <1>8 DEF S
<1>10. f(n) \in Seq(A) /\ FlattenSeq(pieces) = f(n)
  BY <1>3, <1>5, PiecesFlattened
<1>11. PICK q \in Seq(A) : q = f(n)
  BY <1>10
<1>12. q = text
  BY <1>9, <1>11
<1> QED
  BY <1>2, <1>10, <1>11, <1>12, Zenon

\* A carriage return comes before a line feed, but for one at the end; and there is
\* none at the end.
Returns(p) == \A i \in 1..Len(p) - 1 : p[i] = "\r" => p[i + 1] = "\n"
Ended(p) == \A i \in 1..Len(p) : i = Len(p) => p[i] # "\r"

\* A character put behind such a text leaves it such.
LEMMA ReturnsGoOn ==
    ASSUME NEW A, NEW p \in Seq(A), NEW c \in A, Returns(p), Ended(p) \/ c = "\n"
    PROVE  /\ Returns(p \o <<c>>)
           /\ c # "\r" => Ended(p \o <<c>>)
<1>1. PICK q : q = p \o <<c>>
  OBVIOUS
<1>2. /\ Len(q) = Len(p) + 1 /\ Len(p) \in Nat
      /\ \A i \in 1..Len(p) : q[i] = p[i]
      /\ q[Len(p) + 1] = c
  BY <1>1, SMTT(30)
<1>3. Returns(q)
  <2>1. SUFFICES ASSUME NEW i \in 1..Len(p), q[i] = "\r" PROVE q[i + 1] = "\n"
    BY <1>2 DEF Returns
  <2>2. p[i] = "\r"
    BY <1>2, <2>1
  <2>3. CASE i = Len(p)
    BY <1>2, <2>2, <2>3 DEF Ended
  <2>4. CASE i # Len(p)
    <3>1. i \in 1..Len(p) - 1 /\ i + 1 \in 1..Len(p)
      BY <1>2, <2>4
    <3> QED
      BY <1>2, <2>2, <3>1 DEF Returns
  <2> QED
    BY <2>3, <2>4
<1>4. c # "\r" => Ended(q)
  BY <1>2 DEF Ended
<1> QED
  BY <1>1, <1>3, <1>4

\* The text p of the lexer's is read up to a mode, with a comma or 0 for none, no
\* trailing comma and these strings.
Stands(p, A, mode, comma, strings) ==
    /\ p \in Seq(A) /\ Returns(p)
    /\ IsIn(Lex(p), mode, comma, {}) /\ Lex(p).strings = strings

\* What the lexer makes of a character c it reads behind a text p, in each mode; q is
\* the text with the character.
AsRead(q, p, A, c, mode, comma, strings) ==
    /\ c # "\r" => Ended(q)
    /\ mode = "code" /\ c = Quote =>
             Stands(q, A, "string", 0, strings) /\ Lex(q).reading = <<>>
    /\ mode = "code" /\ c = "/" => Stands(q, A, "slash", comma, strings)
    /\ mode = "code" /\ c = "," => Stands(q, A, "code", Len(p) + 1, strings)
    /\ mode = "code" /\ IsSpace(c) => Stands(q, A, "code", comma, strings)
    /\ mode = "code" /\ IsClosing(c) /\ comma = 0 => Stands(q, A, "code", 0, strings)
    /\ mode = "slash" /\ c = "/" => Stands(q, A, "line", comma, strings)
    /\ mode = "line" /\ c \in {"\n", "\r"} => Stands(q, A, "code", comma, strings)
    /\ mode = "line" /\ c \notin {"\n", "\r"} => Stands(q, A, "line", comma, strings)
    /\ mode = "string" /\ c = Backslash =>
             Stands(q, A, "escape", comma, strings) /\ Lex(q).reading = Lex(p).reading
    /\ mode = "escape" => Stands(q, A, "string", comma, strings)
                             /\ Lex(q).reading = Append(Lex(p).reading, Unescaped(c))
    /\ mode = "string" /\ c # Backslash /\ c # Quote =>
             Stands(q, A, "string", comma, strings) /\ Lex(q).reading = Append(Lex(p).reading, c)
    /\ mode = "string" /\ c = Quote =>
             Stands(q, A, "code", comma, Append(strings, Lex(p).reading))

\* So it is with every character, but for one behind a carriage return, which has to
\* be a line feed.
LEMMA Reading ==
    ASSUME NEW A, NEW p, NEW mode, NEW comma, NEW strings, Stands(p, A, mode, comma, strings),
           NEW c \in A, Ended(p) \/ c = "\n"
    PROVE  AsRead(p \o <<c>>, p, A, c, mode, comma, strings)
<1>1. PICK q : q = p \o <<c>>
  OBVIOUS
<1>2. PICK l, m : l = Lex(p) /\ m = Lex(q)
  OBVIOUS
<1>3. p \in Seq(A) /\ Returns(p) /\ IsIn(l, mode, comma, {}) /\ l.strings = strings
  BY <1>2, Zenon DEF Stands
<1>4. q \in Seq(A)
  BY <1>1, <1>3, PutBehind, Zenon
<1>5. Returns(q) /\ (c # "\r" => Ended(q))
  BY <1>1, <1>3, ReturnsGoOn, Zenon
<1>6. IsAfter(m, l, c) /\ Reads(m, l, c) /\ l.at = Len(p) + 1
  BY <1>1, <1>2, <1>3, LexOneMore, Zenon
<1>7. l.mode = mode /\ l.comma = comma /\ l.trailing = {}
  BY <1>3, Zenon DEF IsIn
<1>8. \A mo, co, st : IsIn(m, mo, co, {}) /\ m.strings = st => Stands(q, A, mo, co, st)
  BY <1>2, <1>4, <1>5, Zenon DEF Stands
<1>9. mode = "code" => /\ c = Quote => IsIn(m, "string", 0, {}) /\ m.strings = strings /\ m.reading = <<>>
                       /\ c = "/" => IsIn(m, "slash", comma, {}) /\ m.strings = strings
                       /\ c = "," => IsIn(m, "code", Len(p) + 1, {}) /\ m.strings = strings
                       /\ IsSpace(c) => IsIn(m, "code", comma, {}) /\ m.strings = strings
                       /\ IsClosing(c) /\ comma = 0 => IsIn(m, "code", 0, {}) /\ m.strings = strings
  <2>1. SUFFICES ASSUME mode = "code"
                 PROVE  /\ c = Quote => IsIn(m, "string", 0, {}) /\ m.reading = <<>>
                        /\ c = "/" => IsIn(m, "slash", comma, {})
                        /\ c = "," => IsIn(m, "code", Len(p) + 1, {})
                        /\ IsSpace(c) => IsIn(m, "code", comma, {})
                        /\ IsClosing(c) /\ comma = 0 => IsIn(m, "code", 0, {})
                        /\ m.strings = strings
    BY Zenon
  <2>2. m.strings = strings /\ (c = Quote => m.reading = <<>>)
    BY <1>3, <1>6, <1>7, <2>1, Zenon DEF Reads
  <2>3. c = "/" => IsIn(m, "slash", comma, {})
    BY <1>6, <1>7, <2>1, Zenon DEF IsAfter
  <2>4. c # "/" => IsAfterCode(m, c, Len(p) + 1, comma, {})
    BY <1>6, <1>7, <2>1, Zenon DEF IsAfter
  <2>5. {} \cup ({0} \ {0}) = {}
    OBVIOUS
  <2>6. c # "/" => /\ c = Quote => IsIn(m, "string", 0, {})
                   /\ c = "," => IsIn(m, "code", Len(p) + 1, {})
                   /\ IsSpace(c) => IsIn(m, "code", comma, {})
                   /\ IsClosing(c) /\ comma = 0 => IsIn(m, "code", 0, {})
    BY <2>4, <2>5, Zenon DEF IsAfterCode
  <2> QED
    BY <2>2, <2>3, <2>6, Different, Zenon
<1>10. mode \in {"slash", "line"} => /\ mode = "slash" /\ c = "/" => IsIn(m, "line", comma, {})
                                     /\ mode = "line" /\ c \in {"\n", "\r"} => IsIn(m, "code", comma, {})
                                     /\ mode = "line" /\ c \notin {"\n", "\r"} => IsIn(m, "line", comma, {})
                                     /\ m.strings = strings
  BY <1>3, <1>6, <1>7, Zenon DEF IsAfter, Reads
<1>11. mode = "escape" => IsIn(m, "string", comma, {}) /\ m.strings = strings
                            /\ m.reading = Append(l.reading, Unescaped(c))
  BY <1>3, <1>6, <1>7, Zenon DEF IsAfter, Reads
<1>12. mode = "string" => /\ c = Backslash => IsIn(m, "escape", comma, {}) /\ m.strings = strings
                                                /\ m.reading = l.reading
                          /\ c # Backslash /\ c # Quote => IsIn(m, "string", comma, {})
                                /\ m.strings = strings /\ m.reading = Append(l.reading, c)
                          /\ c = Quote => IsIn(m, "code", comma, {})
                                /\ m.strings = Append(strings, l.reading)
  <2>1. SUFFICES ASSUME mode = "string"
                 PROVE  /\ c = Backslash => IsIn(m, "escape", comma, {}) /\ m.strings = strings
                                              /\ m.reading = l.reading
                        /\ c # Backslash /\ c # Quote => IsIn(m, "string", comma, {})
                                /\ m.strings = strings /\ m.reading = Append(l.reading, c)
                        /\ c = Quote => IsIn(m, "code", comma, {})
                                /\ m.strings = Append(strings, l.reading)
    OBVIOUS
  <2>2. Quote # Backslash
    BY Different, Zenon
  <2>3. /\ c = Backslash => IsIn(m, "escape", comma, {})
        /\ c # Backslash /\ c # Quote => IsIn(m, "string", comma, {})
        /\ c = Quote => IsIn(m, "code", comma, {})
    BY <1>6, <1>7, <2>1, <2>2, Zenon DEF IsAfter
  <2>4. /\ c = Backslash => m.strings = strings /\ m.reading = l.reading
        /\ c # Backslash /\ c # Quote => m.strings = strings /\ m.reading = Append(l.reading, c)
        /\ c = Quote => m.strings = Append(strings, l.reading)
    BY <1>3, <1>6, <1>7, <2>1, <2>2, Zenon DEF Reads
  <2> QED
    BY <2>3, <2>4, Zenon
<1>13. CASE mode = "code"
  BY <1>1, <1>2, <1>5, <1>8, <1>9, <1>13, Zenon DEF AsRead
<1>14. CASE mode \in {"slash", "line"}
  BY <1>1, <1>2, <1>5, <1>8, <1>10, <1>14, Zenon DEF AsRead
<1>15. CASE mode = "escape"
  BY <1>1, <1>2, <1>5, <1>8, <1>11, <1>15, Zenon DEF AsRead
<1>16. CASE mode = "string"
  BY <1>1, <1>2, <1>5, <1>8, <1>12, <1>16, Zenon DEF AsRead
<1>17. CASE mode \notin {"code", "slash", "line", "escape", "string"}
  BY <1>1, <1>5, <1>17, Zenon DEF AsRead
<1> QED
  BY <1>13, <1>14, <1>15, <1>16, <1>17, Zenon

\* The characters a rendering of a text over A can have.
Glyphs(A) == A \cup {Quote, Backslash, "n", "r", "t", "f", "u0001", "/", "\n", ",", "]"}

\* An escape gives back the character it stands for.
LEMMA EscapeLetters ==
    /\ DOMAIN EscapeLetter = {Quote, Backslash, "\n", "\r", "\t", "\f"}
    /\ EscapeLetter[Quote] = Quote /\ EscapeLetter[Backslash] = Backslash
    /\ EscapeLetter["\n"] = "n" /\ EscapeLetter["\r"] = "r"
    /\ EscapeLetter["\t"] = "t" /\ EscapeLetter["\f"] = "f"
BY Zenon DEF EscapeLetter, Quote, Backslash

\* No two characters share an escape letter.
LEMMA LettersDiffer ==
    ASSUME NEW c \in DOMAIN EscapeLetter, NEW d \in DOMAIN EscapeLetter,
           EscapeLetter[c] = EscapeLetter[d]
    PROVE  c = d
<1>1. c \in {Quote, Backslash, "\n", "\r", "\t", "\f"} /\ d \in {Quote, Backslash, "\n", "\r", "\t", "\f"}
  BY EscapeLetters, Zenon
<1>2. CASE c = Quote
  BY <1>1, <1>2, EscapeLetters, Zenon DEF Quote, Backslash
<1>3. CASE c = Backslash
  BY <1>1, <1>3, EscapeLetters, Zenon DEF Quote, Backslash
<1>4. CASE c = "\n"
  BY <1>1, <1>4, EscapeLetters, Zenon DEF Quote, Backslash
<1>5. CASE c = "\r"
  BY <1>1, <1>5, EscapeLetters, Zenon DEF Quote, Backslash
<1>6. CASE c = "\t"
  BY <1>1, <1>6, EscapeLetters, Zenon DEF Quote, Backslash
<1>7. CASE c = "\f"
  BY <1>1, <1>7, EscapeLetters, Zenon DEF Quote, Backslash
<1> QED
  BY <1>1, <1>2, <1>3, <1>4, <1>5, <1>6, <1>7, Zenon

\* The library takes every escape for the character the writer wrote it for.
LEMMA UnescapedIs ==
    /\ \A c \in DOMAIN EscapeLetter : Unescaped(EscapeLetter[c]) = c
    /\ Unescaped("u0001") = "^A"
<1>1. ASSUME NEW c \in DOMAIN EscapeLetter PROVE Unescaped(EscapeLetter[c]) = c
  <2>1. PICK e : e = EscapeLetter[c]
    OBVIOUS
  <2>2. \A d \in DOMAIN EscapeLetter : EscapeLetter[d] = e => d = c
    BY <2>1, LettersDiffer, Zenon
  <2>3. Unescaped(e) = CHOOSE d \in DOMAIN EscapeLetter : EscapeLetter[d] = e
    BY <2>1, Zenon DEF Unescaped
  <2>4. \E d \in DOMAIN EscapeLetter : EscapeLetter[d] = e
    BY <2>1
  <2>5. Unescaped(e) \in DOMAIN EscapeLetter /\ EscapeLetter[Unescaped(e)] = e
    BY <2>3, <2>4, Zenon
  <2> QED
    BY <2>1, <2>2, <2>5, Zenon
<1>2. Unescaped("u0001") = "^A"
  <2>1. ASSUME NEW d \in DOMAIN EscapeLetter PROVE EscapeLetter[d] # "u0001"
    <3>1. d \in {Quote, Backslash, "\n", "\r", "\t", "\f"}
      BY EscapeLetters, Zenon
    <3>2. Quote # "u0001" /\ Backslash # "u0001"
      BY Zenon DEF Quote, Backslash
    <3> QED
      BY <3>1, <3>2, EscapeLetters, Zenon
  <2>2. DOMAIN ControlEscape = {"^A"} /\ ControlEscape["^A"] = "u0001"
    BY Zenon DEF ControlEscape
  <2>3. Unescaped("u0001") = CHOOSE d \in DOMAIN ControlEscape : ControlEscape[d] = "u0001"
    BY <2>1, <2>2, Zenon DEF Unescaped
  <2>4. \E d : d \in DOMAIN ControlEscape /\ ControlEscape[d] = "u0001"
    BY <2>2, Zenon
  <2>5. Unescaped("u0001") \in DOMAIN ControlEscape
    BY <2>3, <2>4, Zenon
  <2> QED
    BY <2>2, <2>5, Zenon
<1> QED
  BY <1>1, <1>2, Zenon

\* What a character is written as, and that it is part of the alphabet.
LEMMA EscapedIs ==
    ASSUME NEW A, NEW c \in A
    PROVE  LET G == Glyphs(A)
           IN  \/ /\ c \notin {Quote, Backslash, "\r"} /\ c \in G
                  /\ Escaped(c) = <<c>>
               \/ \E e \in G : /\ Escaped(c) = <<Backslash, e>> /\ Unescaped(e) = c
                              /\ e # "\r" /\ Backslash \in G /\ Backslash # "\r"
<1> DEFINE G == Glyphs(A)
<1>1. Backslash \in G /\ Backslash # "\r" /\ c \in G
  BY Zenon DEF Glyphs, Backslash
<1>2. CASE c \in DOMAIN EscapeLetter
  <2>1. Escaped(c) = <<Backslash, EscapeLetter[c]>>
    BY <1>2, Zenon DEF Escaped, Backslash
  <2>2. EscapeLetter[c] \in {Quote, Backslash, "n", "r", "t", "f"}
    BY <1>2, EscapeLetters, Zenon
  <2>3. EscapeLetter[c] \in G
    BY <2>2, Zenon DEF Glyphs
  <2>4. EscapeLetter[c] # "\r"
    BY <2>2, Zenon DEF Quote, Backslash
  <2> QED
    BY <1>1, <1>2, <2>1, <2>3, <2>4, UnescapedIs, Zenon
<1>3. CASE c \notin DOMAIN EscapeLetter /\ c \in DOMAIN ControlEscape
  <2>1. c = "^A" /\ ControlEscape[c] = "u0001"
    BY <1>3, Zenon DEF ControlEscape
  <2>2. Escaped(c) = <<Backslash, "u0001">>
    BY <1>3, <2>1, Zenon DEF Escaped, Backslash
  <2>3. "u0001" \in G /\ "u0001" # "\r"
    BY Zenon DEF Glyphs
  <2> QED
    BY <1>1, <2>1, <2>2, <2>3, UnescapedIs, Zenon
<1>4. CASE c \notin DOMAIN EscapeLetter /\ c \notin DOMAIN ControlEscape
  <2>1. Escaped(c) = <<c>>
    BY <1>4, Zenon DEF Escaped
  <2>2. c \notin {Quote, Backslash, "\r"}
    BY <1>4, EscapeLetters, Zenon
  <2> QED
    BY <1>1, <2>1, <2>2, Zenon
<1> QED
  BY <1>2, <1>3, <1>4, Zenon

\* In which order texts are put together, and that characters can be put behind a
\* text one after another.
Groups(p, q, r) == (p \o q) \o r = p \o (q \o r)
SplitsTwo(p, a, b) == p \o <<a, b>> = (p \o <<a>>) \o <<b>>
SplitsThree(p, a, b, c) == p \o <<a, b, c>> = ((p \o <<a>>) \o <<b>>) \o <<c>>

\* Putting texts together is associative.
LEMMA Grouped ==
    ASSUME NEW A, NEW p \in Seq(A), NEW q \in Seq(A), NEW r \in Seq(A)
    PROVE  Groups(p, q, r)
BY ConcatAssociative, SMTT(30) DEF Groups

\* Two and three characters put behind a text.
LEMMA OneByOne ==
    ASSUME NEW A, NEW p \in Seq(A), NEW a \in A, NEW b \in A
    PROVE  /\ SplitsTwo(p, a, b)
           /\ \A c \in A : SplitsThree(p, a, b, c)
<1> DEFINE n == Len(p)
<1>1. PICK x, y, z : x = p \o <<a>> /\ y = x \o <<b>> /\ z = p \o <<a, b>>
  OBVIOUS
<1>2. n \in Nat /\ x \in Seq(A) /\ Len(x) = n + 1 /\ (\A i \in 1..n : x[i] = p[i]) /\ x[n + 1] = a
  BY <1>1, PutBehind
<1>3. y \in Seq(A) /\ Len(y) = n + 2 /\ (\A i \in 1..n + 1 : y[i] = x[i]) /\ y[n + 2] = b
  BY <1>1, <1>2, PutBehind
<1>4. z \in Seq(A) /\ Len(z) = n + 2 /\ (\A i \in 1..n : z[i] = p[i])
      /\ z[n + 1] = a /\ z[n + 2] = b
  <2>1. PICK s \in Seq(A) : s = <<a, b>>
    <3>1. <<a, b>> \in Seq(A)
      OBVIOUS
    <3> QED
      BY <3>1, Zenon
  <2>2. Len(s) = 2 /\ s[1] = a /\ s[2] = b
    BY <2>1
  <2> QED
    BY <1>1, <2>1, <2>2
<1>5. \A i \in 1..n + 2 : y[i] = z[i]
  BY <1>2, <1>3, <1>4
<1>6. y = z
  BY <1>2, <1>3, <1>4, <1>5
<1>7. ASSUME NEW c \in A PROVE p \o <<a, b, c>> = y \o <<c>>
  <2>1. PICK s, t : s = y \o <<c>> /\ t = p \o <<a, b, c>>
    OBVIOUS
  <2>2. s \in Seq(A) /\ Len(s) = n + 3 /\ (\A i \in 1..n + 2 : s[i] = y[i]) /\ s[n + 3] = c
    BY <1>2, <1>3, <2>1, PutBehind
  <2>3. t \in Seq(A) /\ Len(t) = n + 3 /\ (\A i \in 1..n : t[i] = p[i])
        /\ t[n + 1] = a /\ t[n + 2] = b /\ t[n + 3] = c
    <3>1. PICK r \in Seq(A) : r = <<a, b, c>>
      <4>1. <<a, b, c>> \in Seq(A)
        OBVIOUS
      <4> QED
        BY <4>1, Zenon
    <3>2. Len(r) = 3 /\ r[1] = a /\ r[2] = b /\ r[3] = c
      BY <3>1
    <3> QED
      BY <2>1, <3>1, <3>2
  <2>4. ASSUME NEW i \in 1..n + 3 PROVE s[i] = t[i]
    <3>1. CASE i = n + 3
      BY <2>2, <2>3, <3>1
    <3>2. CASE i # n + 3
      <4>1. i \in 1..n + 2 /\ (i \in 1..n \/ i = n + 1 \/ i = n + 2)
        BY <1>2, <3>2
      <4>2. s[i] = z[i]
        BY <1>6, <2>2, <4>1, Zenon
      <4> QED
        BY <1>4, <2>3, <4>1, <4>2, Zenon
    <3> QED
      BY <3>1, <3>2
  <2>5. s = t
    BY <1>2, <2>2, <2>3, <2>4
  <2> QED
    BY <2>1, <2>5
<1> QED
  BY <1>1, <1>6, <1>7, Zenon DEF SplitsTwo, SplitsThree

\* What a character of a string is written as is read as that character.
LEMMA PieceRead ==
    ASSUME NEW A, NEW q, NEW s, Stands(q, Glyphs(A), "string", 0, s), Ended(q), NEW c \in A
    PROVE  LET z == q \o Escaped(c)
           IN  /\ Stands(z, Glyphs(A), "string", 0, s) /\ Ended(z)
               /\ Lex(z).reading = Append(Lex(q).reading, c)
               /\ Escaped(c) \in Seq(Glyphs(A))
<1>1. PICK G : G = Glyphs(A)
  OBVIOUS
<1>2. q \in Seq(G)
  BY <1>1, Zenon DEF Stands
<1>3. CASE c \notin {Quote, Backslash, "\r"} /\ c \in G /\ Escaped(c) = <<c>>
  <2>1. PICK z : z = q \o <<c>>
    OBVIOUS
  <2>2. Stands(z, G, "string", 0, s) /\ Ended(z) /\ Lex(z).reading = Append(Lex(q).reading, c)
    <3>1. AsRead(z, q, G, c, "string", 0, s)
      BY <1>1, <1>3, <2>1, Reading, Zenon
    <3> QED
      BY <1>3, <3>1, Zenon DEF AsRead
  <2>3. <<c>> \in Seq(G)
    BY <1>3
  <2> QED
    BY <1>1, <1>3, <2>1, <2>2, <2>3, Zenon
<1>4. ASSUME NEW e \in G, Escaped(c) = <<Backslash, e>>, Unescaped(e) = c,
             e # "\r", Backslash \in G, Backslash # "\r"
      PROVE  LET z == q \o Escaped(c)
             IN  /\ Stands(z, G, "string", 0, s) /\ Ended(z)
                 /\ Lex(z).reading = Append(Lex(q).reading, c)
                 /\ Escaped(c) \in Seq(G)
  <2>1. PICK y : y = q \o <<Backslash>>
    OBVIOUS
  <2>2. Stands(y, G, "escape", 0, s) /\ Ended(y) /\ Lex(y).reading = Lex(q).reading
    <3>1. AsRead(y, q, G, Backslash, "string", 0, s)
      BY <1>1, <1>4, <2>1, Reading, Zenon
    <3> QED
      BY <1>4, <3>1, Zenon DEF AsRead
  <2>3. PICK z : z = y \o <<e>>
    OBVIOUS
  <2>4. Stands(z, G, "string", 0, s) /\ Ended(z) /\ Lex(z).reading = Append(Lex(q).reading, c)
    <3>1. AsRead(z, y, G, e, "escape", 0, s)
      BY <2>2, <2>3, Reading, Zenon
    <3> QED
      BY <1>4, <2>2, <3>1, Zenon DEF AsRead
  <2>5. q \o <<Backslash, e>> = z
    <3>1. SplitsTwo(q, Backslash, e)
      BY <1>2, <1>4, OneByOne, Zenon
    <3> QED
      BY <2>1, <2>3, <3>1, Zenon DEF SplitsTwo
  <2>6. <<Backslash, e>> \in Seq(G)
    BY <1>4
  <2> QED
    BY <1>4, <2>4, <2>5, <2>6, Zenon
<1> QED
  BY <1>1, <1>3, <1>4, EscapedIs, Zenon

\* A text setting's value is read back from the string it is written as.
THEOREM StringRead ==
    ASSUME NEW A, NEW text \in Seq(A), NEW p, NEW comma, NEW s,
           Stands(p, Glyphs(A), "code", comma, s), Ended(p)
    PROVE  LET q == p \o AppendJsonString(text)
           IN  /\ Stands(q, Glyphs(A), "code", 0, Append(s, text)) /\ Ended(q)
               /\ AppendJsonString(text) \in Seq(Glyphs(A))
               /\ \E rest \in Seq(Glyphs(A)) : AppendJsonString(text) = <<Quote>> \o rest
<1>1. PICK G : G = Glyphs(A)
  OBVIOUS
<1>2. p \in Seq(G) /\ Quote \in G /\ Quote # "\r" /\ Quote # Backslash
  BY <1>1, Zenon DEF Stands, Glyphs, Quote, Backslash
<1>3. PICK p1 : p1 = p \o <<Quote>>
  OBVIOUS
<1>4. Stands(p1, G, "string", 0, s) /\ Ended(p1) /\ Lex(p1).reading = <<>>
  <2>1. AsRead(p1, p, G, Quote, "code", comma, s)
    BY <1>1, <1>2, <1>3, Reading, Zenon
  <2> QED
    BY <1>2, <2>1, Zenon DEF AsRead
<1> DEFINE n == Len(text)
<1>5. n \in Nat /\ DOMAIN text = 1..n /\ \A i \in 1..n : text[i] \in A
  OBVIOUS
<1>6. PICK pieces : pieces = [k \in DOMAIN text |-> Escaped(text[k])]
  OBVIOUS
<1>7. \A c \in A : Escaped(c) \in Seq(G)
  BY <1>1, <1>4, PieceRead, Zenon
<1>8. pieces \in Seq(Seq(G)) /\ Len(pieces) = n /\ \A k \in 1..n : pieces[k] = Escaped(text[k])
  <2>1. pieces \in [1..n -> Seq(G)]
    BY <1>5, <1>6, <1>7
  <2>2. \A k \in 1..n : pieces[k] = Escaped(text[k])
    BY <1>5, <1>6
  <2> HIDE DEF n
  <2> QED
    BY <1>5, <2>1, <2>2
<1> DEFINE f(k) == Joined(pieces, k)
           Same(r, k) == r \in Seq(A) /\ Len(r) = k /\ \A i \in 1..k : r[i] = text[i]
           Read(z, k) == Stands(z, G, "string", 0, s) /\ Ended(z) /\ Same(Lex(z).reading, k)
           S == {k \in Nat : k <= n => Read(p1 \o f(k), k)}
<1>9. p1 \in Seq(G)
  BY <1>4, Zenon DEF Stands
<1>10. 0 \in S
  <2>1. f(0) = <<>>
    BY <1>5, <1>8, PiecesFlattened
  <2>2. p1 \o <<>> = p1
    BY <1>9
  <2>3. Same(<<>>, 0)
    OBVIOUS
  <2>4. Read(p1, 0)
    BY <1>4, <2>3, Zenon
  <2>5. Read(p1 \o f(0), 0)
    BY <2>1, <2>2, <2>4, Zenon
  <2> HIDE DEF Read
  <2> QED
    BY <2>5
<1>11. ASSUME NEW k \in Nat, k \in S PROVE k + 1 \in S
  <2>1. SUFFICES ASSUME k + 1 <= n PROVE Read(p1 \o f(k + 1), k + 1)
    OBVIOUS
  <2>2. k + 1 \in 1..n
    BY <2>1
  <2>3. f(k + 1) = f(k) \o pieces[k + 1] /\ f(k) \in Seq(G) /\ pieces[k + 1] \in Seq(G)
    BY <1>5, <1>8, <2>1, PiecesFlattened, SMTT(30)
  <2>4. PICK z : z = p1 \o f(k)
    OBVIOUS
  <2>5. Read(z, k)
    <3> HIDE DEF Read
    <3> QED
      BY <1>11, <2>1, <2>4
  <2>6. PICK c \in A : c = text[k + 1]
    BY <1>5, <2>2
  <2>7. PICK y : y = z \o Escaped(c)
    OBVIOUS
  <2>8. p1 \o f(k + 1) = y
    <3>1. pieces[k + 1] = Escaped(c)
      BY <1>8, <2>2, <2>6, Zenon
    <3>2. Groups(p1, f(k), pieces[k + 1])
      BY <1>9, <2>3, Grouped, Zenon
    <3> QED
      BY <2>3, <2>4, <2>7, <3>1, <3>2, Zenon DEF Groups
  <2>9. Stands(y, G, "string", 0, s) /\ Ended(y) /\ Lex(y).reading = Append(Lex(z).reading, c)
    BY <1>1, <2>5, <2>7, PieceRead, ZenonT(60)
  <2>10. PICK r : r = Lex(z).reading
    OBVIOUS
  <2>11. Same(r, k)
    BY <2>5, <2>10, Zenon
  <2>12. Same(Append(r, c), k + 1)
    BY <2>6, <2>11
  <2> QED
    BY <2>8, <2>9, <2>10, <2>12, Zenon
<1>12. n \in S
  <2> HIDE DEF S
  <2> QED
    BY <1>5, <1>10, <1>11, NatSetInduction
<1>13. Read(p1 \o f(n), n)
  <2> HIDE DEF Read
  <2> QED
    BY <1>5, <1>12
<1>14. f(n) \in Seq(G) /\ FlattenSeq(pieces) = f(n)
  BY <1>5, <1>8, PiecesFlattened
<1>15. PICK z : z = p1 \o f(n)
  OBVIOUS
<1>16. Lex(z).reading = text
  <2>1. PICK r : r = Lex(z).reading
    OBVIOUS
  <2>2. Same(r, n)
    BY <1>13, <1>15, <2>1, Zenon
  <2>3. r = text
    BY <2>2
  <2> QED
    BY <2>1, <2>3, Zenon
<1>17. Stands(z, G, "string", 0, s) /\ Ended(z)
  BY <1>13, <1>15, Zenon
<1>18. PICK q : q = z \o <<Quote>>
  OBVIOUS
<1>19. Stands(q, G, "code", 0, Append(s, text)) /\ Ended(q)
  <2>1. AsRead(q, z, G, Quote, "string", 0, s)
    BY <1>2, <1>17, <1>18, Reading, Zenon
  <2> QED
    BY <1>2, <1>16, <2>1, Zenon DEF AsRead
<1>20. AppendJsonString(text) = (<<Quote>> \o f(n)) \o <<Quote>>
  BY <1>6, <1>14, Zenon DEF AppendJsonString, Quote
<1>21. /\ AppendJsonString(text) \in Seq(G)
       /\ p \o AppendJsonString(text) = q
       /\ \E rest \in Seq(G) : AppendJsonString(text) = <<Quote>> \o rest
  <2>1. <<Quote>> \in Seq(G)
    BY <1>2
  <2>2. <<Quote>> \o f(n) \in Seq(G)
    BY <1>14, <2>1, ConcatProperties, Zenon
  <2>3. (<<Quote>> \o f(n)) \o <<Quote>> \in Seq(G)
    BY <2>1, <2>2, ConcatProperties, Zenon
  <2>4. Groups(p, <<Quote>> \o f(n), <<Quote>>) /\ Groups(p, <<Quote>>, f(n))
    BY <1>2, <1>14, <2>1, <2>2, Grouped, Zenon
  <2>5. Groups(<<Quote>>, f(n), <<Quote>>)
    BY <1>14, <2>1, Grouped, Zenon
  <2>6. f(n) \o <<Quote>> \in Seq(G)
    BY <1>14, <2>1, ConcatProperties, Zenon
  <2>7. p \o ((<<Quote>> \o f(n)) \o <<Quote>>) = q
    BY <1>3, <1>15, <1>18, <2>4, Zenon DEF Groups
  <2>8. (<<Quote>> \o f(n)) \o <<Quote>> = <<Quote>> \o (f(n) \o <<Quote>>)
    BY <2>5, Zenon DEF Groups
  <2> QED
    BY <1>20, <2>3, <2>6, <2>7, <2>8, Zenon
<1> QED
  BY <1>1, <1>19, <1>21, Zenon

\* A note is read over, whatever it says.
THEOREM CommentRead ==
    ASSUME NEW A, NEW text \in Seq(A), NoBareReturn(text), NEW p, NEW comma, NEW s,
           Stands(p, Glyphs(A), "code", comma, s), Ended(p)
    PROVE  LET q == p \o AppendComment(text)
           IN  /\ Stands(q, Glyphs(A), "code", comma, s) /\ Ended(q)
               /\ AppendComment(text) \in Seq(Glyphs(A))
<1>1. PICK G : G = Glyphs(A)
  OBVIOUS
<1>2. p \in Seq(G) /\ "/" \in G /\ "\n" \in G /\ "/" # "\r" /\ "\n" # "\r" /\ "/" # "\n"
  BY <1>1, Zenon DEF Stands, Glyphs
<1>3. A \subseteq G
  BY <1>1, Zenon DEF Glyphs
<1>4. IsSpace("\n")
  BY Zenon DEF IsSpace
\* What two slashes do.
<1>5. ASSUME NEW q, Stands(q, G, "code", comma, s), Ended(q)
      PROVE  LET z == (q \o <<"/">>) \o <<"/">> IN Stands(z, G, "line", comma, s) /\ Ended(z)
  <2>1. PICK y : y = q \o <<"/">>
    OBVIOUS
  <2>2. Stands(y, G, "slash", comma, s) /\ Ended(y)
    <3>1. AsRead(y, q, G, "/", "code", comma, s)
      BY <1>2, <1>5, <2>1, Reading, Zenon
    <3> QED
      BY <1>2, <3>1, Zenon DEF AsRead
  <2>3. PICK z : z = y \o <<"/">>
    OBVIOUS
  <2>4. Stands(z, G, "line", comma, s) /\ Ended(z)
    <3>1. AsRead(z, y, G, "/", "slash", comma, s)
      BY <1>2, <2>2, <2>3, Reading, Zenon
    <3> QED
      BY <1>2, <3>1, Zenon DEF AsRead
  <2> QED
    BY <2>1, <2>3, <2>4, Zenon
<1>6. PICK p1 : p1 = p \o <<"/", "/">>
  OBVIOUS
<1>7. Stands(p1, G, "line", comma, s) /\ Ended(p1)
  <2>1. SplitsTwo(p, "/", "/")
    BY <1>2, OneByOne, Zenon
  <2>2. p1 = (p \o <<"/">>) \o <<"/">>
    BY <1>6, <2>1, Zenon DEF SplitsTwo
  <2> QED
    BY <1>1, <1>5, <2>2, Zenon
<1> DEFINE n == Len(text)
           Piece(c) == IF c = "\n" THEN <<"\n", "/", "/">> ELSE <<c>>
<1>8. n \in Nat /\ DOMAIN text = 1..n /\ \A i \in 1..n : text[i] \in A
  OBVIOUS
<1>9. PICK pieces : pieces = [k \in DOMAIN text |->
                                IF text[k] = "\n" THEN <<"\n", "/", "/">> ELSE <<text[k]>>]
  OBVIOUS
<1>10. \A c \in A : Piece(c) \in Seq(G)
  <2>1. \A c \in G : <<c>> \in Seq(G)
    OBVIOUS
  <2>2. <<"\n", "/", "/">> \in Seq(G)
    BY <1>2
  <2> QED
    BY <1>3, <2>1, <2>2
<1>11. pieces \in Seq(Seq(G)) /\ Len(pieces) = n /\ \A k \in 1..n : pieces[k] = Piece(text[k])
  <2>1. \A k \in 1..n : pieces[k] = Piece(text[k])
    BY <1>8, <1>9
  <2>2. pieces = [k \in 1..n |-> Piece(text[k])]
    BY <1>8, <1>9, Zenon
  <2> HIDE DEF n, Piece
  <2>3. pieces \in [1..n -> Seq(G)]
    BY <1>8, <1>10, <2>2
  <2> QED
    BY <1>8, <2>1, <2>3
<1> DEFINE f(k) == Joined(pieces, k)
           Returned(k) == k # 0 /\ text[k] = "\r"
           Read(z, k) == /\ ~Returned(k) => Stands(z, G, "line", comma, s) /\ Ended(z)
                         /\ Returned(k) => Stands(z, G, "code", comma, s)
           S == {k \in Nat : k <= n => Read(p1 \o f(k), k)}
<1>12. p1 \in Seq(G)
  BY <1>7, Zenon DEF Stands
<1>13. 0 \in S
  <2>1. f(0) = <<>>
    BY <1>8, <1>11, PiecesFlattened
  <2>2. p1 \o <<>> = p1
    BY <1>12
  <2>3. Read(p1, 0)
    BY <1>7, Zenon
  <2>4. Read(p1 \o f(0), 0)
    BY <2>1, <2>2, <2>3, Zenon
  <2> HIDE DEF Read
  <2> QED
    BY <2>4
<1>14. ASSUME NEW k \in Nat, k \in S PROVE k + 1 \in S
  <2>1. SUFFICES ASSUME k + 1 <= n PROVE Read(p1 \o f(k + 1), k + 1)
    OBVIOUS
  <2>2. k + 1 \in 1..n /\ k + 1 # 0
    BY <2>1
  <2>3. f(k + 1) = f(k) \o pieces[k + 1] /\ f(k) \in Seq(G) /\ pieces[k + 1] \in Seq(G)
    BY <1>8, <1>11, <2>1, PiecesFlattened, SMTT(30)
  <2>4. PICK z : z = p1 \o f(k)
    OBVIOUS
  <2>5. Read(z, k)
    <3> HIDE DEF Read
    <3> QED
      BY <1>14, <2>1, <2>4
  <2>6. PICK c \in A : c = text[k + 1]
    BY <1>8, <2>2
  <2>7. PICK y : y = z \o Piece(c)
    OBVIOUS
  <2>8. p1 \o f(k + 1) = y
    <3>1. pieces[k + 1] = Piece(c)
      BY <1>11, <2>2, <2>6, Zenon
    <3>2. Groups(p1, f(k), pieces[k + 1])
      BY <1>12, <2>3, Grouped, Zenon
    <3> QED
      BY <2>3, <2>4, <2>7, <3>1, <3>2, Zenon DEF Groups
  <2>9. Returned(k) => c = "\n"
    <3>1. SUFFICES ASSUME k # 0, text[k] = "\r" PROVE text[k + 1] = "\n"
      BY <2>6
    <3>2. k \in 1..n
      BY <2>1, <3>1
    <3> QED
      BY <3>1, <3>2 DEF NoBareReturn
  <2>10. Returned(k + 1) <=> c = "\r"
    BY <2>2, <2>6, Zenon
  <2> HIDE DEF Returned
  <2>11. CASE c = "\n"
    <3>1. PICK x : x = z \o <<"\n">>
      OBVIOUS
    <3>2. Stands(x, G, "code", comma, s) /\ Ended(x)
      <4>1. CASE Returned(k)
        <5>1. Stands(z, G, "code", comma, s)
          BY <2>5, <4>1, Zenon
        <5> QED
          <6>1. AsRead(x, z, G, "\n", "code", comma, s)
            BY <1>2, <3>1, <5>1, Reading, Zenon
          <6> QED
            BY <1>2, <1>4, <6>1, Zenon DEF AsRead
      <4>2. CASE ~Returned(k)
        <5>1. Stands(z, G, "line", comma, s)
          BY <2>5, <4>2, Zenon
        <5> QED
          <6>1. AsRead(x, z, G, "\n", "line", comma, s)
            BY <1>2, <3>1, <5>1, Reading, Zenon
          <6> QED
            BY <1>2, <6>1, Zenon DEF AsRead
      <4> QED
        BY <4>1, <4>2, Zenon
    <3>3. z \in Seq(G)
      BY <2>5, Zenon DEF Stands
    <3>4. y = (x \o <<"/">>) \o <<"/">>
      <4>1. SplitsThree(z, "\n", "/", "/")
        BY <1>2, <3>3, OneByOne, Zenon
      <4>2. y = z \o <<"\n", "/", "/">>
        BY <2>7, <2>11, Zenon
      <4> QED
        BY <3>1, <4>1, <4>2, Zenon DEF SplitsThree
    <3>5. Stands(y, G, "line", comma, s) /\ Ended(y)
      BY <1>5, <3>2, <3>4, Zenon
    <3>6. ~Returned(k + 1)
      BY <1>2, <2>10, <2>11, Zenon
    <3> QED
      BY <2>8, <3>5, <3>6, Zenon
  <2>12. CASE c # "\n"
    <3>1. Stands(z, G, "line", comma, s) /\ Ended(z)
      BY <2>5, <2>9, <2>12, Zenon
    <3>2. c \in G /\ y = z \o <<c>>
      BY <1>3, <2>7, <2>12, Zenon
    <3>3. AsRead(y, z, G, c, "line", comma, s)
      BY <3>1, <3>2, Reading, Zenon
    <3>4. CASE c = "\r"
      <4>1. Stands(y, G, "code", comma, s)
        BY <3>3, <3>4, Zenon DEF AsRead
      <4> QED
        BY <2>8, <2>10, <3>4, <4>1, Zenon
    <3>5. CASE c # "\r"
      <4>1. Stands(y, G, "line", comma, s) /\ Ended(y)
        BY <2>12, <3>3, <3>5, Zenon DEF AsRead
      <4> QED
        BY <2>8, <2>10, <3>5, <4>1, Zenon
    <3> QED
      BY <3>4, <3>5, Zenon
  <2> QED
    BY <2>11, <2>12, Zenon
<1>15. n \in S
  <2> HIDE DEF S
  <2> QED
    BY <1>8, <1>13, <1>14, NatSetInduction
<1>16. Read(p1 \o f(n), n)
  <2> HIDE DEF Read
  <2> QED
    BY <1>8, <1>15
<1>17. ~Returned(n)
  <2>1. SUFFICES ASSUME n # 0, text[n] = "\r" PROVE FALSE
    OBVIOUS
  <2>2. n \in 1..n
    BY <1>8, <2>1
  <2> QED
    BY <1>8, <2>1, <2>2 DEF NoBareReturn
<1>18. f(n) \in Seq(G) /\ FlattenSeq(pieces) = f(n)
  BY <1>8, <1>11, PiecesFlattened
<1>19. PICK z : z = p1 \o f(n)
  OBVIOUS
<1>20. Stands(z, G, "line", comma, s) /\ Ended(z)
  BY <1>16, <1>17, <1>19, Zenon
<1>21. PICK q : q = z \o <<"\n">>
  OBVIOUS
<1>22. Stands(q, G, "code", comma, s) /\ Ended(q)
  <2>1. AsRead(q, z, G, "\n", "line", comma, s)
    BY <1>2, <1>20, <1>21, Reading, Zenon
  <2> QED
    BY <1>2, <2>1, Zenon DEF AsRead
<1>23. AppendComment(text) = (<<"/", "/">> \o f(n)) \o <<"\n">>
  BY <1>9, <1>18, Zenon DEF AppendComment
<1>24. /\ AppendComment(text) \in Seq(G)
       /\ p \o AppendComment(text) = q
  <2>1. <<"/", "/">> \in Seq(G) /\ <<"\n">> \in Seq(G)
    BY <1>2
  <2>2. <<"/", "/">> \o f(n) \in Seq(G)
    BY <1>18, <2>1, ConcatProperties, Zenon
  <2>3. (<<"/", "/">> \o f(n)) \o <<"\n">> \in Seq(G)
    BY <2>1, <2>2, ConcatProperties, Zenon
  <2>4. Groups(p, <<"/", "/">> \o f(n), <<"\n">>) /\ Groups(p, <<"/", "/">>, f(n))
    BY <1>2, <1>18, <2>1, <2>2, Grouped, Zenon
  <2>5. p \o ((<<"/", "/">> \o f(n)) \o <<"\n">>) = q
    BY <1>6, <1>19, <1>21, <2>4, Zenon DEF Groups
  <2> QED
    BY <1>23, <2>3, <2>5, Zenon
<1> QED
  BY <1>1, <1>22, <1>24, Zenon

(***************************************************************************)
(* Whatever a text setting and its help text hold, what Write makes of     *)
(* them (Write.cpp) has no comma for SanitiseJsonc to take out, and the    *)
(* library reads the text back from every string it stands in.             *)
(***************************************************************************)
THEOREM RenderedAlwaysSurvives ==
    ASSUME NEW A, NEW text \in Seq(A)
    PROVE  RenderedSurvives(text)
<1>1. SUFFICES ASSUME ~BareReturn(text)
               PROVE  LET file == Rendered(text)
                      IN  /\ SanitiseJsonc(file) = file
                          /\ Lex(file).strings = <<text, text>> /\ Lex(file).mode = "code"
  BY Zenon DEF RenderedSurvives
<1>2. NoBareReturn(text)
  BY <1>1 DEF BareReturn, NoBareReturn
<1>3. PICK G : G = Glyphs(A)
  OBVIOUS
<1>4. PICK comma : comma = ","
  BY Zenon
<1>5. /\ comma \in G /\ comma # "\r" /\ comma # "\n" /\ "\n" \in G /\ "\n" # "\r"
      /\ "]" \in G /\ "]" # "\r"
  BY <1>3, <1>4, Zenon DEF Glyphs
<1>6. Stands(<<>>, G, "code", 0, <<>>) /\ Ended(<<>>)
  <2>1. <<>> \in Seq(G) /\ Len(<<>>) = 0 /\ Returns(<<>>) /\ Ended(<<>>)
    BY DEF Returns, Ended
  <2>2. Lex(<<>>) = LexerStart
    BY <2>1, LexIs, LexToSteps, Zenon
  <2>3. IsIn(LexerStart, "code", 0, {}) /\ LexerStart.strings = <<>>
    BY Zenon DEF IsIn, LexerStart
  <2> QED
    BY <2>1, <2>2, <2>3, Zenon DEF Stands
<1>7. PICK string, note : string = AppendJsonString(text) /\ note = AppendComment(text)
  OBVIOUS
<1>8. /\ string \in Seq(G) /\ note \in Seq(G)
      /\ Stands(string, G, "code", 0, <<text>>) /\ Ended(string)
  <2>1. /\ Stands(<<>> \o string, G, "code", 0, Append(<<>>, text)) /\ Ended(<<>> \o string)
        /\ string \in Seq(G)
    BY <1>3, <1>6, <1>7, StringRead, Zenon
  <2>2. note \in Seq(G)
    BY <1>2, <1>3, <1>6, <1>7, CommentRead, Zenon
  <2>3. <<>> \o string = string /\ Append(<<>>, text) = <<text>>
    BY <2>1
  <2> QED
    BY <2>1, <2>2, <2>3, Zenon
<1>9. PICK p1, p2 : p1 = string \o <<comma>> /\ p2 = p1 \o <<"\n">>
  OBVIOUS
<1>10. Stands(p1, G, "code", Len(string) + 1, <<text>>) /\ Ended(p1)
  <2>1. AsRead(p1, string, G, comma, "code", 0, <<text>>)
    BY <1>5, <1>8, <1>9, Reading, Zenon
  <2> QED
    BY <1>4, <1>5, <2>1, Zenon DEF AsRead
<1>11. Stands(p2, G, "code", Len(string) + 1, <<text>>) /\ Ended(p2)
  <2>1. IsSpace("\n")
    BY Zenon DEF IsSpace
  <2>2. AsRead(p2, p1, G, "\n", "code", Len(string) + 1, <<text>>)
    BY <1>5, <1>9, <1>10, Reading, Zenon
  <2> QED
    BY <1>5, <2>1, <2>2, Zenon DEF AsRead
<1>12. PICK p3, p4 : p3 = p2 \o note /\ p4 = p3 \o string
  OBVIOUS
<1>13. Stands(p3, G, "code", Len(string) + 1, <<text>>) /\ Ended(p3)
  BY <1>2, <1>3, <1>7, <1>11, <1>12, CommentRead, Zenon
<1>14. Stands(p4, G, "code", 0, <<text, text>>) /\ Ended(p4)
  <2>1. Append(<<text>>, text) = <<text, text>>
    <3>1. PICK x, y : x = Append(<<text>>, text) /\ y = <<text, text>>
      OBVIOUS
    <3>2. x \in Seq({text}) /\ Len(x) = 2 /\ x[1] = text /\ x[2] = text
      BY <3>1
    <3>3. y \in Seq({text}) /\ Len(y) = 2 /\ y[1] = text /\ y[2] = text
      BY <3>1
    <3>4. x = y
      BY <3>2, <3>3
    <3> QED
      BY <3>1, <3>4, Zenon
  <2> QED
    BY <1>3, <1>7, <1>12, <1>13, <2>1, StringRead, Zenon
<1>15. PICK file : file = p4 \o <<"]">>
  OBVIOUS
<1>16. Stands(file, G, "code", 0, <<text, text>>) /\ Ended(file)
  <2>1. IsClosing("]")
    BY Zenon DEF IsClosing
  <2>2. AsRead(file, p4, G, "]", "code", 0, <<text, text>>)
    BY <1>5, <1>14, <1>15, Reading, Zenon
  <2> QED
    BY <1>5, <2>1, <2>2, Zenon DEF AsRead
<1>17. Rendered(text) = file
  <2>1. string \o <<comma, "\n">> = p2
    <3>1. SplitsTwo(string, comma, "\n")
      BY <1>5, <1>8, OneByOne, Zenon
    <3> QED
      BY <1>9, <3>1, Zenon DEF SplitsTwo
  <2> QED
    BY <1>4, <1>7, <1>12, <1>15, <2>1, Zenon DEF Rendered
<1>18. file \in Seq(G) /\ Lex(file).trailing = {} /\ Lex(file).mode = "code"
       /\ Lex(file).strings = <<text, text>> /\ Returns(file)
  BY <1>16, Zenon DEF Stands, IsIn
<1>19. Len(file) \in Nat /\ NoBareReturn(file)
  <2>1. Len(file) \in Nat
    BY <1>18
  <2> QED
    BY <1>16, <1>18, <2>1 DEF NoBareReturn, Returns, Ended
<1>20. TrailingCommas(file) = {}
  BY <1>18, <1>19, SameCommas, Zenon
<1>21. StripBom(file) = file
  <2>1. file[1] = Quote
    <3>1. string[1] = Quote /\ string # <<>>
      <4>1. PICK rest \in Seq(G) : string = <<Quote>> \o rest
        BY <1>3, <1>6, <1>7, StringRead, Zenon
      <4> QED
        BY <4>1
    <3>2. p1[1] = Quote /\ p1 # <<>> /\ p1 \in Seq(G)
      BY <1>5, <1>8, <1>9, <3>1
    <3>3. p2[1] = Quote /\ p2 # <<>> /\ p2 \in Seq(G)
      BY <1>5, <1>9, <3>2
    <3>4. p3[1] = Quote /\ p3 # <<>> /\ p3 \in Seq(G)
      BY <1>8, <1>12, <3>3
    <3>5. p4[1] = Quote /\ p4 # <<>> /\ p4 \in Seq(G)
      BY <1>8, <1>12, <3>4
    <3> QED
      BY <1>5, <1>15, <3>5
  <2>2. Quote # "BOM"
    BY Zenon DEF Quote
  <2> QED
    BY <2>1, <2>2, Zenon DEF StripBom
<1>22. SanitiseJsonc(file) = file
  BY <1>18, <1>20, <1>21, NothingErased, Zenon DEF SanitiseJsonc
<1> QED
  BY <1>17, <1>18, <1>22, Zenon
=============================================================================
