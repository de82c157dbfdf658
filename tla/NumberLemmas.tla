---------------------------- MODULE NumberLemmas ----------------------------
(***************************************************************************)
(* Numbers: what the proofs of the components need of them.                *)
(*                                                                         *)
(* Induction over the natural numbers in the first-order form: what is to  *)
(* be proved of n is that n is in a set.  The principle follows from the   *)
(* pigeonhole: if N were missing from a set T that holds 0 and is closed   *)
(* under successor, then n + 1 would put T's numbers up to N into those    *)
(* but 0, which are one less.                                              *)
(***************************************************************************)
EXTENDS Integers, FiniteSets, FiniteSetTheorems, TLAPS

\* Induction as far as N.
LEMMA InductionUpTo ==
  ASSUME NEW N \in Nat, NEW T, 0 \in T,
         \A n \in 0 .. N - 1 : n \in T => n + 1 \in T
  PROVE  N \in T
<1> DEFINE S == {n \in 0 .. N : n \in T}
           up == [n \in S |-> n + 1]
<1>1. SUFFICES ASSUME N \notin T PROVE FALSE
  OBVIOUS
<1>2. IsFiniteSet(S) /\ 0 \in S
  <2>1. S \in SUBSET Nat /\ (\A s \in S : s <= N) /\ 0 \in S
    OBVIOUS
  <2>2. QED BY ONLY <2>1, N \in Nat, FS_BoundedSetOfNaturals
<1>3. up \in [S -> S \ {0}]
  BY <1>1
<1>4. /\ IsFiniteSet(S \ {0}) /\ Cardinality(S) \in Nat
      /\ Cardinality(S \ {0}) = Cardinality(S) - 1
  BY <1>2, FS_RemoveElement, FS_CardinalityType
<1>5. PICK m, n \in S : m # n /\ up[m] = up[n]
  <2> HIDE DEF S, up
  <2>1. Cardinality(S \ {0}) < Cardinality(S)
    BY <1>4
  <2> QED BY <1>2, <1>3, <1>4, <2>1, FS_PigeonHole
<1>6. QED
  BY <1>5

\* Induction.
LEMMA Induction ==
  ASSUME NEW T, 0 \in T, \A n \in Nat : n \in T => n + 1 \in T
  PROVE  Nat \subseteq T
BY InductionUpTo

\* Every set of natural numbers that has an element has a least one.
LEMMA LeastElement ==
  ASSUME NEW T \in SUBSET Nat, T # {}
  PROVE  \E m \in T : \A n \in T : m <= n
<1> DEFINE Below == {n \in Nat : \A m \in T : n <= m}
<1>1. SUFFICES ASSUME \A m \in T : \E n \in T : n < m PROVE FALSE
  OBVIOUS
<1>2. 0 \in Below
  OBVIOUS
<1>3. \A n \in Nat : n \in Below => n + 1 \in Below
  BY <1>1
<1>4. Nat \subseteq Below
  <2> HIDE DEF Below
  <2> QED BY <1>2, <1>3, Induction
<1>5. PICK m \in T : TRUE
  OBVIOUS
<1>6. m + 1 \in Below
  BY <1>4
<1>7. QED
  BY <1>6

-----------------------------------------------------------------------------
(* Division.                                                               *)

\* The quotient and the rest of a division.
LEMMA DivMod ==
    ASSUME NEW n \in Nat, NEW d \in Nat \ {0}
    PROVE  n = d * (n \div d) + (n % d) /\ n \div d \in Nat /\ n % d \in 0 .. d - 1
  OBVIOUS

\* A multiple of d is passed when the quotient is.
LEMMA Multiples ==
    ASSUME NEW d \in Nat \ {0}, NEW a \in Nat, NEW b \in Nat, a < b
    PROVE  d * a + d <= d * b /\ d * a \in Nat /\ d * b \in Nat
  <1>1. b - a - 1 \in Nat /\ b = a + 1 + (b - a - 1)
    OBVIOUS
  <1>2. PICK k \in Nat : b = a + 1 + k
    BY <1>1
  <1>3. d * b = d * a + d + d * k
    BY <1>2
  <1>4. d * k \in Nat /\ d * a \in Nat
    OBVIOUS
  <1> QED  BY <1>3, <1>4

\* The quotient and the rest of a division are unique.
LEMMA Division ==
    ASSUME NEW i \in Nat, NEW j \in Nat, NEW d \in Nat \ {0}, i < d
    PROVE  (j * d + i) \div d = j /\ (j * d + i) % d = i
  <1> DEFINE n == j * d + i
             q == n \div d
             r == n % d
  <1>1. n \in Nat
    OBVIOUS
  <1>2. n = d * q + r /\ q \in Nat /\ r \in 0 .. d - 1
    BY <1>1, DivMod
  <1>3. n = d * j + i
    OBVIOUS
  <1> HIDE DEF n, q, r
  <1>4. ~(q < j)
    BY <1>2, <1>3, Multiples
  <1>5. ~(j < q)
    BY <1>2, <1>3, Multiples
  <1>6. q = j
    BY <1>2, <1>4, <1>5
  <1>7. r = i
    <2> DEFINE m == d * j
    <2>1. m + r = m + i /\ m \in Nat
      BY <1>2, <1>3, <1>6
    <2> HIDE DEF m
    <2> QED  BY <2>1, <1>2
  <1> QED  BY <1>6, <1>7 DEF n, q, r

-----------------------------------------------------------------------------
(* Loops.  A loop over 1 .. N that starts from x and does G[n] in round n  *)
(* is a function recursive on the number of rounds.                        *)

IsLoop(r, N, x, G) == r = [n \in 0 .. N |-> IF n = 0 THEN x ELSE G[n][r[n - 1]]]

\* A loop that stays in a set has a result after each round.
LEMMA LoopExists ==
  ASSUME NEW X, NEW x \in X, NEW N \in Nat, NEW G \in [1 .. N -> [X -> X]]
  PROVE  \E r \in [0 .. N -> X] : IsLoop(r, N, x, G)
<1> DEFINE T == {m \in Nat : \E r \in [0 .. m -> X] : IsLoop(r, m, x, G)}
<1>1. 0 \in T
  <2> DEFINE r == [n \in 0 .. 0 |-> x]
  <2>1. r \in [0 .. 0 -> X] /\ IsLoop(r, 0, x, G)
    BY DEF IsLoop
  <2> QED BY <2>1
<1>2. ASSUME NEW m \in 0 .. N - 1, m \in T PROVE m + 1 \in T
  <2>1. PICK r \in [0 .. m -> X] : IsLoop(r, m, x, G)
    BY <1>2
  <2> DEFINE s == [n \in 0 .. m + 1 |-> IF n <= m THEN r[n] ELSE G[m + 1][r[m]]]
  <2>2. m + 1 \in 1 .. N /\ r[m] \in X /\ G[m + 1][r[m]] \in X
    OBVIOUS
  <2>3. s \in [0 .. m + 1 -> X]
    BY <2>2
  <2>4. \A n \in 0 .. m : r[n] = IF n = 0 THEN x ELSE G[n][r[n - 1]]
    BY <2>1 DEF IsLoop
  <2>5. \A n \in 0 .. m + 1 : s[n] = IF n = 0 THEN x ELSE G[n][s[n - 1]]
    <3> TAKE n \in 0 .. m + 1
    <3>1. CASE n <= m
      BY <3>1, <2>4
    <3>2. CASE n = m + 1
      BY <3>2
    <3> QED BY <3>1, <3>2
  <2>6. IsLoop(s, m + 1, x, G)
    <3> HIDE DEF s
    <3> QED BY <2>3, <2>5 DEF IsLoop
  <2> QED BY <2>3, <2>6
<1>3. N \in T
  <2> HIDE DEF T
  <2> QED BY <1>1, <1>2, InductionUpTo
<1> QED BY <1>3

\* The same for a loop that may go on without end.
IsEndlessLoop(r, x, G) == r = [n \in Nat |-> IF n = 0 THEN x ELSE G[r[n - 1]]]

LEMMA EndlessLoop ==
  ASSUME NEW X, NEW x \in X, NEW G \in [X -> X]
  PROVE  \E r \in [Nat -> X] : IsEndlessLoop(r, x, G)
<1> DEFINE Gs(N) == [n \in 1 .. N |-> G]
           Run(N, r) == r \in [0 .. N -> X] /\ IsLoop(r, N, x, Gs(N))
           upto == [N \in Nat |-> CHOOSE r : Run(N, r)]
           f == [n \in Nat |-> upto[n][n]]
<1>1. \A N \in Nat : Run(N, upto[N])
  BY LoopExists
<1>2. \A N \in Nat : /\ upto[N][N] \in X
                     /\ \A n \in 0 .. N : upto[N][n] = IF n = 0 THEN x ELSE G[upto[N][n - 1]]
  <2> TAKE N \in Nat
  <2>1. Run(N, upto[N])
    BY <1>1
  <2> HIDE DEF upto
  <2> QED BY <2>1 DEF IsLoop
<1>3. \A m, n \in Nat : m <= n => upto[n][m] = upto[m][m]
  <2> SUFFICES ASSUME NEW n \in Nat, NEW l \in Nat, l <= n PROVE upto[n][l] = upto[l][l]
    OBVIOUS
  <2> DEFINE T == {m \in Nat : m <= l => upto[n][m] = upto[l][m]}
  <2> HIDE DEF upto
  <2>1. 0 \in T
    <3>1. upto[n][0] = x /\ upto[l][0] = x
      BY <1>2
    <3> QED BY <3>1
  <2>2. ASSUME NEW m \in Nat, m \in T PROVE m + 1 \in T
    <3>1. CASE m + 1 <= l
      <4>1. m + 1 \in 0 .. l /\ m + 1 \in 0 .. n /\ m + 1 # 0 /\ (m + 1) - 1 = m /\ m <= l
        BY <3>1
      <4>2. upto[n][m + 1] = G[upto[n][m]] /\ upto[l][m + 1] = G[upto[l][m]]
        BY <4>1, <1>2
      <4> QED BY <2>2, <4>1, <4>2
    <3> QED BY <3>1
  <2>3. Nat \subseteq T
    <3> HIDE DEF T
    <3> QED BY <2>1, <2>2, Induction
  <2> QED BY <2>3
<1>4. f \in [Nat -> X]
  <2> HIDE DEF upto
  <2> QED BY <1>2
<1>5. \A n \in Nat : f[n] = IF n = 0 THEN x ELSE G[f[n - 1]]
  <2> HIDE DEF upto
  <2> TAKE n \in Nat
  <2>1. upto[n][n] = IF n = 0 THEN x ELSE G[upto[n][n - 1]]
    BY <1>2
  <2>2. n # 0 => upto[n][n - 1] = upto[n - 1][n - 1]
    BY <1>3
  <2> QED BY <2>1, <2>2
<1>6. f = [n \in Nat |-> IF n = 0 THEN x ELSE G[f[n - 1]]]
  <2> HIDE DEF f
  <2> QED BY <1>4, <1>5
<1> QED BY <1>4, <1>6 DEF IsEndlessLoop
=============================================================================
