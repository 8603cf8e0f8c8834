---------------------------- MODULE LeastNumbers ----------------------------
(***************************************************************************)
(* Least and greatest elements of sets of natural numbers: what CHOOSE     *)
(* finds when a loop takes the first or the last of several candidates.    *)
(* The theorem that carries them is that strict inclusion is well founded  *)
(* on the finite sets.                                                     *)
(***************************************************************************)
EXTENDS Naturals, FiniteSetTheorems, WellFoundedInduction, TLAPS

\* The first of the candidates (a loop that runs upwards and stops).
LEMMA LeastNumber ==
    ASSUME NEW S \in SUBSET Nat, S # {}
    PROVE  \E n \in S : \A m \in S : n <= m
  <1>1. PICK top \in S : TRUE
    OBVIOUS
  <1> DEFINE U == 1 .. top
             T == {1 .. n : n \in {m \in S : m <= top}}
             R == StrictSubsetOrdering(U)
  <1>2. T \subseteq FiniteSubsetsOf(U)
    <2>1. ASSUME NEW n \in S, n <= top PROVE (1 .. n) \in FiniteSubsetsOf(U)
      <3>1. n \in Int /\ 1 \in Int
        OBVIOUS
      <3>2. IsFiniteSet(1 .. n)
        BY <3>1, FS_Interval
      <3>3. (1 .. n) \in SUBSET U
        BY <1>1, <2>1
      <3> QED BY <3>2, <3>3 DEF FiniteSubsetsOf
    <2> QED BY <2>1
  <1>3. T # {}
    BY <1>1
  <1>4. PICK x \in T : \A y \in T : ~(<<y, x>> \in R)
    <2>1. IsWellFoundedOn(R, FiniteSubsetsOf(U))
      BY FS_StrictSubsetOrderingWellFounded
    <2> QED BY <1>2, <1>3, <2>1, WFMin
  <1>5. PICK n \in S : n <= top /\ x = 1 .. n
    BY <1>4
  <1>6. ASSUME NEW m \in S PROVE n <= m
    <2>1. CASE m <= top
      <3>1. (1 .. m) \in T
        BY <2>1
      <3>2. ASSUME m < n PROVE FALSE
        <4>1. (1 .. m) \in SUBSET U /\ (1 .. n) \in SUBSET U /\ (1 .. m) \subseteq (1 .. n)
          BY <1>1, <1>5, <2>1, <3>2
        <4>2. n \in 1 .. n /\ n \notin 1 .. m
          BY <1>5, <3>2
        <4>3. <<1 .. m, 1 .. n>> \in R
          BY <4>1, <4>2 DEF StrictSubsetOrdering
        <4> QED BY <1>4, <1>5, <3>1, <4>3
      <3> QED BY <3>2
    <2>2. CASE ~(m <= top)
      BY <1>5, <2>2
    <2> QED BY <2>1, <2>2
  <1> QED BY <1>6

\* The last of finitely many candidates (a loop that keeps the best so far).
LEMMA GreatestNumber ==
    ASSUME NEW b \in Nat, NEW S \in SUBSET (1 .. b), S # {}
    PROVE  \E n \in S : \A m \in S : m <= n
  <1> DEFINE T == {k \in Nat : \A m \in S : m <= k}
  <1>1. b \in T
    OBVIOUS
  <1>2. PICK n \in T : \A k \in T : n <= k
    <2> HIDE DEF T
    <2>1. T \in SUBSET Nat
      BY DEF T
    <2> QED BY <1>1, <2>1, LeastNumber
  <1>3. n \in S
    <2>1. SUFFICES ASSUME n \notin S PROVE FALSE
      OBVIOUS
    <2>2. \A m \in S : m <= n - 1 /\ m >= 1
      BY <1>2, <2>1
    <2>3. n - 1 \in Nat
      <3>1. PICK s \in S : TRUE
        OBVIOUS
      <3>2. n \in Nat /\ s \in Nat /\ s <= n - 1 /\ s >= 1
        BY <1>2, <2>2, <3>1
      <3> QED BY <3>2
    <2>4. n - 1 \in T
      BY <2>2, <2>3
    <2> QED BY <1>2, <2>4
  <1> QED BY <1>2, <1>3

\* A set of positions that has every position before one of its own is an initial
\* segment: counting the entries before a place finds the place.
LEMMA InitialSegment ==
    ASSUME NEW n \in Nat, NEW S \in SUBSET (1 .. n),
           \A i \in S, j \in 1 .. n : j <= i => j \in S
    PROVE  Cardinality(S) \in 0 .. n /\ S = 1 .. Cardinality(S)
  <1>1. CASE S = {}
    <2>1. Cardinality(S) = 0
      BY <1>1, FS_EmptySet
    <2>2. 0 \in 0 .. n /\ 1 .. 0 = {}
      OBVIOUS
    <2> QED BY <1>1, <2>1, <2>2
  <1>2. CASE S # {}
    <2>1. PICK k \in S : \A m \in S : m <= k
      BY <1>2, GreatestNumber
    <2>2. k \in 1 .. n
      BY <2>1
    <2>3. S = 1 .. k
      <3>1. ASSUME NEW j \in 1 .. k PROVE j \in S
        <4>1. j \in 1 .. n /\ j <= k
          BY <2>2
        <4> QED BY <2>1, <4>1
      <3>2. ASSUME NEW j \in S PROVE j \in 1 .. k
        <4>1. j \in 1 .. n /\ j <= k
          BY <2>1
        <4> QED BY <2>2, <4>1
      <3> QED BY <3>1, <3>2
    <2>4. Cardinality(1 .. k) = k
      BY <2>2, FS_Interval
    <2>5. k \in 0 .. n
      BY <2>2
    <2> QED BY <2>3, <2>4, <2>5
  <1> QED BY <1>1, <1>2

\* A loop that steps from x to next[x] until stop[x], along falling ranks, is a
\* function: what it makes of the rest it combines with x.
IsLoop(S, V, rank, next, stop, base, comb) ==
    /\ rank \in [S -> Nat] /\ next \in [S -> S] /\ stop \in [S -> BOOLEAN]
    /\ base \in [S -> V] /\ comb \in [S \X V -> V]
    /\ \A x \in S : ~stop[x] => rank[next[x]] < rank[x]

LEMMA Recursion ==
    ASSUME NEW S, NEW V, NEW rank, NEW next, NEW stop, NEW base, NEW comb,
           IsLoop(S, V, rank, next, stop, base, comb)
    PROVE  \E f \in [S -> V] :
              f = [x \in S |-> IF stop[x] THEN base[x] ELSE comb[<<x, f[next[x]]>>]]
  <1>0. /\ rank \in [S -> Nat] /\ next \in [S -> S] /\ stop \in [S -> BOOLEAN]
        /\ base \in [S -> V] /\ comb \in [S \X V -> V]
        /\ \A x \in S : ~stop[x] => rank[next[x]] < rank[x]
    BY DEF IsLoop
  <1> USE <1>0
  <1> DEFINE Step(g, x) == IF stop[x] THEN base[x] ELSE comb[<<x, g[next[x]]>>]
             Upto(n, g) == \A x \in S : rank[x] < n => g[x] = Step(g, x)
             Bad == {n \in Nat : ~ \E g \in [S -> V] : Upto(n, g)}
  <1>1. ASSUME NEW g \in [S -> V], NEW x \in S PROVE Step(g, x) \in V
    <2>1. next[x] \in S
      OBVIOUS
    <2>2. <<x, g[next[x]]>> \in S \X V
      BY <2>1
    <2>3. base[x] \in V /\ comb[<<x, g[next[x]]>>] \in V
      BY <2>2
    <2> QED BY <2>3
  <1>2. ASSUME NEW g \in [S -> V], NEW h \in [S -> V], NEW x \in S,
               ~stop[x] => g[next[x]] = h[next[x]]
        PROVE  Step(g, x) = Step(h, x)
    BY <1>2
  <1> HIDE DEF Step
  <1>3. \A n \in Nat : \E g \in [S -> V] : Upto(n, g)
    <2>1. SUFFICES ASSUME Bad # {} PROVE FALSE
      OBVIOUS
    <2>2. PICK n \in Bad : \A m \in Bad : n <= m
      <3> HIDE DEF Bad
      <3>1. Bad \in SUBSET Nat
        BY DEF Bad
      <3> QED BY <2>1, <3>1, LeastNumber
    <2>3. n \in Nat /\ \A m \in Bad : n <= m
      BY <2>2
    <2>4. n # 0
      <3>1. base \in [S -> V] /\ Upto(0, base)
        OBVIOUS
      <3> QED BY <2>2, <3>1
    <2>5. n - 1 \in Nat /\ n - 1 \notin Bad
      <3> HIDE DEF Bad
      <3> QED BY <2>3, <2>4
    <2>6. PICK g \in [S -> V] : Upto(n - 1, g)
      BY <2>5
    <2> DEFINE h == [x \in S |-> IF rank[x] < n - 1 THEN g[x] ELSE Step(g, x)]
    <2>7. h \in [S -> V]
      BY <1>1
    <2>8. ASSUME NEW x \in S, rank[x] < n PROVE h[x] = Step(h, x)
      <3>1. h[x] = Step(g, x)
        BY <2>6
      <3>2. ~stop[x] => g[next[x]] = h[next[x]]
        <4>1. SUFFICES ASSUME ~stop[x] PROVE g[next[x]] = h[next[x]]
          OBVIOUS
        <4>2. next[x] \in S
          OBVIOUS
        <4>3. rank[next[x]] < n - 1
          <5>1. rank[next[x]] \in Nat /\ rank[x] \in Nat /\ rank[next[x]] < rank[x]
            BY <4>1, <4>2
          <5> QED BY <2>3, <2>8, <5>1
        <4> QED BY <4>2, <4>3
      <3> HIDE DEF h
      <3>3. Step(g, x) = Step(h, x)
        BY <1>2, <2>7, <3>2
      <3> QED BY <3>1, <3>3
    <2> HIDE DEF h
    <2>9. Upto(n, h)
      BY <2>8
    <2> QED BY <2>2, <2>7, <2>9
  <1>4. ASSUME NEW g \in [S -> V], NEW h \in [S -> V], NEW m \in Nat, NEW n \in Nat,
               Upto(m, g), Upto(n, h), m <= n
        PROVE  \A x \in S : rank[x] < m => g[x] = h[x]
    <2> DEFINE Differ == {k \in Nat : \E x \in S : rank[x] = k /\ k < m /\ g[x] # h[x]}
    <2>1. SUFFICES ASSUME Differ # {} PROVE FALSE
      OBVIOUS
    <2>2. PICK k \in Differ : \A j \in Differ : k <= j
      <3>1. Differ \in SUBSET Nat
        OBVIOUS
      <3> HIDE DEF Differ
      <3> QED BY <2>1, <3>1, LeastNumber
    <2>3. PICK x \in S : rank[x] = k /\ k < m /\ g[x] # h[x]
      BY <2>2
    <2>4. g[x] = Step(g, x) /\ h[x] = Step(h, x)
      BY <1>4, <2>3
    <2>5. ~stop[x] => g[next[x]] = h[next[x]]
      <3>1. SUFFICES ASSUME ~stop[x] PROVE g[next[x]] = h[next[x]]
        OBVIOUS
      <3>2. next[x] \in S /\ rank[next[x]] \in Nat /\ rank[next[x]] < k
        BY <2>3, <3>1
      <3>3. rank[next[x]] \notin Differ
        <4> HIDE DEF Differ
        <4>1. k \in Nat
          BY <2>3
        <4> QED BY <2>2, <3>2, <4>1
      <3> QED BY <2>3, <3>2, <3>3
    <2> QED BY <1>2, <2>3, <2>4, <2>5
  <1> DEFINE G(n) == CHOOSE g \in [S -> V] : Upto(n, g)
             f == [x \in S |-> G(rank[x] + 1)[x]]
  <1>5. ASSUME NEW n \in Nat PROVE G(n) \in [S -> V] /\ Upto(n, G(n))
    <2> HIDE DEF Upto
    <2> QED BY <1>3
  <1> HIDE DEF G
  <1>6. \A x \in S : rank[x] + 1 \in Nat /\ rank[x] < rank[x] + 1
    OBVIOUS
  <1>7. f \in [S -> V]
    BY <1>5, <1>6
  <1>8. ASSUME NEW x \in S PROVE f[x] = Step(f, x)
    <2>1. f[x] = Step(G(rank[x] + 1), x)
      BY <1>5, <1>6
    <2>2. ~stop[x] => f[next[x]] = G(rank[x] + 1)[next[x]]
      <3>1. SUFFICES ASSUME ~stop[x] PROVE f[next[x]] = G(rank[x] + 1)[next[x]]
        OBVIOUS
      <3>2. next[x] \in S /\ rank[next[x]] \in Nat /\ rank[next[x]] < rank[x] /\ rank[x] \in Nat
        BY <3>1
      <3>3. f[next[x]] = G(rank[next[x]] + 1)[next[x]]
        BY <3>2
      <3>4. rank[next[x]] + 1 <= rank[x] + 1 /\ rank[next[x]] < rank[next[x]] + 1
        BY <3>2
      <3> HIDE DEF f
      <3>5. G(rank[next[x]] + 1) \in [S -> V] /\ Upto(rank[next[x]] + 1, G(rank[next[x]] + 1))
        BY ONLY <1>5, <1>6, <3>2
      <3>6. G(rank[x] + 1) \in [S -> V] /\ Upto(rank[x] + 1, G(rank[x] + 1))
        BY ONLY <1>5, <1>6
      <3>7. rank[next[x]] + 1 \in Nat /\ rank[x] + 1 \in Nat
        BY ONLY <3>2
      <3> HIDE DEF Upto
      <3>8. \A y \in S : rank[y] < rank[next[x]] + 1 =>
                 G(rank[next[x]] + 1)[y] = G(rank[x] + 1)[y]
        BY ONLY <1>4, <3>4, <3>5, <3>6, <3>7, Zenon
      <3> QED BY <3>2, <3>3, <3>4, <3>8
    <2>3. Step(f, x) = Step(G(rank[x] + 1), x)
      <3> HIDE DEF f
      <3> QED BY <1>2, <1>5, <1>6, <1>7, <2>2
    <2> QED BY <2>1, <2>3
  <1>9. f = [x \in S |-> IF stop[x] THEN base[x] ELSE comb[<<x, f[next[x]]>>]]
    <2>1. \A x \in S : f[x] = IF stop[x] THEN base[x] ELSE comb[<<x, f[next[x]]>>]
      <3> HIDE DEF f
      <3> QED BY <1>8 DEF Step
    <2>2. f = [x \in S |-> f[x]]
      BY <1>7
    <2> HIDE DEF f
    <2> QED BY <2>1, <2>2
  <1> HIDE DEF f
  <1> QED BY <1>7, <1>9

=============================================================================
