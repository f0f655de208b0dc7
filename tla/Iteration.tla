------------------------------ MODULE Iteration ------------------------------
(***************************************************************************)
(* Induction and loops.  The theorems of the library that state induction  *)
(* for a predicate cannot be instantiated by the provers; the one that the *)
(* finite sets are well founded under inclusion can, and gives induction   *)
(* over a set of numbers and the function that a loop over a list computes.*)
(***************************************************************************)
EXTENDS Integers, FiniteSetTheorems, WellFoundedInduction, TLAPS

\* A set of natural numbers that is not empty has a least element.
LEMMA LeastNumber ==
  ASSUME NEW C \in SUBSET Nat, C # {}
  PROVE  \E m \in C : \A k \in C : m <= k
<1> DEFINE T == {0..k : k \in C}
<1>1. IsWellFoundedOn(StrictSubsetOrdering(Nat), FiniteSubsetsOf(Nat))
  BY FS_StrictSubsetOrderingWellFounded
<1>2. T # {}
  OBVIOUS
<1>3. T \subseteq FiniteSubsetsOf(Nat)
  <2> SUFFICES ASSUME NEW k \in C PROVE (0..k) \in FiniteSubsetsOf(Nat)
    OBVIOUS
  <2>1. IsFiniteSet(0..k)
    BY FS_Interval
  <2> QED BY <2>1 DEF FiniteSubsetsOf
<1>4. PICK x \in T : \A y \in T : ~ (<<y, x>> \in StrictSubsetOrdering(Nat))
  <2> HIDE DEF T
  <2> QED BY <1>1, <1>2, <1>3, WFMin
<1>5. PICK m \in C : x = 0..m
  OBVIOUS
<1>6. ASSUME NEW k \in C, k < m PROVE FALSE
  <2>1. 0..k \in T
    OBVIOUS
  <2>2. m \in 0..m /\ m \notin 0..k
    BY <1>6
  <2>3. <<0..k, x>> \in StrictSubsetOrdering(Nat)
    BY <1>5, <1>6, <2>2 DEF StrictSubsetOrdering
  <2> QED BY <1>4, <2>1, <2>3
<1> QED BY <1>6

\* Induction over the natural numbers, for a set.
LEMMA InductionOnSet ==
  ASSUME NEW S, 0 \in S, \A n \in Nat : n \in S => n + 1 \in S
  PROVE  Nat \subseteq S
<1> SUFFICES ASSUME NEW k \in Nat \ S PROVE FALSE
  OBVIOUS
<1>1. PICK m \in Nat \ S : \A n \in Nat \ S : m <= n
  BY LeastNumber
<1>2. m # 0 /\ m - 1 \in Nat /\ m - 1 \notin S
  BY <1>1
<1> QED BY <1>1, <1>2

\* Of finitely many numbers there is a k-th.
LEMMA RankExists ==
  ASSUME NEW S \in SUBSET Nat, IsFiniteSet(S), NEW n \in Nat, \A i \in S : i <= n,
         NEW k \in 1..Cardinality(S)
  PROVE  \E i \in S : Cardinality({j \in S : j <= i}) = k
<1> DEFINE UpTo(m) == {j \in S : j <= m}
           Enough == {m \in Nat : Cardinality(UpTo(m)) >= k}
<1>0. Cardinality(S) \in Nat /\ k \in Nat /\ k >= 1
  BY FS_CardinalityType
<1>1. \A m \in Nat : IsFiniteSet(UpTo(m)) /\ Cardinality(UpTo(m)) \in Nat
  BY FS_Subset, FS_CardinalityType
<1>2. n \in Enough
  <2>1. UpTo(n) = S
    OBVIOUS
  <2> QED BY <1>0, <2>1
<1>3. PICK m \in Enough : \A l \in Enough : m <= l
  <2>1. Enough \in SUBSET Nat /\ Enough # {}
    BY <1>2
  <2> HIDE DEF Enough
  <2> QED BY <2>1, LeastNumber
<1>4. m \in Nat /\ Cardinality(UpTo(m)) >= k
  OBVIOUS
<1> DEFINE below == {j \in S : j < m}
<1> HIDE DEF Enough
<1>5. \A j \in S : j \in Nat /\ (j < m <=> j <= m - 1) /\ (j <= m <=> j < m \/ j = m)
  BY <1>4
<1>6. IsFiniteSet(below) /\ Cardinality(below) \in Nat /\ Cardinality(below) < k
  <2>1. CASE m = 0
    <3>1. \A j \in S : ~ (j < m)
      BY <1>5, <2>1
    <3>2. below = {}
      BY <3>1
    <3> HIDE DEF below
    <3> QED BY <1>0, <3>2, FS_EmptySet
  <2>2. CASE m # 0
    <3>1. m - 1 \in Nat /\ ~ (m <= m - 1)
      BY <1>4, <2>2
    <3>2. m - 1 \notin Enough
      BY <1>3, <3>1
    <3>3. below = UpTo(m - 1)
      BY <1>5
    <3>4. Cardinality(UpTo(m - 1)) < k
      <4>1. IsFiniteSet(UpTo(m - 1)) /\ Cardinality(UpTo(m - 1)) \in Nat
        BY <1>1, <3>1
      <4> HIDE DEF UpTo
      <4> QED BY <1>0, <3>1, <3>2, <4>1 DEF Enough
    <3> HIDE DEF UpTo, below
    <3> QED BY <1>1, <3>1, <3>3, <3>4
  <2> QED BY <2>1, <2>2
<1>7. m \in S
  <2>1. ASSUME m \notin S PROVE below = UpTo(m)
    <3>1. \A j \in S : j < m <=> j <= m
      BY <1>5, <2>1
    <3> QED BY <3>1
  <2> HIDE DEF UpTo, below
  <2> QED BY <1>0, <1>4, <1>6, <2>1
<1>8. UpTo(m) = below \cup {m} /\ m \notin below
  <2>1. m \notin below
    BY <1>4
  <2>2. \A j \in S : j <= m <=> j < m \/ j = m
    BY <1>5
  <2> QED BY <1>7, <2>1, <2>2
<1>9. Cardinality(UpTo(m)) = Cardinality(below) + 1
  <2> HIDE DEF UpTo, below
  <2> QED BY <1>6, <1>8, FS_AddElement
<1>10. Cardinality(UpTo(m)) = k
  BY <1>0, <1>4, <1>6, <1>9
<1> QED BY <1>7, <1>10

\* One more number, above the others, is the last, and the others stay in their
\* places.
LEMMA RankOfMore ==
  ASSUME NEW S \in SUBSET Nat, IsFiniteSet(S), NEW m \in Nat,
         \A i \in S : i < m,
         NEW T, T = S \cup {m}
  PROVE  /\ Cardinality(S) \in Nat /\ Cardinality(T) = Cardinality(S) + 1
         /\ {i \in T : Cardinality({j \in T : j <= i}) = Cardinality(S) + 1} = {m}
         /\ \A k \in 1..Cardinality(S) :
              {i \in T : Cardinality({j \in T : j <= i}) = k}
                = {i \in S : Cardinality({j \in S : j <= i}) = k}
<1> DEFINE c == Cardinality(S)
           nth(k) == {i \in T : Cardinality({j \in T : j <= i}) = k}
<1>1. Cardinality(T) = c + 1 /\ c \in Nat
  BY FS_AddElement, FS_CardinalityType
<1>2. {j \in T : j <= m} = T
  <2>1. \A j \in T : j <= m
    OBVIOUS
  <2> QED BY <2>1
<1>3. ASSUME NEW i \in S
      PROVE  /\ {j \in T : j <= i} = {j \in S : j <= i}
             /\ Cardinality({j \in S : j <= i}) <= c
             /\ Cardinality({j \in S : j <= i}) \in Nat
  <2>1. {j \in T : j <= i} = {j \in S : j <= i}
    OBVIOUS
  <2>2. {j \in S : j <= i} \subseteq S
    OBVIOUS
  <2> QED BY <2>1, <2>2, FS_Subset, FS_CardinalityType
<1>4. nth(c + 1) = {m}
  <2> HIDE DEF c
  <2>1. m \in nth(c + 1)
    BY <1>1, <1>2
  <2>2. ASSUME NEW i \in S PROVE i \notin nth(c + 1)
    BY <1>1, <1>3
  <2> QED BY <2>1, <2>2
<1>5. ASSUME NEW k \in 1..c
      PROVE  nth(k) = {i \in S : Cardinality({j \in S : j <= i}) = k}
  <2> HIDE DEF c
  <2>1. m \notin nth(k)
    BY <1>1, <1>2, c + 1 \notin 1..c
  <2>2. ASSUME NEW i \in S
        PROVE  i \in nth(k) <=> Cardinality({j \in S : j <= i}) = k
    BY <1>3
  <2> QED BY <2>1, <2>2
<1> QED BY <1>1, <1>4, <1>5

\* g is a function to X that begins with x0, and step leads from each of its
\* values to the next.
Iterates(g, X, x0, L, step) ==
  /\ g \in [0..L -> X]
  /\ g[0] = x0
  /\ \A n \in 1..L : g[n] = step[<<g[n - 1], n>>]

\* A function that a step leads from each number up to L to the next exists.
LEMMA IterationExists ==
  ASSUME NEW X, NEW x0 \in X, NEW L \in Nat, NEW step \in [X \X (1..L) -> X]
  PROVE  \E g : Iterates(g, X, x0, L, step)
<1> DEFINE
      Upto(k) == \E g : Iterates(g, X, x0, k, step)
      S == {k \in Nat : k <= L => Upto(k)}
<1>1. 0 \in S
  <2> DEFINE g == [n \in 0..0 |-> x0]
  <2>1. Iterates(g, X, x0, 0, step)
    BY DEF Iterates
  <2> QED BY <2>1
<1>2. ASSUME NEW k \in Nat, k \in S PROVE k + 1 \in S
  <2> SUFFICES ASSUME k + 1 <= L PROVE Upto(k + 1)
    OBVIOUS
  <2>1. PICK g : Iterates(g, X, x0, k, step)
    BY <1>2
  <2> DEFINE h == [n \in 0..(k + 1) |-> IF n = k + 1 THEN step[<<g[k], k + 1>>]
                                        ELSE g[n]]
  <2>2. g \in [0..k -> X] /\ g[0] = x0
        /\ \A n \in 1..k : g[n] = step[<<g[n - 1], n>>]
    BY <2>1 DEF Iterates
  <2>3. g[k] \in X /\ k + 1 \in 1..L
    BY <2>2
  <2>4. h \in [0..(k + 1) -> X]
    BY <2>2, <2>3
  <2>5. h[0] = x0
    BY <2>2
  <2>6. ASSUME NEW n \in 1..(k + 1)
        PROVE  h[n] = step[<<h[n - 1], n>>]
    <3>1. CASE n = k + 1
      <4>1. h[n] = step[<<g[k], n>>] /\ n - 1 = k /\ h[k] = g[k]
        BY <3>1
      <4> QED BY <4>1
    <3>2. CASE n \in 1..k
      <4>1. h[n] = g[n] /\ n - 1 \in 0..k /\ h[n - 1] = g[n - 1]
        BY <3>2
      <4>2. g[n] = step[<<g[n - 1], n>>]
        BY <2>2, <3>2
      <4> QED BY <4>1, <4>2
    <3> QED BY <3>1, <3>2
  <2>7. Iterates(h, X, x0, k + 1, step)
    <3> HIDE DEF h
    <3> QED BY <2>4, <2>5, <2>6 DEF Iterates
  <2> QED BY <2>7
<1>3. L \in S
  <2> HIDE DEF S
  <2> QED BY <1>1, <1>2, InductionOnSet
<1> QED BY <1>3

\* What begins in X and never leaves it ends in X.
LEMMA IterationStays ==
  ASSUME NEW X, NEW L \in Nat, NEW f, f[0] \in X,
         \A n \in 1..L : f[n - 1] \in X => f[n] \in X
  PROVE  f[L] \in X
<1> DEFINE S == {n \in Nat : n <= L => f[n] \in X}
<1>1. 0 \in S
  OBVIOUS
<1>2. \A n \in Nat : n \in S => n + 1 \in S
  <2> SUFFICES ASSUME NEW n \in Nat, n \in S, n + 1 <= L PROVE f[n + 1] \in X
    OBVIOUS
  <2>1. n + 1 \in 1..L /\ (n + 1) - 1 = n
    OBVIOUS
  <2> QED BY <2>1
<1>3. Nat \subseteq S
  <2> HIDE DEF S
  <2> QED BY <1>1, <1>2, InductionOnSet
<1> QED BY <1>3
=============================================================================
