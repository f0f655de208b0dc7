--------------------------- MODULE DeliveryProofs ---------------------------
(***************************************************************************)
(* The transmitters implement the packet queue: theorems.                  *)
(***************************************************************************)
EXTENDS TransmittersProofs

-----------------------------------------------------------------------------
(* Loops that take elements out of a list.                                 *)

\* g is a loop over a list: it begins with a list and appends what is in D.
Selects(g, first, list, D) ==
  /\ g[0] = first
  /\ \A n \in 1..Len(list) :
       g[n] = IF list[n] \in D THEN Append(g[n - 1], list[n]) ELSE g[n - 1]

\* Such a loop exists.
LEMMA SelectionExists ==
  ASSUME NEW P, NEW first \in Seq(P), NEW list \in Seq(P), NEW D
  PROVE  \E g : g \in [0..Len(list) -> Seq(P)] /\ Selects(g, first, list, D)
<1> DEFINE L == Len(list)
           X == Seq(P)
           After(u, n) == IF list[n] \in D THEN Append(u, list[n]) ELSE u
           step == [y \in X \X (1..L) |-> After(y[1], y[2])]
<1>1. L \in Nat /\ first \in X /\ \A n \in 1..L : list[n] \in P
  OBVIOUS
<1>2. \A u \in X, n \in 1..L : After(u, n) \in X
  BY <1>1
<1>3. step \in [X \X (1..L) -> X]
  <2> HIDE DEF X, L, After
  <2> SUFFICES ASSUME NEW y \in X \X (1..L) PROVE After(y[1], y[2]) \in X
    OBVIOUS
  <2> QED BY <1>2
<1>4. \A u \in X, n \in 1..L : step[<<u, n>>] = After(u, n)
  <2> HIDE DEF X, L, After
  <2> SUFFICES ASSUME NEW u \in X, NEW n \in 1..L
               PROVE  step[<<u, n>>] = After(u, n)
    OBVIOUS
  <2>1. <<u, n>> \in X \X (1..L)
    OBVIOUS
  <2> QED BY <2>1
<1>5. PICK g : Iterates(g, X, first, L, step)
  <2> HIDE DEF X, L, step
  <2> QED BY <1>1, <1>3, IterationExists
<1> HIDE DEF X, L, step
<1>6. g \in [0..L -> X] /\ g[0] = first
      /\ \A n \in 1..L : g[n] = step[<<g[n - 1], n>>]
  BY <1>5 DEF Iterates
<1>7. ASSUME NEW n \in 1..L PROVE g[n] = After(g[n - 1], n)
  <2> HIDE DEF After
  <2>1. n - 1 \in 0..L
    BY <1>1
  <2> QED BY <1>4, <1>6, <2>1
<1> QED BY <1>6, <1>7 DEF Selects, L, X

\* Two loops side by side.
LEMMA TwoLoops ==
  ASSUME NEW X, NEW L \in Nat, NEW g, NEW h, <<g[0], h[0]>> \in X,
         \A n \in 1..L : <<g[n - 1], h[n - 1]>> \in X => <<g[n], h[n]>> \in X
  PROVE  <<g[L], h[L]>> \in X
<1> DEFINE f == [n \in 0..L |-> <<g[n], h[n]>>]
<1>1. \A n \in 0..L : f[n] = <<g[n], h[n]>>
  OBVIOUS
<1>2. 0 \in 0..L /\ L \in 0..L /\ \A n \in 1..L : n \in 0..L /\ n - 1 \in 0..L
  OBVIOUS
<1> HIDE DEF f
<1>3. f[0] \in X
  BY <1>1, <1>2
<1>4. \A n \in 1..L : f[n - 1] \in X => f[n] \in X
  BY <1>1, <1>2
<1>5. f[L] \in X
  BY <1>3, <1>4, IterationStays
<1> QED BY <1>1, <1>2, <1>5

\* One more element, and one list behind another: names that keep the provers
\* from looking into the lists.
More(s, e) == Append(s, e)
Joined(s, t) == s \o t

LEMMA MoreJoined ==
  ASSUME NEW P
  PROVE  /\ \A s \in Seq(P), e \in P : More(s, e) \in Seq(P)
         /\ \A s, t \in Seq(P) : Joined(s, t) \in Seq(P)
         /\ \A s \in Seq(P) : Joined(s, <<>>) = s /\ Joined(<<>>, s) = s
         /\ \A s, t \in Seq(P), e \in P :
              More(Joined(s, t), e) = Joined(s, More(t, e))
         /\ \A s, t, u \in Seq(P) : Joined(Joined(s, t), u) = Joined(s, Joined(t, u))
         /\ <<>> \in Seq(P)
<1>1. ASSUME NEW s \in Seq(P), NEW e \in P PROVE More(s, e) \in Seq(P)
  BY AppendProperties DEF More
<1>2. ASSUME NEW s \in Seq(P), NEW t \in Seq(P) PROVE Joined(s, t) \in Seq(P)
  BY ConcatProperties DEF Joined
<1>3. ASSUME NEW s \in Seq(P) PROVE Joined(s, <<>>) = s /\ Joined(<<>>, s) = s
  BY ConcatEmptySeq DEF Joined
<1>4. ASSUME NEW s \in Seq(P), NEW t \in Seq(P), NEW e \in P
      PROVE  More(Joined(s, t), e) = Joined(s, More(t, e))
  <2> DEFINE x == More(Joined(s, t), e)
             y == Joined(s, More(t, e))
  <2>1. x \in Seq(P) /\ y \in Seq(P)
    BY <1>1, <1>2
  <2>2. Len(x) = Len(y)
    BY DEF More, Joined
  <2>3. ASSUME NEW i \in 1..Len(x) PROVE x[i] = y[i]
    BY DEF More, Joined
  <2> HIDE DEF x, y
  <2>4. x = y
    BY <2>1, <2>2, <2>3, SeqEqual
  <2> QED BY <2>4 DEF x, y
<1>5. ASSUME NEW s \in Seq(P), NEW t \in Seq(P), NEW u \in Seq(P)
      PROVE  Joined(Joined(s, t), u) = Joined(s, Joined(t, u))
  BY ConcatAssociative DEF Joined
<1>6. <<>> \in Seq(P)
  OBVIOUS
<1> QED BY <1>1, <1>2, <1>3, <1>4, <1>5, <1>6

\* All values of the loop are lists.
LEMMA SelectionTyped ==
  ASSUME NEW P, NEW first \in Seq(P), NEW list \in Seq(P), NEW D, NEW g,
         Selects(g, first, list, D)
  PROVE  g[Len(list)] \in Seq(P)
<1> DEFINE L == Len(list)
<1>1. L \in Nat /\ g[0] \in Seq(P) /\ \A n \in 1..L : list[n] \in P
  BY DEF Selects
<1>2. ASSUME NEW n \in 1..L, g[n - 1] \in Seq(P) PROVE g[n] \in Seq(P)
  <2>1. g[n] \in {g[n - 1], Append(g[n - 1], list[n])}
    BY DEF Selects
  <2>2. Append(g[n - 1], list[n]) \in Seq(P)
    BY <1>1, <1>2, AppendProperties
  <2> QED BY <1>2, <2>1, <2>2
<1> HIDE DEF L
<1>3. g[L] \in Seq(P)
  BY <1>1, <1>2, IterationStays
<1> QED BY <1>3 DEF L

\* What it began with is in front of what it would have made of nothing.
LEMMA SelectionAfter ==
  ASSUME NEW P, NEW first \in Seq(P), NEW list \in Seq(P), NEW D, NEW g, NEW h,
         Selects(g, first, list, D), Selects(h, <<>>, list, D)
  PROVE  g[Len(list)] = Joined(first, h[Len(list)])
<1> DEFINE L == Len(list)
           X == {y \in Seq(P) \X Seq(P) : y[1] = Joined(first, y[2])}
<1>0. \A u \in Seq(P), v \in Seq(P) : <<u, v>> \in X <=> u = Joined(first, v)
  OBVIOUS
<1>1. L \in Nat /\ \A n \in 1..L : list[n] \in P
  OBVIOUS
<1>2. <<g[0], h[0]>> \in X
  <2>1. g[0] = first /\ h[0] = <<>>
    BY DEF Selects
  <2> HIDE DEF X
  <2> QED BY <1>0, <2>1, MoreJoined
<1>3. ASSUME NEW n \in 1..L, <<g[n - 1], h[n - 1]>> \in X
      PROVE  <<g[n], h[n]>> \in X
  <2>1. list[n] \in P /\ g[n - 1] \in Seq(P) /\ h[n - 1] \in Seq(P)
        /\ g[n - 1] = Joined(first, h[n - 1])
    BY <1>1, <1>3
  <2> HIDE DEF X
  <2>2. CASE list[n] \in D
    <3>1. g[n] = More(g[n - 1], list[n]) /\ h[n] = More(h[n - 1], list[n])
      BY <2>2 DEF Selects, More
    <3>2. /\ \A s \in Seq(P), e \in P : More(s, e) \in Seq(P)
          /\ \A s, t \in Seq(P), e \in P :
               More(Joined(s, t), e) = Joined(s, More(t, e))
      BY MoreJoined
    <3>3. g[n] \in Seq(P) /\ h[n] \in Seq(P) /\ g[n] = Joined(first, h[n])
      <4>1. h[n] \in Seq(P)
        BY <2>1, <3>1, <3>2
      <4>2. g[n] = More(Joined(first, h[n - 1]), list[n])
        BY <2>1, <3>1
      <4>3. g[n] = Joined(first, More(h[n - 1], list[n]))
        BY <2>1, <3>2, <4>2
      <4>4. g[n] \in Seq(P)
        BY <2>1, <3>1, <3>2
      <4> QED BY <3>1, <4>1, <4>3, <4>4
    <3> QED BY <1>0, <3>3
  <2>3. CASE list[n] \notin D
    <3>1. g[n] = g[n - 1] /\ h[n] = h[n - 1]
      BY <2>3 DEF Selects
    <3> QED BY <1>3, <3>1
  <2> QED BY <2>2, <2>3
<1>4. <<g[L], h[L]>> \in X
  <2> HIDE DEF X, L
  <2> QED BY <1>1, <1>2, <1>3, TwoLoops
<1> QED BY <1>4

\* Two loops over the same list that begin the same end the same.
LEMMA SelectionUnique ==
  ASSUME NEW P, NEW first \in Seq(P), NEW list \in Seq(P), NEW D, NEW g, NEW h,
         Selects(g, first, list, D), Selects(h, first, list, D)
  PROVE  g[Len(list)] = h[Len(list)]
<1>1. <<>> \in Seq(P)
  OBVIOUS
<1>2. PICK k : Selects(k, <<>>, list, D)
  BY <1>1, SelectionExists
<1>3. g[Len(list)] = Joined(first, k[Len(list)])
  BY <1>2, SelectionAfter
<1>4. h[Len(list)] = Joined(first, k[Len(list)])
  BY <1>2, SelectionAfter
<1> QED BY <1>3, <1>4
\* A loop over two lists, one behind the other, is two loops.
LEMMA SelectionSplits ==
  ASSUME NEW P, NEW first \in Seq(P), NEW a \in Seq(P), NEW b \in Seq(P), NEW D,
         NEW g, NEW h, NEW k, Selects(g, first, a \o b, D),
         Selects(h, first, a, D), Selects(k, h[Len(a)], b, D)
  PROVE  g[Len(a \o b)] = k[Len(b)]
<1> DEFINE la == Len(a)
           lb == Len(b)
           ab == a \o b
           Same == {<<y, y>> : y \in Seq(P)}
<1>1. /\ la \in Nat /\ lb \in Nat /\ Len(ab) = la + lb /\ ab \in Seq(P)
      /\ \A n \in 1..la : ab[n] = a[n] /\ a[n] \in P
      /\ \A n \in 1..lb : ab[la + n] = b[n] /\ b[n] \in P
  OBVIOUS
<1>2. \A u, v : <<u, v>> \in Same <=> u = v /\ u \in Seq(P)
  OBVIOUS
<1> HIDE DEF ab, la, lb, Same
<1>3. \A s \in Seq(P), e \in P : Append(s, e) \in Seq(P)
  BY AppendProperties
<1>4. <<g[la], h[la]>> \in Same
  <2>1. <<g[0], h[0]>> \in Same
    BY <1>2 DEF Selects
  <2>2. ASSUME NEW n \in 1..la, <<g[n - 1], h[n - 1]>> \in Same
        PROVE  <<g[n], h[n]>> \in Same
    <3>1. g[n - 1] = h[n - 1] /\ g[n - 1] \in Seq(P)
      BY <1>2, <2>2
    <3>2. ab[n] = a[n] /\ a[n] \in P /\ n \in 1..Len(ab)
      BY <1>1
    <3>3. g[n] = IF ab[n] \in D THEN Append(g[n - 1], ab[n]) ELSE g[n - 1]
      BY <3>2 DEF Selects, ab
    <3>4. h[n] = IF a[n] \in D THEN Append(h[n - 1], a[n]) ELSE h[n - 1]
      BY DEF Selects, la
    <3>5. g[n] = h[n]
      BY <3>1, <3>2, <3>3, <3>4
    <3>6. g[n] \in Seq(P)
      BY <1>3, <3>1, <3>2, <3>3
    <3> QED BY <1>2, <3>5, <3>6
  <2> QED BY <1>1, <2>1, <2>2, TwoLoops
<1> DEFINE f == [n \in 0..lb |-> g[la + n]]
<1>5. \A n \in 0..lb : f[n] = g[la + n]
  OBVIOUS
<1> HIDE DEF f
<1>6. <<f[lb], k[lb]>> \in Same
  <2>1. <<f[0], k[0]>> \in Same
    <3>1. 0 \in 0..lb /\ la + 0 = la
      BY <1>1
    <3>2. f[0] = g[la] /\ k[0] = h[la]
      BY <1>5, <3>1 DEF Selects, la
    <3> QED BY <1>4, <3>2
  <2>2. ASSUME NEW n \in 1..lb, <<f[n - 1], k[n - 1]>> \in Same
        PROVE  <<f[n], k[n]>> \in Same
    <3>0. n - 1 \in 0..lb /\ n \in 0..lb /\ la + (n - 1) = (la + n) - 1
      BY <1>1
    <3>1. f[n - 1] = k[n - 1] /\ f[n - 1] \in Seq(P)
      BY <1>2, <2>2
    <3>2. ab[la + n] = b[n] /\ b[n] \in P /\ la + n \in 1..Len(ab)
      BY <1>1
    <3>3. f[n] = g[la + n] /\ f[n - 1] = g[(la + n) - 1]
      BY <1>5, <3>0
    <3>4. g[la + n] = IF ab[la + n] \in D THEN Append(g[(la + n) - 1], ab[la + n])
                      ELSE g[(la + n) - 1]
      BY <3>2 DEF Selects, ab
    <3>5. k[n] = IF b[n] \in D THEN Append(k[n - 1], b[n]) ELSE k[n - 1]
      BY DEF Selects, lb
    <3>6. f[n] = k[n]
      BY <3>1, <3>2, <3>3, <3>4, <3>5
    <3>7. f[n] \in Seq(P)
      BY <1>3, <3>1, <3>2, <3>3, <3>4
    <3> QED BY <1>2, <3>6, <3>7
  <2> QED BY <1>1, <2>1, <2>2, TwoLoops
<1>7. f[lb] = k[lb] /\ f[lb] = g[la + lb]
  <2>1. lb \in 0..lb
    BY <1>1
  <2> QED BY <1>2, <1>5, <1>6, <2>1
<1> QED BY <1>1, <1>7 DEF ab, la, lb

\* What a loop takes of a list is a part of it.
PartUpTo(t, s, n) ==
  \E at \in [1..Len(t) -> 1..n] :
    /\ \A i \in 1..Len(t) : t[i] = s[at[i]]
    /\ \A i, j \in 1..Len(t) : i < j => at[i] < at[j]

LEMMA PartGrows ==
  ASSUME NEW P, NEW s \in Seq(P), NEW t \in Seq(P), NEW n \in 1..Len(s),
         PartUpTo(t, s, n - 1)
  PROVE  PartUpTo(t, s, n) /\ PartUpTo(Append(t, s[n]), s, n)
<1>1. PICK at \in [1..Len(t) -> 1..(n - 1)] :
             /\ \A i \in 1..Len(t) : t[i] = s[at[i]]
             /\ \A i, j \in 1..Len(t) : i < j => at[i] < at[j]
  BY DEF PartUpTo
<1>2. n \in Nat /\ 1..(n - 1) \subseteq 1..n /\ n \in 1..n /\ Len(t) \in Nat
      /\ s[n] \in P
  OBVIOUS
<1>3. PartUpTo(t, s, n)
  <2>1. at \in [1..Len(t) -> 1..n]
    BY <1>2
  <2> QED BY <1>1, <2>1 DEF PartUpTo
<1>4. PartUpTo(Append(t, s[n]), s, n)
  <2> DEFINE L == Len(t)
             u == Append(t, s[n])
             more == [i \in 1..(L + 1) |-> IF i = L + 1 THEN n ELSE at[i]]
  <2>1. Len(u) = L + 1 /\ u[L + 1] = s[n] /\ \A i \in 1..L : u[i] = t[i]
    BY <1>2, AppendProperties
  <2>2. \A i \in 1..(L + 1) : i = L + 1 \/ i \in 1..L
    BY <1>2
  <2>3. more \in [1..(L + 1) -> 1..n] /\ more[L + 1] = n
        /\ \A i \in 1..L : more[i] = at[i]
    BY <1>2, <2>2
  <2> HIDE DEF more, u
  <2>4. \A i \in 1..(L + 1) : u[i] = s[more[i]]
    BY <1>1, <2>1, <2>2, <2>3
  <2>5. ASSUME NEW i \in 1..(L + 1), NEW j \in 1..(L + 1), i < j
        PROVE  more[i] < more[j]
    <3>1. i \in 1..L
      BY <1>2, <2>5
    <3>2. CASE j = L + 1
      <4>1. more[i] \in 1..(n - 1) /\ more[j] = n
        BY <2>3, <3>1, <3>2
      <4> QED BY <1>2, <4>1
    <3>3. CASE j \in 1..L
      BY <1>1, <2>3, <2>5, <3>1, <3>3
    <3> QED BY <2>2, <3>2, <3>3
  <2>6. PartUpTo(u, s, n)
    BY <2>1, <2>3, <2>4, <2>5 DEF PartUpTo
  <2> QED BY <2>6 DEF u
<1> QED BY <1>3, <1>4

LEMMA SelectionIsPart ==
  ASSUME NEW P, NEW list \in Seq(P), NEW D, NEW g, Selects(g, <<>>, list, D)
  PROVE  Queue!IsPartOf(g[Len(list)], list) /\ g[Len(list)] \in Seq(P)
<1> DEFINE L == Len(list)
           X == {y \in Nat \X Seq(P) : PartUpTo(y[2], list, y[1])}
           f == [n \in 0..L |-> n]
<1>0. \A n \in Nat, t \in Seq(P) : <<n, t>> \in X <=> PartUpTo(t, list, n)
  OBVIOUS
<1>1. L \in Nat /\ \A n \in 1..L : n \in Nat /\ n - 1 \in Nat /\ f[n] = n
                                   /\ f[n - 1] = n - 1 /\ list[n] \in P
  OBVIOUS
<1>2. f[0] = 0 /\ f[L] = L
  OBVIOUS
<1>3. \A y \in X : y[1] \in Nat /\ y[2] \in Seq(P)
  OBVIOUS
<1> HIDE DEF X, f
<1>4. <<f[0], g[0]>> \in X
  <2>1. g[0] = <<>> /\ <<>> \in Seq(P)
    BY DEF Selects
  <2>2. PartUpTo(<<>>, list, 0)
    <3> DEFINE none == [i \in 1..0 |-> 0]
    <3>1. Len(<<>>) = 0 /\ 1..0 = {}
      OBVIOUS
    <3>2. none \in [1..Len(<<>>) -> 1..0]
      BY <3>1
    <3> HIDE DEF none
    <3> QED BY <3>1, <3>2 DEF PartUpTo
  <2> QED BY <1>0, <1>2, <2>1, <2>2
<1>5. ASSUME NEW n \in 1..L, <<f[n - 1], g[n - 1]>> \in X
      PROVE  <<f[n], g[n]>> \in X
  <2>1. g[n - 1] \in Seq(P)
    BY <1>3, <1>5
  <2>2. PartUpTo(g[n - 1], list, n - 1)
    BY <1>0, <1>1, <1>5, <2>1
  <2>3. PICK t \in Seq(P) : t = g[n - 1]
    BY <2>1
  <2>4. PartUpTo(t, list, n) /\ PartUpTo(Append(t, list[n]), list, n)
    BY <2>2, <2>3, PartGrows
  <2>5. g[n] = IF list[n] \in D THEN Append(t, list[n]) ELSE t
    BY <2>3 DEF Selects
  <2>6. Append(t, list[n]) \in Seq(P)
    BY <1>1, AppendProperties
  <2>7. g[n] \in Seq(P) /\ PartUpTo(g[n], list, n)
    BY <2>4, <2>5, <2>6
  <2> QED BY <1>0, <1>1, <2>7
<1>6. <<f[L], g[L]>> \in X
  <2> HIDE DEF L
  <2> QED BY <1>1, <1>4, <1>5, TwoLoops
<1>7. g[L] \in Seq(P)
  BY <1>3, <1>6
<1>8. PartUpTo(g[L], list, L)
  BY <1>0, <1>1, <1>2, <1>6, <1>7
<1> QED BY <1>7, <1>8 DEF PartUpTo, Queue!IsPartOf

\* A loop that takes nothing ends with what it began with.
LEMMA SelectsNothing ==
  ASSUME NEW P, NEW first \in Seq(P), NEW list \in Seq(P), NEW D, NEW g,
         Selects(g, first, list, D), \A n \in 1..Len(list) : list[n] \notin D
  PROVE  g[Len(list)] = first
<1> DEFINE h == [n \in 0..Len(list) |-> first]
<1>1. Len(list) \in Nat /\ \A n \in 1..Len(list) : n \in 0..Len(list) /\ n - 1 \in 0..Len(list)
  OBVIOUS
<1>2. \A n \in 0..Len(list) : h[n] = first
  OBVIOUS
<1>3. 0 \in 0..Len(list) /\ Len(list) \in 0..Len(list)
  BY <1>1
<1> HIDE DEF h
<1>4. Selects(h, first, list, D)
  BY <1>1, <1>2, <1>3 DEF Selects
<1>5. g[Len(list)] = h[Len(list)]
  BY <1>4, SelectionUnique
<1> QED BY <1>2, <1>3, <1>5

\* One that takes everything ends with the list.
LEMMA SelectsAll ==
  ASSUME NEW P, NEW list \in Seq(P), NEW D, NEW g,
         Selects(g, <<>>, list, D), \A n \in 1..Len(list) : list[n] \in D
  PROVE  g[Len(list)] = list
<1> DEFINE L == Len(list)
           X == {y \in (0..L) \X Seq(P) : y[2] = SubSeq(list, 1, y[1])}
           f == [n \in 0..L |-> n]
<1>0. \A n \in 0..L : \A u : <<n, u>> \in X <=> u \in Seq(P) /\ u = SubSeq(list, 1, n)
  OBVIOUS
<1>1. L \in Nat /\ \A n \in 1..L : n \in 0..L /\ n - 1 \in 0..L /\ f[n] = n
                                   /\ f[n - 1] = n - 1 /\ list[n] \in P
  OBVIOUS
<1>2. f[0] = 0 /\ f[L] = L /\ 0 \in 0..L /\ L \in 0..L
  BY <1>1
<1> HIDE DEF X, f
<1>3. <<f[0], g[0]>> \in X
  <2>1. g[0] = <<>> /\ <<>> \in Seq(P)
    BY DEF Selects
  <2>2. SubSeq(list, 1, 0) = <<>>
    BY SubSeqEmpty
  <2> QED BY <1>0, <1>2, <2>1, <2>2
<1>4. ASSUME NEW n \in 1..L, <<f[n - 1], g[n - 1]>> \in X
      PROVE  <<f[n], g[n]>> \in X
  <2>1. g[n - 1] \in Seq(P) /\ g[n - 1] = SubSeq(list, 1, n - 1)
    BY <1>0, <1>1, <1>4
  <2>2. g[n] = Append(g[n - 1], list[n])
    BY DEF Selects
  <2>3. 1 \in 1..L /\ n \in 1..L /\ n \in 1..Len(list) /\ 1 \in 1..Len(list)
    BY <1>1
  <2>4. SubSeq(list, 1, n) = SubSeq(list, 1, n - 1) \o <<list[n]>>
    BY <2>3, SubSeqRecursiveSecond
  <2>5. PICK u \in Seq(P) : u = g[n - 1]
    BY <2>1
  <2>6. list[n] \in P
    BY <1>1
  <2>7. Append(u, list[n]) = u \o <<list[n]>>
    BY <2>6, AppendIsConcat
  <2>8. Append(u, list[n]) \in Seq(P)
    BY <2>6, AppendProperties
  <2>9. g[n] = Append(u, list[n])
    BY <2>2, <2>5
  <2>10. SubSeq(list, 1, n) = u \o <<list[n]>>
    BY <2>1, <2>4, <2>5
  <2>11. g[n] \in Seq(P) /\ g[n] = SubSeq(list, 1, n)
    BY <2>7, <2>8, <2>9, <2>10
  <2> QED BY <1>0, <1>1, <2>11
<1>5. <<f[L], g[L]>> \in X
  <2> HIDE DEF L
  <2> QED BY <1>1, <1>3, <1>4, TwoLoops
<1>6. g[L] = SubSeq(list, 1, L)
  BY <1>0, <1>2, <1>5
<1>7. SubSeq(list, 1, L) = list
  BY SubSeqFull
<1> QED BY <1>6, <1>7

-----------------------------------------------------------------------------
(* Through and Polled are such loops.                                      *)

\* What came over a channel.
Over(P, c) == {p \in P : p.via = c}

\* Through takes out of a list what came over the channel.
LEMMA ThroughSelects ==
  ASSUME NEW P, NEW list \in Seq(P), NEW c
  PROVE  \E g : /\ Selects(g, <<>>, list, Over(P, c))
                /\ Through(list, c) = g[Len(list)]
<1> DEFINE
      L == Len(list)
      After(u, n) == IF list[n].via = c THEN Append(u, list[n]) ELSE u
      Steps(h) == h = [n \in 0..L |-> IF n = 0 THEN <<>> ELSE After(h[n - 1], n)]
      through == CHOOSE h : Steps(h)
<1>1. L \in Nat /\ <<>> \in Seq(P) /\ 0 \in 0..L
      /\ \A n \in 1..L : n \in 0..L /\ n # 0 /\ list[n] \in P
  OBVIOUS
<1>2. \A n \in 1..L : list[n] \in Over(P, c) <=> list[n].via = c
  BY <1>1 DEF Over
<1>3. PICK g : g \in [0..L -> Seq(P)] /\ Selects(g, <<>>, list, Over(P, c))
  BY <1>1, SelectionExists
<1>4. Steps(g)
  <2>1. ASSUME NEW n \in 0..L
        PROVE  g[n] = IF n = 0 THEN <<>> ELSE After(g[n - 1], n)
    <3>1. CASE n = 0
      BY <1>3, <3>1 DEF Selects
    <3>2. CASE n \in 1..L
      BY <1>2, <1>3, <3>2 DEF Selects
    <3> QED BY <1>1, <3>1, <3>2
  <2>2. g = [n \in 0..L |-> g[n]]
    BY <1>3
  <2> HIDE DEF L, After
  <2> QED BY <2>1, <2>2
<1>5. Steps(through)
  <2> HIDE DEF Steps
  <2> QED BY <1>4
<1>6. /\ through[0] = <<>>
      /\ \A n \in 1..L : through[n] = After(through[n - 1], n)
  <2> HIDE DEF through, L, After
  <2> QED BY <1>1, <1>5
<1>7. Selects(through, <<>>, list, Over(P, c))
  <2> HIDE DEF through
  <2> QED BY <1>2, <1>6 DEF Selects
<1>8. Through(list, c) = through[L]
  BY DEF Through
<1> HIDE DEF through
<1> QED BY <1>7, <1>8

\* Polled puts what is accepted behind a list.
LEMMA PolledSelects ==
  ASSUME NEW P, NEW list \in Seq(P), NEW queue \in Seq(P), NEW accepted
  PROVE  \E g : /\ Selects(g, list, queue, {p \in P : p.from \in accepted})
                /\ Polled(list, queue, accepted) = g[Len(queue)]
<1> DEFINE
      L == Len(queue)
      D == {p \in P : p.from \in accepted}
      After(u, n) == IF queue[n].from \in accepted THEN Append(u, queue[n]) ELSE u
      Steps(h) == h = [n \in 0..L |-> IF n = 0 THEN list ELSE After(h[n - 1], n)]
      polled == CHOOSE h : Steps(h)
<1>1. L \in Nat /\ 0 \in 0..L
      /\ \A n \in 1..L : n \in 0..L /\ n # 0 /\ queue[n] \in P
  OBVIOUS
<1>2. \A n \in 1..L : queue[n] \in D <=> queue[n].from \in accepted
  BY <1>1
<1> HIDE DEF D
<1>3. PICK g : g \in [0..L -> Seq(P)] /\ Selects(g, list, queue, D)
  BY <1>1, SelectionExists
<1>4. Steps(g)
  <2>1. ASSUME NEW n \in 0..L
        PROVE  g[n] = IF n = 0 THEN list ELSE After(g[n - 1], n)
    <3>1. CASE n = 0
      BY <1>3, <3>1 DEF Selects
    <3>2. CASE n \in 1..L
      BY <1>2, <1>3, <3>2 DEF Selects
    <3> QED BY <1>1, <3>1, <3>2
  <2>2. g = [n \in 0..L |-> g[n]]
    BY <1>3
  <2> HIDE DEF L, After
  <2> QED BY <2>1, <2>2
<1>5. Steps(polled)
  <2> HIDE DEF Steps
  <2> QED BY <1>4
<1>6. /\ polled[0] = list
      /\ \A n \in 1..L : polled[n] = After(polled[n - 1], n)
  <2> HIDE DEF polled, L, After
  <2> QED BY <1>1, <1>5
<1>7. Selects(polled, list, queue, D)
  <2> HIDE DEF polled
  <2> QED BY <1>2, <1>6 DEF Selects
<1>8. Polled(list, queue, accepted) = polled[L]
  BY DEF Polled
<1> HIDE DEF polled
<1> QED BY <1>7, <1>8 DEF D

LEMMA ThroughTyped ==
  ASSUME NEW P, NEW list \in Seq(P), NEW c
  PROVE  Through(list, c) \in Seq(P)
<1>1. PICK g : /\ Selects(g, <<>>, list, Over(P, c))
               /\ Through(list, c) = g[Len(list)]
  BY ThroughSelects
<1>2. <<>> \in Seq(P)
  OBVIOUS
<1> QED BY <1>1, <1>2, SelectionTyped

\* Of two lists behind each other.
LEMMA ThroughJoined ==
  ASSUME NEW P, NEW a \in Seq(P), NEW b \in Seq(P), NEW c
  PROVE  Through(a \o b, c) = Through(a, c) \o Through(b, c)
<1>1. a \o b \in Seq(P) /\ <<>> \in Seq(P)
  BY ConcatProperties
<1>2. PICK g : /\ Selects(g, <<>>, a \o b, Over(P, c))
               /\ Through(a \o b, c) = g[Len(a \o b)]
  BY <1>1, ThroughSelects
<1>3. PICK h : /\ Selects(h, <<>>, a, Over(P, c))
               /\ Through(a, c) = h[Len(a)]
  BY ThroughSelects
<1>4. PICK m : /\ Selects(m, <<>>, b, Over(P, c))
               /\ Through(b, c) = m[Len(b)]
  BY ThroughSelects
<1>5. PICK first \in Seq(P) : first = h[Len(a)]
  BY <1>1, <1>3, SelectionTyped
<1>6. PICK k : Selects(k, first, b, Over(P, c))
  BY SelectionExists
<1>7. k[Len(b)] = Joined(first, m[Len(b)])
  BY <1>4, <1>6, SelectionAfter
<1>8. Selects(k, h[Len(a)], b, Over(P, c))
  BY <1>5, <1>6
<1>9. g[Len(a \o b)] = k[Len(b)]
  <2> DEFINE D == Over(P, c)
  <2>1. PICK none \in Seq(P) : none = <<>>
    BY <1>1
  <2>2. Selects(g, none, a \o b, D) /\ Selects(h, none, a, D)
    BY <1>2, <1>3, <2>1
  <2>3. Selects(k, h[Len(a)], b, D)
    BY <1>8
  <2> HIDE DEF D
  <2> QED BY ONLY a \in Seq(P), b \in Seq(P), none \in Seq(P), <2>2, <2>3,
            SelectionSplits
<1>10. Joined(first, m[Len(b)]) = first \o m[Len(b)]
  BY DEF Joined
<1> QED BY <1>2, <1>3, <1>4, <1>5, <1>7, <1>9, <1>10

\* Of a list from one channel.
LEMMA ThroughOwn ==
  ASSUME NEW P, NEW list \in Seq(P), NEW c, NEW d,
         \A i \in 1..Len(list) : list[i].via = d
  PROVE  Through(list, c) = IF c = d THEN list ELSE <<>>
<1>1. PICK g : /\ Selects(g, <<>>, list, Over(P, c))
               /\ Through(list, c) = g[Len(list)]
  BY ThroughSelects
<1>2. <<>> \in Seq(P) /\ \A i \in 1..Len(list) : list[i] \in P
  OBVIOUS
<1>3. CASE c = d
  <2>1. \A i \in 1..Len(list) : list[i] \in Over(P, c)
    BY <1>2, <1>3 DEF Over
  <2> QED BY <1>1, <1>3, <2>1, SelectsAll
<1>4. CASE c # d
  <2>1. \A i \in 1..Len(list) : list[i] \notin Over(P, c)
    BY <1>2, <1>4 DEF Over
  <2> QED BY <1>1, <1>2, <1>4, <2>1, SelectsNothing
<1> QED BY <1>3, <1>4

LEMMA ThroughNothing ==
  ASSUME NEW c
  PROVE  Through(<<>>, c) = <<>>
<1>1. <<>> \in Seq({}) /\ Len(<<>>) = 0
  OBVIOUS
<1>2. \A i \in 1..Len(<<>>) : <<>>[i].via = c
  BY <1>1
<1> QED BY <1>1, <1>2, ThroughOwn

\* With one packet more.
LEMMA ThroughAppend ==
  ASSUME NEW P, NEW list \in Seq(P), NEW p \in P, NEW c
  PROVE  Through(Append(list, p), c) =
           IF p.via = c THEN Append(Through(list, c), p) ELSE Through(list, c)
<1>1. PICK one \in Seq(P) : one = <<p>> /\ Len(one) = 1 /\ one[1] = p
  <2>1. <<p>> \in Seq(P) /\ Len(<<p>>) = 1 /\ <<p>>[1] = p
    OBVIOUS
  <2> QED BY ONLY <2>1
<1>2. Append(list, p) = list \o one
  BY <1>1, AppendIsConcat
<1>3. PICK t \in Seq(P) : t = Through(list, c)
  BY ThroughTyped
<1>4. Through(list \o one, c) = Through(list, c) \o Through(one, c)
  BY ThroughJoined
<1>5. Through(one, c) = IF c = p.via THEN one ELSE <<>>
  <2>1. \A i \in 1..Len(one) : one[i].via = p.via
    BY <1>1
  <2> QED BY <2>1, ThroughOwn
<1>6. t \o one = Append(t, p) /\ t \o <<>> = t
  BY <1>1, AppendIsConcat, ConcatEmptySeq
<1> QED BY <1>2, <1>3, <1>4, <1>5, <1>6

\* The first one and the others.
LEMMA HeadBefore ==
  ASSUME NEW P, NEW p \in P, NEW s \in Seq(P)
  PROVE  /\ <<p>> \o s \in Seq(P) /\ <<p>> \o s # <<>>
         /\ Head(<<p>> \o s) = p /\ Tail(<<p>> \o s) = s
<1>1. <<p>> \in Seq(P) /\ Len(<<p>>) = 1 /\ <<p>>[1] = p /\ Len(s) \in Nat
  OBVIOUS
<1>2. PICK t \in Seq(P) : t = <<p>> \o s
  BY <1>1, ConcatProperties
<1>3. Len(t) = 1 + Len(s)
      /\ \A i \in 1..(1 + Len(s)) : t[i] = IF i <= 1 THEN p ELSE s[i - 1]
  BY <1>1, <1>2, ConcatProperties
<1>4. t # <<>> /\ t[1] = p
  BY <1>1, <1>3
<1>5. Head(t) = p
  BY <1>4
<1>6. Tail(t) = s
  <2>1. PICK u \in Seq(P) : u = Tail(t)
    BY <1>4, HeadTailProperties
  <2>2. Len(u) = Len(s) /\ \A i \in 1..Len(u) : u[i] = t[i + 1]
    BY <1>1, <1>3, <1>4, <2>1, HeadTailProperties
  <2>3. \A i \in 1..Len(s) : u[i] = s[i]
    BY <1>1, <1>3, <2>2
  <2>4. u = s
    BY ONLY <2>2, <2>3, u \in Seq(P), s \in Seq(P)
  <2> QED BY <2>1, <2>4
<1> QED BY <1>2, <1>4, <1>5, <1>6

\* A list is its first element and the others.
LEMMA HeadAndTail ==
  ASSUME NEW P, NEW s \in Seq(P), s # <<>>
  PROVE  Head(s) \in P /\ Tail(s) \in Seq(P) /\ s = <<Head(s)>> \o Tail(s)
<1>1. Len(s) \in Nat /\ Len(s) >= 1 /\ Head(s) = s[1]
  OBVIOUS
<1>2. PICK h \in P : h = Head(s)
  BY HeadTailProperties
<1>3. PICK t \in Seq(P) : t = Tail(s) /\ Len(t) = Len(s) - 1
                          /\ \A i \in 1..Len(t) : t[i] = s[i + 1]
  BY HeadTailProperties
<1>4. <<h>> \in Seq(P) /\ Len(<<h>>) = 1 /\ <<h>>[1] = h
  OBVIOUS
<1>5. PICK u \in Seq(P) : u = <<h>> \o t
  BY <1>4, ConcatProperties
<1>6. /\ Len(u) = Len(s)
      /\ \A i \in 1..Len(s) : u[i] = IF i <= 1 THEN h ELSE t[i - 1]
  BY <1>1, <1>3, <1>4, <1>5, ConcatProperties
<1>7. \A i \in 1..Len(s) : u[i] = s[i]
  BY <1>1, <1>2, <1>3, <1>6
<1>8. u = s
  BY ONLY <1>6, <1>7, u \in Seq(P), s \in Seq(P)
<1> QED BY <1>2, <1>3, <1>5, <1>8

\* Without its first packet.
LEMMA ThroughTail ==
  ASSUME NEW P, NEW list \in Seq(P), list # <<>>, NEW c
  PROVE  Through(list, c) =
           IF Head(list).via = c THEN <<Head(list)>> \o Through(Tail(list), c)
           ELSE Through(Tail(list), c)
<1>1. PICK h \in P : h = Head(list)
  BY HeadAndTail
<1>2. PICK t \in Seq(P) : t = Tail(list)
  BY HeadAndTail
<1>3. PICK one \in Seq(P) : one = <<h>> /\ Len(one) = 1 /\ one[1] = h
  <2>1. <<h>> \in Seq(P) /\ Len(<<h>>) = 1 /\ <<h>>[1] = h
    OBVIOUS
  <2> QED BY ONLY <2>1
<1>4. list = one \o t
  BY <1>1, <1>2, <1>3, HeadAndTail
<1>5. Through(one \o t, c) = Through(one, c) \o Through(t, c)
  BY ThroughJoined
<1>6. Through(one, c) = IF c = h.via THEN one ELSE <<>>
  <2>1. \A i \in 1..Len(one) : one[i].via = h.via
    BY <1>3
  <2> QED BY <2>1, ThroughOwn
<1>7. PICK u \in Seq(P) : u = Through(t, c)
  BY ThroughTyped
<1>8. <<>> \o u = u
  BY ConcatEmptySeq
<1>9. CASE h.via = c
  BY <1>1, <1>2, <1>3, <1>4, <1>5, <1>6, <1>9
<1>10. CASE h.via # c
  BY <1>1, <1>2, <1>4, <1>5, <1>6, <1>7, <1>8, <1>10
<1> QED BY <1>1, <1>9, <1>10

-----------------------------------------------------------------------------
(* Parts of lists.                                                         *)

LEMMA PartNone ==
  ASSUME NEW s
  PROVE  Queue!IsPartOf(<<>>, s)
<1> DEFINE none == [i \in 1..0 |-> 0]
<1>1. Len(<<>>) = 0 /\ 1..0 = {}
  OBVIOUS
<1>2. none \in [1..Len(<<>>) -> 1..Len(s)]
  BY <1>1
<1> HIDE DEF none
<1> QED BY <1>1, <1>2 DEF Queue!IsPartOf

LEMMA PartItself ==
  ASSUME NEW P, NEW s \in Seq(P)
  PROVE  Queue!IsPartOf(s, s)
<1> DEFINE same == [i \in 1..Len(s) |-> i]
<1>1. \A i \in 1..Len(s) : same[i] = i
  OBVIOUS
<1>2. same \in [1..Len(s) -> 1..Len(s)]
  OBVIOUS
<1> HIDE DEF same
<1> QED BY <1>1, <1>2 DEF Queue!IsPartOf

\* With the same list in front of both.
LEMMA PartBehind ==
  ASSUME NEW P, NEW p \in Seq(P), NEW t \in Seq(P), NEW s \in Seq(P),
         Queue!IsPartOf(t, s)
  PROVE  Queue!IsPartOf(p \o t, p \o s)
<1>1. PICK at \in [1..Len(t) -> 1..Len(s)] :
        /\ \A i \in 1..Len(t) : t[i] = s[at[i]]
        /\ \A i, j \in 1..Len(t) : i < j => at[i] < at[j]
  BY DEF Queue!IsPartOf
<1>2. PICK n \in Nat : n = Len(p)
  OBVIOUS
<1>3. PICK lt \in Nat, ls \in Nat : lt = Len(t) /\ ls = Len(s)
  OBVIOUS
<1>4. PICK pt \in Seq(P) : pt = p \o t
  BY ConcatProperties
<1>5. PICK ps \in Seq(P) : ps = p \o s
  BY ConcatProperties
<1>6. Len(pt) = n + lt /\ \A i \in 1..(n + lt) : pt[i] = IF i <= n THEN p[i] ELSE t[i - n]
  BY <1>2, <1>3, <1>4, ConcatProperties
<1>7. Len(ps) = n + ls /\ \A i \in 1..(n + ls) : ps[i] = IF i <= n THEN p[i] ELSE s[i - n]
  BY <1>2, <1>3, <1>5, ConcatProperties
<1> DEFINE to == [i \in 1..(n + lt) |-> IF i <= n THEN i ELSE n + at[i - n]]
<1>8. \A i \in 1..(n + lt) : to[i] = IF i <= n THEN i ELSE n + at[i - n]
  OBVIOUS
<1>9. \A i \in 1..(n + lt) : i > n => i - n \in 1..lt /\ at[i - n] \in 1..ls
  <2>1. at \in [1..lt -> 1..ls]
    BY <1>1, <1>3
  <2> SUFFICES ASSUME NEW i \in 1..(n + lt), i > n
               PROVE  i - n \in 1..lt /\ at[i - n] \in 1..ls
    OBVIOUS
  <2>2. i - n \in 1..lt
    OBVIOUS
  <2> QED BY <2>1, <2>2
<1>10. at \in [1..lt -> 1..ls]
  BY <1>1, <1>3
<1>11. lt > 0 => ls > 0
  BY <1>10
<1>12. \A i \in 1..(n + lt) : (IF i <= n THEN i ELSE n + at[i - n]) \in 1..(n + ls)
  <2> SUFFICES ASSUME NEW i \in 1..(n + lt)
               PROVE  (IF i <= n THEN i ELSE n + at[i - n]) \in 1..(n + ls)
    OBVIOUS
  <2>1. CASE i <= n
    BY <2>1
  <2>2. CASE i > n
    BY <1>9, <2>2
  <2> QED BY <2>1, <2>2
<1>13. to \in [1..(n + lt) -> 1..(n + ls)]
  BY <1>12
<1> HIDE DEF to
<1>14. ASSUME NEW i \in 1..(n + lt) PROVE pt[i] = ps[to[i]]
  <2>1. CASE i <= n
    BY <1>6, <1>7, <1>8, <1>13, <2>1
  <2>2. CASE i > n
    <3>1. to[i] = n + at[i - n] /\ at[i - n] \in 1..ls /\ i - n \in 1..lt
      BY <1>8, <1>9, <2>2
    <3>2. ps[to[i]] = s[at[i - n]]
      <4>1. PICK m \in 1..ls : m = at[i - n]
        BY <3>1
      <4>2. n + m \in 1..(n + ls) /\ ~ n + m <= n /\ (n + m) - n = m
        BY <1>3
      <4>3. ps[n + m] = s[m]
        BY ONLY <1>7, <4>2
      <4> QED BY <3>1, <4>1, <4>3
    <3>3. pt[i] = t[i - n]
      BY <1>6, <2>2
    <3>4. t[i - n] = s[at[i - n]]
      BY <1>1, <1>3, <3>1
    <3> QED BY <3>2, <3>3, <3>4
  <2> QED BY <2>1, <2>2
<1>15. ASSUME NEW i \in 1..(n + lt), NEW j \in 1..(n + lt), i < j
       PROVE  to[i] < to[j]
  <2>0. i \in Nat /\ j \in Nat
    OBVIOUS
  <2>1. CASE j <= n
    BY <1>8, <1>15, <2>1
  <2>2. CASE i <= n /\ j > n
    <3>1. PICK m \in 1..ls : m = at[j - n]
      BY <1>9, <2>2
    <3>2. to[i] = i /\ to[j] = n + m
      BY <1>8, <2>0, <2>2, <3>1
    <3> QED BY <2>0, <2>2, <3>2
  <2>3. CASE i > n
    <3>1. i - n \in 1..lt /\ j - n \in 1..lt /\ i - n < j - n /\ j > n
      BY <1>9, <1>15, <2>3
    <3>2. at[i - n] < at[j - n]
      BY <1>1, <1>3, <3>1
    <3>3. at[i - n] \in 1..ls /\ at[j - n] \in 1..ls
      BY <1>9, <2>3, <3>1
    <3> QED BY <1>8, <2>3, <3>1, <3>2, <3>3
  <2>4. j <= n \/ (i <= n /\ j > n) \/ i > n
    BY <2>0
  <2> QED BY <2>1, <2>2, <2>3, <2>4
<1>16. Queue!IsPartOf(pt, ps)
  <2>1. to \in [1..Len(pt) -> 1..Len(ps)]
    BY <1>6, <1>7, <1>13
  <2>2. \A i \in 1..Len(pt) : pt[i] = ps[to[i]]
    BY <1>6, <1>14
  <2>3. \A i, j \in 1..Len(pt) : i < j => to[i] < to[j]
    BY <1>6, <1>15
  <2> QED BY <2>1, <2>2, <2>3 DEF Queue!IsPartOf
<1> QED BY <1>4, <1>5, <1>16

\* Without what was in front.
LEMMA PartRest ==
  ASSUME NEW P, NEW p \in Seq(P), NEW t \in Seq(P)
  PROVE  Queue!IsPartOf(t, p \o t)
<1>1. PICK n \in Nat : n = Len(p)
  OBVIOUS
<1>2. PICK lt \in Nat : lt = Len(t)
  OBVIOUS
<1>3. PICK pt \in Seq(P) : pt = p \o t
  BY ConcatProperties
<1>4. Len(pt) = n + lt /\ \A i \in 1..(n + lt) : pt[i] = IF i <= n THEN p[i] ELSE t[i - n]
  BY <1>1, <1>2, <1>3, ConcatProperties
<1> DEFINE to == [i \in 1..lt |-> n + i]
<1>5. \A i \in 1..lt : to[i] = n + i
  OBVIOUS
<1>6. to \in [1..lt -> 1..(n + lt)]
  OBVIOUS
<1> HIDE DEF to
<1>7. \A i \in 1..lt : t[i] = pt[to[i]]
  BY <1>4, <1>5
<1>8. \A i, j \in 1..lt : i < j => to[i] < to[j]
  BY <1>5
<1>9. Queue!IsPartOf(t, pt)
  BY <1>2, <1>4, <1>6, <1>7, <1>8 DEF Queue!IsPartOf
<1> QED BY <1>3, <1>9

\* Polled puts a part of the socket's packets behind the list.
LEMMA PolledIsPart ==
  ASSUME NEW P, NEW list \in Seq(P), NEW queue \in Seq(P), NEW accepted
  PROVE  \E k \in Seq(P) : /\ Polled(list, queue, accepted) = list \o k
                           /\ Queue!IsPartOf(k, queue)
<1> DEFINE D == {p \in P : p.from \in accepted}
<1>1. PICK g : /\ Selects(g, list, queue, D)
               /\ Polled(list, queue, accepted) = g[Len(queue)]
  BY PolledSelects
<1> HIDE DEF D
<1>2. PICK none \in Seq(P) : none = <<>>
  <2>1. <<>> \in Seq(P)
    OBVIOUS
  <2> QED BY ONLY <2>1
<1>3. PICK h : Selects(h, none, queue, D)
  BY SelectionExists
<1>4. Selects(h, <<>>, queue, D)
  BY <1>2, <1>3
<1>5. g[Len(queue)] = Joined(list, h[Len(queue)])
  BY <1>1, <1>4, SelectionAfter
<1>6. Queue!IsPartOf(h[Len(queue)], queue) /\ h[Len(queue)] \in Seq(P)
  BY <1>4, SelectionIsPart
<1> QED BY <1>1, <1>5, <1>6 DEF Joined

-----------------------------------------------------------------------------
(* What a channel holds, and how the steps of a transmitter change it.     *)

Channels == {"rtp", "rtcp"} \cup Connection \cup {"injector"}

AnyPacket ==
  Packet \cup [n : Nat, via : {"injector"}] \cup [via : Connection, data : Octets]

\* The packets that are on their way over a connection.
Carried(c, packets) == [i \in DOMAIN packets |-> [via |-> c, data |-> packets[i]]]

\* What has arrived and is not in the list yet.
Waiting(c) ==
  CASE c \in {"rtp", "rtcp"} -> inbox[c]
    [] c \in Connection -> Carried(c, stream[c].packets)
    [] OTHER -> <<>>

Held(c) == Through(rawpacketlist, c) \o Waiting(c)

LEMMA ChannelsDiffer ==
  /\ \A c \in Connection : c \notin {"rtp", "rtcp", "injector"}
  /\ Channels = V4!Channel \cup Connection \cup {"injector"}
<1>1. \A c \in Connection : c \notin {"rtp", "rtcp", "injector"}
  BY InstanceAssumption
<1> QED BY <1>1 DEF Channels, V4!Channel

LEMMA PendingIsHeld ==
  /\ Pending = [c \in Channels |-> Held(c)]
  /\ Pending' = [c \in Channels |-> Held(c)']
BY ChannelsDiffer DEF Pending, Held, Waiting, Carried, V4!Channel

\* Of a packet it is known what it came over.
FlowInv ==
  /\ rawpacketlist \in Seq(AnyPacket)
  /\ inbox \in [{"rtp", "rtcp"} -> Seq(AnyPacket)]
  /\ \A c \in {"rtp", "rtcp"} : \A i \in 1..Len(inbox[c]) : inbox[c][i].via = c
  /\ \A s \in Connection : stream[s].packets \in Seq(Octets)

LEMMA PacketsComeOver ==
  \A p \in AnyPacket : p.via \in Channels
BY DEF AnyPacket, Packet, Channels

LEMMA CarriedTyped ==
  ASSUME NEW c \in Connection, NEW packets \in Seq(Octets)
  PROVE  /\ Carried(c, packets) \in Seq(AnyPacket)
         /\ Len(Carried(c, packets)) = Len(packets)
         /\ \A i \in 1..Len(packets) :
              Carried(c, packets)[i] = [via |-> c, data |-> packets[i]]
<1>1. PICK n \in Nat : n = Len(packets) /\ DOMAIN packets = 1..n
  OBVIOUS
<1>2. \A i \in 1..n : packets[i] \in Octets
  BY <1>1
<1>3. \A i \in 1..n : [via |-> c, data |-> packets[i]] \in AnyPacket
  BY <1>2 DEF AnyPacket
<1> DEFINE s == [i \in 1..n |-> [via |-> c, data |-> packets[i]]]
<1>4. s \in [1..n -> AnyPacket]
  BY <1>3
<1>5. s \in Seq(AnyPacket) /\ Len(s) = n
  <2> HIDE DEF s
  <2> QED BY <1>4
<1>6. Carried(c, packets) = s
  BY <1>1 DEF Carried
<1> QED BY <1>1, <1>5, <1>6

LEMMA HeldTyped ==
  ASSUME FlowInv, NEW c \in Channels
  PROVE  /\ Waiting(c) \in Seq(AnyPacket)
         /\ Through(rawpacketlist, c) \in Seq(AnyPacket)
         /\ Held(c) \in Seq(AnyPacket)
<1>1. Waiting(c) \in Seq(AnyPacket)
  <2>1. CASE c \in {"rtp", "rtcp"}
    <3>1. Waiting(c) = inbox[c]
      BY <2>1, ChannelsDiffer DEF Waiting
    <3>2. inbox[c] \in Seq(AnyPacket)
      BY <2>1 DEF FlowInv
    <3> QED BY <3>1, <3>2
  <2>2. CASE c \in Connection
    <3>1. Waiting(c) = Carried(c, stream[c].packets)
      BY <2>2, ChannelsDiffer DEF Waiting
    <3>2. stream[c].packets \in Seq(Octets)
      BY <2>2 DEF FlowInv
    <3> QED BY <2>2, <3>1, <3>2, CarriedTyped
  <2>3. CASE c = "injector"
    <3>1. Waiting(c) = <<>>
      BY <2>3, ChannelsDiffer DEF Waiting
    <3>2. <<>> \in Seq(AnyPacket)
      OBVIOUS
    <3> QED BY <3>1, <3>2
  <2> QED BY <2>1, <2>2, <2>3 DEF Channels
<1>2. rawpacketlist \in Seq(AnyPacket)
  BY DEF FlowInv
<1>3. Through(rawpacketlist, c) \in Seq(AnyPacket)
  BY <1>2, ThroughTyped
<1>4. Held(c) \in Seq(AnyPacket)
  BY <1>1, <1>3, ConcatProperties DEF Held
<1> QED BY <1>1, <1>3, <1>4

\* The steps of the queue, told from what the channels hold.
LEMMA HoldsTheSame ==
  ASSUME \A c \in Channels : Held(c)' = Held(c), taken' = taken
  PROVE  UNCHANGED Queue!vars
<1>1. Pending' = Pending
  BY PendingIsHeld
<1> QED BY <1>1 DEF Queue!vars

LEMMA HoldsLess ==
  ASSUME \A c \in Channels : Queue!IsPartOf(Held(c)', Held(c)), taken' = taken
  PROVE  Queue!Next
<1>1. DOMAIN Pending' = Channels /\ DOMAIN Pending = Channels
      /\ \A c \in Channels : Pending'[c] = Held(c)' /\ Pending[c] = Held(c)
  BY PendingIsHeld
<1>2. Queue!Lose
  BY <1>1 DEF Queue!Lose
<1> QED BY <1>2 DEF Queue!Next

LEMMA HoldsOneMore ==
  ASSUME FlowInv, NEW c \in Channels, NEW p \in AnyPacket, Held(c)' = Append(Held(c), p),
         \A d \in Channels \ {c} : Held(d)' = Held(d), taken' = taken
  PROVE  Queue!Next
<1>1. /\ DOMAIN Pending = Channels /\ Pending = [d \in Channels |-> Pending[d]]
      /\ \A d \in Channels : Pending'[d] = Held(d)' /\ Pending[d] = Held(d)
      /\ Pending' = [d \in Channels |-> Held(d)']
  BY PendingIsHeld
<1>2. PICK h \in Seq(AnyPacket) : h = Held(c)
  BY HeldTyped
<1>3. Append(h, p) \in Seq(AnyPacket) /\ Len(Append(h, p)) = Len(h) + 1
      /\ Queue!Last(Append(h, p)) = p
  BY AppendProperties DEF Queue!Last
<1>4. Pending'[c] = Append(h, p) /\ Pending[c] = h
  BY <1>1, <1>2
<1>5. Len(Pending'[c]) = Len(Pending[c]) + 1 /\ Queue!Last(Pending'[c]) = p
  BY <1>3, <1>4
<1>6. Pending' = [Pending EXCEPT ![c] = Append(@, p)]
  <2>1. \A d \in Channels : Held(d)' = IF d = c THEN Append(Pending[c], p) ELSE Pending[d]
    BY <1>1, <1>4
  <2> QED BY <1>1, <2>1
<1>7. Queue!Arrive
  BY <1>1, <1>5, <1>6 DEF Queue!Arrive
<1> QED BY <1>7 DEF Queue!Next

LEMMA HoldsOneLess ==
  ASSUME FlowInv, NEW c \in Channels, NEW p \in AnyPacket, NEW h \in Seq(AnyPacket),
         Held(c) = <<p>> \o h, Held(c)' = h,
         \A d \in Channels \ {c} : Held(d)' = Held(d), taken' = p
  PROVE  Queue!Next
<1>1. /\ DOMAIN Pending = Channels /\ Pending = [d \in Channels |-> Pending[d]]
      /\ \A d \in Channels : Pending'[d] = Held(d)' /\ Pending[d] = Held(d)
      /\ Pending' = [d \in Channels |-> Held(d)']
  BY PendingIsHeld
<1>2. Pending[c] = <<p>> \o h
  BY <1>1
<1>3. Pending[c] # <<>> /\ Head(Pending[c]) = p /\ Tail(Pending[c]) = h
  BY <1>2, HeadBefore
<1>4. Pending' = [Pending EXCEPT ![c] = Tail(@)]
  <2>1. \A d \in Channels : Held(d)' = IF d = c THEN Tail(Pending[c]) ELSE Pending[d]
    BY <1>1, <1>3
  <2> QED BY <1>1, <2>1
<1>5. Queue!Take
  BY <1>1, <1>3, <1>4 DEF Queue!Take
<1> QED BY <1>5 DEF Queue!Next

-----------------------------------------------------------------------------
(* The kinds of steps.                                                     *)

SamePackets == \A s \in Connection : stream'[s].packets = stream[s].packets

Stays == UNCHANGED <<rawpacketlist, inbox, taken>> /\ SamePackets

ComesIn ==
  /\ \E c \in {"rtp", "rtcp"}, p \in Packet :
       p.via = c /\ inbox' = [inbox EXCEPT ![c] = Append(@, p)]
  /\ UNCHANGED <<rawpacketlist, taken>> /\ SamePackets

IsSent ==
  /\ \E s \in Connection, data \in Octets :
       /\ stream'[s].packets = Append(stream[s].packets, data)
       /\ \A t \in Connection \ {s} : stream'[t].packets = stream[t].packets
  /\ UNCHANGED <<rawpacketlist, inbox, taken>>

IsInjected ==
  /\ \E p \in [n : Nat, via : {"injector"}] : rawpacketlist' = Append(rawpacketlist, p)
  /\ UNCHANGED <<inbox, taken>> /\ SamePackets

IsTaken ==
  /\ rawpacketlist # <<>>
  /\ taken' = Head(rawpacketlist) /\ rawpacketlist' = Tail(rawpacketlist)
  /\ UNCHANGED inbox /\ SamePackets

\* Packets get from the sockets into the list, or are refused.
IsPolled ==
  /\ \E k1, k2 \in Seq(AnyPacket) :
       /\ rawpacketlist' = (rawpacketlist \o k1) \o k2
       /\ Queue!IsPartOf(k1 \o inbox'["rtp"], inbox["rtp"])
       /\ Queue!IsPartOf(k2 \o inbox'["rtcp"], inbox["rtcp"])
       /\ Queue!IsPartOf(k1, inbox["rtp"]) /\ Queue!IsPartOf(k2, inbox["rtcp"])
  /\ \A c \in {"rtp", "rtcp"} : inbox'[c] \in {inbox[c], <<>>}
  /\ inbox' = [c \in {"rtp", "rtcp"} |-> inbox'[c]]
  /\ UNCHANGED taken /\ SamePackets

\* A frame is complete.
IsRead ==
  /\ \E s \in Connection :
       /\ stream[s].packets # <<>>
       /\ stream'[s].packets = Tail(stream[s].packets)
       /\ rawpacketlist' =
            Append(rawpacketlist, [via |-> s, data |-> Head(stream[s].packets)])
       /\ \A t \in Connection \ {s} : stream'[t].packets = stream[t].packets
  /\ UNCHANGED <<inbox, taken>>

IsLost ==
  /\ rawpacketlist' = <<>>
  /\ \A c \in {"rtp", "rtcp"} : inbox'[c] \in {inbox[c], <<>>}
  /\ inbox' = [c \in {"rtp", "rtcp"} |-> inbox'[c]]
  /\ UNCHANGED taken /\ SamePackets

FlowStep ==
  Stays \/ ComesIn \/ IsSent \/ IsInjected \/ IsTaken \/ IsPolled \/ IsRead \/ IsLost

\* The two forms of what a channel has waiting, in the next state.
LEMMA WaitingNext ==
  /\ \A c \in {"rtp", "rtcp"} : Waiting(c) = inbox[c] /\ Waiting(c)' = inbox'[c]
  /\ \A c \in Connection : /\ Waiting(c) = Carried(c, stream[c].packets)
                           /\ Waiting(c)' = Carried(c, stream'[c].packets)
  /\ Waiting("injector") = <<>> /\ Waiting("injector")' = <<>>
BY ChannelsDiffer DEF Waiting

LEMMA WaitingSame ==
  ASSUME UNCHANGED inbox, SamePackets
  PROVE  \A c \in Channels : Waiting(c)' = Waiting(c)
BY WaitingNext DEF SamePackets, Channels

LEMMA SameFlow ==
  ASSUME FlowInv, SamePackets
  PROVE  \A s \in Connection : stream'[s].packets \in Seq(Octets)
BY DEF FlowInv, SamePackets

LEMMA FlowStays ==
  ASSUME FlowInv, Stays
  PROVE  FlowInv' /\ [Queue!Next]_Queue!vars
<1>1. FlowInv'
  BY SameFlow DEF FlowInv, Stays
<1>2. \A c \in Channels : Held(c)' = Held(c)
  BY WaitingSame DEF Stays, Held
<1> QED BY <1>1, <1>2, HoldsTheSame DEF Stays

LEMMA FlowComesIn ==
  ASSUME FlowInv, ComesIn
  PROVE  FlowInv' /\ [Queue!Next]_Queue!vars
<1>1. PICK c \in {"rtp", "rtcp"}, p \in Packet :
        p.via = c /\ inbox' = [inbox EXCEPT ![c] = Append(@, p)]
  BY DEF ComesIn
<1>2. p \in AnyPacket /\ c \in Channels
  BY DEF AnyPacket, Channels
<1>3. PICK q \in Seq(AnyPacket) : q = inbox[c]
  BY DEF FlowInv
<1>4. PICK r \in Seq(AnyPacket) :
        /\ r = Append(q, p) /\ Len(r) = Len(q) + 1 /\ r[Len(q) + 1] = p
        /\ \A i \in 1..Len(q) : r[i] = q[i]
  <2>1. /\ Append(q, p) \in Seq(AnyPacket) /\ Len(Append(q, p)) = Len(q) + 1
        /\ Append(q, p)[Len(q) + 1] = p
        /\ \A i \in 1..Len(q) : Append(q, p)[i] = q[i]
    BY <1>2, AppendProperties
  <2> QED BY ONLY <2>1
<1>5. inbox' = [inbox EXCEPT ![c] = r]
  BY <1>1, <1>3, <1>4
<1>6. inbox' \in [{"rtp", "rtcp"} -> Seq(AnyPacket)]
  BY <1>5 DEF FlowInv
<1>7. \A i \in 1..Len(r) : r[i].via = c
  <2>1. \A i \in 1..Len(q) : q[i].via = c
    BY <1>3 DEF FlowInv
  <2>2. Len(q) \in Nat
    OBVIOUS
  <2> QED BY <1>1, <1>4, <2>1, <2>2
<1>8. \A d \in {"rtp", "rtcp"} : inbox'[d] = IF d = c THEN r ELSE inbox[d]
  BY <1>5 DEF FlowInv
<1>9. \A d \in {"rtp", "rtcp"} : \A i \in 1..Len(inbox'[d]) : inbox'[d][i].via = d
  BY <1>7, <1>8 DEF FlowInv
<1>10. FlowInv'
  BY <1>6, <1>9, SameFlow DEF FlowInv, ComesIn
<1>11. PICK t \in Seq(AnyPacket) : t = Through(rawpacketlist, c)
  BY <1>2, HeldTyped
<1>12. Held(c) = t \o q /\ Held(c)' = t \o r
  BY <1>3, <1>8, <1>11, WaitingNext DEF Held, ComesIn
<1>13. t \o r = Append(t \o q, p)
  <2>1. More(Joined(t, q), p) = Joined(t, More(q, p))
    BY <1>2, MoreJoined
  <2> QED BY <1>4, <2>1 DEF More, Joined
<1>14. Held(c)' = Append(Held(c), p)
  BY <1>12, <1>13
<1>15. \A d \in Channels \ {c} : Held(d)' = Held(d)
  <2>1. \A d \in Channels \ {c} : Waiting(d)' = Waiting(d)
    BY <1>8, WaitingNext, ZenonT(30) DEF ComesIn, SamePackets, Channels
  <2> QED BY <2>1 DEF Held, ComesIn
<1> QED BY <1>2, <1>10, <1>14, <1>15, HoldsOneMore DEF ComesIn

LEMMA FlowIsSent ==
  ASSUME FlowInv, IsSent
  PROVE  FlowInv' /\ [Queue!Next]_Queue!vars
<1>1. PICK s \in Connection, data \in Octets :
        /\ stream'[s].packets = Append(stream[s].packets, data)
        /\ \A t \in Connection \ {s} : stream'[t].packets = stream[t].packets
  BY DEF IsSent
<1>2. PICK q \in Seq(Octets) : q = stream[s].packets
  BY DEF FlowInv
<1>3. /\ Append(q, data) \in Seq(Octets) /\ Len(Append(q, data)) = Len(q) + 1
      /\ Append(q, data)[Len(q) + 1] = data
      /\ \A i \in 1..Len(q) : Append(q, data)[i] = q[i]
  BY AppendProperties
<1>4. PICK r \in Seq(Octets) :
        /\ r = Append(q, data) /\ Len(r) = Len(q) + 1 /\ r[Len(q) + 1] = data
        /\ \A i \in 1..Len(q) : r[i] = q[i]
  BY ONLY <1>3
<1>5. stream'[s].packets = r
  BY <1>1, <1>2, <1>4
<1>6. \A t \in Connection : stream'[t].packets \in Seq(Octets)
  BY <1>1, <1>5 DEF FlowInv
<1>7. FlowInv'
  BY <1>6 DEF FlowInv, IsSent
<1> DEFINE p == [via |-> s, data |-> data]
<1>8. p \in AnyPacket /\ s \in Channels
  BY DEF AnyPacket, Channels
<1>9. PICK w \in Seq(AnyPacket) :
        /\ w = Carried(s, q) /\ Len(w) = Len(q)
        /\ \A i \in 1..Len(q) : w[i] = [via |-> s, data |-> q[i]]
  BY CarriedTyped
<1>10. PICK v \in Seq(AnyPacket) :
        /\ v = Carried(s, r) /\ Len(v) = Len(r)
        /\ \A i \in 1..Len(r) : v[i] = [via |-> s, data |-> r[i]]
  BY CarriedTyped
<1> HIDE DEF p
<1>11. v = Append(w, p)
  <2>1. /\ Append(w, p) \in Seq(AnyPacket) /\ Len(Append(w, p)) = Len(w) + 1
        /\ Append(w, p)[Len(w) + 1] = p
        /\ \A i \in 1..Len(w) : Append(w, p)[i] = w[i]
    BY <1>8, AppendProperties
  <2>2. PICK u \in Seq(AnyPacket) :
          /\ u = Append(w, p) /\ Len(u) = Len(w) + 1 /\ u[Len(w) + 1] = p
          /\ \A i \in 1..Len(w) : u[i] = w[i]
    BY ONLY <2>1
  <2>3. \A i \in 1..Len(r) : u[i] = v[i]
    <3> SUFFICES ASSUME NEW i \in 1..Len(r) PROVE u[i] = v[i]
      OBVIOUS
    <3>1. Len(q) \in Nat
      OBVIOUS
    <3>2. CASE i \in 1..Len(q)
      BY <1>4, <1>9, <1>10, <2>2, <3>2
    <3>3. CASE i = Len(q) + 1
      BY <1>4, <1>9, <1>10, <2>2, <3>3 DEF p
    <3> QED BY <1>4, <3>1, <3>2, <3>3
  <2>4. Len(u) = Len(v) /\ Len(r) = Len(v)
    BY <1>4, <1>9, <1>10, <2>2
  <2>5. u = v
    BY ONLY <2>3, <2>4, u \in Seq(AnyPacket), v \in Seq(AnyPacket), SMTT(30)
  <2> QED BY <2>2, <2>5
<1>12. PICK t \in Seq(AnyPacket) : t = Through(rawpacketlist, s)
  BY <1>8, HeldTyped
<1>13. Held(s) = t \o w
  BY <1>2, <1>9, <1>12, WaitingNext DEF Held
<1>14. Held(s)' = t \o v
  BY <1>5, <1>10, <1>12, WaitingNext DEF Held, IsSent
<1>15. t \o v = Append(t \o w, p)
  <2>1. More(Joined(t, w), p) = Joined(t, More(w, p))
    BY <1>8, MoreJoined
  <2> QED BY <1>11, <2>1 DEF More, Joined
<1>16. Held(s)' = Append(Held(s), p)
  BY <1>13, <1>14, <1>15
<1>17. \A d \in Channels \ {s} : Held(d)' = Held(d)
  <2>1. \A d \in Channels \ {s} : Waiting(d)' = Waiting(d)
    BY <1>1, WaitingNext DEF IsSent, Channels
  <2> QED BY <2>1 DEF Held, IsSent
<1> QED BY <1>7, <1>8, <1>16, <1>17, HoldsOneMore DEF IsSent

LEMMA FlowIsInjected ==
  ASSUME FlowInv, IsInjected
  PROVE  FlowInv' /\ [Queue!Next]_Queue!vars
<1>1. PICK p \in [n : Nat, via : {"injector"}] : rawpacketlist' = Append(rawpacketlist, p)
  BY DEF IsInjected
<1>2. p \in AnyPacket /\ p.via = "injector" /\ "injector" \in Channels
  BY DEF AnyPacket, Channels
<1>3. PICK list \in Seq(AnyPacket) : list = rawpacketlist
  BY DEF FlowInv
<1>4. rawpacketlist' = Append(list, p)
  BY <1>1, <1>3
<1>5. Append(list, p) \in Seq(AnyPacket)
  BY <1>2, AppendProperties
<1>6. FlowInv'
  BY <1>4, <1>5, SameFlow DEF FlowInv, IsInjected
<1>7. \A c \in Channels : Waiting(c)' = Waiting(c)
  BY WaitingSame DEF IsInjected
<1>8. \A c : Through(Append(list, p), c) =
               IF p.via = c THEN Append(Through(list, c), p) ELSE Through(list, c)
  BY <1>2, ThroughAppend
<1>9. \A d \in Channels \ {"injector"} : Held(d)' = Held(d)
  BY <1>2, <1>3, <1>4, <1>7, <1>8 DEF Held
<1>10. PICK t \in Seq(AnyPacket) : t = Through(list, "injector")
  BY ThroughTyped
<1>11. Held("injector") = t \o <<>> /\ Held("injector")' = Append(t, p) \o <<>>
  BY <1>2, <1>3, <1>4, <1>8, <1>10, WaitingNext DEF Held
<1>12. Append(t, p) \in Seq(AnyPacket)
  BY <1>2, AppendProperties
<1>13. t \o <<>> = t
  BY ConcatEmptySeq
<1>14. PICK u \in Seq(AnyPacket) : u = Append(t, p)
  BY <1>12
<1>15. u \o <<>> = u
  BY ConcatEmptySeq
<1>16. Held("injector")' = Append(Held("injector"), p)
  BY <1>11, <1>13, <1>14, <1>15
<1> QED BY <1>2, <1>6, <1>9, <1>16, HoldsOneMore DEF IsInjected

LEMMA FlowIsTaken ==
  ASSUME FlowInv, IsTaken
  PROVE  FlowInv' /\ [Queue!Next]_Queue!vars
<1>1. PICK list \in Seq(AnyPacket) : list = rawpacketlist /\ list # <<>>
  BY DEF FlowInv, IsTaken
<1>2. PICK p \in AnyPacket : p = Head(list)
  BY <1>1, HeadAndTail
<1>3. PICK rest \in Seq(AnyPacket) : rest = Tail(list)
  BY <1>1, HeadAndTail
<1>4. rawpacketlist' = rest /\ taken' = p
  BY <1>1, <1>2, <1>3 DEF IsTaken
<1>5. FlowInv'
  BY <1>4, SameFlow DEF FlowInv, IsTaken
<1>6. \A c : Through(list, c) =
               IF p.via = c THEN <<p>> \o Through(rest, c) ELSE Through(rest, c)
  BY <1>1, <1>2, <1>3, ThroughTail
<1>7. \A c \in Channels : Waiting(c)' = Waiting(c)
  BY WaitingSame DEF IsTaken
<1>8. PICK c \in Channels : c = p.via
  BY PacketsComeOver
<1>9. \A d \in Channels \ {c} : Held(d)' = Held(d)
  BY <1>1, <1>4, <1>6, <1>7, <1>8 DEF Held
<1>10. PICK t \in Seq(AnyPacket) : t = Through(rest, c)
  BY ThroughTyped
<1>11. PICK w \in Seq(AnyPacket) : w = Waiting(c)
  BY HeldTyped
<1>12. Held(c) = (<<p>> \o t) \o w /\ Held(c)' = t \o w
  BY <1>1, <1>4, <1>6, <1>7, <1>8, <1>10, <1>11 DEF Held
<1>13. (<<p>> \o t) \o w = <<p>> \o (t \o w)
  <2>1. <<p>> \in Seq(AnyPacket)
    OBVIOUS
  <2> QED BY <2>1, ConcatAssociative
<1>14. PICK h \in Seq(AnyPacket) : h = t \o w
  BY ConcatProperties
<1>15. Held(c) = <<p>> \o h /\ Held(c)' = h
  BY <1>12, <1>13, <1>14
<1> QED BY <1>4, <1>5, <1>9, <1>15, HoldsOneLess

\* The sockets are as they were, or empty.
LEMMA InboxKept ==
  ASSUME FlowInv, inbox' = [c \in {"rtp", "rtcp"} |-> inbox'[c]],
         \A c \in {"rtp", "rtcp"} : inbox'[c] \in {inbox[c], <<>>}
  PROVE  /\ inbox' \in [{"rtp", "rtcp"} -> Seq(AnyPacket)]
         /\ \A c \in {"rtp", "rtcp"} : \A i \in 1..Len(inbox'[c]) : inbox'[c][i].via = c
<1>1. <<>> \in Seq(AnyPacket) /\ Len(<<>>) = 0 /\ 1..0 = {}
  OBVIOUS
<1>2. \A c \in {"rtp", "rtcp"} : inbox'[c] \in Seq(AnyPacket)
  BY <1>1 DEF FlowInv
<1>3. inbox' \in [{"rtp", "rtcp"} -> Seq(AnyPacket)]
  BY <1>2
<1>4. ASSUME NEW c \in {"rtp", "rtcp"}
      PROVE  \A i \in 1..Len(inbox'[c]) : inbox'[c][i].via = c
  <2>1. CASE inbox'[c] = inbox[c]
    BY <2>1 DEF FlowInv
  <2>2. CASE inbox'[c] = <<>>
    BY <1>1, <2>2
  <2> QED BY <2>1, <2>2
<1> QED BY <1>3, <1>4

\* What is read from one socket goes behind what came over it before.
LEMMA PolledOver ==
  ASSUME FlowInv, NEW c \in {"rtp", "rtcp"}, NEW t \in Seq(AnyPacket),
         NEW k \in Seq(AnyPacket), inbox'[c] \in {inbox[c], <<>>},
         Queue!IsPartOf(k \o inbox'[c], inbox[c])
  PROVE  Queue!IsPartOf((t \o k) \o inbox'[c], t \o inbox[c])
<1>1. PICK q \in Seq(AnyPacket) : q = inbox[c]
  BY DEF FlowInv
<1>2. <<>> \in Seq(AnyPacket)
  OBVIOUS
<1>3. PICK r \in Seq(AnyPacket) : r = inbox'[c]
  BY <1>1, <1>2
<1>4. PICK kr \in Seq(AnyPacket) : kr = k \o r
  BY ConcatProperties
<1>5. Queue!IsPartOf(kr, q)
  BY <1>1, <1>3, <1>4
<1>6. Queue!IsPartOf(t \o kr, t \o q)
  BY <1>5, PartBehind
<1>7. (t \o k) \o r = t \o (k \o r)
  BY ConcatAssociative, SMTT(30)
<1> QED BY <1>1, <1>3, <1>4, <1>6, <1>7

\* The lemmas about lists, of lists of packets.
LEMMA PartsOver ==
  \A t, s \in Seq(AnyPacket) : \A c :
    (Queue!IsPartOf(t, s) /\ \A i \in 1..Len(s) : s[i].via = c)
      => \A i \in 1..Len(t) : t[i].via = c
<1> SUFFICES ASSUME NEW t \in Seq(AnyPacket), NEW s \in Seq(AnyPacket), NEW c,
                    Queue!IsPartOf(t, s), \A i \in 1..Len(s) : s[i].via = c
             PROVE  \A i \in 1..Len(t) : t[i].via = c
  OBVIOUS
<1>1. PICK at \in [1..Len(t) -> 1..Len(s)] : \A i \in 1..Len(t) : t[i] = s[at[i]]
  BY DEF Queue!IsPartOf
<1> QED BY <1>1

ThroughBoth(a, b, c) == Through(a \o b, c) = Through(a, c) \o Through(b, c)

LEMMA OverBoth ==
  \A a, b \in Seq(AnyPacket) : \A c : ThroughBoth(a, b, c)
<1> SUFFICES ASSUME NEW a \in Seq(AnyPacket), NEW b \in Seq(AnyPacket), NEW c
             PROVE  ThroughBoth(a, b, c)
  OBVIOUS
<1> QED BY ThroughJoined DEF ThroughBoth

LEMMA FlowIsPolled ==
  ASSUME FlowInv, IsPolled
  PROVE  FlowInv' /\ [Queue!Next]_Queue!vars
<1>1. PICK k1 \in Seq(AnyPacket), k2 \in Seq(AnyPacket) :
        /\ rawpacketlist' = (rawpacketlist \o k1) \o k2
        /\ Queue!IsPartOf(k1 \o inbox'["rtp"], inbox["rtp"])
        /\ Queue!IsPartOf(k2 \o inbox'["rtcp"], inbox["rtcp"])
        /\ Queue!IsPartOf(k1, inbox["rtp"]) /\ Queue!IsPartOf(k2, inbox["rtcp"])
  BY DEF IsPolled
<1>2. PICK list \in Seq(AnyPacket) : list = rawpacketlist
  BY DEF FlowInv
<1>3. PICK one \in Seq(AnyPacket) : one = list \o k1
  BY ConcatProperties
<1>4. PICK two \in Seq(AnyPacket) : two = one \o k2
  BY ConcatProperties
<1>5. rawpacketlist' = two
  BY <1>1, <1>2, <1>3, <1>4
<1>6. FlowInv'
  BY <1>5, InboxKept, SameFlow DEF FlowInv, IsPolled
<1>7. \A i \in 1..Len(k1) : k1[i].via = "rtp"
  <2>1. PICK q \in Seq(AnyPacket) : q = inbox["rtp"]
    BY DEF FlowInv
  <2>2. Queue!IsPartOf(k1, q) /\ \A i \in 1..Len(q) : q[i].via = "rtp"
    BY <1>1, <2>1 DEF FlowInv
  <2> QED BY <2>2, PartsOver
<1>8. \A i \in 1..Len(k2) : k2[i].via = "rtcp"
  <2>1. PICK q \in Seq(AnyPacket) : q = inbox["rtcp"]
    BY DEF FlowInv
  <2>2. Queue!IsPartOf(k2, q) /\ \A i \in 1..Len(q) : q[i].via = "rtcp"
    BY <1>1, <2>1 DEF FlowInv
  <2> QED BY <2>2, PartsOver
<1>9. ASSUME NEW c
      PROVE  Through(two, c) = (Through(list, c) \o (IF c = "rtp" THEN k1 ELSE <<>>))
                               \o (IF c = "rtcp" THEN k2 ELSE <<>>)
  <2>1. Through(one, c) = Through(list, c) \o Through(k1, c)
    <3>1. ThroughBoth(list, k1, c)
      BY OverBoth
    <3> QED BY <1>3, <3>1 DEF ThroughBoth
  <2>2. Through(two, c) = Through(one, c) \o Through(k2, c)
    <3>1. ThroughBoth(one, k2, c)
      BY OverBoth
    <3> QED BY <1>4, <3>1 DEF ThroughBoth
  <2>3. Through(k1, c) = IF c = "rtp" THEN k1 ELSE <<>>
    BY <1>7, ThroughOwn
  <2>4. Through(k2, c) = IF c = "rtcp" THEN k2 ELSE <<>>
    BY <1>8, ThroughOwn
  <2> QED BY <2>1, <2>2, <2>3, <2>4
<1>10. ASSUME NEW c \in Channels
       PROVE  Queue!IsPartOf(Held(c)', Held(c))
  <2>1. PICK t \in Seq(AnyPacket) : t = Through(list, c)
    BY ThroughTyped
  <2>2. t \o <<>> = t
    BY ConcatEmptySeq
  <2>3. CASE c = "rtp"
    <3>1. PICK tk \in Seq(AnyPacket) : tk = t \o k1
      BY ConcatProperties
    <3>2. tk \o <<>> = tk
      BY ConcatEmptySeq
    <3>3. Through(two, c) = tk
      BY <1>9, <2>1, <2>3, <3>1, <3>2
    <3>4. Held(c)' = (t \o k1) \o inbox'["rtp"] /\ Held(c) = t \o inbox["rtp"]
      BY <1>2, <1>5, <2>1, <2>3, <3>1, <3>3, WaitingNext DEF Held
    <3>5. inbox'["rtp"] \in {inbox["rtp"], <<>>}
      BY DEF IsPolled
    <3>6. Queue!IsPartOf((t \o k1) \o inbox'["rtp"], t \o inbox["rtp"])
      BY <1>1, <3>5, PolledOver
    <3> QED BY <3>4, <3>6
  <2>4. CASE c = "rtcp"
    <3>1. Through(two, c) = t \o k2
      BY <1>9, <2>1, <2>2, <2>4
    <3>2. Held(c)' = (t \o k2) \o inbox'["rtcp"] /\ Held(c) = t \o inbox["rtcp"]
      BY <1>2, <1>5, <2>1, <2>4, <3>1, WaitingNext DEF Held
    <3>3. inbox'["rtcp"] \in {inbox["rtcp"], <<>>}
      BY DEF IsPolled
    <3>4. Queue!IsPartOf((t \o k2) \o inbox'["rtcp"], t \o inbox["rtcp"])
      BY <1>1, <3>3, PolledOver
    <3> QED BY <3>2, <3>4
  <2>5. CASE c \notin {"rtp", "rtcp"}
    <3>1. Through(two, c) = t
      BY <1>9, <2>1, <2>2, <2>5
    <3>2. Waiting(c)' = Waiting(c)
      BY <2>5, WaitingNext DEF IsPolled, SamePackets, Channels
    <3>3. Held(c)' = Held(c)
      BY <1>2, <1>5, <2>1, <3>1, <3>2 DEF Held
    <3> QED BY <3>3, HeldTyped, PartItself
  <2> QED BY <2>3, <2>4, <2>5
<1> QED BY <1>6, <1>10, HoldsLess DEF IsPolled

LEMMA FlowIsRead ==
  ASSUME FlowInv, IsRead
  PROVE  FlowInv' /\ [Queue!Next]_Queue!vars
<1>1. PICK s \in Connection :
        /\ stream[s].packets # <<>>
        /\ stream'[s].packets = Tail(stream[s].packets)
        /\ rawpacketlist' =
             Append(rawpacketlist, [via |-> s, data |-> Head(stream[s].packets)])
        /\ \A t \in Connection \ {s} : stream'[t].packets = stream[t].packets
  BY DEF IsRead
<1>2. PICK q \in Seq(Octets) : q = stream[s].packets /\ q # <<>>
  BY <1>1 DEF FlowInv
<1>3. PICK data \in Octets : data = Head(q)
  BY <1>2, HeadAndTail
<1>4. PICK r \in Seq(Octets) : r = Tail(q) /\ q = <<data>> \o r
  <2>1. Tail(q) \in Seq(Octets) /\ q = <<data>> \o Tail(q)
    BY <1>2, <1>3, HeadAndTail
  <2> QED BY ONLY <2>1
<1>5. PICK list \in Seq(AnyPacket) : list = rawpacketlist
  BY DEF FlowInv
<1> DEFINE p == [via |-> s, data |-> data]
<1>6. p \in AnyPacket /\ s \in Channels /\ p.via = s
  BY DEF AnyPacket, Channels
<1>7. rawpacketlist' = Append(list, p) /\ stream'[s].packets = r
  BY <1>1, <1>2, <1>3, <1>4, <1>5
<1> HIDE DEF p
<1>8. Append(list, p) \in Seq(AnyPacket)
  BY <1>6, AppendProperties
<1>9. \A t \in Connection : stream'[t].packets \in Seq(Octets)
  BY <1>1, <1>7 DEF FlowInv
<1>10. FlowInv'
  BY <1>7, <1>8, <1>9 DEF FlowInv, IsRead
<1>11. \A c : Through(Append(list, p), c) =
               IF p.via = c THEN Append(Through(list, c), p) ELSE Through(list, c)
  BY <1>6, ThroughAppend
<1>12. \A d \in Channels \ {s} : Held(d)' = Held(d)
  <2>1. \A d \in Channels \ {s} : Waiting(d)' = Waiting(d)
    BY <1>1, WaitingNext DEF IsRead, Channels
  <2> QED BY <1>5, <1>6, <1>7, <1>11, <2>1 DEF Held
<1>13. PICK w \in Seq(AnyPacket) :
        /\ w = Carried(s, q) /\ Len(w) = Len(q)
        /\ \A i \in 1..Len(q) : w[i] = [via |-> s, data |-> q[i]]
  BY CarriedTyped
<1>14. PICK v \in Seq(AnyPacket) :
        /\ v = Carried(s, r) /\ Len(v) = Len(r)
        /\ \A i \in 1..Len(r) : v[i] = [via |-> s, data |-> r[i]]
  BY CarriedTyped
<1>15. /\ Len(q) = Len(r) + 1 /\ Len(r) \in Nat /\ q[1] = data
       /\ \A i \in 1..Len(r) : q[i + 1] = r[i]
  BY <1>2, <1>3, <1>4
<1>16. /\ w # <<>> /\ Head(w) = p /\ Tail(w) = v
  <2>1. Len(w) = Len(r) + 1 /\ w[1] = p
    BY <1>13, <1>15 DEF p
  <2>2. w # <<>> /\ Head(w) = p
    BY <1>15, <2>1
  <2>3. PICK u \in Seq(AnyPacket) : u = Tail(w)
    BY <2>2, HeadTailProperties
  <2>4. Len(u) = Len(w) - 1 /\ \A i \in 1..Len(u) : u[i] = w[i + 1]
    BY <2>2, <2>3, HeadTailProperties
  <2>5. Len(u) = Len(v) /\ Len(r) = Len(v)
    BY <1>14, <1>15, <2>1, <2>4
  <2>6. \A i \in 1..Len(r) : u[i] = v[i]
    <3> SUFFICES ASSUME NEW i \in 1..Len(r) PROVE u[i] = v[i]
      OBVIOUS
    <3>1. u[i] = w[i + 1] /\ i + 1 \in 1..Len(q)
      BY <1>15, <2>4, <2>5
    <3>2. w[i + 1] = [via |-> s, data |-> q[i + 1]]
      BY <1>13, <3>1
    <3>3. v[i] = [via |-> s, data |-> r[i]] /\ q[i + 1] = r[i]
      BY <1>14, <1>15
    <3> QED BY <3>1, <3>2, <3>3
  <2>7. u = v
    BY ONLY <2>6, <2>5, u \in Seq(AnyPacket), v \in Seq(AnyPacket)
  <2> QED BY <2>2, <2>3, <2>7
<1>17. w = <<p>> \o v
  BY <1>16, HeadAndTail
<1>18. PICK t \in Seq(AnyPacket) : t = Through(list, s)
  BY ThroughTyped
<1>19. Held(s) = t \o w /\ Held(s)' = Append(t, p) \o v
  BY <1>2, <1>5, <1>6, <1>7, <1>11, <1>13, <1>14, <1>18, WaitingNext DEF Held
<1>20. Append(t, p) \o v = t \o (<<p>> \o v)
  <2>1. PICK one \in Seq(AnyPacket) : one = <<p>>
    <3>1. <<p>> \in Seq(AnyPacket)
      BY <1>6
    <3> QED BY ONLY <3>1
  <2>2. Append(t, p) = t \o one
    BY <1>6, <2>1, AppendIsConcat
  <2>3. (t \o one) \o v = t \o (one \o v)
    BY ONLY t \in Seq(AnyPacket), one \in Seq(AnyPacket), v \in Seq(AnyPacket),
            ConcatAssociative, SMTT(60)
  <2> QED BY <2>1, <2>2, <2>3
<1>21. Held(s)' = Held(s)
  BY <1>17, <1>19, <1>20
<1> QED BY <1>10, <1>12, <1>21, HoldsTheSame DEF IsRead

LEMMA FlowIsLost ==
  ASSUME FlowInv, IsLost
  PROVE  FlowInv' /\ [Queue!Next]_Queue!vars
<1>1. <<>> \in Seq(AnyPacket)
  OBVIOUS
<1>2. FlowInv'
  BY <1>1, InboxKept, SameFlow DEF FlowInv, IsLost
<1>3. ASSUME NEW c \in Channels PROVE Queue!IsPartOf(Held(c)', Held(c))
  <2>1. PICK t \in Seq(AnyPacket) : t = Through(rawpacketlist, c)
    BY HeldTyped
  <2>2. PICK w \in Seq(AnyPacket) : w = Waiting(c)
    BY HeldTyped
  <2>3. Held(c) = t \o w /\ Held(c)' = <<>> \o Waiting(c)'
    BY <2>1, <2>2, ThroughNothing DEF Held, IsLost
  <2>4. <<>> \o w = w /\ <<>> \o <<>> = <<>>
    BY <1>1, ConcatEmptySeq
  <2>5. Waiting(c)' \in {w, <<>>}
    BY <2>2, WaitingNext DEF IsLost, SamePackets, Channels
  <2>6. Held(c)' \in {w, <<>>}
    BY <2>3, <2>4, <2>5
  <2>7. Queue!IsPartOf(w, t \o w) /\ Queue!IsPartOf(<<>>, t \o w)
    BY PartRest, PartNone
  <2> QED BY <2>3, <2>6, <2>7
<1> QED BY <1>2, <1>3, HoldsLess DEF IsLost

\* Every step of these kinds is one of the queue.
LEMMA FlowGoesOn ==
  ASSUME FlowInv, FlowStep
  PROVE  FlowInv' /\ [Queue!Next]_Queue!vars
BY FlowStays, FlowComesIn, FlowIsSent, FlowIsInjected, FlowIsTaken, FlowIsPolled,
   FlowIsRead, FlowIsLost DEF FlowStep

-----------------------------------------------------------------------------
(* What is on a connection is a frame for every packet.                    *)

\* Two ways to make a list of a front and a rest.
LEMMA SameFronts ==
  ASSUME NEW P, NEW a \in Seq(P), NEW b \in Seq(P), NEW c \in Seq(P), NEW d \in Seq(P),
         Joined(a, b) = Joined(c, d), Len(a) = Len(c)
  PROVE  a = c /\ b = d
<1>1. PICK n \in Nat : n = Len(a)
  OBVIOUS
<1>2. PICK lb \in Nat, ld \in Nat : lb = Len(b) /\ ld = Len(d)
  OBVIOUS
<1>3. PICK s \in Seq(P) : s = Joined(a, b)
  BY MoreJoined
<1>4. Len(s) = n + lb /\ \A i \in 1..(n + lb) : s[i] = IF i <= n THEN a[i] ELSE b[i - n]
  BY <1>1, <1>2, <1>3, ConcatProperties DEF Joined
<1>5. Len(s) = n + ld /\ \A i \in 1..(n + ld) : s[i] = IF i <= n THEN c[i] ELSE d[i - n]
  BY <1>1, <1>2, <1>3, ConcatProperties DEF Joined
<1>6. lb = ld
  BY <1>4, <1>5
<1>7. \A i \in 1..n : a[i] = c[i]
  BY <1>4, <1>5, <1>6
<1>8. \A i \in 1..lb : b[i] = d[i]
  <2> SUFFICES ASSUME NEW i \in 1..lb PROVE b[i] = d[i]
    OBVIOUS
  <2>1. n + i \in 1..(n + lb) /\ ~ n + i <= n /\ (n + i) - n = i
    OBVIOUS
  <2> QED BY <1>4, <1>5, <1>6, <2>1
<1>9. a = c
  BY ONLY <1>1, <1>7, Len(a) = Len(c), a \in Seq(P), c \in Seq(P)
<1>10. b = d
  <2>1. Len(b) = Len(d) /\ lb = Len(d)
    BY <1>2, <1>6
  <2> QED BY ONLY <1>8, <2>1, b \in Seq(P), d \in Seq(P)
<1> QED BY <1>9, <1>10

LEMMA JoinedElements ==
  \A s, t \in Octets :
    /\ Len(s) \in Nat /\ Len(t) \in Nat
    /\ Len(Joined(s, t)) = Len(s) + Len(t)
    /\ \A i \in 1..(Len(s) + Len(t)) :
         Joined(s, t)[i] = IF i <= Len(s) THEN s[i] ELSE t[i - Len(s)]
<1> SUFFICES ASSUME NEW s \in Seq(Octet), NEW t \in Seq(Octet)
             PROVE  /\ Len(s) \in Nat /\ Len(t) \in Nat
                    /\ Len(s \o t) = Len(s) + Len(t)
                    /\ \A i \in 1..(Len(s) + Len(t)) :
                         (s \o t)[i] = IF i <= Len(s) THEN s[i] ELSE t[i - Len(s)]
  BY DEF Octets, Joined
<1> HIDE DEF Octet
<1> QED BY ConcatProperties

\* The bytes are those of the frames of the packets, and no others.
Framed(bytes, packets) ==
  \E rest \in [0..Len(packets) -> Octets] :
    /\ rest[0] = bytes /\ rest[Len(packets)] = <<>>
    /\ \A i \in 1..Len(packets) : rest[i - 1] = Joined(TCP!Frame(packets[i]), rest[i])

\* A frame is two bytes that say how long it is, and the data.
LEMMA FrameIsLengthAndData ==
  ASSUME NEW data \in Octets
  PROVE  /\ TCP!Frame(data) \in Octets
         /\ \E head \in Octets : /\ TCP!Frame(data) = Joined(head, data)
                                 /\ Len(head) = 2 /\ TCP!Value(head) = Len(data)
<1>1. PICK n \in Nat : n = Len(data)
  BY DEF Octets
<1>2. Base \in Nat /\ Base > 0
  BY InstanceAssumption DEF TCP!FramesAssumption
<1>3. PICK high \in Nat, low \in Nat : high = n \div Base /\ low = n % Base
  BY <1>2
<1>4. high * Base + low = n
  BY <1>2, <1>3
<1> DEFINE a == [v |-> high]
           b == [v |-> low]
<1>5. a \in Octet /\ b \in Octet /\ a.v = high /\ b.v = low
  BY DEF Octet
<1> HIDE DEF a, b
<1>6. <<a, b>> \in Seq(Octet) /\ Len(<<a, b>>) = 2 /\ <<a, b>>[1] = a /\ <<a, b>>[2] = b
  <2> HIDE DEF Octet
  <2> QED BY <1>5
<1>7. PICK head \in Octets : head = <<a, b>> /\ Len(head) = 2 /\ head[1] = a /\ head[2] = b
  BY <1>6 DEF Octets
<1>8. TCP!Value(head) = n
  BY <1>4, <1>5, <1>7 DEF TCP!Value
<1>9. TCP!Frame(data) = Joined(head, data)
  BY <1>1, <1>3, <1>7 DEF TCP!Frame, Joined, a, b
<1>10. Joined(head, data) \in Octets
  BY MoreJoined DEF Octets
<1> QED BY <1>1, <1>7, <1>8, <1>9, <1>10

LEMMA NothingFramed == Framed(<<>>, <<>>)
<1> DEFINE rest == [i \in 0..0 |-> <<>>]
<1>1. Len(<<>>) = 0 /\ <<>> \in Octets /\ 1..0 = {}
  BY DEF Octets
<1>2. rest \in [0..0 -> Octets] /\ rest[0] = <<>>
  BY <1>1
<1> HIDE DEF rest
<1> QED BY <1>1, <1>2 DEF Framed

\* One packet more, and its frame behind the others.
LEMMA FramedMore ==
  ASSUME NEW bytes \in Octets, NEW packets \in Seq(Octets), NEW p \in Octets,
         Framed(bytes, packets)
  PROVE  Framed(Joined(bytes, TCP!Frame(p)), Append(packets, p))
<1>1. PICK n \in Nat : n = Len(packets)
  OBVIOUS
<1>2. PICK rest \in [0..n -> Octets] :
        /\ rest[0] = bytes /\ rest[n] = <<>>
        /\ \A i \in 1..n : rest[i - 1] = Joined(TCP!Frame(packets[i]), rest[i])
  BY <1>1 DEF Framed
<1>3. PICK f \in Octets : f = TCP!Frame(p)
  BY FrameIsLengthAndData
<1>4. PICK more \in Seq(Octets) :
        /\ more = Append(packets, p) /\ Len(more) = n + 1 /\ more[n + 1] = p
        /\ \A i \in 1..n : more[i] = packets[i]
  <2>1. /\ Append(packets, p) \in Seq(Octets) /\ Len(Append(packets, p)) = n + 1
        /\ Append(packets, p)[n + 1] = p
        /\ \A i \in 1..n : Append(packets, p)[i] = packets[i]
    BY <1>1, AppendProperties
  <2> QED BY ONLY <2>1
<1>5. <<>> \in Octets /\ \A i \in 1..n : packets[i] \in Octets
  BY <1>1 DEF Octets
<1>6. /\ \A s, t \in Octets : Joined(s, t) \in Octets
      /\ \A s \in Octets : Joined(s, <<>>) = s /\ Joined(<<>>, s) = s
      /\ \A s, t, u \in Octets : Joined(Joined(s, t), u) = Joined(s, Joined(t, u))
  BY MoreJoined DEF Octets
<1> DEFINE to == [i \in 0..(n + 1) |-> IF i <= n THEN Joined(rest[i], f) ELSE <<>>]
<1>7. \A i \in 0..(n + 1) : to[i] = IF i <= n THEN Joined(rest[i], f) ELSE <<>>
  OBVIOUS
<1>8. to \in [0..(n + 1) -> Octets]
  BY <1>2, <1>5, <1>6
<1> HIDE DEF to
<1>9. to[0] = Joined(bytes, f) /\ to[n + 1] = <<>>
  <2>1. 0 \in 0..(n + 1) /\ 0 <= n /\ n + 1 \in 0..(n + 1) /\ ~ n + 1 <= n
    OBVIOUS
  <2> QED BY <1>2, <1>7, <2>1
<1>10. ASSUME NEW i \in 1..(n + 1)
       PROVE  to[i - 1] = Joined(TCP!Frame(more[i]), to[i])
  <2>1. CASE i \in 1..n
    <3>1. i \in 0..(n + 1) /\ i <= n /\ i - 1 \in 0..(n + 1) /\ i - 1 <= n /\ i \in 0..n
          /\ i - 1 \in 0..n
      BY <2>1
    <3>2. to[i] = Joined(rest[i], f) /\ to[i - 1] = Joined(rest[i - 1], f)
      BY <1>7, <3>1
    <3>3. PICK g \in Octets : g = TCP!Frame(packets[i])
      BY <1>5, <2>1, FrameIsLengthAndData
    <3>4. rest[i - 1] = Joined(g, rest[i]) /\ rest[i] \in Octets
      BY <1>2, <2>1, <3>1, <3>3
    <3>5. Joined(Joined(g, rest[i]), f) = Joined(g, Joined(rest[i], f))
      BY <1>6, <3>4
    <3> QED BY <1>4, <2>1, <3>2, <3>3, <3>4, <3>5
  <2>2. CASE i = n + 1
    <3>1. n \in 0..(n + 1) /\ n <= n /\ i - 1 = n
      BY <2>2
    <3>2. to[i - 1] = Joined(rest[n], f)
      BY <1>7, <3>1
    <3>3. Joined(<<>>, f) = f /\ Joined(f, <<>>) = f
      BY <1>6
    <3> QED BY <1>2, <1>3, <1>4, <1>9, <2>2, <3>2, <3>3
  <2>3. i \in 1..n \/ i = n + 1
    OBVIOUS
  <2> QED BY <2>1, <2>2, <2>3
<1>11. Framed(Joined(bytes, f), more)
  BY <1>4, <1>8, <1>9, <1>10 DEF Framed
<1> QED BY <1>3, <1>4, <1>11

\* The first frame is read: what was read is the first packet, and what is left
\* are the frames of the others.
LEMMA FirstIsRead ==
  ASSUME NEW head \in Octets, NEW data \in Octets, NEW bytes \in Octets,
         NEW packets \in Seq(Octets), Framed(Joined(Joined(head, data), bytes), packets),
         Len(head) = 2, Len(data) = TCP!Value(head)
  PROVE  /\ packets # <<>> /\ data = Head(packets) /\ Framed(bytes, Tail(packets))
<1>1. PICK n \in Nat : n = Len(packets)
  OBVIOUS
<1>2. PICK all \in Octets : all = Joined(Joined(head, data), bytes)
  BY MoreJoined DEF Octets
<1>3. PICK rest \in [0..n -> Octets] :
        /\ rest[0] = all /\ rest[n] = <<>>
        /\ \A i \in 1..n : rest[i - 1] = Joined(TCP!Frame(packets[i]), rest[i])
  BY <1>1, <1>2 DEF Framed
<1>4. /\ \A s, t \in Octets : Joined(s, t) \in Octets
      /\ \A s, t, u \in Octets : Joined(Joined(s, t), u) = Joined(s, Joined(t, u))
  BY MoreJoined DEF Octets
<1>5. PICK behind \in Octets : behind = Joined(data, bytes)
  BY <1>4
<1>6. all = Joined(head, behind)
  BY <1>2, <1>4, <1>5
<1>7. n > 0
  <2>1. Len(all) = Len(head) + Len(behind) /\ Len(behind) \in Nat
    BY <1>6, JoinedElements
  <2>2. all # <<>>
    BY <2>1
  <2> QED BY <1>3, <2>2
<1>8. PICK p \in Octets : p = packets[1]
  BY <1>1, <1>7
<1>9. PICK r \in Octets : r = rest[1]
  BY <1>3, <1>7
<1>10. all = Joined(TCP!Frame(p), r)
  BY <1>3, <1>7, <1>8, <1>9
<1>11. PICK h \in Octets : /\ TCP!Frame(p) = Joined(h, p)
                           /\ Len(h) = 2 /\ TCP!Value(h) = Len(p)
  BY FrameIsLengthAndData
<1>12. PICK pr \in Octets : pr = Joined(p, r)
  BY <1>4
<1>13. all = Joined(h, pr)
  BY <1>4, <1>10, <1>11, <1>12
<1>14. head = h /\ behind = pr
  BY <1>6, <1>11, <1>13, SameFronts DEF Octets
<1>15. Joined(data, bytes) = Joined(p, r) /\ Len(data) = Len(p)
  BY <1>5, <1>11, <1>12, <1>14
<1>16. data = p /\ bytes = r
  BY <1>15, SameFronts DEF Octets
<1>17. packets # <<>> /\ Head(packets) = p
  BY <1>1, <1>7, <1>8
<1>18. PICK others \in Seq(Octets) :
         /\ others = Tail(packets) /\ Len(others) = n - 1
         /\ \A i \in 1..Len(others) : others[i] = packets[i + 1]
  BY <1>1, <1>17, HeadTailProperties
<1> DEFINE to == [i \in 0..(n - 1) |-> rest[i + 1]]
<1>19. \A i \in 0..(n - 1) : to[i] = rest[i + 1]
  OBVIOUS
<1>20. to \in [0..(n - 1) -> Octets]
  OBVIOUS
<1> HIDE DEF to
<1>21. to[0] = bytes /\ to[n - 1] = <<>>
  <2>1. 0 \in 0..(n - 1) /\ n - 1 \in 0..(n - 1) /\ (n - 1) + 1 = n /\ 0 + 1 = 1
    BY <1>7
  <2> QED BY <1>3, <1>9, <1>16, <1>19, <2>1
<1>22. ASSUME NEW i \in 1..(n - 1)
       PROVE  to[i - 1] = Joined(TCP!Frame(others[i]), to[i])
  <2>1. i \in 0..(n - 1) /\ i - 1 \in 0..(n - 1) /\ i + 1 \in 1..n /\ (i - 1) + 1 = i
        /\ (i + 1) - 1 = i /\ i \in 1..Len(others)
    BY <1>18
  <2>2. to[i] = rest[i + 1] /\ to[i - 1] = rest[i]
    BY <1>19, <2>1
  <2>3. rest[i] = Joined(TCP!Frame(packets[i + 1]), rest[i + 1])
    BY <1>3, <2>1
  <2>4. others[i] = packets[i + 1]
    BY <1>18, <2>1
  <2> QED BY <2>2, <2>3, <2>4
<1>23. Framed(bytes, others)
  BY <1>18, <1>20, <1>21, <1>22 DEF Framed
<1> QED BY <1>16, <1>17, <1>18, <1>23

\* Bytes that are read go from the connection to the frame: f to its length and
\* g to its data.
Moves(head, data, bytes, f, g) ==
  LET head2 == Joined(head, SubSeq(bytes, 1, f))
      data2 == Joined(data, SubSeq(bytes, f + 1, f + g))
      bytes2 == SubSeq(bytes, f + g + 1, Len(bytes))
  IN  /\ head2 \in Octets /\ data2 \in Octets /\ bytes2 \in Octets
      /\ Joined(Joined(head2, data2), bytes2) = Joined(Joined(head, data), bytes)

LEMMA ReadsOn ==
  ASSUME NEW head \in Octets, NEW data \in Octets, NEW bytes \in Octets,
         NEW f \in Nat, NEW g \in Nat, f + g <= Len(bytes), f = 0 \/ Len(data) = 0
  PROVE  Moves(head, data, bytes, f, g)
<1>1. PICK n \in Nat : n = Len(bytes)
  BY DEF Octets
<1>2. PICK a \in Octets :
        a = SubSeq(bytes, 1, f) /\ Len(a) = f /\ \A i \in 1..f : a[i] = bytes[i]
  <2>1. /\ SubSeq(bytes, 1, f) \in Seq(Octet) /\ Len(SubSeq(bytes, 1, f)) = f
        /\ \A i \in 1..f : SubSeq(bytes, 1, f)[i] = bytes[i]
    <3> HIDE DEF Octet
    <3> QED BY <1>1 DEF Octets
  <2> QED BY ONLY <2>1 DEF Octets
<1>3. PICK b \in Octets :
        /\ b = SubSeq(bytes, f + 1, f + g) /\ Len(b) = g
        /\ \A i \in 1..g : b[i] = bytes[f + i]
  <2>1. /\ SubSeq(bytes, f + 1, f + g) \in Seq(Octet)
        /\ Len(SubSeq(bytes, f + 1, f + g)) = g
        /\ \A i \in 1..g : SubSeq(bytes, f + 1, f + g)[i] = bytes[f + i]
    <3> HIDE DEF Octet
    <3> QED BY <1>1 DEF Octets
  <2> QED BY ONLY <2>1 DEF Octets
<1>4. PICK c \in Octets :
        /\ c = SubSeq(bytes, f + g + 1, n) /\ Len(c) = n - (f + g)
        /\ \A i \in 1..(n - (f + g)) : c[i] = bytes[f + g + i]
  <2>1. /\ SubSeq(bytes, f + g + 1, n) \in Seq(Octet)
        /\ Len(SubSeq(bytes, f + g + 1, n)) = n - (f + g)
        /\ \A i \in 1..(n - (f + g)) :
             SubSeq(bytes, f + g + 1, n)[i] = bytes[f + g + i]
    <3> HIDE DEF Octet
    <3> QED BY <1>1 DEF Octets
  <2> QED BY ONLY <2>1 DEF Octets
<1>5. /\ \A s, t \in Octets : Joined(s, t) \in Octets
      /\ \A s \in Octets : Joined(s, <<>>) = s /\ Joined(<<>>, s) = s
      /\ \A s, t, u \in Octets : Joined(Joined(s, t), u) = Joined(s, Joined(t, u))
  BY MoreJoined DEF Octets
<1>6. PICK ab \in Octets : ab = Joined(a, b)
  BY <1>5
<1>7. PICK abc \in Octets : abc = Joined(ab, c)
  BY <1>5
<1>8. abc = bytes
  <2>1. Len(ab) = f + g /\ \A i \in 1..(f + g) : ab[i] = IF i <= f THEN a[i] ELSE b[i - f]
    <3>1. /\ Len(ab) = Len(a) + Len(b)
          /\ \A i \in 1..(Len(a) + Len(b)) :
               ab[i] = IF i <= Len(a) THEN a[i] ELSE b[i - Len(a)]
      BY <1>6, JoinedElements
    <3>2. Len(a) = f /\ Len(b) = g
      BY <1>2, <1>3
    <3> QED BY ONLY <3>1, <3>2
  <2>2. Len(abc) = n /\ \A i \in 1..n : abc[i] = IF i <= f + g THEN ab[i] ELSE c[i - (f + g)]
    <3>1. Len(abc) = (f + g) + (n - (f + g))
          /\ \A i \in 1..((f + g) + (n - (f + g))) :
               abc[i] = IF i <= f + g THEN ab[i] ELSE c[i - (f + g)]
      <4>1. /\ Len(abc) = Len(ab) + Len(c)
            /\ \A i \in 1..(Len(ab) + Len(c)) :
                 abc[i] = IF i <= Len(ab) THEN ab[i] ELSE c[i - Len(ab)]
        BY <1>7, JoinedElements
      <4>2. Len(ab) = f + g /\ Len(c) = n - (f + g)
        BY <1>4, <2>1
      <4> QED BY ONLY <4>1, <4>2
    <3>2. (f + g) + (n - (f + g)) = n
      OBVIOUS
    <3> QED BY <3>1, <3>2
  <2>3. \A i \in 1..n : abc[i] = bytes[i]
    <3> SUFFICES ASSUME NEW i \in 1..n PROVE abc[i] = bytes[i]
      OBVIOUS
    <3>1. CASE i <= f
      <4>1. i \in 1..f /\ i <= f + g /\ i \in 1..(f + g)
        BY <3>1
      <4> QED BY <1>2, <2>1, <2>2, <3>1, <4>1
    <3>2. CASE i > f /\ i <= f + g
      <4>1. i - f \in 1..g /\ f + (i - f) = i /\ ~ i <= f /\ i \in 1..(f + g)
        BY <3>2
      <4> QED BY <1>3, <2>1, <2>2, <3>2, <4>1
    <3>3. CASE i > f + g
      <4>1. i - (f + g) \in 1..(n - (f + g)) /\ f + g + (i - (f + g)) = i
            /\ ~ i <= f + g
        BY <3>3
      <4> QED BY <1>4, <2>2, <3>3, <4>1
    <3> QED BY <3>1, <3>2, <3>3
  <2>4. Len(abc) = Len(bytes) /\ n = Len(bytes)
    BY <1>1, <2>2
  <2>5. abc \in Seq(Octet) /\ bytes \in Seq(Octet)
    BY DEF Octets
  <2> QED BY ONLY <2>3, <2>4, <2>5
<1>9. PICK bc \in Octets : bc = Joined(b, c)
  BY <1>5
<1>10. Joined(a, bc) = bytes
  <2>1. Joined(Joined(a, b), c) = Joined(a, Joined(b, c))
    BY <1>5
  <2> QED BY <1>6, <1>7, <1>8, <1>9, <2>1
<1>11. PICK head2 \in Octets : head2 = Joined(head, a)
  BY <1>5
<1>12. PICK data2 \in Octets : data2 = Joined(data, b)
  BY <1>5
<1>13. Joined(Joined(head2, data2), c) = Joined(Joined(head, data), bytes)
  <2>1. CASE f = 0
    <3>1. a = <<>>
      BY <1>2, <2>1, EmptySeq DEF Octets
    <3>2. head2 = head /\ bc = bytes
      BY <1>5, <1>10, <1>11, <3>1
    <3>3. PICK hd \in Octets : hd = Joined(head, data)
      BY <1>5
    <3>4. Joined(head, data2) = Joined(hd, b)
      BY <1>5, <1>12, <3>3
    <3>5. Joined(Joined(hd, b), c) = Joined(hd, bc)
      BY <1>5, <1>9
    <3> QED BY <3>2, <3>3, <3>4, <3>5
  <2>2. CASE Len(data) = 0
    <3>1. data = <<>>
      BY <2>2, EmptySeq DEF Octets
    <3>2. data2 = b /\ Joined(head, data) = head
      BY <1>5, <1>12, <3>1
    <3>3. Joined(Joined(head2, b), c) = Joined(head2, bc)
      BY <1>5, <1>9
    <3>4. Joined(head2, bc) = Joined(head, bytes)
      BY <1>5, <1>10, <1>11
    <3> QED BY <3>2, <3>3, <3>4
  <2> QED BY <2>1, <2>2
<1> QED BY <1>1, <1>2, <1>3, <1>4, <1>11, <1>12, <1>13 DEF Moves

-----------------------------------------------------------------------------
(* The steps of a TCP transmitter.                                         *)

\* What was read of the frame that is not complete.
Read(s) ==
  IF s \in DOMAIN m_destSockets
  THEN Joined(m_destSockets[s].lengthBuffer, m_destSockets[s].data) ELSE <<>>

\* With what was read, the bytes of a connection are the frames of its packets,
\* unless it was deleted within a frame.
CutInv ==
  /\ midframe \cap DOMAIN m_destSockets = {}
  /\ \A s \in Connection \ midframe :
       Framed(Joined(Read(s), stream[s].bytes), stream[s].packets)

LEMMA ReadTyped ==
  ASSUME FramesInv, NEW s \in Connection
  PROVE  /\ Read(s) \in Octets /\ stream[s].bytes \in Octets
         /\ s \in DOMAIN m_destSockets =>
              /\ m_destSockets[s].lengthBuffer \in Octets
              /\ m_destSockets[s].data \in Octets
<1>1. stream[s].bytes \in Octets
  BY DEF FramesInv, StreamOK
<1>2. /\ \A a, b \in Octets : Joined(a, b) \in Octets
      /\ <<>> \in Octets
  BY MoreJoined DEF Octets
<1>3. CASE s \in DOMAIN m_destSockets
  <2>1. FrameOK(m_destSockets[s])
    BY <1>3 DEF FramesInv
  <2>2. m_destSockets[s].lengthBuffer \in Octets /\ m_destSockets[s].data \in Octets
    BY <2>1 DEF FrameOK
  <2> QED BY <1>1, <1>2, <1>3, <2>2 DEF Read
<1>4. CASE s \notin DOMAIN m_destSockets
  BY <1>1, <1>2, <1>4 DEF Read
<1> QED BY <1>3, <1>4

\* Of a frame that was not begun nothing was read.
LEMMA NothingRead ==
  ASSUME NEW d, FrameOK(d), d.lengthBuffer = <<>>
  PROVE  Joined(d.lengthBuffer, d.data) = <<>>
<1>1. d.data \in Octets /\ Len(d.data) <= d.dataLength /\ d.dataLength = 0
  BY DEF FrameOK
<1>2. Len(d.data) \in Nat
  BY <1>1 DEF Octets
<1>3. Len(d.data) = 0
  BY <1>1, <1>2
<1>4. d.data = <<>>
  BY <1>1, <1>3, EmptySeq DEF Octets
<1>5. Joined(<<>>, <<>>) = <<>>
  BY MoreJoined
<1> QED BY <1>4, <1>5

\* Connections that are forgotten, between frames or within one.
LEMMA ForgettingCuts ==
  ASSUME FramesInv, CutInv, NEW ss \in SUBSET DOMAIN m_destSockets, TCP!Forgets(ss),
         UNCHANGED stream
  PROVE  CutInv'
<1>1. /\ m_destSockets' = [s \in (DOMAIN m_destSockets) \ ss |-> m_destSockets[s]]
      /\ midframe' = midframe \cup {s \in ss : m_destSockets[s].lengthBuffer # <<>>}
  BY DEF TCP!Forgets, TCP!Destinations, TCP!InFrame
<1>2. midframe' \cap DOMAIN m_destSockets' = {}
  BY <1>1 DEF CutInv
<1>3. ASSUME NEW s \in Connection \ midframe'
      PROVE  Framed(Joined(Read(s), stream[s].bytes), stream[s].packets)'
  <2>1. s \notin midframe /\ (s \in ss => m_destSockets[s].lengthBuffer = <<>>)
    BY <1>1
  <2>2. Read(s)' = Read(s)
    <3>1. CASE s \in ss
      <4>1. FrameOK(m_destSockets[s]) /\ s \in DOMAIN m_destSockets
        BY <3>1 DEF FramesInv
      <4>2. Read(s) = <<>>
        BY <2>1, <3>1, <4>1, NothingRead DEF Read
      <4>3. Read(s)' = <<>>
        BY <1>1, <3>1 DEF Read
      <4> QED BY <4>2, <4>3
    <3>2. CASE s \notin ss
      BY <1>1, <3>2 DEF Read
    <3> QED BY <3>1, <3>2
  <2>3. Framed(Joined(Read(s), stream[s].bytes), stream[s].packets)
    BY <2>1 DEF CutInv
  <2> QED BY <2>2, <2>3
<1> QED BY <1>2, <1>3 DEF CutInv

LEMMA AddingCuts ==
  ASSUME CutInv, NEW s \in Connection, TCP!AddDestination(s)
  PROVE  CutInv'
<1>1. /\ s \notin DOMAIN m_destSockets /\ s \notin midframe
      /\ m_destSockets' = [t \in DOMAIN m_destSockets \cup {s} |->
                             IF t = s THEN TCP!NewSocketData ELSE m_destSockets[t]]
      /\ UNCHANGED <<stream, midframe>>
  BY DEF TCP!AddDestination, TCP!Destinations
<1>2. midframe' \cap DOMAIN m_destSockets' = {}
  BY <1>1 DEF CutInv
<1>3. ASSUME NEW t \in Connection PROVE Read(t)' = Read(t)
  <2>1. Joined(<<>>, <<>>) = <<>>
    BY MoreJoined
  <2>2. CASE t = s
    BY <1>1, <2>1, <2>2 DEF Read, TCP!NewSocketData
  <2>3. CASE t # s
    BY <1>1, <2>3 DEF Read
  <2> QED BY <2>2, <2>3
<1> QED BY <1>1, <1>2, <1>3 DEF CutInv

LEMMA ArrivingCuts ==
  ASSUME FramesInv, CutInv, NEW s \in Connection, TCP!BytesArrive(s)
  PROVE  CutInv' /\ SamePackets
<1>1. PICK n : stream' = [stream EXCEPT ![s].here = n]
  BY DEF TCP!BytesArrive
<1>2. UNCHANGED <<m_destSockets, midframe>>
  BY DEF TCP!BytesArrive
<1>3. \A t \in Connection : /\ stream'[t].bytes = stream[t].bytes
                            /\ stream'[t].packets = stream[t].packets
  BY <1>1 DEF FramesInv, StreamOK
<1>4. \A t \in Connection : Read(t)' = Read(t)
  BY <1>2 DEF Read
<1>5. CutInv'
  BY <1>2, <1>3, <1>4 DEF CutInv
<1> QED BY <1>3, <1>5 DEF SamePackets

\* A connection's bytes and packets are others.
LEMMA StreamEntry ==
  ASSUME FramesInv, NEW s \in Connection, NEW in, stream' = [stream EXCEPT ![s] = in]
  PROVE  /\ stream'[s] = in
         /\ \A t \in Connection \ {s} : stream'[t] = stream[t]
BY DEF FramesInv

LEMMA SendingCuts ==
  ASSUME FramesInv, FlowInv, CutInv, arrived \in 0..MaxPackets,
         NEW s \in Connection, NEW len \in 0..MaxLength, TCP!PeerSends(s, len)
  PROVE  /\ CutInv'
         /\ \E data \in Octets :
              /\ stream'[s].packets = Append(stream[s].packets, data)
              /\ \A t \in Connection \ {s} : stream'[t].packets = stream[t].packets
<1> DEFINE data == [i \in 1..len |-> [v |-> 0, packet |-> arrived + 1, at |-> i]]
           in == [stream[s] EXCEPT !.bytes = @ \o TCP!Frame(data),
                                   !.packets = Append(@, data)]
<1>1. /\ stream' = [stream EXCEPT ![s] = in]
      /\ UNCHANGED <<m_destSockets, midframe>>
  BY DEF TCP!PeerSends
<1>2. data \in Octets
  <2>1. MaxLength \in Nat /\ MaxPackets \in Nat
    BY InstanceAssumption DEF TCP!FramesAssumption
  <2>2. \A i \in 1..len : [v |-> 0, packet |-> arrived + 1, at |-> i] \in Octet
    BY <2>1 DEF Octet
  <2> QED BY <2>1, <2>2 DEF Octets
<1> HIDE DEF data
<1>3. /\ in.bytes = Joined(stream[s].bytes, TCP!Frame(data))
      /\ in.packets = Append(stream[s].packets, data)
  BY DEF FramesInv, StreamOK, Joined
<1> HIDE DEF in
<1>4. /\ stream'[s].bytes = Joined(stream[s].bytes, TCP!Frame(data))
      /\ stream'[s].packets = Append(stream[s].packets, data)
      /\ \A t \in Connection \ {s} : stream'[t] = stream[t]
  BY <1>1, <1>3, StreamEntry
<1>5. \A t \in Connection : Read(t)' = Read(t)
  BY <1>1 DEF Read
<1>6. ASSUME NEW t \in Connection \ midframe
      PROVE  Framed(Joined(Read(t), stream'[t].bytes), stream'[t].packets)
  <2>1. Framed(Joined(Read(t), stream[t].bytes), stream[t].packets)
    BY DEF CutInv
  <2>2. CASE t = s
    <3>1. PICK a \in Octets : a = Read(s)
      BY ReadTyped
    <3>2. PICK b \in Octets : b = stream[s].bytes
      BY ReadTyped
    <3>3. PICK f \in Octets : f = TCP!Frame(data)
      BY <1>2, FrameIsLengthAndData
    <3>4. PICK packets \in Seq(Octets) : packets = stream[s].packets
      BY DEF FlowInv
    <3>5. Joined(a, Joined(b, f)) = Joined(Joined(a, b), f)
      BY MoreJoined DEF Octets
    <3>6. PICK ab \in Octets : ab = Joined(a, b)
      BY MoreJoined DEF Octets
    <3>7. Framed(Joined(ab, f), Append(packets, data))
      BY <1>2, <2>1, <2>2, <3>1, <3>2, <3>3, <3>4, <3>6, FramedMore
    <3> QED BY <1>4, <2>2, <3>1, <3>2, <3>3, <3>4, <3>5, <3>6, <3>7
  <2>3. CASE t # s
    BY <1>4, <2>1, <2>3
  <2> QED BY <2>2, <2>3
<1>7. CutInv'
  BY <1>1, <1>5, <1>6 DEF CutInv
<1> QED BY <1>2, <1>4, <1>7

\* The bytes that are here are read: the frame goes on, or it is complete and
\* was the one of the first packet.
LEMMA PollingCuts ==
  ASSUME FramesInv, FlowInv, CutInv, NEW s \in Connection, TCP!PollSocket(s)
  PROVE  /\ CutInv'
         /\ \/ UNCHANGED rawpacketlist /\ SamePackets
            \/ /\ stream[s].packets # <<>>
               /\ stream'[s].packets = Tail(stream[s].packets)
               /\ rawpacketlist' =
                    Append(rawpacketlist, [via |-> s, data |-> Head(stream[s].packets)])
               /\ \A t \in Connection \ {s} : stream'[t].packets = stream[t].packets
<1> DEFINE in == stream[s]
           d == m_destSockets[s]
           did == TCP!ProcessAvailableBytes(d, in.bytes, in.here)
           e == did.socketdata
           rest == [in EXCEPT !.bytes = SubSeq(@, did.read + 1, Len(@)),
                              !.here = @ - did.read]
           on == [rest EXCEPT !.packets = Tail(@)]
<1>1. s \in DOMAIN m_destSockets /\ FrameOK(d) /\ StreamOK(in)
      /\ d.lengthBuffer \in Octets /\ d.data \in Octets
  BY ReadTyped DEF TCP!PollSocket, TCP!Destinations, FramesInv
<1>2. UNCHANGED midframe
      /\ IF did.complete
         THEN /\ rawpacketlist' = Append(rawpacketlist, [via |-> s, data |-> e.data])
              /\ m_destSockets' = [m_destSockets EXCEPT ![s] = TCP!NewSocketData]
              /\ stream' = [stream EXCEPT ![s] = on]
         ELSE /\ m_destSockets' = [m_destSockets EXCEPT ![s] = e]
              /\ stream' = [stream EXCEPT ![s] = rest]
              /\ UNCHANGED rawpacketlist
  BY DEF TCP!PollSocket
<1>3. PICK bytes \in Octets, here \in Nat :
        bytes = in.bytes /\ here = in.here /\ here \in 0..Len(bytes)
  <2>1. in.bytes \in Octets /\ in.here \in 0..Len(in.bytes)
    BY <1>1 DEF StreamOK
  <2> QED BY <2>1
<1>4. PICK f \in Nat, g \in Nat : TakesBytes(d, bytes, here, f, g)
  BY <1>1, <1>3, FrameGoesOn
<1>5. /\ f + g <= Len(bytes) /\ did.read = f + g /\ (f = 0 \/ Len(d.data) = 0)
      /\ e.lengthBuffer = Joined(d.lengthBuffer, SubSeq(bytes, 1, f))
      /\ e.data = Joined(d.data, SubSeq(bytes, f + 1, f + g))
      /\ did.complete => /\ Len(e.lengthBuffer) = 2
                         /\ Len(e.data) = TCP!Value(e.lengthBuffer)
  <2>1. /\ f + g <= here /\ did.read = f + g /\ (f = 0 \/ Len(d.data) = 0)
        /\ e.lengthBuffer = d.lengthBuffer \o SubSeq(bytes, 1, f)
        /\ e.data = d.data \o SubSeq(bytes, f + 1, f + g)
        /\ did.complete => /\ Len(e.lengthBuffer) = 2
                           /\ Len(e.data) = TCP!Value(e.lengthBuffer)
    BY <1>3, <1>4 DEF TakesBytes
  <2>2. f + g <= Len(bytes)
    <3>1. Len(bytes) \in Nat
      BY DEF Octets
    <3>2. f + g <= here /\ here <= Len(bytes)
      <4>1. here <= Len(bytes)
        BY ONLY <1>3, <3>1
      <4>2. f + g <= here
        BY ONLY <2>1
      <4> QED BY ONLY <4>1, <4>2
    <3>3. \A i, j, k \in Nat : i <= j /\ j <= k => i <= k
      OBVIOUS
    <3> QED BY <3>1, <3>2, <3>3
  <2> QED BY <2>1, <2>2 DEF Joined
<1> HIDE DEF did
<1>6. PICK n \in Nat : n = Len(bytes)
  BY DEF Octets
<1> DEFINE left == SubSeq(bytes, f + g + 1, n)
<1>7. /\ DOMAIN in = {"bytes", "here", "packets"}
      /\ rest = [in EXCEPT !.bytes = left, !.here = here - (f + g)]
  BY <1>1, <1>3, <1>5, <1>6 DEF StreamOK
<1> HIDE DEF left, rest
<1>8. /\ rest.bytes = left /\ rest.packets = in.packets
      /\ on.bytes = left /\ on.packets = Tail(in.packets)
  BY <1>7
<1> HIDE DEF on
<1>9. PICK head \in Octets, data \in Octets : head = d.lengthBuffer /\ data = d.data
  BY <1>1
<1>10. PICK head2 \in Octets, data2 \in Octets, bytes2 \in Octets :
         /\ head2 = e.lengthBuffer /\ data2 = e.data /\ bytes2 = left
         /\ Joined(Joined(head2, data2), bytes2) = Joined(Joined(head, data), bytes)
  <2>1. f + g <= Len(bytes) /\ (f = 0 \/ Len(data) = 0)
    BY <1>5, <1>9
  <2>2. Moves(head, data, bytes, f, g)
    BY <2>1, ReadsOn
  <2> DEFINE a == Joined(head, SubSeq(bytes, 1, f))
             b == Joined(data, SubSeq(bytes, f + 1, f + g))
             c == SubSeq(bytes, f + g + 1, Len(bytes))
  <2>3. a = e.lengthBuffer /\ b = e.data /\ c = left
    BY <1>5, <1>6, <1>9 DEF left
  <2>4. /\ a \in Octets /\ b \in Octets /\ c \in Octets
        /\ Joined(Joined(a, b), c) = Joined(Joined(head, data), bytes)
    BY <2>2 DEF Moves
  <2> HIDE DEF a, b, c
  <2> QED BY <2>3, <2>4
<1>11. s \notin midframe /\ \A t \in Connection \ midframe : t # s =>
         Framed(Joined(Read(t), stream[t].bytes), stream[t].packets)
  BY <1>1 DEF CutInv
<1>12. PICK packets \in Seq(Octets) : packets = in.packets
  BY DEF FlowInv
<1>13. Framed(Joined(Joined(head2, data2), bytes2), packets)
  <2>1. Framed(Joined(Read(s), in.bytes), in.packets)
    BY <1>11 DEF CutInv
  <2>2. Read(s) = Joined(head, data)
    BY <1>1, <1>9 DEF Read
  <2> QED BY <1>3, <1>10, <1>12, <2>1, <2>2
<1>14. ASSUME NEW k, m_destSockets' = [m_destSockets EXCEPT ![s] = k],
              NEW now, stream' = [stream EXCEPT ![s] = now],
              Framed(Joined(Joined(k.lengthBuffer, k.data), now.bytes), now.packets)
       PROVE  CutInv'
  <2>1. DOMAIN m_destSockets' = DOMAIN m_destSockets /\ m_destSockets'[s] = k
        /\ \A t \in DOMAIN m_destSockets : t # s => m_destSockets'[t] = m_destSockets[t]
    BY <1>1, <1>14
  <2>2. stream'[s] = now /\ \A t \in Connection \ {s} : stream'[t] = stream[t]
    BY <1>14, StreamEntry
  <2>3. Read(s)' = Joined(k.lengthBuffer, k.data)
        /\ \A t \in Connection : t # s => Read(t)' = Read(t)
    BY <1>1, <2>1 DEF Read
  <2>4. ASSUME NEW t \in Connection \ midframe
        PROVE  Framed(Joined(Read(t), stream[t].bytes), stream[t].packets)'
    <3>1. CASE t = s
      BY <1>14, <2>2, <2>3, <3>1
    <3>2. CASE t # s
      BY <1>11, <2>2, <2>3, <3>2
    <3> QED BY <3>1, <3>2
  <2>5. midframe' \cap DOMAIN m_destSockets' = {}
    BY <1>2, <2>1 DEF CutInv
  <2> QED BY <1>2, <2>4, <2>5 DEF CutInv
<1>15. CASE did.complete
  <2>1. packets # <<>> /\ data2 = Head(packets) /\ Framed(bytes2, Tail(packets))
    BY <1>5, <1>10, <1>13, <1>15, FirstIsRead
  <2>2. Joined(Joined(<<>>, <<>>), bytes2) = bytes2
    <3>1. Joined(<<>>, <<>>) = <<>> /\ Joined(<<>>, bytes2) = bytes2
      BY MoreJoined DEF Octets
    <3> QED BY <3>1
  <2>3. CutInv'
    <3> DEFINE k == TCP!NewSocketData
    <3>1. m_destSockets' = [m_destSockets EXCEPT ![s] = k]
          /\ stream' = [stream EXCEPT ![s] = on]
      BY <1>2, <1>15
    <3>2. k.lengthBuffer = <<>> /\ k.data = <<>>
      BY DEF TCP!NewSocketData
    <3> HIDE DEF k
    <3>3. Framed(Joined(Joined(k.lengthBuffer, k.data), on.bytes), on.packets)
      BY <1>8, <1>10, <1>12, <2>1, <2>2, <3>2
    <3> QED BY <1>14, <3>1, <3>3
  <2>4. stream'[s] = on /\ \A t \in Connection \ {s} : stream'[t] = stream[t]
    BY <1>2, <1>15, StreamEntry
  <2> QED BY <1>2, <1>8, <1>10, <1>12, <1>15, <2>1, <2>3, <2>4
<1>16. CASE ~ did.complete
  <2>1. CutInv'
    BY <1>2, <1>8, <1>10, <1>12, <1>13, <1>14, <1>16
  <2>2. stream'[s] = rest /\ \A t \in Connection \ {s} : stream'[t] = stream[t]
    BY <1>2, <1>16, StreamEntry
  <2> QED BY <1>2, <1>8, <1>16, <2>1, <2>2 DEF SamePackets
<1> QED BY <1>15, <1>16

\* What the steps of a TCP transmitter do to the packets.
LEMMA TCPFlowSteps ==
  ASSUME FramesInv, FlowInv, CutInv, arrived \in 0..MaxPackets, TCPNext, UNCHANGED inbox
  PROVE  CutInv' /\ FlowStep
<1>1. CASE TCP!DestroyEnds \/ TCP!GetNextPacket \/ TCPWaits
           \/ \E own \in BOOLEAN : TCP!Create(own)
  <2>1. UNCHANGED <<m_destSockets, stream, midframe>>
    BY <1>1 DEF TCP!Create, TCP!DestroyEnds, TCP!GetNextPacket, TCPWaits,
      TCP!WaitForIncomingData, TCP!SelectWakes, TCP!SelectEnds, TCP!WaitReturns,
      TCP!AbortWait, TCP!tcpvars
  <2>2. CutInv'
    BY <2>1 DEF CutInv, Read
  <2>3. UNCHANGED <<rawpacketlist, taken>> \/ TCP!TakesNext
    BY <1>1 DEF TCP!Create, TCP!IsCreated, TCP!DestroyEnds, TCP!DestroyReturns,
      TCP!GetNextPacket, TCPWaits, TCP!WaitForIncomingData, TCP!StartsWaiting,
      TCP!SelectWakes, TCP!SelectReturns, TCP!SelectEnds, TCP!SelectTimesOut,
      TCP!WaitReturns, TCP!EndsWaiting, TCP!AbortWait, TCP!AbortsWait
  <2>4. SamePackets
    BY <2>1 DEF SamePackets
  <2> QED BY <2>2, <2>3, <2>4 DEF FlowStep, Stays, IsTaken, TCP!TakesNext
<1>2. CASE TCP!Destroy \/ TCP!ClearDestinations
           \/ \E s \in Connection : TCP!DeleteDestination(s)
  <2>1. \E ss \in SUBSET DOMAIN m_destSockets : TCP!Forgets(ss)
    BY <1>2 DEF TCP!Destroy, TCP!ClearDestinations, TCP!DeleteDestination,
                TCP!Destinations
  <2>2. UNCHANGED stream
    BY <1>2 DEF TCP!Destroy, TCP!ClearDestinations, TCP!DeleteDestination
  <2>3. CutInv'
    BY <2>1, <2>2, ForgettingCuts
  <2>4. UNCHANGED taken /\ rawpacketlist' \in {rawpacketlist, <<>>}
    BY <1>2 DEF TCP!Destroy, TCP!IsDestroyed, TCP!ClearDestinations,
                TCP!DeleteDestination, TCP!basevars
  <2>5. SamePackets
    BY <2>2 DEF SamePackets
  <2>6. inbox' = [c \in {"rtp", "rtcp"} |-> inbox'[c]]
        /\ \A c \in {"rtp", "rtcp"} : inbox'[c] = inbox[c]
    BY DEF FlowInv
  <2> QED BY <2>3, <2>4, <2>5, <2>6 DEF FlowStep, Stays, IsLost
<1>3. ASSUME NEW s \in Connection, TCP!AddDestination(s) PROVE CutInv' /\ FlowStep
  <2>1. CutInv'
    BY <1>3, AddingCuts
  <2>2. Stays
    BY <1>3 DEF TCP!AddDestination, Stays, SamePackets
  <2> QED BY <2>1, <2>2 DEF FlowStep
<1>4. ASSUME NEW s \in Connection, TCP!BytesArrive(s) PROVE CutInv' /\ FlowStep
  <2>1. UNCHANGED <<rawpacketlist, taken>>
    BY <1>4 DEF TCP!BytesArrive, TCP!basevars
  <2> QED BY <1>4, <2>1, ArrivingCuts DEF FlowStep, Stays
<1>5. ASSUME NEW s \in Connection, NEW len \in 0..MaxLength, TCP!PeerSends(s, len)
      PROVE  CutInv' /\ FlowStep
  <2>1. UNCHANGED <<rawpacketlist, taken>>
    BY <1>5 DEF TCP!PeerSends, TCP!basevars
  <2>2. CutInv' /\ IsSent
    BY <1>5, <2>1, SendingCuts DEF IsSent
  <2> QED BY <2>2 DEF FlowStep
<1>6. ASSUME NEW s \in Connection, TCP!PollSocket(s) PROVE CutInv' /\ FlowStep
  <2>1. UNCHANGED taken
    BY <1>6 DEF TCP!PollSocket
  <2>2. CutInv' /\ (Stays \/ IsRead)
    BY <1>6, <2>1, PollingCuts DEF Stays, IsRead
  <2> QED BY <2>2 DEF FlowStep
<1>7. \A len \in IF part = "waits" THEN {0} ELSE 0..MaxLength : len \in 0..MaxLength
  BY InstanceAssumption DEF TCP!FramesAssumption
<1> QED BY <1>1, <1>2, <1>3, <1>4, <1>5, <1>6, <1>7 DEF TCPNext

-----------------------------------------------------------------------------
(* The steps of the other transmitters.                                    *)

\* Of the first packet alone.
LEMMA PartHead ==
  ASSUME NEW P, NEW s \in Seq(P), s # <<>>
  PROVE  <<Head(s)>> \in Seq(P) /\ Queue!IsPartOf(<<Head(s)>>, s)
<1>1. Len(s) \in Nat /\ Len(s) >= 1 /\ Head(s) = s[1] /\ s[1] \in P
  OBVIOUS
<1>2. PICK p \in P : p = Head(s)
  BY <1>1
<1>3. PICK one \in Seq(P) : one = <<p>> /\ Len(one) = 1 /\ one[1] = p
  <2>1. <<p>> \in Seq(P) /\ Len(<<p>>) = 1 /\ <<p>>[1] = p
    OBVIOUS
  <2> QED BY ONLY <2>1
<1> DEFINE to == [i \in 1..1 |-> 1]
<1>4. to \in [1..1 -> 1..Len(s)] /\ to[1] = 1
  BY <1>1
<1> HIDE DEF to
<1>5. Queue!IsPartOf(one, s)
  BY <1>1, <1>2, <1>3, <1>4 DEF Queue!IsPartOf
<1> QED BY <1>2, <1>3, <1>5

\* Both sockets are read until they are empty.
LEMMA BothAreRead ==
  ASSUME FlowInv, NEW accepted, inbox' = [c \in {"rtp", "rtcp"} |-> <<>>],
         rawpacketlist' =
           Polled(Polled(rawpacketlist, inbox["rtp"], accepted), inbox["rtcp"], accepted),
         UNCHANGED taken, SamePackets
  PROVE  IsPolled
<1>1. PICK list \in Seq(AnyPacket) : list = rawpacketlist
  BY DEF FlowInv
<1>2. PICK q1 \in Seq(AnyPacket), q2 \in Seq(AnyPacket) :
        q1 = inbox["rtp"] /\ q2 = inbox["rtcp"]
  BY DEF FlowInv
<1>3. \A l, q \in Seq(AnyPacket) :
        \E k \in Seq(AnyPacket) : /\ Polled(l, q, accepted) = l \o k
                                  /\ Queue!IsPartOf(k, q)
  <2> SUFFICES ASSUME NEW l \in Seq(AnyPacket), NEW q \in Seq(AnyPacket)
               PROVE  \E k \in Seq(AnyPacket) : /\ Polled(l, q, accepted) = l \o k
                                                /\ Queue!IsPartOf(k, q)
    OBVIOUS
  <2> QED BY PolledIsPart
<1>4. PICK k1 \in Seq(AnyPacket) : /\ Polled(list, q1, accepted) = list \o k1
                                   /\ Queue!IsPartOf(k1, q1)
  BY <1>3
<1>5. PICK one \in Seq(AnyPacket) : one = list \o k1
  BY ConcatProperties
<1>6. PICK k2 \in Seq(AnyPacket) : /\ Polled(one, q2, accepted) = one \o k2
                                   /\ Queue!IsPartOf(k2, q2)
  BY <1>3
<1>7. rawpacketlist' = (list \o k1) \o k2
  BY <1>1, <1>2, <1>4, <1>5, <1>6
<1>8. k1 \o <<>> = k1 /\ k2 \o <<>> = k2
  BY ConcatEmptySeq
<1>9. inbox'["rtp"] = <<>> /\ inbox'["rtcp"] = <<>>
      /\ inbox' = [c \in {"rtp", "rtcp"} |-> inbox'[c]]
  OBVIOUS
<1>10. /\ rawpacketlist' = (rawpacketlist \o k1) \o k2
       /\ Queue!IsPartOf(k1 \o inbox'["rtp"], inbox["rtp"])
       /\ Queue!IsPartOf(k2 \o inbox'["rtcp"], inbox["rtcp"])
       /\ Queue!IsPartOf(k1, inbox["rtp"]) /\ Queue!IsPartOf(k2, inbox["rtcp"])
  BY <1>1, <1>2, <1>4, <1>6, <1>7, <1>8, <1>9
<1> QED BY <1>9, <1>10 DEF IsPolled

\* What is in one place is read, or forgotten.
LEMMA OneIsRead ==
  ASSUME FlowInv, NEW k \in Seq(AnyPacket), Queue!IsPartOf(k, inbox["rtp"]),
         rawpacketlist' = rawpacketlist \o k, inbox' = [inbox EXCEPT !["rtp"] = <<>>],
         UNCHANGED taken, SamePackets
  PROVE  IsPolled
<1>1. PICK list \in Seq(AnyPacket) : list = rawpacketlist
  BY DEF FlowInv
<1>2. PICK q \in Seq(AnyPacket) : q = inbox["rtcp"]
  BY DEF FlowInv
<1>3. inbox'["rtp"] = <<>> /\ inbox'["rtcp"] = q
      /\ inbox' = [c \in {"rtp", "rtcp"} |-> inbox'[c]]
  BY <1>2 DEF FlowInv
<1>4. PICK none \in Seq(AnyPacket) : none = <<>>
  <2>1. <<>> \in Seq(AnyPacket)
    OBVIOUS
  <2> QED BY ONLY <2>1
<1>5. PICK one \in Seq(AnyPacket) : one = list \o k
  BY ConcatProperties
<1>6. one \o <<>> = one /\ k \o <<>> = k /\ <<>> \o q = q
  BY ConcatEmptySeq
<1>7. Queue!IsPartOf(q, q) /\ Queue!IsPartOf(<<>>, q)
  BY PartItself, PartNone
<1>8. /\ rawpacketlist' = (rawpacketlist \o k) \o none
      /\ Queue!IsPartOf(k \o inbox'["rtp"], inbox["rtp"])
      /\ Queue!IsPartOf(none \o inbox'["rtcp"], inbox["rtcp"])
      /\ Queue!IsPartOf(k, inbox["rtp"]) /\ Queue!IsPartOf(none, inbox["rtcp"])
  BY <1>1, <1>2, <1>3, <1>4, <1>5, <1>6, <1>7
<1>9. \A c \in {"rtp", "rtcp"} : inbox'[c] \in {inbox[c], <<>>}
  BY <1>2, <1>3
<1> QED BY <1>3, <1>8, <1>9 DEF IsPolled

\* The transmitter is destroyed.
LEMMA AllIsLost ==
  ASSUME FlowInv, rawpacketlist' = <<>>,
         inbox' \in {inbox, [c \in {"rtp", "rtcp"} |-> <<>>]}, UNCHANGED taken, SamePackets
  PROVE  IsLost
<1>1. CASE inbox' = inbox
  BY <1>1 DEF FlowInv, IsLost
<1>2. CASE inbox' = [c \in {"rtp", "rtcp"} |-> <<>>]
  BY <1>2 DEF IsLost
<1> QED BY <1>1, <1>2

\* Over IPv4.
LEMMA V4FlowSteps ==
  ASSUME FlowInv, V4Next, SamePackets, arrived \in Nat
  PROVE  FlowStep
<1>1. SUFFICES ASSUME ~ UNCHANGED <<rawpacketlist, inbox, taken>> PROVE FlowStep
  BY DEF FlowStep, Stays
<1>2. ASSUME NEW params, V4!Create(params) PROVE FALSE
  BY <1>1, <1>2 DEF V4!Create, V4!CreateBegins, V4!CreateWithSockets,
                    V4!CreateOnPort, V4!butCreate
<1>3. ~ V4!CreateGoesOn
  BY <1>1 DEF V4!CreateGoesOn, V4!GetAutoSockets, V4!GetAutoSocketsFails,
              V4!CreateGivesUp, V4!butCreate, V4!CreateEnds, V4!Finished, V4!IsCreated
<1>4. CASE V4!Destroy
  <2>1. /\ rawpacketlist' = <<>> /\ UNCHANGED taken
        /\ inbox' \in {inbox, [c \in {"rtp", "rtcp"} |-> <<>>]}
    BY <1>4 DEF V4!Destroy, V4!IsDestroyed, V4!Channel
  <2> QED BY <2>1, AllIsLost DEF FlowStep
<1>5. ~ V4!DestroyEnds /\ ~ V4Waits /\ ~ V4!ChangesFilter
  BY <1>1 DEF V4!DestroyEnds, V4!DestroyReturns, V4!udpvars, V4Waits,
              V4!WaitForIncomingData, V4!StartsWaiting, V4!SelectWakes,
              V4!SelectReturns, V4!SelectEnds, V4!SelectTimesOut, V4!WaitReturns,
              V4!EndsWaiting, V4!AbortWait, V4!AbortsWait, V4!ChangesFilter,
              V4!basevars
<1>6. ~ V4Groups /\ ~ V4Names
  BY <1>1 DEF V4Groups, V4!JoinMulticastGroup, V4!LeaveMulticastGroup,
              V4!LeaveAllMulticastGroups, V4!basevars, V4!butGroups, V4Names,
              V4!AddDestination, V4!DeleteDestination, V4!ClearDestinations,
              V4!GetLocalHostName, V4!butLists
<1>7. ASSUME NEW c \in V4!Channel, NEW a \in Source, V4!Arrives(c, a)
      PROVE  FlowStep
  <2> DEFINE p == [n |-> arrived + 1, via |-> c, from |-> a]
  <2>1. p \in Packet /\ p.via = c /\ c \in {"rtp", "rtcp"}
    BY DEF Packet, V4!Channel
  <2>2. inbox' = [inbox EXCEPT ![c] = Append(@, p)] /\ UNCHANGED <<rawpacketlist, taken>>
    BY <1>7 DEF V4!Arrives, V4!basevars
  <2> HIDE DEF p
  <2>3. ComesIn
    BY <2>1, <2>2 DEF ComesIn
  <2> QED BY <2>3 DEF FlowStep
<1>8. CASE V4!Poll
  <2>1. /\ inbox' = [c \in {"rtp", "rtcp"} |-> <<>>] /\ UNCHANGED taken
        /\ rawpacketlist' = V4!PollSocket(V4!PollSocket(rawpacketlist, "rtp"), "rtcp")
    BY <1>8 DEF V4!Poll, V4!Channel
  <2>2. \A l, q, a : V4!Polled(l, q, a) = Polled(l, q, a)
    BY DEF V4!Polled, Polled
  <2>3. PICK accepted : accepted = V4!Accepted
    OBVIOUS
  <2>4. rawpacketlist' = Polled(Polled(rawpacketlist, inbox["rtp"], accepted),
                                inbox["rtcp"], accepted)
    BY <2>1, <2>2, <2>3 DEF V4!PollSocket
  <2> QED BY <2>1, <2>4, BothAreRead DEF FlowStep
<1>9. CASE V4!GetNextPacket
  <2>1. IsTaken
    BY <1>9 DEF V4!GetNextPacket, V4!TakesNext, V4!udpvars, IsTaken
  <2> QED BY <2>1 DEF FlowStep
<1> QED BY <1>2, <1>3, <1>4, <1>5, <1>6, <1>7, <1>8, <1>9 DEF V4Next, V4Receives

\* Over IPv6.
LEMMA V6FlowSteps ==
  ASSUME FlowInv, V6Next, SamePackets, arrived \in Nat
  PROVE  FlowStep
<1>1. SUFFICES ASSUME ~ UNCHANGED <<rawpacketlist, inbox, taken>> PROVE FlowStep
  BY DEF FlowStep, Stays
<1>2. ASSUME NEW params, V6!Create(params) PROVE FALSE
  BY <1>1, <1>2 DEF V6!Create
<1>3. ~ V6!CreateEnds /\ ~ V6!CreateGivesUp
  BY <1>1 DEF V6!CreateGivesUp, V6!V4!CreateGivesUp, V6!V4!butCreate,
              V6!CreateEnds, V6!V4!Finished, V6!V4!IsCreated
<1>4. CASE V6!Destroy
  <2>1. /\ rawpacketlist' = <<>> /\ UNCHANGED taken
        /\ inbox' \in {inbox, [c \in {"rtp", "rtcp"} |-> <<>>]}
    BY <1>4 DEF V6!Destroy, V6!V4!Destroy, V6!V4!IsDestroyed, V6!V4!Channel
  <2> QED BY <2>1, AllIsLost DEF FlowStep
<1>5. ~ V6!DestroyEnds /\ ~ V6Waits
  BY <1>1 DEF V6!DestroyEnds, V6!V4!DestroyEnds, V6!V4!DestroyReturns,
              V6!V4!udpvars, V6Waits, V6!WaitForIncomingData,
              V6!V4!WaitForIncomingData, V6!V4!StartsWaiting, V6!SelectWakes,
              V6!V4!SelectWakes, V6!V4!SelectReturns, V6!SelectEnds,
              V6!V4!SelectEnds, V6!V4!SelectTimesOut, V6!WaitReturns,
              V6!V4!WaitReturns, V6!V4!EndsWaiting, V6!AbortWait, V6!V4!AbortWait,
              V6!V4!AbortsWait
<1>6. ~ V6Groups /\ ~ V6Names
  BY <1>1 DEF V6Groups, V6!JoinMulticastGroup, V6!V4!JoinMulticastGroup,
              V6!LeaveMulticastGroup, V6!V4!LeaveMulticastGroup,
              V6!LeaveAllMulticastGroups, V6!V4!LeaveAllMulticastGroups,
              V6!V4!butGroups, V6Names, V6!AddDestination, V6!V4!AddDestination,
              V6!DeleteDestination, V6!V4!DeleteDestination, V6!ClearDestinations,
              V6!V4!ClearDestinations, V6!V4!butLists, V6!GetLocalHostName,
              V6!V4!GetLocalHostName, V6!V4!basevars
<1>7. ~ V6!ChangesFilter
  BY <1>1 DEF V6!ChangesFilter, V6!SetReceiveMode, V6!AddToIgnoreList,
              V6!DeleteFromIgnoreList, V6!AddToAcceptList, V6!DeleteFromAcceptList,
              V6!ClearIgnoreList, V6!ClearAcceptList, V6!butFilter, V6!udpvars,
              V6!basevars
<1>8. ASSUME NEW c \in V4!Channel, NEW a \in Source, V6!Arrives(c, a)
      PROVE  FlowStep
  <2> DEFINE p == [n |-> arrived + 1, via |-> c, from |-> a]
  <2>1. p \in Packet /\ p.via = c /\ c \in {"rtp", "rtcp"}
    BY DEF Packet, V4!Channel
  <2>2. inbox' = [inbox EXCEPT ![c] = Append(@, p)] /\ UNCHANGED <<rawpacketlist, taken>>
    BY <1>8 DEF V6!Arrives, V6!V4!Arrives, V6!V4!basevars
  <2> HIDE DEF p
  <2>3. ComesIn
    BY <2>1, <2>2 DEF ComesIn
  <2> QED BY <2>3 DEF FlowStep
<1>9. CASE V6!Poll
  <2>1. /\ inbox' = [c \in {"rtp", "rtcp"} |-> <<>>] /\ UNCHANGED taken
        /\ rawpacketlist' = V6!PollSocket(V6!PollSocket(rawpacketlist, "rtp"), "rtcp")
    BY <1>9 DEF V6!Poll, V6!V4!Channel
  <2>2. \A l, q, a : V6!Polled(l, q, a) = Polled(l, q, a)
    BY DEF V6!Polled, Polled
  <2>3. PICK accepted : accepted = V6!Accepted
    OBVIOUS
  <2>4. rawpacketlist' = Polled(Polled(rawpacketlist, inbox["rtp"], accepted),
                                inbox["rtcp"], accepted)
    BY <2>1, <2>2, <2>3 DEF V6!PollSocket
  <2> QED BY <2>1, <2>4, BothAreRead DEF FlowStep
<1>10. CASE V6!GetNextPacket
  <2>1. IsTaken
    BY <1>10 DEF V6!GetNextPacket, V6!V4!GetNextPacket, V6!V4!TakesNext,
                 V6!V4!udpvars, IsTaken
  <2> QED BY <2>1 DEF FlowStep
<1> QED BY <1>2, <1>3, <1>4, <1>5, <1>6, <1>7, <1>8, <1>9, <1>10
        DEF V6Next, V6Receives

\* What the application gives the fake transmitter waits in one place.
LEMMA FakeFlowSteps ==
  ASSUME FlowInv, FakeNext, SamePackets, arrived \in Nat
  PROVE  FlowStep
<1>1. SUFFICES ASSUME ~ UNCHANGED <<rawpacketlist, inbox, taken>> PROVE FlowStep
  BY DEF FlowStep, Stays
<1>2. ASSUME NEW params, Fake!Create(params) PROVE FALSE
  BY <1>1, <1>2 DEF Fake!Create, Fake!IsCreated
<1>3. ~ FakeNames /\ ~ Fake!ChangesFilter
  BY <1>1 DEF FakeNames, Fake!AddDestination, Fake!V4!AddDestination,
              Fake!DeleteDestination, Fake!V4!DeleteDestination,
              Fake!ClearDestinations, Fake!V4!ClearDestinations, Fake!V4!butLists,
              Fake!GetLocalHostName, Fake!V4!GetLocalHostName, Fake!V4!basevars,
              Fake!ChangesFilter, Fake!SetReceiveMode, Fake!AddToIgnoreList,
              Fake!DeleteFromIgnoreList, Fake!AddToAcceptList,
              Fake!DeleteFromAcceptList, Fake!ClearIgnoreList,
              Fake!ClearAcceptList, Fake!butFilter, Fake!udpvars, Fake!basevars
<1>4. CASE Fake!Destroy
  <2>1. /\ rawpacketlist' = <<>> /\ UNCHANGED taken
        /\ inbox' \in {inbox, [c \in {"rtp", "rtcp"} |-> <<>>]}
    BY <1>4 DEF Fake!Destroy, Fake!IsDestroyed, Fake!V4!Channel
  <2> QED BY <2>1, AllIsLost DEF FlowStep
<1>5. ASSUME NEW a \in Source, Fake!SetCurrentData(a) PROVE FlowStep
  <2> DEFINE p == [n |-> arrived + 1, via |-> "rtp", from |-> a]
  <2>1. p \in Packet /\ p.via = "rtp"
    BY DEF Packet
  <2>2. /\ inbox["rtp"] = <<>> /\ inbox' = [inbox EXCEPT !["rtp"] = <<p>>]
        /\ UNCHANGED <<rawpacketlist, taken>>
    BY <1>5 DEF Fake!SetCurrentData, Fake!basevars
  <2> HIDE DEF p
  <2>3. Append(<<>>, p) = <<p>>
    OBVIOUS
  <2>4. inbox' = [inbox EXCEPT !["rtp"] = Append(@, p)]
    BY <2>2, <2>3
  <2>5. ComesIn
    BY <2>1, <2>2, <2>4 DEF ComesIn
  <2> QED BY <2>5 DEF FlowStep
<1>6. ASSUME NEW k \in Seq(AnyPacket), Queue!IsPartOf(k, inbox["rtp"]),
             rawpacketlist' = rawpacketlist \o k,
             inbox' = [inbox EXCEPT !["rtp"] = <<>>], UNCHANGED taken
      PROVE  FlowStep
  BY <1>6, OneIsRead DEF FlowStep
<1>7. PICK list \in Seq(AnyPacket) : list = rawpacketlist
  BY DEF FlowInv
<1>8. PICK q \in Seq(AnyPacket) : q = inbox["rtp"]
  BY DEF FlowInv
<1>9. list \o <<>> = list /\ <<>> \in Seq(AnyPacket) /\ Queue!IsPartOf(<<>>, q)
  BY ConcatEmptySeq, PartNone
<1>10. ASSUME rawpacketlist' = rawpacketlist, UNCHANGED taken,
              inbox' = [inbox EXCEPT !["rtp"] = <<>>]
       PROVE  FlowStep
  BY <1>6, <1>7, <1>8, <1>9, <1>10
<1>11. CASE Fake!ForgetCurrentData
  BY <1>10, <1>11 DEF Fake!ForgetCurrentData, Fake!basevars
<1>12. CASE Fake!Poll
  <2>1. inbox' = [inbox EXCEPT !["rtp"] = <<>>] /\ UNCHANGED taken
    BY <1>12 DEF Fake!Poll
  <2>2. CASE rawpacketlist' = rawpacketlist
    BY <1>10, <2>1, <2>2
  <2>3. CASE inbox["rtp"] # <<>> /\ rawpacketlist' = Append(rawpacketlist, Head(inbox["rtp"]))
    <3>1. <<Head(q)>> \in Seq(AnyPacket) /\ Queue!IsPartOf(<<Head(q)>>, q)
      BY <1>8, <2>3, PartHead
    <3>2. \A p \in AnyPacket : Append(list, p) = list \o <<p>>
      BY AppendIsConcat
    <3>3. Head(q) \in AnyPacket
      BY <1>8, <2>3
    <3> QED BY <1>6, <1>7, <1>8, <2>1, <2>3, <3>1, <3>2, <3>3
  <2> QED BY <1>12, <2>2, <2>3 DEF Fake!Poll, Fake!FakePoll
<1>13. CASE Fake!GetNextPacket
  <2>1. IsTaken
    BY <1>13 DEF Fake!GetNextPacket, Fake!V4!GetNextPacket, Fake!V4!TakesNext,
                 Fake!V4!udpvars, IsTaken
  <2> QED BY <2>1 DEF FlowStep
<1> QED BY <1>2, <1>3, <1>4, <1>5, <1>11, <1>12, <1>13 DEF FakeNext, FakeReceives

\* What is injected is in the list at once.
LEMMA ExternalFlowSteps ==
  ASSUME FlowInv, ExternalNext, UNCHANGED inbox, SamePackets, arrived \in Nat
  PROVE  FlowStep
<1>1. SUFFICES ASSUME ~ UNCHANGED <<rawpacketlist, inbox, taken>> PROVE FlowStep
  BY DEF FlowStep, Stays
<1>2. CASE External!Destroy
  <2>1. rawpacketlist' = <<>> /\ UNCHANGED taken
    BY <1>2 DEF External!Destroy, External!IsDestroyed
  <2> QED BY <2>1, AllIsLost DEF FlowStep
<1>3. CASE External!Inject
  <2> DEFINE p == [n |-> arrived + 1, via |-> "injector"]
  <2>1. p \in [n : Nat, via : {"injector"}]
    OBVIOUS
  <2>2. rawpacketlist' = Append(rawpacketlist, p) /\ UNCHANGED taken
    BY <1>3 DEF External!Inject
  <2> HIDE DEF p
  <2>3. IsInjected
    BY <2>1, <2>2 DEF IsInjected
  <2> QED BY <2>3 DEF FlowStep
<1>4. CASE External!GetNextPacket
  <2>1. IsTaken
    BY <1>4 DEF External!GetNextPacket, External!TakesNext, IsTaken
  <2> QED BY <2>1 DEF FlowStep
<1>5. \/ External!Destroy \/ External!Inject \/ External!GetNextPacket
  BY <1>1 DEF ExternalNext, External!Create, External!IsCreated,
    External!DestroyEnds, External!DestroyReturns, External!WaitForIncomingData,
    External!StartsWaiting, External!SelectWakes, External!SelectReturns,
    External!SelectEnds, External!SelectTimesOut, External!WaitReturns,
    External!EndsWaiting, External!AbortWait, External!AbortsWait
<1> QED BY <1>2, <1>3, <1>4, <1>5

-----------------------------------------------------------------------------
(* Every transmitter implements the packet queue.                          *)

\* The inductive invariant: what AlwaysInOrder needs, what the packets came over,
\* and how the bytes of the connections were cut.
DeliveryInv == OrderInv /\ FlowInv /\ CutInv

\* At first nothing has arrived.
LEMMA DeliveryBegins ==
  ASSUME Init
  PROVE  DeliveryInv /\ Queue!Init
<1>1. OrderInv
  BY OrderBegins
<1>2. rawpacketlist = <<>> /\ inbox = [c \in {"rtp", "rtcp"} |-> <<>>]
  BY DEF Init, V4!Init, V4!TransmitterInit, V4!Channel
<1>3. /\ m_destSockets = [s \in {} |-> TCP!NewSocketData] /\ midframe = {}
      /\ stream = [s \in Connection |-> [bytes |-> <<>>, here |-> 0, packets |-> <<>>]]
  BY DEF Init, TCP!Init
<1>4. <<>> \in Seq(AnyPacket) /\ <<>> \in Seq(Octets) /\ Len(<<>>) = 0
  OBVIOUS
<1>5. \A s \in Connection : stream[s].bytes = <<>> /\ stream[s].packets = <<>>
  BY <1>3
<1>6. FlowInv
  <2>1. \A c \in {"rtp", "rtcp"} : inbox[c] = <<>>
    BY <1>2
  <2>2. inbox \in [{"rtp", "rtcp"} -> Seq(AnyPacket)]
    BY <1>2, <1>4
  <2>3. \A c \in {"rtp", "rtcp"} : \A i \in 1..Len(inbox[c]) : inbox[c][i].via = c
    BY <1>4, <2>1
  <2>4. \A s \in Connection : stream[s].packets \in Seq(Octets)
    BY <1>4, <1>5
  <2>5. rawpacketlist \in Seq(AnyPacket)
    BY <1>2, <1>4
  <2> QED BY <2>2, <2>3, <2>4, <2>5 DEF FlowInv
<1>7. CutInv
  <2>1. DOMAIN m_destSockets = {}
    BY <1>3
  <2>2. Joined(<<>>, <<>>) = <<>>
    BY MoreJoined
  <2> QED BY <1>5, <2>1, <2>2, NothingFramed DEF CutInv, Read
<1>8. \A c \in Channels : Held(c) = <<>>
  <2> SUFFICES ASSUME NEW c \in Channels PROVE Held(c) = <<>>
    OBVIOUS
  <2>1. Through(<<>>, c) = <<>>
    BY ThroughNothing
  <2>2. Waiting(c) = <<>>
    <3>1. CASE c \in {"rtp", "rtcp"}
      BY <1>2, <3>1, WaitingNext
    <3>2. CASE c \in Connection
      <4>1. Waiting(c) = Carried(c, <<>>)
        BY <1>5, <3>2, WaitingNext
      <4>2. Carried(c, <<>>) \in Seq(AnyPacket) /\ Len(Carried(c, <<>>)) = 0
        BY <1>4, <3>2, CarriedTyped
      <4> QED BY <4>1, <4>2, EmptySeq
    <3>3. CASE c = "injector"
      BY <3>3, WaitingNext
    <3> QED BY <3>1, <3>2, <3>3 DEF Channels
  <2>3. <<>> \o <<>> = <<>>
    OBVIOUS
  <2> QED BY <1>2, <2>1, <2>2, <2>3 DEF Held
<1>9. Queue!Init
  BY <1>8, PendingIsHeld DEF Queue!Init
<1> QED BY <1>1, <1>6, <1>7, <1>9 DEF DeliveryInv

\* And a step of any transmitter is a step of the queue, or none.
LEMMA DeliveryGoesOn ==
  ASSUME DeliveryInv, [Next]_vars
  PROVE  DeliveryInv' /\ [Queue!Next]_Queue!vars
<1> USE DEF DeliveryInv
<1>1. OrderInv'
  BY OrderGoesOn
<1>2. FramesInv /\ arrived \in 0..MaxPackets /\ arrived \in Nat
  BY InstanceAssumption DEF OrderInv, DataInv, V4!PortsAssumption
<1>3. CutInv' /\ FlowStep
  <2>1. ASSUME UNCHANGED <<m_destSockets, stream, midframe>>
        PROVE  CutInv' /\ SamePackets
    BY <2>1 DEF CutInv, Read, SamePackets
  <2>2. CASE kind = "v4" /\ V4Next /\ UNCHANGED <<butUDP, kind, part>>
    BY <1>2, <2>1, <2>2, V4FlowSteps DEF butUDP
  <2>3. CASE kind = "v6" /\ V6Next /\ UNCHANGED <<butUDP, kind, part>>
    BY <1>2, <2>1, <2>3, V6FlowSteps DEF butUDP
  <2>4. CASE kind = "fake" /\ FakeNext /\ UNCHANGED <<butUDP, kind, part>>
    BY <1>2, <2>1, <2>4, FakeFlowSteps DEF butUDP
  <2>5. CASE kind = "tcp" /\ TCPNext /\ UNCHANGED <<butTCP, kind, part>>
    BY <1>2, <2>5, TCPFlowSteps DEF butTCP
  <2>6. CASE kind = "external" /\ ExternalNext /\ UNCHANGED <<butExternal, kind, part>>
    BY <1>2, <2>1, <2>6, ExternalFlowSteps DEF butExternal
  <2>7. CASE UNCHANGED vars
    BY <2>1, <2>7 DEF vars, basevars, V4!udpvars, butUDP, FlowStep, Stays
  <2> QED BY <2>2, <2>3, <2>4, <2>5, <2>6, <2>7 DEF Next
<1>4. FlowInv' /\ [Queue!Next]_Queue!vars
  BY <1>3, FlowGoesOn
<1> QED BY <1>1, <1>3, <1>4

\* For any number of connections, packets, sources and lengths of packets: no
\* transmitter hands out a packet twice, out of the order of its channel, or
\* changed, however the peers' frames are cut on their way, and whatever is
\* refused, deleted or destroyed in between.
THEOREM AlwaysDeliversInOrder == Spec => DeliversInOrder
<1>1. Init => DeliveryInv /\ Queue!Init
  BY DeliveryBegins
<1>2. DeliveryInv /\ [Next]_vars => DeliveryInv' /\ [Queue!Next]_Queue!vars
  BY DeliveryGoesOn
<1> QED BY <1>1, <1>2, PTL DEF Spec, DeliversInOrder, Queue!Spec

=============================================================================
