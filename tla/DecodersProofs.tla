--------------------------- MODULE DecodersProofs ---------------------------
(***************************************************************************)
(* Theorems about the decoders behind a NAL unit.  BitStream and           *)
(* NaluStream: for every width of a byte and of an int, every buffer and   *)
(* every sequence of calls.  Ebsp::getRbsp: for every ebsp of any bytes.   *)
(***************************************************************************)
EXTENDS MCDecoders, Iteration, SequenceTheorems

-----------------------------------------------------------------------------
(* The position.                                                           *)

\* m_pos and m_bitOffset name a bit of the buffer, or the end.
Position ==
  /\ m_buffer \in Seq(BitByte)
  /\ m_pos \in 0..Len(m_buffer)
  /\ m_bitOffset \in 1..ByteBits
  /\ IsEnd => m_bitOffset = ByteBits

\* readNBits still wants as many bits as there are, at most.
Wanted ==
  /\ count \in Nat
  /\ idx \in 0..count
  /\ zeroPosCount \in Nat
  /\ BitsAreThere

PositionInvariant == Position /\ Wanted

\* The bits of m whole bytes, counted from those of n.
LEMMA BytesInBits ==
  ASSUME NEW m \in Nat, NEW n \in Nat, m <= n
  PROVE  /\ n * ByteBits \in Nat /\ m * ByteBits \in Nat
         /\ n * ByteBits = m * ByteBits + (n - m) * ByteBits
         /\ (n - m) * ByteBits \in Nat
         /\ m < n => (n - m) * ByteBits >= ByteBits
         /\ m = n => (n - m) * ByteBits = 0
<1>1. ByteBits \in Nat \ {0}
  BY ByteBitsAssumption
<1>2. PICK d \in Nat : d = n - m
  OBVIOUS
<1>3. n = m + d
  BY <1>2
<1>4. (m + d) * ByteBits = m * ByteBits + d * ByteBits
  BY <1>1
<1>5. d * ByteBits \in Nat /\ m * ByteBits \in Nat
  BY <1>1
<1>6. d > 0 => d * ByteBits >= ByteBits
  BY <1>1
<1>7. d = 0 => d * ByteBits = 0
  BY <1>1
<1> QED
  BY <1>2, <1>3, <1>4, <1>5, <1>6, <1>7

\* What getRemainBitSize returns, for a position in the buffer or at its end.
LEMMA RemainOfPosition ==
  ASSUME Position
  PROVE  /\ RemainBitSize \in Nat
         /\ RemainBitSize = 0 <=> IsEnd
<1>1. /\ m_pos \in Nat /\ Len(m_buffer) \in Nat /\ m_pos <= Len(m_buffer)
      /\ m_bitOffset \in 1..ByteBits /\ ByteBits \in Nat \ {0}
  BY ByteBitsAssumption DEF Position
<1> DEFINE left == (Len(m_buffer) - m_pos) * ByteBits
<1>2. /\ Len(m_buffer) * ByteBits = m_pos * ByteBits + left
      /\ left \in Nat /\ m_pos * ByteBits \in Nat
      /\ m_pos < Len(m_buffer) => left >= ByteBits
      /\ m_pos = Len(m_buffer) => left = 0
  BY <1>1, BytesInBits
<1> HIDE DEF left
<1>3. RemainBitSize = left - (ByteBits - m_bitOffset)
  BY <1>1, <1>2 DEF RemainBitSize
<1>4. CASE IsEnd
  BY <1>1, <1>2, <1>3, <1>4 DEF IsEnd, Position
<1>5. CASE ~ IsEnd
  BY <1>1, <1>2, <1>3, <1>5 DEF IsEnd
<1> QED
  BY <1>4, <1>5

\* Before the end, readOneBit takes one bit.
LEMMA AdvanceTakesOne ==
  ASSUME Position, ~ IsEnd, Advance
  PROVE  /\ Position'
         /\ RemainBitSize' = RemainBitSize - 1
<1>1. /\ m_pos \in Nat /\ Len(m_buffer) \in Nat /\ m_pos < Len(m_buffer)
      /\ m_bitOffset \in 1..ByteBits /\ ByteBits \in Nat \ {0}
      /\ m_buffer' = m_buffer
  BY ByteBitsAssumption DEF Position, IsEnd, Advance
<1>2. CASE m_bitOffset = 1
  <2>1. m_pos' = m_pos + 1 /\ m_bitOffset' = ByteBits
    BY <1>2 DEF Advance
  <2>2. Position'
    BY <1>1, <2>1 DEF Position, IsEnd
  <2>3. (m_pos + 1) * ByteBits = m_pos * ByteBits + ByteBits
    BY <1>1
  <2>4. m_pos * ByteBits \in Nat /\ Len(m_buffer) * ByteBits \in Nat
    BY <1>1
  <2>5. /\ RemainBitSize = Len(m_buffer) * ByteBits - m_pos * ByteBits - (ByteBits - 1)
        /\ RemainBitSize' = Len(m_buffer) * ByteBits - (m_pos + 1) * ByteBits
                              - (ByteBits - ByteBits)
    BY <1>1, <1>2, <2>1 DEF RemainBitSize
  <2> QED
    BY <1>1, <2>2, <2>3, <2>4, <2>5
<1>3. CASE m_bitOffset # 1
  <2>1. m_pos' = m_pos /\ m_bitOffset' = m_bitOffset - 1
    BY <1>3 DEF Advance
  <2>2. Position'
    BY <1>1, <1>3, <2>1 DEF Position, IsEnd
  <2>3. m_pos * ByteBits \in Nat /\ Len(m_buffer) * ByteBits \in Nat
    BY <1>1
  <2>4. RemainBitSize' = Len(m_buffer) * ByteBits - m_pos * ByteBits
                           - (ByteBits - (m_bitOffset - 1))
    BY <1>1, <2>1 DEF RemainBitSize
  <2> QED
    BY <1>1, <2>2, <2>3, <2>4 DEF RemainBitSize
<1> QED
  BY <1>2, <1>3

\* Where the stream is left alone, so are the position and the remaining bits.
LEMMA StreamStays ==
  ASSUME Position, UNCHANGED stream
  PROVE  /\ Position'
         /\ RemainBitSize' = RemainBitSize
  BY DEF stream, Position, IsEnd, RemainBitSize

\* Every step leaves the stream alone, or takes one bit before its end.
LEMMA StepsOnStream ==
  ASSUME Position, [Next]_allVars
  PROVE  \/ UNCHANGED stream
         \/ ~ IsEnd /\ Advance
<1>1. CASE UNCHANGED allVars
  BY <1>1 DEF allVars, vars, stream
<1>2. CASE BitStreamCall
  BY <1>2 DEF BitStreamCall, ReadOneBit, ReadOneBitAtEnd, ReadNBits, TakeBit, ReturnBits
<1>3. ASSUME NEW call \in {"ue", "se"}, ReadExpGolomb(call) PROVE UNCHANGED stream
  BY <1>3 DEF ReadExpGolomb
<1>4. CASE CountZero
  BY <1>4 DEF CountZero
<1>5. CASE ZerosEnd
  BY <1>5 DEF ZerosEnd
<1>6. CASE ZerosPastEnd
  BY <1>6 DEF ZerosPastEnd
<1>7. CASE ReturnUev
  BY <1>7 DEF ReturnUev, Leave
<1>8. CASE ReturnSev
  BY <1>8 DEF ReturnSev, Leave
<1> QED
  BY <1>1, <1>2, <1>3, <1>4, <1>5, <1>6, <1>7, <1>8 DEF Next

LEMMA PositionStep ==
  ASSUME Position, [Next]_allVars
  PROVE  /\ Position'
         /\ RemainBitSize' \in {RemainBitSize, RemainBitSize - 1}
         /\ RemainBitSize' \in Nat
<1>1. RemainBitSize \in Nat /\ (~ IsEnd => RemainBitSize > 0)
  BY RemainOfPosition
<1>2. CASE UNCHANGED stream
  BY <1>1, <1>2, StreamStays
<1>3. CASE ~ IsEnd /\ Advance
  BY <1>1, <1>3, AdvanceTakesOne
<1> QED
  BY <1>2, <1>3, StepsOnStream

-----------------------------------------------------------------------------
(* The bits readNBits wants.                                               *)

\* A count that is cut leaves nothing to want.
LEMMA CutCount ==
  ASSUME NEW n \in Nat, NEW remain \in Nat, NEW c, c = IF n <= remain THEN n ELSE remain
  PROVE  c \in Nat /\ 0 \in 0..c /\ c - 0 <= remain
  OBVIOUS

\* The count is cut to what is left, whatever was asked for.
LEMMA EnterWanted ==
  ASSUME NEW remain \in Nat, remain = RemainBitSize', NEW n \in Nat,
         EnterReadNBits(n, remain), zeroPosCount' \in Nat
  PROVE  Wanted'
<1>1. count' = (IF n <= remain THEN n ELSE remain) /\ idx' = 0
  BY DEF EnterReadNBits
<1>2. count' \in Nat /\ 0 \in 0..count' /\ count' - 0 <= remain
  BY <1>1, CutCount
<1>3. BitsAreThere'
  BY <1>1, <1>2 DEF BitsAreThere
<1> QED
  BY <1>1, <1>2, <1>3 DEF Wanted

\* A call that returns wants nothing.
LEMMA ReturnWanted ==
  ASSUME NEW call, NEW value, Return(call, value), zeroPosCount' \in Nat
  PROVE  Wanted'
  BY DEF Return, Wanted, BitsAreThere

LEMMA WantedStep ==
  ASSUME PositionInvariant, [Next]_allVars
  PROVE  Wanted'
<1>1. Position /\ Wanted /\ RemainBitSize' \in Nat /\ zeroPosCount \in Nat
  BY PositionStep DEF PositionInvariant, Wanted
<1>2. CASE UNCHANGED allVars
  BY <1>1, <1>2, StreamStays DEF allVars, vars, stream, Wanted, BitsAreThere
<1>3. CASE ReadOneBit /\ UNCHANGED zeroPosCount
  BY <1>1, <1>3, ReturnWanted DEF ReadOneBit
<1>4. CASE ReadOneBitAtEnd /\ UNCHANGED zeroPosCount
  BY <1>1, <1>4, ReturnWanted DEF ReadOneBitAtEnd
<1>5. ASSUME NEW n \in Counts, ReadNBits(n), UNCHANGED zeroPosCount PROVE Wanted'
  <2>1. n \in Nat
    BY CountsAssumption, IntBitsAssumption
  <2>2. EnterReadNBits(n, RemainBitSize')
    BY <1>1, <1>5, StreamStays DEF ReadNBits
  <2> QED
    BY <1>1, <1>5, <2>1, <2>2, EnterWanted
<1>6. CASE TakeBit /\ UNCHANGED zeroPosCount
  <2>1. RemainBitSize' = RemainBitSize - 1 /\ RemainBitSize \in Nat
    BY <1>1, <1>6, AdvanceTakesOne, RemainOfPosition DEF TakeBit
  <2>2. /\ pc = "bits" /\ idx < count
        /\ idx' = idx + 1
        /\ UNCHANGED <<pc, count, zeroPosCount>>
    BY <1>6 DEF TakeBit
  <2>3. count - idx <= RemainBitSize /\ count \in Nat /\ idx \in 0..count
    BY <1>1, <2>2 DEF Wanted, BitsAreThere
  <2> QED
    BY <1>1, <2>1, <2>2, <2>3 DEF Wanted, BitsAreThere
<1>7. CASE ReturnBits /\ UNCHANGED zeroPosCount
  BY <1>1, <1>7, ReturnWanted DEF ReturnBits
<1>8. ASSUME NEW call \in {"ue", "se"}, ReadExpGolomb(call) PROVE Wanted'
  BY <1>1, <1>8 DEF ReadExpGolomb, Wanted, BitsAreThere
<1>9. CASE CountZero
  BY <1>1, <1>9 DEF CountZero, Wanted, BitsAreThere
<1>10. CASE ZerosEnd
  <2>1. EnterReadNBits(zeroPosCount, RemainBitSize') /\ UNCHANGED zeroPosCount
    BY <1>10 DEF ZerosEnd
  <2> QED
    BY <1>1, <2>1, EnterWanted
<1>11. CASE ZerosPastEnd
  <2>1. EnterReadNBits(zeroPosCount, RemainBitSize') /\ UNCHANGED zeroPosCount
    BY <1>1, <1>11, StreamStays DEF ZerosPastEnd
  <2> QED
    BY <1>1, <2>1, EnterWanted
<1>12. CASE ReturnUev
  BY <1>12, ReturnWanted DEF ReturnUev, Leave
<1>13. CASE ReturnSev
  BY <1>13, ReturnWanted DEF ReturnSev, Leave
<1> QED
  BY <1>2, <1>3, <1>4, <1>5, <1>6, <1>7, <1>8, <1>9, <1>10, <1>11, <1>12, <1>13
     DEF Next, BitStreamCall

-----------------------------------------------------------------------------
(* The theorems.                                                           *)

\* The position stays in the buffer, and what readNBits wants is there, through
\* every sequence of calls.
THEOREM PositionHolds == Spec => []PositionInvariant
<1>1. NaluInit => PositionInvariant
  <2> SUFFICES ASSUME NaluInit
               PROVE  PositionInvariant
    OBVIOUS
  <2>1. /\ m_buffer \in Seq(BitByte) /\ m_pos = 0 /\ m_bitOffset = ByteBits
        /\ count = 0 /\ idx = 0 /\ zeroPosCount = 0 /\ pc = "idle"
    BY BuffersAssumption DEF NaluInit, Init
  <2> QED
    BY <2>1, ByteBitsAssumption DEF PositionInvariant, Position, Wanted, BitsAreThere
<1>2. PositionInvariant /\ [Next]_allVars => PositionInvariant'
  BY PositionStep, WantedStep DEF PositionInvariant
<1> QED
  BY <1>1, <1>2, PTL DEF Spec

\* readOneBit never answers -1 inside the loop of readNBits.
THEOREM BitsAreAlwaysThere == Spec => []BitsAreThere
<1>1. PositionInvariant => BitsAreThere
  BY DEF PositionInvariant, Wanted
<1> QED
  BY <1>1, PositionHolds, PTL

\* The unsigned subtractions of getRemainBitSize never wrap.
THEOREM RemainIsAlwaysExact == Spec => []RemainIsExact
<1>1. PositionInvariant => RemainIsExact
  BY RemainOfPosition DEF PositionInvariant, RemainIsExact
<1> QED
  BY <1>1, PositionHolds, PTL

\* Every step reads nothing, or the next bit.
THEOREM ReadingIsForward == Spec => ReadsForward
<1>1. PositionInvariant /\ [Next]_allVars
        => [RemainBitSize' \in {RemainBitSize, RemainBitSize - 1}]_stream
  BY PositionStep DEF PositionInvariant
<1> QED
  BY <1>1, PositionHolds, PTL DEF Spec, ReadsForward

-----------------------------------------------------------------------------
(* What the loop has kept when it comes to an offset.                      *)

\* T has the numbers of S and a last one.
HasLast(S, T, m) ==
  /\ Cardinality(T) = Cardinality(S) + 1
  /\ E!Nth(T, Cardinality(S) + 1) = m
  /\ \A k \in 1..Cardinality(S) : E!Nth(T, k) = E!Nth(S, k)

\* The number of elements, as Ebsp counts them.
LEMMA SameCardinality == \A S : E!Cardinality(S) = Cardinality(S)
BY DEF E!Cardinality, E!IsFiniteSet, Cardinality, IsFiniteSet

\* One more offset, above the others, is the last of them.
LEMMA NthOfMore ==
  ASSUME NEW S \in SUBSET Nat, IsFiniteSet(S), NEW m \in Nat,
         \A i \in S : i < m,
         NEW T, T = S \cup {m}
  PROVE  HasLast(S, T, m)
<1> DEFINE c == Cardinality(S)
           nth(N, k) == {i \in N : Cardinality({j \in N : j <= i}) = k}
<1>1. /\ Cardinality(T) = c + 1 /\ nth(T, c + 1) = {m}
      /\ \A k \in 1..c : nth(T, k) = nth(S, k)
  BY RankOfMore
<1>2. \A N, k : E!Nth(N, k) = E!The(nth(N, k))
  BY SameCardinality DEF E!Nth
<1>3. E!The({m}) = m
  BY DEF E!The
<1> HIDE DEF nth, c
<1>4. E!Nth(T, c + 1) = m /\ \A k \in 1..c : E!Nth(T, k) = E!Nth(S, k)
  BY <1>1, <1>2, <1>3
<1> QED BY <1>1, <1>4 DEF HasLast, c

\* The buffer when the loop comes to offset end.
Result(e, end) ==
  E!FirstTwo(e, <<0, 0>>) \o E!KeptBytes(e, end)

\* What two sequences of known lengths are when put together.
LEMMA ConcatOfLengths ==
  ASSUME NEW V, NEW a \in Seq(V), NEW b \in Seq(V), NEW m \in Nat, Len(b) = m
  PROVE  /\ a \o b \in Seq(V) /\ Len(a \o b) = Len(a) + m
         /\ \A k \in 1..(Len(a) + m) :
              (a \o b)[k] = IF k <= Len(a) THEN a[k] ELSE b[k - Len(a)]
BY ConcatProperties

\* A function on the numbers up to n is a sequence of that length.
LEMMA FunctionIsSeq ==
  ASSUME NEW V, NEW n \in Nat, NEW f \in [1..n -> V]
  PROVE  f \in Seq(V) /\ Len(f) = n
OBVIOUS

\* g is f with one more element.
GoesOn(V, n, f, g) ==
  /\ f \in [1..n -> V] /\ g \in [1..(n + 1) -> V]
  /\ \A k \in 1..n : g[k] = f[k]

\* A sequence that goes on after another, and one element longer.
LEMMA OneMore ==
  ASSUME NEW V, NEW a \in Seq(V), NEW n \in Nat,
         NEW f, NEW g, GoesOn(V, n, f, g)
  PROVE  a \o g = Append(a \o f, g[n + 1])
<1>0. /\ f \in [1..n -> V] /\ g \in [1..(n + 1) -> V]
      /\ \A k \in 1..n : g[k] = f[k]
  BY DEF GoesOn
<1>1. f \in Seq(V) /\ g \in Seq(V) /\ Len(f) = n /\ Len(g) = n + 1
  BY <1>0
<1> DEFINE s == a \o f
           t == a \o g
           u == Append(s, g[n + 1])
<1>2. /\ s \in Seq(V) /\ Len(s) = Len(a) + n
      /\ \A k \in 1..(Len(a) + n) :
           s[k] = IF k <= Len(a) THEN a[k] ELSE f[k - Len(a)]
  BY <1>1, ConcatOfLengths
<1>3. /\ t \in Seq(V) /\ Len(t) = Len(a) + (n + 1)
      /\ \A k \in 1..(Len(a) + (n + 1)) :
           t[k] = IF k <= Len(a) THEN a[k] ELSE g[k - Len(a)]
  <2>1. n + 1 \in Nat
    OBVIOUS
  <2> QED BY ONLY <1>1, <2>1, a \in Seq(V), ConcatOfLengths
<1>4. Len(a) \in Nat /\ g[n + 1] \in V
  BY <1>0
<1>5. /\ u \in Seq(V) /\ Len(u) = Len(s) + 1 /\ u[Len(s) + 1] = g[n + 1]
      /\ \A k \in 1..Len(s) : u[k] = s[k]
  <2>1. ASSUME NEW e \in V
        PROVE  /\ Append(s, e) \in Seq(V) /\ Len(Append(s, e)) = Len(s) + 1
               /\ Append(s, e)[Len(s) + 1] = e
               /\ \A k \in 1..Len(s) : Append(s, e)[k] = s[k]
    <3> HIDE DEF s
    <3>1. s \in Seq(V)
      BY <1>2
    <3> QED BY ONLY <3>1, e \in V, AppendProperties
  <2> HIDE DEF s
  <2> QED BY <1>4, <2>1
<1>6. ASSUME NEW k \in 1..Len(u) PROVE u[k] = t[k]
  <2> HIDE DEF u, s, t
  <2>1. CASE k = Len(s) + 1
    <3>1. k = Len(a) + (n + 1) /\ k \in 1..(Len(a) + (n + 1)) /\ ~ (k <= Len(a))
          /\ k - Len(a) = n + 1
      BY <1>2, <1>4, <2>1
    <3>2. t[k] = g[k - Len(a)]
      BY ONLY <1>3, <3>1
    <3>3. u[k] = g[n + 1]
      BY ONLY <1>5, <2>1
    <3> QED BY ONLY <3>1, <3>2, <3>3
  <2>2. CASE k \in 1..Len(s)
    <3>1. k \in 1..(Len(a) + n) /\ k \in 1..(Len(a) + (n + 1)) /\ u[k] = s[k]
      BY ONLY <1>2, <1>4, <1>5, <2>2, n \in Nat
    <3>2. /\ s[k] = IF k <= Len(a) THEN a[k] ELSE f[k - Len(a)]
          /\ t[k] = IF k <= Len(a) THEN a[k] ELSE g[k - Len(a)]
      BY ONLY <1>2, <1>3, <3>1
    <3>3. ~ (k <= Len(a)) => k - Len(a) \in 1..n
      BY ONLY <1>4, <3>1, n \in Nat
    <3>4. ~ (k <= Len(a)) => f[k - Len(a)] = g[k - Len(a)]
      BY <1>0, <3>3
    <3> QED BY ONLY <3>1, <3>2, <3>4
  <2> QED BY <1>2, <1>4, <1>5, <2>1, <2>2
<1>7. u = t
  <2> HIDE DEF u, s, t
  <2>1. Len(u) = Len(t)
    BY <1>2, <1>3, <1>4, <1>5
  <2>2. \A k \in 1..Len(u) : u[k] = t[k]
    BY <1>6
  <2> QED BY ONLY <2>1, <2>2, <1>3, <1>5, SeqEqual
<1> QED BY <1>7

\* The offsets kept are finitely many and below the end, and the loop adds the
\* one it is at unless the byte there is an emulation prevention byte.
LEMMA KeptGrows ==
  ASSUME NEW e, NEW end \in Nat, end >= 3
  PROVE  /\ E!Kept(e, end) \in SUBSET Nat /\ IsFiniteSet(E!Kept(e, end))
         /\ \A i \in E!Kept(e, end) : i \in 3..end - 1
         /\ E!IsEmulationByte(e, end) => E!Kept(e, end + 1) = E!Kept(e, end)
         /\ ~ E!IsEmulationByte(e, end) => E!Kept(e, end + 1) = E!Kept(e, end) \cup {end}
<1>1. E!Kept(e, end) \subseteq 3..end - 1
  BY DEF E!Kept
<1>2. IsFiniteSet(3..end - 1)
  BY FS_Interval
<1>3. IsFiniteSet(E!Kept(e, end))
  BY <1>1, <1>2, FS_Subset
<1>4. (end + 1) - 1 = end /\ 3..end = (3..end - 1) \cup {end} /\ end \notin 3..end - 1
  OBVIOUS
<1>5. E!Kept(e, end + 1) = {i \in 3..end : ~ E!IsEmulationByte(e, i)}
  BY <1>4 DEF E!Kept
<1>6. E!IsEmulationByte(e, end) => E!Kept(e, end + 1) = E!Kept(e, end)
  BY <1>4, <1>5 DEF E!Kept
<1>7. ~ E!IsEmulationByte(e, end) => E!Kept(e, end + 1) = E!Kept(e, end) \cup {end}
  BY <1>4, <1>5 DEF E!Kept
<1> QED BY <1>1, <1>3, <1>6, <1>7

\* The n-th of finitely many numbers is one of them.
LEMMA NthIsOne ==
  ASSUME NEW e, NEW end \in Nat, end >= 3
  PROVE  \A k \in 1..Cardinality(E!Kept(e, end)) : E!Nth(E!Kept(e, end), k) \in E!Kept(e, end)
<1> DEFINE K(m) == E!Kept(e, m)
           Good(m) == \A k \in 1..Cardinality(K(m)) : E!Nth(K(m), k) \in K(m)
           S == {n \in Nat : Good(n + 3)}
<1>1. 0 \in S
  <2>1. K(3) = {}
    BY DEF E!Kept
  <2>2. Cardinality(K(3)) = 0
    BY <2>1, FS_EmptySet
  <2> HIDE DEF K
  <2> QED BY <2>2
<1>2. ASSUME NEW n \in Nat, n \in S PROVE n + 1 \in S
  <2> DEFINE m == n + 3
             c == Cardinality(K(m))
  <2>1. Good(m) /\ m \in Nat /\ m >= 3 /\ (n + 1) + 3 = m + 1
    BY <1>2
  <2> HIDE DEF m
  <2>2. /\ K(m) \in SUBSET Nat /\ IsFiniteSet(K(m))
        /\ \A i \in K(m) : i < m
    <3>1. \A i \in K(m) : i \in 3..m - 1
      BY <2>1, KeptGrows
    <3>2. K(m) \in SUBSET Nat /\ IsFiniteSet(K(m))
      BY <2>1, KeptGrows
    <3> HIDE DEF K
    <3> QED BY <3>1, <3>2, <2>1
  <2>3. K(m + 1) = K(m) \/ K(m + 1) = K(m) \cup {m}
    BY <2>1, KeptGrows
  <2>4. CASE K(m + 1) = K(m)
    <3> HIDE DEF K
    <3> QED BY <2>1, <2>4
  <2>5. CASE K(m + 1) = K(m) \cup {m}
    <3> HIDE DEF K
    <3>1. /\ Cardinality(K(m + 1)) = c + 1 /\ c \in Nat
          /\ E!Nth(K(m + 1), c + 1) = m
          /\ \A k \in 1..c : E!Nth(K(m + 1), k) = E!Nth(K(m), k)
      <4>1. HasLast(K(m), K(m + 1), m)
        BY ONLY <2>1, <2>2, <2>5, NthOfMore
      <4>2. c \in Nat
        BY <2>2, FS_CardinalityType
      <4> QED BY <4>1, <4>2 DEF HasLast
    <3>2. Good(m + 1)
      <4> SUFFICES ASSUME NEW k \in 1..(c + 1) PROVE E!Nth(K(m + 1), k) \in K(m + 1)
        BY <3>1
      <4>1. CASE k = c + 1
        BY <3>1, <2>5, <4>1
      <4>2. CASE k \in 1..c
        BY <2>1, <3>1, <2>5, <4>2
      <4> QED BY <3>1, <4>1, <4>2
    <3> QED BY <2>1, <3>2
  <2> QED BY <2>3, <2>4, <2>5
<1>3. Nat \subseteq S
  <2> HIDE DEF S
  <2> QED BY <1>1, <1>2, InductionOnSet
<1>4. end - 3 \in S /\ (end - 3) + 3 = end
  <2> HIDE DEF S
  <2> QED BY <1>3
<1> QED BY <1>4

\* One turn of the loop on an ebsp of three bytes or more.
LEMMA ResultGrows ==
  ASSUME NEW e \in Seq(Byte), Len(e) >= 3, NEW end \in 3..Len(e)
  PROVE  /\ Result(e, 3) = E!FirstTwo(e, <<0, 0>>)
         /\ Result(e, end) \in Seq(Byte)
         /\ end < Len(e) /\ E!IsEmulationByte(e, end) => Result(e, end + 1) = Result(e, end)
         /\ end < Len(e) /\ ~ E!IsEmulationByte(e, end)
              => Result(e, end + 1) = Append(Result(e, end), e[end + 1])
<1> DEFINE two == E!FirstTwo(e, <<0, 0>>)
           K(m) == E!Kept(e, m)
           c(m) == Cardinality(K(m))
           rest(m) == [k \in 1..c(m) |-> e[E!Nth(K(m), k) + 1]]
<1>1. two \in Seq(Byte) /\ Len(two) = 2
  <2>1. 1 < Len(e) /\ 2 < Len(e) /\ e[2] \in Byte /\ e[3] \in Byte
    OBVIOUS
  <2>2. two = [k \in 1..2 |-> e[k + 1]]
    BY <2>1 DEF E!FirstTwo
  <2>3. \A k \in 1..2 : e[k + 1] \in Byte
    BY <2>1
  <2>4. two \in [1..2 -> Byte]
    BY <2>2, <2>3
  <2> HIDE DEF two
  <2> QED BY ONLY <2>4, 2 \in Nat, FunctionIsSeq
<1>2. ASSUME NEW m \in 3..Len(e)
      PROVE  c(m) \in Nat /\ rest(m) \in [1..c(m) -> Byte] /\ rest(m) \in Seq(Byte)
  <2>1. /\ IsFiniteSet(K(m)) /\ \A i \in K(m) : i \in 3..m - 1
        /\ \A k \in 1..c(m) : E!Nth(K(m), k) \in K(m)
    BY KeptGrows, NthIsOne
  <2>2. c(m) \in Nat
    BY <2>1, FS_CardinalityType
  <2>3. \A i \in K(m) : i + 1 \in 1..Len(e)
    <3> HIDE DEF K
    <3> QED BY <2>1
  <2>4. \A k \in 1..c(m) : e[E!Nth(K(m), k) + 1] \in Byte
    <3> HIDE DEF K, c
    <3> QED BY <2>1, <2>3
  <2>5. rest(m) \in [1..c(m) -> Byte]
    <3> HIDE DEF K, c
    <3> QED BY <2>4
  <2>6. rest(m) \in Seq(Byte)
    <3> HIDE DEF rest, c
    <3> QED BY <2>2, <2>5
  <2> HIDE DEF rest, c
  <2> QED BY <2>2, <2>5, <2>6
<1>3. \A m : Result(e, m) = two \o rest(m)
  BY SameCardinality DEF Result, E!KeptBytes
<1>4. Result(e, 3) = two
  <2>1. K(3) = {}
    BY DEF E!Kept
  <2>2. c(3) = 0
    BY <2>1, FS_EmptySet
  <2>3. rest(3) = <<>>
    <3> HIDE DEF c, K
    <3> QED BY <2>2
  <2> HIDE DEF rest, two
  <2> QED BY <1>1, <1>3, <2>3, ConcatEmptySeq
<1>5. Result(e, end) \in Seq(Byte)
  <2>1. rest(end) \in Seq(Byte)
    BY <1>2
  <2> HIDE DEF rest, two
  <2>2. two \o rest(end) \in Seq(Byte)
    BY ONLY <1>1, <2>1, ConcatProperties
  <2> QED BY <1>3, <2>2
<1>6. ASSUME end < Len(e), E!IsEmulationByte(e, end)
      PROVE  Result(e, end + 1) = Result(e, end)
  <2>1. K(end + 1) = K(end)
    BY <1>6, KeptGrows
  <2> HIDE DEF K, two
  <2> QED BY <1>3, <2>1
<1>7. ASSUME end < Len(e), ~ E!IsEmulationByte(e, end)
      PROVE  Result(e, end + 1) = Append(Result(e, end), e[end + 1])
  <2>1. /\ K(end) \in SUBSET Nat /\ IsFiniteSet(K(end))
        /\ K(end + 1) = K(end) \cup {end}
        /\ \A i \in K(end) : i < end
    <3>1. \A i \in K(end) : i \in 3..end - 1
      BY KeptGrows
    <3>2. K(end) \in SUBSET Nat /\ IsFiniteSet(K(end)) /\ K(end + 1) = K(end) \cup {end}
      BY <1>7, KeptGrows
    <3> HIDE DEF K
    <3> QED BY <3>1, <3>2
  <2>2. /\ c(end + 1) = c(end) + 1
        /\ E!Nth(K(end + 1), c(end) + 1) = end
        /\ \A k \in 1..c(end) : E!Nth(K(end + 1), k) = E!Nth(K(end), k)
    <3> HIDE DEF K
    <3>1. HasLast(K(end), K(end + 1), end)
      BY ONLY <2>1, end \in Nat, NthOfMore
    <3> QED BY <3>1 DEF HasLast
  <2>3. end + 1 \in 3..Len(e)
    BY <1>7
  <2>4. /\ c(end) \in Nat /\ rest(end) \in [1..c(end) -> Byte]
        /\ rest(end + 1) \in [1..(c(end) + 1) -> Byte]
    <3>1. rest(end + 1) \in [1..c(end + 1) -> Byte]
      BY <1>2, <2>3
    <3>2. c(end) \in Nat /\ rest(end) \in [1..c(end) -> Byte]
      BY <1>2
    <3> HIDE DEF c, rest
    <3> QED BY <3>1, <3>2, <2>2
  <2>5. /\ rest(end + 1)[c(end) + 1] = e[end + 1]
        /\ \A k \in 1..c(end) : rest(end + 1)[k] = rest(end)[k]
    <3> HIDE DEF c, K
    <3>1. c(end) + 1 \in 1..c(end + 1) /\ \A k \in 1..c(end) : k \in 1..c(end + 1)
      BY <2>2, <2>4
    <3> QED BY <2>2, <3>1
  <2>6. two \o rest(end + 1) = Append(two \o rest(end), rest(end + 1)[c(end) + 1])
    <3> HIDE DEF two, rest, c
    <3>1. GoesOn(Byte, c(end), rest(end), rest(end + 1))
      BY <2>4, <2>5 DEF GoesOn
    <3> QED BY ONLY <1>1, <2>4, <3>1, OneMore, SMTT(30)
  <2> HIDE DEF two, rest
  <2> QED BY <1>3, <2>5, <2>6
<1> QED BY <1>4, <1>5, <1>6, <1>7

-----------------------------------------------------------------------------
(* The encoder.                                                            *)

\* What the encoder writes is bytes.
LEMMA EmitType ==
  ASSUME 3 \in Byte, NEW out \in Seq(Byte), NEW b \in Byte
  PROVE  E!Emit(out, b) \in Seq(Byte)
<1>1. <<3, b>> \in Seq(Byte)
  OBVIOUS
<1>2. out \o <<3, b>> \in Seq(Byte)
  BY <1>1, ConcatProperties
<1>3. Append(out, b) \in Seq(Byte)
  BY AppendProperties
<1> QED BY <1>2, <1>3 DEF E!Emit

\* h[n] is what the encoder has written after n bytes of s.
Writes(h, s) ==
  /\ h[0] = <<>>
  /\ \A n \in 1..Len(s) : h[n] = E!Emit(h[n - 1], s[n])

\* The encoder writes byte after byte.
LEMMA EscapeWrites ==
  ASSUME 3 \in Byte, NEW s \in Seq(Byte)
  PROVE  \E h : Writes(h, s) /\ E!Escape(s) = h[Len(s)]
<1> DEFINE
      L == Len(s)
      step == [y \in Seq(Byte) \X (1..L) |-> E!Emit(y[1], s[y[2]])]
      Steps(h) == h = [n \in 0..L |-> IF n = 0 THEN <<>> ELSE E!Emit(h[n - 1], s[n])]
      out == CHOOSE h : Steps(h)
<1>1. L \in Nat /\ \A n \in 1..L : s[n] \in Byte
  OBVIOUS
<1>2. \E g : Steps(g)
  <2>1. step \in [Seq(Byte) \X (1..L) -> Seq(Byte)]
    <3> SUFFICES ASSUME NEW y \in Seq(Byte) \X (1..L) PROVE step[y] \in Seq(Byte)
      OBVIOUS
    <3>1. y[1] \in Seq(Byte) /\ y[2] \in 1..L
      OBVIOUS
    <3>2. E!Emit(y[1], s[y[2]]) \in Seq(Byte)
      <4> HIDE DEF L
      <4> QED BY <1>1, <3>1, EmitType
    <3> QED BY <3>2
  <2>2. PICK g : Iterates(g, Seq(Byte), <<>>, L, step)
    <3>1. <<>> \in Seq(Byte)
      OBVIOUS
    <3> HIDE DEF L, step
    <3> QED BY <1>1, <2>1, <3>1, IterationExists
  <2>3. ASSUME NEW n \in 1..L
        PROVE  step[<<g[n - 1], n>>] = E!Emit(g[n - 1], s[n])
    <3> HIDE DEF L
    <3>1. n - 1 \in 0..L /\ g[n - 1] \in Seq(Byte)
      BY <1>1, <2>2 DEF Iterates
    <3>2. <<g[n - 1], n>> \in Seq(Byte) \X (1..L)
      BY <3>1
    <3> QED BY <3>2
  <2>4. /\ g = [n \in 0..L |-> g[n]] /\ g[0] = <<>>
        /\ \A n \in 1..L : g[n] = step[<<g[n - 1], n>>]
    <3> HIDE DEF L, step
    <3> QED BY <2>2 DEF Iterates
  <2>5. Steps(g)
    <3> HIDE DEF L, step
    <3> QED BY <1>1, <2>3, <2>4
  <2> QED BY <2>5
<1>3. Steps(out)
  <2> HIDE DEF Steps
  <2> QED BY <1>2
<1>4. /\ out[0] = <<>>
      /\ \A n \in 1..L : out[n] = E!Emit(out[n - 1], s[n])
  <2> HIDE DEF out, L
  <2> QED BY <1>1, <1>3
<1>5. E!Escape(s) = out[L]
  BY DEF E!Escape
<1> HIDE DEF out
<1> QED BY <1>4, <1>5 DEF Writes

\* What it has written after some bytes is the same whatever follows.
LEMMA WritesOnce ==
  ASSUME NEW s, NEW t, NEW L \in Nat, NEW g, NEW h,
         Writes(g, s), Writes(h, t), L <= Len(s), L <= Len(t),
         Len(s) \in Nat, Len(t) \in Nat,
         \A n \in 1..L : s[n] = t[n]
  PROVE  g[L] = h[L]
<1> DEFINE S == {n \in Nat : n <= L => g[n] = h[n]}
<1>1. 0 \in S
  BY DEF Writes
<1>2. \A n \in Nat : n \in S => n + 1 \in S
  <2> SUFFICES ASSUME NEW n \in Nat, n \in S, n + 1 <= L PROVE g[n + 1] = h[n + 1]
    OBVIOUS
  <2>1. /\ n + 1 \in 1..L /\ n + 1 \in 1..Len(s) /\ n + 1 \in 1..Len(t)
        /\ (n + 1) - 1 = n /\ g[n] = h[n]
    OBVIOUS
  <2>2. /\ g[n + 1] = E!Emit(g[n], s[n + 1])
        /\ h[n + 1] = E!Emit(h[n], t[n + 1])
    BY <2>1 DEF Writes
  <2> QED BY <2>1, <2>2
<1>3. Nat \subseteq S
  <2> HIDE DEF S
  <2> QED BY <1>1, <1>2, InductionOnSet
<1> QED BY <1>3

\* The encoder writes one byte more as Emit writes it.
LEMMA EscapeAppend ==
  ASSUME 3 \in Byte, NEW s \in Seq(Byte), NEW b \in Byte
  PROVE  E!Escape(Append(s, b)) = E!Emit(E!Escape(s), b)
<1> DEFINE t == Append(s, b)
           L == Len(s)
<1>1. /\ t \in Seq(Byte) /\ Len(t) = L + 1 /\ t[L + 1] = b /\ L \in Nat
      /\ \A n \in 1..L : s[n] = t[n]
  <2> HIDE DEF t
  <2>1. t = Append(s, b)
    BY DEF t
  <2> QED BY <2>1, AppendProperties
<1> HIDE DEF t
<1>2. PICK g : Writes(g, s) /\ E!Escape(s) = g[L]
  BY EscapeWrites
<1>3. PICK h : Writes(h, t) /\ E!Escape(t) = h[Len(t)]
  BY <1>1, EscapeWrites
<1>4. g[L] = h[L]
  BY <1>1, <1>2, <1>3, WritesOnce
<1>5. h[L + 1] = E!Emit(h[L], b)
  <2>1. L + 1 \in 1..Len(t) /\ (L + 1) - 1 = L
    BY <1>1
  <2> QED BY <1>1, <1>3, <2>1 DEF Writes
<1> QED BY <1>1, <1>2, <1>3, <1>4, <1>5 DEF t

\* It writes nothing for nothing.
LEMMA EscapeEmpty ==
  ASSUME 3 \in Byte
  PROVE  E!Escape(<<>>) = <<>>
<1>1. <<>> \in Seq(Byte) /\ Len(<<>>) = 0
  OBVIOUS
<1> QED BY <1>1, EscapeWrites DEF Writes

\* The first n bytes, and one more.
LEMMA PrefixGrows ==
  ASSUME NEW V, NEW s \in Seq(V), NEW n \in 0..(Len(s) - 1)
  PROVE  /\ SubSeq(s, 1, n) \in Seq(V) /\ Len(SubSeq(s, 1, n)) = n
         /\ \A i \in 1..n : SubSeq(s, 1, n)[i] = s[i]
         /\ SubSeq(s, 1, n + 1) = Append(SubSeq(s, 1, n), s[n + 1])
<1> DEFINE p == SubSeq(s, 1, n)
<1>1. /\ p \in Seq(V) /\ Len(p) = n
      /\ \A i \in 1..n : p[i] = s[i]
  BY SubSeqProperties
<1>2. n + 1 \in 1..Len(s) /\ 1 \in 1..Len(s) /\ n + 1 \in 1..Len(s) /\ (n + 1) - 1 = n
      /\ s[n + 1] \in V
  OBVIOUS
<1>3. SubSeq(s, 1, n + 1) = SubSeq(s, 1, (n + 1) - 1) \o <<s[n + 1]>>
  BY <1>2, SubSeqRecursiveSecond
<1>4. Append(p, s[n + 1]) = p \o <<s[n + 1]>>
  <2> HIDE DEF p
  <2> QED BY <1>1, <1>2, AppendIsConcat
<1> QED BY <1>1, <1>2, <1>3, <1>4

-----------------------------------------------------------------------------
(* The loop of getRbsp.                                                    *)

\* The bytes of the body that the encoder has written when it has written what
\* the loop kept before offset i: a dropped byte comes with the byte behind it.
Undone(e, i) == IF i > 3 /\ E!IsEmulationByte(e, i - 1) THEN i - 2 ELSE i - 1

\* The loop is in the buffer, the buffer is what it is to keep up to here, and
\* escaping that gives the part of the body it has passed.
EbspLoop ==
  Len(ebsp) >= 3 =>
    /\ epc = "call" => eidx = 3
    /\ epc = "loop" =>
         /\ eidx \in 3..Len(ebsp)
         /\ ebuffer = Result(ebsp, eidx)
         /\ E!Escaped(E!Body) => E!Escape(ebuffer) = SubSeq(E!Body, 1, Undone(ebsp, eidx))
    /\ epc = "true" =>
         /\ erbsp = Result(ebsp, Len(ebsp))
         /\ E!Escaped(E!Body) => E!Escape(erbsp) = E!Body

EbspInv == E!TypeOK /\ EbspLoop

\* The two bytes copied before the loop.
LEMMA FirstTwoType ==
  ASSUME E!EbspAssumption, NEW e \in Seq(Byte), NEW past \in OverRead \X OverRead, e # <<>>
  PROVE  /\ E!FirstTwo(e, past) \in Seq(Byte)
         /\ Len(e) >= 3 => E!FirstTwo(e, past) = E!FirstTwo(e, <<0, 0>>)
         /\ Len(e) >= 3 => E!FirstTwo(e, past) = <<e[2], e[3]>>
<1> DEFINE two == E!FirstTwo(e, past)
<1>1. past[1] \in Byte /\ past[2] \in Byte
  BY DEF E!EbspAssumption
<1>2. \A k \in 1..2 : k < Len(e) => e[k + 1] \in Byte
  OBVIOUS
<1>3. two \in [1..2 -> Byte]
  BY <1>1, <1>2 DEF E!FirstTwo
<1>4. two \in Seq(Byte)
  <2> HIDE DEF two
  <2> QED BY ONLY <1>3, 2 \in Nat, FunctionIsSeq
<1>5. ASSUME Len(e) >= 3
      PROVE  two = E!FirstTwo(e, <<0, 0>>) /\ two = <<e[2], e[3]>>
  <2>1. \A k \in 1..2 : k < Len(e)
    BY <1>5
  <2>2. two = [k \in 1..2 |-> e[k + 1]] /\ E!FirstTwo(e, <<0, 0>>) = [k \in 1..2 |-> e[k + 1]]
    BY <2>1 DEF E!FirstTwo
  <2>3. [k \in 1..2 |-> e[k + 1]] = <<e[2], e[3]>>
    OBVIOUS
  <2> QED BY <2>2, <2>3
<1> QED BY <1>4, <1>5

\* The body of an ebsp of three bytes or more.
LEMMA BodyIs ==
  ASSUME NEW e \in Seq(Byte), Len(e) >= 3
  PROVE  /\ Tail(e) \in Seq(Byte) /\ Len(Tail(e)) = Len(e) - 1
         /\ \A i \in 1..(Len(e) - 1) : Tail(e)[i] = e[i + 1]
<1>1. e # <<>>
  OBVIOUS
<1> QED BY <1>1, HeadTailProperties

\* The encoder writes a byte that the loop keeps as the ebsp has it, together
\* with the byte the loop dropped before it.
LEMMA KeptIsWritten ==
  ASSUME E!EbspAssumption, NEW e \in Seq(Byte), NEW i \in 3..(Len(e) - 1),
         ~ E!IsEmulationByte(e, i), E!Escaped(Tail(e)),
         NEW r \in Seq(Byte), E!Escape(r) = SubSeq(Tail(e), 1, Undone(e, i))
  PROVE  E!Escape(Append(r, e[i + 1])) = SubSeq(Tail(e), 1, Undone(e, i + 1))
<1> DEFINE body == Tail(e)
           L == Len(e)
           b == e[i + 1]
           out == E!Escape(r)
           prefix(n) == SubSeq(body, 1, n)
<1>1. /\ body \in Seq(Byte) /\ Len(body) = L - 1
      /\ \A n \in 1..(L - 1) : body[n] = e[n + 1]
      /\ L \in Nat /\ i \in Nat /\ i >= 3 /\ i <= L - 1
  BY BodyIs
<1>2. b \in Byte /\ b \in Nat /\ 3 \in Byte
  <2>1. Byte \subseteq Nat /\ 3 \in Byte
    BY DEF E!EbspAssumption
  <2>2. i + 1 \in 1..Len(e)
    OBVIOUS
  <2>3. b \in Byte
    BY ONLY <2>2, e \in Seq(Byte)
  <2> HIDE DEF b
  <2> QED BY ONLY <2>1, <2>3
<1>3. E!Escape(Append(r, b)) = E!Emit(out, b)
  BY <1>2, EscapeAppend
<1>4. Undone(e, i + 1) = i
  BY <1>1 DEF Undone
<1>5. ASSUME NEW n \in 0..(L - 2)
      PROVE  /\ prefix(n) \in Seq(Byte) /\ Len(prefix(n)) = n
             /\ \A k \in 1..n : prefix(n)[k] = body[k]
             /\ prefix(n + 1) = Append(prefix(n), body[n + 1])
  <2> HIDE DEF body
  <2>1. n \in 0..(Len(body) - 1)
    BY <1>1
  <2> QED BY <1>1, <2>1, PrefixGrows
<1> HIDE DEF body, L, prefix
<1>6. CASE i > 3 /\ E!IsEmulationByte(e, i - 1)
  <2>1. out = prefix(i - 2)
    BY <1>1, <1>6 DEF Undone, prefix, body
  <2>2. e[i] = 3 /\ e[i - 2] = 0 /\ e[i - 1] = 0 /\ b \in 0..3
    <3>1. (i - 1) + 1 = i /\ (i - 1) - 1 = i - 2 /\ (i - 1) + 2 = i + 1
      BY <1>1
    <3> QED BY <1>6, <3>1 DEF E!IsEmulationByte
  <2>3. /\ i - 2 \in 0..(L - 2) /\ i - 1 \in 0..(L - 2)
        /\ (i - 2) + 1 = i - 1 /\ (i - 1) + 1 = i
        /\ i - 3 \in 1..(i - 2) /\ i - 2 \in 1..(i - 2)
        /\ i - 3 \in 1..(L - 1) /\ i - 2 \in 1..(L - 1)
        /\ (i - 3) + 1 = i - 2 /\ (i - 2) - 1 = i - 3 /\ i - 2 >= 2
        /\ i \in 1..(L - 1) /\ i - 1 \in 1..(L - 1)
    BY <1>1, <1>6
  <2>4. /\ out \in Seq(Byte) /\ Len(out) = i - 2
        /\ out[i - 3] = 0 /\ out[i - 2] = 0
    <3>1. /\ prefix(i - 2) \in Seq(Byte) /\ Len(prefix(i - 2)) = i - 2
          /\ prefix(i - 2)[i - 3] = body[i - 3] /\ prefix(i - 2)[i - 2] = body[i - 2]
      BY <1>5, <2>3
    <3>2. body[i - 3] = e[i - 2] /\ body[i - 2] = e[i - 1]
      BY <1>1, <2>3
    <3> QED BY <2>1, <2>2, <3>1, <3>2
  <2>5. E!Emit(out, b) = out \o <<3, b>>
    <3>1. b <= 3 /\ (i - 2) - 1 = i - 3
      BY <1>2, <2>2, <2>3
    <3> HIDE DEF out, b
    <3> QED BY <2>3, <2>4, <3>1 DEF E!Emit
  <2>6. prefix(i - 1) = Append(out, 3) /\ prefix(i) = Append(Append(out, 3), b)
    <3>1. body[i - 1] = 3 /\ body[i] = b
      BY <1>1, <2>2, <2>3 DEF b
    <3>2. prefix(i - 1) = Append(prefix(i - 2), body[i - 1])
      BY <1>5, <2>3
    <3>3. prefix(i) = Append(prefix(i - 1), body[i])
      BY <1>5, <2>3
    <3> QED BY <2>1, <3>1, <3>2, <3>3
  <2>7. out \o <<3, b>> = Append(Append(out, 3), b)
    <3> HIDE DEF out, b
    <3> QED BY <1>2, <2>4
  <2> QED BY <1>3, <1>4, <2>5, <2>6, <2>7 DEF prefix, body
<1>7. CASE ~ (i > 3 /\ E!IsEmulationByte(e, i - 1))
  <2>1. out = prefix(i - 1)
    BY <1>1, <1>7 DEF Undone, prefix, body
  <2>2. /\ i - 1 \in 0..(L - 2) /\ (i - 1) + 1 = i /\ (i - 1) - 1 = i - 2
        /\ i - 2 \in 1..(i - 1) /\ i - 1 \in 1..(i - 1)
        /\ i - 2 \in 1..(L - 1) /\ i - 1 \in 1..(L - 1) /\ i \in 1..(L - 1)
        /\ (i - 2) + 1 = i - 1 /\ (i - 2) + 2 = i /\ (i - 2) + 3 = i + 1
        /\ i - 2 \in 1..((L - 1) - 2)
    BY <1>1
  <2>3. /\ out \in Seq(Byte) /\ Len(out) = i - 1
        /\ out[i - 2] = e[i - 1] /\ out[i - 1] = e[i]
        /\ body[i] = b
    BY <1>1, <1>5, <2>1, <2>2, ZenonT(30) DEF b
  <2>4. ~ (b <= 3 /\ out[i - 2] = 0 /\ out[i - 1] = 0)
    <3> SUFFICES ASSUME b <= 3, e[i - 1] = 0, e[i] = 0 PROVE FALSE
      BY <2>3
    <3>1. body[i - 2] = 0 /\ body[i - 1] = 0
      BY <1>1, <2>2
    <3>2. body[i] = 3 /\ i + 1 <= L - 1 /\ body[i + 1] <= 3
      <4>1. E!Escaped(body)
        BY DEF body
      <4>2. i - 2 \in 1..(Len(body) - 2)
        BY <1>1, <2>2
      <4>3. \/ body[i] > 3
            \/ body[i] = 3 /\ i + 1 <= Len(body) /\ body[i + 1] <= 3
        BY <2>2, <3>1, <4>1, <4>2 DEF E!Escaped
      <4> QED BY <1>1, <1>2, <2>3, <4>3
    <3>3. e[i + 2] \in 0..3
      <4>1. i + 1 \in 1..(L - 1) /\ (i + 1) + 1 = i + 2 /\ i + 2 \in 1..L
        BY <1>1, <3>2
      <4>2. body[i + 1] = e[i + 2] /\ e[i + 2] \in Nat
        <5>1. Byte \subseteq Nat
          BY DEF E!EbspAssumption
        <5>2. e[i + 2] \in Byte
          BY <4>1 DEF L
        <5> QED BY <1>1, <4>1, <5>1, <5>2
      <4> QED BY <3>2, <4>2
    <3>4. i + 1 < L /\ e[i + 1] = 3
      BY <1>1, <2>3, <3>2 DEF b
    <3> QED BY <3>3, <3>4 DEF E!IsEmulationByte, L
  <2>5. E!Emit(out, b) = Append(out, b)
    BY <2>2, <2>3, <2>4 DEF E!Emit
  <2>6. prefix(i) = Append(prefix(i - 1), body[i])
    BY <1>5, <2>2
  <2> QED BY <1>3, <1>4, <2>1, <2>3, <2>5, <2>6 DEF prefix, body
<1> QED BY <1>6, <1>7

\* A byte that the loop drops is not behind another it dropped.
LEMMA DroppedIsWritten ==
  ASSUME NEW e, NEW i \in Nat, i >= 3, E!IsEmulationByte(e, i)
  PROVE  Undone(e, i + 1) = Undone(e, i)
<1>1. (i + 1) - 1 = i /\ (i + 1) - 2 = i - 1 /\ (i - 1) + 1 = i /\ i + 1 > 3
  OBVIOUS
<1>2. ~ E!IsEmulationByte(e, i - 1)
  BY <1>1 DEF E!IsEmulationByte
<1> QED BY <1>1, <1>2 DEF Undone

-----------------------------------------------------------------------------
(* The invariant.                                                          *)

\* It holds when getRbsp is called.
LEMMA EbspBegins ==
  ASSUME E!EbspAssumption, E!Init
  PROVE  EbspInv
<1>1. ebsp \in Seq(Byte)
  BY DEF E!EbspAssumption, E!Init
<1> QED BY <1>1 DEF E!Init, EbspInv, E!TypeOK, EbspLoop

\* Every step keeps it.
LEMMA EbspSteps ==
  ASSUME E!EbspAssumption, EbspInv, E!Next \/ UNCHANGED ebspVars
  PROVE  EbspInv'
<1> USE DEF EbspInv
<1> DEFINE L == Len(ebsp)
<1>0. ebsp \in Seq(Byte) /\ L \in Nat
  BY DEF E!TypeOK
<1>1. CASE E!Invalid
  <2>1. ebsp = <<>> /\ ebsp' = <<>> /\ ~ (Len(ebsp') >= 3)
    BY <1>1 DEF E!Invalid
  <2> QED BY <1>1, <2>1 DEF E!Invalid, E!TypeOK, EbspLoop
<1>2. ASSUME NEW past \in OverRead \X OverRead, E!CopyFirstTwo(past)
      PROVE  EbspInv'
  <2>1. /\ ebsp' = ebsp /\ eidx' = eidx /\ erbsp' = erbsp /\ epc' = "loop"
        /\ ebuffer' = E!FirstTwo(ebsp, past) /\ ebsp # <<>>
    BY <1>2 DEF E!CopyFirstTwo
  <2>2. E!TypeOK'
    <3>1. E!FirstTwo(ebsp, past) \in Seq(Byte)
      BY <1>0, <2>1, FirstTwoType
    <3> QED BY <2>1, <3>1 DEF E!TypeOK
  <2>3. ASSUME L >= 3 PROVE EbspLoop'
    <3>1. eidx = 3 /\ 3 \in 3..L
      BY <1>0, <1>2, <2>3 DEF EbspLoop, E!CopyFirstTwo
    <3>2. /\ ebuffer' = E!FirstTwo(ebsp, <<0, 0>>)
          /\ ebuffer' = <<ebsp[2], ebsp[3]>>
      BY <1>0, <2>1, <2>3, FirstTwoType
    <3>3. Result(ebsp, 3) = E!FirstTwo(ebsp, <<0, 0>>)
      BY <1>0, <2>3, <3>1, ResultGrows
    <3>4. Undone(ebsp, 3) = 2
      BY DEF Undone
    <3>5. E!Escape(<<ebsp[2], ebsp[3]>>) = SubSeq(E!Body, 1, 2)
      <4> DEFINE a == ebsp[2]
                 b == ebsp[3]
      <4>1. a \in Byte /\ b \in Byte /\ 3 \in Byte
        <5>1. 2 \in 1..L /\ 3 \in 1..L
          BY <1>0, <2>3
        <5>2. 3 \in Byte
          BY DEF E!EbspAssumption
        <5> QED BY <1>0, <5>1, <5>2
      <4>2. E!Body \in Seq(Byte) /\ Len(E!Body) = L - 1 /\ E!Body[1] = a /\ E!Body[2] = b
        <5>1. 1 \in 1..(L - 1) /\ 2 \in 1..(L - 1)
          BY <1>0, <2>3
        <5> QED BY <1>0, <2>3, <5>1, BodyIs DEF E!Body
      <4> HIDE DEF a, b
      <4>3. <<>> \in Seq(Byte) /\ <<a>> \in Seq(Byte) /\ <<a>> = Append(<<>>, a)
            /\ <<a, b>> = Append(<<a>>, b)
        BY <4>1
      <4>4. E!Escape(<<a>>) = <<a>>
        <5>1. E!Escape(<<a>>) = E!Emit(<<>>, a)
          BY <4>1, <4>3, EscapeAppend, EscapeEmpty
        <5>2. E!Emit(<<>>, a) = <<a>>
          BY <4>3 DEF E!Emit
        <5> QED BY <5>1, <5>2
      <4>5. E!Escape(<<a, b>>) = <<a, b>>
        <5>1. E!Escape(<<a, b>>) = E!Emit(<<a>>, b)
          BY <4>1, <4>3, <4>4, EscapeAppend
        <5>2. Len(<<a>>) = 1 /\ ~ (Len(<<a>>) >= 2)
          OBVIOUS
        <5>3. E!Emit(<<a>>, b) = <<a, b>>
          BY <4>3, <5>2 DEF E!Emit
        <5> QED BY <5>1, <5>3
      <4>6. SubSeq(E!Body, 1, 2) = <<a, b>>
        <5>1. 0 \in 0..(Len(E!Body) - 1) /\ 1 \in 0..(Len(E!Body) - 1)
          BY <1>0, <2>3, <4>2
        <5>2. SubSeq(E!Body, 1, 0) = <<>>
          BY SubSeqEmpty
        <5>3. SubSeq(E!Body, 1, 0 + 1) = Append(SubSeq(E!Body, 1, 0), E!Body[0 + 1])
          BY <4>2, <5>1, PrefixGrows
        <5>4. SubSeq(E!Body, 1, 1 + 1) = Append(SubSeq(E!Body, 1, 1), E!Body[1 + 1])
          BY <4>2, <5>1, PrefixGrows
        <5>5. 0 + 1 = 1 /\ 1 + 1 = 2
          OBVIOUS
        <5> QED BY <4>2, <4>3, <5>2, <5>3, <5>4, <5>5
      <4> QED BY <4>5, <4>6 DEF a, b
    <3> QED BY <2>1, <3>1, <3>2, <3>3, <3>4, <3>5 DEF EbspLoop, E!Body
  <2>4. CASE ~ (L >= 3)
    BY <2>1, <2>2, <2>4 DEF EbspLoop
  <2> QED BY <2>2, <2>3, <2>4
<1>3. CASE E!KeepByte
  <2>1. /\ ebsp' = ebsp /\ erbsp' = erbsp /\ epc = "loop" /\ epc' = "loop"
        /\ eidx < L /\ eidx' = eidx + 1 /\ eidx \in Nat
        /\ ebuffer' = Append(ebuffer, ebsp[eidx + 1]) /\ ebuffer \in Seq(Byte)
        /\ ~ E!IsEmulationByte(ebsp, eidx)
    BY <1>3 DEF E!KeepByte, E!TypeOK
  <2>2. ebsp[eidx + 1] \in Byte
    <3>1. eidx + 1 \in 1..L
      BY <1>0, <2>1
    <3> QED BY <1>0, <3>1
  <2>3. E!TypeOK'
    <3>1. ebuffer' \in Seq(Byte)
      BY <2>1, <2>2, AppendProperties
    <3>2. eidx' \in Nat
      BY <2>1
    <3> QED BY <2>1, <3>1, <3>2 DEF E!TypeOK
  <2>4. ASSUME L >= 3 PROVE EbspLoop'
    <3>1. /\ eidx \in 3..(L - 1) /\ eidx \in 3..L /\ eidx + 1 \in 3..L
          /\ ebuffer = Result(ebsp, eidx)
          /\ E!Escaped(E!Body) => E!Escape(ebuffer) = SubSeq(E!Body, 1, Undone(ebsp, eidx))
      BY <1>0, <2>1, <2>4 DEF EbspLoop
    <3>2. ebuffer' = Result(ebsp, eidx + 1)
      BY <1>0, <2>1, <2>4, <3>1, ResultGrows
    <3>3. E!Escaped(E!Body) => E!Escape(ebuffer') = SubSeq(E!Body, 1, Undone(ebsp, eidx + 1))
      BY <1>0, <2>1, <3>1, KeptIsWritten DEF E!Body
    <3> QED BY <2>1, <3>1, <3>2, <3>3 DEF EbspLoop, E!Body
  <2>5. CASE ~ (L >= 3)
    BY <2>1, <2>3, <2>5 DEF EbspLoop
  <2> QED BY <2>3, <2>4, <2>5
<1>4. CASE E!DropByte
  <2>1. /\ ebsp' = ebsp /\ erbsp' = erbsp /\ epc = "loop" /\ epc' = "loop"
        /\ eidx < L /\ eidx' = eidx + 1 /\ eidx \in Nat /\ ebuffer' = ebuffer
        /\ E!IsEmulationByte(ebsp, eidx)
    BY <1>4 DEF E!DropByte, E!TypeOK
  <2>2. E!TypeOK'
    BY <2>1 DEF E!TypeOK
  <2>3. ASSUME L >= 3 PROVE EbspLoop'
    <3>1. /\ eidx \in 3..L /\ eidx + 1 \in 3..L /\ eidx >= 3
          /\ ebuffer = Result(ebsp, eidx)
          /\ E!Escaped(E!Body) => E!Escape(ebuffer) = SubSeq(E!Body, 1, Undone(ebsp, eidx))
      BY <1>0, <2>1, <2>3 DEF EbspLoop
    <3>2. ebuffer = Result(ebsp, eidx + 1)
      BY <1>0, <2>1, <2>3, <3>1, ResultGrows
    <3>3. Undone(ebsp, eidx + 1) = Undone(ebsp, eidx)
      BY <2>1, <3>1, DroppedIsWritten
    <3> QED BY <2>1, <3>1, <3>2, <3>3 DEF EbspLoop, E!Body
  <2>4. CASE ~ (L >= 3)
    BY <2>1, <2>2, <2>4 DEF EbspLoop
  <2> QED BY <2>2, <2>3, <2>4
<1>5. CASE E!SetRbsp
  <2>1. /\ ebsp' = ebsp /\ erbsp' = ebuffer /\ epc = "loop" /\ epc' = "true"
        /\ eidx >= L /\ eidx' = eidx /\ eidx \in Nat /\ ebuffer' = ebuffer
    BY <1>5 DEF E!SetRbsp, E!TypeOK
  <2>2. E!TypeOK'
    BY <2>1 DEF E!TypeOK
  <2>3. ASSUME L >= 3 PROVE EbspLoop'
    <3>1. /\ eidx = L
          /\ ebuffer = Result(ebsp, eidx)
          /\ E!Escaped(E!Body) => E!Escape(ebuffer) = SubSeq(E!Body, 1, Undone(ebsp, eidx))
      BY <1>0, <2>1, <2>3 DEF EbspLoop
    <3>2. Undone(ebsp, L) = L - 1
      <4>1. (L - 1) + 1 = L /\ ~ (L < L)
        BY <1>0
      <4>2. ~ E!IsEmulationByte(ebsp, L - 1)
        BY <4>1 DEF E!IsEmulationByte
      <4> QED BY <4>2 DEF Undone
    <3>3. E!Body \in Seq(Byte) /\ Len(E!Body) = L - 1
      BY <1>0, <2>3, BodyIs DEF E!Body
    <3>4. SubSeq(E!Body, 1, L - 1) = E!Body
      BY <3>3, SubSeqFull
    <3> QED BY <2>1, <3>1, <3>2, <3>4 DEF EbspLoop, E!Body
  <2>4. CASE ~ (L >= 3)
    BY <2>1, <2>2, <2>4 DEF EbspLoop
  <2> QED BY <2>2, <2>3, <2>4
<1>6. CASE UNCHANGED ebspVars
  <2>1. ebsp' = ebsp /\ epc' = epc /\ eidx' = eidx /\ ebuffer' = ebuffer /\ erbsp' = erbsp
    BY <1>6 DEF ebspVars
  <2> QED BY <2>1 DEF E!TypeOK, EbspLoop, E!Body
<1> QED BY <1>1, <1>2, <1>3, <1>4, <1>5, <1>6 DEF E!Next

\* A step of the decoders is one of getRbsp or leaves it alone.
LEMMA EbspRuns ==
  ASSUME [DecodersNext]_<<decoder, allVars, ebspVars>>
  PROVE  E!Next \/ UNCHANGED ebspVars
  BY DEF DecodersNext, StepsEbsp, StepsStream, ebspVars

\* The invariant holds whichever decoder runs.
THEOREM EbspInvariance == DecodersSpec => []EbspInv
<1>1. DecodersInit => EbspInv
  <2>1. NoEbsp => EbspInv
    BY DEF NoEbsp, EbspInv, E!TypeOK, EbspLoop
  <2> QED BY <2>1, EbspBegins, DecodersAssumption DEF DecodersInit
<1>2. EbspInv /\ [DecodersNext]_<<decoder, allVars, ebspVars>> => EbspInv'
  <2> SUFFICES ASSUME EbspInv, [DecodersNext]_<<decoder, allVars, ebspVars>>
               PROVE  EbspInv'
    OBVIOUS
  <2>1. E!Next \/ UNCHANGED ebspVars
    BY EbspRuns
  <2>2. E!EbspAssumption
    BY DecodersAssumption
  <2> QED BY ONLY <2>1, <2>2, EbspInv, EbspSteps
<1> QED BY <1>1, <1>2, PTL DEF DecodersSpec

\* Escaping what getRbsp returns gives the body back, for every body that an
\* encoder can have written; and its variables keep their types.
THEOREM EscapeIsUndone == DecodersSpec => []UndoesEscape
<1>1. EbspInv => UndoesEscape
  <2> SUFFICES ASSUME EbspInv PROVE UndoesEscape
    OBVIOUS
  <2>1. E!TypeOK /\ ebsp \in Seq(Byte)
    BY DEF EbspInv, E!TypeOK
  <2>2. ASSUME epc = "true", Len(E!Body) >= 2, E!Escaped(E!Body)
        PROVE  E!Escape(erbsp) = E!Body
    <3>1. Len(ebsp) >= 3
      <4>1. CASE ebsp = <<>>
        BY <2>2, <4>1 DEF E!Body
      <4>2. CASE ebsp # <<>>
        <5>1. Len(E!Body) = Len(ebsp) - 1
          BY <2>1, <4>2, HeadTailProperties DEF E!Body
        <5> QED BY <2>1, <2>2, <5>1
      <4> QED BY <4>1, <4>2
    <3> QED BY <2>2, <3>1 DEF EbspInv, EbspLoop
  <2> QED BY <2>1, <2>2 DEF UndoesEscape, E!UndoesEscape
<1> QED BY <1>1, EbspInvariance, PTL

\* Only the bytes that the comment of the loop lists are dropped, and all of
\* them, from every ebsp of three bytes or more.
THEOREM OnlyListedAreDropped == DecodersSpec => []DropsOnlyListed
<1>1. EbspInv => DropsOnlyListed
  <2>1. Result(ebsp, Len(ebsp)) = E!GetRbsp(ebsp, <<0, 0>>)
    BY DEF Result, E!GetRbsp
  <2> QED BY <2>1 DEF EbspInv, EbspLoop, DropsOnlyListed, E!DropsOnlyListed
<1> QED BY <1>1, EbspInvariance, PTL

=============================================================================
