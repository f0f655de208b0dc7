-------------------------- MODULE FileReaderProofs --------------------------
(***************************************************************************)
(* Theorems about FileReader and the program around it, for every file,    *)
(* chunk size and byte past the end of m_buffer.                           *)
(***************************************************************************)
EXTENDS MCFuncTest, Iteration, SequenceTheorems

-----------------------------------------------------------------------------
(* Sequences and start codes.                                              *)

\* A part of a sequence of bytes is one, and its bytes are those of the whole.
LEMMA PartOfBytes ==
  ASSUME NEW S, NEW s \in Seq(S), NEW a \in 0..Len(s), NEW b \in a..Len(s)
  PROVE  /\ SubSeq(s, a + 1, b) \in Seq(S)
         /\ Len(SubSeq(s, a + 1, b)) = b - a
         /\ \A k \in 1..b - a : SubSeq(s, a + 1, b)[k] = s[a + k]
  OBVIOUS

\* Appending to a sequence appends to each of its ends.
LEMMA EndOfConcat ==
  ASSUME NEW S, NEW s \in Seq(S), NEW t \in Seq(S), NEW a \in 0..Len(s)
  PROVE  SubSeq(s \o t, a + 1, Len(s \o t)) = SubSeq(s, a + 1, Len(s)) \o t
<1> DEFINE u == s \o t
           lhs == SubSeq(u, a + 1, Len(u))
           end == SubSeq(s, a + 1, Len(s))
           rhs == end \o t
<1>1. /\ u \in Seq(S)
      /\ Len(u) = Len(s) + Len(t)
      /\ \A i \in 1..Len(s) + Len(t) : u[i] = IF i <= Len(s) THEN s[i] ELSE t[i - Len(s)]
  BY ConcatProperties
<1>2. /\ end \in Seq(S)
      /\ Len(end) = Len(s) - a
      /\ \A k \in 1..Len(s) - a : end[k] = s[a + k]
  BY PartOfBytes, Len(s) \in a..Len(s)
<1>3. /\ rhs \in Seq(S)
      /\ Len(rhs) = Len(end) + Len(t)
      /\ \A i \in 1..Len(end) + Len(t) :
           rhs[i] = IF i <= Len(end) THEN end[i] ELSE t[i - Len(end)]
  BY <1>2, ConcatProperties
<1>4. /\ lhs \in Seq(S)
      /\ Len(lhs) = Len(u) - a
      /\ \A k \in 1..Len(u) - a : lhs[k] = u[a + k]
  BY <1>1, PartOfBytes, a \in 0..Len(u), Len(u) \in a..Len(u)
<1> HIDE DEF u, lhs, end, rhs
<1>5. ASSUME NEW k \in 1..Len(lhs)
      PROVE  lhs[k] = rhs[k]
  <2>1. k \in 1..Len(s) + Len(t) - a
    BY <1>1, <1>4
  <2>2. CASE k <= Len(s) - a
    BY <1>1, <1>2, <1>3, <1>4, <2>1, <2>2
  <2>3. CASE k > Len(s) - a
    <3>1. lhs[k] = t[(a + k) - Len(s)]
      BY <1>1, <1>4, <2>1, <2>3
    <3>2. rhs[k] = t[k - (Len(s) - a)]
      BY <1>2, <1>3, <2>1, <2>3
    <3>3. (a + k) - Len(s) = k - (Len(s) - a)
      BY <2>1
    <3> QED
      BY <3>1, <3>2, <3>3
  <2> QED
    BY <2>1, <2>2, <2>3
<1>6. Len(lhs) = Len(rhs)
  BY <1>1, <1>2, <1>3, <1>4
<1>7. lhs = rhs
  BY <1>3, <1>4, <1>5, <1>6, SeqEqual
<1> QED
  BY <1>7 DEF u, lhs, end, rhs

\* The end of an end is an end.
LEMMA EndOfEnd ==
  ASSUME NEW S, NEW s \in Seq(S), NEW a \in 0..Len(s), NEW n \in 0..Len(s) - a
  PROVE  LET t == SubSeq(s, a + 1, Len(s))
         IN  SubSeq(t, n + 1, Len(t)) = SubSeq(s, a + n + 1, Len(s))
  OBVIOUS

\* What is open and not read splits where it will be read next.
LEMMA SplitEnd ==
  ASSUME NEW S, NEW s \in Seq(S), NEW a \in 0..Len(s), NEW n \in 0..Len(s) - a
  PROVE  SubSeq(s, a + 1, Len(s))
           = SubSeq(s, a + 1, a + n) \o SubSeq(s, a + n + 1, Len(s))
<1>1. /\ a + 1 \in 1..Len(s) + 1
      /\ a + n \in (a + 1) - 1..Len(s)
      /\ Len(s) \in a + n..Len(s)
  OBVIOUS
<1> QED
  BY <1>1, ConcatAdjacentSubSeq

\* The bytes of the two start codes.
LEMMA StartCodeBytes ==
  ASSUME NEW s, NEW o \in Nat
  PROVE  /\ StartCodeAt(s, o, 3) <=>
              /\ o + 3 <= Len(s)
              /\ s[o + 1] = 0 /\ s[o + 2] = 0 /\ s[o + 3] = 1
         /\ StartCodeAt(s, o, 4) <=>
              /\ o + 4 <= Len(s)
              /\ s[o + 1] = 0 /\ s[o + 2] = 0 /\ s[o + 3] = 0 /\ s[o + 4] = 1
<1>1. 1..3 - 1 = {1, 2} /\ 1..4 - 1 = {1, 2, 3}
  OBVIOUS
<1> QED
  BY <1>1 DEF StartCodeAt

\* The bytes that FindStartCode looks at.
LEMMA FoundBytes ==
  ASSUME NEW buf, NEW o \in Nat, NEW past, Len(buf) \in Nat
  PROVE  /\ FindStartCode(buf, o, 3, past) <=>
              /\ o + 3 <= Len(buf)
              /\ buf[o + 1] = 0 /\ buf[o + 2] = 0 /\ buf[o + 3] = 1
         /\ FindStartCode(buf, o, 4, past) <=>
              /\ o + 3 <= Len(buf)
              /\ buf[o + 1] = 0 /\ buf[o + 2] = 0 /\ buf[o + 3] = 0
              /\ (IF o + 4 <= Len(buf) THEN buf[o + 4] ELSE past) = 1
<1>1. 0..3 - 2 = {0, 1} /\ 0..4 - 2 = {0, 1, 2}
  OBVIOUS
<1>2. ASSUME o + 3 <= Len(buf)
      PROVE  /\ ByteAt(buf, o, 0, past) = buf[o + 1]
             /\ ByteAt(buf, o, 1, past) = buf[o + 2]
             /\ ByteAt(buf, o, 2, past) = buf[o + 3]
             /\ ByteAt(buf, o, 3, past) = IF o + 4 <= Len(buf) THEN buf[o + 4] ELSE past
  BY <1>2 DEF ByteAt
<1>3. 3 - 1 = 2 /\ 4 - 1 = 3 /\ (Len(buf) - o >= 3 <=> o + 3 <= Len(buf))
  OBVIOUS
<1>4. FindStartCode(buf, o, 3, past) <=>
        /\ o + 3 <= Len(buf)
        /\ ByteAt(buf, o, 0, past) = 0 /\ ByteAt(buf, o, 1, past) = 0
        /\ ByteAt(buf, o, 2, past) = 1
  BY <1>1, <1>3 DEF FindStartCode
<1>5. FindStartCode(buf, o, 4, past) <=>
        /\ o + 3 <= Len(buf)
        /\ ByteAt(buf, o, 0, past) = 0 /\ ByteAt(buf, o, 1, past) = 0
        /\ ByteAt(buf, o, 2, past) = 0
        /\ ByteAt(buf, o, 3, past) = 1
  BY <1>1, <1>3 DEF FindStartCode
<1> QED
  BY <1>2, <1>4, <1>5

\* Two pieces are appended one after the other, or joined first.
LEMMA JoinAtEnd ==
  ASSUME NEW S, NEW s \in Seq(S), NEW t \in Seq(S), NEW u \in Seq(S)
  PROVE  (s \o t) \o u = s \o (t \o u)
  BY ConcatAssociative

\* A start code in a part of a sequence is one in the sequence, and the other
\* way round when all of it lies in the part.
LEMMA StartCodeInPart ==
  ASSUME NEW S, NEW s \in Seq(S), NEW a \in 0..Len(s), NEW b \in a..Len(s),
         NEW i \in Nat, NEW n \in {3, 4}, i + n <= b - a
  PROVE  StartCodeAt(SubSeq(s, a + 1, b), i, n) <=> StartCodeAt(s, a + i, n)
<1> DEFINE part == SubSeq(s, a + 1, b)
<1>1. /\ Len(part) = b - a
      /\ \A k \in 1..b - a : part[k] = s[a + k]
  BY PartOfBytes
<1> HIDE DEF part
<1>2. SUFFICES StartCodeAt(part, i, n) <=> StartCodeAt(s, a + i, n)
  BY DEF part
<1>3. /\ a + i \in Nat
      /\ i + n <= Len(part)
      /\ a + i + n <= Len(s)
  BY <1>1
<1>4. /\ part[i + 1] = s[a + i + 1]
      /\ part[i + 2] = s[a + i + 2]
      /\ part[i + 3] = s[a + i + 3]
      /\ n = 4 => part[i + 4] = s[a + i + 4]
  <2>1. ASSUME NEW k \in 1..n
        PROVE  part[i + k] = s[a + i + k]
    <3>1. i + k \in 1..b - a /\ a + (i + k) = a + i + k
      OBVIOUS
    <3> QED
      BY <1>1, <3>1
  <2>2. {1, 2, 3} \subseteq 1..n /\ (n = 4 => 4 \in 1..n)
    OBVIOUS
  <2> QED
    BY <2>1, <2>2
<1> QED
  BY <1>3, <1>4, StartCodeBytes, ZenonT(30)

\* FindStartCode sees every start code, whatever lies behind the buffer.
LEMMA FindsStartCode ==
  ASSUME NEW buf \in Seq(Byte), NEW o \in Nat, NEW n \in {3, 4}, NEW past,
         StartCodeAt(buf, o, n)
  PROVE  FindStartCode(buf, o, n, past)
  BY FoundBytes, StartCodeBytes

\* What FindStartCode sees is a start code, unless it is the byte behind the
\* buffer that ends it.
LEMMA FoundIsStartCode ==
  ASSUME NEW buf \in Seq(Byte), NEW o \in Nat, NEW n \in {3, 4}, NEW past,
         FindStartCode(buf, o, n, past)
  PROVE  StartCodeAt(buf, o, n) \/ (past = 1 /\ n = 4 /\ Len(buf) = o + 3)
  BY FoundBytes, StartCodeBytes

-----------------------------------------------------------------------------
(* Type correctness.                                                       *)

\* One read takes what it finds from the rest of the file.
LEMMA AvailableFits ==
  ASSUME TypeOK
  PROVE  /\ file \in Seq(Byte)
         /\ Available \in 0..Len(file) - fpos
         /\ SubSeq(file, fpos + 1, fpos + Available) \in Seq(Byte)
         /\ Len(SubSeq(file, fpos + 1, fpos + Available)) = Available
<1>1. file \in Seq(Byte) /\ fpos \in 0..Len(file)
  BY FilesAssumption DEF TypeOK
<1>2. Available \in 0..Len(file) - fpos
  BY <1>1, ChunkAssumption DEF Available
<1> HIDE DEF Available
<1>3. fpos + Available \in fpos..Len(file)
  BY <1>1, <1>2
<1> QED
  BY <1>1, <1>2, <1>3, PartOfBytes

\* What Extract hands out and what it leaves behind.
LEMMA ExtractType ==
  ASSUME TypeOK, NoByteLost, NEW n \in 0..Len(m_buffer), Extract(n)
  PROVE  TypeOK'
<1>1. Len(m_buffer) = Len(input) - taken
  BY PartOfBytes DEF TypeOK, NoByteLost
<1>2. SubSeq(m_buffer, 1, n) \in Seq(Byte)
  BY DEF TypeOK
<1>3. m_buffer' \in Seq(Byte)
  BY SMTT(30) DEF TypeOK, Extract
<1>4. taken' \in 0..Len(input')
  BY <1>1 DEF TypeOK, Extract
<1>5. nalu' \in [startCodeLen : {0, 3, 4}, buffer : Seq(Byte)]
  BY <1>2 DEF TypeOK, Extract
<1> QED
  BY <1>3, <1>4, <1>5 DEF TypeOK, Extract, Return

LEMMA TypeInit == Init => TypeOK
<1>1. file \in Files => Len(file) \in Nat
  BY FilesAssumption
<1>2. <<>> \in Seq(Byte) /\ Len(<<>>) = 0
  OBVIOUS
<1>3. EmptyNalu \in [startCodeLen : {0, 3, 4}, buffer : Seq(Byte)]
  BY <1>2 DEF EmptyNalu
<1>4. Init => taken \in 0..Len(input) /\ opens \in 0..MaxOpens
  BY <1>2, MaxOpensAssumption DEF Init
<1>5. Init => fpos \in 0..Len(file)
  BY <1>1 DEF Init
<1>6. Init => isOpen \in BOOLEAN /\ bad \in BOOLEAN /\ isReachEnd \in BOOLEAN
  BY DEF Init
<1>7. Init => m_buffer \in Seq(Byte) /\ input \in Seq(Byte) /\ idx \in Nat
  BY <1>2 DEF Init
<1>8. Init => nalu \in [startCodeLen : {0, 3, 4}, buffer : Seq(Byte)]
  BY <1>3 DEF Init
<1> QED
  BY <1>4, <1>5, <1>6, <1>7, <1>8 DEF Init, TypeOK

LEMMA TypeStep ==
  ASSUME TypeOK, NoByteLost, [Next]_vars
  PROVE  TypeOK'
<1>1. CASE UNCHANGED vars
  BY <1>1 DEF vars, TypeOK
<1>2. CASE Open
  <2>1. opens' \in 0..MaxOpens /\ fpos' \in 0..Len(file')
    BY <1>2, AvailableFits, MaxOpensAssumption DEF Open, TypeOK
  <2> QED
    BY <1>2, <2>1 DEF Open, TypeOK
<1>3. CASE Close
  BY <1>3 DEF Close, TypeOK
<1>4. CASE ClearNalu
  BY <1>4 DEF ClearNalu, TypeOK, EmptyNalu
<1>5. CASE CallReadNalu
  BY <1>5 DEF CallReadNalu, TypeOK
<1>6. CASE ReadFromFile
  <2> DEFINE bytes == SubSeq(file, fpos + 1, fpos + Available)
  <2>1. /\ m_buffer' = m_buffer \o bytes
        /\ input' = input \o bytes
        /\ fpos' = fpos + Available
        /\ isReachEnd' = (Available = 0)
        /\ pc' = "head"
        /\ UNCHANGED <<file, isOpen, bad, nalu, idx, result, taken, opens>>
    BY <1>6 DEF ReadFromFile
  <2>2. /\ bytes \in Seq(Byte)
        /\ file \in Seq(Byte)
        /\ Available \in 0..Len(file) - fpos
    BY AvailableFits
  <2> HIDE DEF bytes
  <2>3. m_buffer' \in Seq(Byte) /\ input' \in Seq(Byte) /\ Len(input') >= Len(input)
    BY <2>1, <2>2, ConcatProperties DEF TypeOK
  <2>4. fpos' \in 0..Len(file')
    BY <2>1, <2>2 DEF TypeOK
  <2>5. taken' \in 0..Len(input')
    BY <2>1, <2>3 DEF TypeOK
  <2> QED
    BY <2>1, <2>3, <2>4, <2>5 DEF TypeOK
<1>7. CASE ReadError
  BY <1>7 DEF ReadError, TypeOK
<1>8. ASSUME NEW past \in OverRead, HeadFound(past) PROVE TypeOK'
  <2>1. PICK n \in {3, 4} : nalu' = [nalu EXCEPT !.startCodeLen = n] /\ idx' = n
    BY <1>8 DEF HeadFound
  <2>2. nalu' \in [startCodeLen : {0, 3, 4}, buffer : Seq(Byte)] /\ idx' \in Nat
    BY <2>1 DEF TypeOK
  <2> QED
    BY <1>8, <2>2 DEF HeadFound, TypeOK
<1>9. ASSUME NEW past \in OverRead, HeadMissing(past) PROVE TypeOK'
  BY <1>9 DEF HeadMissing, Return, TypeOK
<1>10. ASSUME NEW past \in OverRead, ScanHit(past) PROVE TypeOK'
  <2>1. idx \in 0..Len(m_buffer)
    BY <1>10 DEF ScanHit, TypeOK
  <2> QED
    BY <1>10, <2>1, ExtractType DEF ScanHit
<1>11. ASSUME NEW past \in OverRead, ScanMiss(past) PROVE TypeOK'
  BY <1>11 DEF ScanMiss, TypeOK
<1>12. CASE ExtractRest
  <2>1. Len(m_buffer) \in 0..Len(m_buffer)
    BY DEF TypeOK
  <2> QED
    BY <1>12, <2>1, ExtractType DEF ExtractRest
<1>13. CASE ReadMore
  BY <1>13 DEF ReadMore, TypeOK
<1> QED
  BY <1>1, <1>2, <1>3, <1>4, <1>5, <1>6, <1>7, <1>8, <1>9, <1>10, <1>11, <1>12,
     <1>13 DEF Next, Caller, ReadNalu

-----------------------------------------------------------------------------
(* No byte is lost.                                                        *)

LEMMA NoByteLostInit == Init => NoByteLost
  BY DEF Init, NoByteLost

\* Taking the first bytes from m_buffer leaves the later bytes of the input.
LEMMA ExtractKeepsRest ==
  ASSUME TypeOK, NoByteLost, NEW n \in 0..Len(m_buffer), Extract(n)
  PROVE  NoByteLost'
<1>1. Len(m_buffer) = Len(input) - taken
  BY PartOfBytes DEF TypeOK, NoByteLost
<1>2. n \in 0..Len(input) - taken
  BY <1>1
<1>3. m_buffer' = SubSeq(input, taken + n + 1, Len(input))
  BY <1>2, EndOfEnd DEF Extract, NoByteLost, TypeOK
<1> QED
  BY <1>3 DEF Extract, NoByteLost

LEMMA NoByteLostStep ==
  ASSUME TypeOK, NoByteLost, [Next]_vars
  PROVE  NoByteLost'
<1>1. CASE ReadFromFile
  <2> DEFINE bytes == SubSeq(file, fpos + 1, fpos + Available)
  <2>1. bytes \in Seq(Byte)
    BY AvailableFits
  <2>2. m_buffer' = m_buffer \o bytes /\ input' = input \o bytes /\ taken' = taken
    BY <1>1 DEF ReadFromFile
  <2> HIDE DEF bytes
  <2>3. SubSeq(input \o bytes, taken + 1, Len(input \o bytes))
          = SubSeq(input, taken + 1, Len(input)) \o bytes
    BY <2>1, EndOfConcat DEF TypeOK
  <2> QED
    BY <2>2, <2>3 DEF NoByteLost
<1>2. ASSUME NEW past \in OverRead, ScanHit(past) PROVE NoByteLost'
  <2>1. idx \in 0..Len(m_buffer)
    BY <1>2 DEF ScanHit, TypeOK
  <2> QED
    BY <1>2, <2>1, ExtractKeepsRest DEF ScanHit
<1>3. CASE ExtractRest
  <2>1. Len(m_buffer) \in 0..Len(m_buffer)
    BY DEF TypeOK
  <2> QED
    BY <1>3, <2>1, ExtractKeepsRest DEF ExtractRest
<1>4. ASSUME UNCHANGED <<m_buffer, input, taken>> PROVE NoByteLost'
  BY <1>4 DEF NoByteLost
<1>5. ASSUME NEW past \in OverRead, HeadFound(past) \/ HeadMissing(past) \/ ScanMiss(past)
      PROVE  UNCHANGED <<m_buffer, input, taken>>
  BY <1>5 DEF HeadFound, HeadMissing, ScanMiss
<1>6. Caller \/ ReadError \/ ReadMore \/ UNCHANGED vars
        => UNCHANGED <<m_buffer, input, taken>>
  BY DEF Caller, Open, Close, ClearNalu, CallReadNalu, ReadError, ReadMore, vars
<1> QED
  BY <1>1, <1>2, <1>3, <1>4, <1>5, <1>6 DEF Next, ReadNalu

-----------------------------------------------------------------------------
(* The stream.                                                             *)

\* The stream begins with what was read of it, and with nothing else when the
\* rest cannot be read.
LEMMA SourceType ==
  ASSUME TypeOK
  PROVE  /\ Source \in Seq(Byte)
         /\ Len(Source) >= Len(input)
         /\ \A k \in 1..Len(input) : Source[k] = input[k]
         /\ ~ isOpen \/ bad => Source = input
<1> DEFINE rest == IF isOpen /\ ~ bad THEN SubSeq(file, fpos + 1, Len(file)) ELSE <<>>
<1>1. rest \in Seq(Byte)
  BY AvailableFits, PartOfBytes DEF TypeOK
<1>2. Source = input \o rest
  BY DEF Source
<1>3. ~ isOpen \/ bad => rest = <<>>
  OBVIOUS
<1> HIDE DEF rest
<1> QED
  BY <1>1, <1>2, <1>3, ConcatProperties DEF TypeOK

\* m_buffer is the part of the stream that was read and not handed out.
LEMMA BufferInSource ==
  ASSUME TypeOK, NoByteLost
  PROVE  /\ m_buffer = SubSeq(Source, taken + 1, Len(input))
         /\ Len(m_buffer) = Len(input) - taken
         /\ taken \in 0..Len(Source)
         /\ Len(input) \in taken..Len(Source)
<1>1. taken \in 0..Len(Source) /\ Len(input) \in taken..Len(Source)
  BY SourceType DEF TypeOK
<1>2. /\ m_buffer \in Seq(Byte)
      /\ Len(m_buffer) = Len(input) - taken
      /\ \A k \in 1..Len(input) - taken : m_buffer[k] = input[taken + k]
  BY PartOfBytes DEF TypeOK, NoByteLost
<1> DEFINE part == SubSeq(Source, taken + 1, Len(input))
<1>3. /\ part \in Seq(Byte)
      /\ Len(part) = Len(input) - taken
      /\ \A k \in 1..Len(input) - taken : part[k] = Source[taken + k]
  BY <1>1, SourceType, PartOfBytes
<1> HIDE DEF part
<1>4. \A k \in 1..Len(m_buffer) : m_buffer[k] = part[k]
  <2> TAKE k \in 1..Len(m_buffer)
  <2>1. taken + k \in 1..Len(input)
    BY <1>2 DEF TypeOK
  <2> QED
    BY <2>1, <1>2, <1>3, SourceType
<1>5. m_buffer = part
  BY <1>2, <1>3, <1>4, SeqEqual
<1> QED
  BY <1>1, <1>2, <1>5 DEF part

\* So a start code in m_buffer is one of the stream, and the other way round
\* when all of it was read.
LEMMA StartCodeInBuffer ==
  ASSUME TypeOK, NoByteLost, NEW i \in Nat, NEW n \in {3, 4}
  PROVE  /\ StartCodeAt(m_buffer, i, n) => StartCodeAt(Source, taken + i, n)
         /\ StartCodeAt(Source, taken + i, n) /\ i + n <= Len(m_buffer)
              => StartCodeAt(m_buffer, i, n)
<1>1. StartCodeAt(m_buffer, i, n) => i + n <= Len(m_buffer)
  BY DEF StartCodeAt
<1>2. i + n <= Len(m_buffer) =>
        (StartCodeAt(m_buffer, i, n) <=> StartCodeAt(Source, taken + i, n))
  <2>1. /\ Source \in Seq(Byte)
        /\ taken \in 0..Len(Source)
        /\ Len(input) \in taken..Len(Source)
    BY BufferInSource, SourceType
  <2>2. ASSUME i + n <= Len(input) - taken
        PROVE  StartCodeAt(SubSeq(Source, taken + 1, Len(input)), i, n)
                 <=> StartCodeAt(Source, taken + i, n)
    BY <2>1, <2>2, StartCodeInPart
  <2> QED
    BY <2>2, BufferInSource
<1> QED
  BY <1>1, <1>2

\* A read moves bytes from the file to the input; the stream stays the same.
LEMMA ReadKeepsSource ==
  ASSUME TypeOK, ReadFromFile
  PROVE  /\ Source' = Source
         /\ Available < Chunk => Source' = input'
<1> DEFINE bytes == SubSeq(file, fpos + 1, fpos + Available)
           rest == SubSeq(file, fpos + Available + 1, Len(file))
           all == SubSeq(file, fpos + 1, Len(file))
<1>1. /\ bytes \in Seq(Byte)
      /\ file \in Seq(Byte)
      /\ Available \in 0..Len(file) - fpos
      /\ fpos \in 0..Len(file)
  BY AvailableFits DEF TypeOK
<1>2. rest \in Seq(Byte)
  BY <1>1, PartOfBytes, fpos + Available \in 0..Len(file), Len(file) \in fpos + Available..Len(file)
<1>3. all = bytes \o rest
  BY <1>1, SplitEnd
<1>4. /\ input' = input \o bytes
      /\ fpos' = fpos + Available
      /\ UNCHANGED <<file, isOpen, bad>>
  BY DEF ReadFromFile
<1>5. CASE isOpen /\ ~ bad
  <2>1. Source' = (input \o bytes) \o rest /\ Source = input \o all
    BY <1>4, <1>5 DEF Source
  <2>2. Source' = Source
    <3> HIDE DEF bytes, rest, all
    <3>1. input \in Seq(Byte) /\ bytes \in Seq(Byte) /\ rest \in Seq(Byte)
      BY <1>1, <1>2 DEF TypeOK
    <3>2. (input \o bytes) \o rest = input \o (bytes \o rest)
      BY <3>1, JoinAtEnd
    <3> QED
      BY <1>3, <2>1, <3>2
  <2>3. ASSUME Available < Chunk
        PROVE  Source' = input'
    <3>1. Available = Len(file) - fpos
      BY <1>1, <1>5, <2>3, ChunkAssumption DEF Available
    <3>2. rest = <<>>
      BY <1>1, <3>1
    <3> HIDE DEF bytes, rest, all
    <3>3. input \o bytes \in Seq(Byte)
      BY <1>1 DEF TypeOK
    <3> QED
      BY <1>4, <2>1, <3>2, <3>3, ConcatEmptySeq
  <2> QED
    BY <2>2, <2>3
<1>6. CASE ~ (isOpen /\ ~ bad)
  <2>1. Available = 0
    BY <1>6 DEF Available
  <2>2. bytes = <<>>
    BY <2>1, <1>1
  <2>3. input' = input
    BY <1>4, <2>2, ConcatEmptySeq DEF TypeOK
  <2>4. Source' = input' \o <<>> /\ Source = input \o <<>>
    BY <1>4, <1>6 DEF Source
  <2> QED
    BY <2>3, <2>4, ConcatEmptySeq DEF TypeOK
<1> QED
  BY <1>5, <1>6

-----------------------------------------------------------------------------
(* What a running call knows.                                              *)

LEMMA ReaderInvariantInit == Init => ReaderInvariant
<1>1. Init => CallInvariant
  BY DEF Init, CallInvariant
<1>2. Init => NaluInvariant
  BY DEF Init, NaluInvariant, EmptyNalu
<1> QED
  BY <1>1, <1>2, TypeInit, NoByteLostInit DEF ReaderInvariant

\* Between calls there is nothing to know.
LEMMA IdleCallInvariant ==
  ASSUME pc' \in {"idle", "read"}, ~ isReachEnd'
  PROVE  CallInvariant'
  BY DEF CallInvariant

\* Closing the file, a failed read and every step inside m_buffer leave no more
\* to come where there was nothing to come.
LEMMA HeadFoundCallInvariant ==
  ASSUME ReaderInvariant, NEW past \in OverRead, HeadFound(past)
  PROVE  CallInvariant'
<1>1. PICK n \in {3, 4} :
        /\ FindStartCode(m_buffer, 0, n, past)
        /\ nalu' = [nalu EXCEPT !.startCodeLen = n]
        /\ idx' = n
  BY DEF HeadFound
<1>2. /\ pc = "head" /\ pc' = "scan"
      /\ UNCHANGED <<file, isOpen, fpos, bad, m_buffer, isReachEnd, input>>
  BY DEF HeadFound
<1>3. nalu'.startCodeLen = n /\ m_buffer \in Seq(Byte)
  BY <1>1 DEF ReaderInvariant, TypeOK
<1>4. StartCodeAt(m_buffer, 0, n) \/ 1 \in OverRead
  BY <1>1, <1>3, FoundIsStartCode
<1>5. ASSUME NEW i \in 3 .. n - 1
      PROVE  ~ Boundary(m_buffer, i)
  <2>1. n = 4 /\ i = 3
    OBVIOUS
  <2>2. m_buffer[4] # 0 \/ Len(m_buffer) < 4
    BY <1>1, <1>3, <2>1, FoundBytes
  <2> QED
    BY <2>1, <2>2, StartCodeBytes DEF Boundary
<1>6. isReachEnd' => Source' = input'
  BY <1>2 DEF ReaderInvariant, CallInvariant, Source
<1> QED
  BY <1>1, <1>2, <1>3, <1>4, <1>5, <1>6 DEF CallInvariant

LEMMA ScanMissCallInvariant ==
  ASSUME ReaderInvariant, NEW past \in OverRead, ScanMiss(past)
  PROVE  CallInvariant'
<1>1. /\ pc = "scan" /\ pc' = "scan"
      /\ \A n \in {3, 4} : ~ FindStartCode(m_buffer, idx, n, past)
      /\ idx' = idx + 1
      /\ UNCHANGED <<file, isOpen, fpos, bad, m_buffer, nalu, isReachEnd, input>>
  BY DEF ScanMiss
<1>2. m_buffer \in Seq(Byte) /\ idx \in Nat
  BY DEF ReaderInvariant, TypeOK
<1>3. ~ Boundary(m_buffer, idx)
  BY <1>1, <1>2, FindsStartCode DEF Boundary
<1>4. \A i \in 3 .. idx - 1 : ~ Boundary(m_buffer, i)
  BY <1>1 DEF ReaderInvariant, CallInvariant
<1>5. \A i \in 3 .. idx' - 1 : ~ Boundary(m_buffer, i)
  <2>1. \A i \in 3 .. idx' - 1 : i = idx \/ i \in 3 .. idx - 1
    BY <1>1, <1>2
  <2> QED
    BY <1>3, <1>4, <2>1
<1>6. idx' >= nalu'.startCodeLen /\ nalu'.startCodeLen # 0
  BY <1>1, <1>2 DEF ReaderInvariant, CallInvariant, TypeOK
<1>7. isReachEnd' => Source' = input'
  BY <1>1 DEF ReaderInvariant, CallInvariant, Source
<1>8. StartCodeAt(m_buffer, 0, nalu.startCodeLen) \/ 1 \in OverRead
  BY <1>1 DEF ReaderInvariant, CallInvariant
<1> QED
  BY <1>1, <1>5, <1>6, <1>7, <1>8 DEF CallInvariant

LEMMA ReadCallInvariant ==
  ASSUME ReaderInvariant, ReadFromFile
  PROVE  CallInvariant'
<1>1. TypeOK
  BY DEF ReaderInvariant
<1>2. pc' = "head" /\ (isReachEnd' => Available = 0)
  BY DEF ReadFromFile
<1>3. Available \in Nat
  BY <1>1, AvailableFits
<1>4. Available < Chunk => Source' = input'
  BY <1>1, ReadKeepsSource
<1>5. Available >= Chunk => Len(m_buffer') >= 4
  <2> DEFINE bytes == SubSeq(file, fpos + 1, fpos + Available)
  <2>1. bytes \in Seq(Byte) /\ Len(bytes) = Available /\ m_buffer' = m_buffer \o bytes
    BY <1>1, AvailableFits DEF ReadFromFile
  <2> HIDE DEF bytes
  <2>2. Len(m_buffer') = Len(m_buffer) + Available
    BY <1>1, <2>1, ConcatProperties DEF TypeOK
  <2>3. Len(m_buffer) \in Nat
    BY <1>1 DEF TypeOK
  <2> QED
    BY <1>3, <2>2, <2>3, ChunkAssumption
<1> QED
  BY <1>2, <1>3, <1>4, <1>5, ChunkAssumption DEF CallInvariant

LEMMA CallInvariantStep ==
  ASSUME ReaderInvariant, [Next]_vars
  PROVE  CallInvariant'
<1>1. CASE UNCHANGED vars
  BY <1>1 DEF vars, ReaderInvariant, CallInvariant, Source
<1>2. CASE Caller
  BY <1>2, IdleCallInvariant
     DEF Caller, Open, Close, ClearNalu, CallReadNalu, ReaderInvariant, CallInvariant
<1>3. CASE ReadFromFile
  BY <1>3, ReadCallInvariant
<1>4. CASE ReadError
  <2>1. pc' = "head" /\ bad' /\ TypeOK
    BY <1>4 DEF ReadError, ReaderInvariant
  <2>2. Source' = input'
    BY <1>4, <2>1, ConcatEmptySeq DEF Source, ReadError, TypeOK
  <2> QED
    BY <2>1, <2>2 DEF CallInvariant
<1>5. ASSUME NEW past \in OverRead, HeadFound(past) \/ ScanMiss(past) PROVE CallInvariant'
  BY <1>5, HeadFoundCallInvariant, ScanMissCallInvariant
<1>6. ASSUME NEW past \in OverRead, HeadMissing(past) \/ ScanHit(past) PROVE CallInvariant'
  BY <1>6, IdleCallInvariant DEF HeadMissing, ScanHit, Extract, Return
<1>7. CASE ExtractRest
  BY <1>7, IdleCallInvariant DEF ExtractRest, Extract, Return
<1>8. CASE ReadMore
  BY <1>8, IdleCallInvariant DEF ReadMore
<1> QED
  BY <1>1, <1>2, <1>3, <1>4, <1>5, <1>6, <1>7, <1>8 DEF Next, ReadNalu

-----------------------------------------------------------------------------
(* The unit handed out.                                                    *)

\* No start code lies in the part of m_buffer that was scanned.
LEMMA ExtractNaluInvariant ==
  ASSUME ReaderInvariant, pc = "scan", NEW n \in 0..Len(m_buffer), n <= idx, Extract(n)
  PROVE  NaluInvariant'
<1>1. m_buffer \in Seq(Byte) /\ idx \in Nat
  BY DEF ReaderInvariant, TypeOK
<1>2. nalu'.buffer = SubSeq(m_buffer, 1, n) /\ nalu'.startCodeLen = nalu.startCodeLen
  BY DEF Extract, ReaderInvariant, TypeOK
<1>3. nalu.startCodeLen # 0
  BY DEF ReaderInvariant, CallInvariant
<1>4. Len(SubSeq(m_buffer, 1, n)) = n
  BY <1>1
<1>5. ASSUME NEW i \in 3 .. n - 1, NEW k \in {3, 4}, StartCodeAt(SubSeq(m_buffer, 1, n), i, k)
      PROVE  FALSE
  <2>1. i + k <= n - 0
    BY <1>4, <1>5 DEF StartCodeAt
  <2>2. StartCodeAt(m_buffer, 0 + i, k)
    BY <1>1, <1>5, <2>1, StartCodeInPart, 0 \in 0..Len(m_buffer), n \in 0..Len(m_buffer), 0 + 1 = 1
  <2>3. i \in 3 .. idx - 1 /\ 0 + i = i
    BY <1>1
  <2> QED
    BY <2>2, <2>3 DEF ReaderInvariant, CallInvariant, Boundary
<1> QED
  BY <1>2, <1>3, <1>4, <1>5 DEF NaluInvariant, Boundary

LEMMA NaluInvariantStep ==
  ASSUME ReaderInvariant, [Next]_vars
  PROVE  NaluInvariant'
<1>1. ASSUME UNCHANGED nalu PROVE NaluInvariant'
  BY <1>1 DEF ReaderInvariant, NaluInvariant
<1>2. CASE ClearNalu
  BY <1>2 DEF ClearNalu, EmptyNalu, NaluInvariant
<1>3. ASSUME NEW past \in OverRead, HeadFound(past) PROVE NaluInvariant'
  <2>1. nalu'.startCodeLen # 0 /\ nalu'.buffer = nalu.buffer
    BY <1>3 DEF HeadFound, ReaderInvariant, TypeOK
  <2> QED
    BY <2>1 DEF ReaderInvariant, NaluInvariant
<1>4. ASSUME NEW past \in OverRead, ScanHit(past) PROVE NaluInvariant'
  <2>1. idx \in 0..Len(m_buffer) /\ idx <= idx /\ pc = "scan" /\ Extract(idx)
    BY <1>4 DEF ScanHit, ReaderInvariant, TypeOK
  <2> QED
    BY <2>1, ExtractNaluInvariant
<1>5. CASE ExtractRest
  <2>1. Len(m_buffer) \in 0..Len(m_buffer) /\ Len(m_buffer) <= idx
    BY <1>5 DEF ExtractRest, ReaderInvariant, TypeOK
  <2>2. pc = "scan" /\ Extract(Len(m_buffer))
    BY <1>5 DEF ExtractRest
  <2> QED
    BY <2>1, <2>2, ExtractNaluInvariant
<1>6. ASSUME NEW past \in OverRead, HeadMissing(past) \/ ScanMiss(past)
      PROVE  UNCHANGED nalu
  BY <1>6 DEF HeadMissing, ScanMiss
<1>7. Open \/ Close \/ CallReadNalu \/ ReadFromFile \/ ReadError \/ ReadMore \/ UNCHANGED vars
        => UNCHANGED nalu
  BY DEF Open, Close, CallReadNalu, ReadFromFile, ReadError, ReadMore, vars
<1> QED
  BY <1>1, <1>2, <1>3, <1>4, <1>5, <1>6, <1>7 DEF Next, Caller, ReadNalu

-----------------------------------------------------------------------------
(* The theorems about states.                                              *)

\* A step of the reader keeps what a running call relies on.
LEMMA ReaderInvariantStep ==
  ASSUME ReaderInvariant, [Next]_vars
  PROVE  ReaderInvariant'
<1>1. TypeOK /\ NoByteLost
  BY DEF ReaderInvariant
<1>2. TypeOK' /\ NoByteLost'
  BY <1>1, TypeStep, NoByteLostStep
<1>3. CallInvariant' /\ NaluInvariant'
  BY CallInvariantStep, NaluInvariantStep
<1> QED
  BY <1>2, <1>3 DEF ReaderInvariant

\* Everything a running call relies on holds throughout: what the head test,
\* the scan and isReachEnd know of the stream, and what was handed out.
THEOREM InvariantHolds == Spec => []ReaderInvariant
  BY ReaderInvariantInit, ReaderInvariantStep, PTL DEF Spec

\* The variables of the reader keep their types.
THEOREM TypeCorrect == Spec => []TypeOK
<1>1. ReaderInvariant => TypeOK
  BY DEF ReaderInvariant
<1> QED
  BY <1>1, InvariantHolds, PTL

\* The bytes handed out and those in m_buffer are the bytes read, in order.
THEOREM BytesAreKept == Spec => []NoByteLost
<1>1. ReaderInvariant => NoByteLost
  BY DEF ReaderInvariant
<1> QED
  BY <1>1, InvariantHolds, PTL

\* No unit handed out holds the start code of another one, whatever lies behind
\* the end of m_buffer.
THEOREM UnitsHoldOneFrame == Spec => []OneFramePerNalu
<1>1. ReaderInvariant => OneFramePerNalu
  <2> SUFFICES ASSUME ReaderInvariant,
                      NEW i \in nalu.startCodeLen .. Len(nalu.buffer) - 1
               PROVE  ~ Boundary(nalu.buffer, i)
    BY DEF OneFramePerNalu
  <2>1. nalu.startCodeLen \in {0, 3, 4} /\ Len(nalu.buffer) \in Nat
    BY DEF ReaderInvariant, TypeOK
  <2>2. nalu.startCodeLen # 0
    BY <2>1 DEF ReaderInvariant, NaluInvariant
  <2>3. i \in 3 .. Len(nalu.buffer) - 1
    BY <2>1, <2>2
  <2> QED
    BY <2>3 DEF ReaderInvariant, NaluInvariant
<1> QED
  BY <1>1, InvariantHolds, PTL

-----------------------------------------------------------------------------
(* Failing.                                                                *)

\* When the head test fails there is no start code, in m_buffer or to come.
LEMMA NoFrameAtHead ==
  ASSUME ReaderInvariant, NEW past \in OverRead, HeadMissing(past)
  PROVE  /\ Source' = Source /\ taken' = taken
         /\ ~ Boundary(Source, taken)
<1>1. /\ pc = "head"
      /\ \A n \in {3, 4} : ~ FindStartCode(m_buffer, 0, n, past)
      /\ UNCHANGED <<file, isOpen, fpos, bad, m_buffer, input, taken>>
  BY DEF HeadMissing
<1>2. Source' = Source
  BY <1>1 DEF Source
<1>3. TypeOK /\ NoByteLost
  BY DEF ReaderInvariant
<1>4. ASSUME NEW n \in {3, 4}, StartCodeAt(Source, taken, n) PROVE FALSE
  <2>1. /\ Len(m_buffer) = Len(input) - taken
        /\ m_buffer \in Seq(Byte)
        /\ taken \in Nat /\ Len(input) \in Nat
        /\ taken + 0 = taken
    BY <1>3, BufferInSource DEF TypeOK
  <2>2. n <= Len(m_buffer)
    <3>1. CASE Len(m_buffer) >= 4
      BY <3>1, <2>1
    <3>2. CASE Source = input
      <4>1. taken + n <= Len(Source)
        BY <1>4 DEF StartCodeAt
      <4> QED
        BY <2>1, <3>2, <4>1
    <3> QED
      BY <1>1, <3>1, <3>2 DEF ReaderInvariant, CallInvariant
  <2>3. StartCodeAt(m_buffer, 0, n)
    BY <1>3, <1>4, <2>1, <2>2, StartCodeInBuffer
  <2> QED
    BY <1>1, <2>1, <2>3, FindsStartCode
<1> QED
  BY <1>1, <1>2, <1>4 DEF Boundary

\* readNalu returns false only where the stream has no start code, also when
\* the little it had in m_buffer came from a short read.
THEOREM FailuresAreRight == Spec => FailsOnlyWithoutFrame
<1> DEFINE Right ==
      pc # "idle" /\ pc' = "idle" /\ result' = "false" => ~ Boundary(Source', taken')
<1>1. ReaderInvariant /\ [Next]_vars => [Right]_vars
  <2> SUFFICES ASSUME ReaderInvariant, Next, pc # "idle", pc' = "idle", result' = "false"
               PROVE  ~ Boundary(Source', taken')
    OBVIOUS
  <2>1. ASSUME NEW past \in OverRead, HeadMissing(past)
        PROVE  ~ Boundary(Source', taken')
    BY <2>1, NoFrameAtHead
  <2>2. PICK past \in OverRead : HeadMissing(past)
    BY DEF Next, Caller, Open, Close, ClearNalu, CallReadNalu, ReadNalu, ReadFromFile,
           ReadError, HeadFound, ScanHit, ScanMiss, ExtractRest, ReadMore, Extract, Return
  <2> QED
    BY <2>1, <2>2
<1> QED
  BY <1>1, InvariantHolds, PTL DEF Spec, FailsOnlyWithoutFrame

-----------------------------------------------------------------------------
(* The reader implements the source of frames.                             *)

\* Opening the file puts its content behind the stream.
LEMMA OpenFeeds ==
  ASSUME TypeOK, Open
  PROVE  AbstractSource!Feed
<1>1. Source = input
  BY SourceType DEF Open
<1>2. Source' = input \o SubSeq(file, 1, Len(file))
  BY DEF Open, Source
<1>3. SubSeq(file, 1, Len(file)) = file /\ file \in Seq(Byte)
  BY AvailableFits
<1>4. /\ SubSeq(input \o file, 1, Len(input)) = SubSeq(input, 1, Len(input))
      /\ SubSeq(input \o file, Len(input) + 1, Len(input \o file)) = file
  BY <1>3 DEF TypeOK
<1>5. file \in Files /\ Len(input) \in taken..Len(Source)
  BY <1>1 DEF TypeOK
<1>6. UNCHANGED <<taken, nalu, result>>
  BY DEF Open
<1> QED
  BY <1>1, <1>2, <1>3, <1>4, <1>5, <1>6 DEF AbstractSource!Feed

\* Closing it, or failing to read it, loses what was not read.
LEMMA LossFeeds ==
  ASSUME TypeOK, UNCHANGED <<input, taken, nalu, result>>, Source' = input
  PROVE  AbstractSource!Feed
<1>1. Len(input) \in taken..Len(Source)
  BY SourceType DEF TypeOK
<1>2. SubSeq(input, 1, Len(input)) = SubSeq(Source, 1, Len(input))
  <2>1. /\ Source \in Seq(Byte)
        /\ Len(input) \in Nat
        /\ Len(input) <= Len(Source)
        /\ \A k \in 1..Len(input) : Source[k] = input[k]
    BY SourceType DEF TypeOK
  <2>2. SubSeq(Source, 1, Len(input)) = SubSeq(input, 1, Len(input))
    BY <2>1 DEF TypeOK
  <2> QED
    BY <2>2
<1> QED
  BY <1>1, <1>2 DEF AbstractSource!Feed

\* Cutting m_buffer at the next start code of the stream, of which three bytes are
\* there, or where the stream ends, takes the next frame.
LEMMA ExtractTakesFrame ==
  ASSUME ReaderInvariant, pc = "scan", StartCodeAt(m_buffer, 0, nalu.startCodeLen),
         NEW e \in 0..Len(m_buffer), e <= idx, e >= nalu.startCodeLen, Extract(e),
         \/ Boundary(Source, taken + e) /\ e + 3 <= Len(m_buffer)
         \/ Source = input /\ e = Len(m_buffer)
  PROVE  /\ Frame(Source, taken, nalu.startCodeLen, taken + e)
         /\ nalu'.buffer = SubSeq(Source, taken + 1, taken + e)
         /\ nalu'.startCodeLen = nalu.startCodeLen /\ nalu.startCodeLen \in {3, 4}
         /\ Source' = Source /\ taken' = taken + e /\ result' = "true"
         /\ taken + e \in taken..Len(Source)
<1> DEFINE n == nalu.startCodeLen
<1>1. /\ TypeOK /\ NoByteLost
      /\ n \in {3, 4}
      /\ StartCodeAt(m_buffer, 0, n)
  BY DEF ReaderInvariant, TypeOK, CallInvariant
<1>2. /\ m_buffer = SubSeq(Source, taken + 1, Len(input))
      /\ m_buffer \in Seq(Byte)
      /\ Source \in Seq(Byte)
      /\ Len(m_buffer) = Len(input) - taken
      /\ taken \in 0..Len(Source)
      /\ Len(input) \in taken..Len(Source)
  BY <1>1, BufferInSource, SourceType DEF TypeOK
<1>3. /\ Source' = Source
      /\ taken' = taken + e
      /\ result' = "true"
      /\ nalu'.buffer = SubSeq(m_buffer, 1, e)
      /\ nalu'.startCodeLen = n
  BY <1>1 DEF Extract, Return, Source, TypeOK
<1>4. nalu'.buffer = SubSeq(Source, taken + 1, taken + e)
  BY <1>2, <1>3
<1>5. StartCodeAt(Source, taken, n)
  <2>1. StartCodeAt(Source, taken + 0, n)
    BY <1>1, StartCodeInBuffer
  <2> QED
    BY <1>2, <2>1
<1>6. taken + e \in taken + n .. Len(Source)
  BY <1>1, <1>2
<1>7. taken + e = Len(Source) \/ Boundary(Source, taken + e)
  BY <1>2
<1>8. ASSUME NEW i \in taken + n .. (taken + e) - 1, NEW k \in {3, 4}, StartCodeAt(Source, i, k)
      PROVE  FALSE
  <2>1. i - taken \in Nat /\ taken + (i - taken) = i /\ i - taken \in 3 .. idx - 1
    BY <1>1, <1>2 DEF TypeOK
  <2>2. (i - taken) + k <= Len(m_buffer)
    <3>1. CASE e + 3 <= Len(m_buffer)
      BY <1>2, <3>1
    <3>2. CASE Source = input /\ e = Len(m_buffer)
      <4>1. i + k <= Len(Source)
        BY <1>8 DEF StartCodeAt
      <4> QED
        BY <1>2, <3>2, <4>1
    <3> QED
      BY <3>1, <3>2
  <2>3. StartCodeAt(m_buffer, i - taken, k)
    BY <1>1, <1>8, <2>1, <2>2, StartCodeInBuffer
  <2> QED
    BY <2>1, <2>3 DEF ReaderInvariant, CallInvariant, Boundary
<1>9. Frame(Source, taken, n, taken + e)
  <2>1. \A i \in taken + n .. (taken + e) - 1 : ~ Boundary(Source, i)
    BY <1>8 DEF Boundary
  <2> QED
    BY <1>5, <1>6, <1>7, <2>1 DEF Frame
<1>10. taken + e \in taken..Len(Source)
  BY <1>1, <1>2, <1>6
<1> QED
  BY <1>1, <1>3, <1>4, <1>9, <1>10

\* So, with start codes in m_buffer only, it hands out the next frame.
LEMMA ExtractDelivers ==
  ASSUME ReaderInvariant, 1 \notin OverRead, pc = "scan",
         NEW e \in 0..Len(m_buffer), e <= idx, e >= nalu.startCodeLen, Extract(e),
         Boundary(m_buffer, e) \/ (Source = input /\ e = Len(m_buffer))
  PROVE  AbstractSource!Deliver
<1>1. TypeOK /\ NoByteLost /\ StartCodeAt(m_buffer, 0, nalu.startCodeLen)
  BY DEF ReaderInvariant, CallInvariant
<1>2. Boundary(m_buffer, e) => Boundary(Source, taken + e) /\ e + 3 <= Len(m_buffer)
  <2> SUFFICES ASSUME NEW n \in {3, 4}, StartCodeAt(m_buffer, e, n)
               PROVE  Boundary(Source, taken + e) /\ e + 3 <= Len(m_buffer)
    BY DEF Boundary
  <2>1. m_buffer \in Seq(Byte) /\ e + n <= Len(m_buffer)
    BY <1>1 DEF StartCodeAt, TypeOK
  <2> QED
    BY <1>1, <2>1, StartCodeInBuffer DEF Boundary
<1>3. PICK n \in {3, 4}, to \in taken..Len(Source) :
        /\ Frame(Source, taken, n, to)
        /\ nalu'.buffer = SubSeq(Source, taken + 1, to)
        /\ Source' = Source /\ taken' = to /\ result' = "true"
  BY <1>1, <1>2, ExtractTakesFrame
<1> QED
  BY <1>3
     DEF AbstractSource!Deliver, AbstractSource!Frame, Frame, AbstractSource!Boundary, Boundary,
         AbstractSource!StartCodeAt, StartCodeAt

\* Every step of the reader is a step of the source, or changes nothing of it.
LEMMA StepsRefine ==
  ASSUME ReaderInvariant, 1 \notin OverRead, [Next]_vars
  PROVE  [AbstractSource!Next]_(AbstractSource!vars)
<1> USE DEF AbstractSource!Next
<1>1. TypeOK /\ NoByteLost
  BY DEF ReaderInvariant
<1>2. ASSUME Source' = Source, UNCHANGED <<taken, nalu, result>>
      PROVE  UNCHANGED AbstractSource!vars
  BY <1>2 DEF AbstractSource!vars
<1>3. CASE UNCHANGED vars
  BY <1>2, <1>3 DEF vars, Source
<1>4. CASE Open
  BY <1>1, <1>4, OpenFeeds
<1>5. CASE Close
  <2>1. Source' = input
    BY <1>1, <1>5, ConcatEmptySeq DEF Close, Source, TypeOK
  <2> QED
    BY <1>1, <1>5, <2>1, LossFeeds DEF Close
<1>6. CASE ClearNalu
  BY <1>6 DEF ClearNalu, EmptyNalu, Source, AbstractSource!Discard
<1>7. CASE CallReadNalu
  BY <1>2, <1>7 DEF CallReadNalu, Source
<1>8. CASE ReadFromFile
  BY <1>1, <1>2, <1>8, ReadKeepsSource DEF ReadFromFile
<1>9. CASE ReadError
  <2>1. Source' = input
    BY <1>1, <1>9, ConcatEmptySeq DEF ReadError, Source, TypeOK
  <2> QED
    BY <1>1, <1>9, <2>1, LossFeeds DEF ReadError
<1>10. ASSUME NEW past \in OverRead, HeadFound(past) PROVE UNCHANGED AbstractSource!vars
  <2>1. nalu'.buffer = nalu.buffer
    BY <1>1, <1>10 DEF HeadFound, TypeOK
  <2> QED
    BY <1>10, <2>1 DEF HeadFound, Source, AbstractSource!vars
<1>11. ASSUME NEW past \in OverRead, HeadMissing(past) PROVE AbstractSource!NoFrame
  BY <1>11, NoFrameAtHead
     DEF HeadMissing, Return, AbstractSource!NoFrame, AbstractSource!Boundary, Boundary,
         AbstractSource!StartCodeAt, StartCodeAt
<1>12. ASSUME NEW past \in OverRead, ScanHit(past) PROVE AbstractSource!Deliver
  <2>1. /\ pc = "scan" /\ Extract(idx)
        /\ idx \in 0..Len(m_buffer) /\ idx <= idx
        /\ idx >= nalu.startCodeLen
        /\ m_buffer \in Seq(Byte)
    BY <1>1, <1>12 DEF ScanHit, ReaderInvariant, CallInvariant, TypeOK
  <2>2. PICK n \in {3, 4} : FindStartCode(m_buffer, idx, n, past)
    BY <1>12 DEF ScanHit
  <2>3. past # 1
    OBVIOUS
  <2>4. StartCodeAt(m_buffer, idx, n)
    BY <1>1, <2>1, <2>2, <2>3, FoundIsStartCode DEF TypeOK
  <2> QED
    BY <2>1, <2>4, ExtractDelivers DEF Boundary
<1>13. ASSUME NEW past \in OverRead, ScanMiss(past) PROVE UNCHANGED AbstractSource!vars
  BY <1>2, <1>13 DEF ScanMiss, Source
<1>14. CASE ExtractRest
  <2>1. /\ pc = "scan" /\ isReachEnd /\ Extract(Len(m_buffer))
        /\ Len(m_buffer) <= idx
        /\ Len(m_buffer) \in 0..Len(m_buffer)
    BY <1>1, <1>14 DEF ExtractRest, TypeOK
  <2>2. Source = input
    BY <2>1 DEF ReaderInvariant, CallInvariant
  <2>3. Len(m_buffer) >= nalu.startCodeLen
    BY <1>1, <2>1 DEF ReaderInvariant, CallInvariant, StartCodeAt, TypeOK
  <2> QED
    BY <2>1, <2>2, <2>3, ExtractDelivers
<1>15. CASE ReadMore
  BY <1>2, <1>15 DEF ReadMore, Source
<1> QED
  BY <1>3, <1>4, <1>5, <1>6, <1>7, <1>8, <1>9, <1>10, <1>11, <1>12, <1>13, <1>14, <1>15
     DEF Next, Caller, ReadNalu

\* Fetching the file in chunks, scanning m_buffer and scanning it again after
\* each chunk is invisible: provided that the byte past the end of m_buffer is
\* never a one, the reader hands out the frames of the stream one by one.
THEOREM ReaderImplementsSource ==
  ASSUME 1 \notin OverRead
  PROVE  Spec => ImplementsNaluSource
<1>1. Init => AbstractSource!Init
  BY DEF Init, AbstractSource!Init, EmptyNalu, Source
<1>2. ReaderInvariant /\ [Next]_vars => [AbstractSource!Next]_(AbstractSource!vars)
  BY StepsRefine
<1> QED
  BY <1>1, <1>2, InvariantHolds, PTL DEF Spec, ImplementsNaluSource, AbstractSource!Spec

-----------------------------------------------------------------------------
(* What getRbsp keeps.                                                     *)

\* The offsets kept are finitely many, and one more offset is added unless an
\* emulation prevention byte is there.
LEMMA KeptGrows ==
  ASSUME NEW e, NEW end \in Nat, end >= 3
  PROVE  /\ Kept(e, end) \in SUBSET Nat /\ IsFiniteSet(Kept(e, end))
         /\ \A i \in Kept(e, end) : i \in 3..end - 1
         /\ IsEmulationByte(e, end) => Kept(e, end + 1) = Kept(e, end)
         /\ ~ IsEmulationByte(e, end) => Kept(e, end + 1) = Kept(e, end) \cup {end}
<1>1. IsFiniteSet(3..end - 1)
  BY FS_Interval
<1>2. Kept(e, end) \subseteq 3..end - 1
  BY DEF Kept
<1>3. (end + 1) - 1 = end /\ 3..end = (3..end - 1) \cup {end} /\ end \notin 3..end - 1
  OBVIOUS
<1>4. Kept(e, end + 1) = {i \in 3..end : ~ IsEmulationByte(e, i)}
  BY <1>3 DEF Kept
<1>5. IsEmulationByte(e, end) => Kept(e, end + 1) = Kept(e, end)
  BY ONLY <1>3, <1>4 DEF Kept
<1>6. ~ IsEmulationByte(e, end) => Kept(e, end + 1) = Kept(e, end) \cup {end}
  BY ONLY <1>3, <1>4 DEF Kept
<1>7. IsFiniteSet(Kept(e, end))
  BY <1>1, <1>2, FS_Subset
<1> QED BY <1>2, <1>5, <1>6, <1>7

\* The k-th offset is one of those kept.
LEMMA NthIsKept ==
  ASSUME NEW e, NEW end \in Nat, end >= 3, NEW k \in 1..Cardinality(Kept(e, end))
  PROVE  Nth(Kept(e, end), k) \in Kept(e, end)
<1>1. /\ Kept(e, end) \in SUBSET Nat /\ IsFiniteSet(Kept(e, end))
      /\ \A i \in Kept(e, end) : i \in 3..end - 1
  BY KeptGrows
<1> DEFINE K == Kept(e, end)
           nth == {i \in K : Cardinality({j \in K : j <= i}) = k}
<1>2. \E i \in K : Cardinality({j \in K : j <= i}) = k
  <2>1. K \in SUBSET Nat /\ IsFiniteSet(K) /\ \A i \in K : i <= end
    BY <1>1
  <2>2. k \in 1..Cardinality(K)
    OBVIOUS
  <2> HIDE DEF K
  <2> QED BY ONLY <2>1, <2>2, end \in Nat, RankExists
<1>3. The(nth) \in nth
  <2>1. nth # {}
    BY <1>2
  <2> HIDE DEF nth
  <2> QED BY <2>1 DEF The
<1> QED BY <1>3 DEF Nth

\* m is the last element of T, and S the others, in their places.
HasLast(S, T, m) ==
  /\ Cardinality(S) \in Nat /\ Cardinality(T) = Cardinality(S) + 1
  /\ Nth(T, Cardinality(S) + 1) = m
  /\ \A k \in 1..Cardinality(S) : Nth(T, k) = Nth(S, k)

\* One more offset, above the others, is the last of them.
LEMMA NthOfMore ==
  ASSUME NEW S \in SUBSET Nat, IsFiniteSet(S), NEW m \in Nat,
         \A i \in S : i < m,
         NEW T, T = S \cup {m}
  PROVE  HasLast(S, T, m)
<1> DEFINE c == Cardinality(S)
           nth(N, k) == {i \in N : Cardinality({j \in N : j <= i}) = k}
<1>1. /\ Cardinality(T) = c + 1 /\ nth(T, c + 1) = {m}
      /\ \A k \in 1..c : nth(T, k) = nth(S, k)
  BY RankOfMore
<1>0. c \in Nat
  BY FS_CardinalityType
<1>2. \A N, k : Nth(N, k) = The(nth(N, k))
  BY DEF Nth
<1>3. The({m}) = m
  BY DEF The
<1> HIDE DEF nth, c
<1>4. Nth(T, c + 1) = m /\ \A k \in 1..c : Nth(T, k) = Nth(S, k)
  BY <1>1, <1>2, <1>3
<1> QED BY <1>0, <1>1, <1>4 DEF HasLast, c

\* The bytes kept when the loop goes on by one offset.
LEMMA KeptBytesGrow ==
  ASSUME NEW S, NEW e \in Seq(S), NEW end \in 3..Len(e)
  PROVE  /\ KeptBytes(e, end) \in Seq(S)
         /\ end < Len(e) =>
              KeptBytes(e, end + 1) = IF IsEmulationByte(e, end) THEN KeptBytes(e, end)
                                      ELSE Append(KeptBytes(e, end), e[end + 1])
<1> DEFINE K(m) == Kept(e, m)
           c(m) == Cardinality(K(m))
           bytes(m) == KeptBytes(e, m)
<1>1. ASSUME NEW m \in 3..Len(e)
      PROVE  /\ c(m) \in Nat /\ bytes(m) \in Seq(S) /\ Len(bytes(m)) = c(m)
             /\ \A k \in 1..c(m) : bytes(m)[k] = e[Nth(K(m), k) + 1]
  <2>1. /\ K(m) \in SUBSET Nat /\ IsFiniteSet(K(m)) /\ \A i \in K(m) : i \in 3..m - 1
        /\ \A k \in 1..c(m) : Nth(K(m), k) \in K(m)
    BY KeptGrows, NthIsKept
  <2>2. c(m) \in Nat
    BY <2>1, FS_CardinalityType
  <2>3. bytes(m) = [k \in 1..c(m) |-> e[Nth(K(m), k) + 1]]
    BY DEF KeptBytes
  <2> HIDE DEF K, c, bytes
  <2>4. \A i \in K(m) : i + 1 \in 1..Len(e)
    BY <2>1
  <2>5. \A k \in 1..c(m) : e[Nth(K(m), k) + 1] \in S
    BY <2>1, <2>4
  <2> QED BY <2>2, <2>3, <2>5
<1>2. ASSUME end < Len(e), IsEmulationByte(e, end) PROVE bytes(end + 1) = bytes(end)
  <2>1. Kept(e, end + 1) = Kept(e, end)
    BY <1>2, KeptGrows
  <2> QED BY <2>1 DEF KeptBytes
<1>3. ASSUME end < Len(e), ~ IsEmulationByte(e, end)
      PROVE  bytes(end + 1) = Append(bytes(end), e[end + 1])
  <2>1. /\ K(end) \in SUBSET Nat /\ IsFiniteSet(K(end)) /\ \A i \in K(end) : i < end
        /\ K(end + 1) = K(end) \cup {end}
    <3>1. \A i \in K(end) : i \in 3..end - 1
      BY KeptGrows
    <3>2. K(end) \in SUBSET Nat /\ IsFiniteSet(K(end)) /\ K(end + 1) = K(end) \cup {end}
      BY <1>3, KeptGrows
    <3> HIDE DEF K
    <3> QED BY <3>1, <3>2
  <2>2. /\ c(end) \in Nat /\ c(end + 1) = c(end) + 1
        /\ Nth(K(end + 1), c(end) + 1) = end
        /\ \A k \in 1..c(end) : Nth(K(end + 1), k) = Nth(K(end), k)
    <3> HIDE DEF K
    <3>1. HasLast(K(end), K(end + 1), end)
      BY ONLY <2>1, end \in Nat, NthOfMore
    <3> QED BY <3>1 DEF HasLast
  <2>5. end + 1 \in 3..Len(e) /\ end + 1 \in 1..Len(e)
    BY <1>3
  <2>6. /\ bytes(end + 1) \in Seq(S) /\ Len(bytes(end + 1)) = c(end + 1)
        /\ \A k \in 1..c(end + 1) : bytes(end + 1)[k] = e[Nth(K(end + 1), k) + 1]
    BY <1>1, <2>5
  <2>7. /\ bytes(end) \in Seq(S) /\ Len(bytes(end)) = c(end)
        /\ \A k \in 1..c(end) : bytes(end)[k] = e[Nth(K(end), k) + 1]
    BY <1>1
  <2> HIDE DEF K, c, bytes
  <2> DEFINE more == Append(bytes(end), e[end + 1])
  <2>8. e[end + 1] \in S
    BY <2>5
  <2>9. /\ more \in Seq(S) /\ Len(more) = c(end) + 1 /\ more[c(end) + 1] = e[end + 1]
        /\ \A k \in 1..c(end) : more[k] = bytes(end)[k]
    BY <2>7, <2>8, AppendProperties
  <2>10. ASSUME NEW k \in 1..c(end) + 1 PROVE bytes(end + 1)[k] = more[k]
    <3> HIDE DEF more
    <3>1. CASE k = c(end) + 1
      BY <2>2, <2>6, <2>9, <3>1
    <3>2. CASE k \in 1..c(end)
      BY <2>2, <2>6, <2>7, <2>9, <3>2
    <3> QED BY <2>2, <3>1, <3>2
  <2> HIDE DEF more
  <2>11. bytes(end + 1) = more
    BY <2>2, <2>6, <2>9, <2>10, SeqEqual
  <2> QED BY <2>11 DEF more
<1> QED BY <1>1, <1>2, <1>3

\* What sequences of known lengths are when put together, and one with one more.
Joined(ab, a, b, m, n) ==
  /\ ab \in Seq(Nat) /\ Len(ab) = m + n
  /\ \A i \in 1..m : ab[i] = a[i]
  /\ \A i \in 1..n : ab[m + i] = b[i]

LEMMA ConcatJoins ==
  ASSUME NEW a \in Seq(Nat), NEW b \in Seq(Nat), NEW m \in Nat, NEW n \in Nat,
         Len(a) = m, Len(b) = n
  PROVE  Joined(a \o b, a, b, m, n)
<1>1. /\ a \o b \in Seq(Nat) /\ Len(a \o b) = m + n
      /\ \A i \in 1..m + n : (a \o b)[i] = IF i <= m THEN a[i] ELSE b[i - m]
  BY ConcatProperties
<1>2. \A i \in 1..m : i \in 1..m + n /\ i <= m
  OBVIOUS
<1>3. \A i \in 1..n : m + i \in 1..m + n /\ ~ (m + i <= m) /\ (m + i) - m = i
  OBVIOUS
<1> QED BY ONLY <1>1, <1>2, <1>3 DEF Joined

Lengthened(ab, a, b, m) ==
  /\ ab \in Seq(Nat) /\ Len(ab) = m + 1 /\ ab[m + 1] = b
  /\ \A i \in 1..m : ab[i] = a[i]

LEMMA AppendLengthens ==
  ASSUME NEW a \in Seq(Nat), NEW b \in Nat, NEW m \in Nat, Len(a) = m
  PROVE  Lengthened(Append(a, b), a, b, m)
BY AppendProperties DEF Lengthened

-----------------------------------------------------------------------------
(* The encoder.                                                            *)

\* What the encoder writes is bytes.
LEMMA EmitType ==
  ASSUME NEW out \in Seq(Nat), NEW b \in Nat
  PROVE  Emit(out, b) \in Seq(Nat)
<1>1. <<3, b>> \in Seq(Nat)
  OBVIOUS
<1>2. out \o <<3, b>> \in Seq(Nat)
  BY <1>1, ConcatProperties
<1>3. Append(out, b) \in Seq(Nat)
  BY AppendProperties
<1> QED BY <1>2, <1>3 DEF Emit

\* h[n] is what the encoder has written after n bytes of s.
Writes(h, s) ==
  /\ h \in [0..Len(s) -> Seq(Nat)] /\ h[0] = <<>>
  /\ \A n \in 1..Len(s) : h[n] = Emit(h[n - 1], s[n])

\* The encoder writes byte after byte.
LEMMA EscapeWrites ==
  ASSUME NEW s \in Seq(Nat)
  PROVE  \E h : Writes(h, s) /\ Escape(s) = h[Len(s)]
<1> DEFINE
      L == Len(s)
      next == [y \in Seq(Nat) \X (1..L) |-> Emit(y[1], s[y[2]])]
      Steps(h) == h = [n \in 0..L |-> IF n = 0 THEN <<>> ELSE Emit(h[n - 1], s[n])]
      out == CHOOSE h : Steps(h)
<1>1. L \in Nat /\ \A n \in 1..L : s[n] \in Nat
  OBVIOUS
<1>2. \E g : Steps(g)
  <2>1. next \in [Seq(Nat) \X (1..L) -> Seq(Nat)]
    <3> SUFFICES ASSUME NEW y \in Seq(Nat) \X (1..L) PROVE next[y] \in Seq(Nat)
      OBVIOUS
    <3>1. y[1] \in Seq(Nat) /\ y[2] \in 1..L
      OBVIOUS
    <3>2. Emit(y[1], s[y[2]]) \in Seq(Nat)
      <4> HIDE DEF L
      <4> QED BY <1>1, <3>1, EmitType
    <3> QED BY <3>2
  <2>2. PICK g : Iterates(g, Seq(Nat), <<>>, L, next)
    <3>1. <<>> \in Seq(Nat)
      OBVIOUS
    <3> HIDE DEF L, next
    <3> QED BY <1>1, <2>1, <3>1, IterationExists
  <2>3. ASSUME NEW n \in 1..L
        PROVE  next[<<g[n - 1], n>>] = Emit(g[n - 1], s[n])
    <3> HIDE DEF L
    <3>1. n - 1 \in 0..L /\ g[n - 1] \in Seq(Nat)
      BY <1>1, <2>2 DEF Iterates
    <3>2. <<g[n - 1], n>> \in Seq(Nat) \X (1..L)
      BY <3>1
    <3> QED BY <3>2
  <2>4. /\ g = [n \in 0..L |-> g[n]] /\ g[0] = <<>>
        /\ \A n \in 1..L : g[n] = next[<<g[n - 1], n>>]
    <3> HIDE DEF L, next
    <3> QED BY <2>2 DEF Iterates
  <2>5. Steps(g)
    <3> HIDE DEF L, next
    <3>1. \A n \in 0..L : n = 0 \/ n \in 1..L
      BY <1>1
    <3>2. \A n \in 0..L : g[n] = IF n = 0 THEN <<>> ELSE Emit(g[n - 1], s[n])
      BY <2>3, <2>4, <3>1
    <3> QED BY <2>4, <3>2
  <2> QED BY <2>5
<1>3. Steps(out)
  <2> HIDE DEF Steps
  <2> QED BY <1>2
<1>4. /\ out[0] = <<>>
      /\ \A n \in 1..L : out[n] = Emit(out[n - 1], s[n])
  <2> HIDE DEF out, L
  <2> QED BY <1>1, <1>3
<1>5. out \in [0..L -> Seq(Nat)]
  <2> DEFINE S == {n \in Nat : n <= L => out[n] \in Seq(Nat)}
  <2> HIDE DEF out, L
  <2>1. 0 \in S
    <3>1. out[0] \in Seq(Nat)
      BY <1>4
    <3> QED BY <3>1
  <2>2. \A n \in Nat : n \in S => n + 1 \in S
    <3> SUFFICES ASSUME NEW n \in Nat, n \in S, n + 1 <= L PROVE out[n + 1] \in Seq(Nat)
      OBVIOUS
    <3>1. n + 1 \in 1..L /\ (n + 1) - 1 = n /\ out[n] \in Seq(Nat)
      BY <1>1
    <3> QED BY <1>1, <1>4, <3>1, EmitType
  <2>3. Nat \subseteq S
    <3> HIDE DEF S
    <3> QED BY <2>1, <2>2, InductionOnSet
  <2>4. \A n \in 0..L : out[n] \in Seq(Nat)
    BY <1>1, <2>3
  <2>5. out = [n \in 0..L |-> out[n]]
    BY <1>3
  <2> QED BY <2>4, <2>5
<1>6. Escape(s) = out[L]
  BY DEF Escape
<1> HIDE DEF out
<1> QED BY <1>4, <1>5, <1>6 DEF Writes

\* more is out and behind it a 03, if b has to be protected, and b.
Adds(out, more, b) ==
  /\ out \in Seq(Nat) /\ more \in Seq(Nat) /\ Len(out) \in Nat /\ Len(more) \in Nat
  /\ \A i \in 1..Len(out) : more[i] = out[i]
  /\ \/ /\ b <= 3 /\ Len(out) >= 2 /\ out[Len(out) - 1] = 0 /\ out[Len(out)] = 0
        /\ Len(more) = Len(out) + 2 /\ more[Len(out) + 1] = 3 /\ more[Len(out) + 2] = b
     \/ /\ ~ (b <= 3 /\ Len(out) >= 2 /\ out[Len(out) - 1] = 0 /\ out[Len(out)] = 0)
        /\ Len(more) = Len(out) + 1 /\ more[Len(out) + 1] = b

LEMMA EmitAdds ==
  ASSUME NEW out \in Seq(Nat), NEW b \in Nat
  PROVE  Adds(out, Emit(out, b), b)
<1>1. PICK l \in Nat, more \in Seq(Nat) : l = Len(out) /\ more = Emit(out, b)
  BY EmitType
<1>2. CASE b <= 3 /\ l >= 2 /\ out[l - 1] = 0 /\ out[l] = 0
  <2>1. PICK two \in Seq(Nat) : two = <<3, b>> /\ Len(two) = 2 /\ two[1] = 3 /\ two[2] = b
    <3>1. <<3, b>> \in Seq(Nat)
      OBVIOUS
    <3> QED BY <3>1
  <2>2. more = out \o two
    BY <1>1, <1>2, <2>1 DEF Emit
  <2>3. /\ more \in Seq(Nat) /\ Len(more) = l + 2
        /\ \A i \in 1..l + 2 : more[i] = IF i <= l THEN out[i] ELSE two[i - l]
    <3>1. \A u, v \in Seq(Nat) :
            /\ u \o v \in Seq(Nat) /\ Len(u \o v) = Len(u) + Len(v)
            /\ \A i \in 1..Len(u) + Len(v) :
                 (u \o v)[i] = IF i <= Len(u) THEN u[i] ELSE v[i - Len(u)]
      BY ConcatProperties
    <3> QED BY ONLY out \in Seq(Nat), <1>1, <2>1, <2>2, <3>1
  <2>4. more[l + 1] = 3 /\ more[l + 2] = b /\ \A i \in 1..l : more[i] = out[i]
    <3>1. /\ l + 1 \in 1..l + 2 /\ l + 2 \in 1..l + 2 /\ (l + 1) - l = 1 /\ (l + 2) - l = 2
          /\ ~ (l + 1 <= l) /\ ~ (l + 2 <= l) /\ \A i \in 1..l : i \in 1..l + 2 /\ i <= l
      OBVIOUS
    <3> QED BY <2>1, <2>3, <3>1
  <2> QED BY ONLY <1>1, <1>2, <2>3, <2>4, out \in Seq(Nat), l \in Nat DEF Adds
<1>3. CASE ~ (b <= 3 /\ l >= 2 /\ out[l - 1] = 0 /\ out[l] = 0)
  <2>1. more = Append(out, b)
    BY <1>1, <1>3 DEF Emit
  <2>2. /\ more \in Seq(Nat) /\ Len(more) = l + 1 /\ more[l + 1] = b
        /\ \A i \in 1..l : more[i] = out[i]
    BY <1>1, <2>1, AppendProperties
  <2> QED BY ONLY <1>1, <1>3, <2>2, out \in Seq(Nat), l \in Nat DEF Adds
<1> QED BY <1>2, <1>3

\* Two zeros are followed by no byte that would read like the end of a start
\* code, or like a byte that was put there to prevent that.
Clean(u) == \A i \in 1..Len(u) - 2 : u[i] = 0 /\ u[i + 1] = 0 => u[i + 2] >= 3

LEMMA AddsClean ==
  ASSUME NEW out, NEW more, NEW b \in Nat, Adds(out, more, b), Clean(out)
  PROVE  Clean(more)
<1>1. PICK l \in Nat, m \in Nat : l = Len(out) /\ m = Len(more)
  BY DEF Adds
<1>2. \A i \in 1..l - 2 : out[i] = 0 /\ out[i + 1] = 0 => out[i + 2] >= 3
  BY <1>1 DEF Clean
<1>3. /\ \A i \in 1..l : more[i] = out[i]
      /\ \/ /\ b <= 3 /\ l >= 2 /\ out[l - 1] = 0 /\ out[l] = 0
            /\ m = l + 2 /\ more[l + 1] = 3 /\ more[l + 2] = b
         \/ /\ ~ (b <= 3 /\ l >= 2 /\ out[l - 1] = 0 /\ out[l] = 0)
            /\ m = l + 1 /\ more[l + 1] = b
  BY <1>1 DEF Adds
<1>4. ASSUME NEW i \in 1..m - 2, more[i] = 0, more[i + 1] = 0 PROVE more[i + 2] >= 3
  <2>1. CASE i + 2 <= l
    <3>1. i \in 1..l - 2 /\ i \in 1..l /\ i + 1 \in 1..l /\ i + 2 \in 1..l
      BY <2>1
    <3> QED BY ONLY <1>2, <1>3, <1>4, <3>1
  <2>2. CASE i + 2 = l + 1
    <3>1. i \in 1..l /\ i + 1 \in 1..l /\ i = l - 1 /\ i + 1 = l /\ l >= 2
      BY <2>2
    <3>2. out[l - 1] = 0 /\ out[l] = 0
      BY ONLY <1>3, <1>4, <3>1
    <3> QED BY ONLY <1>3, <2>2, <3>1, <3>2, b \in Nat
  <2>3. CASE i + 2 = l + 2
    <3>1. i + 1 = l + 1
      BY <2>3
    <3>2. m = l + 2
      BY <1>3, <2>3
    <3>3. more[i + 1] = 3
      BY ONLY <1>3, <3>1, <3>2, l \in Nat
    <3> QED BY <1>4, <3>3
  <2> QED BY <1>3, <2>1, <2>2, <2>3
<1> QED BY <1>1, <1>4 DEF Clean

\* What the encoder has written is clean, no shorter than the payload, and
\* begins with what it had written before; its last byte is the payload's.
LEMMA WrittenSoFar ==
  ASSUME NEW s \in Seq(Nat), NEW h, Writes(h, s), NEW n \in 0..Len(s)
  PROVE  /\ h[n] \in Seq(Nat) /\ Len(h[n]) \in Nat /\ Len(h[n]) >= n /\ Clean(h[n])
         /\ n >= 1 => h[n][Len(h[n])] = s[n]
         /\ \A m \in 0..n : /\ Len(h[m]) \in Nat /\ Len(h[m]) <= Len(h[n])
                            /\ \A i \in 1..Len(h[m]) : h[n][i] = h[m][i]
<1> DEFINE
      L == Len(s)
      Good(k) == /\ h[k] \in Seq(Nat) /\ Len(h[k]) \in Nat /\ Len(h[k]) >= k /\ Clean(h[k])
                 /\ k >= 1 => h[k][Len(h[k])] = s[k]
                 /\ \A m \in 0..k : /\ Len(h[m]) \in Nat /\ Len(h[m]) <= Len(h[k])
                                    /\ \A i \in 1..Len(h[m]) : h[k][i] = h[m][i]
      S == {k \in Nat : k <= L => Good(k)}
<1>1. L \in Nat /\ \A k \in 1..L : s[k] \in Nat
  OBVIOUS
<1>2. /\ h[0] = <<>> /\ \A k \in 1..L : h[k] = Emit(h[k - 1], s[k])
  BY DEF Writes
<1>3. 0 \in S
  <2>1. Len(h[0]) = 0 /\ h[0] \in Seq(Nat)
    BY <1>2
  <2>2. Clean(h[0])
    BY <2>1 DEF Clean
  <2>3. \A m \in 0..0 : m = 0
    OBVIOUS
  <2> QED BY <2>1, <2>2, <2>3
<1>4. ASSUME NEW k \in Nat, k + 1 <= L, Good(k) PROVE Good(k + 1)
  <2>1. Adds(h[k], h[k + 1], s[k + 1])
    <3>1. k + 1 \in 1..L /\ (k + 1) - 1 = k /\ h[k] \in Seq(Nat)
      BY <1>1, <1>4
    <3>2. h[k + 1] = Emit(h[k], s[k + 1]) /\ s[k + 1] \in Nat
      BY <1>1, <1>2, <3>1
    <3> HIDE DEF Good
    <3> QED BY <3>1, <3>2, EmitAdds
  <2>2. Clean(h[k + 1])
    <3>1. s[k + 1] \in Nat /\ Clean(h[k])
      BY <1>1, <1>4
    <3> HIDE DEF Good
    <3> QED BY <2>1, <3>1, AddsClean
  <2>3. PICK l \in Nat, r \in Nat : l = Len(h[k]) /\ r = Len(h[k + 1])
    BY <2>1 DEF Adds
  <2>4. /\ h[k + 1] \in Seq(Nat) /\ r >= l + 1 /\ h[k + 1][r] = s[k + 1]
        /\ \A i \in 1..l : h[k + 1][i] = h[k][i]
    <3>1. /\ h[k + 1] \in Seq(Nat)
          /\ \A i \in 1..l : h[k + 1][i] = h[k][i]
      BY ONLY <2>1, <2>3 DEF Adds
    <3>2. \/ r = l + 2 /\ h[k + 1][l + 2] = s[k + 1]
          \/ r = l + 1 /\ h[k + 1][l + 1] = s[k + 1]
      BY ONLY <2>1, <2>3 DEF Adds
    <3> QED BY ONLY <3>1, <3>2, l \in Nat, r \in Nat
  <2>5. ASSUME NEW m \in 0..(k + 1)
        PROVE  /\ Len(h[m]) \in Nat /\ Len(h[m]) <= Len(h[k + 1])
               /\ \A i \in 1..Len(h[m]) : h[k + 1][i] = h[m][i]
    <3>1. CASE m = k + 1
      BY <2>3, <3>1
    <3>2. CASE m \in 0..k
      <4>1. /\ Len(h[m]) \in Nat /\ Len(h[m]) <= l
            /\ \A i \in 1..Len(h[m]) : h[k][i] = h[m][i]
        BY <1>4, <2>3, <3>2
      <4>2. Len(h[m]) <= r
        BY ONLY <2>4, <4>1, l \in Nat, r \in Nat
      <4>3. ASSUME NEW i \in 1..Len(h[m]) PROVE i \in 1..l
        BY ONLY <4>1, l \in Nat, i \in 1..Len(h[m])
      <4> QED BY ONLY <2>3, <2>4, <4>1, <4>2, <4>3
    <3> QED BY <3>1, <3>2
  <2>6. Len(h[k]) >= k
    BY <1>4
  <2>7. Len(h[k + 1]) \in Nat /\ Len(h[k + 1]) >= k + 1 /\ h[k + 1][Len(h[k + 1])] = s[k + 1]
    BY ONLY <2>3, <2>4, <2>6, k \in Nat
  <2> QED BY ONLY <2>2, <2>4, <2>5, <2>7
<1>5. n \in S
  <2>1. \A k \in Nat : k \in S => k + 1 \in S
    <3> HIDE DEF Good, L
    <3> QED BY <1>1, <1>4
  <2>2. Nat \subseteq S
    <3> HIDE DEF S
    <3> QED BY <1>3, <2>1, InductionOnSet
  <2> HIDE DEF S
  <2> QED BY <1>1, <2>2
<1>6. Good(n)
  <2> HIDE DEF Good
  <2> QED BY <1>5
<1> QED BY ONLY <1>6

\* A head byte in front of a payload moves it by one.
LEMMA HeadInFront ==
  ASSUME NEW x \in Nat, NEW u \in Seq(Nat)
  PROVE  /\ <<x>> \o u \in Seq(Nat) /\ Len(<<x>> \o u) = Len(u) + 1
         /\ (<<x>> \o u)[1] = x
         /\ \A i \in 1..Len(u) : (<<x>> \o u)[i + 1] = u[i]
<1>1. PICK one \in Seq(Nat) : one = <<x>> /\ Len(one) = 1 /\ one[1] = x
  <2>1. <<x>> \in Seq(Nat)
    OBVIOUS
  <2> QED BY <2>1
<1>2. PICK e \in Seq(Nat) : e = one \o u
  BY ConcatProperties
<1>3. /\ Len(e) = 1 + Len(u) /\ Len(u) \in Nat
      /\ \A i \in 1..1 + Len(u) : e[i] = IF i <= 1 THEN one[i] ELSE u[i - 1]
  BY <1>1, <1>2, ConcatProperties
<1>4. e[1] = x
  BY <1>1, <1>3
<1>5. ASSUME NEW i \in 1..Len(u) PROVE e[i + 1] = u[i]
  <2>1. i + 1 \in 1..1 + Len(u) /\ ~ (i + 1 <= 1) /\ (i + 1) - 1 = i
    BY <1>3
  <2> QED BY <1>3, <2>1
<1> QED BY <1>1, <1>2, <1>3, <1>4, <1>5

\* A head and a body in which no start code begins or is prepared.
Tidy(e) ==
  /\ e \in Seq(Nat) /\ Len(e) >= 3
  /\ e[1] # 0 /\ e[Len(e)] # 0
  /\ Clean(e)

LEMMA EncodedIsTidy ==
  ASSUME NEW s \in Seq(Nat), Len(s) >= 2, s[Len(s)] # 0, NEW x \in Nat \ {0}
  PROVE  Tidy(<<x>> \o Escape(s))
<1>1. PICK h : Writes(h, s) /\ Escape(s) = h[Len(s)]
  BY EscapeWrites
<1>2. PICK u \in Seq(Nat), l \in Nat : u = Escape(s) /\ l = Len(u) /\ l >= 2 /\ Clean(u) /\ u[l] # 0
  <2>1. Len(s) \in 0..Len(s) /\ Len(s) >= 1
    OBVIOUS
  <2>2. /\ h[Len(s)] \in Seq(Nat) /\ Len(h[Len(s)]) \in Nat /\ Len(h[Len(s)]) >= Len(s)
        /\ Clean(h[Len(s)]) /\ h[Len(s)][Len(h[Len(s)])] = s[Len(s)]
    BY <1>1, <2>1, WrittenSoFar
  <2>3. Len(h[Len(s)]) >= 2
    BY <2>2
  <2> QED BY <1>1, <2>2, <2>3
<1>3. PICK e \in Seq(Nat) : e = <<x>> \o u
  BY HeadInFront
<1>4. Len(e) = l + 1 /\ e[1] = x /\ \A i \in 1..l : e[i + 1] = u[i]
  BY <1>2, <1>3, HeadInFront
<1>5. e[Len(e)] # 0
  <2>1. l \in 1..l
    BY <1>2
  <2> QED BY <1>2, <1>4, <2>1
<1>6. Clean(e)
  <2> SUFFICES ASSUME NEW i \in 1..l - 1, e[i] = 0, e[i + 1] = 0 PROVE e[i + 2] >= 3
    BY <1>4 DEF Clean
  <2>1. i # 1
    BY <1>4
  <2>2. PICK j \in Nat : i = j + 1 /\ j \in 1..l - 2 /\ j \in 1..l /\ j + 1 \in 1..l /\ j + 2 \in 1..l
    <3>1. i - 1 \in Nat /\ i = (i - 1) + 1 /\ i - 1 \in 1..l - 2 /\ i - 1 \in 1..l
          /\ (i - 1) + 1 \in 1..l /\ (i - 1) + 2 \in 1..l
      BY <2>1
    <3> QED BY <3>1
  <2>3. e[j + 1] = u[j] /\ e[(j + 1) + 1] = u[j + 1] /\ e[(j + 2) + 1] = u[j + 2]
    BY <1>4, <2>2
  <2>4. i + 1 = (j + 1) + 1 /\ i + 2 = (j + 2) + 1
    BY <2>2
  <2>5. u[j] = 0 /\ u[j + 1] = 0
    BY <2>2, <2>3, <2>4
  <2>6. u[j + 2] >= 3
    BY <1>2, <2>2, <2>5 DEF Clean
  <2> QED BY <2>3, <2>4, <2>6
<1>7. Len(e) >= 3 /\ e[1] # 0 /\ e = <<x>> \o Escape(s)
  BY <1>2, <1>3, <1>4
<1> QED BY ONLY <1>5, <1>6, <1>7, e \in Seq(Nat) DEF Tidy

\* Where the encoder wrote one byte of the payload, the loop keeps that byte.
LEMMA KeepsWritten ==
  ASSUME NEW e \in Seq(Nat), NEW v, NEW w, NEW b \in Nat, Adds(v, w, b),
         Len(v) >= 2, Len(w) + 1 <= Len(e), \A i \in 1..Len(w) : e[i + 1] = w[i]
  PROVE  KeptBytes(e, Len(w) + 1) = Append(KeptBytes(e, Len(v) + 1), b)
<1>1. PICK a \in Nat, c \in Nat, l \in Nat : a = Len(v) /\ c = Len(w) /\ l = Len(e)
  BY DEF Adds
<1>2. a >= 2 /\ c + 1 <= l /\ \A i \in 1..c : e[i + 1] = w[i]
  BY <1>1
<1>3. /\ \A i \in 1..a : w[i] = v[i]
      /\ \/ /\ b <= 3 /\ v[a - 1] = 0 /\ v[a] = 0
            /\ c = a + 2 /\ w[a + 1] = 3 /\ w[a + 2] = b
         \/ /\ ~ (b <= 3 /\ v[a - 1] = 0 /\ v[a] = 0)
            /\ c = a + 1 /\ w[a + 1] = b
  BY ONLY <1>1, <1>2, Adds(v, w, b) DEF Adds
<1>4. /\ e[a] = v[a - 1] /\ e[a + 1] = v[a]
      /\ e[a + 2] = w[a + 1]
  <2>1. /\ a - 1 \in 1..a /\ a \in 1..a /\ a - 1 \in 1..c /\ a \in 1..c /\ a + 1 \in 1..c
        /\ (a - 1) + 1 = a /\ (a + 1) + 1 = a + 2
    BY <1>2, <1>3
  <2> QED BY <1>2, <1>3, <2>1
<1>5. /\ a + 1 \in 3..l /\ a + 1 < l
      /\ (a + 1) + 1 = a + 2 /\ (a + 1) - 1 = a /\ (a + 1) + 2 = a + 3
  BY <1>2, <1>3
<1>6. IsEmulationByte(e, a + 1) <=>
        e[a + 2] = 3 /\ e[a] = 0 /\ e[a + 1] = 0 /\ a + 2 < l /\ e[a + 3] \in 0..3
  BY <1>1, <1>5 DEF IsEmulationByte
<1>7. CASE /\ b <= 3 /\ v[a - 1] = 0 /\ v[a] = 0
           /\ c = a + 2 /\ w[a + 1] = 3 /\ w[a + 2] = b
  <2>1. e[a + 3] = b
    <3>1. a + 2 \in 1..c /\ (a + 2) + 1 = a + 3
      BY <1>7
    <3> QED BY <1>2, <1>7, <3>1
  <2>2. a + 2 < l /\ a + 2 \in 3..l
    BY <1>2, <1>7
  <2>3. b \in 0..3
    BY <1>7
  <2>4. IsEmulationByte(e, a + 1)
    BY <1>4, <1>6, <1>7, <2>1, <2>2, <2>3
  <2>5. KeptBytes(e, a + 2) = KeptBytes(e, a + 1)
    BY <1>1, <1>5, <2>4, KeptBytesGrow
  <2>6. ~ IsEmulationByte(e, a + 2)
    <3>1. (a + 2) - 1 = a + 1 /\ (a + 2) + 1 = a + 3
      OBVIOUS
    <3>2. e[a + 2] # 0
      BY <1>4, <1>7
    <3> QED BY ONLY <3>1, <3>2 DEF IsEmulationByte
  <2>7. KeptBytes(e, (a + 2) + 1) = Append(KeptBytes(e, a + 2), e[(a + 2) + 1])
    BY <1>1, <2>2, <2>6, KeptBytesGrow
  <2>8. (a + 2) + 1 = a + 3 /\ c + 1 = a + 3
    BY <1>7
  <2> QED BY ONLY <1>1, <2>1, <2>5, <2>7, <2>8
<1>8. CASE /\ ~ (b <= 3 /\ v[a - 1] = 0 /\ v[a] = 0)
           /\ c = a + 1 /\ w[a + 1] = b
  <2>1. ~ IsEmulationByte(e, a + 1)
    BY <1>4, <1>6, <1>8
  <2>2. KeptBytes(e, (a + 1) + 1) = Append(KeptBytes(e, a + 1), e[(a + 1) + 1])
    BY <1>1, <1>5, <2>1, KeptBytesGrow
  <2>3. e[(a + 1) + 1] = b /\ c + 1 = (a + 1) + 1
    BY <1>4, <1>5, <1>8
  <2> QED BY ONLY <1>1, <2>2, <2>3
<1> QED BY <1>3, <1>7, <1>8

\* getRbsp undoes what the encoder did, whatever lies behind the vector.
LEMMA EscapeIsUndone ==
  ASSUME NEW s \in Seq(Nat), Len(s) >= 2, NEW x \in Nat, NEW past
  PROVE  GetRbsp(<<x>> \o Escape(s), past) = s
<1>1. PICK h : Writes(h, s) /\ Escape(s) = h[Len(s)]
  BY EscapeWrites
<1>2. PICK N \in Nat : N = Len(s) /\ N >= 2 /\ \A n \in 1..N : s[n] \in Nat
  OBVIOUS
<1>3. \A n \in 0..N :
        /\ h[n] \in Seq(Nat) /\ Len(h[n]) \in Nat /\ Len(h[n]) >= n
        /\ n >= 1 => h[n][Len(h[n])] = s[n]
        /\ \A m \in 0..n : /\ Len(h[m]) <= Len(h[n])
                           /\ \A i \in 1..Len(h[m]) : h[n][i] = h[m][i]
  <2> TAKE n \in 0..N
  <2>1. n \in 0..Len(s) /\ Writes(h, s)
    BY <1>1, <1>2
  <2> QED BY ONLY <2>1, s \in Seq(Nat), WrittenSoFar, SMTT(30)
<1>4. PICK u \in Seq(Nat), l \in Nat :
        /\ u = Escape(s) /\ u = h[N] /\ l = Len(u) /\ l >= N
  <2>1. N \in 0..N
    BY <1>2
  <2> QED BY <1>1, <1>2, <1>3, <2>1
<1>5. \A n \in 0..N : /\ Len(h[n]) <= l /\ \A i \in 1..Len(h[n]) : u[i] = h[n][i]
  <2>1. N \in 0..N
    BY <1>2
  <2>2. \A m \in 0..N : /\ Len(h[m]) <= Len(h[N])
                        /\ \A i \in 1..Len(h[m]) : h[N][i] = h[m][i]
    BY ONLY <1>3, <2>1
  <2> QED BY ONLY <1>4, <2>2
<1>6. PICK e \in Seq(Nat) : e = <<x>> \o u
  BY HeadInFront
<1>7. Len(e) = l + 1 /\ e[1] = x /\ \A i \in 1..l : e[i + 1] = u[i]
  BY <1>4, <1>6, HeadInFront
<1>8. \A n \in 1..N : Adds(h[n - 1], h[n], s[n])
  <2> TAKE n \in 1..N
  <2>1. n - 1 \in 0..N /\ s[n] \in Nat
    BY <1>2
  <2>2. h[n] = Emit(h[n - 1], s[n])
    BY <1>1, <1>2 DEF Writes
  <2> QED BY <1>3, <2>1, <2>2, EmitAdds
<1>9. /\ Len(h[2]) = 2 /\ u[1] = s[1] /\ u[2] = s[2]
  <2>1. 1 \in 1..N /\ 2 \in 1..N /\ 0 \in 0..N /\ 1 \in 0..N /\ 2 \in 0..N /\ 1 - 1 = 0 /\ 2 - 1 = 1
    BY <1>2
  <2>2. Adds(h[0], h[1], s[1]) /\ Adds(h[1], h[2], s[2]) /\ Len(h[0]) = 0
    BY <1>1, <1>8, <2>1 DEF Writes
  <2>3. Len(h[1]) = 1 /\ h[1][1] = s[1]
    BY ONLY <2>2 DEF Adds
  <2>4. Len(h[2]) = 2 /\ h[2][2] = s[2] /\ h[2][1] = h[1][1]
    BY ONLY <2>2, <2>3 DEF Adds
  <2>5. u[1] = h[2][1] /\ u[2] = h[2][2]
    BY ONLY <1>5, <2>1, <2>4
  <2> QED BY <2>3, <2>4, <2>5
<1>10. PICK two \in Seq(Nat) :
         two = FirstTwo(e, past) /\ Len(two) = 2 /\ two[1] = s[1] /\ two[2] = s[2]
  <2>1. 1 < Len(e) /\ 2 < Len(e) /\ e[1 + 1] = s[1] /\ e[2 + 1] = s[2]
    <3>1. 1 \in 1..l /\ 2 \in 1..l
      BY <1>2, <1>4
    <3>2. e[1 + 1] = s[1] /\ e[2 + 1] = s[2]
      BY ONLY <1>7, <1>9, <3>1
    <3> QED BY <1>7, <3>1, <3>2
  <2>2. FirstTwo(e, past) = [k \in 1..2 |-> s[k]]
    <3>1. \A k \in 1..2 : (IF k < Len(e) THEN e[k + 1] ELSE past[k]) = s[k]
      BY <2>1
    <3> QED BY <3>1 DEF FirstTwo
  <2>3. s[1] \in Nat /\ s[2] \in Nat
    BY <1>2
  <2>4. \A k \in 1..2 : s[k] \in Nat
    BY <1>2
  <2>5. [k \in 1..2 |-> s[k]] \in Seq(Nat) /\ Len([k \in 1..2 |-> s[k]]) = 2
    BY ONLY <2>4
  <2>6. PICK two \in Seq(Nat) : two = [k \in 1..2 |-> s[k]] /\ Len(two) = 2
    BY ONLY <2>5
  <2>7. two[1] = s[1] /\ two[2] = s[2]
    BY ONLY <2>6
  <2> QED BY ONLY <2>2, <2>6, <2>7, two \in Seq(Nat)
<1> DEFINE bytes(n) == KeptBytes(e, Len(h[n]) + 1)
           Good(n) == /\ bytes(n) \in Seq(Nat) /\ Len(bytes(n)) = n - 2
                      /\ \A i \in 1..n - 2 : bytes(n)[i] = s[i + 2]
           S == {n \in Nat : n + 2 <= N => Good(n + 2)}
<1>11. \A n \in 2..N : bytes(n) \in Seq(Nat)
  <2> TAKE n \in 2..N
  <2>1. Len(h[n]) + 1 \in 3..Len(e)
    BY <1>3, <1>5, <1>7
  <2> QED BY <2>1, KeptBytesGrow
<1>12. Good(2)
  <2>1. bytes(2) = KeptBytes(e, 3) /\ bytes(2) \in Seq(Nat)
    <3>1. Len(h[2]) + 1 = 3
      BY ONLY <1>9
    <3>2. 2 \in 2..N
      BY <1>2
    <3>3. bytes(2) = KeptBytes(e, 3)
      BY ONLY <3>1
    <3> HIDE DEF bytes
    <3> QED BY <1>11, <3>2, <3>3
  <2>2. Kept(e, 3) = {}
    <3>1. 3..3 - 1 = {}
      OBVIOUS
    <3> QED BY ONLY <3>1 DEF Kept
  <2>3. Len(KeptBytes(e, 3)) = 0
    <3>1. Cardinality(Kept(e, 3)) = 0
      BY <2>2, FS_EmptySet
    <3>2. KeptBytes(e, 3) = [k \in 1..0 |-> e[Nth(Kept(e, 3), k) + 1]]
      BY ONLY <3>1 DEF KeptBytes
    <3> QED BY <2>1, <3>2
  <2> HIDE DEF bytes
  <2> QED BY ONLY <2>1, <2>3
<1>13. ASSUME NEW n \in 2..N, n + 1 <= N, Good(n) PROVE Good(n + 1)
  <2>1. n \in 0..N /\ n + 1 \in 0..N /\ n + 1 \in 1..N /\ (n + 1) - 1 = n /\ n + 1 \in 2..N
    BY <1>13
  <2>2. /\ Adds(h[n], h[n + 1], s[n + 1]) /\ s[n + 1] \in Nat
        /\ Len(h[n]) >= 2 /\ Len(h[n + 1]) + 1 <= Len(e)
    <3>1. Len(h[n]) >= n /\ Len(h[n]) \in Nat /\ Len(h[n + 1]) \in Nat /\ Len(h[n + 1]) <= l
      BY ONLY <1>3, <1>5, <2>1
    <3>2. Adds(h[n], h[n + 1], s[n + 1]) /\ s[n + 1] \in Nat
      BY ONLY <1>2, <1>8, <2>1
    <3> QED BY ONLY <1>7, <3>1, <3>2, n \in 2..N, N \in Nat, l \in Nat, SMTT(30)
  <2>3. \A i \in 1..Len(h[n + 1]) : e[i + 1] = h[n + 1][i]
    <3>1. /\ Len(h[n + 1]) <= l /\ Len(h[n + 1]) \in Nat
          /\ \A i \in 1..Len(h[n + 1]) : u[i] = h[n + 1][i]
      BY ONLY <1>3, <1>5, <2>1
    <3>2. \A i \in 1..Len(h[n + 1]) : i \in 1..l
      BY ONLY <3>1, l \in Nat
    <3> QED BY ONLY <1>7, <3>1, <3>2
  <2>4. bytes(n + 1) = Append(bytes(n), s[n + 1])
    <3>1. PICK v \in Seq(Nat), w \in Seq(Nat), b \in Nat : v = h[n] /\ w = h[n + 1] /\ b = s[n + 1]
      BY <1>3, <2>1, <2>2
    <3>2. /\ Adds(v, w, b) /\ Len(v) >= 2 /\ Len(w) + 1 <= Len(e)
          /\ \A i \in 1..Len(w) : e[i + 1] = w[i]
      BY ONLY <2>2, <2>3, <3>1
    <3>3. KeptBytes(e, Len(w) + 1) = Append(KeptBytes(e, Len(v) + 1), b)
      BY ONLY <3>2, e \in Seq(Nat), b \in Nat, KeepsWritten
    <3> QED BY ONLY <3>1, <3>3
  <2> HIDE DEF bytes
  <2>5. /\ Len(bytes(n + 1)) = (n - 2) + 1 /\ bytes(n + 1) \in Seq(Nat)
        /\ bytes(n + 1)[(n - 2) + 1] = s[n + 1]
        /\ \A i \in 1..n - 2 : bytes(n + 1)[i] = bytes(n)[i]
    <3>1. PICK m \in Nat : m = n - 2
      OBVIOUS
    <3>2. bytes(n) \in Seq(Nat) /\ Len(bytes(n)) = m
      BY <1>13, <3>1
    <3>3. Lengthened(Append(bytes(n), s[n + 1]), bytes(n), s[n + 1], m)
      BY ONLY <2>2, <3>2, m \in Nat, AppendLengthens
    <3> QED BY ONLY <2>4, <3>1, <3>3 DEF Lengthened
  <2>6. ASSUME NEW i \in 1..(n + 1) - 2 PROVE bytes(n + 1)[i] = s[i + 2]
    <3>1. CASE i \in 1..n - 2
      BY <1>13, <2>5, <3>1
    <3>2. CASE i = (n - 2) + 1
      <4>1. i + 2 = n + 1
        BY <3>2
      <4> QED BY <2>5, <3>2, <4>1
    <3>3. i \in 1..n - 2 \/ i = (n - 2) + 1
      BY ONLY i \in 1..(n + 1) - 2, n \in 2..N, N \in Nat
    <3> QED BY <3>1, <3>2, <3>3
  <2>7. (n - 2) + 1 = (n + 1) - 2
    OBVIOUS
  <2> QED BY ONLY <2>5, <2>6, <2>7
<1>14. Good(N)
  <2>1. 0 \in S
    <3> HIDE DEF Good
    <3> QED BY <1>12
  <2>2. \A n \in Nat : n \in S => n + 1 \in S
    <3> SUFFICES ASSUME NEW n \in Nat, n \in S, (n + 1) + 2 <= N PROVE Good((n + 1) + 2)
      <4> HIDE DEF Good
      <4> QED OBVIOUS
    <3>1. (n + 1) + 2 = (n + 2) + 1 /\ n + 2 \in 2..N /\ (n + 2) + 1 <= N
      BY <1>2
    <3>2. Good(n + 2)
      <4> HIDE DEF Good
      <4> QED BY <3>1
    <3> HIDE DEF Good
    <3> QED BY <1>13, <3>1, <3>2
  <2>3. Nat \subseteq S
    <3> HIDE DEF S
    <3> QED BY <2>1, <2>2, InductionOnSet
  <2>4. PICK M \in Nat : M + 2 = N
    <3>1. N - 2 \in Nat /\ (N - 2) + 2 = N
      BY <1>2
    <3> QED BY <3>1
  <2>5. Good(M + 2)
    <3> HIDE DEF Good
    <3> QED BY <2>3, <2>4
  <2> HIDE DEF Good
  <2> QED BY ONLY <2>4, <2>5
<1>15. PICK kept \in Seq(Nat) : /\ kept = KeptBytes(e, l + 1) /\ Len(kept) = N - 2
                               /\ \A i \in 1..N - 2 : kept[i] = s[i + 2]
  <2>1. bytes(N) = KeptBytes(e, l + 1)
    BY <1>4
  <2> HIDE DEF bytes
  <2> QED BY <1>14, <2>1
<1>16. PICK r \in Seq(Nat) : r = two \o kept
  BY ConcatProperties
<1>17. /\ Len(r) = 2 + (N - 2)
       /\ \A i \in 1..2 : r[i] = two[i]
       /\ \A i \in 1..N - 2 : r[2 + i] = kept[i]
  <2>1. PICK m \in Nat : m = N - 2
    <3>1. N - 2 \in Nat
      BY ONLY <1>2, N \in Nat
    <3> QED BY ONLY <3>1
  <2>2. Joined(two \o kept, two, kept, 2, m)
    <3>1. Len(kept) = m /\ Len(two) = 2 /\ 2 \in Nat
      BY <1>10, <1>15, <2>1
    <3> QED BY ONLY <3>1, m \in Nat, two \in Seq(Nat), kept \in Seq(Nat), ConcatJoins
  <2> QED BY ONLY <1>16, <2>1, <2>2 DEF Joined
<1>18. 2 + (N - 2) = N
  BY <1>2
<1>19. \A i \in 1..N : r[i] = s[i]
  <2> TAKE i \in 1..N
  <2>1. CASE i = 1 \/ i = 2
    BY ONLY <1>10, <1>17, <1>18, <2>1, i \in 1..N, N \in Nat
  <2>2. CASE i > 2
    <3>1. i - 2 \in 1..N - 2 /\ (i - 2) + 2 = i /\ 2 + (i - 2) = i
      BY ONLY <2>2, i \in 1..N, N \in Nat
    <3> QED BY ONLY <1>15, <1>17, <1>18, <3>1, i \in 1..N
  <2> QED BY <2>1, <2>2
<1>20. r = s
  BY ONLY <1>2, <1>17, <1>18, <1>19, r \in Seq(Nat), s \in Seq(Nat), SeqEqual
<1>21. GetRbsp(e, past) = two \o kept
  BY ONLY <1>7, <1>10, <1>15 DEF GetRbsp
<1> QED BY ONLY <1>4, <1>6, <1>16, <1>20, <1>21

-----------------------------------------------------------------------------
(* The stream.                                                             *)

\* v begins with u.
BeginsWith(v, u) ==
  /\ u \in Seq(Nat) /\ v \in Seq(Nat)
  /\ Len(u) \in Nat /\ Len(v) \in Nat /\ Len(u) <= Len(v)
  /\ \A i \in 1..Len(u) : v[i] = u[i]

LEMMA BeginsWithOnce ==
  ASSUME NEW u, NEW v, NEW w, BeginsWith(v, u), BeginsWith(w, v)
  PROVE  BeginsWith(w, u)
<1>1. \A i \in 1..Len(u) : i \in 1..Len(v)
  BY DEF BeginsWith
<1> QED BY <1>1 DEF BeginsWith

\* What every number adds to is what all of them begin with.
LEMMA BeginsWithAll ==
  ASSUME NEW L \in Nat, NEW g, g[0] \in Seq(Nat),
         \A k \in 1..L : BeginsWith(g[k], g[k - 1])
  PROVE  \A m \in 0..L : BeginsWith(g[L], g[m])
<1> DEFINE Good(k) == \A m \in 0..k : BeginsWith(g[k], g[m])
           S == {k \in Nat : k <= L => Good(k)}
<1>1. 0 \in S
  <2>1. \A m \in 0..0 : m = 0
    OBVIOUS
  <2>2. BeginsWith(g[0], g[0])
    BY DEF BeginsWith
  <2> QED BY <2>1, <2>2
<1>2. \A k \in Nat : k \in S => k + 1 \in S
  <2> SUFFICES ASSUME NEW k \in Nat, k \in S, k + 1 <= L PROVE Good(k + 1)
    <3> HIDE DEF Good
    <3> QED OBVIOUS
  <2>1. k + 1 \in 1..L /\ (k + 1) - 1 = k /\ Good(k)
    OBVIOUS
  <2>2. BeginsWith(g[k + 1], g[k])
    BY <2>1
  <2>3. ASSUME NEW m \in 0..k + 1 PROVE BeginsWith(g[k + 1], g[m])
    <3>1. CASE m = k + 1
      BY <2>2, <3>1 DEF BeginsWith
    <3>2. CASE m \in 0..k
      <4>1. BeginsWith(g[k], g[m])
        BY <2>1, <3>2
      <4> QED BY ONLY <2>2, <4>1, BeginsWithOnce
    <3> QED BY <3>1, <3>2
  <2> QED BY <2>3
<1>3. Nat \subseteq S
  <2> HIDE DEF S
  <2> QED BY <1>1, <1>2, InductionOnSet
<1>4. L \in S
  <2> HIDE DEF S
  <2> QED BY <1>3
<1> QED BY <1>4

\* g[k] is the first k sequences of q one behind the other.
Flattens(g, q) ==
  /\ g \in [0..Len(q) -> Seq(Nat)] /\ g[0] = <<>>
  /\ \A k \in 1..Len(q) : g[k] = g[k - 1] \o q[k]

LEMMA FlattenGrows ==
  ASSUME NEW q \in Seq(Seq(Nat))
  PROVE  \E g : Flattens(g, q) /\ FlattenSeq(q) = g[Len(q)]
<1> DEFINE
      L == Len(q)
      next == [y \in Seq(Nat) \X (1..L) |-> y[1] \o q[y[2]]]
      Steps(f) == f = [i \in 1..L |-> IF i = 1 THEN q[i] ELSE f[i - 1] \o q[i]]
      out == CHOOSE f : Steps(f)
<1>1. L \in Nat /\ \A n \in 1..L : q[n] \in Seq(Nat)
  OBVIOUS
<1>2. PICK g : Flattens(g, q)
  <2>1. next \in [Seq(Nat) \X (1..L) -> Seq(Nat)]
    <3> SUFFICES ASSUME NEW y \in Seq(Nat) \X (1..L) PROVE next[y] \in Seq(Nat)
      OBVIOUS
    <3>1. y[1] \in Seq(Nat) /\ y[2] \in 1..L
      OBVIOUS
    <3>2. y[1] \o q[y[2]] \in Seq(Nat)
      <4> HIDE DEF L
      <4> QED BY <1>1, <3>1, ConcatProperties
    <3> QED BY <3>2
  <2>2. PICK g : Iterates(g, Seq(Nat), <<>>, L, next)
    <3>1. <<>> \in Seq(Nat)
      OBVIOUS
    <3> HIDE DEF L, next
    <3> QED BY <1>1, <2>1, <3>1, IterationExists
  <2>3. ASSUME NEW n \in 1..L
        PROVE  next[<<g[n - 1], n>>] = g[n - 1] \o q[n]
    <3> HIDE DEF L
    <3>1. n - 1 \in 0..L /\ g[n - 1] \in Seq(Nat)
      BY <1>1, <2>2 DEF Iterates
    <3>2. <<g[n - 1], n>> \in Seq(Nat) \X (1..L)
      BY <3>1
    <3> QED BY <3>2
  <2>4. /\ g \in [0..L -> Seq(Nat)] /\ g[0] = <<>>
        /\ \A n \in 1..L : g[n] = next[<<g[n - 1], n>>]
    <3> HIDE DEF L, next
    <3> QED BY <2>2 DEF Iterates
  <2>5. \A n \in 1..L : g[n] = g[n - 1] \o q[n]
    <3> HIDE DEF L, next
    <3> QED BY <2>3, <2>4
  <2> HIDE DEF next
  <2> QED BY <2>4, <2>5 DEF Flattens
<1>3. /\ g \in [0..L -> Seq(Nat)] /\ g[0] = <<>>
      /\ \A n \in 1..L : g[n] = g[n - 1] \o q[n]
  BY <1>2 DEF Flattens
<1>4. \E f : Steps(f)
  <2> DEFINE f == [i \in 1..L |-> g[i]]
  <2>1. ASSUME NEW i \in 1..L PROVE g[i] = IF i = 1 THEN q[i] ELSE f[i - 1] \o q[i]
    <3>1. CASE i = 1
      <4>1. g[1] = <<>> \o q[1] /\ q[1] \in Seq(Nat)
        <5>1. g[1] = g[1 - 1] \o q[1] /\ q[1] \in Seq(Nat)
          BY ONLY <1>1, <1>3, <3>1, i \in 1..L
        <5>2. 1 - 1 = 0
          OBVIOUS
        <5> QED BY <1>3, <5>1, <5>2
      <4>2. <<>> \o q[1] = q[1]
        BY <4>1
      <4> QED BY <3>1, <4>1, <4>2
    <3>2. CASE i # 1
      <4>1. i - 1 \in 1..L
        BY <1>1, <3>2
      <4>2. f[i - 1] = g[i - 1]
        BY <4>1
      <4> HIDE DEF f, L
      <4> QED BY <1>3, <3>2, <4>2
    <3> QED BY <3>1, <3>2
  <2>2. Steps(f)
    <3>1. f = [i \in 1..L |-> IF i = 1 THEN q[i] ELSE f[i - 1] \o q[i]]
      BY <2>1
    <3> QED BY <3>1
  <2> QED BY <2>2
<1>5. Steps(out)
  <2> HIDE DEF Steps
  <2> QED BY <1>4
<1>6. \A i \in 1..L : out[i] = IF i = 1 THEN q[i] ELSE out[i - 1] \o q[i]
  <2> HIDE DEF out, L
  <2> QED BY <1>5
<1>7. \A i \in Nat : i \in 1..L => out[i] = g[i]
  <2> DEFINE S == {i \in Nat : i \in 1..L => out[i] = g[i]}
  <2> HIDE DEF out, L
  <2>1. 0 \in S
    <3>1. 0 \notin 1..L
      BY <1>1
    <3> QED BY <3>1
  <2>2. \A i \in Nat : i \in S => i + 1 \in S
    <3> SUFFICES ASSUME NEW i \in Nat, i \in S, i + 1 \in 1..L PROVE out[i + 1] = g[i + 1]
      OBVIOUS
    <3>1. CASE i = 0
      <4>1. out[1] = q[1] /\ g[1] = g[0] \o q[1] /\ q[1] \in Seq(Nat)
        <5>1. i + 1 = 1 /\ 1 \in 1..L /\ 1 - 1 = 0
          BY <3>1
        <5> QED BY <1>1, <1>3, <1>6, <5>1
      <4>2. <<>> \o q[1] = q[1]
        BY <4>1
      <4> QED BY <1>3, <3>1, <4>1, <4>2
    <3>2. CASE i # 0
      <4>1. i \in 1..L /\ i + 1 # 1 /\ (i + 1) - 1 = i
        BY <1>1, <3>2
      <4>2. out[i] = g[i]
        BY <4>1
      <4>3. out[i + 1] = out[(i + 1) - 1] \o q[i + 1] /\ g[i + 1] = g[(i + 1) - 1] \o q[i + 1]
        BY ONLY <1>3, <1>6, <4>1, i + 1 \in 1..L
      <4> QED BY ONLY <4>1, <4>2, <4>3
    <3> QED BY <3>1, <3>2
  <2>3. Nat \subseteq S
    <3> HIDE DEF S
    <3> QED BY <2>1, <2>2, InductionOnSet
  <2> QED BY <2>3
<1>8. FlattenSeq(q) = g[L]
  <2>1. CASE L = 0
    <3>1. FlattenSeq(q) = q /\ q = <<>>
      BY <2>1 DEF FlattenSeq
    <3> QED BY <1>3, <2>1, <3>1
  <2>2. CASE L # 0
    <3>1. FlattenSeq(q) = out[L]
      BY <2>2 DEF FlattenSeq
    <3>2. L \in 1..L
      BY <1>1, <2>2
    <3> HIDE DEF out, L
    <3> QED BY <1>1, <1>7, <3>1, <3>2
  <2> QED BY <2>1, <2>2
<1> QED BY <1>2, <1>8

\* The units whose payload the encoder can be asked to write: the head byte of a
\* NAL unit is not zero, and the last byte of a payload holds the stop bit.
Encodable ==
  [startCodeLen : {3, 4}, head : Nat \ {0},
   payload : {p \in Seq(Nat) : Len(p) >= 2 /\ p[Len(p)] # 0}]

\* What the encoder writes behind the start code of a unit, and the unit.
Body(u) == <<u.head>> \o Escape(u.payload)
Unit(u) == StartCode(u.startCodeLen) \o <<u.head>> \o Escape(u.payload)

LEMMA BodyOfUnit ==
  ASSUME NEW u \in Encodable
  PROVE  /\ u.startCodeLen \in {3, 4} /\ Tidy(Body(u))
         /\ \A past : GetRbsp(Body(u), past) = u.payload
<1>1. PICK p \in Seq(Nat), x \in Nat \ {0} :
        p = u.payload /\ x = u.head /\ Len(p) >= 2 /\ p[Len(p)] # 0
  BY DEF Encodable
<1>2. Tidy(<<x>> \o Escape(p))
  BY <1>1, EncodedIsTidy
<1>3. \A past : GetRbsp(<<x>> \o Escape(p), past) = p
  BY <1>1, EscapeIsUndone
<1>4. u.startCodeLen \in {3, 4}
  BY DEF Encodable
<1> QED BY ONLY <1>1, <1>2, <1>3, <1>4 DEF Body

\* At offset a of f lies a start code of n bytes, and behind it e.
Lies(f, a, n, e) ==
  /\ StartCodeAt(f, a, n)
  /\ a + n + Len(e) <= Len(f)
  /\ \A j \in 1..Len(e) : f[a + n + j] = e[j]

\* b is a start code of n bytes and e.
Framed(b, n, e) ==
  /\ b \in Seq(Nat) /\ Len(e) \in Nat /\ Len(b) = n + Len(e)
  /\ \A k \in 1..n - 1 : b[k] = 0
  /\ b[n] = 1
  /\ \A j \in 1..Len(e) : b[n + j] = e[j]

LEMMA UnitIsFramed ==
  ASSUME NEW u \in Encodable
  PROVE  Framed(Unit(u), u.startCodeLen, Body(u))
<1>0. PICK n \in {3, 4} : n = u.startCodeLen
  BY DEF Encodable
<1>1. PICK x \in Nat, p \in Seq(Nat) : x = u.head /\ p = u.payload
  BY DEF Encodable
<1>2. PICK esc \in Seq(Nat) : esc = Escape(p)
  <2>1. PICK h : Writes(h, p) /\ Escape(p) = h[Len(p)]
    BY EscapeWrites
  <2>2. Len(p) \in 0..Len(p)
    OBVIOUS
  <2> QED BY <2>1, <2>2 DEF Writes
<1>3. PICK c \in Seq(Nat) : /\ c = StartCode(n) /\ Len(c) = n /\ c[n] = 1
                            /\ \A k \in 1..n - 1 : c[k] = 0
  <2>1. CASE n = 3
    <3>1. PICK c \in Seq(Nat) : c = <<0, 0, 1>> /\ Len(c) = 3 /\ c[1] = 0 /\ c[2] = 0 /\ c[3] = 1
      <4>1. <<0, 0, 1>> \in Seq(Nat)
        OBVIOUS
      <4> QED BY <4>1
    <3>2. \A k \in 1..n - 1 : k = 1 \/ k = 2
      BY <2>1
    <3> QED BY ONLY <2>1, <3>1, <3>2, c \in Seq(Nat) DEF StartCode
  <2>2. CASE n = 4
    <3>1. PICK c \in Seq(Nat) : c = <<0, 0, 0, 1>> /\ Len(c) = 4
                                /\ c[1] = 0 /\ c[2] = 0 /\ c[3] = 0 /\ c[4] = 1
      <4>1. <<0, 0, 0, 1>> \in Seq(Nat)
        OBVIOUS
      <4> QED BY <4>1
    <3>2. \A k \in 1..n - 1 : k = 1 \/ k = 2 \/ k = 3
      BY <2>2
    <3>3. c = StartCode(n)
      BY ONLY <2>2, <3>1 DEF StartCode
    <3>4. c[n] = 1 /\ Len(c) = n
      BY ONLY <2>2, <3>1
    <3>5. \A k \in 1..n - 1 : c[k] = 0
      BY ONLY <3>1, <3>2
    <3> QED BY <3>3, <3>4, <3>5
  <2> QED BY <2>1, <2>2
<1>4. PICK e \in Seq(Nat), l \in Nat : e = Body(u) /\ l = Len(e) /\ e = <<x>> \o esc
  <2>1. <<x>> \o esc \in Seq(Nat)
    BY HeadInFront
  <2>2. Body(u) = <<x>> \o esc
    BY <1>1, <1>2 DEF Body
  <2>3. Body(u) \in Seq(Nat)
    BY ONLY <2>1, <2>2
  <2>4. Len(Body(u)) \in Nat
    BY ONLY <2>3
  <2> QED BY ONLY <2>2, <2>3, <2>4
<1>5. Unit(u) = c \o e
  <2>1. <<x>> \in Seq(Nat)
    OBVIOUS
  <2>2. c \o <<x>> \o esc = c \o (<<x>> \o esc)
    BY <2>1, ConcatAssociative
  <2> QED BY <1>0, <1>1, <1>2, <1>3, <1>4, <2>2 DEF Unit
<1>6. Joined(c \o e, c, e, n, l)
  BY <1>3, <1>4, n \in Nat, ConcatJoins
<1>7. /\ Unit(u) \in Seq(Nat) /\ Len(Unit(u)) = n + l
      /\ \A i \in 1..n : Unit(u)[i] = c[i]
      /\ \A i \in 1..l : Unit(u)[n + i] = e[i]
  BY ONLY <1>5, <1>6 DEF Joined
<1>8. n \in 1..n /\ \A k \in 1..n - 1 : k \in 1..n
  OBVIOUS
<1> QED BY ONLY <1>0, <1>3, <1>4, <1>7, <1>8, l \in Nat DEF Framed

\* The units of s lie in f one behind the other, the k-th from offset off[k - 1] to
\* off[k].
Laid(f, s, off) ==
  /\ f \in Seq(Nat) /\ Len(s) \in Nat
  /\ off \in [0..Len(s) -> Nat] /\ off[0] = 0 /\ off[Len(s)] = Len(f)
  /\ \A k \in 1..Len(s) :
       /\ Lies(f, off[k - 1], s[k].startCodeLen, Body(s[k]))
       /\ off[k] = off[k - 1] + s[k].startCodeLen + Len(Body(s[k]))

LEMMA EncodeLays ==
  ASSUME NEW s \in Seq(Encodable)
  PROVE  \E off : Laid(Encode(s), s, off)
<1> DEFINE L == Len(s)
           q == [k \in 1..L |-> Unit(s[k])]
<1>1. L \in Nat /\ DOMAIN s = 1..L /\ \A k \in 1..L : s[k] \in Encodable
  OBVIOUS
<1>2. ASSUME NEW k \in 1..L
      PROVE  /\ s[k].startCodeLen \in {3, 4} /\ q[k] \in Seq(Nat)
             /\ Framed(q[k], s[k].startCodeLen, Body(s[k]))
  <2>1. s[k] \in Encodable /\ s[k].startCodeLen \in {3, 4}
    BY <1>1, BodyOfUnit
  <2>2. q[k] = Unit(s[k])
    OBVIOUS
  <2> HIDE DEF q, L
  <2>3. Framed(Unit(s[k]), s[k].startCodeLen, Body(s[k]))
    BY <2>1, UnitIsFramed
  <2> QED BY ONLY <2>1, <2>2, <2>3 DEF Framed
<1>3. q \in Seq(Seq(Nat)) /\ Len(q) = L
  <2>1. \A k \in 1..L : Unit(s[k]) \in Seq(Nat)
    <3>1. \A k \in 1..L : q[k] = Unit(s[k])
      OBVIOUS
    <3> HIDE DEF q
    <3> QED BY <1>2, <3>1
  <2> HIDE DEF L
  <2> QED BY <1>1, <2>1
<1>4. Encode(s) = FlattenSeq(q)
  <2>1. q = [k \in DOMAIN s |-> StartCode(s[k].startCodeLen) \o <<s[k].head>> \o Escape(s[k].payload)]
    BY <1>1 DEF Unit
  <2> QED BY <2>1 DEF Encode
<1> HIDE DEF q, L
<1>5. PICK g : Flattens(g, q) /\ FlattenSeq(q) = g[L]
  BY <1>3, FlattenGrows
<1>6. /\ g \in [0..L -> Seq(Nat)] /\ g[0] = <<>>
      /\ \A k \in 1..L : g[k] = g[k - 1] \o q[k]
  BY <1>3, <1>5 DEF Flattens
<1> DEFINE off == [k \in 0..L |-> Len(g[k])]
<1>7. \A k \in 0..L : g[k] \in Seq(Nat) /\ Len(g[k]) \in Nat /\ off[k] = Len(g[k])
  BY <1>6
<1>8. ASSUME NEW k \in 1..L
      PROVE  Joined(g[k], g[k - 1], q[k], off[k - 1], Len(q[k])) /\ BeginsWith(g[k], g[k - 1])
  <2>0. k - 1 \in 0..L /\ k \in 0..L
    BY <1>1
  <2>1. k - 1 \in 0..L /\ k \in 0..L /\ g[k] = g[k - 1] \o q[k] /\ q[k] \in Seq(Nat)
    BY ONLY <1>2, <1>6, <2>0, k \in 1..L
  <2>2. /\ g[k - 1] \in Seq(Nat) /\ off[k - 1] \in Nat /\ Len(g[k - 1]) = off[k - 1]
        /\ Len(q[k]) \in Nat
    BY <1>7, <2>1
  <2> HIDE DEF off
  <2>3. Joined(g[k - 1] \o q[k], g[k - 1], q[k], off[k - 1], Len(q[k]))
    BY ONLY <2>1, <2>2, ConcatJoins
  <2>4. Joined(g[k], g[k - 1], q[k], off[k - 1], Len(q[k]))
    BY <2>1, <2>3
  <2>5. BeginsWith(g[k], g[k - 1])
    <3>1. PICK m \in Nat, n \in Nat : m = off[k - 1] /\ n = Len(q[k])
      BY <2>2
    <3>2. /\ g[k] \in Seq(Nat) /\ Len(g[k]) = m + n
          /\ \A i \in 1..m : g[k][i] = g[k - 1][i]
      BY ONLY <2>4, <3>1 DEF Joined
    <3>3. Len(g[k - 1]) = m /\ g[k - 1] \in Seq(Nat)
      BY ONLY <2>2, <3>1
    <3>4. Len(g[k]) \in Nat /\ m <= Len(g[k])
      BY ONLY <3>2, m \in Nat, n \in Nat
    <3> QED BY ONLY <3>2, <3>3, <3>4, m \in Nat DEF BeginsWith
  <2> QED BY <2>4, <2>5
<1>9. \A m \in 0..L : BeginsWith(g[L], g[m])
  <2>1. g[0] \in Seq(Nat)
    BY <1>6
  <2>2. \A k \in 1..L : BeginsWith(g[k], g[k - 1])
    BY <1>8
  <2> HIDE DEF off
  <2> QED BY ONLY <1>1, <2>1, <2>2, BeginsWithAll
<1>10. PICK f \in Seq(Nat) : f = Encode(s) /\ f = g[L]
  BY <1>1, <1>4, <1>5, <1>6
<1>11. ASSUME NEW k \in 1..L
       PROVE  /\ off[k - 1] \in Nat /\ off[k] = off[k - 1] + s[k].startCodeLen + Len(Body(s[k]))
              /\ off[k] <= Len(f)
              /\ \A i \in 1..Len(q[k]) : f[off[k - 1] + i] = q[k][i]
  <2>1. k - 1 \in 0..L /\ k \in 0..L
    BY <1>1
  <2>2. /\ off[k - 1] \in Nat /\ off[k] \in Nat /\ off[k] = Len(g[k]) /\ off[k - 1] = Len(g[k - 1])
    BY <1>7, <2>1
  <2> HIDE DEF off
  <2>3. /\ Len(g[k]) = off[k - 1] + Len(q[k])
        /\ \A i \in 1..Len(q[k]) : g[k][off[k - 1] + i] = q[k][i]
    BY ONLY <1>8 DEF Joined
  <2>4. /\ Len(g[k]) <= Len(f) /\ \A i \in 1..Len(g[k]) : f[i] = g[k][i]
    BY ONLY <1>9, <1>10, <2>1 DEF BeginsWith
  <2>5. Len(q[k]) = s[k].startCodeLen + Len(Body(s[k])) /\ Len(Body(s[k])) \in Nat
        /\ s[k].startCodeLen \in Nat
    <3>1. Framed(q[k], s[k].startCodeLen, Body(s[k]))
      BY <1>2
    <3>2. s[k].startCodeLen \in Nat
      BY <1>2
    <3> QED BY ONLY <3>1, <3>2 DEF Framed
  <2>6. \A i \in 1..Len(q[k]) : off[k - 1] + i \in 1..Len(g[k])
    BY ONLY <2>2, <2>3, <2>5, SMTT(30)
  <2>7. \A i \in 1..Len(q[k]) : f[off[k - 1] + i] = q[k][i]
    BY ONLY <2>3, <2>4, <2>6
  <2>8. off[k] = off[k - 1] + s[k].startCodeLen + Len(Body(s[k]))
    BY ONLY <2>2, <2>3, <2>5
  <2> QED BY <2>2, <2>4, <2>7, <2>8
<1>12. ASSUME NEW k \in 1..L
       PROVE  Lies(f, off[k - 1], s[k].startCodeLen, Body(s[k]))
  <2> HIDE DEF off
  <2>1. PICK a \in Nat, n \in {3, 4}, l \in Nat :
          a = off[k - 1] /\ n = s[k].startCodeLen /\ l = Len(Body(s[k]))
    <3>1. Len(Body(s[k])) \in Nat
      BY <1>2 DEF Framed
    <3> QED BY <1>2, <1>11, <3>1
  <2>2. /\ Len(q[k]) = n + l /\ a + n + l <= Len(f) /\ Len(f) \in Nat
        /\ \A i \in 1..n + l : f[a + i] = q[k][i]
        /\ \A i \in 1..n - 1 : q[k][i] = 0
        /\ q[k][n] = 1
        /\ \A j \in 1..l : q[k][n + j] = Body(s[k])[j]
    <3>1. Framed(q[k], n, Body(s[k]))
      BY ONLY <1>2, <2>1
    <3>2. /\ off[k] = a + n + l /\ off[k] <= Len(f)
          /\ \A i \in 1..Len(q[k]) : f[a + i] = q[k][i]
      BY ONLY <1>11, <2>1
    <3>3. Len(f) \in Nat
      OBVIOUS
    <3> QED BY ONLY <2>1, <3>1, <3>2, <3>3 DEF Framed
  <2>3. /\ n \in 1..n + l /\ \A i \in 1..n - 1 : i \in 1..n + l
        /\ \A j \in 1..l : n + j \in 1..n + l /\ a + (n + j) = a + n + j
    OBVIOUS
  <2>4. StartCodeAt(f, a, n)
    <3>1. a + n <= Len(f)
      BY ONLY <2>2, a \in Nat, n \in {3, 4}, l \in Nat
    <3> QED BY ONLY <2>2, <2>3, <3>1 DEF StartCodeAt
  <2>5. \A j \in 1..l : f[a + n + j] = Body(s[k])[j]
    BY ONLY <2>2, <2>3
  <2> QED BY ONLY <2>1, <2>2, <2>4, <2>5 DEF Lies
<1>13. off \in [0..L -> Nat] /\ off[0] = 0 /\ off[L] = Len(f)
  BY <1>1, <1>6, <1>7, <1>10
<1>14. Laid(f, s, off)
  <2> HIDE DEF off
  <2>1. Len(s) = L
    BY DEF L
  <2> QED BY <1>1, <1>11, <1>12, <1>13, <2>1 DEF Laid
<1> QED BY <1>10, <1>14

-----------------------------------------------------------------------------
(* The frames of a stream.                                                 *)

\* Behind the start code of a unit nothing looks like one, up to the next unit.
LEMMA NothingBeginsInside ==
  ASSUME NEW f \in Seq(Nat), NEW a \in Nat, NEW n \in {3, 4}, NEW e, Lies(f, a, n, e), Tidy(e),
         NEW i \in Nat, a + n <= i, i < a + n + Len(e),
         f[i + 1] = 0, f[i + 2] = 0
  PROVE  i + 3 <= Len(f) /\ f[i + 3] >= 3
<1>1. PICK l \in Nat, t \in Nat : l = Len(e) /\ t = Len(f)
  BY DEF Tidy
<1>2. /\ l >= 3 /\ e[l] # 0 /\ \A j \in 1..l - 2 : e[j] = 0 /\ e[j + 1] = 0 => e[j + 2] >= 3
  BY ONLY <1>1, Tidy(e) DEF Tidy, Clean
<1>3. a + n + l <= t /\ \A j \in 1..l : f[a + n + j] = e[j]
  BY ONLY <1>1, Lies(f, a, n, e) DEF Lies
<1>4. PICK j \in Nat : i = a + n + j /\ j < l
  <2>1. i - (a + n) \in Nat /\ i = a + n + (i - (a + n)) /\ i - (a + n) < l
    BY <1>1
  <2> QED BY <2>1
<1>5. j + 1 \in 1..l /\ i + 1 = a + n + (j + 1)
  BY <1>4
<1>6. e[j + 1] = 0 /\ j + 1 # l
  BY <1>2, <1>3, <1>5
<1>7. j + 2 \in 1..l /\ i + 2 = a + n + (j + 2)
  BY <1>4, <1>6
<1>8. e[j + 2] = 0 /\ j + 2 # l
  BY <1>2, <1>3, <1>7
<1>9. /\ j + 3 \in 1..l /\ i + 3 = a + n + (j + 3) /\ i + 3 <= t
      /\ j + 1 \in 1..l - 2 /\ (j + 1) + 1 = j + 2 /\ (j + 1) + 2 = j + 3
  BY <1>3, <1>4, <1>6, <1>8
<1>10. e[j + 3] >= 3
  BY ONLY <1>2, <1>6, <1>8, <1>9
<1>11. f[i + 3] = e[j + 3]
  BY ONLY <1>3, <1>9
<1> QED BY <1>1, <1>9, <1>10, <1>11

LEMMA NoBoundaryInside ==
  ASSUME NEW f \in Seq(Nat), NEW a \in Nat, NEW n \in {3, 4}, NEW e, Lies(f, a, n, e), Tidy(e),
         NEW i \in Nat, a + n <= i, i < a + n + Len(e)
  PROVE  ~ Boundary(f, i)
<1> SUFFICES ASSUME Boundary(f, i) PROVE FALSE
  OBVIOUS
<1>1. f[i + 1] = 0 /\ f[i + 2] = 0 /\ f[i + 3] \in {0, 1}
  BY StartCodeBytes DEF Boundary
<1>2. f[i + 3] >= 3
  BY <1>1, NothingBeginsInside
<1> QED BY <1>1, <1>2, SMTT(30)

\* Every offset of the stream lies in a unit.
LEMMA InSomeUnit ==
  ASSUME NEW f, NEW s, NEW off, Laid(f, s, off), NEW o \in Nat, o < Len(f)
  PROVE  \E k \in 1..Len(s) : off[k - 1] <= o /\ o < off[k]
<1>1. PICK L \in Nat : L = Len(s)
  BY DEF Laid
<1>2. off \in [0..L -> Nat] /\ off[0] = 0 /\ off[L] = Len(f)
  BY <1>1 DEF Laid
<1> DEFINE C == {k \in 0..L : o < off[k]}
<1>3. L \in C /\ C \in SUBSET Nat
  BY <1>2
<1>4. PICK k \in C : \A m \in C : k <= m
  <2> HIDE DEF C
  <2> QED BY <1>3, LeastNumber
<1>5. k # 0
  BY <1>2
<1>6. k - 1 \in 0..L /\ k - 1 \notin C /\ k \in 1..L
  <2>1. k \in 0..L
    OBVIOUS
  <2>2. k - 1 \in 0..L /\ ~ (k <= k - 1) /\ k \in 1..L
    BY <1>5, <2>1
  <2> HIDE DEF C
  <2> QED BY <1>4, <2>2
<1>7. off[k - 1] <= o
  <2>1. off[k - 1] \in Nat
    BY <1>2, <1>6
  <2> QED BY <1>6, <2>1
<1> QED BY <1>1, <1>6, <1>7

\* What lies at the offset of a unit, and behind it.
LEMMA UnitAt ==
  ASSUME NEW s \in Seq(Encodable), NEW f, NEW off, Laid(f, s, off), NEW k \in 1..Len(s)
  PROVE  /\ f \in Seq(Nat) /\ k - 1 \in 0..Len(s) /\ k \in 0..Len(s)
         /\ off[k - 1] \in Nat /\ off[k] \in Nat /\ off[k - 1] < off[k] /\ off[k] <= Len(f)
         /\ s[k].startCodeLen \in {3, 4} /\ Tidy(Body(s[k])) /\ Len(Body(s[k])) \in Nat
         /\ Lies(f, off[k - 1], s[k].startCodeLen, Body(s[k]))
         /\ off[k] = off[k - 1] + s[k].startCodeLen + Len(Body(s[k]))
<1>1. s[k] \in Encodable
  OBVIOUS
<1>2. PICK n \in {3, 4}, l \in Nat :
        n = s[k].startCodeLen /\ l = Len(Body(s[k])) /\ Tidy(Body(s[k]))
  <2>1. s[k].startCodeLen \in {3, 4} /\ Tidy(Body(s[k]))
    BY <1>1, BodyOfUnit
  <2>2. Body(s[k]) \in Seq(Nat)
    BY ONLY <2>1 DEF Tidy
  <2>3. Len(Body(s[k])) \in Nat
    BY ONLY <2>2
  <2> QED BY ONLY <2>1, <2>3
<1>3. k - 1 \in 0..Len(s) /\ k \in 0..Len(s)
  BY DEF Laid
<1>4. /\ f \in Seq(Nat) /\ off \in [0..Len(s) -> Nat]
      /\ Lies(f, off[k - 1], s[k].startCodeLen, Body(s[k]))
      /\ off[k] = off[k - 1] + s[k].startCodeLen + Len(Body(s[k]))
  BY DEF Laid
<1>5. off[k - 1] \in Nat /\ off[k] \in Nat
  BY ONLY <1>3, <1>4
<1>6. off[k] = off[k - 1] + n + l /\ off[k - 1] + n + l <= Len(f)
  BY ONLY <1>2, <1>4 DEF Lies
<1>7. off[k - 1] < off[k] /\ off[k] <= Len(f)
  BY ONLY <1>5, <1>6, n \in {3, 4}, l \in Nat
<1> QED BY ONLY <1>2, <1>3, <1>4, <1>5, <1>7

\* The encoder leaves no trailing zeros.
LEMMA LaidWellFormed ==
  ASSUME NEW s \in Seq(Encodable), NEW f, NEW off, Laid(f, s, off)
  PROVE  WellFormed(f)
<1>1. f \in Seq(Nat) /\ Len(f) \in Nat
  BY DEF Laid
<1> SUFFICES ASSUME NEW o \in 0..Len(f) - 3, \A k \in 1..3 : f[o + k] = 0
             PROVE  StartCodeAt(f, o, 4)
  BY DEF WellFormed
<1>2. f[o + 1] = 0 /\ f[o + 2] = 0 /\ f[o + 3] = 0 /\ o \in Nat /\ o < Len(f)
  BY <1>1
<1>3. PICK k \in 1..Len(s) : off[k - 1] <= o /\ o < off[k]
  BY <1>2, InSomeUnit
<1>4. PICK a \in Nat, n \in {3, 4}, l \in Nat :
        /\ a = off[k - 1] /\ n = s[k].startCodeLen /\ l = Len(Body(s[k]))
        /\ off[k] = a + n + l /\ Lies(f, a, n, Body(s[k])) /\ Tidy(Body(s[k]))
  BY UnitAt
<1>5. a <= o /\ o < a + n + l
  BY ONLY <1>3, <1>4
<1>6. ASSUME a + n <= o PROVE FALSE
  <2>1. o < a + n + Len(Body(s[k]))
    BY ONLY <1>4, <1>5
  <2>2. f[o + 3] >= 3
    BY ONLY <1>1, <1>2, <1>4, <1>6, <2>1, a \in Nat, n \in {3, 4}, NothingBeginsInside
  <2> QED BY ONLY <1>2, <2>2
<1>7. f[a + n] = 1 /\ StartCodeAt(f, a, n)
  BY ONLY <1>4 DEF Lies, StartCodeAt
<1>8. a + n # o + 1 /\ a + n # o + 2 /\ a + n # o + 3
  BY ONLY <1>2, <1>7, SMTT(30)
<1>9. n = 4 /\ o = a
  BY ONLY <1>5, <1>6, <1>8, o \in 0..Len(f) - 3, a \in Nat, n \in {3, 4}, <1>1
<1> QED BY ONLY <1>7, <1>9

\* The only frame at the offset of a unit is the unit.
LEMMA FrameIsUnit ==
  ASSUME NEW s \in Seq(Encodable), NEW f, NEW off, Laid(f, s, off), NEW k \in 1..Len(s),
         NEW m \in {3, 4}, NEW to \in Nat, Frame(f, off[k - 1], m, to)
  PROVE  m = s[k].startCodeLen /\ to = off[k]
<1>1. PICK a \in Nat, n \in {3, 4}, l \in Nat, b \in Nat, t \in Nat :
        /\ a = off[k - 1] /\ n = s[k].startCodeLen /\ l = Len(Body(s[k])) /\ b = off[k]
        /\ b = a + n + l /\ b <= t /\ t = Len(f) /\ f \in Seq(Nat)
        /\ Lies(f, a, n, Body(s[k])) /\ Tidy(Body(s[k]))
  <2>1. /\ f \in Seq(Nat) /\ off[k - 1] \in Nat /\ off[k] \in Nat /\ off[k] <= Len(f)
        /\ s[k].startCodeLen \in {3, 4} /\ Tidy(Body(s[k])) /\ Len(Body(s[k])) \in Nat
        /\ Lies(f, off[k - 1], s[k].startCodeLen, Body(s[k]))
        /\ off[k] = off[k - 1] + s[k].startCodeLen + Len(Body(s[k]))
    BY UnitAt
  <2>2. Len(f) \in Nat
    BY ONLY <2>1
  <2> QED BY ONLY <2>1, <2>2
<1>2. StartCodeAt(f, a, n) /\ StartCodeAt(f, a, m)
  BY ONLY <1>1, Frame(f, off[k - 1], m, to) DEF Lies, Frame
<1>3. m = n
  BY ONLY <1>2, StartCodeBytes, a \in Nat, m \in {3, 4}, n \in {3, 4}
<1>4. /\ to \in a + n..t /\ (to = t \/ Boundary(f, to))
      /\ \A i \in a + n..to - 1 : ~ Boundary(f, i)
  BY ONLY <1>1, <1>3, Frame(f, off[k - 1], m, to) DEF Frame
<1>5. ASSUME to < b PROVE FALSE
  <2>1. to < a + n + Len(Body(s[k])) /\ a + n <= to /\ to # t
    BY ONLY <1>1, <1>4, <1>5, to \in Nat, a \in Nat, n \in {3, 4}, b \in Nat, t \in Nat
  <2>2. ~ Boundary(f, to)
    BY ONLY <1>1, <2>1, to \in Nat, a \in Nat, n \in {3, 4}, NoBoundaryInside
  <2> QED BY ONLY <1>4, <2>1, <2>2
<1>6. ASSUME b < to PROVE FALSE
  <2>1. b \in a + n..to - 1 /\ b # t
    <3>1. b = a + n + l /\ to <= t
      BY ONLY <1>1, <1>4
    <3> QED BY ONLY <1>6, <3>1, to \in Nat, a \in Nat, n \in {3, 4}, b \in Nat, t \in Nat, l \in Nat
  <2>2. ~ Boundary(f, b)
    BY ONLY <1>4, <2>1
  <2>3. PICK L \in Nat : L = Len(s) /\ off[L] = Len(f) /\ k \in 1..L
    BY DEF Laid
  <2>4. k # L
    BY ONLY <1>1, <2>1, <2>3
  <2>5. k + 1 \in 1..Len(s) /\ (k + 1) - 1 = k
    BY ONLY <2>3, <2>4, L \in Nat
  <2>6. s[k + 1].startCodeLen \in {3, 4} /\ Lies(f, off[(k + 1) - 1], s[k + 1].startCodeLen, Body(s[k + 1]))
    BY ONLY <2>5, s \in Seq(Encodable), Laid(f, s, off), UnitAt
  <2>7. StartCodeAt(f, off[k], s[k + 1].startCodeLen)
    BY ONLY <2>5, <2>6 DEF Lies
  <2> QED BY ONLY <1>1, <2>2, <2>6, <2>7 DEF Boundary
<1> QED BY ONLY <1>1, <1>3, <1>5, <1>6, to \in Nat, b \in Nat

-----------------------------------------------------------------------------
(* The program around the reader.                                          *)

\* A payload is a sequence of bytes.
LEMMA PayloadType ==
  ASSUME NEW e \in Seq(Byte), NEW past \in OverRead \X OverRead
  PROVE  GetRbsp(e, past) \in Seq(Byte)
<1> DEFINE K == Kept(e, Len(e))
           c == Cardinality(K)
<1>1. K \subseteq 3..Len(e) - 1 /\ Len(e) \in Nat
  BY DEF Kept
<1>2. IsFiniteSet(K) /\ c \in Nat /\ K \in SUBSET Nat
  <2>1. IsFiniteSet(3..Len(e) - 1)
    BY <1>1, FS_Interval
  <2> QED BY <1>1, <2>1, FS_Subset, FS_CardinalityType
<1>3. \A i \in K : i <= Len(e) /\ i + 1 \in 1..Len(e)
  BY <1>1
<1>4. ASSUME NEW k \in 1..c PROVE Nth(K, k) \in K
  <2>1. CASE Len(e) >= 3
    BY <1>1, <2>1, NthIsKept
  <2>2. CASE Len(e) < 3
    BY <1>1, <1>2, <2>2, FS_EmptySet
  <2> QED BY <1>1, <2>1, <2>2
<1>5. KeptBytes(e, Len(e)) \in Seq(Byte)
  <2>1. KeptBytes(e, Len(e)) = [k \in 1..c |-> e[Nth(K, k) + 1]]
    BY DEF KeptBytes
  <2>2. \A k \in 1..c : e[Nth(K, k) + 1] \in Byte
    <3> HIDE DEF K, c
    <3> QED BY <1>3, <1>4
  <2>3. [k \in 1..c |-> e[Nth(K, k) + 1]] \in Seq(Byte)
    <3> HIDE DEF K, c
    <3> QED BY <1>2, <2>2
  <2> QED BY <2>1, <2>3
<1>6. FirstTwo(e, past) \in Seq(Byte)
  <2>1. past[1] \in Byte /\ past[2] \in Byte
    BY OverReadAssumption
  <2>2. \A k \in 1..2 : (IF k < Len(e) THEN e[k + 1] ELSE past[k]) \in Byte
    BY <2>1
  <2> QED BY <2>2 DEF FirstTwo
<1> QED BY <1>5, <1>6, ConcatProperties DEF GetRbsp

\* Every step of the program is one of the reader, or leaves it alone.
LEMMA DriverSteps ==
  ASSUME [DriverNext]_allVars
  PROVE  [Next]_vars
BY DEF DriverNext, allVars, vars, OpenFile, OpenFails, CallReader, RunReader, PrintUnit,
       CloseFile, Next, Caller

\* Where the program is, and that it opens the file once.
DriverAt ==
  /\ step \in {"start", "loop", "reading", "body", "close", "done"}
  /\ rbsps \in Seq(Seq(Byte))
  /\ step = "reading" <=> pc # "idle"
  /\ step = "start" => /\ isOpen = FALSE /\ bad = FALSE /\ opens = 0
                       /\ fpos = 0 /\ input = <<>> /\ taken = 0
  /\ step \in {"loop", "reading", "body", "close"} => isOpen = TRUE /\ opens = 1
  /\ step = "done" => isOpen = FALSE

\* What was read is the file up to m_file's position.
ReadsFile == input = SubSeq(file, 1, fpos)

\* In a file without trailing zeros the byte past the end of m_buffer never
\* matters: the unit being scanned has its start code in m_buffer, and what is
\* behind the last one begins with a start code, until nothing is.
ScansFrames ==
  /\ pc = "scan" => StartCodeAt(m_buffer, 0, nalu.startCodeLen)
  /\ DeliversFileFrames
  /\ Boundary(file, 0) /\ opens > 0 =>
       \/ taken = Len(file)
       \/ step \notin {"close", "done"} /\ Boundary(file, taken)

DriverInv ==
  /\ ReaderInvariant /\ DriverAt
  /\ ~ bad => ReadsFile
  /\ WellFormed(file) /\ ~ bad => ScansFrames

\* A part of a sequence, and the part behind it.
LEMMA PartsJoin ==
  ASSUME NEW S, NEW s \in Seq(S), NEW a \in 0..Len(s), NEW b \in a..Len(s)
  PROVE  SubSeq(s, 1, a) \o SubSeq(s, a + 1, b) = SubSeq(s, 1, b)
<1>1. 1 \in 1..Len(s) + 1 /\ a \in 1 - 1..Len(s) /\ b \in a..Len(s)
  OBVIOUS
<1> QED BY <1>1, ConcatAdjacentSubSeq

\* While the file is open and can be read, the stream is the file.
LEMMA StreamIsFile ==
  ASSUME TypeOK, ReadsFile, isOpen, ~ bad
  PROVE  Source = file
<1>1. /\ file \in Seq(Byte) /\ fpos \in 0..Len(file)
      /\ Len(file) \in fpos..Len(file)
  BY FilesAssumption DEF TypeOK
<1>2. SubSeq(file, 1, fpos) \o SubSeq(file, fpos + 1, Len(file)) = SubSeq(file, 1, Len(file))
  BY <1>1, PartsJoin
<1>3. SubSeq(file, 1, Len(file)) = file
  BY <1>1
<1> QED BY <1>2, <1>3 DEF Source, ReadsFile

\* A step of the program leaves the file as it is, and a read that failed too.
LEMMA BadStays ==
  ASSUME DriverAt, [DriverNext]_allVars
  PROVE  file' = file /\ (~ bad' => ~ bad)
BY DEF DriverNext, allVars, vars, OpenFile, Open, OpenFails, CallReader, CallReadNalu,
       RunReader, ReadNalu, ReadFromFile, ReadError, HeadFound, HeadMissing, ScanHit,
       ScanMiss, ExtractRest, Extract, ReadMore, PrintUnit, ClearNalu, CloseFile, Close,
       DriverAt

\* What is read goes on where the last read ended.
LEMMA ReadsOn ==
  ASSUME TypeOK, DriverAt, ReadsFile, ~ bad', [DriverNext]_allVars
  PROVE  ReadsFile'
<1>1. CASE UNCHANGED <<file, fpos, input>>
  BY <1>1 DEF ReadsFile
<1>2. CASE OpenFile
  <2>1. file' = file /\ fpos' = 0 /\ input' = <<>>
    BY <1>2 DEF OpenFile, Open, DriverAt
  <2>2. file \in Seq(Byte)
    BY FilesAssumption DEF TypeOK
  <2> QED BY <2>1, <2>2 DEF ReadsFile
<1>3. CASE ReadFromFile
  <2>1. /\ file' = file /\ fpos' = fpos + Available
        /\ input' = input \o SubSeq(file, fpos + 1, fpos + Available)
    BY <1>3 DEF ReadFromFile
  <2>2. /\ file \in Seq(Byte) /\ fpos \in 0..Len(file)
        /\ fpos + Available \in fpos..Len(file)
    BY AvailableFits DEF TypeOK
  <2>3. SubSeq(file, 1, fpos) \o SubSeq(file, fpos + 1, fpos + Available)
          = SubSeq(file, 1, fpos + Available)
    <3>1. PICK b \in fpos..Len(file) : b = fpos + Available
      BY <2>2
    <3>2. SubSeq(file, 1, fpos) \o SubSeq(file, fpos + 1, b) = SubSeq(file, 1, b)
      BY <2>2, PartsJoin
    <3> QED BY <3>1, <3>2
  <2> QED BY <2>1, <2>3 DEF ReadsFile
<1> QED
  BY <1>1, <1>2, <1>3
     DEF DriverNext, allVars, vars, OpenFails, CallReader, CallReadNalu, RunReader, ReadNalu,
         ReadError, HeadFound, HeadMissing, ScanHit, ScanMiss, ExtractRest, Extract,
         ReadMore, PrintUnit, ClearNalu, CloseFile, Close

\* What the program prints are payloads, and it is where the reader is.
LEMMA DriverGoesOn ==
  ASSUME TypeOK, DriverAt, [DriverNext]_allVars
  PROVE  DriverAt'
<1>1. ASSUME NEW past \in OverRead \X OverRead, PrintUnit(past) PROVE DriverAt'
  <2>1. rbsps' \in Seq(Seq(Byte))
    <3>1. GetEbsp(nalu) \in Seq(Byte)
      BY DEF GetEbsp, TypeOK
    <3>2. GetRbsp(GetEbsp(nalu), past) \in Seq(Byte)
      BY <3>1, PayloadType
    <3> QED BY <1>1, <3>2, AppendProperties DEF PrintUnit, DriverAt
  <2> QED BY <1>1, <2>1 DEF PrintUnit, ClearNalu, DriverAt
<1>2. CASE RunReader
  <2>1. UNCHANGED <<isOpen, opens, rbsps>> /\ pc # "idle"
    BY <1>2 DEF RunReader, ReadNalu, ReadFromFile, ReadError, HeadFound, HeadMissing, ScanHit,
                ScanMiss, ExtractRest, Extract, Return, ReadMore
  <2> QED BY <1>2, <2>1 DEF RunReader, DriverAt
<1>3. CASE OpenFile \/ OpenFails \/ CallReader \/ CloseFile
  BY <1>3 DEF OpenFile, Open, OpenFails, CallReader, CallReadNalu, CloseFile, Close,
    DriverAt, vars
<1>4. CASE UNCHANGED allVars
  BY <1>4 DEF allVars, vars, DriverAt
<1> QED BY <1>1, <1>2, <1>3, <1>4 DEF DriverNext

\* A start code that FindStartCode sees is one of the stream, if three zeros only
\* ever begin one: also when its last byte is past the end of m_buffer.
LEMMA SeenIsThere ==
  ASSUME TypeOK, NoByteLost, WellFormed(Source), NEW o \in Nat, NEW n \in {3, 4}, NEW past,
         FindStartCode(m_buffer, o, n, past)
  PROVE  /\ o + 3 <= Len(m_buffer) /\ Boundary(Source, taken + o)
         /\ StartCodeAt(m_buffer, o, n)
              \/ (n = 4 /\ Len(m_buffer) = o + 3 /\ StartCodeAt(Source, taken + o, 4))
<1>1. /\ m_buffer \in Seq(Byte) /\ Len(m_buffer) \in Nat /\ o + 3 <= Len(m_buffer)
  BY DEF TypeOK, FindStartCode
<1>2. CASE StartCodeAt(m_buffer, o, n)
  BY <1>1, <1>2, StartCodeInBuffer DEF Boundary
<1>3. CASE n = 4 /\ Len(m_buffer) = o + 3
  <2>1. /\ m_buffer = SubSeq(Source, taken + 1, Len(input)) /\ Source \in Seq(Byte)
        /\ Len(m_buffer) = Len(input) - taken
        /\ taken \in 0..Len(Source) /\ Len(input) \in taken..Len(Source)
    BY BufferInSource, SourceType
  <2>2. \A k \in 1..3 : m_buffer[o + k] = Source[taken + (o + k)]
    <3>1. \A k \in 1..Len(input) - taken :
            SubSeq(Source, taken + 1, Len(input))[k] = Source[taken + k]
      BY ONLY <2>1, PartOfBytes
    <3>2. \A k \in 1..Len(input) - taken : m_buffer[k] = Source[taken + k]
      BY ONLY <2>1, <3>1
    <3>3. \A k \in 1..3 : o + k \in 1..Len(input) - taken
      BY <1>3, <2>1
    <3> QED BY ONLY <3>2, <3>3
  <2>3. m_buffer[o + 1] = 0 /\ m_buffer[o + 2] = 0 /\ m_buffer[o + 3] = 0
    BY <1>1, <1>3, FoundBytes
  <2>4. \A k \in 1..3 : m_buffer[o + k] = 0
    <3>1. \A k \in 1..3 : k = 1 \/ k = 2 \/ k = 3
      OBVIOUS
    <3> QED BY <2>3, <3>1
  <2>5. taken + o \in 0..Len(Source) - 3
    BY <1>3, <2>1
  <2>6. \A k \in 1..3 : Source[(taken + o) + k] = 0
    <3>1. \A k \in 1..3 : taken + (o + k) = (taken + o) + k
      BY <2>1
    <3> QED BY <2>2, <2>4, <3>1
  <2>7. StartCodeAt(Source, taken + o, 4)
    BY <2>5, <2>6 DEF WellFormed
  <2> QED BY <1>1, <1>3, <2>7 DEF Boundary
<1> QED BY <1>1, <1>2, <1>3, FoundIsStartCode

\* When readNalu takes a unit, it is the next frame of the file, and the file goes
\* on with a start code or ends.
LEMMA TakesFrames ==
  ASSUME ReaderInvariant, Source = file, WellFormed(file),
         pc = "scan", StartCodeAt(m_buffer, 0, nalu.startCodeLen),
         \/ ExtractRest
         \/ \E past \in OverRead : ScanHit(past)
  PROVE  /\ DeliversFileFrames'
         /\ taken' = Len(file) \/ Boundary(file, taken')
         /\ result' = "true" /\ pc' = "idle" /\ UNCHANGED <<file, opens, bad>>
         /\ \E n \in {3, 4}, to \in Nat :
              /\ Frame(file, taken, n, to) /\ taken' = to
              /\ nalu'.startCodeLen = n /\ nalu'.buffer = SubSeq(file, taken + 1, to)
<1>1. /\ TypeOK /\ NoByteLost /\ m_buffer \in Seq(Byte) /\ Len(m_buffer) \in Nat
      /\ idx \in Nat /\ idx >= nalu.startCodeLen /\ nalu.startCodeLen \in {0, 3, 4}
      /\ 0 + nalu.startCodeLen <= Len(m_buffer)
  BY DEF ReaderInvariant, CallInvariant, TypeOK, StartCodeAt
<1>2. PICK e \in 0..Len(m_buffer) :
        /\ e <= idx /\ e >= nalu.startCodeLen /\ Extract(e)
        /\ \/ Boundary(Source, taken + e) /\ e + 3 <= Len(m_buffer)
           \/ Source = input /\ e = Len(m_buffer)
  <2>1. CASE ExtractRest
    <3>1. Source = input
      BY <2>1 DEF ExtractRest, ReaderInvariant, CallInvariant
    <3>2. Len(m_buffer) <= idx /\ Extract(Len(m_buffer))
      BY <1>1, <2>1 DEF ExtractRest
    <3> QED BY <1>1, <3>1, <3>2
  <2>2. ASSUME NEW past \in OverRead, ScanHit(past)
        PROVE  /\ idx \in 0..Len(m_buffer) /\ Extract(idx)
               /\ Boundary(Source, taken + idx) /\ idx + 3 <= Len(m_buffer)
    <3>1. PICK n \in {3, 4} : FindStartCode(m_buffer, idx, n, past)
      BY <2>2 DEF ScanHit
    <3>2. Boundary(Source, taken + idx) /\ idx + 3 <= Len(m_buffer)
      BY <1>1, <3>1, SeenIsThere
    <3> QED BY <1>1, <2>2, <3>2 DEF ScanHit
  <2> QED BY <1>1, <2>1, <2>2
<1>3. PICK n \in {3, 4}, to \in taken..Len(Source) :
        /\ Frame(Source, taken, n, to)
        /\ nalu'.buffer = SubSeq(Source, taken + 1, to) /\ nalu'.startCodeLen = n
        /\ taken' = to /\ result' = "true"
  BY <1>2, ExtractTakesFrame
<1>4. /\ file' = file /\ pc' = "idle" /\ UNCHANGED <<opens, bad>>
      /\ taken \in 0..Len(file) /\ Len(file) \in Nat
  BY <1>1, <1>2, BufferInSource, FilesAssumption DEF Extract, Return, TypeOK
<1>5. DeliversFileFrames'
  <2>1. to \in 0..Len(file)
    BY <1>4
  <2> QED BY <1>3, <1>4, <2>1 DEF DeliversFileFrames
<1>6. taken' = Len(file) \/ Boundary(file, taken')
  BY <1>3 DEF Frame
<1>7. to \in Nat
  BY <1>4
<1> QED BY <1>3, <1>4, <1>5, <1>6, <1>7

\* A step of readNalu on a file without trailing zeros.
LEMMA ReadingScans ==
  ASSUME DriverInv, WellFormed(file), ScansFrames, ReadsFile, ~ bad', ~ bad, RunReader
  PROVE  ScansFrames'
<1>1. /\ ReaderInvariant /\ TypeOK /\ NoByteLost /\ isOpen /\ opens = 1
      /\ step = "reading" /\ pc # "idle"
  BY DEF DriverInv, DriverAt, ReaderInvariant, RunReader
<1>2. Source = file
  BY <1>1, StreamIsFile
<1>3. /\ Boundary(file, 0) => taken = Len(file) \/ Boundary(file, taken)
      /\ pc = "scan" => StartCodeAt(m_buffer, 0, nalu.startCodeLen)
  BY <1>1 DEF ScansFrames
<1>4. ASSUME ExtractRest \/ \E past \in OverRead : ScanHit(past) PROVE ScansFrames'
  <2>1. pc = "scan"
    BY <1>4 DEF ExtractRest, ScanHit
  <2>2. /\ DeliversFileFrames'
        /\ taken' = Len(file) \/ Boundary(file, taken')
        /\ result' = "true" /\ pc' = "idle" /\ UNCHANGED <<file, opens>>
    BY <1>1, <1>2, <1>3, <1>4, <2>1, TakesFrames
  <2>3. step' = "body"
    BY <2>2 DEF RunReader
  <2>4. pc' # "scan" /\ step' \notin {"close", "done"} /\ file' = file
    BY <2>2, <2>3
  <2> QED BY <2>2, <2>4 DEF ScansFrames
<1>5. ASSUME NEW past \in OverRead, HeadMissing(past) PROVE ScansFrames'
  <2>1. ~ Boundary(Source, taken)
    BY <1>1, <1>5, NoFrameAtHead
  <2>2. pc' = "idle" /\ result' = "false" /\ UNCHANGED <<file, taken, opens>>
    BY <1>5 DEF HeadMissing, Return
  <2>3. DeliversFileFrames'
    BY <2>2 DEF DeliversFileFrames
  <2> QED BY <1>2, <1>3, <2>1, <2>2, <2>3 DEF ScansFrames
<1>6. ASSUME UNCHANGED <<file, taken, opens>>, pc' # "idle",
             pc' = "scan" => StartCodeAt(m_buffer', 0, nalu'.startCodeLen)
      PROVE  ScansFrames'
  <2>1. step' = "reading"
    BY <1>6 DEF RunReader
  <2>2. DeliversFileFrames'
    BY <1>6 DEF DeliversFileFrames
  <2> QED BY <1>1, <1>3, <1>6, <2>1, <2>2 DEF ScansFrames
<1>7. ASSUME NEW past \in OverRead, HeadFound(past) PROVE ScansFrames'
  <2>1. PICK n \in {3, 4} : /\ FindStartCode(m_buffer, 0, n, past)
                            /\ nalu' = [nalu EXCEPT !.startCodeLen = n]
    BY <1>7 DEF HeadFound
  <2>2. /\ pc = "head" /\ pc' = "scan" /\ UNCHANGED <<file, taken, opens, m_buffer>>
        /\ nalu'.startCodeLen = n
    BY <1>1, <1>7, <2>1 DEF HeadFound, TypeOK
  <2>3. StartCodeAt(m_buffer, 0, n)
    <3>1. ASSUME Len(m_buffer) = 0 + 3, StartCodeAt(Source, taken + 0, 4) PROVE FALSE
      <4>1. Source = input
        BY <1>1, <2>2, <3>1 DEF ReaderInvariant, CallInvariant
      <4>2. Len(m_buffer) = Len(input) - taken /\ taken \in 0..Len(Source)
        BY <1>1, BufferInSource
      <4>3. (taken + 0) + 4 <= Len(Source)
        BY <3>1 DEF StartCodeAt
      <4>4. PICK l \in Nat, t \in Nat : l = Len(input) /\ t = taken
        BY <1>1 DEF TypeOK
      <4>5. l - t = 0 + 3
        BY ONLY <3>1, <4>2, <4>4
      <4>6. (t + 0) + 4 <= l
        BY ONLY <4>1, <4>3, <4>4
      <4> QED BY ONLY <4>4, <4>5, <4>6
    <3> QED BY <1>1, <1>2, <2>1, <3>1, SeenIsThere
  <2> QED BY <1>6, <2>2, <2>3
<1>8. ASSUME NEW past \in OverRead, ScanMiss(past) PROVE ScansFrames'
  BY <1>3, <1>6, <1>8 DEF ScanMiss
<1>9. ASSUME ReadFromFile \/ ReadError \/ ReadMore PROVE ScansFrames'
  BY <1>6, <1>9 DEF ReadFromFile, ReadError, ReadMore
<1> QED BY <1>4, <1>5, <1>7, <1>8, <1>9 DEF RunReader, ReadNalu

\* The program's own steps.
LEMMA ScansGoOn ==
  ASSUME DriverInv, WellFormed(file), ~ bad', [DriverNext]_allVars
  PROVE  ScansFrames'
<1>1. /\ ReaderInvariant /\ DriverAt /\ file' = file /\ ~ bad /\ ReadsFile /\ ScansFrames
  BY BadStays DEF DriverInv
<1>2. CASE RunReader
  BY <1>1, <1>2, ReadingScans
<1>3. CASE OpenFile
  <2>1. /\ taken = 0 /\ taken' = taken /\ step' = "loop" /\ pc' = "idle"
        /\ UNCHANGED <<nalu, result, pc>>
    BY <1>1, <1>3 DEF OpenFile, Open, DriverAt
  <2>2. DeliversFileFrames'
    BY <1>1, <2>1 DEF ScansFrames, DeliversFileFrames
  <2> QED BY <1>1, <2>1, <2>2 DEF ScansFrames
<1>4. CASE OpenFails \/ UNCHANGED allVars
  <2>1. /\ UNCHANGED <<opens, taken, pc, nalu, result, m_buffer>>
        /\ step' = step \/ opens = 0
    BY <1>1, <1>4 DEF OpenFails, allVars, vars, DriverAt
  <2>2. DeliversFileFrames'
    BY <1>1, <2>1 DEF ScansFrames, DeliversFileFrames
  <2> QED BY <1>1, <2>1, <2>2 DEF ScansFrames
<1>5. CASE CallReader \/ CloseFile
  <2>1. /\ UNCHANGED <<opens, taken, nalu, result>> /\ pc' # "scan" /\ pc = "idle"
        /\ step' \in {"close", "done"} => step \in {"close", "done"}
    BY <1>5 DEF CallReader, CallReadNalu, CloseFile, Close
  <2>2. DeliversFileFrames'
    BY <1>1, <2>1 DEF ScansFrames, DeliversFileFrames
  <2> QED BY <1>1, <2>1, <2>2 DEF ScansFrames
<1>6. ASSUME NEW past \in OverRead \X OverRead, PrintUnit(past) PROVE ScansFrames'
  <2>1. /\ UNCHANGED <<opens, taken>> /\ pc' = "idle" /\ nalu' = EmptyNalu
        /\ step' = "loop" /\ step = "body"
    BY <1>6 DEF PrintUnit, ClearNalu
  <2>2. DeliversFileFrames'
    BY <2>1 DEF DeliversFileFrames, EmptyNalu
  <2> QED BY <1>1, <2>1, <2>2 DEF ScansFrames
<1> QED BY <1>2, <1>3, <1>4, <1>5, <1>6 DEF DriverNext

\* The invariant holds at first ...
LEMMA DriverBegins == DriverInit => DriverInv
<1> SUFFICES ASSUME DriverInit PROVE DriverInv
  OBVIOUS
<1>1. ReaderInvariant
  BY ReaderInvariantInit DEF DriverInit
<1>2. DriverAt /\ ~ bad
  BY DEF DriverInit, Init, DriverAt
<1>3. ReadsFile
  <2>1. file \in Seq(Byte)
    BY FilesAssumption DEF DriverInit, Init
  <2> QED BY <2>1 DEF DriverInit, Init, ReadsFile
<1>4. ScansFrames
  BY DEF DriverInit, Init, ScansFrames, DeliversFileFrames
<1> QED BY <1>1, <1>2, <1>3, <1>4 DEF DriverInv

\* ... and in every step.
LEMMA DriverInvGoesOn ==
  ASSUME DriverInv, [DriverNext]_allVars
  PROVE  DriverInv'
<1>1. ReaderInvariant /\ TypeOK /\ DriverAt /\ file' = file /\ (~ bad' => ~ bad)
  BY BadStays DEF DriverInv, ReaderInvariant
<1>2. ReaderInvariant'
  BY <1>1, DriverSteps, ReaderInvariantStep
<1>3. DriverAt'
  BY <1>1, DriverGoesOn
<1>4. ~ bad' => ReadsFile'
  BY <1>1, ReadsOn DEF DriverInv
<1>5. WellFormed(file)' /\ ~ bad' => ScansFrames'
  BY <1>1, ScansGoOn
<1> QED BY <1>2, <1>3, <1>4, <1>5 DEF DriverInv

\* On every file without trailing zeros between its units, of any length, read in
\* chunks of any size of at least four, and whatever lies past the end of
\* m_buffer: what FuncTestRbsp prints are frames of the file, and if the file
\* begins with a start code it is read to its end.
THEOREM FramesAreDelivered == DriverSpec => []WellFormedDelivered
<1>1. DriverInv => WellFormedDelivered
  <2> SUFFICES ASSUME DriverInv PROVE WellFormedDelivered
    OBVIOUS
  <2>1. ReaderInvariant /\ TypeOK /\ NoByteLost /\ DriverTypeOK
    BY DEF DriverInv, ReaderInvariant, DriverAt, DriverTypeOK
  <2>2. ASSUME WellFormed(file), ~ bad PROVE DeliversFileFrames /\ ReadsWholeFile
    <3>1. ScansFrames /\ ReadsFile
      BY <2>2 DEF DriverInv
    <3>2. ASSUME taken = Len(file) PROVE m_buffer = <<>>
      <4>1. /\ file \in Seq(Byte) /\ fpos \in 0..Len(file) /\ m_buffer \in Seq(Byte)
            /\ Len(m_buffer) = Len(input) - taken
        BY <2>1, FilesAssumption, BufferInSource DEF TypeOK
      <4>2. Len(input) = fpos
        BY <3>1, <4>1 DEF ReadsFile
      <4>3. Len(m_buffer) = 0
        BY <3>2, <4>1, <4>2
      <4> QED BY <4>1, <4>3, EmptySeq
    <3> QED BY <3>1, <3>2 DEF ScansFrames, ReadsWholeFile
  <2> QED BY <2>1, <2>2 DEF WellFormedDelivered
<1> QED BY <1>1, DriverBegins, DriverInvGoesOn, PTL DEF DriverSpec

-----------------------------------------------------------------------------
(* What the program prints is what the encoder was given.                  *)

\* k units of the stream are printed, and the next one is in nalu or was not read.
Printed(s, off, k) ==
  /\ rbsps = [j \in 1..k |-> s[j].payload]
  /\ step # "body" => taken = off[k]
  /\ step = "body" => /\ k < Len(s) /\ taken = off[k + 1]
                      /\ nalu.startCodeLen = s[k + 1].startCodeLen
                      /\ nalu.buffer = SubSeq(file, off[k] + 1, off[k + 1])

PrintsUnits ==
  \A s \in Seq(Encodable) : \A off \in [0..Len(s) -> Nat] :
    Laid(file, s, off) => \E k \in 0..Len(s) : Printed(s, off, k)

\* The unit in nalu is turned into the payload the encoder was given.
LEMMA UnitIsDecoded ==
  ASSUME NEW s \in Seq(Encodable), NEW off, Laid(file, s, off), NEW k \in 1..Len(s),
         nalu.startCodeLen = s[k].startCodeLen,
         nalu.buffer = SubSeq(file, off[k - 1] + 1, off[k]), NEW past
  PROVE  IsValid(nalu) /\ GetRbsp(GetEbsp(nalu), past) = s[k].payload
<1>1. PICK a \in Nat, n \in {3, 4}, l \in Nat, b \in Nat, t \in Nat, e \in Seq(Nat) :
        /\ a = off[k - 1] /\ n = s[k].startCodeLen /\ e = Body(s[k]) /\ b = off[k]
        /\ b = a + n + l /\ b <= t /\ t = Len(file) /\ file \in Seq(Nat) /\ l = Len(e) /\ l >= 3
        /\ Lies(file, a, n, e)
  <2>1. /\ file \in Seq(Nat) /\ off[k - 1] \in Nat /\ off[k] \in Nat /\ off[k] <= Len(file)
        /\ s[k].startCodeLen \in {3, 4} /\ Tidy(Body(s[k])) /\ Len(Body(s[k])) \in Nat
        /\ Lies(file, off[k - 1], s[k].startCodeLen, Body(s[k]))
        /\ off[k] = off[k - 1] + s[k].startCodeLen + Len(Body(s[k]))
    BY UnitAt
  <2>2. Body(s[k]) \in Seq(Nat) /\ Len(Body(s[k])) >= 3
    BY ONLY <2>1 DEF Tidy
  <2>3. Len(file) \in Nat
    BY ONLY <2>1
  <2> QED BY ONLY <2>1, <2>2, <2>3
<1>2. PICK buf : buf = nalu.buffer
  OBVIOUS
<1>3. /\ buf \in Seq(Nat) /\ Len(buf) = n + l
      /\ \A i \in 1..n + l : buf[i] = file[a + i]
  <2>1. a \in 0..t /\ b \in a..t /\ b - a = n + l
    <3>1. b = a + n + l /\ b <= t
      BY ONLY <1>1
    <3> QED BY ONLY <3>1, a \in Nat, n \in {3, 4}, l \in Nat, b \in Nat, t \in Nat
  <2>2. /\ SubSeq(file, a + 1, b) \in Seq(Nat) /\ Len(SubSeq(file, a + 1, b)) = b - a
        /\ \A i \in 1..b - a : SubSeq(file, a + 1, b)[i] = file[a + i]
    <3>1. file \in Seq(Nat) /\ a \in 0..Len(file) /\ b \in a..Len(file)
      BY ONLY <1>1, <2>1
    <3> QED BY ONLY <3>1, PartOfBytes
  <2>3. buf = SubSeq(file, a + 1, b)
    BY ONLY <1>1, <1>2, nalu.buffer = SubSeq(file, off[k - 1] + 1, off[k])
  <2> QED BY ONLY <2>1, <2>2, <2>3
<1>4. PICK ebsp : ebsp = SubSeq(buf, n + 1, n + l)
  OBVIOUS
<1>5. /\ ebsp \in Seq(Nat) /\ Len(ebsp) = l
      /\ \A j \in 1..l : ebsp[j] = buf[n + j]
  <2>1. n \in 0..Len(buf) /\ n + l \in n..Len(buf) /\ (n + l) - n = l
    BY ONLY <1>3, n \in {3, 4}, l \in Nat
  <2>2. /\ SubSeq(buf, n + 1, n + l) \in Seq(Nat)
        /\ Len(SubSeq(buf, n + 1, n + l)) = (n + l) - n
        /\ \A j \in 1..(n + l) - n : SubSeq(buf, n + 1, n + l)[j] = buf[n + j]
    BY ONLY <1>3, <2>1, PartOfBytes
  <2> QED BY ONLY <1>4, <2>1, <2>2
<1>6. ebsp = e
  <2>1. \A j \in 1..l : n + j \in 1..n + l /\ a + (n + j) = a + n + j
    OBVIOUS
  <2>2. \A j \in 1..l : ebsp[j] = file[a + n + j]
    BY ONLY <1>3, <1>5, <2>1
  <2>3. \A j \in 1..l : file[a + n + j] = e[j]
    BY ONLY <1>1 DEF Lies
  <2>4. Len(ebsp) = Len(e) /\ \A j \in 1..Len(ebsp) : ebsp[j] = e[j]
    BY ONLY <1>1, <1>5, <2>2, <2>3
  <2> QED BY ONLY <1>5, <2>4, e \in Seq(Nat), SeqEqual
<1>7. IsValid(nalu)
  <2>1. n # 0 /\ Len(buf) > n
    <3>1. Len(buf) = n + l /\ l >= 3
      BY ONLY <1>1, <1>3
    <3> QED BY ONLY <3>1, n \in {3, 4}, l \in Nat
  <2>2. buf # <<>>
    BY ONLY <2>1, n \in {3, 4}
  <2> QED BY <1>1, <1>2, <2>1, <2>2 DEF IsValid
<1>8. GetEbsp(nalu) = e
  BY <1>1, <1>2, <1>3, <1>4, <1>6 DEF GetEbsp
<1>9. GetRbsp(Body(s[k]), past) = s[k].payload
  <2>1. s[k] \in Encodable
    OBVIOUS
  <2> QED BY <2>1, BodyOfUnit
<1> QED BY ONLY <1>1, <1>7, <1>8, <1>9

\* A unit that is taken is the next one of the stream.
LEMMA TakesNextUnit ==
  ASSUME NEW s \in Seq(Encodable), NEW off, Laid(file, s, off), NEW k \in 0..Len(s),
         NEW n \in {3, 4}, NEW to \in Nat, Frame(file, off[k], n, to)
  PROVE  k < Len(s) /\ n = s[k + 1].startCodeLen /\ to = off[k + 1]
<1>1. PICK L \in Nat : L = Len(s) /\ off[L] = Len(file) /\ k \in 0..L /\ Len(file) \in Nat
  BY DEF Laid
<1>2. k # L
  BY ONLY <1>1, Frame(file, off[k], n, to), n \in {3, 4} DEF Frame, StartCodeAt
<1>3. k + 1 \in 1..Len(s) /\ (k + 1) - 1 = k /\ k < Len(s)
  BY ONLY <1>1, <1>2, L \in Nat
<1>4. Frame(file, off[(k + 1) - 1], n, to)
  BY ONLY <1>3, Frame(file, off[k], n, to)
<1>5. n = s[k + 1].startCodeLen /\ to = off[k + 1]
  BY ONLY <1>3, <1>4, s \in Seq(Encodable), Laid(file, s, off), n \in {3, 4}, to \in Nat,
     FrameIsUnit
<1> QED BY <1>3, <1>5

\* What readNalu does to the stream.
LEMMA ReadingPrints ==
  ASSUME DriverInv, ~ bad, ~ bad', RunReader, NEW s \in Seq(Encodable), NEW off,
         Laid(file, s, off), NEW k \in 0..Len(s), Printed(s, off, k)
  PROVE  Printed(s, off, k)'
<1>1. /\ ReaderInvariant /\ TypeOK /\ isOpen /\ step = "reading" /\ pc # "idle" /\ ReadsFile
  BY DEF DriverInv, DriverAt, ReaderInvariant, RunReader
<1>2. Source = file /\ WellFormed(file)
  BY <1>1, StreamIsFile, LaidWellFormed
<1>3. rbsps' = rbsps /\ taken = off[k] /\ rbsps = [j \in 1..k |-> s[j].payload]
  BY <1>1 DEF Printed, RunReader
<1>4. ASSUME ExtractRest \/ \E past \in OverRead : ScanHit(past) PROVE Printed(s, off, k)'
  <2>1. pc = "scan"
    BY <1>4 DEF ExtractRest, ScanHit
  <2>2. StartCodeAt(m_buffer, 0, nalu.startCodeLen)
    BY <1>2, <2>1 DEF DriverInv, ScansFrames
  <2>3. result' = "true" /\ pc' = "idle" /\ file' = file
    BY <1>1, <1>2, <1>4, <2>1, <2>2, TakesFrames
  <2>4. PICK n \in {3, 4}, to \in Nat :
          /\ Frame(file, taken, n, to) /\ taken' = to
          /\ nalu'.startCodeLen = n /\ nalu'.buffer = SubSeq(file, taken + 1, to)
    BY <1>1, <1>2, <1>4, <2>1, <2>2, TakesFrames
  <2>5. k < Len(s) /\ n = s[k + 1].startCodeLen /\ to = off[k + 1]
    BY <1>3, <2>4, TakesNextUnit
  <2>6. step' = "body"
    BY <2>3 DEF RunReader
  <2> QED BY ONLY <1>3, <2>3, <2>4, <2>5, <2>6 DEF Printed
<1>5. ASSUME taken' = taken, pc' # "idle" \/ result' = "false" PROVE Printed(s, off, k)'
  <2>1. step' # "body"
    BY <1>5 DEF RunReader
  <2> QED BY ONLY <1>3, <1>5, <2>1 DEF Printed
<1>6. ASSUME NEW past \in OverRead, HeadMissing(past) PROVE Printed(s, off, k)'
  BY <1>5, <1>6 DEF HeadMissing, Return
<1>7. ASSUME NEW past \in OverRead, HeadFound(past) \/ ScanMiss(past) PROVE Printed(s, off, k)'
  BY <1>1, <1>5, <1>7 DEF HeadFound, ScanMiss
<1>8. ASSUME ReadFromFile \/ ReadError \/ ReadMore PROVE Printed(s, off, k)'
  BY <1>5, <1>8 DEF ReadFromFile, ReadError, ReadMore
<1> QED BY <1>4, <1>6, <1>7, <1>8 DEF RunReader, ReadNalu

\* Every step of the program leaves the printed units as they are, or prints the
\* next one.
LEMMA PrintsOn ==
  ASSUME DriverInv, PrintsUnits, ~ bad, ~ bad', [DriverNext]_allVars
  PROVE  PrintsUnits'
<1>1. file' = file /\ DriverAt
  BY BadStays DEF DriverInv
<1> SUFFICES ASSUME NEW s \in Seq(Encodable), NEW off \in [0..Len(s) -> Nat],
                    Laid(file, s, off)
             PROVE  \E k \in 0..Len(s) : Printed(s, off, k)'
  BY <1>1 DEF PrintsUnits
<1>2. PICK k \in 0..Len(s) : Printed(s, off, k)
  BY DEF PrintsUnits
<1>3. CASE RunReader
  BY <1>2, <1>3, ReadingPrints
<1>4. ASSUME NEW past \in OverRead \X OverRead, PrintUnit(past)
      PROVE  k + 1 \in 0..Len(s) /\ Printed(s, off, k + 1)'
  <2>1. /\ step = "body" /\ step' = "loop" /\ taken' = taken
        /\ rbsps' = IF IsValid(nalu) THEN Append(rbsps, GetRbsp(GetEbsp(nalu), past)) ELSE rbsps
    BY <1>4 DEF PrintUnit, ClearNalu
  <2>2. /\ k < Len(s) /\ taken = off[k + 1]
        /\ nalu.startCodeLen = s[k + 1].startCodeLen
        /\ nalu.buffer = SubSeq(file, off[k] + 1, off[k + 1])
        /\ rbsps = [j \in 1..k |-> s[j].payload]
    BY ONLY <1>2, <2>1 DEF Printed
  <2>3. k + 1 \in 1..Len(s) /\ (k + 1) - 1 = k /\ k + 1 \in 0..Len(s) /\ k \in Nat
    BY <2>2
  <2>4. IsValid(nalu) /\ GetRbsp(GetEbsp(nalu), past) = s[k + 1].payload
    BY ONLY <2>2, <2>3, s \in Seq(Encodable), Laid(file, s, off), UnitIsDecoded
  <2>5. rbsps' = Append(rbsps, s[k + 1].payload)
    BY <2>1, <2>4
  <2>6. Append(rbsps, s[k + 1].payload) = [j \in 1..k + 1 |-> s[j].payload]
    BY ONLY <2>2, <2>3
  <2> QED BY ONLY <2>1, <2>2, <2>3, <2>5, <2>6 DEF Printed
<1>5. ASSUME UNCHANGED <<taken, rbsps>>, step # "body", step' # "body" PROVE Printed(s, off, k)'
  BY ONLY <1>2, <1>5 DEF Printed
<1>6. CASE OpenFile \/ OpenFails \/ CallReader \/ CloseFile
  <2>1. UNCHANGED <<taken, rbsps>> /\ step # "body" /\ step' # "body"
    BY <1>6 DEF OpenFile, Open, OpenFails, CallReader, CallReadNalu, CloseFile, Close, vars
  <2> QED BY <1>5, <2>1
<1>7. CASE UNCHANGED allVars
  <2>1. UNCHANGED <<taken, rbsps, step, nalu, file>>
    BY <1>7 DEF allVars, vars
  <2>2. Printed(s, off, k)'
    BY ONLY <1>2, <2>1 DEF Printed
  <2> QED BY <2>2
<1> QED BY <1>3, <1>4, <1>6, <1>7 DEF DriverNext

RecoveryInv == DriverInv /\ (~ bad => PrintsUnits)

\* The payloads printed are those the encoder was given, of any number of units.
PayloadsComeBack ==
  step = "done" /\ opens > 0 /\ ~ bad =>
    \A s \in Seq(Encodable) :
      file = Encode(s) => rbsps = [k \in DOMAIN s |-> s[k].payload]

LEMMA AllComeBack == RecoveryInv => PayloadsComeBack
<1> SUFFICES ASSUME RecoveryInv, step = "done", opens > 0, ~ bad,
                    NEW s \in Seq(Encodable), file = Encode(s)
             PROVE  rbsps = [k \in DOMAIN s |-> s[k].payload]
  BY DEF PayloadsComeBack
<1>1. PICK off : Laid(file, s, off)
  BY EncodeLays
<1>2. PICK L \in Nat : /\ L = Len(s) /\ off \in [0..Len(s) -> Nat] /\ off[0] = 0
                       /\ off[L] = Len(file) /\ DOMAIN s = 1..L
  BY <1>1 DEF Laid
<1>3. PICK k \in 0..L : Printed(s, off, k)
  BY <1>1, <1>2 DEF RecoveryInv, PrintsUnits
<1>4. taken = off[k] /\ rbsps = [j \in 1..k |-> s[j].payload]
  BY <1>3 DEF Printed
<1>5. ASSUME k # L PROVE FALSE
  <2>1. k + 1 \in 1..Len(s) /\ (k + 1) - 1 = k /\ 1 \in 1..Len(s) /\ 1 - 1 = 0
    BY ONLY <1>2, <1>5, k \in 0..L, L \in Nat
  <2>2. off[(k + 1) - 1] < off[k + 1] /\ off[k + 1] <= Len(file)
        /\ off[(k + 1) - 1] \in Nat /\ off[k + 1] \in Nat /\ file \in Seq(Nat)
    BY <1>1, <2>1, UnitAt
  <2>3. off[k] # Len(file)
    <3>1. Len(file) \in Nat
      BY <2>2
    <3> QED BY ONLY <2>1, <2>2, <3>1
  <2>4. Boundary(file, 0)
    <3>1. s[1].startCodeLen \in {3, 4} /\ Lies(file, off[1 - 1], s[1].startCodeLen, Body(s[1]))
      BY <1>1, <2>1, UnitAt
    <3>2. StartCodeAt(file, 0, s[1].startCodeLen)
      BY ONLY <1>2, <2>1, <3>1 DEF Lies
    <3> QED BY ONLY <3>1, <3>2 DEF Boundary
  <2>5. WellFormed(file)
    BY <1>1, LaidWellFormed
  <2>6. taken = Len(file)
    BY <2>4, <2>5 DEF RecoveryInv, DriverInv, ScansFrames
  <2> QED BY <1>4, <2>3, <2>6
<1> QED BY ONLY <1>2, <1>4, <1>5

\* FuncTestRbsp prints the payloads that an encoder was given, all of them and in
\* order: for every number of units, start code, head byte and payload of at least
\* two bytes that does not end in zero, however the stream falls into chunks, and
\* whatever lies past the end of m_buffer, unless a read fails.
THEOREM EncodedIsRecovered == DriverSpec => []PayloadsComeBack
<1>1. DriverInit => RecoveryInv
  <2> SUFFICES ASSUME DriverInit PROVE RecoveryInv
    OBVIOUS
  <2>1. DriverInv
    BY DriverBegins
  <2>2. step = "start" /\ taken = 0 /\ rbsps = <<>>
    BY DEF DriverInit, Init
  <2>3. ASSUME NEW s \in Seq(Encodable), NEW off \in [0..Len(s) -> Nat], Laid(file, s, off)
        PROVE  0 \in 0..Len(s) /\ Printed(s, off, 0)
    <3>1. off[0] = 0 /\ 0 \in 0..Len(s)
      BY <2>3 DEF Laid
    <3>2. [j \in 1..0 |-> s[j].payload] = <<>>
      OBVIOUS
    <3> QED BY <2>2, <3>1, <3>2 DEF Printed
  <2> QED BY <2>1, <2>3 DEF RecoveryInv, PrintsUnits
<1>2. RecoveryInv /\ [DriverNext]_allVars => RecoveryInv'
  <2> SUFFICES ASSUME RecoveryInv, [DriverNext]_allVars PROVE RecoveryInv'
    OBVIOUS
  <2>1. DriverInv'
    BY DriverInvGoesOn DEF RecoveryInv
  <2>2. ASSUME ~ bad' PROVE PrintsUnits'
    <3>1. ~ bad
      BY <2>2, BadStays DEF RecoveryInv, DriverInv
    <3> QED BY <2>2, <3>1, PrintsOn DEF RecoveryInv
  <2> QED BY <2>1, <2>2 DEF RecoveryInv
<1> QED BY <1>1, <1>2, AllComeBack, PTL DEF DriverSpec

\* The property of the run: the streams it encodes are ones an encoder can write.
THEOREM StreamsAreRecovered == DriverSpec => []PayloadsRecovered
<1>1. Units \subseteq Encodable
  <2>1. <<9, 9>> \in Seq(Nat) /\ <<0, 1>> \in Seq(Nat) /\ <<0, 0, 1>> \in Seq(Nat)
    OBVIOUS
  <2>2. <<0, 0, 0, 3>> \in Seq(Nat) /\ <<3, 0, 0, 9>> \in Seq(Nat)
        /\ <<9, 0, 0, 2, 9>> \in Seq(Nat)
    OBVIOUS
  <2>3. ASSUME NEW p \in Payloads PROVE p \in Seq(Nat) /\ Len(p) >= 2 /\ p[Len(p)] # 0
    <3>1. CASE p = <<9, 9>>
      BY <2>1, <3>1
    <3>2. CASE p = <<0, 1>>
      BY <2>1, <3>2
    <3>3. CASE p = <<0, 0, 1>>
      BY <2>1, <3>3
    <3>4. CASE p = <<0, 0, 0, 3>>
      <4>1. Len(p) = 4 /\ p[4] = 3 /\ p \in Seq(Nat)
        BY ONLY <2>2, <3>4
      <4> QED BY ONLY <4>1
    <3>5. CASE p = <<3, 0, 0, 9>>
      <4>1. Len(p) = 4 /\ p[4] = 9 /\ p \in Seq(Nat)
        BY ONLY <2>2, <3>5
      <4> QED BY ONLY <4>1
    <3>6. CASE p = <<9, 0, 0, 2, 9>>
      <4>1. Len(p) = 5 /\ p[5] = 9 /\ p \in Seq(Nat)
        BY ONLY <2>2, <3>6
      <4> QED BY ONLY <4>1
    <3> QED BY ONLY <3>1, <3>2, <3>3, <3>4, <3>5, <3>6, p \in Payloads DEF Payloads
  <2> QED BY <2>3 DEF Units, Encodable
<1>2. Streams \subseteq Seq(Encodable)
  <2>1. \A E : \A u, v \in E : <<u>> \in Seq(E) /\ <<u, v>> \in Seq(E)
    OBVIOUS
  <2>2. \A u, v \in Units : <<u>> \in Seq(Encodable) /\ <<u, v>> \in Seq(Encodable)
    BY ONLY <1>1, <2>1
  <2>3. ASSUME NEW s \in Streams PROVE s \in Seq(Encodable)
    <3>1. CASE s \in {<<u>> : u \in Units}
      <4>1. PICK u \in Units : s = <<u>>
        BY <3>1
      <4> QED BY ONLY <2>2, <4>1, u \in Units
    <3>2. CASE s \in {<<u, v>> : u, v \in Units}
      <4>1. PICK u \in Units, v \in Units : s = <<u, v>>
        BY <3>2
      <4> QED BY ONLY <2>2, <4>1, u \in Units, v \in Units
    <3> QED BY <3>1, <3>2 DEF Streams
  <2> QED BY <2>3
<1>3. PayloadsComeBack => PayloadsRecovered
  BY <1>2 DEF PayloadsComeBack, PayloadsRecovered
<1> QED BY <1>3, EncodedIsRecovered, PTL

=============================================================================
