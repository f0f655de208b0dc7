----------------------------- MODULE FileReader -----------------------------
(***************************************************************************)
(* AnnexB::FileReader (FileReader.h, FileReader.cpp) under a caller that   *)
(* opens, closes and reads in any order.  readNalu is split where its loop *)
(* turns: one step per readFromFile, one for the start code at the head of *)
(* m_buffer, one per offset of the scan for the next start code.           *)
(*                                                                         *)
(* FindStartCode is given a length and checks it against 3, but its second *)
(* test reads a fourth byte.  With exactly three bytes left that is a read *)
(* past the end of m_buffer; the byte it finds is a member of OverRead.    *)
(***************************************************************************)
EXTENDS StartCodes

CONSTANTS
  Byte,        \* byte values; the reader tells 0 and 1 from the rest
  Chunk,       \* bytes readFromFile asks for (1024 in the code)
  Files,       \* the contents the named file may have
  OverRead,    \* values the byte past the end of m_buffer may have
  ReadErrors,  \* whether the operating system may fail a read
  MaxOpens     \* bound: how often the caller opens the file

ASSUME ByteAssumption == Byte \subseteq Nat /\ {0, 1} \subseteq Byte
ASSUME ChunkAssumption == Chunk \in Nat /\ Chunk >= 4
ASSUME FilesAssumption == Files \subseteq Seq(Byte)
ASSUME OverReadAssumption == OverRead \subseteq Byte /\ OverRead # {}
ASSUME ReadErrorsAssumption == ReadErrors \in BOOLEAN
ASSUME MaxOpensAssumption == MaxOpens \in Nat

VARIABLES
  file,        \* what the named file holds
  isOpen,      \* m_file.is_open()
  fpos,        \* how far m_file has read
  bad,         \* m_file failed; every later read returns nothing
  m_buffer,
  nalu,        \* the caller's Nalu: m_startCodeLen and m_buffer
  pc,          \* where readNalu is, "idle" between calls
  isReachEnd,  \* locals of readNalu
  idx,
  result,      \* what the last finished readNalu returned
  input,       \* history: all bytes ever appended to m_buffer
  taken,       \* history: how many of them were handed out
  opens        \* number of opens, bounded by MaxOpens

stream == <<file, isOpen, fpos, bad>>
history == <<input, taken>>
vars == <<file, isOpen, fpos, bad, m_buffer, nalu, pc, isReachEnd, idx,
          result, input, taken, opens>>

EmptyNalu == [startCodeLen |-> 0, buffer |-> <<>>]

TypeOK ==
  /\ file \in Files
  /\ isOpen \in BOOLEAN
  /\ fpos \in 0..Len(file)
  /\ bad \in BOOLEAN
  /\ m_buffer \in Seq(Byte)
  /\ nalu \in [startCodeLen : {0, 3, 4}, buffer : Seq(Byte)]
  /\ pc \in {"idle", "read", "head", "scan"}
  /\ isReachEnd \in BOOLEAN
  /\ idx \in Nat
  /\ result \in {"none", "true", "false"}
  /\ input \in Seq(Byte)
  /\ taken \in 0..Len(input)
  /\ opens \in 0..MaxOpens

-----------------------------------------------------------------------------
(* Helpers.                                                                *)

\* The byte FindStartCode sees k places after offset o.
ByteAt(buf, o, k, past) ==
  IF o + k < Len(buf) THEN buf[o + k + 1] ELSE past

\* Faulty variant: it asks for four bytes before it looks at three.
FindStartCodeNeedsFour(buf, o, n, past) ==
  /\ Len(buf) - o >= 4
  /\ \A k \in 0..n - 2 : ByteAt(buf, o, k, past) = 0
  /\ ByteAt(buf, o, n - 1, past) = 1

\* FindStartCode(buf + o, size - o) returns true with startCodeLen = n.
FindStartCode(buf, o, n, past) ==
  /\ Len(buf) - o >= 3
  /\ \A k \in 0..n - 2 : ByteAt(buf, o, k, past) = 0
  /\ ByteAt(buf, o, n - 1, past) = 1

\* readNalu returns; its locals are dead.
Return(r) ==
  /\ pc' = "idle"
  /\ result' = r
  /\ isReachEnd' = FALSE
  /\ idx' = 0

\* Faulty variant: the erase takes one byte too many.
ExtractErasesMore(n) ==
  /\ nalu' = [nalu EXCEPT !.buffer = SubSeq(m_buffer, 1, n)]
  /\ m_buffer' = SubSeq(m_buffer, n + 2, Len(m_buffer))
  /\ taken' = taken + n
  /\ Return("true")
  /\ UNCHANGED <<file, isOpen, fpos, bad, input, opens>>

\* readNalu returns true with the first n bytes of m_buffer.
Extract(n) ==
  /\ nalu' = [nalu EXCEPT !.buffer = SubSeq(m_buffer, 1, n)]
  /\ m_buffer' = SubSeq(m_buffer, n + 1, Len(m_buffer))
  /\ taken' = taken + n
  /\ Return("true")
  /\ UNCHANGED <<file, isOpen, fpos, bad, input, opens>>

-----------------------------------------------------------------------------
(* The caller.                                                             *)

Init ==
  /\ file \in Files
  /\ isOpen = FALSE
  /\ fpos = 0
  /\ bad = FALSE
  /\ m_buffer = <<>>
  /\ nalu = EmptyNalu
  /\ pc = "idle"
  /\ isReachEnd = FALSE
  /\ idx = 0
  /\ result = "none"
  /\ input = <<>>
  /\ taken = 0
  /\ opens = 0

\* Opening a file clears the state of m_file, and nothing else.
Open ==
  /\ pc = "idle"
  /\ ~ isOpen
  /\ opens < MaxOpens
  /\ isOpen' = TRUE
  /\ fpos' = 0
  /\ bad' = FALSE
  /\ opens' = opens + 1
  /\ UNCHANGED <<file, m_buffer, nalu, pc, isReachEnd, idx, result, input, taken>>

Close ==
  /\ pc = "idle"
  /\ isOpen
  /\ isOpen' = FALSE
  /\ UNCHANGED <<file, fpos, bad, m_buffer, nalu, pc, isReachEnd, idx, result,
                 input, taken, opens>>

ClearNalu ==
  /\ pc = "idle"
  /\ nalu' = EmptyNalu
  /\ UNCHANGED <<file, isOpen, fpos, bad, m_buffer, pc, isReachEnd, idx, result,
                 input, taken, opens>>

CallReadNalu ==
  /\ pc = "idle"
  /\ pc' = "read"
  /\ UNCHANGED <<file, isOpen, fpos, bad, m_buffer, nalu, isReachEnd, idx,
                 result, input, taken, opens>>

-----------------------------------------------------------------------------
(* readNalu.                                                               *)

\* How many bytes the next read yields.
Available ==
  IF isOpen /\ ~ bad
  THEN IF Len(file) - fpos < Chunk THEN Len(file) - fpos ELSE Chunk
  ELSE 0

\* Faulty variant: a read of no bytes is not taken for the end.
ReadFromFileNeverEnds ==
  /\ pc = "read"
  /\ LET bytes == SubSeq(file, fpos + 1, fpos + Available)
     IN  /\ m_buffer' = m_buffer \o bytes
         /\ input' = input \o bytes
         /\ fpos' = fpos + Available
         /\ isReachEnd' = FALSE
  /\ pc' = "head"
  /\ UNCHANGED <<file, isOpen, bad, nalu, idx, result, taken, opens>>

ReadFromFile ==
  /\ pc = "read"
  /\ LET bytes == SubSeq(file, fpos + 1, fpos + Available)
     IN  /\ m_buffer' = m_buffer \o bytes
         /\ input' = input \o bytes
         /\ fpos' = fpos + Available
         /\ isReachEnd' = (Available = 0)
  /\ pc' = "head"
  /\ UNCHANGED <<file, isOpen, bad, nalu, idx, result, taken, opens>>

\* The read fails: gcount() is 0, and m_file stays in its failed state.
ReadError ==
  /\ ReadErrors
  /\ pc = "read"
  /\ Available > 0
  /\ bad' = TRUE
  /\ isReachEnd' = TRUE
  /\ pc' = "head"
  /\ UNCHANGED <<file, isOpen, fpos, m_buffer, nalu, idx, result, input, taken,
                 opens>>

HeadFound(past) ==
  /\ pc = "head"
  /\ \E n \in {3, 4} :
       /\ FindStartCode(m_buffer, 0, n, past)
       /\ nalu' = [nalu EXCEPT !.startCodeLen = n]
       /\ idx' = n
  /\ pc' = "scan"
  /\ UNCHANGED <<file, isOpen, fpos, bad, m_buffer, isReachEnd, result, input,
                 taken, opens>>

HeadMissing(past) ==
  /\ pc = "head"
  /\ \A n \in {3, 4} : ~ FindStartCode(m_buffer, 0, n, past)
  /\ Return("false")
  /\ UNCHANGED <<file, isOpen, fpos, bad, m_buffer, nalu, input, taken, opens>>

ScanHit(past) ==
  /\ pc = "scan"
  /\ idx < Len(m_buffer)
  /\ \E n \in {3, 4} : FindStartCode(m_buffer, idx, n, past)
  /\ Extract(idx)

ScanMiss(past) ==
  /\ pc = "scan"
  /\ idx < Len(m_buffer)
  /\ \A n \in {3, 4} : ~ FindStartCode(m_buffer, idx, n, past)
  /\ idx' = idx + 1
  /\ UNCHANGED <<file, isOpen, fpos, bad, m_buffer, nalu, pc, isReachEnd,
                 result, input, taken, opens>>

\* Faulty variant: it does not ask whether the file has more.
ExtractRestUnasked ==
  /\ pc = "scan"
  /\ idx >= Len(m_buffer)
  /\ Extract(Len(m_buffer))

\* No start code in the rest of m_buffer: what is left is the last NAL unit ...
ExtractRest ==
  /\ pc = "scan"
  /\ idx >= Len(m_buffer)
  /\ isReachEnd
  /\ Extract(Len(m_buffer))

\* ... unless the file may hold more of it.
ReadMore ==
  /\ pc = "scan"
  /\ idx >= Len(m_buffer)
  /\ ~ isReachEnd
  /\ pc' = "read"
  /\ UNCHANGED <<file, isOpen, fpos, bad, m_buffer, nalu, isReachEnd, idx,
                 result, input, taken, opens>>

ReadNalu ==
  \/ ReadFromFile
  \/ ReadError
  \/ \E past \in OverRead :
       HeadFound(past) \/ HeadMissing(past) \/ ScanHit(past) \/ ScanMiss(past)
  \/ ExtractRest
  \/ ReadMore

Caller == Open \/ Close \/ ClearNalu \/ CallReadNalu

Next == Caller \/ ReadNalu

Spec == Init /\ [][Next]_vars

\* A call that was made is executed: nothing in the process blocks it.
FairSpec == Spec /\ WF_vars(ReadNalu)

-----------------------------------------------------------------------------
(* Properties.                                                             *)

\* The stream the reader works through: what m_buffer was fed, then what a
\* usable open file still holds.
Source ==
  input \o (IF isOpen /\ ~ bad THEN SubSeq(file, fpos + 1, Len(file)) ELSE <<>>)

\* The bytes handed out and m_buffer are together exactly the bytes read, in
\* order: the erase in readNalu neither drops nor repeats a byte, however the
\* reads, the cuts, the closes and the re-opens of the file fall.
NoByteLost == m_buffer = SubSeq(input, taken + 1, Len(input))

\* What the locals and buffers of a running readNalu know of the stream, at the
\* places where an argument about a later step needs it.  The head is tested on
\* four bytes or on all there will be; isReachEnd means that there will be no
\* more; the scan has left no start code behind; the unit has its start code,
\* if the byte past the end of m_buffer did not pass for the end of one.
CallInvariant ==
  /\ pc = "head" => Len(m_buffer) >= 4 \/ Source = input
  /\ isReachEnd => pc \in {"head", "scan"} /\ Source = input
  /\ pc = "scan" =>
       /\ nalu.startCodeLen # 0
       /\ idx >= nalu.startCodeLen
       /\ \A i \in 3 .. idx - 1 : ~ Boundary(m_buffer, i)
       /\ StartCodeAt(m_buffer, 0, nalu.startCodeLen) \/ 1 \in OverRead

\* A Nalu that was never filled is empty, and one that was holds no start code
\* behind the third byte, also while the next call has set its m_startCodeLen
\* and not yet its m_buffer.
NaluInvariant ==
  /\ nalu.startCodeLen = 0 => nalu.buffer = <<>>
  /\ \A i \in 3 .. Len(nalu.buffer) - 1 : ~ Boundary(nalu.buffer, i)

\* All of it together is what every step of the reader preserves.
ReaderInvariant ==
  /\ TypeOK
  /\ NoByteLost
  /\ CallInvariant
  /\ NaluInvariant

\* A NAL unit that readNalu hands out never holds a second start code, even
\* where the unit came from several reads and its start code from two.
OneFramePerNalu ==
  pc = "idle" =>
    \A i \in nalu.startCodeLen .. Len(nalu.buffer) - 1 : ~ Boundary(nalu.buffer, i)

\* readNalu gives up only where no start code is, however little of the stream
\* was in m_buffer when it looked: a caller that stops at "false" has not been
\* turned away by a start code that was still on its way.
FailsOnlyWithoutFrame ==
  [][pc # "idle" /\ pc' = "idle" /\ result' = "false" => ~ Boundary(Source', taken')]_vars

\* Reading in chunks is invisible: the reader hands out the frames of the stream.
AbstractSource ==
  INSTANCE NaluSource WITH source <- Source, frame <- nalu.buffer

ImplementsNaluSource == AbstractSource!Spec

\* Every call of readNalu returns: its loop reads until the file has no more.
CallsReturn == pc # "idle" ~> pc = "idle"

\* What readNalu reports as read is one frame of the file, with its start code.
DeliversFileFrames ==
  pc = "idle" /\ result = "true" /\ nalu # EmptyNalu =>
    \E o \in 0..Len(file), e \in 0..Len(file) :
      /\ Frame(file, o, nalu.startCodeLen, e)
      /\ nalu.buffer = SubSeq(file, o + 1, e)
=============================================================================
