------------------------- MODULE RTCPCompoundPacket -------------------------
(***************************************************************************)
(* The bytes of an RTCP compound packet and how they are read:             *)
(* RTCPCompoundPacket::ParseData, the constructors of the packet classes   *)
(* that decide whether a packet has a known format, and the iterations     *)
(* over what a packet of known format holds.                               *)
(*                                                                         *)
(* A buffer is [len, part]: its length in bytes and the packets a writer   *)
(* put into it, each with its place (at), the fields of its header and the *)
(* bytes that steer the reader: word, the SSRCs by their offset from the   *)
(* start of the packet, and byte, the one-byte fields (item type and       *)
(* length, length of a reason, number of padding bytes).  All other bytes  *)
(* read as 0, so a reader that looks for a header elsewhere finds none.    *)
(***************************************************************************)
EXTENDS Integers, Sequences, SequencesExt

CONSTANTS
  ReportBlockBytes,  \* sizeof(RTCPReceiverReport), 24
  MaxCount           \* what the five bits of a header's count can hold, 31

ASSUME FormatAssumption ==
  /\ ReportBlockBytes \in Nat \ {0} /\ ReportBlockBytes % 4 = 0
  /\ MaxCount \in Nat \ {0}

HeaderBytes == 4         \* sizeof(RTCPCommonHeader)
SSRCBytes == 4           \* sizeof(uint32_t)
SenderInfoBytes == 20    \* sizeof(RTCPSenderReport)
SDESHeaderBytes == 2     \* sizeof(RTCPSDESHeader)

RoundUp4(n) == 4 * ((n + 3) \div 4)

Reports == {"SR", "RR"}

-----------------------------------------------------------------------------
(* Reading fields.                                                         *)

\* The packet that begins at offset o, if a writer put one there.
Begins(w, o) == {i \in DOMAIN w.part : w.part[i].at = o}
HeaderAt(w, o) ==
  IF Begins(w, o) = {} THEN [version |-> 0, type |-> "none"]
  ELSE LET p == w.part[CHOOSE i \in Begins(w, o) : TRUE]
       IN [version |-> 2, type |-> p.type, count |-> p.count,
           padding |-> p.padding, words |-> p.words]

Holding(w, o) == {i \in DOMAIN w.part : w.part[i].at <= o /\ o < w.part[i].at + w.part[i].size}
ByteAt(w, o) ==
  LET here == {i \in Holding(w, o) : o - w.part[i].at \in DOMAIN w.part[i].byte}
  IN IF here = {} THEN 0
     ELSE LET p == w.part[CHOOSE i \in here : TRUE] IN p.byte[o - p.at]
WordAt(w, o) ==
  LET here == {i \in Holding(w, o) : o - w.part[i].at \in DOMAIN w.part[i].word}
  IN IF here = {} THEN 0
     ELSE LET p == w.part[CHOOSE i \in here : TRUE] IN p.word[o - p.at]

\* The length field counts words without the first.
PacketBytes(h) == 4 * (h.words + 1)

-----------------------------------------------------------------------------
(* RTCPCompoundPacket::ParseData.                                          *)

\* The offsets at which ParseData looks for a header, one length after the
\* other; the last one when a length leads out of the buffer.
Starts(w) ==
  LET from[o \in 0..w.len] ==
        IF w.len - o < HeaderBytes THEN <<>>
        ELSE LET h == HeaderAt(w, o)
             IN IF h.version # 2 \/ PacketBytes(h) > w.len - o THEN <<o>>
                ELSE <<o>> \o from[o + PacketBytes(h)]
  IN from[0]

FirstIsReport(w) == HeaderAt(w, 0).type \in Reports
LastEndsBuffer(w, s) ==
  Last(s) + PacketBytes(HeaderAt(w, Last(s))) = w.len
PaddingOnlyLast(w, s) ==
  \A i \in DOMAIN s : HeaderAt(w, s[i]).padding => i = Len(s) /\ LastEndsBuffer(w, s)

\* ParseData takes the packet: versions, first type, lengths and padding agree,
\* and nothing remains.
Accepted(w) ==
  LET s == Starts(w)
  IN /\ s # <<>>
     /\ \A i \in DOMAIN s : HeaderAt(w, s[i]).version = 2
     /\ FirstIsReport(w)
     /\ PaddingOnlyLast(w, s)
     /\ LastEndsBuffer(w, s)

-----------------------------------------------------------------------------
(* The constructors: knownformat of the packet that begins at o.           *)

PadCount(w, o) ==
  IF HeaderAt(w, o).padding THEN ByteAt(w, o + PacketBytes(HeaderAt(w, o)) - 1) ELSE 0

\* The offset behind the packet's data, its padding taken off.
DataEnd(w, o) == o + PacketBytes(HeaderAt(w, o)) - PadCount(w, o)
PaddingFits(w, o) ==
  PadCount(w, o) % 4 = 0 /\ PadCount(w, o) < PacketBytes(HeaderAt(w, o))

BlocksAt(h) == HeaderBytes + SSRCBytes + (IF h.type = "SR" THEN SenderInfoBytes ELSE 0)
KnownReport(w, o) ==
  LET h == HeaderAt(w, o)
  IN DataEnd(w, o) - o = BlocksAt(h) + ReportBlockBytes * h.count

NoEnd == -1

\* Where the constructor of RTCPSDESPacket finds the end of the chunk at c.
ChunkEnd(w, c, end) ==
  LET items[p \in c..end + 1] ==
        IF p >= end THEN NoEnd
        ELSE IF ByteAt(w, p) = 0
             THEN LET q == c + RoundUp4(p + 1 - c) IN IF q > end THEN NoEnd ELSE q
        ELSE IF end - p < SDESHeaderBytes THEN NoEnd
        ELSE IF ByteAt(w, p + 1) > end - p - SDESHeaderBytes THEN NoEnd
        ELSE items[p + SDESHeaderBytes + ByteAt(w, p + 1)]
  IN IF end - c < 2 * SSRCBytes THEN NoEnd ELSE items[c + SSRCBytes]

KnownSDES(w, o) ==
  LET h == HeaderAt(w, o)
      end == DataEnd(w, o)
      chunks[n \in 0..h.count] ==   \* where the first n chunks end
        IF n = 0 THEN o + HeaderBytes
        ELSE IF chunks[n - 1] \in {NoEnd, end} THEN NoEnd
        ELSE ChunkEnd(w, chunks[n - 1], end)
  IN end - o >= HeaderBytes /\ chunks[h.count] = end

ReasonAt(w, o) == o + HeaderBytes + SSRCBytes * HeaderAt(w, o).count
HasReasonForLeaving(w, o) == ReasonAt(w, o) < DataEnd(w, o)
KnownBYE(w, o) ==
  /\ ReasonAt(w, o) <= DataEnd(w, o)
  /\ HasReasonForLeaving(w, o) =>
       ByteAt(w, ReasonAt(w, o)) <= DataEnd(w, o) - ReasonAt(w, o) - 1

KnownAPP(w, o) == DataEnd(w, o) - o >= HeaderBytes + 2 * SSRCBytes

KnownFormat(w, o) ==
  /\ PaddingFits(w, o)
  /\ CASE HeaderAt(w, o).type \in Reports -> KnownReport(w, o)
       [] HeaderAt(w, o).type = "SDES" -> KnownSDES(w, o)
       [] HeaderAt(w, o).type = "BYE" -> KnownBYE(w, o)
       [] HeaderAt(w, o).type = "APP" -> KnownAPP(w, o)
       [] OTHER -> TRUE

-----------------------------------------------------------------------------
(* What a packet of known format holds.  The iterations over chunks and    *)
(* items look at no length but the one in the item: they go where the      *)
(* bytes send them, up to the end of the buffer here.                      *)

\* GotoFirstItem and GotoNextItem: the offsets of the items of the chunk at c.
Items(w, c) ==
  LET from[p \in 0..w.len + 2 * 256] ==
        IF p >= w.len \/ ByteAt(w, p) = 0 THEN <<>>
        ELSE <<p>> \o from[p + SDESHeaderBytes + ByteAt(w, p + 1)]
  IN from[c + SSRCBytes]
ItemEnd(w, p) == p + SDESHeaderBytes + ByteAt(w, p + 1)
GotoNextChunk(w, c) ==
  LET s == Items(w, c)
      zero == IF s = <<>> THEN c + SSRCBytes ELSE ItemEnd(w, Last(s))
  IN c + RoundUp4(zero + 1 - c)

\* GotoFirstChunk and GotoNextChunk: the offsets of the chunks.
Chunks(w, o) ==
  LET at[n \in 1..HeaderAt(w, o).count] ==
        IF n = 1 THEN o + HeaderBytes ELSE GotoNextChunk(w, at[n - 1])
  IN [n \in 1..HeaderAt(w, o).count |-> at[n]]

Chunk(w, c) ==
  LET at == Items(w, c)
  IN [ssrc |-> WordAt(w, c),
      items |-> [i \in DOMAIN at |->
                   [id |-> ByteAt(w, at[i]), len |-> ByteAt(w, at[i] + 1)]]]

Blocks(w, o) ==
  [n \in 1..HeaderAt(w, o).count |->
     WordAt(w, o + BlocksAt(HeaderAt(w, o)) + ReportBlockBytes * (n - 1))]
Leaving(w, o) ==
  [n \in 1..HeaderAt(w, o).count |-> WordAt(w, o + HeaderBytes + SSRCBytes * (n - 1))]

\* All packets of a type that the reader can interpret, what they hold put
\* together.
Gather(w, types, Held(_, _)) ==
  LET s == SelectSeq(Starts(w), LAMBDA o : HeaderAt(w, o).type \in types /\ KnownFormat(w, o))
  IN FlattenSeq([i \in DOMAIN s |-> Held(w, s[i])])

SDESChunks(w, o) ==
  LET at == Chunks(w, o) IN [n \in DOMAIN at |-> Chunk(w, at[n])]
AppLength(w, o) == <<DataEnd(w, o) - o - HeaderBytes - 2 * SSRCBytes>>

Contents(w) ==
  [sender |-> WordAt(w, HeaderBytes),
   sr |-> HeaderAt(w, 0).type = "SR",
   blocks |-> Gather(w, Reports, Blocks),
   sources |-> Gather(w, {"SDES"}, SDESChunks),
   byes |-> Gather(w, {"BYE"}, Leaving),
   apps |-> Gather(w, {"APP"}, AppLength)]

=============================================================================
