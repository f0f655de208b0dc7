--------------------- MODULE RTCPCompoundPacketBuilder ---------------------
(***************************************************************************)
(* RTCPCompoundPacketBuilder: collects reports, SDES chunks, APP and BYE   *)
(* packets under a maximum size and lays them out in one buffer.  A        *)
(* builder is a value b here, since whoever builds a packet makes a        *)
(* builder for it and lets it go; Adds... says whether a call is taken,    *)
(* With... what the builder is afterwards.                                 *)
(*                                                                         *)
(* header is report.headerlength and sr report.isSR; an SDES item is its   *)
(* type and its length.  RTP_SUPPORT_RTCPUNKNOWN is off, as the build has  *)
(* it.                                                                     *)
(***************************************************************************)
EXTENDS RTCPCompoundPacket

CONSTANTS
  MinPacketSize,   \* RTP_MINPACKETSIZE, 600
  ItemId           \* the item types, as the number each has in a packet

ASSUME BuilderAssumption ==
  /\ MinPacketSize \in Nat
  /\ \A t \in DOMAIN ItemId : ItemId[t] \in 1..255

Smallest(m, n) == IF m < n THEN m ELSE n
CeilDiv(m, n) == (m + n - 1) \div n
SumOf(s) ==
  LET sum[i \in 0..Len(s)] == IF i = 0 THEN 0 ELSE sum[i - 1] + s[i]
  IN  sum[Len(s)]

-----------------------------------------------------------------------------
(* InitBuild, and the bytes a builder's contents need.                     *)

InitBuild(size) ==
  [max |-> size, sr |-> FALSE, header |-> 0, own |-> 0, blocks |-> <<>>,
   sources |-> <<>>, byes |-> <<>>, apps |-> <<>>]

\* Faulty variant, for the mutants: one header, however many packets.
ReportBytesOneHeader(b, n) ==
  IF n = 0 THEN (IF b.header = 0 THEN 0 ELSE HeaderBytes + b.header)
  ELSE n * ReportBlockBytes + HeaderBytes + SSRCBytes
       + (IF b.sr THEN SenderInfoBytes ELSE 0)

\* Report::NeededBytes for n blocks; each packet holds MaxCount of them.
ReportBytes(b, n) ==
  IF n = 0 THEN (IF b.header = 0 THEN 0 ELSE HeaderBytes + b.header)
  ELSE n * ReportBlockBytes + CeilDiv(n, MaxCount) * (HeaderBytes + SSRCBytes)
       + (IF b.sr THEN SenderInfoBytes ELSE 0)
NeededReport(b) == ReportBytes(b, Len(b.blocks))
NeededBytesWithExtraReportBlock(b) == ReportBytes(b, Len(b.blocks) + 1)

\* Faulty variant, for the mutants: items that fill their last word leave no
\* place for the zero byte.
NeededSourceWithoutZero(items) ==
  RoundUp4(SumOf([i \in DOMAIN items |-> SDESHeaderBytes + items[i].len])) + SSRCBytes

\* SDESSource::NeededBytes: the items, a zero byte, the alignment, the SSRC.
ItemBytes(items) == SumOf([i \in DOMAIN items |-> SDESHeaderBytes + items[i].len])
NeededSource(items) == RoundUp4(ItemBytes(items) + 1) + SSRCBytes

SDESHeaders(n) == CeilDiv(n, MaxCount) * HeaderBytes
NeededSDES(b) ==
  SumOf([i \in DOMAIN b.sources |-> NeededSource(b.sources[i].items)])
  + SDESHeaders(Len(b.sources))

\* SDES::NeededBytesWithExtraSource answers 0 while there is no source.
NeededBytesWithExtraSource(b) ==
  IF b.sources = <<>> THEN 0
  ELSE NeededSDES(b) - SDESHeaders(Len(b.sources))
       + 2 * SSRCBytes + SDESHeaders(Len(b.sources) + 1)

WithItem(b, item) ==
  [b EXCEPT !.sources[Len(b.sources)].items = Append(@, item)]
NeededBytesWithExtraItem(b, len) == NeededSDES(WithItem(b, [id |-> 0, len |-> len]))

\* With a reason for leaving (len > 0) come its length byte and the alignment.
NeededBYE(n, len) ==
  HeaderBytes + SSRCBytes * n + (IF len > 0 THEN RoundUp4(len + 1) ELSE 0)
ByeBytes(b) == SumOf([i \in DOMAIN b.byes |-> NeededBYE(Len(b.byes[i].ssrcs), b.byes[i].reason)])
NeededAPP(len) == HeaderBytes + 2 * SSRCBytes + len
AppBytes(b) == SumOf([i \in DOMAIN b.apps |-> NeededAPP(b.apps[i])])

NeededBytes(b) == NeededReport(b) + NeededSDES(b) + ByeBytes(b) + AppBytes(b)

-----------------------------------------------------------------------------
(* The calls.                                                              *)

\* sizeleft is unsigned: of a builder already too long, there is plenty left.
EnoughLeft(b, bytes) ==
  LET left == b.max - (NeededBytes(b) - NeededReport(b))
  IN left < 0 \/ bytes <= left

ReportHeader(sr) == SSRCBytes + (IF sr THEN SenderInfoBytes ELSE 0)
StartsReport(b, sr) == b.header = 0 /\ EnoughLeft(b, HeaderBytes + ReportHeader(sr))
WithReport(b, sr, ssrc) ==
  [b EXCEPT !.header = ReportHeader(sr), !.sr = sr, !.own = ssrc]

AddsReportBlock(b) ==
  /\ b.header # 0
  /\ NeededBytes(b) - NeededReport(b) + NeededBytesWithExtraReportBlock(b) <= b.max
\* One call for each of these sources.
WithBlocks(b, ssrcs) == [b EXCEPT !.blocks = @ \o ssrcs]

AddsSDESSource(b) ==
  NeededBytes(b) - NeededSDES(b) + NeededBytesWithExtraSource(b) <= b.max
WithSDESSource(b, ssrc) ==
  [b EXCEPT !.sources = Append(@, [ssrc |-> ssrc, items |-> <<>>])]

AddsSDESNormalItem(b, len) ==
  /\ b.sources # <<>>
  /\ NeededBytes(b) - NeededSDES(b) + NeededBytesWithExtraItem(b, len) <= b.max
WithSDESNormalItem(b, type, len) == WithItem(b, [id |-> ItemId[type], len |-> len])

AddsBYEPacket(b, ssrcs, len) ==
  Len(ssrcs) <= MaxCount /\ NeededBytes(b) + NeededBYE(Len(ssrcs), len) <= b.max
WithBYEPacket(b, ssrcs, len) ==
  [b EXCEPT !.byes = Append(@, [ssrcs |-> ssrcs, reason |-> len])]

AddsAPPPacket(b, len) == len % 4 = 0 /\ NeededBytes(b) + NeededAPP(len) <= b.max
WithAPPPacket(b, len) == [b EXCEPT !.apps = Append(@, len)]

-----------------------------------------------------------------------------
(* EndBuild: the packets one behind the other.                             *)

Piece(type, count, size, word, byte) ==
  [at |-> 0, type |-> type, count |-> count, padding |-> FALSE,
   words |-> (size \div 4) - 1, size |-> size, word |-> word, byte |-> byte]

\* At most MaxCount in a packet.
Groups(s) ==
  [i \in 1..CeilDiv(Len(s), MaxCount) |->
     SubSeq(s, (i - 1) * MaxCount + 1, Smallest(i * MaxCount, Len(s)))]

\* A report packet: the first one of a sender is an SR, every other one an RR.
ReportPiece(b, first, group) ==
  LET sr == first /\ b.sr
      base == HeaderBytes + ReportHeader(sr)
      at(n) == base + ReportBlockBytes * (n - 1)
  IN Piece(IF sr THEN "SR" ELSE "RR", Len(group), at(Len(group) + 1),
           [o \in {HeaderBytes} \cup {at(n) : n \in DOMAIN group} |->
              IF o = HeaderBytes THEN b.own
              ELSE group[((o - base) \div ReportBlockBytes) + 1]],
           <<>>)
ReportPieces(b) ==
  IF b.blocks = <<>> THEN <<ReportPiece(b, TRUE, <<>>)>>
  ELSE [i \in DOMAIN Groups(b.blocks) |-> ReportPiece(b, i = 1, Groups(b.blocks)[i])]

\* An SDES packet: each chunk is an SSRC, the items, a zero and the alignment.
SDESPiece(group) ==
  LET chunk[n \in 1..Len(group) + 1] ==
        IF n = 1 THEN HeaderBytes ELSE chunk[n - 1] + NeededSource(group[n - 1].items)
      item(n, i) == chunk[n] + SSRCBytes + ItemBytes(SubSeq(group[n].items, 1, i - 1))
      places == UNION {{n} \X DOMAIN group[n].items : n \in DOMAIN group}
      ids == {item(p[1], p[2]) : p \in places}
      PlaceOf(o) == CHOOSE p \in places : item(p[1], p[2]) = o
      ItemOf(o) == group[PlaceOf(o)[1]].items[PlaceOf(o)[2]]
  IN Piece("SDES", Len(group), chunk[Len(group) + 1],
           [o \in {chunk[n] : n \in DOMAIN group} |->
              group[CHOOSE n \in DOMAIN group : chunk[n] = o].ssrc],
           [o \in ids \cup {i + 1 : i \in ids} |->
              IF o \in ids THEN ItemOf(o).id ELSE ItemOf(o - 1).len])
SDESPieces(b) == [i \in DOMAIN Groups(b.sources) |-> SDESPiece(Groups(b.sources)[i])]

APPPiece(b, len) ==
  Piece("APP", 0, NeededAPP(len), [o \in {HeaderBytes} |-> b.own], <<>>)

BYEPiece(bye) ==
  LET n == Len(bye.ssrcs)
      reasonat == HeaderBytes + SSRCBytes * n
  IN Piece("BYE", n, NeededBYE(n, bye.reason),
           [o \in {HeaderBytes + SSRCBytes * (i - 1) : i \in 1..n} |->
              bye.ssrcs[((o - HeaderBytes) \div SSRCBytes) + 1]],
           IF bye.reason > 0 THEN [o \in {reasonat} |-> bye.reason] ELSE <<>>)

Pieces(b) ==
  ReportPieces(b) \o SDESPieces(b)
  \o [i \in DOMAIN b.apps |-> APPPiece(b, b.apps[i])]
  \o [i \in DOMAIN b.byes |-> BYEPiece(b.byes[i])]

Written(pieces) == SumOf([i \in DOMAIN pieces |-> pieces[i].size])

LaidOut(pieces) ==
  [i \in DOMAIN pieces |->
     [pieces[i] EXCEPT !.at = Written(SubSeq(pieces, 1, i - 1))]]

\* The buffer gets the bytes the contents need; the packets are written from
\* its start.
EndBuild(b) == [len |-> NeededBytes(b), part |-> LaidOut(Pieces(b))]

=============================================================================
