-------------------------- MODULE RTCPPacketBuilder --------------------------
(***************************************************************************)
(* What goes into a session's RTCP packets: RTCPPacketBuilder takes turns  *)
(* over the sources that sent data, a packetful at a time, and over the    *)
(* SDES items that are due, with marks on the sources and on the items     *)
(* that outlive a packet.  RTPSession::SendRTCPAPPPacket builds its packet *)
(* beside it.                                                              *)
(*                                                                         *)
(* Of a source's times remains whether data came since the last packet was *)
(* built ("new"), only before it ("old"), or never: the session's own      *)
(* entry and CSRCs count as never, no block is made for them.  The numbers *)
(* inside a report block are not modelled.                                 *)
(***************************************************************************)
EXTENDS RTCPCompoundPacketBuilder, FiniteSets

CONSTANTS
  Own, Sources,    \* the session's SSRC and those of other participants
  ItemOrder,       \* the items besides CNAME, in the order FillInSDES takes them
  CnameBytes,      \* length of the own CNAME
  ItemLengths,     \* lengths the application gives the other items
  Intervals,       \* interval_name and so on, each one choice of all of them
  Cycle,           \* sdesbuildcount is counted modulo this multiple of them
  PacketSizes,     \* maximum packet sizes
  Reasons,         \* lengths of reasons for leaving
  AppLengths,      \* lengths of APP data
  MaxWait          \* packets built for others before a source has its turn

ItemNames == {ItemOrder[i] : i \in DOMAIN ItemOrder}

ASSUME PacketBuilderAssumption ==
  /\ IsFiniteSet(Sources) /\ Own \notin Sources
  /\ CnameBytes \in 0..255 /\ ItemLengths \subseteq 0..255 /\ Reasons \subseteq 0..255
  /\ AppLengths \subseteq Nat
  /\ PacketSizes \subseteq Nat /\ \A m \in PacketSizes : m >= MinPacketSize
  /\ ItemOrder \in Seq(DOMAIN ItemId) /\ IsInjective(ItemOrder) /\ "CNAME" \in DOMAIN ItemId
  /\ Intervals \subseteq [ItemNames -> Int] /\ Cycle \in Nat \ {0} /\ MaxWait \in Nat
  /\ \A f \in Intervals : \A i \in ItemNames : f[i] <= 0 \/ Cycle % f[i] = 0

\* RTP_MINPACKETSIZE is 600 and a report block has 24 bytes: the smallest packet
\* holds the longest CNAME and another item, a report block or a BYE.
ASSUME RoomAssumption == MinPacketSize >= 600 /\ ReportBlockBytes <= 300

VARIABLES
  maxpacketsize,
  sender,          \* own entry: IsSender
  table,           \* the other entries of the source table, in its order
  data,            \* what each has sent: "none", "old" or "new"
  processed,       \* sources with IsProcessedInRTCP
  firstpacket,
  interval, lens,  \* interval_name..., and the lengths of the items
  sdes,            \* processingsdes, sdesbuildcount, due: doname...,
                   \* done: the ProcessedName... flags
  pack,            \* the packet just built, or none
  status,          \* what the last call answered
  waits,           \* for each source, packets built without it in a row
                   \* while it had data to report
  round            \* how often each item was sent in this or the last SDES
                   \* round; the marks an earlier session left for it (stale)
                   \* or for the next one (left)

builderVars == <<maxpacketsize, sender, table, data, processed, firstpacket, interval,
          lens, sdes, pack, status, waits, round>>

NoPack == [kind |-> "none"]
NoItems == [i \in ItemNames |-> 0]

Fresh ==
  /\ maxpacketsize \in PacketSizes
  /\ sender = FALSE /\ table = <<>>
  /\ data = [s \in Sources |-> "none"] /\ processed = {}
  /\ firstpacket = TRUE
  /\ interval \in Intervals

BuilderInit ==
  /\ Fresh
  /\ lens = NoItems
  /\ sdes = [processing |-> FALSE, count |-> 0, due |-> {}, done |-> {}]
  /\ pack = NoPack /\ status = "ok"
  /\ waits = [s \in Sources |-> 0]
  /\ round = [sent |-> NoItems, stale |-> {}, left |-> {}]

-----------------------------------------------------------------------------
(* Filling a packet.                                                       *)

\* Data came since the packet before this one; before the first one, ever.
Eligible(s) == data[s] # "none" /\ (firstpacket \/ data[s] = "new")

\* The elements of a sequence at some places, in their order.
Nth(places, n) == CHOOSE i \in places : Cardinality({j \in places : j <= i}) = n
Picked(s, places) == [n \in 1..Cardinality(places) |-> s[Nth(places, n)]]

\* Of max calls, how many are taken before the first that is not.
TakenFirst(max, taken) ==
  CHOOSE n \in 0..max : 1..n \subseteq taken /\ (n < max => n + 1 \notin taken)

ReportBlocksTaken(b, open, maxcount) ==
  LET max == Smallest(Len(open), maxcount)
  IN TakenFirst(max,
       {m \in 1..max : AddsReportBlock(WithBlocks(b, SubSeq(open, 1, m - 1)))})

ReportBlocks(b, marks, open, n, maxcount) ==
  [b |-> WithBlocks(b, SubSeq(open, 1, n)),
   added |-> {open[i] : i \in 1..n},
   full |-> n < Smallest(Len(open), maxcount),
   skipped |-> Cardinality({s \in marks : Eligible(s)}),
   atendoflist |-> n = Len(open)]

\* Blocks for the eligible sources that are not marked, in table order, until
\* one does not fit or maxcount are added.  skipped is read only when all fit.
FillInReportBlocks(b, marks, maxcount) ==
  LET open == Picked(table, {i \in DOMAIN table : Eligible(table[i]) /\ table[i] \notin marks})
  IN ReportBlocks(b, marks, open, ReportBlocksTaken(b, open, maxcount), maxcount)

\* WithSDESNormalItem for one item after the other.
ItemsWith(s) == [i \in DOMAIN s |-> [id |-> ItemId[s[i]], len |-> lens[s[i]]]]
WithItems(b, s) == [b EXCEPT !.sources[Len(b.sources)].items = @ \o ItemsWith(s)]

ItemsTaken(b, open) ==
  TakenFirst(Len(open),
    {m \in 1..Len(open) :
       AddsSDESNormalItem(WithItems(b, SubSeq(open, 1, m - 1)), lens[open[m]])})

ItemsOf(b, open, n) ==
  [b |-> WithItems(b, SubSeq(open, 1, n)),
   added |-> {open[i] : i \in 1..n},
   processedall |-> n = Len(open)]

\* Faulty variant, for the mutants: the marks are not looked at.
FillInAllSDES(b, due, done) ==
  LET open == Picked(ItemOrder, {k \in DOMAIN ItemOrder : ItemOrder[k] \in due})
  IN ItemsOf(b, open, ItemsTaken(b, open))

\* The items that are due and not yet marked, until one does not fit.
FillInSDES(b, due, done) ==
  LET open == Picked(ItemOrder, {k \in DOMAIN ItemOrder : ItemOrder[k] \in due \ done})
  IN ItemsOf(b, open, ItemsTaken(b, open))

\* Every packet starts with a report and the own CNAME.
Started(sr) ==
  WithSDESSource(WithReport(InitBuild(maxpacketsize), sr, Own), Own)
Begun(sr) == WithSDESNormalItem(Started(sr), "CNAME", CnameBytes)
HasRoomToBegin(sr) ==
  /\ StartsReport(InitBuild(maxpacketsize), sr)
  /\ AddsSDESSource(WithReport(InitBuild(maxpacketsize), sr, Own))
  /\ AddsSDESNormalItem(Started(sr), CnameBytes)

-----------------------------------------------------------------------------
(* BuildNextPacket.                                                        *)

TooSoon == [ok |-> FALSE]
Built(b, marks, newsdes, items, begins) ==
  [ok |-> TRUE, b |-> b, processed |-> marks, sdes |-> newsdes,
   items |-> items, begins |-> begins]

TotalCount == Len(table) + 1   \* with the own entry

\* The n-th round's items.
Due(n) == {i \in ItemNames : interval[i] > 0 /\ n % interval[i] = 0}

NextRound == (sdes.count + 1) % Cycle
Opened ==
  [processing |-> FALSE, count |-> NextRound, due |-> Due(NextRound), done |-> sdes.done]

\* A round ends in the packet it began in: sources that were skipped may fill it.
FillsUp(s, again) ==
  Built(again.b, again.added, [Opened EXCEPT !.done = {}], s.added, TRUE)

BeginsRound(f, s) ==
  IF ~ s.processedall
  THEN Built(s.b, {}, [Opened EXCEPT !.processing = TRUE, !.done = @ \cup s.added],
             s.added, TRUE)
  ELSE IF f.skipped > 0
  THEN FillsUp(s, FillInReportBlocks(s.b, {}, f.skipped))
  ELSE Built(s.b, {}, [Opened EXCEPT !.done = {}], s.added, TRUE)

\* Faulty variant, for the mutants: who is in a full packet is not marked.
AfterReportsUnmarked(f) ==
  IF f.full THEN Built(f.b, processed, sdes, {}, FALSE)
  ELSE BeginsRound(f, FillInSDES(f.b, Due(NextRound), sdes.done))

AfterReports(f) ==
  IF f.full
  THEN IF f.added = {} THEN TooSoon
       ELSE Built(f.b, processed \cup f.added, sdes, {}, FALSE)
  ELSE BeginsRound(f, FillInSDES(f.b, Due(NextRound), sdes.done))

\* No SDES round is going on: blocks first.  When all sources had their turn a
\* round begins, with the items whose interval divides its number.
ReportsFirst ==
  AfterReports(FillInReportBlocks(Begun(sender), processed, TotalCount))

EndsRound(s, f) ==
  Built(f.b, IF f.atendoflist THEN {} ELSE processed \cup f.added,
        [sdes EXCEPT !.processing = FALSE, !.done = {}], s.added, FALSE)

AfterItems(s) ==
  IF s.added = {} THEN TooSoon
  ELSE IF ~ s.processedall
  THEN Built(s.b, processed, [sdes EXCEPT !.done = @ \cup s.added], s.added, FALSE)
  ELSE EndsRound(s, FillInReportBlocks(s.b, processed, TotalCount))

\* A round goes on: items first, and blocks once it has ended.
ItemsFirst == AfterItems(FillInSDES(Begun(sender), sdes.due, sdes.done))

NextPacket ==
  IF ~ HasRoomToBegin(sender) THEN TooSoon
  ELSE IF sdes.processing THEN ItemsFirst ELSE ReportsFirst

\* A builder whose build has ended, and the buffer it filled.
Ended(kind, b) == [kind |-> kind, b |-> b, wire |-> EndBuild(b)]

Reported(b) == {b.blocks[i] : i \in DOMAIN b.blocks}

Sends(r) ==
  /\ status' = "ok"
  /\ pack' = Ended("next", r.b)
  /\ processed' = r.processed
  /\ sdes' = r.sdes
  /\ firstpacket' = FALSE
  /\ data' = [s \in Sources |-> IF data[s] = "new" THEN "old" ELSE data[s]]
  /\ waits' = [s \in Sources |->
                 IF Eligible(s) /\ s \notin Reported(r.b)
                 THEN Smallest(waits[s] + 1, MaxWait + 1) ELSE 0]
  /\ round' =
       [sent |-> [i \in ItemNames |->
                    (IF r.begins THEN 0 ELSE round.sent[i])
                    + (IF i \in r.items THEN 1 ELSE 0)],
        stale |-> IF r.begins THEN round.left ELSE round.stale,
        left |-> IF r.begins THEN {} ELSE round.left]

Refuses(r) ==
  /\ status' = "too soon" /\ pack' = NoPack
  /\ UNCHANGED <<processed, sdes, firstpacket, data, waits, round>>

SendsOrRefuses(r) == IF r.ok THEN Sends(r) ELSE Refuses(r)

BuildNextPacket ==
  /\ SendsOrRefuses(NextPacket)
  /\ UNCHANGED <<maxpacketsize, sender, table, interval, lens>>

-----------------------------------------------------------------------------
(* The other packets: they leave marks and rounds alone.                   *)

Answers(ok, kind, b) ==
  /\ status' = IF ok THEN "ok" ELSE "too soon"
  /\ pack' = IF ok THEN Ended(kind, b) ELSE NoPack
  /\ UNCHANGED <<maxpacketsize, sender, table, data, processed, firstpacket,
                 interval, lens, sdes, waits, round>>

\* useSR is "useSRifpossible".
BuildBYEPacket(reason, useSR) ==
  LET b == Begun(useSR /\ sender)
  IN Answers(HasRoomToBegin(useSR /\ sender) /\ AddsBYEPacket(b, <<Own>>, reason),
             "bye", WithBYEPacket(b, <<Own>>, reason))

\* An APP packet that does not fit is the caller's mistake, and refused.
SendRTCPAPPPacket(len) ==
  LET b == Begun(FALSE)
  IN /\ HasRoomToBegin(FALSE) /\ AddsAPPPacket(b, len)
     /\ Answers(TRUE, "app", WithAPPPacket(b, len))

-----------------------------------------------------------------------------
(* The source table and the application around the builder.                *)

\* RTP data of a participant arrives.
Arrives(s) ==
  /\ data[s] # "new"
  /\ table' = IF s \in {table[i] : i \in DOMAIN table} THEN table ELSE Append(table, s)
  /\ data' = [data EXCEPT ![s] = "new"]
  /\ pack' = NoPack
  /\ UNCHANGED <<maxpacketsize, sender, processed, firstpacket, interval, lens,
                 sdes, status, waits, round>>

\* A participant leaves or times out; a later one gets a new entry.
Leaves(s) ==
  /\ s \in {table[i] : i \in DOMAIN table}
  /\ table' = Picked(table, {i \in DOMAIN table : table[i] # s})
  /\ data' = [data EXCEPT ![s] = "none"]
  /\ processed' = processed \ {s}
  /\ waits' = [waits EXCEPT ![s] = 0]
  /\ pack' = NoPack
  /\ UNCHANGED <<maxpacketsize, sender, firstpacket, interval, lens, sdes, status, round>>

\* The session begins to send RTP data, or has not sent any for a while.
SetSender(v) ==
  /\ sender # v
  /\ sender' = v
  /\ pack' = NoPack
  /\ UNCHANGED <<maxpacketsize, table, data, processed, firstpacket, interval, lens,
                 sdes, status, waits, round>>

SetLocalItem(i, len) ==
  /\ lens[i] # len
  /\ lens' = [lens EXCEPT ![i] = len]
  /\ pack' = NoPack
  /\ UNCHANGED <<maxpacketsize, sender, table, data, processed, firstpacket, interval,
                 sdes, status, waits, round>>

SetMaximumPacketSize(size) ==
  /\ maxpacketsize # size /\ size >= MinPacketSize
  /\ maxpacketsize' = size
  /\ pack' = NoPack
  /\ UNCHANGED <<sender, table, data, processed, firstpacket, interval, lens, sdes,
                 status, waits, round>>

\* Destroy and Init of another session: the items and the marks on them stay,
\* doname and its like are read only after the next round has set them.
Recreate ==
  /\ maxpacketsize' \in PacketSizes /\ interval' \in Intervals
  /\ sender' = FALSE /\ table' = <<>>
  /\ data' = [s \in Sources |-> "none"] /\ processed' = {}
  /\ firstpacket' = TRUE
  /\ sdes' = [processing |-> FALSE, count |-> 0, due |-> {}, done |-> sdes.done]
  /\ waits' = [s \in Sources |-> 0]
  /\ round' = [sent |-> NoItems, stale |-> {}, left |-> sdes.done]
  /\ pack' = NoPack /\ status' = "ok"
  /\ UNCHANGED lens

BuilderNext ==
  \/ BuildNextPacket
  \/ \E r \in Reasons, useSR \in BOOLEAN : BuildBYEPacket(r, useSR)
  \/ \E len \in AppLengths : SendRTCPAPPPacket(len)
  \/ \E s \in Sources : Arrives(s) \/ Leaves(s)
  \/ \E v \in BOOLEAN : SetSender(v)
  \/ \E i \in ItemNames, len \in ItemLengths : SetLocalItem(i, len)
  \/ \E size \in PacketSizes : SetMaximumPacketSize(size)
  \/ Recreate

BuilderSpec == BuilderInit /\ [][BuilderNext]_builderVars

-----------------------------------------------------------------------------
(* Properties.                                                             *)

BuilderTypeOK ==
  /\ maxpacketsize \in PacketSizes /\ interval \in Intervals
  /\ {sender, firstpacket} \subseteq BOOLEAN
  /\ table \in Seq(Sources) /\ IsInjective(table)
  /\ data \in [Sources -> {"none", "old", "new"}]
  /\ processed \subseteq {s \in Sources : data[s] # "none"}
  /\ lens \in [ItemNames -> ItemLengths \cup {0}]
  /\ sdes \in [processing : BOOLEAN, count : 0..Cycle - 1,
               due : SUBSET ItemNames, done : SUBSET ItemNames]
  /\ sdes.processing => sdes.due \ sdes.done # {}
  /\ status \in {"ok", "too soon"}
  /\ waits \in [Sources -> 0..MaxWait + 1]

\* At every legal packet size, whatever the lengths of CNAME, items and reason,
\* each call makes progress and none ends with "packet filled too soon"; the
\* packet keeps to the maximum size and fills its buffer exactly: EndBuild
\* writes what NeededBytes counted, however it was split over packets.
FitsAndProgresses ==
  /\ status = "ok"
  /\ pack # NoPack =>
       /\ pack.wire.len <= pack.b.max
       /\ Written(pack.wire.part) = pack.wire.len

\* A receiver takes the packet and reads back what was put in: the reports, the
\* chunks with their items, the APP data and the BYE.
ReadsBack ==
  pack # NoPack =>
    LET w == pack.wire
    IN /\ Accepted(w)
       /\ \A i \in DOMAIN Starts(w) : KnownFormat(w, Starts(w)[i])
       /\ Contents(w) =
            [sender |-> Own, sr |-> pack.b.sr, blocks |-> pack.b.blocks,
             sources |-> pack.b.sources, apps |-> pack.b.apps,
             byes |-> IF pack.kind = "bye" THEN <<Own>> ELSE <<>>]

\* The turns are fair where a packet has room for the sources that leave and come
\* back between two packets: a source that sends between any two packets is
\* passed over at most MaxWait times in a row, whatever the others and the SDES
\* items do.
EveryoneHasATurn == \A s \in Sources : waits[s] <= MaxWait

\* No source is reported twice in one packet: what fills the rest of a packet
\* are "sources that we already got in a previous packet".
ReportedOnce == pack # NoPack => IsInjective(pack.b.blocks)

\* The state is well formed, and a round sends each item that is due exactly
\* once, over as many packets as it takes; only an item that a destroyed session
\* left marked is missing from the first round of the next.
ItemsOncePerRound ==
  /\ BuilderTypeOK
  /\ \A i \in ItemNames : round.sent[i] <= 1
  /\ ~ sdes.processing =>
       \A i \in ItemNames : round.sent[i] = 1 <=> i \in sdes.due \ round.stale

=============================================================================
