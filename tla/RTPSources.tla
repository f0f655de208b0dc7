----------------------------- MODULE RTPSources -----------------------------
(***************************************************************************)
(* The source table of an RTP session: RTPSources with the entries of      *)
(* RTPInternalSourceData and the collision flag of RTPSessionSources.  It  *)
(* learns its entries from RTP and RTCP packets, from the application and  *)
(* from time, and counts entries, senders and active members as it goes.   *)
(*                                                                         *)
(* The functions of the class are operators from tables to tables; an      *)
(* action applies one public function.  A time stored in an entry is the   *)
(* time since then; Never is the age of the time (0,0) an entry starts     *)
(* with, older than every delay.  Of a sequence number remains whether it  *)
(* is the one probation waits for.  Memory is never exhausted.             *)
(***************************************************************************)
EXTENDS Integers, FiniteSets, Sequences, FiniteSetsExt

CONSTANTS
  SSRC,            \* SSRC identifiers
  Address,         \* addresses, a host and a port each
  CName,           \* values of an SDES CNAME item
  RTPPackets,      \* RTP packets that may arrive
  Compounds,       \* RTCP compound packets that may arrive
  RTPFrom,         \* where they come from: addresses or ThisTransmitter
  RTCPFrom,
  ProbationType,   \* "none", "discard" or "store"
  ProbationCount,  \* RTP_PROBATIONCOUNT
  AcceptOwn,       \* acceptownpackets
  Delay,           \* the delays of the timeouts: sender, bye, general, note
  MaxPackets       \* bound: how many packets arrive

None == "none"
Self == <<"self", 0>>    \* a null address: the packet came from this session
Unset == <<"unset", 0>>  \* isrtpaddrset or isrtcpaddrset is false
ThisTransmitter == <<"this transmitter", 0>>

ASSUME SSRCAssumption == None \notin SSRC
ASSUME AddressAssumption ==
  \A a \in Address : DOMAIN a = {1, 2} /\ a[1] \notin {Self[1], Unset[1]}
ASSUME DelayAssumption ==
  Delay \in [{"sender", "bye", "general", "note"} -> Nat]
\* What the parser makes of what arrives.  An SDES packet is one chunk here, of
\* more chunks one each; of a NOTE matters whether it is empty, and an item that
\* is neither this nor a CNAME is like a NAME, private or of an unknown type.
Items ==
  [type : {"CNAME"}, value : CName]
  \cup [type : {"NOTE"}, value : BOOLEAN]
  \cup [type : {"PRIV", "NAME", "Unknown"}, value : {""}]
RTCPPackets ==
  [type : {"SR", "RR"}, ssrc : SSRC, blocks : SUBSET SSRC]
  \cup [type : {"SDES"}, ssrc : SSRC, items : Seq(Items)]
  \cup [type : {"BYE"}, ssrcs : Seq(SSRC)]
  \cup [type : {"APP"}]
ASSUME PacketsAssumption ==
  /\ RTPPackets \subseteq [ssrc : SSRC, expected : BOOLEAN, csrcs : Seq(SSRC)]
  /\ Compounds \subseteq Seq(RTCPPackets)
  /\ RTPFrom \cup RTCPFrom \subseteq Address \cup {ThisTransmitter}
ASSUME CNameAssumption == None \notin CName
ASSUME MaxPacketsAssumption == MaxPackets \in Nat
ASSUME ProbationAssumption ==
  /\ ProbationType \in {"none", "discard", "store"}
  /\ ProbationCount \in Nat \ {0}

Never == 1 + Max({Delay[d] : d \in DOMAIN Delay})
Age == 0..Never

NewSource ==
  [sender |-> FALSE, validated |-> FALSE, bye |-> FALSE,
   sentdata |-> FALSE, probation |-> 0, cname |-> None, note |-> FALSE,
   lastmsg |-> Never, lastrtp |-> Never, byetime |-> Never,
   notetime |-> Never, rtp |-> Unset, rtcp |-> Unset]

EmptyTable ==
  [list |-> [s \in {} |-> NewSource], own |-> None, total |-> 0, senders |-> 0,
   active |-> 0, announced |-> {}, owncollision |-> FALSE, status |-> "ok"]

VARIABLES
  table,    \* sourcelist, owndata, the three counts, the owncollision flag,
            \* the status of the last call, and the sources the application was
            \* told of by OnNewSource and not yet by OnRemoveSource
  packets   \* packets arrived, bounded by MaxPackets

vars == <<table, packets>>

Known(t) == DOMAIN t.list
IsActive(src) == src.validated /\ ~ src.bye
Senders(t) == {s \in Known(t) : t.list[s].sender}
ActiveMembers(t) == {s \in Known(t) : IsActive(t.list[s])}

AddressState == Address \cup {Self, Unset}
Source ==
  [sender : BOOLEAN, validated : BOOLEAN, bye : BOOLEAN,
   sentdata : BOOLEAN, probation : 0..ProbationCount, cname : CName \cup {None},
   note : BOOLEAN, lastmsg : Age, lastrtp : Age, byetime : Age, notetime : Age,
   rtp : AddressState, rtcp : AddressState]

TypeOK ==
  /\ Known(table) \subseteq SSRC
  /\ table.list \in [Known(table) -> Source]
  /\ table.own \in SSRC \cup {None}
  /\ table.total \in Nat /\ table.senders \in Nat /\ table.active \in Int
  /\ table.announced \subseteq SSRC
  /\ table.owncollision \in BOOLEAN
  /\ table.status \in {"ok", "error"}
  /\ packets \in 0..MaxPackets

-----------------------------------------------------------------------------
(* Entries and their addresses.                                            *)

WithEntry(list, s, src) ==
  [x \in DOMAIN list \cup {s} |-> IF x = s THEN src ELSE list[x]]

Obtain(t, s) ==
  IF s \in Known(t) THEN t
  ELSE [t EXCEPT !.list = WithEntry(@, s, NewSource), !.total = @ + 1]

OnNewSource(t, s) == [t EXCEPT !.announced = @ \cup {s}]

SameHost(a, b) == a[1] = b[1]

Other(kind) == IF kind = "rtp" THEN "rtcp" ELSE "rtp"

\* Faulty variant: the other kind's address is not looked at.
CollidesOnlySameKind(src, from, kind) ==
  src[kind] # Unset /\ src[kind] # from

\* CheckCollision returns true: the sender differs from the address this kind
\* of packet came from or, when that is unknown, its host from the other one's.
Collides(src, from, kind) ==
  IF src[kind] # Unset THEN src[kind] # from
  ELSE src[Other(kind)] # Unset /\ ~ SameHost(src[Other(kind)], from)

OnSSRCCollision(t, s) ==
  [t EXCEPT !.owncollision = @ \/ s = t.own]

\* An entry for s that accepts what came from this sender, or none: a new entry
\* takes the sender's address, a known one takes it if it has none and does not
\* collide.
Accepts(t, s, from, kind) ==
  s \in Known(t) => ~ Collides(t.list[s], from, kind)

EntryFor(t, s, from, kind) ==
  [Obtain(t, s) EXCEPT !.list[s][kind] = IF @ = Unset THEN from ELSE @]

-----------------------------------------------------------------------------
(* RTP packets.                                                            *)

\* RTPSourceStats::ProcessPacket: probation waits for ProbationCount packets in
\* sequence before it accepts one.
OnTrial(src) ==
  ~ src.sentdata /\ ~ src.validated /\ ProbationType # "none"

Trial(src, expected) ==
  IF src.probation > 0 /\ expected THEN src.probation - 1 ELSE ProbationCount

Accepted(src, expected) == OnTrial(src) => Trial(src, expected) = 0

ProcessStats(src, expected, own) ==
  IF Accepted(src, expected)
  THEN [src EXCEPT !.sentdata = TRUE, !.lastmsg = 0,
                   !.probation = IF OnTrial(src) THEN 0 ELSE @,
                   !.lastrtp = IF own THEN @ ELSE 0]
  ELSE [src EXCEPT !.lastmsg = 0, !.probation = Trial(src, expected)]

\* RTPInternalSourceData::ProcessRTPPacket, without the packet list.
ProcessSourcePacket(src, expected, own) ==
  LET ok == Accepted(src, expected)
  IN  [ProcessStats(src, expected, own) EXCEPT
         !.validated = @ \/ ok, !.sender = @ \/ (ok /\ ~ own)]

\* A contributing source.  One that is known becomes validated as a new one
\* does, and only a new one is counted as active.
ProcessCSRC(t, c, from) ==
  IF c \notin Known(t)
  THEN OnNewSource([Obtain(t, c) EXCEPT !.list[c].validated = TRUE,
                                        !.active = @ + 1], c)
  ELSE IF ~ Accepts(t, c, from, "rtp") THEN OnSSRCCollision(t, c)
  ELSE [EntryFor(t, c, from, "rtp") EXCEPT !.list[c].validated = TRUE]

\* The table when the packet's own source has been brought up to date.
UpdateSender(t, s, new) ==
  LET old == t.list[s]
      u == [t EXCEPT !.list[s] = new,
              !.senders = IF ~ old.sender /\ new.sender THEN @ + 1 ELSE @,
              !.active = IF ~ IsActive(old) /\ IsActive(new) THEN @ + 1 ELSE @]
  IN  OnNewSource(u, s)

\* The contributing sources one after the other.
ProcessCSRCs(t, csrcs, from) ==
  LET after[n \in 0..Len(csrcs)] ==
        IF n = 0 THEN t ELSE ProcessCSRC(after[n - 1], csrcs[n], from)
  IN  after[Len(csrcs)]

ProcessRTPPacket(t, p, from) ==
  LET s == p.ssrc
      u == EntryFor(t, s, from, "rtp")
      v == UpdateSender(u, s,
             ProcessSourcePacket(u.list[s], p.expected, s = t.own))
  IN  IF ~ Accepts(t, s, from, "rtp") THEN OnSSRCCollision(t, s)
      ELSE IF ~ v.list[s].validated THEN v
      ELSE ProcessCSRCs(v, p.csrcs, from)

-----------------------------------------------------------------------------
(* RTCP packets.                                                           *)

\* Everything an RTCP packet says of s begins with GetRTCPSourceData, which
\* leaves a colliding source alone; new is the entry it leaves otherwise.
UpdateRTCP(t, s, new) ==
  OnNewSource([t EXCEPT !.list[s] = new, !.list[s].lastmsg = 0], s)

\* ProcessRTCPSenderInfo, ProcessRTCPReportBlock, UpdateReceiveTime and
\* ProcessSDESPrivateItem: of what they store only the time counts here.
ProcessSenderInfo(t, s, from) ==
  IF ~ Accepts(t, s, from, "rtcp") THEN OnSSRCCollision(t, s)
  ELSE LET u == EntryFor(t, s, from, "rtcp") IN UpdateRTCP(u, s, u.list[s])

ProcessReportBlock(t, s, from) == ProcessSenderInfo(t, s, from)

UpdateReceiveTime(t, s, from) == ProcessSenderInfo(t, s, from)

ProcessSDESPrivateItem(t, s, from) == ProcessSenderInfo(t, s, from)

\* Faulty variant: a later CNAME replaces the first.
SetItemReplaces(src, item) ==
  CASE item.type = "CNAME" ->
         [src EXCEPT !.cname = item.value, !.validated = TRUE]
    [] item.type = "NOTE" ->
         [src EXCEPT !.note = item.value, !.notetime = 0]
    [] OTHER -> src

\* The CNAME is set once and validates the source.
SetItem(src, item) ==
  CASE item.type = "CNAME" /\ src.cname = None ->
         [src EXCEPT !.cname = item.value, !.validated = TRUE]
    [] item.type = "NOTE" ->
         [src EXCEPT !.note = item.value, !.notetime = 0]
    [] OTHER -> src

\* An item of a type the library does not know is an error.
ProcessSDESNormalItem(t, s, item, from) ==
  IF item.type = "Unknown" THEN [t EXCEPT !.status = "error"]
  ELSE IF ~ Accepts(t, s, from, "rtcp") THEN OnSSRCCollision(t, s)
  ELSE LET u == EntryFor(t, s, from, "rtcp")
           new == SetItem(u.list[s], item)
           v == UpdateRTCP(u, s, new)
       IN  [v EXCEPT !.active = IF ~ IsActive(u.list[s]) /\ IsActive(new)
                                THEN @ + 1 ELSE @]

\* A BYE for the own SSRC is ignored.
ProcessBYE(t, s, from) ==
  IF ~ Accepts(t, s, from, "rtcp") THEN OnSSRCCollision(t, s)
  ELSE LET u == EntryFor(t, s, from, "rtcp")
           src == u.list[s]
           v == UpdateRTCP(u, s, [src EXCEPT !.bye = TRUE, !.byetime = 0])
       IN  IF s = t.own THEN u
           ELSE [v EXCEPT !.active = IF IsActive(src) THEN @ - 1 ELSE @]

\* A sender or receiver report: the blocks about this session's own SSRC, or
\* just the time when there is none.
ProcessBlocks(t, p, from) ==
  IF t.own = None \/ t.own \notin p.blocks
  THEN UpdateReceiveTime(t, p.ssrc, from)
  ELSE ProcessReportBlock(t, p.ssrc, from)

ProcessItem(t, s, item, from) ==
  IF t.status = "error" THEN t
  ELSE IF item.type = "PRIV" THEN ProcessSDESPrivateItem(t, s, from)
  ELSE ProcessSDESNormalItem(t, s, item, from)

ProcessItems(t, s, items, from) ==
  LET after[n \in 0..Len(items)] ==
        IF n = 0 THEN t ELSE ProcessItem(after[n - 1], s, items[n], from)
  IN  after[Len(items)]

ProcessSDESChunk(t, p, from) ==
  IF p.items = <<>> THEN UpdateReceiveTime(t, p.ssrc, from)
  ELSE ProcessItems(t, p.ssrc, p.items, from)

ProcessBYEs(t, ssrcs, from) ==
  LET after[n \in 0..Len(ssrcs)] ==
        IF n = 0 THEN t ELSE ProcessBYE(after[n - 1], ssrcs[n], from)
  IN  after[Len(ssrcs)]

ProcessPacket(t, p, from) ==
  IF t.status = "error" THEN t
  ELSE
  CASE p.type = "SR" ->
         ProcessBlocks(ProcessSenderInfo(t, p.ssrc, from), p, from)
    [] p.type = "RR" -> ProcessBlocks(t, p, from)
    [] p.type = "SDES" -> ProcessSDESChunk(t, p, from)
    [] p.type = "BYE" -> ProcessBYEs(t, p.ssrcs, from)
    [] OTHER -> t    \* APP and packets of unknown type or format

ProcessRTCPCompoundPacket(t, ps, from) ==
  LET after[n \in 0..Len(ps)] ==
        IF n = 0 THEN t ELSE ProcessPacket(after[n - 1], ps[n], from)
  IN  after[Len(ps)]

-----------------------------------------------------------------------------
(* Timeouts.                                                               *)

\* Every timeout ends by counting again.
Recount(t) ==
  [t EXCEPT !.total = Cardinality(Known(t)),
            !.senders = Cardinality(Senders(t)),
            !.active = Cardinality(ActiveMembers(t))]

\* The table with the sources that are gone deleted and the rest as in `list'.
Sweep(t, gone, list) ==
  Recount([t EXCEPT !.list = [s \in Known(t) \ gone |-> list[s]],
                    !.announced = @ \ gone, !.status = "ok"])

Others(t) == Known(t) \ {t.own}

TimedOut(t) == {s \in Others(t) : t.list[s].lastmsg > Delay["general"]}

Gone(t) ==
  {s \in Others(t) : t.list[s].bye /\ t.list[s].byetime > Delay["bye"]}

ClearSenders(list) ==
  [s \in DOMAIN list |->
     [list[s] EXCEPT !.sender = @ /\ list[s].lastrtp <= Delay["sender"]]]

ClearNotes(list) ==
  [s \in DOMAIN list |->
     [list[s] EXCEPT !.note = @ /\ list[s].notetime <= Delay["note"]]]

Timeout(t) == Sweep(t, TimedOut(t), t.list)

SenderTimeout(t) == Sweep(t, {}, ClearSenders(t.list))

BYETimeout(t) == Sweep(t, Gone(t), t.list)

NoteTimeout(t) == Sweep(t, {}, ClearNotes(t.list))

\* Faulty variant: only a BYE makes a source leave.
MultipleTimeoutsKeepsSilent(t) ==
  Sweep(t, Gone(t), ClearSenders(ClearNotes(t.list)))

MultipleTimeouts(t) ==
  Sweep(t, Gone(t) \cup TimedOut(t), ClearSenders(ClearNotes(t.list)))

-----------------------------------------------------------------------------
(* The public functions as actions.                                        *)

Init ==
  /\ table = EmptyTable
  /\ packets = 0

CreateOwnSSRC(s) ==
  /\ table.own = None /\ s \notin Known(table)
  /\ table' = OnNewSource(
       [Obtain(table, s) EXCEPT !.own = s, !.active = @ + 1,
          !.list[s].validated = TRUE, !.list[s].rtp = Self,
          !.list[s].rtcp = Self, !.status = "ok"], s)
  /\ UNCHANGED packets

\* Faulty variant: the application is not told.
DeleteOwnSSRCSilently ==
  /\ table.own # None
  /\ LET src == table.list[table.own]
     IN  table' = [table EXCEPT !.own = None,
                     !.list = [s \in Known(table) \ {table.own} |-> @[s]],
                     !.status = "ok", !.total = @ - 1,
                     !.senders = IF src.sender THEN @ - 1 ELSE @,
                     !.active = IF IsActive(src) THEN @ - 1 ELSE @]
  /\ UNCHANGED packets

DeleteOwnSSRC ==
  /\ table.own # None
  /\ LET src == table.list[table.own]
     IN  table' = [table EXCEPT !.own = None,
                     !.list = [s \in Known(table) \ {table.own} |-> @[s]],
                     !.announced = @ \ {table.own}, !.status = "ok",
                     !.total = @ - 1,
                     !.senders = IF src.sender THEN @ - 1 ELSE @,
                     !.active = IF IsActive(src) THEN @ - 1 ELSE @]
  /\ UNCHANGED packets

SentRTPPacket ==
  /\ table.own # None
  /\ LET src == table.list[table.own]
     IN  table' = [table EXCEPT !.status = "ok",
                     !.list[table.own] = [@ EXCEPT !.sender = TRUE,
                                                   !.lastrtp = 0, !.lastmsg = 0],
                     !.senders = IF src.sender THEN @ ELSE @ + 1]
  /\ UNCHANGED packets

\* ProcessRawPacket.  A packet this session's transmitter sent itself is
\* processed only if the application wants that, as coming from no address.
Sender(from) == IF from = ThisTransmitter THEN Self ELSE from

Begun == [table EXCEPT !.status = "ok", !.owncollision = FALSE]

ProcessRawPacket(from, processed) ==
  /\ packets < MaxPackets
  /\ from = ThisTransmitter => AcceptOwn
  /\ table' = processed
  /\ packets' = packets + 1

ReceiveRTP(p, from) ==
  ProcessRawPacket(from, ProcessRTPPacket(Begun, p, Sender(from)))

ReceiveRTCP(ps, from) ==
  ProcessRawPacket(from, ProcessRTCPCompoundPacket(Begun, ps, Sender(from)))

RunTimeouts(after) ==
  /\ table' = after
  /\ UNCHANGED packets

\* ClearSourceList: the sources go without a callback, the application clears
\* what it knows itself.
Clear ==
  /\ table' = EmptyTable
  /\ UNCHANGED packets

Older(age) == IF age = Never THEN Never ELSE age + 1

Aged(src) ==
  [src EXCEPT !.lastmsg = Older(@), !.lastrtp = Older(@),
              !.byetime = Older(@), !.notetime = Older(@)]

Tick ==
  /\ table' = [table EXCEPT !.list = [s \in Known(table) |-> Aged(@[s])]]
  /\ UNCHANGED packets

TimeoutStep == RunTimeouts(MultipleTimeouts(table))

Next ==
  \/ \E s \in SSRC : CreateOwnSSRC(s)
  \/ DeleteOwnSSRC
  \/ SentRTPPacket
  \/ \E p \in RTPPackets, from \in RTPFrom : ReceiveRTP(p, from)
  \/ \E ps \in Compounds, from \in RTCPFrom : ReceiveRTCP(ps, from)
  \/ RunTimeouts(Timeout(table))
  \/ RunTimeouts(SenderTimeout(table))
  \/ RunTimeouts(BYETimeout(table))
  \/ RunTimeouts(NoteTimeout(table))
  \/ TimeoutStep
  \/ Clear
  \/ Tick

Spec == Init /\ [][Next]_vars

\* Time passes, and the session runs the timeouts in each of its polls.
FairSpec == Spec /\ WF_vars(Tick) /\ WF_vars(TimeoutStep)

-----------------------------------------------------------------------------
(* Properties.                                                             *)

\* The counts the scheduler works with are those of the table, after every call
\* and not only after the timeouts, which count again.  The number of active
\* members may be too small (ActiveIsExact) and is never too large.
CountsAgree ==
  /\ table.total = Cardinality(Known(table))
  /\ table.senders = Cardinality(Senders(table))
  /\ table.active <= Cardinality(ActiveMembers(table))

\* GetActiveMemberCount is the number of validated members without a BYE.
ActiveIsExact == table.active = Cardinality(ActiveMembers(table))

\* Whatever arrives and however much time passes, the session's own entry stays,
\* is active, and belongs to no address: a packet with its SSRC from elsewhere is
\* a collision.
OwnEntryStays ==
  table.own # None =>
    /\ table.own \in Known(table)
    /\ IsActive(table.list[table.own])
    /\ table.list[table.own].rtp = Self /\ table.list[table.own].rtcp = Self

\* The application has been told of the sources in the table and no others: each
\* entry is announced once and taken back once, whichever call made or removed it.
AppKnowsTable == table.announced = Known(table)

\* The two addresses of a source are on one host, and only a validated source is
\* a sender.
EntriesAgree ==
  \A s \in Known(table) :
    LET src == table.list[s]
    IN  /\ Unset \notin {src.rtp, src.rtcp} => SameHost(src.rtp, src.rtcp)
        /\ src.sender => src.validated

\* As long as an entry is in the table its addresses, its CNAME, its validation
\* and its BYE are for good: no packet takes a source over or brings it back.
EntriesKeepIdentity ==
  [][\A s \in Known(table) \cap Known(table') :
       LET old == table.list[s]  new == table.list[s]'
       IN  /\ old.rtp # Unset => new.rtp = old.rtp
           /\ old.rtcp # Unset => new.rtcp = old.rtcp
           /\ old.cname # None => new.cname = old.cname
           /\ old.validated => new.validated
           /\ old.bye => new.bye]_vars

\* The table is well formed: its types, its counts, its own entry and what holds
\* of each entry.
TableInvariant ==
  TypeOK /\ CountsAgree /\ OwnEntryStays /\ EntriesAgree

\* When nothing arrives any more, every source but the session's own leaves.
SilentLeave == <>[](Known(table) \subseteq {table.own})
=============================================================================
