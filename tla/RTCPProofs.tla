----------------------------- MODULE RTCPProofs -----------------------------
(***************************************************************************)
(* When RTCP packets are sent and what goes into them.                     *)
(*                                                                         *)
(* The timer of RTCPScheduler for every group, packet size, bandwidth and  *)
(* minimal interval: the intervals are bounded, a packet is never due      *)
(* twice at once, reports keep their distance, and a member that leaves    *)
(* delays nothing.                                                         *)
(*                                                                         *)
(* The packets of RTCPPacketBuilder for every table of sources, list of    *)
(* items and choice of their intervals and lengths: every item that is due *)
(* goes out once in a round, and every packet fits and is written as long  *)
(* as it was counted.                                                      *)
(***************************************************************************)
EXTENDS RTCPScheduler, RTCPPacketBuilder, Iteration, SequenceTheorems

-----------------------------------------------------------------------------
(* Numbers.                                                                *)

LEMMA ProductIsNat ==
  ASSUME NEW a \in Nat, NEW b \in Nat
  PROVE  a * b \in Nat
  OBVIOUS

LEMMA ProductGrows ==
  ASSUME NEW a \in Nat, NEW b \in Nat, NEW c \in Nat, a <= b
  PROVE  a * c <= b * c
  OBVIOUS

LEMMA QuotientIsLess ==
  ASSUME NEW a \in Nat, NEW b \in Nat \ {0}
  PROVE  a \div b \in Nat /\ a \div b <= a
  OBVIOUS

LEMMA QuotientBound ==
  ASSUME NEW l \in Nat, NEW w \in Nat, NEW p \in Nat \ {0}, l <= p
  PROVE  (l * w) \div p \in Nat /\ (l * w) \div p <= w
<1>1. l * w <= p * w
  BY ProductGrows
<1>2. l * w \in Nat
  BY ProductIsNat
<1>3. QED
  BY <1>1, <1>2

LEMMA RandomFacts ==
  ASSUME NEW td \in Nat \ {0}
  PROVE  /\ Shortest(td) \in Nat \ {0} /\ Longest(td) \in Nat
         /\ Random(td) \subseteq Nat \ {0}
         /\ \A t \in Nat \ {0} :
              t <= td => Shortest(t) <= Shortest(td) /\ Longest(t) <= Longest(td)
  BY DEF Shortest, Longest, Random

LEMMA BiggestFacts ==
  /\ BiggestSize \in Sizes /\ BiggestSize \in Nat \ {0}
  /\ \A s \in Sizes : s <= BiggestSize
  BY SchedulerAssumption DEF BiggestSize

-----------------------------------------------------------------------------
(* The intervals stay within BiggestInterval, which Horizon is made from.  *)

Biggest == Most(MaxMembers, MaxBYEs)

LEMMA BoundFacts ==
  /\ Biggest \in Nat \ {0} /\ MaxMembers <= Biggest /\ MaxBYEs <= Biggest
  /\ Biggest * BiggestSize * Share \in Nat
  /\ BiggestInterval \in Nat \ {0} /\ MinInterval <= BiggestInterval
  /\ Biggest * BiggestSize * Share <= BiggestInterval
  /\ Horizon \in Nat /\ Near \in Nat
<1>1. Biggest \in Nat \ {0} /\ MaxMembers <= Biggest /\ MaxBYEs <= Biggest
  BY SchedulerAssumption DEF Biggest, Most
<1>2. Biggest * BiggestSize \in Nat
  BY <1>1, BiggestFacts, ProductIsNat
<1>3. Biggest * BiggestSize * Share \in Nat
  BY <1>2, SchedulerAssumption, ProductIsNat
<1>4. /\ BiggestInterval \in Nat \ {0} /\ MinInterval <= BiggestInterval
      /\ Biggest * BiggestSize * Share <= BiggestInterval
  BY <1>3, SchedulerAssumption DEF BiggestInterval, Biggest, Most
<1>5. QED
  BY <1>1, <1>3, <1>4, RandomFacts DEF Horizon, Near

\* n members with packets of size a, in a share of the bandwidth.
LEMMA ShareBound ==
  ASSUME NEW n \in Nat, n <= Biggest, NEW a \in Nat, a <= BiggestSize
  PROVE  /\ n * a \in Nat /\ n * a * Share \in Nat
         /\ n * a <= n * a * Share
         /\ n * a * Share <= BiggestInterval
         /\ (n * a * Share) \div (Share - 1) \in Nat
         /\ (n * a * Share) \div (Share - 1) <= BiggestInterval
<1> USE SchedulerAssumption, BiggestFacts, BoundFacts
<1>1. n * a \in Nat /\ Biggest * a \in Nat /\ Biggest * BiggestSize \in Nat
  BY ProductIsNat
<1>2. n * a <= Biggest * a
  BY ProductGrows
<1>3. a * Biggest <= BiggestSize * Biggest
  BY ProductGrows
<1>4. n * a <= Biggest * BiggestSize
  BY <1>1, <1>2, <1>3
<1> DEFINE x == n * a
           y == Biggest * BiggestSize
<1>5. x \in Nat /\ y \in Nat /\ x <= y
  BY <1>1, <1>4
<1> HIDE DEF x, y
<1>6. x * Share \in Nat /\ x * Share <= y * Share /\ x <= x * Share
  BY <1>5, ProductIsNat, ProductGrows
<1>7. x * Share <= BiggestInterval
  BY <1>5, <1>6 DEF y
<1>8. /\ (x * Share) \div (Share - 1) \in Nat
      /\ (x * Share) \div (Share - 1) <= x * Share
  BY <1>6, QuotientIsLess
<1>9. QED
  BY <1>5, <1>6, <1>7, <1>8 DEF x

LEMMA StartupFacts ==
  ASSUME NEW half
  PROVE  Startup(half) \in Nat \ {0} /\ Startup(half) <= BiggestInterval
  BY SchedulerAssumption, BoundFacts DEF Startup

LEMMA BandwidthFacts ==
  ASSUME NEW m \in Nat, m <= Biggest, senders \in Nat, senders <= m,
         NEW avg \in Nat, avg <= BiggestSize, NEW sends
  PROVE  /\ BandwidthInterval(sends, m, avg) \in Nat
         /\ BandwidthInterval(sends, m, avg) <= BiggestInterval
<1>1. senders <= Biggest /\ m - senders \in Nat /\ m - senders <= Biggest
  BY BoundFacts
<1>2. /\ senders * avg * Share \in Nat
      /\ senders * avg * Share <= BiggestInterval
      /\ ((m - senders) * avg * Share) \div (Share - 1) \in Nat
      /\ ((m - senders) * avg * Share) \div (Share - 1) <= BiggestInterval
      /\ m * avg \in Nat /\ m * avg * Share \in Nat
      /\ m * avg <= m * avg * Share
      /\ m * avg * Share <= BiggestInterval
  BY <1>1, ShareBound
<1>3. m * avg <= BiggestInterval
  <2> DEFINE x == m * avg
             y == m * avg * Share
  <2>1. x \in Nat /\ y \in Nat /\ x <= y /\ y <= BiggestInterval
    BY <1>2
  <2> HIDE DEF x, y
  <2>2. x <= BiggestInterval
    BY <2>1, BoundFacts
  <2>3. QED
    BY <2>2 DEF x
<1>4. QED
  BY <1>2, <1>3 DEF BandwidthInterval

LEMMA IntervalFacts ==
  ASSUME TypeOK, NEW sends
  PROVE  /\ CalculateDeterministicInterval(sends) \in Nat \ {0}
         /\ CalculateDeterministicInterval(sends) <= BiggestInterval
<1>1. /\ Most(members, 1) \in Nat /\ Most(members, 1) <= Biggest
      /\ senders \in Nat /\ senders <= Most(members, 1)
      /\ sched.avg \in Nat /\ sched.avg <= BiggestSize
  BY SchedulerAssumption, BoundFacts, BiggestFacts DEF TypeOK, Sched, Most
<1>2. /\ BandwidthInterval(sends, Most(members, 1), sched.avg) \in Nat
      /\ BandwidthInterval(sends, Most(members, 1), sched.avg)
           <= BiggestInterval
  BY <1>1, BandwidthFacts
<1> DEFINE b == BandwidthInterval(sends, Most(members, 1), sched.avg)
           t == Startup(~ sched.hassentrtcp)
<1>3. /\ b \in Nat /\ b <= BiggestInterval
      /\ t \in Nat \ {0} /\ t <= BiggestInterval
  BY <1>2, StartupFacts
<1>4. CalculateDeterministicInterval(sends) = Most(t, b)
  BY DEF CalculateDeterministicInterval
<1> HIDE DEF b, t
<1>5. QED
  BY <1>3, <1>4 DEF Most

LEMMA TransmissionFacts ==
  ASSUME TypeOK, NEW sends
  PROVE  CalculateTransmissionInterval(sends) \subseteq 1..Horizon
<1> DEFINE td == CalculateDeterministicInterval(sends)
<1>1. td \in Nat \ {0} /\ td <= BiggestInterval
  BY IntervalFacts
<1> HIDE DEF td
<1>2. /\ Random(td) \subseteq Nat \ {0} /\ Longest(td) \in Nat
      /\ Longest(td) <= Horizon
  BY <1>1, BoundFacts, RandomFacts DEF Horizon
<1>3. Random(td) \subseteq 1..Horizon
  BY <1>2, BoundFacts, <1>1, RandomFacts DEF Random
<1>4. QED
  BY <1>3 DEF CalculateTransmissionInterval, td

LEMMA BYEFacts ==
  ASSUME NEW s \in Sched
  PROVE  CalculateBYETransmissionInterval(s) \subseteq 0..Horizon
<1> DEFINE b == (s.byemembers * s.avgbye * Share) \div (Share - 1)
           h == Startup(TRUE)
           td == Most(h, b)
<1>1. /\ s.byemembers \in Nat /\ s.byemembers <= Biggest
      /\ s.avgbye \in Nat /\ s.avgbye <= BiggestSize
  BY SchedulerAssumption, BoundFacts, BiggestFacts DEF Sched
<1>2. b \in Nat /\ b <= BiggestInterval
  BY <1>1, ShareBound
<1> HIDE DEF b
<1>8. h \in Nat \ {0} /\ h <= BiggestInterval
  BY StartupFacts
<1> HIDE DEF h
<1>3. td \in Nat \ {0} /\ td <= BiggestInterval
  BY <1>2, <1>8 DEF Most
<1> HIDE DEF td
<1>4. Longest(td) <= Horizon /\ Longest(td) \in Nat
  BY <1>3, BoundFacts, RandomFacts DEF Horizon
<1>5. Random(td) \subseteq 0..Horizon
  BY <1>3, <1>4, BoundFacts, RandomFacts DEF Random
<1>6. 0 \in 0..Horizon
  BY BoundFacts
<1>7. QED
  BY <1>5, <1>6 DEF CalculateBYETransmissionInterval, td, h, b

-----------------------------------------------------------------------------
(* The invariant.                                                          *)

\* A BYE is scheduled only since the last packet, and gap, which no member that
\* leaves moves, is then at least what IsTime compares with.
SchedulerInvariant ==
  /\ TypeOK
  /\ answer => wait > 0
  /\ sched.byescheduled => eased
  /\ ~ eased => gap >= Least(since, Near)

\* The parts of TypeOK.
Times == wait \in 0..Horizon /\ since \in 0..Horizon /\ gap \in 0..Near
Counts == members \in 0..MaxMembers /\ senders \in 0..members
Flags == {aresender, answer, eased} \subseteq BOOLEAN

LEMMA TypeParts == TypeOK <=> Times /\ Counts /\ Flags /\ sched \in Sched
  BY DEF TypeOK, Times, Counts, Flags

LEMMA TypePartsNext ==
  TypeOK' <=> Times' /\ Counts' /\ Flags' /\ sched' \in Sched
  BY DEF TypeOK, Times, Counts, Flags, Sched, Horizon, Near

LEMMA SchedulerInit == Init => SchedulerInvariant
<1> SUFFICES ASSUME Init PROVE SchedulerInvariant
  OBVIOUS
<1>1. sched \in Sched
  BY SchedulerAssumption, BiggestFacts DEF Init, Sched
<1>2. TypeOK
  <2>1. Times
    BY BoundFacts DEF Init, Times
  <2>2. Counts
    BY SchedulerAssumption DEF Init, Counts
  <2>3. Flags
    BY DEF Init, Flags
  <2>4. QED
    BY <1>1, <2>1, <2>2, <2>3, TypeParts
<1>3. QED
  BY <1>2, BoundFacts DEF Init, SchedulerInvariant, Least

\* The running averages stay within the sizes of packets.
LEMMA AverageFacts ==
  ASSUME NEW avg \in 1..BiggestSize, NEW size \in Sizes
  PROVE  Averages(avg, size) \subseteq 1..BiggestSize
  BY SchedulerAssumption, BiggestFacts DEF Averages, Least, Most

LEMMA FirstCallKeeps ==
  ASSUME SchedulerInvariant, FirstCall
  PROVE  SchedulerInvariant'
<1>1. wait' \in 1..Horizon
  BY TransmissionFacts DEF FirstCall, SchedulerInvariant
<1>2. sched' \in Sched
  BY DEF FirstCall, SchedulerInvariant, TypeOK, Sched
<1>3. TypeOK'
  <2>1. Times /\ Counts /\ Flags
    BY TypeParts DEF SchedulerInvariant
  <2>2. Times'
    BY <1>1, <2>1, BoundFacts DEF FirstCall, Times
  <2>3. Counts' /\ Flags'
    BY <2>1 DEF FirstCall, Table, Counts, Flags
  <2>4. QED
    BY <1>2, <2>2, <2>3, TypePartsNext
<1>4. sched'.byescheduled = sched.byescheduled
  BY DEF FirstCall, SchedulerInvariant, TypeOK, Sched
<1>5. QED
  BY <1>3, <1>4, BoundFacts DEF FirstCall, SchedulerInvariant, TypeOK, Least

LEMMA IsTimeKeeps ==
  ASSUME SchedulerInvariant, IsTime
  PROVE  SchedulerInvariant'
<1>1. PICK t \in CheckIntervals : IF t <= since THEN Expire ELSE Reconsider(t)
  BY DEF IsTime
<1>2. /\ TypeOK /\ sched \in Sched /\ since \in 0..Horizon
      /\ Horizon \in Nat /\ Near \in Nat
      /\ Table' = Table
  BY BoundFacts DEF SchedulerInvariant, TypeOK, IsTime
<1>3. CASE Expire
  <2>1. wait' \in 1..Horizon
    BY <1>2, <1>3, TransmissionFacts DEF Expire
  <2>2. sched' \in Sched /\ ~ sched'.byescheduled
    BY <1>2, <1>3 DEF Expire, TypeOK, Sched
  <2>3. TypeOK'
    <3>1. Times'
      BY <1>2, <1>3, <2>1 DEF Expire, Times
    <3>2. Counts' /\ Flags'
      BY <1>2, <1>3, TypeParts DEF Expire, Table, Counts, Flags
    <3>3. QED
      BY <2>2, <3>1, <3>2, TypePartsNext
  <2>4. QED
    BY <1>2, <1>3, <2>1, <2>2, <2>3 DEF Expire, SchedulerInvariant, Least
<1>4. CASE t > since /\ Reconsider(t)
  <2>1. t \in 0..Horizon
    BY <1>1, <1>2, TransmissionFacts, BYEFacts DEF CheckIntervals
  <2>2. wait' \in 0..Horizon
    BY <1>2, <1>4, <2>1 DEF Reconsider
  <2>3. sched' \in Sched /\ sched'.byescheduled = sched.byescheduled
    BY <1>2, <1>4 DEF Reconsider, TypeOK, Sched
  <2>4. TypeOK'
    BY <1>2, <1>4, <2>2, <2>3 DEF Reconsider, TypeOK, Table
  <2>5. QED
    BY <1>4, <2>3, <2>4 DEF Reconsider, SchedulerInvariant
<1>5. QED
  <2>1. t \in 0..Horizon
    BY <1>1, <1>2, TransmissionFacts, BYEFacts DEF CheckIntervals
  <2>2. QED
    BY <1>1, <1>2, <1>3, <1>4, <2>1

LEMMA BYEKeeps ==
  ASSUME SchedulerInvariant, ScheduleBYEPacket
  PROVE  SchedulerInvariant'
<1>1. sched \in Sched /\ sched' \in Sched
  <2>1. sched \in Sched
    BY DEF SchedulerInvariant, TypeOK
  <2>2. members \in 0..MaxMembers /\ 1 \in 1..MaxBYEs
    BY SchedulerAssumption DEF SchedulerInvariant, TypeOK
  <2>3. Sizes \subseteq 1..BiggestSize
    BY BiggestFacts, SchedulerAssumption
  <2>4. PICK size \in Sizes :
          sched' = [sched EXCEPT
                      !.firstcall = FALSE, !.byescheduled = TRUE,
                      !.avgbye = size,
                      !.pmembers = IF sched.firstcall THEN members ELSE @,
                      !.byemembers = 1,
                      !.sendbyenow = ImmediateBYE /\ members < FewMembers]
    BY DEF ScheduleBYEPacket
  <2>5. (ImmediateBYE /\ members < FewMembers) \in BOOLEAN
    OBVIOUS
  <2> DEFINE now == ImmediateBYE /\ members < FewMembers
  <2> HIDE DEF now
  <2>6. QED
    BY <2>1, <2>2, <2>3, <2>4, <2>5 DEF now, Sched
<1>2. wait' \in 0..Horizon
  BY <1>1, BYEFacts DEF ScheduleBYEPacket
<1>3. TypeOK'
  <2>1. Times /\ Counts /\ Flags
    BY TypeParts DEF SchedulerInvariant
  <2>2. Times'
    BY <1>2, <2>1, BoundFacts DEF ScheduleBYEPacket, Times
  <2>3. Counts' /\ Flags'
    BY <2>1 DEF ScheduleBYEPacket, Table, Counts, Flags
  <2>4. QED
    BY <1>1, <2>2, <2>3, TypePartsNext
<1>4. QED
  BY <1>3 DEF ScheduleBYEPacket, SchedulerInvariant

LEMMA AnalyseKeeps ==
  ASSUME SchedulerInvariant, AnalyseReport \/ AnalyseBYE \/ AnalyseOutgoing
  PROVE  SchedulerInvariant'
<1>1. sched \in Sched
  BY DEF SchedulerInvariant, TypeOK
<1>2. sched' \in Sched /\ sched'.byescheduled = sched.byescheduled
  <2>1. CASE AnalyseReport
    BY <1>1, <2>1, AverageFacts DEF AnalyseReport, Sched
  <2>2. CASE AnalyseBYE
    <3>1. sched.byemembers + 1 \in 1..MaxBYEs
      <4>1. sched.byemembers \in 1..MaxBYEs /\ sched.byemembers < MaxBYEs
        BY <1>1, <2>2 DEF AnalyseBYE, Sched
      <4>2. QED
        BY <4>1, SchedulerAssumption
    <3>2. PICK size \in Sizes : \E avg \in Averages(sched.avgbye, size) :
            sched' = [sched EXCEPT !.byemembers = @ + 1, !.avgbye = avg]
      BY <2>2 DEF AnalyseBYE
    <3>3. PICK avg \in 1..BiggestSize :
            sched' = [sched EXCEPT !.byemembers = @ + 1, !.avgbye = avg]
      BY <1>1, <3>2, AverageFacts DEF Sched
    <3>4. QED
      BY <1>1, <3>1, <3>2, <3>3 DEF Sched
  <2>3. CASE AnalyseOutgoing
    BY <1>1, <2>3, AverageFacts DEF AnalyseOutgoing, Sched
  <2>4. QED
    BY <2>1, <2>2, <2>3
<1>3. UNCHANGED <<wait, since, Table, gap, eased>> /\ answer' = FALSE
  BY DEF AnalyseReport, AnalyseBYE, AnalyseOutgoing
<1>4. QED
  BY <1>2, <1>3 DEF SchedulerInvariant, TypeOK, Table

\* What a group that shrank does to the timer.
LEMMA ReversedFacts ==
  ASSUME TypeOK, NEW left \in Nat, left < sched.pmembers,
         PerformReverseReconsideration(left)
  PROVE  /\ wait' \in 0..Horizon /\ wait' <= wait
         /\ since' \in 0..Horizon /\ since' <= since
         /\ sched' \in Sched /\ sched'.byescheduled = sched.byescheduled
<1>1. /\ sched.pmembers \in Nat \ {0} /\ sched.pmembers <= MaxMembers
      /\ MaxMembers \in Nat
      /\ Most(sched.pmembers, 1) = sched.pmembers
      /\ wait \in Nat /\ wait <= Horizon /\ since \in Nat /\ since <= Horizon
      /\ Horizon \in Nat
  BY SchedulerAssumption, BoundFacts DEF TypeOK, Sched, Most
<1>2. /\ wait' \in Nat /\ wait' <= wait
      /\ since' \in Nat /\ since' <= since
  BY <1>1, QuotientBound DEF PerformReverseReconsideration
<1>3. sched' \in Sched /\ sched'.byescheduled = sched.byescheduled
  BY <1>1 DEF PerformReverseReconsideration, TypeOK, Sched
<1>4. QED
  BY <1>1, <1>2, <1>3

LEMMA MembersKeep ==
  ASSUME SchedulerInvariant, NewMember \/ StartSending \/ ActiveMemberDecrease
  PROVE  SchedulerInvariant'
<1>1. /\ TypeOK /\ MaxMembers \in Nat /\ members \in 0..MaxMembers
      /\ senders \in 0..members
  BY SchedulerAssumption DEF SchedulerInvariant, TypeOK
<1>2. CASE NewMember
  <2>1. Times' /\ Flags' /\ sched' \in Sched
    BY <1>1, <1>2, TypeParts DEF NewMember, Times, Flags
  <2>2. Counts'
    BY <1>1, <1>2 DEF NewMember, Counts
  <2>3. QED
    BY <1>2, <2>1, <2>2, TypePartsNext DEF NewMember, SchedulerInvariant
<1>3. CASE StartSending
  <2>1. Times' /\ Flags' /\ sched' \in Sched
    BY <1>1, <1>3, TypeParts DEF StartSending, Times, Flags
  <2>2. Counts'
    BY <1>1, <1>3 DEF StartSending, Counts
  <2>3. QED
    BY <1>3, <2>1, <2>2, TypePartsNext DEF StartSending, SchedulerInvariant
<1>4. CASE ActiveMemberDecrease
  <2>1. /\ wait' \in 0..Horizon /\ since' \in 0..Horizon
        /\ sched' \in Sched /\ sched'.byescheduled = sched.byescheduled
    BY <1>1, <1>4, ReversedFacts DEF ActiveMemberDecrease, TypeOK
  <2>2. TypeOK'
    <3>1. Times'
      BY <1>1, <1>4, <2>1 DEF ActiveMemberDecrease, Times, TypeOK
    <3>2. Counts'
      BY <1>1, <1>4 DEF ActiveMemberDecrease, Counts
    <3>3. Flags'
      BY <1>1, <1>4, TypeParts DEF ActiveMemberDecrease, Flags
    <3>4. QED
      BY <2>1, <3>1, <3>2, <3>3, TypePartsNext
  <2>3. QED
    BY <1>4, <2>1, <2>2 DEF ActiveMemberDecrease, SchedulerInvariant
<1>5. QED
  BY <1>2, <1>3, <1>4

LEMMA TickKeeps ==
  ASSUME SchedulerInvariant, Tick
  PROVE  SchedulerInvariant'
<1>1. Times /\ Counts /\ Flags /\ sched \in Sched
  BY TypeParts DEF SchedulerInvariant
<1>2. Times'
  BY <1>1, BoundFacts DEF Tick, Times, Least, Most
<1>3. Counts' /\ Flags' /\ sched' \in Sched
  BY <1>1 DEF Tick, Table, Counts, Flags
<1>4. gap >= Least(since, Near) => gap' >= Least(since', Near)
  BY <1>1, BoundFacts DEF Tick, Times, Least
<1>5. QED
  BY <1>2, <1>3, <1>4, TypePartsNext DEF Tick, SchedulerInvariant

LEMMA SchedulerStep ==
  ASSUME SchedulerInvariant, [Next]_vars
  PROVE  SchedulerInvariant'
<1>1. CASE UNCHANGED vars
  BY <1>1 DEF vars, SchedulerInvariant, TypeOK
<1>2. QED
  BY <1>1, FirstCallKeeps, IsTimeKeeps, BYEKeeps, AnalyseKeeps, MembersKeep,
     TickKeeps DEF Next

THEOREM SchedulerIsRight == Spec => []SchedulerInvariant
  BY SchedulerInit, SchedulerStep, PTL DEF Spec

\* IsTime never says yes twice at once: the next packet has its own time, later
\* than the present, for every group, packet size and bandwidth.
THEOREM NeverTwiceAtOnce == Spec => []NotTwiceAtOnce
<1>1. SchedulerInvariant => NotTwiceAtOnce
  BY DEF SchedulerInvariant, NotTwiceAtOnce
<1>2. QED
  BY <1>1, SchedulerIsRight, PTL

\* Reports keep their distance for the group as it is when they go out.
THEOREM ReportsKeepDistance == Spec => ReportsAreSpaced
<1> DEFINE td == CalculateDeterministicInterval(aresender)
<1>1. ASSUME SchedulerInvariant, [Next]_vars, answer', ~ eased,
             ~ UNCHANGED vars
      PROVE  gap >= Shortest(td)
  <2>1. IsTime
    BY <1>1
       DEF Next, FirstCall, ScheduleBYEPacket, AnalyseReport, AnalyseBYE,
           AnalyseOutgoing, NewMember, StartSending, ActiveMemberDecrease, Tick
  <2>2. PICK t \in CheckIntervals : t <= since
    BY <1>1, <2>1 DEF IsTime, Reconsider
  <2>3. /\ td \in Nat \ {0} /\ td <= BiggestInterval
        /\ BiggestInterval \in Nat \ {0} /\ Near \in Nat
    BY <1>1, IntervalFacts, BoundFacts DEF SchedulerInvariant
  <2>4. t \in Random(td)
    BY <1>1, <2>2
       DEF CheckIntervals, CalculateTransmissionInterval, SchedulerInvariant
  <2>5. /\ gap \in Nat /\ since \in Nat /\ gap >= Least(since, Near)
    BY <1>1, BoundFacts DEF SchedulerInvariant, TypeOK
  <2> HIDE DEF td
  <2>6. Shortest(td) \in Nat /\ Shortest(td) <= Near
    BY <2>3, RandomFacts DEF Near
  <2>7. Shortest(td) <= t /\ t \in Nat
    BY <2>3, <2>4, RandomFacts DEF Random
  <2>8. QED
    BY <2>2, <2>5, <2>6, <2>7, <2>3 DEF Least
<1>2. SchedulerInvariant /\ [Next]_vars =>
        [answer' /\ ~ eased => gap >= Shortest(td)]_vars
  BY <1>1
<1>3. QED
  BY <1>2, SchedulerIsRight, PTL DEF Spec, ReportsAreSpaced

\* A member that leaves brings the next packet nearer, never further away.
THEOREM LeavingOnlyHurries == Spec => LeavingNeverDelays
<1>1. ASSUME SchedulerInvariant, [Next]_vars, members' < members
      PROVE  wait' <= wait /\ since' <= since
  <2>1. TypeOK /\ members \in Nat /\ wait \in Nat /\ since \in Nat
    BY <1>1, SchedulerAssumption, BoundFacts DEF SchedulerInvariant, TypeOK
  <2>2. ActiveMemberDecrease
    <3>1. members' # members /\ members' # members + 1
      BY <1>1, <2>1
    <3>2. QED
      BY <1>1, <3>1
         DEF Next, vars, Table, FirstCall, IsTime, ScheduleBYEPacket,
             AnalyseReport, AnalyseBYE, AnalyseOutgoing, NewMember,
             StartSending, Tick
  <2>3. QED
    BY <2>1, <2>2, ReversedFacts DEF ActiveMemberDecrease
<1>2. SchedulerInvariant /\ [Next]_vars =>
        [members' < members => wait' <= wait /\ since' <= since]_vars
  BY <1>1
<1>3. QED
  BY <1>2, SchedulerIsRight, PTL DEF Spec, LeavingNeverDelays

-----------------------------------------------------------------------------
(* Picking elements of a sequence.                                         *)

\* How many of the places lie up to i.
Rank(places, i) == Cardinality({j \in places : j <= i})

\* Places have different ranks, growing with them.
LEMMA RanksGrow ==
  ASSUME NEW places \in SUBSET Nat, IsFiniteSet(places), NEW i \in places, NEW k \in places,
         i < k
  PROVE  Rank(places, i) < Rank(places, k)
<1> DEFINE A == {j \in places : j <= i}
           B == {j \in places : j <= k}
<1>1. /\ \A j \in places : j \in Nat /\ (j <= i => j <= k)
      /\ k <= k /\ ~ (k <= i)
  OBVIOUS
<1>2. A \subseteq B /\ k \in B /\ k \notin A
  BY <1>1
<1>3. IsFiniteSet(B)
  BY FS_Subset
<1> HIDE DEF A, B
<1>4. /\ Cardinality(A) \in Nat /\ Cardinality(B) \in Nat
      /\ Cardinality(A) <= Cardinality(B) /\ Cardinality(A) # Cardinality(B)
  BY <1>2, <1>3, FS_Subset, FS_CardinalityType
<1>5. Cardinality(A) < Cardinality(B)
  BY <1>4
<1> QED BY <1>5 DEF Rank, A, B

\* The n-th of some places is one of them, and each is the n-th for one n.
LEMMA NthPlaces ==
  ASSUME NEW max \in Nat, NEW places \in SUBSET (1..max)
  PROVE  /\ IsFiniteSet(places) /\ Cardinality(places) \in 0..max
         /\ \A n \in 1..Cardinality(places) :
              Nth(places, n) \in places /\ Rank(places, Nth(places, n)) = n
         /\ \A i \in places :
              Rank(places, i) \in 1..Cardinality(places) /\ Nth(places, Rank(places, i)) = i
<1>1. IsFiniteSet(1..max) /\ Cardinality(1..max) = max
  BY FS_Interval
<1>2. IsFiniteSet(places) /\ Cardinality(places) \in 0..max
  <2>1. IsFiniteSet(places) /\ Cardinality(places) <= Cardinality(1..max)
    BY <1>1, FS_Subset
  <2>2. Cardinality(places) \in Nat
    BY <2>1, FS_CardinalityType
  <2> QED BY <1>1, <2>1, <2>2
<1>3. places \in SUBSET Nat /\ \A i \in places : i \in Nat /\ i <= max
  OBVIOUS
<1>4. ASSUME NEW n \in 1..Cardinality(places)
      PROVE  Nth(places, n) \in places /\ Rank(places, Nth(places, n)) = n
  <2>1. \E i \in places : Cardinality({j \in places : j <= i}) = n
    BY <1>2, <1>3, RankExists
  <2> QED BY <2>1 DEF Nth, Rank
<1>5. ASSUME NEW i \in places
      PROVE  Rank(places, i) \in 1..Cardinality(places) /\ Nth(places, Rank(places, i)) = i
  <2> DEFINE A == {j \in places : j <= i}
  <2>1. A \subseteq places /\ i \in A
    BY <1>3
  <2>2. Cardinality(A) \in Nat /\ Cardinality(A) <= Cardinality(places) /\ Cardinality(A) # 0
    <3> HIDE DEF A
    <3>1. IsFiniteSet(A) /\ Cardinality(A) <= Cardinality(places)
      BY <1>2, <2>1, FS_Subset
    <3>2. A # {}
      BY <2>1
    <3> QED BY <3>1, <3>2, FS_CardinalityType, FS_EmptySet
  <2>3. Rank(places, i) \in 1..Cardinality(places)
    BY <1>2, <2>2 DEF Rank
  <2>4. /\ Nth(places, Rank(places, i)) \in places
        /\ Rank(places, Nth(places, Rank(places, i))) = Rank(places, i)
    BY <1>4, <2>3
  <2>5. PICK k \in places : k = Nth(places, Rank(places, i)) /\ Rank(places, k) = Rank(places, i)
    BY <2>4
  <2>6. ~ (i < k) /\ ~ (k < i)
    <3>1. i < k => Rank(places, i) < Rank(places, k)
      BY <1>2, <1>3, RanksGrow
    <3>2. k < i => Rank(places, k) < Rank(places, i)
      BY <1>2, <1>3, RanksGrow
    <3>3. Rank(places, i) \in Int
      BY <2>3
    <3> QED BY <2>5, <3>1, <3>2, <3>3
  <2>7. i = k
    BY <1>3, <2>6
  <2> QED BY <2>3, <2>5, <2>7
<1> QED BY <1>2, <1>4, <1>5

\* What Picked picks: the elements at the places, each once if they differ.
LEMMA PickedFacts ==
  ASSUME NEW S, NEW s \in Seq(S), NEW places \in SUBSET DOMAIN s
  PROVE  /\ Picked(s, places) \in Seq(S)
         /\ Len(Picked(s, places)) = Cardinality(places) /\ Cardinality(places) \in Nat
         /\ \A n \in DOMAIN Picked(s, places) :
              \E i \in places : Picked(s, places)[n] = s[i]
         /\ \A i \in places : \E n \in DOMAIN Picked(s, places) : Picked(s, places)[n] = s[i]
         /\ IsInjective(s) => IsInjective(Picked(s, places))
<1>1. Len(s) \in Nat /\ DOMAIN s = 1..Len(s) /\ places \in SUBSET (1..Len(s))
  OBVIOUS
<1>2. /\ Cardinality(places) \in Nat
      /\ \A n \in 1..Cardinality(places) :
           Nth(places, n) \in places /\ Rank(places, Nth(places, n)) = n
      /\ \A i \in places :
           Rank(places, i) \in 1..Cardinality(places) /\ Nth(places, Rank(places, i)) = i
  BY <1>1, NthPlaces
<1> DEFINE p == Picked(s, places)
<1>3. /\ DOMAIN p = 1..Cardinality(places)
      /\ \A n \in 1..Cardinality(places) : p[n] = s[Nth(places, n)]
  BY DEF Picked
<1>4. \A n \in 1..Cardinality(places) : s[Nth(places, n)] \in S
  BY <1>1, <1>2
<1>5. p \in Seq(S) /\ Len(p) = Cardinality(places)
  BY <1>2, <1>4 DEF Picked
<1>6. ASSUME IsInjective(s) PROVE IsInjective(p)
  <2> SUFFICES ASSUME NEW a \in DOMAIN p, NEW b \in DOMAIN p, p[a] = p[b] PROVE a = b
    BY DEF IsInjective
  <2>1. /\ Nth(places, a) \in DOMAIN s /\ Nth(places, b) \in DOMAIN s
        /\ s[Nth(places, a)] = s[Nth(places, b)]
    BY <1>2, <1>3
  <2>2. Nth(places, a) = Nth(places, b)
    BY <1>6, <2>1 DEF IsInjective
  <2> QED BY <1>2, <1>3, <2>2
<1> QED BY <1>2, <1>3, <1>5, <1>6

\* TakenFirst counts the calls taken before the first refusal.
LEMMA TakenFirstFacts ==
  ASSUME NEW max \in Nat, NEW taken
  PROVE  /\ TakenFirst(max, taken) \in 0..max
         /\ 1..TakenFirst(max, taken) \subseteq taken
         /\ TakenFirst(max, taken) < max => TakenFirst(max, taken) + 1 \notin taken
<1> DEFINE C == {k \in 1..max + 1 : k = max + 1 \/ k \notin taken}
<1>1. C \in SUBSET Nat /\ C # {}
  <2>1. max + 1 \in C
    OBVIOUS
  <2> QED BY <2>1
<1>2. PICK m \in C : \A k \in C : m <= k
  <2> HIDE DEF C
  <2> QED BY <1>1, LeastNumber
<1>3. m \in 1..max + 1 /\ (m = max + 1 \/ m \notin taken)
  OBVIOUS
<1>4. \A k \in 1..max : k < m => k \in taken
  BY <1>2, <1>3
<1>5. /\ m - 1 \in 0..max /\ 1..m - 1 \subseteq taken
      /\ m - 1 < max => (m - 1) + 1 \notin taken
  BY <1>3, <1>4
<1> QED BY <1>5 DEF TakenFirst

-----------------------------------------------------------------------------
(* The marks on the items.                                                 *)

\* A round that goes on has sent the items it marked, but for those an earlier
\* session had left marked; outside a round only such marks are there.
BuilderInv ==
  /\ BuilderTypeOK
  /\ round \in [sent : [ItemNames -> {0, 1}], stale : SUBSET ItemNames,
                left : SUBSET ItemNames]
  /\ sdes.processing =>
       /\ round.left = {} /\ round.stale \subseteq sdes.done
       /\ sdes.done \ round.stale \subseteq sdes.due
       /\ \A i \in ItemNames : round.sent[i] = 1 <=> i \in sdes.done \ round.stale
  /\ ~ sdes.processing =>
       /\ sdes.done = round.left
       /\ \A i \in ItemNames : round.sent[i] = 1 <=> i \in sdes.due \ round.stale

LEMMA ItemNamesFacts ==
  /\ ItemNames \subseteq DOMAIN ItemId /\ ItemOrder \in Seq(ItemNames)
  /\ \A i \in ItemNames : \E k \in DOMAIN ItemOrder : ItemOrder[k] = i
  /\ \A k \in DOMAIN ItemOrder : ItemOrder[k] \in ItemNames
<1>1. ItemOrder \in Seq(DOMAIN ItemId)
  BY PacketBuilderAssumption
<1>2. \A k \in DOMAIN ItemOrder : ItemOrder[k] \in DOMAIN ItemId
  BY <1>1
<1>3. \A k \in 1..Len(ItemOrder) : ItemOrder[k] \in ItemNames
  BY <1>1 DEF ItemNames
<1>4. ItemOrder \in Seq(ItemNames)
  BY <1>1, <1>3
<1> QED BY <1>1, <1>2, <1>3, <1>4 DEF ItemNames

\* FillInSDES adds due items that are not marked: all of them, or some remain.
AddsDue(f, due, done) ==
  /\ f.added \subseteq due \ done
  /\ f.processedall \in BOOLEAN
  /\ f.processedall => f.added = due \ done
  /\ ~ f.processedall => (due \ done) \ f.added # {}

LEMMA FillInSDESFacts ==
  ASSUME NEW b, NEW due \in SUBSET ItemNames, NEW done \in SUBSET ItemNames
  PROVE  AddsDue(FillInSDES(b, due, done), due, done)
<1> DEFINE places == {k \in DOMAIN ItemOrder : ItemOrder[k] \in due \ done}
           open == Picked(ItemOrder, places)
           n == ItemsTaken(b, open)
<1>1. /\ open \in Seq(ItemNames) /\ Len(open) \in Nat /\ DOMAIN open = 1..Len(open)
      /\ \A k \in DOMAIN open : \E i \in places : open[k] = ItemOrder[i]
      /\ \A i \in places : \E k \in DOMAIN open : open[k] = ItemOrder[i]
      /\ IsInjective(open)
  <2>1. ItemOrder \in Seq(ItemNames) /\ places \in SUBSET DOMAIN ItemOrder /\ IsInjective(ItemOrder)
    BY ItemNamesFacts, PacketBuilderAssumption
  <2>2. open \in Seq(ItemNames)
    BY <2>1, PickedFacts
  <2> HIDE DEF places
  <2> QED BY <2>1, <2>2, PickedFacts
<1>2. n \in 0..Len(open)
  BY <1>1, TakenFirstFacts DEF ItemsTaken
<1>3. {open[k] : k \in DOMAIN open} = due \ done
  <2>1. \A k \in DOMAIN open : open[k] \in due \ done
    BY <1>1
  <2>2. \A i \in due \ done : \E p \in places : ItemOrder[p] = i
    BY ItemNamesFacts
  <2>3. \A i \in due \ done : \E k \in DOMAIN open : open[k] = i
    BY <1>1, <2>2
  <2> HIDE DEF open, places
  <2> QED BY <2>1, <2>3
<1>4. /\ FillInSDES(b, due, done).added = {open[k] : k \in 1..n}
      /\ FillInSDES(b, due, done).processedall = (n = Len(open))
  BY DEF FillInSDES, ItemsOf
<1> HIDE DEF places, open, n
<1>5. {open[k] : k \in 1..n} \subseteq due \ done
  BY <1>1, <1>2, <1>3
<1>6. n = Len(open) => {open[k] : k \in 1..n} = due \ done
  BY <1>1, <1>3
<1>7. ASSUME n # Len(open) PROVE (due \ done) \ {open[k] : k \in 1..n} # {}
  <2>1. n + 1 \in DOMAIN open /\ n + 1 \notin 1..n /\ 1..n \subseteq DOMAIN open
    <3>1. PICK l \in Nat : l = Len(open)
      BY <1>1
    <3>2. n \in 0..l /\ n # l
      BY <1>2, <1>7, <3>1
    <3>3. n + 1 \in 1..l /\ n + 1 \notin 1..n /\ 1..n \subseteq 1..l
      BY ONLY <3>2, l \in Nat
    <3> QED BY <1>1, <3>1, <3>3
  <2>2. open[n + 1] \in due \ done
    BY <1>3, <2>1
  <2>3. \A k \in 1..n : open[k] # open[n + 1]
    BY <1>1, <2>1 DEF IsInjective
  <2> QED BY <2>2, <2>3
<1> QED BY <1>4, <1>5, <1>6, <1>7 DEF AddsDue

\* FillInReportBlocks adds sources that have sent.
LEMMA FillInReportBlocksFacts ==
  ASSUME BuilderTypeOK, NEW b, NEW marks, NEW maxcount \in Nat
  PROVE  /\ FillInReportBlocks(b, marks, maxcount).added \subseteq {s \in Sources : data[s] # "none"}
         /\ FillInReportBlocks(b, marks, maxcount).added \subseteq {s \in Sources : Eligible(s)} \ marks
<1> DEFINE places == {i \in DOMAIN table : Eligible(table[i]) /\ table[i] \notin marks}
           open == Picked(table, places)
           n == ReportBlocksTaken(b, open, maxcount)
<1>1. table \in Seq(Sources) /\ places \in SUBSET DOMAIN table
  BY DEF BuilderTypeOK
<1>2. open \in Seq(Sources) /\ \A k \in DOMAIN open : \E i \in places : open[k] = table[i]
  <2> HIDE DEF places
  <2> QED BY <1>1, PickedFacts
<1>3. n \in 0..Len(open)
  <2> DEFINE max == Smallest(Len(open), maxcount)
  <2>1. Len(open) \in Nat /\ DOMAIN open = 1..Len(open)
    BY <1>2
  <2>2. max \in Nat /\ max <= Len(open)
    BY <2>1 DEF Smallest
  <2>3. n \in 0..max
    <3> HIDE DEF max, open
    <3>1. \A taken : TakenFirst(max, taken) \in 0..max
      BY <2>2, TakenFirstFacts
    <3> QED BY <3>1 DEF ReportBlocksTaken, max
  <2> QED BY <2>1, <2>2, <2>3
<1>4. \A k \in 1..n : open[k] \in Sources /\ Eligible(open[k]) /\ open[k] \notin marks
  <2>1. \A k \in 1..n : k \in DOMAIN open
    BY <1>2, <1>3
  <2> QED BY <1>1, <1>2, <2>1
<1>5. FillInReportBlocks(b, marks, maxcount).added = {open[k] : k \in 1..n}
  BY DEF FillInReportBlocks, ReportBlocks
<1> HIDE DEF open, n
<1> QED BY <1>4, <1>5 DEF Eligible

\* What BuildNextPacket makes of the marks.
GoodResult(r) ==
  /\ r.ok \in BOOLEAN
  /\ r.ok =>
       /\ r.processed \subseteq {s \in Sources : data[s] # "none"}
       /\ r.sdes \in [processing : BOOLEAN, count : 0..Cycle - 1,
                      due : SUBSET ItemNames, done : SUBSET ItemNames]
       /\ r.items \subseteq ItemNames /\ r.begins \in BOOLEAN
       /\ r.sdes.processing => r.sdes.due \ r.sdes.done # {}
       /\ r.begins => ~ sdes.processing
       /\ ~ r.begins => r.sdes.due = sdes.due
       /\ ~ r.begins /\ ~ sdes.processing => r.sdes = sdes /\ r.items = {}
       /\ r.begins \/ sdes.processing =>
            IF r.sdes.processing
            THEN r.items \subseteq r.sdes.due \ sdes.done /\ r.sdes.done = sdes.done \cup r.items
            ELSE r.items = r.sdes.due \ sdes.done /\ r.sdes.done = {}

LEMMA SdesType ==
  ASSUME BuilderTypeOK
  PROVE  /\ sdes.processing \in BOOLEAN /\ sdes.count \in 0..Cycle - 1
         /\ sdes.due \subseteq ItemNames /\ sdes.done \subseteq ItemNames
         /\ sdes = [processing |-> sdes.processing, count |-> sdes.count,
                    due |-> sdes.due, done |-> sdes.done]
         /\ TotalCount \in Nat
         /\ Due(NextRound) \subseteq ItemNames /\ NextRound \in 0..Cycle - 1
<1>1. Cycle \in Nat \ {0}
  BY PacketBuilderAssumption
<1>2. sdes \in [processing : BOOLEAN, count : 0..Cycle - 1,
                due : SUBSET ItemNames, done : SUBSET ItemNames]
  BY DEF BuilderTypeOK
<1>3. NextRound \in 0..Cycle - 1
  <2>1. PICK c \in 0..Cycle - 1 : c = sdes.count
    BY <1>2
  <2>2. (c + 1) % Cycle \in 0..Cycle - 1
    BY ONLY <1>1, c \in 0..Cycle - 1
  <2> QED BY <2>1, <2>2 DEF NextRound
<1>4. Due(NextRound) \subseteq ItemNames
  BY DEF Due
<1>5. TotalCount \in Nat
  <2>1. table \in Seq(Sources)
    BY DEF BuilderTypeOK
  <2> QED BY <2>1 DEF TotalCount
<1> HIDE DEF NextRound
<1> QED BY <1>2, <1>3, <1>4, <1>5

\* A round that begins.
LEMMA BeginsRoundFacts ==
  ASSUME BuilderTypeOK, ~ sdes.processing, NEW b, NEW f, f.skipped \in Nat
  PROVE  GoodResult(BeginsRound(f, FillInSDES(b, Due(NextRound), sdes.done)))
<1> DEFINE s == FillInSDES(b, Due(NextRound), sdes.done)
           again == FillInReportBlocks(s.b, {}, f.skipped)
<1>1. /\ s.added \subseteq Due(NextRound) \ sdes.done
      /\ s.processedall \in BOOLEAN
      /\ s.processedall => s.added = Due(NextRound) \ sdes.done
      /\ ~ s.processedall => (Due(NextRound) \ sdes.done) \ s.added # {}
  <2>1. Due(NextRound) \in SUBSET ItemNames /\ sdes.done \in SUBSET ItemNames
    BY SdesType
  <2>2. AddsDue(s, Due(NextRound), sdes.done)
    BY <2>1, FillInSDESFacts
  <2> QED BY <2>2 DEF AddsDue
<1>2. again.added \subseteq {x \in Sources : data[x] # "none"}
  BY FillInReportBlocksFacts
<1> HIDE DEF s, again
<1>3. Opened = [processing |-> FALSE, count |-> NextRound, due |-> Due(NextRound),
                done |-> sdes.done]
  BY DEF Opened
<1>4. CASE ~ s.processedall
  <2> DEFINE r == Built(s.b, {}, [Opened EXCEPT !.processing = TRUE, !.done = @ \cup s.added],
                        s.added, TRUE)
  <2>1. BeginsRound(f, s) = r
    BY <1>4 DEF BeginsRound
  <2>2. /\ r.ok = TRUE /\ r.processed = {} /\ r.items = s.added /\ r.begins = TRUE
        /\ r.sdes = [processing |-> TRUE, count |-> NextRound, due |-> Due(NextRound),
                     done |-> sdes.done \cup s.added]
    BY <1>3 DEF Built
  <2> HIDE DEF r
  <2>3. /\ r.sdes.processing = TRUE /\ r.sdes.due = Due(NextRound)
        /\ r.sdes.done = sdes.done \cup s.added
        /\ r.sdes.due \ r.sdes.done # {} /\ s.added \subseteq ItemNames
    BY <1>1, <1>4, <2>2, SdesType
  <2>4. r.sdes \in [processing : BOOLEAN, count : 0..Cycle - 1,
                    due : SUBSET ItemNames, done : SUBSET ItemNames]
    BY <2>2, <2>3, SdesType
  <2>5. GoodResult(r)
    BY <1>1, <2>2, <2>3, <2>4 DEF GoodResult
  <2> QED BY <2>1, <2>5 DEF s
<1>5. ASSUME s.processedall, NEW bb, NEW marks, marks \subseteq {x \in Sources : data[x] # "none"}
      PROVE  GoodResult(Built(bb, marks, [Opened EXCEPT !.done = {}], s.added, TRUE))
  <2> DEFINE r == Built(bb, marks, [Opened EXCEPT !.done = {}], s.added, TRUE)
  <2>1. /\ r.ok = TRUE /\ r.processed = marks /\ r.items = s.added /\ r.begins = TRUE
        /\ r.sdes = [processing |-> FALSE, count |-> NextRound, due |-> Due(NextRound),
                     done |-> {}]
    BY <1>3 DEF Built
  <2> HIDE DEF r
  <2>2. /\ r.sdes.processing = FALSE /\ r.sdes.due = Due(NextRound) /\ r.sdes.done = {}
        /\ s.added \subseteq ItemNames /\ s.added = r.sdes.due \ sdes.done
    BY <1>1, <1>5, <2>1, SdesType
  <2>3. r.sdes \in [processing : BOOLEAN, count : 0..Cycle - 1,
                    due : SUBSET ItemNames, done : SUBSET ItemNames]
    BY <2>1, <2>2, SdesType
  <2>4. GoodResult(r)
    BY <1>5, <2>1, <2>2, <2>3 DEF GoodResult
  <2> QED BY <2>4 DEF r
<1>6. CASE s.processedall /\ f.skipped > 0
  <2>1. BeginsRound(f, s) = Built(again.b, again.added, [Opened EXCEPT !.done = {}], s.added, TRUE)
    BY <1>6 DEF BeginsRound, FillsUp, again
  <2> QED BY <1>2, <1>5, <1>6, <2>1 DEF s
<1>7. CASE s.processedall /\ ~ (f.skipped > 0)
  <2>1. BeginsRound(f, s) = Built(s.b, {}, [Opened EXCEPT !.done = {}], s.added, TRUE)
    BY <1>7 DEF BeginsRound
  <2> QED BY <1>5, <1>7, <2>1 DEF s
<1> QED BY <1>1, <1>4, <1>6, <1>7

LEMMA SkippedIsNat ==
  ASSUME BuilderTypeOK, NEW b, NEW maxcount \in Nat
  PROVE  FillInReportBlocks(b, processed, maxcount).skipped \in Nat
<1>1. IsFiniteSet({s \in processed : Eligible(s)})
  <2>1. {s \in processed : Eligible(s)} \subseteq Sources
    BY DEF BuilderTypeOK
  <2> QED BY <2>1, FS_Subset, PacketBuilderAssumption
<1> QED BY <1>1, FS_CardinalityType DEF FillInReportBlocks, ReportBlocks

\* A packet of reports, and perhaps a round that begins.
LEMMA ReportsFirstFacts ==
  ASSUME BuilderTypeOK, ~ sdes.processing
  PROVE  GoodResult(ReportsFirst)
<1> DEFINE f == FillInReportBlocks(Begun(sender), processed, TotalCount)
<1>1. TotalCount \in Nat
  BY SdesType
<1>2. f.skipped \in Nat /\ f.added \subseteq {s \in Sources : data[s] # "none"}
  BY <1>1, SkippedIsNat, FillInReportBlocksFacts
<1>3. ReportsFirst = AfterReports(f)
  BY DEF ReportsFirst
<1> HIDE DEF f
<1>4. processed \subseteq {s \in Sources : data[s] # "none"}
  BY DEF BuilderTypeOK
<1>5. sdes \in [processing : BOOLEAN, count : 0..Cycle - 1,
                due : SUBSET ItemNames, done : SUBSET ItemNames]
  BY DEF BuilderTypeOK
<1>6. CASE f.full /\ f.added = {}
  <2>1. AfterReports(f) = TooSoon
    BY <1>6 DEF AfterReports
  <2> QED BY <1>3, <2>1 DEF TooSoon, GoodResult
<1>7. CASE f.full /\ f.added # {}
  <2> DEFINE r == Built(f.b, processed \cup f.added, sdes, {}, FALSE)
  <2>1. AfterReports(f) = r
    BY <1>7 DEF AfterReports
  <2>2. /\ r.ok = TRUE /\ r.processed = processed \cup f.added /\ r.sdes = sdes
        /\ r.items = {} /\ r.begins = FALSE
    BY DEF Built
  <2> HIDE DEF r
  <2>3. GoodResult(r)
    BY <1>2, <1>4, <1>5, <2>2 DEF GoodResult
  <2> QED BY <1>3, <2>1, <2>3
<1>8. CASE ~ f.full
  <2>1. AfterReports(f) = BeginsRound(f, FillInSDES(f.b, Due(NextRound), sdes.done))
    BY <1>8 DEF AfterReports
  <2> QED BY <1>2, <1>3, <2>1, BeginsRoundFacts
<1> QED BY <1>6, <1>7, <1>8

\* A packet in the middle of a round.
LEMMA ItemsFirstFacts ==
  ASSUME BuilderTypeOK, sdes.processing
  PROVE  GoodResult(ItemsFirst)
<1> DEFINE s == FillInSDES(Begun(sender), sdes.due, sdes.done)
           f == FillInReportBlocks(s.b, processed, TotalCount)
           marks == IF f.atendoflist THEN {} ELSE processed \cup f.added
<1>1. TotalCount \in Nat /\ sdes.due \in SUBSET ItemNames /\ sdes.done \in SUBSET ItemNames
  BY SdesType
<1>2. AddsDue(s, sdes.due, sdes.done)
  BY <1>1, FillInSDESFacts
<1>3. f.added \subseteq {x \in Sources : data[x] # "none"}
  BY <1>1, FillInReportBlocksFacts
<1>4. ItemsFirst = AfterItems(s)
  BY DEF ItemsFirst
<1> HIDE DEF s
<1>5. marks \subseteq {x \in Sources : data[x] # "none"}
  <2>1. processed \subseteq {x \in Sources : data[x] # "none"}
    BY DEF BuilderTypeOK
  <2> HIDE DEF f
  <2> QED BY <1>3, <2>1
<1>6. sdes \in [processing : BOOLEAN, count : 0..Cycle - 1,
                due : SUBSET ItemNames, done : SUBSET ItemNames]
  BY DEF BuilderTypeOK
<1>7. CASE s.added = {}
  <2>1. AfterItems(s) = TooSoon
    BY <1>7 DEF AfterItems
  <2> QED BY <1>4, <2>1 DEF TooSoon, GoodResult
<1>8. CASE s.added # {} /\ ~ s.processedall
  <2> DEFINE r == Built(s.b, processed, [sdes EXCEPT !.done = @ \cup s.added], s.added, FALSE)
  <2>1. AfterItems(s) = r
    BY <1>8 DEF AfterItems
  <2>2. /\ r.ok = TRUE /\ r.processed = processed /\ r.items = s.added /\ r.begins = FALSE
        /\ r.sdes = [sdes EXCEPT !.done = @ \cup s.added]
    BY DEF Built
  <2> HIDE DEF r
  <2>3. /\ s.added \subseteq sdes.due \ sdes.done /\ s.added \subseteq ItemNames
        /\ (sdes.due \ sdes.done) \ s.added # {}
    BY <1>1, <1>2, <1>8 DEF AddsDue
  <2>4. /\ r.sdes.due = sdes.due /\ r.sdes.done = sdes.done \cup s.added
        /\ r.sdes.processing = TRUE
        /\ r.sdes \in [processing : BOOLEAN, count : 0..Cycle - 1,
                       due : SUBSET ItemNames, done : SUBSET ItemNames]
    BY <1>6, <2>2, <2>3
  <2>5. processed \subseteq {x \in Sources : data[x] # "none"}
    BY DEF BuilderTypeOK
  <2>6. GoodResult(r)
    BY <2>2, <2>3, <2>4, <2>5 DEF GoodResult
  <2> QED BY <1>4, <2>1, <2>6
<1>9. CASE s.added # {} /\ s.processedall
  <2> DEFINE r == EndsRound(s, f)
  <2>1. AfterItems(s) = r
    BY <1>9 DEF AfterItems
  <2>2. /\ r.ok = TRUE /\ r.processed = marks /\ r.items = s.added /\ r.begins = FALSE
        /\ r.sdes = [sdes EXCEPT !.processing = FALSE, !.done = {}]
    BY DEF EndsRound, Built
  <2> HIDE DEF r, marks
  <2>3. /\ s.added = sdes.due \ sdes.done /\ s.added \subseteq ItemNames
    BY <1>1, <1>2, <1>9 DEF AddsDue
  <2>4. /\ r.sdes.due = sdes.due /\ r.sdes.done = {} /\ r.sdes.processing = FALSE
        /\ r.sdes \in [processing : BOOLEAN, count : 0..Cycle - 1,
                       due : SUBSET ItemNames, done : SUBSET ItemNames]
    BY <1>6, <2>2, <2>3
  <2>5. GoodResult(r)
    BY <1>5, <2>2, <2>3, <2>4 DEF GoodResult
  <2> QED BY <1>4, <2>1, <2>5
<1> QED BY <1>2, <1>7, <1>8, <1>9 DEF AddsDue

LEMMA NextPacketFacts ==
  ASSUME BuilderTypeOK
  PROVE  GoodResult(NextPacket)
<1>1. GoodResult(TooSoon)
  BY DEF TooSoon, GoodResult
<1> QED BY <1>1, ReportsFirstFacts, ItemsFirstFacts DEF NextPacket

\* The invariant holds at first ...
LEMMA BuilderBegins == BuilderInit => BuilderInv
<1> SUFFICES ASSUME BuilderInit PROVE BuilderInv
  OBVIOUS
<1>1. Cycle \in Nat \ {0} /\ MaxWait \in Nat
  BY PacketBuilderAssumption
<1>2. IsInjective(<<>>)
  BY DEF IsInjective
<1>3. sdes \in [processing : BOOLEAN, count : 0..Cycle - 1,
                due : SUBSET ItemNames, done : SUBSET ItemNames]
  BY <1>1 DEF BuilderInit
<1>4. BuilderTypeOK
  <2>1. table = <<>> /\ table \in Seq(Sources)
    BY DEF BuilderInit, Fresh
  <2>2. /\ maxpacketsize \in PacketSizes /\ interval \in Intervals
        /\ {sender, firstpacket} \subseteq BOOLEAN
    BY DEF BuilderInit, Fresh
  <2>3. data \in [Sources -> {"none", "old", "new"}] /\ processed = {}
    BY DEF BuilderInit, Fresh
  <2>4. lens \in [ItemNames -> ItemLengths \cup {0}]
    BY DEF BuilderInit, NoItems
  <2>5. sdes.processing = FALSE /\ status = "ok"
    BY DEF BuilderInit
  <2>6. waits \in [Sources -> 0..MaxWait + 1]
    <3>1. 0 \in 0..MaxWait + 1
      BY <1>1
    <3> QED BY <3>1 DEF BuilderInit
  <2> QED BY <1>2, <1>3, <2>1, <2>2, <2>3, <2>4, <2>5, <2>6 DEF BuilderTypeOK
<1>5. round \in [sent : [ItemNames -> {0, 1}], stale : SUBSET ItemNames, left : SUBSET ItemNames]
  BY DEF BuilderInit, NoItems
<1>6. \A i \in ItemNames : round.sent[i] = 0
  BY DEF BuilderInit, NoItems
<1>7. sdes.processing = FALSE /\ sdes.done = {} /\ sdes.due = {} /\ round.left = {}
  BY DEF BuilderInit
<1> QED BY <1>4, <1>5, <1>6, <1>7 DEF BuilderInv

\* ... when a packet is sent ...
LEMMA SendsKeeps ==
  ASSUME BuilderInv, NEW r, GoodResult(r), r.ok, Sends(r),
         UNCHANGED <<maxpacketsize, sender, table, interval, lens>>
  PROVE  BuilderInv'
<1>1. BuilderTypeOK /\ MaxWait \in Nat
  BY PacketBuilderAssumption DEF BuilderInv
<1>2. data' \in [Sources -> {"none", "old", "new"}]
      /\ \A s \in Sources : data'[s] = "none" <=> data[s] = "none"
  BY <1>1 DEF Sends, BuilderTypeOK
<1>3. processed' \subseteq {s \in Sources : data'[s] # "none"}
  BY <1>2 DEF Sends, GoodResult
<1>4. waits' \in [Sources -> 0..MaxWait + 1]
  <2>1. \A s \in Sources : Smallest(waits[s] + 1, MaxWait + 1) \in 0..MaxWait + 1
    <3>1. \A s \in Sources : waits[s] \in 0..MaxWait + 1
      BY <1>1 DEF BuilderTypeOK
    <3>2. MaxWait \in Nat /\ \A w \in 0..MaxWait + 1 : Smallest(w + 1, MaxWait + 1) \in 0..MaxWait + 1
      BY <1>1 DEF Smallest
    <3> QED BY <3>1, <3>2
  <2>2. 0 \in 0..MaxWait + 1
    BY <1>1
  <2> QED BY <2>1, <2>2 DEF Sends
<1>5. /\ sdes' = r.sdes
      /\ r.sdes \in [processing : BOOLEAN, count : 0..Cycle - 1,
                     due : SUBSET ItemNames, done : SUBSET ItemNames]
      /\ r.sdes.processing => r.sdes.due \ r.sdes.done # {}
  BY DEF Sends, GoodResult
<1>6. BuilderTypeOK'
  BY <1>1, <1>2, <1>3, <1>4, <1>5 DEF BuilderTypeOK, Sends
<1>7. /\ round.sent \in [ItemNames -> {0, 1}] /\ round.stale \subseteq ItemNames
      /\ round.left \subseteq ItemNames
  BY DEF BuilderInv
<1>8. /\ round'.sent = [i \in ItemNames |-> (IF r.begins THEN 0 ELSE round.sent[i])
                                            + (IF i \in r.items THEN 1 ELSE 0)]
      /\ round'.stale = IF r.begins THEN round.left ELSE round.stale
      /\ round'.left = IF r.begins THEN {} ELSE round.left
      /\ round' = [sent |-> round'.sent, stale |-> round'.stale, left |-> round'.left]
  BY DEF Sends
<1>9. /\ sdes.processing \in BOOLEAN /\ r.begins \in BOOLEAN /\ r.items \subseteq ItemNames
      /\ sdes.done \subseteq ItemNames /\ r.sdes.processing \in BOOLEAN
  BY <1>1, <1>5 DEF BuilderTypeOK, GoodResult
<1>10. CASE r.begins
  <2>1. ~ sdes.processing /\ sdes.done = round.left
    BY <1>10, <1>9 DEF GoodResult, BuilderInv
  <2>2. \A i \in ItemNames : round'.sent[i] = IF i \in r.items THEN 1 ELSE 0
    BY <1>8, <1>10
  <2>3. round'.stale = sdes.done /\ round'.left = {}
    BY <1>8, <1>10, <2>1
  <2>4. round'.sent \in [ItemNames -> {0, 1}]
    BY <1>8, <1>10
  <2>5. IF r.sdes.processing
        THEN r.items \subseteq r.sdes.due \ sdes.done /\ r.sdes.done = sdes.done \cup r.items
        ELSE r.items = r.sdes.due \ sdes.done /\ r.sdes.done = {}
    BY <1>10 DEF GoodResult
  <2>6. round' \in [sent : [ItemNames -> {0, 1}], stale : SUBSET ItemNames, left : SUBSET ItemNames]
    BY <1>8, <1>9, <2>3, <2>4
  <2>7. \A i \in ItemNames : round'.sent[i] = 1 <=> i \in r.items
    BY <2>2
  <2> QED BY <1>5, <1>6, <1>9, <2>3, <2>5, <2>6, <2>7 DEF BuilderInv
<1>11. CASE ~ r.begins /\ ~ sdes.processing
  <2>1. r.sdes = sdes /\ r.items = {}
    BY <1>11 DEF GoodResult
  <2>2. \A i \in ItemNames : round'.sent[i] = round.sent[i]
    BY <1>7, <1>8, <1>11, <2>1
  <2>3. round'.stale = round.stale /\ round'.left = round.left
    BY <1>8, <1>11
  <2>4. round'.sent \in [ItemNames -> {0, 1}]
    BY <1>7, <1>8, <2>2
  <2>5. round' \in [sent : [ItemNames -> {0, 1}], stale : SUBSET ItemNames, left : SUBSET ItemNames]
    BY <1>7, <1>8, <2>3, <2>4
  <2> QED BY <1>5, <1>6, <1>9, <1>11, <2>1, <2>2, <2>3, <2>5 DEF BuilderInv
<1>12. CASE ~ r.begins /\ sdes.processing
  <2>1. /\ r.sdes.due = sdes.due
        /\ IF r.sdes.processing
           THEN r.items \subseteq r.sdes.due \ sdes.done /\ r.sdes.done = sdes.done \cup r.items
           ELSE r.items = r.sdes.due \ sdes.done /\ r.sdes.done = {}
    BY <1>12 DEF GoodResult
  <2>2. /\ round.left = {} /\ round.stale \subseteq sdes.done
        /\ sdes.done \ round.stale \subseteq sdes.due
        /\ \A i \in ItemNames : round.sent[i] = 1 <=> i \in sdes.done \ round.stale
    BY <1>12 DEF BuilderInv
  <2>3. round'.stale = round.stale /\ round'.left = {}
    BY <1>8, <1>12, <2>2
  <2>4. r.items \cap sdes.done = {}
    BY <2>1
  <2>5. \A i \in ItemNames : /\ round'.sent[i] \in {0, 1}
                             /\ round'.sent[i] = 1 <=> round.sent[i] = 1 \/ i \in r.items
    <3> SUFFICES ASSUME NEW i \in ItemNames
                 PROVE  /\ round'.sent[i] \in {0, 1}
                        /\ round'.sent[i] = 1 <=> round.sent[i] = 1 \/ i \in r.items
      OBVIOUS
    <3>1. round'.sent[i] = round.sent[i] + (IF i \in r.items THEN 1 ELSE 0)
      BY <1>8, <1>12
    <3>2. round.sent[i] \in {0, 1}
      BY <1>7
    <3>3. i \in r.items => round.sent[i] = 0
      BY <2>2, <2>4, <3>2
    <3> QED BY <3>1, <3>2, <3>3
  <2>6. round'.sent \in [ItemNames -> {0, 1}]
    BY <1>8, <2>5
  <2>7. round' \in [sent : [ItemNames -> {0, 1}], stale : SUBSET ItemNames, left : SUBSET ItemNames]
    BY <1>7, <1>8, <2>3, <2>6
  <2>8. CASE r.sdes.processing
    BY <1>5, <1>6, <2>1, <2>2, <2>3, <2>5, <2>7, <2>8 DEF BuilderInv
  <2>9. CASE ~ r.sdes.processing
    BY <1>5, <1>6, <2>1, <2>2, <2>3, <2>5, <2>7, <2>9 DEF BuilderInv
  <2> QED BY <2>8, <2>9
<1> QED BY <1>9, <1>10, <1>11, <1>12

LEMMA MarksStay ==
  ASSUME BuilderInv, UNCHANGED <<sdes, round>>, BuilderTypeOK'
  PROVE  BuilderInv'
BY DEF BuilderInv

\* The parts of the state that some actions leave alone, well formed as before.
LEMMA StateType ==
  ASSUME BuilderTypeOK
  PROVE  /\ maxpacketsize \in PacketSizes /\ interval \in Intervals
         /\ sender \in BOOLEAN /\ firstpacket \in BOOLEAN
         /\ table \in Seq(Sources) /\ IsInjective(table)
         /\ data \in [Sources -> {"none", "old", "new"}]
         /\ processed \subseteq {s \in Sources : data[s] # "none"}
         /\ lens \in [ItemNames -> ItemLengths \cup {0}]
         /\ status \in {"ok", "too soon"}
         /\ waits \in [Sources -> 0..MaxWait + 1] /\ 0 \in 0..MaxWait + 1
<1>1. 0 \in 0..MaxWait + 1
  BY PacketBuilderAssumption
<1> QED BY <1>1 DEF BuilderTypeOK

\* ... when it is refused, or another kind of packet is built ...
LEMMA RefusesKeeps ==
  ASSUME BuilderInv, NEW r, Refuses(r),
         UNCHANGED <<maxpacketsize, sender, table, interval, lens>>
  PROVE  BuilderInv'
<1>1. BuilderTypeOK'
  BY DEF BuilderInv, BuilderTypeOK, Refuses
<1> QED BY <1>1, MarksStay DEF Refuses

LEMMA AnswersKeeps ==
  ASSUME BuilderInv, NEW ok, NEW kind, NEW b, Answers(ok, kind, b)
  PROVE  BuilderInv'
<1>1. status' \in {"ok", "too soon"}
  BY DEF Answers
<1>2. BuilderTypeOK'
  BY <1>1 DEF BuilderInv, BuilderTypeOK, Answers
<1> QED BY <1>2, MarksStay DEF Answers

\* ... when data arrives or a participant leaves ...
LEMMA ArrivesKeeps ==
  ASSUME BuilderInv, NEW s \in Sources, Arrives(s)
  PROVE  BuilderInv'
<1>1. BuilderTypeOK
  BY DEF BuilderInv
<1>2. table' \in Seq(Sources) /\ IsInjective(table')
  <2>1. CASE s \in {table[i] : i \in DOMAIN table}
    BY <1>1, <2>1 DEF Arrives, BuilderTypeOK
  <2>2. CASE s \notin {table[i] : i \in DOMAIN table}
    <3>1. table' = Append(table, s) /\ table \in Seq(Sources)
      BY <1>1, <2>2 DEF Arrives, BuilderTypeOK
    <3>2. PICK l \in Nat : l = Len(table) /\ DOMAIN table = 1..l
      BY <3>1
    <3>3. /\ DOMAIN table' = 1..l + 1 /\ table'[l + 1] = s
          /\ \A i \in 1..l : table'[i] = table[i]
      BY <3>1, <3>2
    <3>4. \A i, k \in 1..l + 1 : table'[i] = table'[k] => i = k
      <4> SUFFICES ASSUME NEW i \in 1..l + 1, NEW k \in 1..l + 1, table'[i] = table'[k]
                   PROVE  i = k
        OBVIOUS
      <4>1. \A n \in 1..l : table[n] # s
        BY <2>2, <3>2
      <4>2. CASE i \in 1..l /\ k \in 1..l
        BY <1>1, <3>2, <3>3, <4>2 DEF BuilderTypeOK, IsInjective
      <4>3. \A n \in 1..l + 1 : n \in 1..l \/ n = l + 1
        OBVIOUS
      <4> QED BY <3>3, <4>1, <4>2, <4>3
    <3> QED BY <3>1, <3>3, <3>4 DEF IsInjective
  <2> QED BY <2>1, <2>2
<1>3. data' \in [Sources -> {"none", "old", "new"}]
      /\ processed' \subseteq {x \in Sources : data'[x] # "none"}
  BY <1>1, StateType DEF Arrives
<1>4. UNCHANGED <<maxpacketsize, sender, firstpacket, interval, lens, sdes, status, waits, round>>
  BY DEF Arrives
<1>5. BuilderTypeOK'
  BY <1>1, <1>2, <1>3, <1>4 DEF BuilderTypeOK
<1> QED BY <1>4, <1>5, MarksStay

LEMMA LeavesKeeps ==
  ASSUME BuilderInv, NEW s \in Sources, Leaves(s)
  PROVE  BuilderInv'
<1>1. BuilderTypeOK
  BY DEF BuilderInv
<1>2. table' \in Seq(Sources) /\ IsInjective(table')
  <2> DEFINE places == {i \in DOMAIN table : table[i] # s}
  <2>1. table \in Seq(Sources) /\ IsInjective(table) /\ places \in SUBSET DOMAIN table
    BY <1>1, StateType
  <2>2. table' = Picked(table, places)
    BY DEF Leaves
  <2> HIDE DEF places
  <2> QED BY <2>1, <2>2, PickedFacts
<1>3. data' \in [Sources -> {"none", "old", "new"}]
      /\ processed' \subseteq {x \in Sources : data'[x] # "none"}
  BY <1>1, StateType DEF Leaves
<1>4. waits' \in [Sources -> 0..MaxWait + 1]
  BY <1>1, StateType DEF Leaves
<1>5. UNCHANGED <<maxpacketsize, sender, firstpacket, interval, lens, sdes, status, round>>
  BY DEF Leaves
<1>6. BuilderTypeOK'
  BY <1>1, <1>2, <1>3, <1>4, <1>5 DEF BuilderTypeOK
<1> QED BY <1>5, <1>6, MarksStay

\* ... when the session's settings change, or it is created anew.
LEMMA SettingsKeep ==
  ASSUME BuilderInv,
         \/ \E v \in BOOLEAN : SetSender(v)
         \/ \E i \in ItemNames, len \in ItemLengths : SetLocalItem(i, len)
         \/ \E size \in PacketSizes : SetMaximumPacketSize(size)
  PROVE  BuilderInv'
<1>1. BuilderTypeOK
  BY DEF BuilderInv
<1>2. ASSUME NEW v \in BOOLEAN, SetSender(v) PROVE BuilderTypeOK'
  BY <1>1, <1>2 DEF SetSender, BuilderTypeOK
<1>3. ASSUME NEW i \in ItemNames, NEW len \in ItemLengths, SetLocalItem(i, len)
      PROVE  BuilderTypeOK'
  <2>1. lens' \in [ItemNames -> ItemLengths \cup {0}]
    BY <1>1, <1>3, StateType DEF SetLocalItem
  <2> QED BY <1>1, <1>3, <2>1 DEF SetLocalItem, BuilderTypeOK
<1>4. ASSUME NEW size \in PacketSizes, SetMaximumPacketSize(size) PROVE BuilderTypeOK'
  BY <1>1, <1>4 DEF SetMaximumPacketSize, BuilderTypeOK
<1>5. UNCHANGED <<sdes, round>>
  BY DEF SetSender, SetLocalItem, SetMaximumPacketSize
<1> QED BY <1>2, <1>3, <1>4, <1>5, MarksStay

LEMMA RecreateKeeps ==
  ASSUME BuilderInv, Recreate
  PROVE  BuilderInv'
<1>1. BuilderTypeOK /\ Cycle \in Nat \ {0}
  BY PacketBuilderAssumption DEF BuilderInv
<1>2. sdes.done \subseteq ItemNames
  BY <1>1, SdesType
<1>3. sdes' \in [processing : BOOLEAN, count : 0..Cycle - 1,
                 due : SUBSET ItemNames, done : SUBSET ItemNames]
      /\ sdes'.processing = FALSE /\ sdes'.due = {} /\ sdes'.done = sdes.done
  BY <1>1, <1>2 DEF Recreate
<1>4. BuilderTypeOK'
  <2>1. /\ maxpacketsize' \in PacketSizes /\ interval' \in Intervals
        /\ {sender', firstpacket'} \subseteq BOOLEAN
        /\ data' \in [Sources -> {"none", "old", "new"}] /\ processed' = {}
        /\ status' = "ok" /\ lens' = lens
    BY DEF Recreate
  <2>2. table' \in Seq(Sources) /\ IsInjective(table')
    <3>1. table' = <<>>
      BY DEF Recreate
    <3> QED BY <3>1 DEF IsInjective
  <2>3. waits' \in [Sources -> 0..MaxWait + 1]
    BY <1>1, StateType DEF Recreate
  <2> QED BY <1>1, <1>3, <2>1, <2>2, <2>3 DEF BuilderTypeOK
<1>5. round' \in [sent : [ItemNames -> {0, 1}], stale : SUBSET ItemNames, left : SUBSET ItemNames]
      /\ round'.left = sdes.done /\ round'.stale = {}
      /\ \A i \in ItemNames : round'.sent[i] = 0
  BY <1>2 DEF Recreate, NoItems
<1> QED BY <1>3, <1>4, <1>5 DEF BuilderInv

LEMMA BuilderKeeps ==
  ASSUME BuilderInv, [BuilderNext]_builderVars
  PROVE  BuilderInv'
<1>1. BuilderTypeOK
  BY DEF BuilderInv
<1>2. CASE UNCHANGED builderVars
  <2>1. BuilderTypeOK' /\ UNCHANGED <<sdes, round>>
    BY <1>1, <1>2 DEF builderVars, BuilderTypeOK
  <2> QED BY <2>1, MarksStay
<1>3. CASE BuildNextPacket
  <2>1. GoodResult(NextPacket)
    BY <1>1, NextPacketFacts
  <2>2. \/ NextPacket.ok /\ Sends(NextPacket)
        \/ Refuses(NextPacket)
    BY <1>3, <2>1 DEF BuildNextPacket, SendsOrRefuses
  <2>3. UNCHANGED <<maxpacketsize, sender, table, interval, lens>>
    BY <1>3 DEF BuildNextPacket
  <2> QED BY <2>1, <2>2, <2>3, SendsKeeps, RefusesKeeps
<1>4. ASSUME NEW r \in Reasons, NEW useSR \in BOOLEAN, BuildBYEPacket(r, useSR)
      PROVE  BuilderInv'
  BY <1>4, AnswersKeeps DEF BuildBYEPacket
<1>5. ASSUME NEW len \in AppLengths, SendRTCPAPPPacket(len)
      PROVE  BuilderInv'
  BY <1>5, AnswersKeeps DEF SendRTCPAPPPacket
<1>6. ASSUME NEW s \in Sources, Arrives(s) \/ Leaves(s)
      PROVE  BuilderInv'
  BY <1>6, ArrivesKeeps, LeavesKeeps
<1> QED BY <1>2, <1>3, <1>4, <1>5, <1>6, SettingsKeep, RecreateKeeps DEF BuilderNext

\* The state is well formed and every item that is due is sent exactly once in
\* a round, but for marks left by an earlier session, whatever the sizes, the
\* sources and the intervals: FillInSDES, the marks and what clears them.
THEOREM BuilderItemsOncePerRound == BuilderSpec => []ItemsOncePerRound
<1>1. BuilderInv => ItemsOncePerRound
  <2> SUFFICES ASSUME BuilderInv PROVE ItemsOncePerRound
    OBVIOUS
  <2>1. \A i \in ItemNames : round.sent[i] \in {0, 1}
    BY DEF BuilderInv
  <2>2. \A i \in ItemNames : round.sent[i] <= 1
    BY <2>1
  <2> QED BY <2>2 DEF BuilderInv, ItemsOncePerRound
<1>2. BuilderInv /\ [BuilderNext]_builderVars => BuilderInv'
  BY BuilderKeeps
<1> QED BY <1>1, <1>2, BuilderBegins, PTL DEF BuilderSpec

-----------------------------------------------------------------------------
(* Sums.                                                                   *)

\* A function that adds up a sequence of numbers adds up to SumOf.
LEMMA SumIs ==
  ASSUME NEW s \in Seq(Nat), NEW f, f[0] = 0, \A i \in 1..Len(s) : f[i] = f[i - 1] + s[i]
  PROVE  SumOf(s) = f[Len(s)] /\ SumOf(s) \in Nat
<1> DEFINE n == Len(s)
           Sums(h) == h = [i \in 0..n |-> IF i = 0 THEN 0 ELSE h[i - 1] + s[i]]
           step == [p \in Nat \X (1..n) |-> p[1] + s[p[2]]]
<1>1. n \in Nat /\ \A i \in 1..n : s[i] \in Nat
  OBVIOUS
<1>2. \E h : Sums(h)
  <2>1. step \in [Nat \X (1..n) -> Nat]
    BY <1>1
  <2>2. PICK g : Iterates(g, Nat, 0, n, step)
    <3> HIDE DEF step, n
    <3> QED BY <1>1, <2>1, IterationExists
  <2>3. g \in [0..n -> Nat] /\ g[0] = 0 /\ \A i \in 1..n : g[i] = step[<<g[i - 1], i>>]
    BY <2>2 DEF Iterates
  <2>4. \A i \in 1..n : g[i] = g[i - 1] + s[i]
    <3> SUFFICES ASSUME NEW i \in 1..n PROVE g[i] = g[i - 1] + s[i]
      OBVIOUS
    <3>1. i - 1 \in 0..n
      BY <1>1
    <3>2. <<g[i - 1], i>> \in Nat \X (1..n)
      BY <2>3, <3>1
    <3> QED BY <2>3, <3>2
  <2>5. Sums(g)
    <3> HIDE DEF n, step
    <3>1. \A i \in 0..n : g[i] = IF i = 0 THEN 0 ELSE g[i - 1] + s[i]
      BY <1>1, <2>3, <2>4
    <3> QED BY <2>3, <3>1
  <2> QED BY <2>5
<1> DEFINE h == CHOOSE g : Sums(g)
<1>3. SumOf(s) = h[n]
  BY DEF SumOf
<1>4. Sums(h)
  <2> HIDE DEF Sums
  <2> QED BY <1>2
<1> HIDE DEF h, n, step
<1>5. h[0] = 0 /\ \A i \in 1..n : h[i] = h[i - 1] + s[i]
  BY <1>1, <1>4
<1> HIDE DEF Sums
<1> DEFINE S == {i \in Nat : i <= n => h[i] = f[i] /\ h[i] \in Nat}
<1>6. 0 \in S
  BY <1>5
<1>7. \A i \in Nat : i \in S => i + 1 \in S
  <2> SUFFICES ASSUME NEW i \in Nat, i \in S, i + 1 <= n
               PROVE  h[i + 1] = f[i + 1] /\ h[i + 1] \in Nat
    BY <1>1
  <2>1. i + 1 \in 1..n /\ (i + 1) - 1 = i /\ i <= n
    BY <1>1
  <2>2. h[i + 1] = h[i] + s[i + 1] /\ f[i + 1] = f[i] + s[i + 1]
    <3>1. \A k \in 1..n : f[k] = f[k - 1] + s[k]
      BY DEF n
    <3> QED BY <1>5, <2>1, <3>1
  <2> QED BY <1>1, <2>1, <2>2
<1>8. n \in S
  <2> HIDE DEF S
  <2> QED BY <1>1, <1>6, <1>7, InductionOnSet
<1> QED BY <1>1, <1>3, <1>8 DEF n

\* The sums of a sequence's first elements.
LEMMA PartialSums ==
  ASSUME NEW s \in Seq(Nat)
  PROVE  \E f : /\ f[0] = 0 /\ f[Len(s)] = SumOf(s)
                /\ \A i \in 1..Len(s) : f[i] = f[i - 1] + s[i]
<1> DEFINE n == Len(s)
           step == [p \in Nat \X (1..n) |-> p[1] + s[p[2]]]
<1>1. n \in Nat /\ \A i \in 1..n : s[i] \in Nat
  OBVIOUS
<1>2. step \in [Nat \X (1..n) -> Nat]
  BY <1>1
<1>3. PICK g : Iterates(g, Nat, 0, n, step)
  <2> HIDE DEF step, n
  <2> QED BY <1>1, <1>2, IterationExists
<1>4. g \in [0..n -> Nat] /\ g[0] = 0 /\ \A i \in 1..n : g[i] = step[<<g[i - 1], i>>]
  BY <1>3 DEF Iterates
<1>5. \A i \in 1..n : g[i] = g[i - 1] + s[i]
  <2> SUFFICES ASSUME NEW i \in 1..n PROVE g[i] = g[i - 1] + s[i]
    OBVIOUS
  <2>1. i - 1 \in 0..n
    BY <1>1
  <2>2. <<g[i - 1], i>> \in Nat \X (1..n)
    BY <1>4, <2>1
  <2> QED BY <1>4, <2>2
<1>6. g[Len(s)] = SumOf(s)
  BY <1>4, <1>5, SumIs
<1> QED BY <1>4, <1>5, <1>6

LEMMA SumOfEmpty == SumOf(<<>>) = 0
<1> DEFINE f == [i \in {0} |-> 0]
<1>1. <<>> \in Seq(Nat) /\ Len(<<>>) = 0 /\ f[0] = 0
  OBVIOUS
<1>2. \A i \in 1..Len(<<>>) : f[i] = f[i - 1] + <<>>[i]
  OBVIOUS
<1> HIDE DEF f
<1> QED BY <1>1, <1>2, SumIs

LEMMA SumOfOne ==
  ASSUME NEW s \in Seq(Nat), Len(s) = 1
  PROVE  SumOf(s) = s[1] /\ s[1] \in Nat
<1> DEFINE f == [i \in 0..1 |-> IF i = 0 THEN 0 ELSE s[1]]
<1>1. s[1] \in Nat /\ f[0] = 0 /\ f[1] = s[1]
  <2>1. \A i \in 1..Len(s) : s[i] \in Nat
    BY ONLY s \in Seq(Nat)
  <2>2. s[1] \in Nat
    BY <2>1
  <2>3. 0 \in 0..1 /\ 1 \in 0..1
    OBVIOUS
  <2>4. f[0] = 0 /\ f[1] = s[1]
    BY ONLY <2>3
  <2> QED BY <2>2, <2>4
<1>2. \A i \in 1..1 : f[i] = f[i - 1] + s[i]
  BY <1>1
<1> HIDE DEF f
<1> QED BY <1>1, <1>2, SumIs

LEMMA SumOfConcat ==
  ASSUME NEW s \in Seq(Nat), NEW t \in Seq(Nat)
  PROVE  SumOf(s \o t) = SumOf(s) + SumOf(t) /\ SumOf(s) \in Nat /\ SumOf(t) \in Nat
<1>1. PICK m \in Nat, n \in Nat : m = Len(s) /\ n = Len(t)
  OBVIOUS
<1>2. PICK f : f[0] = 0 /\ f[m] = SumOf(s) /\ \A i \in 1..m : f[i] = f[i - 1] + s[i]
  BY <1>1, PartialSums
<1>3. PICK g : g[0] = 0 /\ g[n] = SumOf(t) /\ \A i \in 1..n : g[i] = g[i - 1] + t[i]
  BY <1>1, PartialSums
<1>4. SumOf(s) \in Nat /\ SumOf(t) \in Nat
  BY <1>1, <1>2, <1>3, SumIs
<1> DEFINE u == s \o t
           h == [i \in 0..m + n |-> IF i <= m THEN f[i] ELSE SumOf(s) + g[i - m]]
<1>5. /\ u \in Seq(Nat) /\ Len(u) = m + n
      /\ \A i \in 1..m : u[i] = s[i]
      /\ \A i \in 1..m + n : ~ (i <= m) => u[i] = t[i - m]
  BY <1>1
<1>6. /\ h[0] = 0 /\ h[m + n] = SumOf(s) + SumOf(t)
      /\ \A i \in 0..m : h[i] = f[i]
      /\ \A i \in 0..m + n : ~ (i <= m) => h[i] = SumOf(s) + g[i - m]
  <2>1. h[m + n] = SumOf(s) + SumOf(t)
    <3>1. CASE n = 0
      BY <1>2, <1>3, <1>4, <3>1
    <3>2. CASE n # 0
      <4>1. ~ (m + n <= m) /\ (m + n) - m = n /\ m + n \in 0..m + n
        BY <3>2
      <4> QED BY <1>3, <4>1
    <3> QED BY <3>1, <3>2
  <2> QED BY <1>2, <2>1
<1> HIDE DEF u, h
<1>7. \A i \in 1..m + n : h[i] = h[i - 1] + u[i]
  <2> SUFFICES ASSUME NEW i \in 1..m + n PROVE h[i] = h[i - 1] + u[i]
    OBVIOUS
  <2>1. CASE i <= m
    <3>1. i \in 1..m /\ i \in 0..m /\ i - 1 \in 0..m
      BY <2>1
    <3> QED BY <1>2, <1>5, <1>6, <3>1
  <2>2. CASE ~ (i <= m)
    <3>1. h[i] = SumOf(s) + g[i - m] /\ u[i] = t[i - m] /\ i - m \in 1..n /\ i \in 0..m + n
      BY <1>5, <1>6, <2>2
    <3>2. g[i - m] = g[(i - m) - 1] + t[i - m] /\ t[i - m] \in Nat
      BY <1>1, <1>3, <3>1
    <3>3. h[i - 1] = SumOf(s) + g[(i - m) - 1]
      <4>1. CASE i = m + 1
        <5>1. i - 1 = m /\ (i - m) - 1 = 0 /\ m \in 0..m
          BY <4>1
        <5> QED BY <1>2, <1>3, <1>4, <1>6, <5>1
      <4>2. CASE i # m + 1
        <5>1. ~ (i - 1 <= m) /\ i - 1 \in 0..m + n /\ (i - 1) - m = (i - m) - 1
          BY <2>2, <4>2
        <5> QED BY <1>6, <5>1
      <4> QED BY <4>1, <4>2
    <3>4. g[(i - m) - 1] \in Nat
      <4>2. (i - m) - 1 \in Nat /\ (i - m) - 1 <= n
        BY ONLY <3>1, n \in Nat, m \in Nat, i \in 1..m + n
      <4>1. \A k \in Nat : k <= n => g[k] \in Nat
        <5> DEFINE S == {k \in Nat : k <= n => g[k] \in Nat}
        <5>1. 0 \in S
          BY <1>3
        <5>2. \A k \in Nat : k \in S => k + 1 \in S
          <6> SUFFICES ASSUME NEW k \in Nat, k \in S, k + 1 <= n PROVE g[k + 1] \in Nat
            OBVIOUS
          <6>1. k + 1 \in 1..n /\ (k + 1) - 1 = k /\ k <= n
            OBVIOUS
          <6>2. t[k + 1] \in Nat
            BY <1>1, <6>1
          <6> QED BY <1>3, <6>1, <6>2
        <5> HIDE DEF S
        <5>3. Nat \subseteq S
          BY <5>1, <5>2, InductionOnSet
        <5> QED BY <5>3 DEF S
      <4> QED BY ONLY <4>1, <4>2
    <3> QED BY <1>4, <3>1, <3>2, <3>3, <3>4
  <2> QED BY <2>1, <2>2
<1>8. SumOf(u) = h[Len(u)]
  BY <1>5, <1>6, <1>7, SumIs
<1> QED BY <1>4, <1>5, <1>6, <1>8 DEF u

-----------------------------------------------------------------------------
(* What the packets of a buffer take.                                      *)

LEMMA CeilDivFacts ==
  ASSUME NEW n \in Nat \ {0}
  PROVE  /\ CeilDiv(n, MaxCount) \in Nat \ {0}
         /\ (CeilDiv(n, MaxCount) - 1) * MaxCount < n
         /\ n <= CeilDiv(n, MaxCount) * MaxCount
<1>1. MaxCount \in Nat \ {0}
  BY FormatAssumption
<1>2. PICK c \in Nat \ {0} : c = MaxCount
  BY <1>1
<1>3. n + c - 1 \in Nat
  BY <1>2
<1> DEFINE q == (n + c - 1) \div c
<1>4. q \in Int /\ q * c <= n + c - 1 /\ n + c - 1 < (q + 1) * c
  BY <1>2, <1>3
<1> HIDE DEF q
<1>5. (q + 1) * c = q * c + c /\ (q - 1) * c = q * c - c /\ q * c \in Int
  BY <1>2, <1>4
<1>6. q * c >= n /\ (q - 1) * c < n
  BY <1>2, <1>4, <1>5
<1>7. q >= 1
  <2> SUFFICES ASSUME q <= 0 PROVE FALSE
    BY <1>4
  <2>1. q * c <= 0
    BY <1>2, <1>4
  <2> QED BY <1>4, <1>6, <2>1
<1> QED BY <1>2, <1>4, <1>6, <1>7 DEF CeilDiv, q

LEMMA WrittenConcat ==
  ASSUME NEW P, \A x \in P : x.size \in Nat, NEW p \in Seq(P), NEW q \in Seq(P)
  PROVE  /\ Written(p \o q) = Written(p) + Written(q)
         /\ Written(p) \in Nat /\ Written(q) \in Nat
<1> DEFINE sizes(r) == [i \in DOMAIN r |-> r[i].size]
<1>1. \A r \in Seq(P) : sizes(r) \in Seq(Nat) /\ Len(sizes(r)) = Len(r)
  OBVIOUS
<1>2. p \o q \in Seq(P)
  OBVIOUS
<1>3. sizes(p \o q) = sizes(p) \o sizes(q)
  <2>1. PICK m \in Nat, n \in Nat : m = Len(p) /\ n = Len(q)
    OBVIOUS
  <2>2. /\ sizes(p \o q) \in Seq(Nat) /\ sizes(p) \o sizes(q) \in Seq(Nat)
        /\ Len(sizes(p \o q)) = m + n /\ Len(sizes(p) \o sizes(q)) = m + n
    <3>1. Len(p \o q) = m + n
      BY <2>1
    <3> HIDE DEF sizes
    <3>2. /\ sizes(p \o q) \in Seq(Nat) /\ Len(sizes(p \o q)) = m + n
          /\ sizes(p) \in Seq(Nat) /\ Len(sizes(p)) = m
          /\ sizes(q) \in Seq(Nat) /\ Len(sizes(q)) = n
      BY <1>1, <1>2, <2>1, <3>1
    <3>3. \A u, v \in Seq(Nat) : u \o v \in Seq(Nat) /\ Len(u \o v) = Len(u) + Len(v)
      OBVIOUS
    <3> QED BY <2>1, <3>2, <3>3
  <2>3. \A i \in 1..m + n : sizes(p \o q)[i] = (sizes(p) \o sizes(q))[i]
    <3> SUFFICES ASSUME NEW i \in 1..m + n PROVE sizes(p \o q)[i] = (sizes(p) \o sizes(q))[i]
      OBVIOUS
    <3>1. sizes(p \o q)[i] = (p \o q)[i].size
      BY <2>1
    <3>2. CASE i <= m
      <4>1. (p \o q)[i] = p[i] /\ i \in DOMAIN p
        BY <2>1, <3>2
      <4>2. (sizes(p) \o sizes(q))[i] = sizes(p)[i]
        <5> HIDE DEF sizes
        <5> QED BY <1>1, <2>1, <3>2
      <4> QED BY <3>1, <4>1, <4>2
    <3>3. CASE ~ (i <= m)
      <4>1. (p \o q)[i] = q[i - m] /\ i - m \in DOMAIN q
        BY <2>1, <3>3
      <4>2. (sizes(p) \o sizes(q))[i] = sizes(q)[i - m]
        <5> HIDE DEF sizes
        <5> QED BY <1>1, <2>1, <3>3
      <4> QED BY <3>1, <4>1, <4>2
    <3> QED BY <3>2, <3>3
  <2> DEFINE a == sizes(p \o q)
             c == sizes(p) \o sizes(q)
  <2> HIDE DEF sizes, a, c
  <2>4. a \in Seq(Nat) /\ c \in Seq(Nat) /\ Len(a) = Len(c) /\ \A i \in 1..Len(a) : a[i] = c[i]
    BY <2>2, <2>3 DEF a, c
  <2>5. a = c
    BY <2>4, SeqEqual
  <2> QED BY <2>5 DEF a, c
<1> HIDE DEF sizes
<1> QED BY <1>1, <1>3, SumOfConcat DEF Written, sizes

LEMMA WrittenLaidOut ==
  ASSUME NEW P, \A x \in P : "size" \in DOMAIN x, NEW p \in Seq(P)
  PROVE  Written(LaidOut(p)) = Written(p)
<1>1. DOMAIN LaidOut(p) = DOMAIN p
  BY DEF LaidOut
<1>2. \A i \in DOMAIN p : LaidOut(p)[i].size = p[i].size
  BY DEF LaidOut
<1> QED BY <1>1, <1>2 DEF Written

\* A packet, whatever its bytes, is a record with its size.
LEMMA PieceSize ==
  ASSUME NEW type, NEW count, NEW size, NEW word, NEW byte
  PROVE  /\ Piece(type, count, size, word, byte).size = size
         /\ "size" \in DOMAIN Piece(type, count, size, word, byte)
BY DEF Piece

LEMMA ReportPieceSize ==
  ASSUME NEW b, NEW first \in BOOLEAN, NEW group, Len(group) \in Nat
  PROVE  /\ ReportPiece(b, first, group).size =
              HeaderBytes + ReportHeader(first /\ b.sr) + ReportBlockBytes * Len(group)
         /\ "size" \in DOMAIN ReportPiece(b, first, group)
<1>1. ReportBlockBytes \in Nat
  BY FormatAssumption
<1>2. PICK n \in Nat : n = Len(group)
  OBVIOUS
<1>3. ReportBlockBytes * ((n + 1) - 1) = ReportBlockBytes * n
  BY <1>1
<1> QED BY <1>2, <1>3, PieceSize DEF ReportPiece

\* The elements in the first i groups.
Upto(n, i) == Smallest(i * MaxCount, n)

LEMMA UptoFacts ==
  ASSUME NEW n \in Nat \ {0}
  PROVE  /\ Upto(n, 0) = 0 /\ Upto(n, CeilDiv(n, MaxCount)) = n
         /\ \A i \in 1..CeilDiv(n, MaxCount) :
              /\ Upto(n, i - 1) = (i - 1) * MaxCount
              /\ Upto(n, i - 1) \in Nat /\ Upto(n, i) \in Nat
              /\ Upto(n, i - 1) < Upto(n, i) /\ Upto(n, i) <= n
<1>1. PICK c \in Nat \ {0} : c = MaxCount
  BY FormatAssumption
<1>2. PICK g \in Nat \ {0} : /\ g = CeilDiv(n, MaxCount)
                             /\ (g - 1) * c < n /\ n <= g * c
  BY <1>1, CeilDivFacts
<1>3. Upto(n, 0) = 0
  BY <1>1 DEF Upto, Smallest
<1>4. Upto(n, g) = n
  <2>1. g * c \in Nat
    BY <1>1
  <2> QED BY <1>1, <1>2, <2>1 DEF Upto, Smallest
<1>5. ASSUME NEW i \in 1..g
      PROVE  /\ Upto(n, i - 1) = (i - 1) * MaxCount
             /\ Upto(n, i - 1) \in Nat /\ Upto(n, i) \in Nat
             /\ Upto(n, i - 1) < Upto(n, i) /\ Upto(n, i) <= n
  <2>1. (i - 1) * c \in Nat /\ i * c \in Nat /\ i * c = (i - 1) * c + c
    BY <1>1, <1>2
  <2>2. (i - 1) * c <= (g - 1) * c
    <3>1. i - 1 \in Nat /\ g - i \in Nat
      BY <1>2
    <3>2. (g - 1) * c = (i - 1) * c + (g - i) * c /\ (g - i) * c \in Nat /\ (i - 1) * c \in Nat
      BY <1>1, <1>2, <3>1
    <3> QED BY <3>2
  <2>3. (g - 1) * c \in Nat
    BY <1>1, <1>2
  <2>4. (i - 1) * c < n
    BY <1>2, <2>1, <2>2, <2>3
  <2>5. (i - 1) * c < i * c
    BY <1>1, <2>1
  <2> QED BY <1>1, <2>1, <2>4, <2>5 DEF Upto, Smallest
<1> QED BY <1>2, <1>3, <1>4, <1>5

LEMMA GroupsFacts ==
  ASSUME NEW S, NEW s \in Seq(S), NEW n \in Nat \ {0}, n = Len(s)
  PROVE  /\ DOMAIN Groups(s) = 1..CeilDiv(n, MaxCount)
         /\ \A i \in 1..CeilDiv(n, MaxCount) :
              Groups(s)[i] \in Seq(S) /\ Len(Groups(s)[i]) = Upto(n, i) - Upto(n, i - 1)
<1>1. DOMAIN Groups(s) = 1..CeilDiv(n, MaxCount)
  BY DEF Groups
<1>2. ASSUME NEW i \in 1..CeilDiv(n, MaxCount)
      PROVE  Groups(s)[i] \in Seq(S) /\ Len(Groups(s)[i]) = Upto(n, i) - Upto(n, i - 1)
  <2>1. Groups(s)[i] = SubSeq(s, Upto(n, i - 1) + 1, Upto(n, i))
    BY UptoFacts DEF Groups, Upto
  <2>2. PICK a \in Nat, z \in Nat : /\ a = Upto(n, i - 1) /\ z = Upto(n, i)
                                    /\ a < z /\ z <= n
    BY UptoFacts
  <2>3. SubSeq(s, a + 1, z) \in Seq(S) /\ Len(SubSeq(s, a + 1, z)) = z - a
    <3>1. a + 1 \in 1..Len(s) /\ z \in 1..Len(s) /\ a + 1 <= z
      BY <2>2
    <3> QED BY <2>2, <3>1
  <2> QED BY <2>1, <2>2, <2>3
<1> QED BY <1>1, <1>2

\* The report packets take what NeededBytes counts for them.
LEMMA ReportsWritten ==
  ASSUME NEW b, NEW S, b.blocks \in Seq(S), b.sr \in BOOLEAN, b.header = ReportHeader(b.sr)
  PROVE  /\ \E k \in Nat : DOMAIN ReportPieces(b) = 1..k
         /\ ReportPieces(b) = [i \in DOMAIN ReportPieces(b) |-> ReportPieces(b)[i]]
         /\ \A i \in DOMAIN ReportPieces(b) :
              /\ ReportPieces(b)[i].size \in Nat
              /\ "size" \in DOMAIN ReportPieces(b)[i]
         /\ Written(ReportPieces(b)) = NeededReport(b)
<1>1. PICK r \in Nat \ {0} : r = ReportBlockBytes
  BY FormatAssumption
<1>2. PICK n \in Nat : n = Len(b.blocks)
  OBVIOUS
<1>3. \A sr \in BOOLEAN : ReportHeader(sr) = IF sr THEN 24 ELSE 4
  BY DEF ReportHeader, SSRCBytes, SenderInfoBytes
<1>4. CASE n = 0
  <2>1. b.blocks = <<>>
    BY <1>2, <1>4, EmptySeq
  <2> DEFINE p == ReportPiece(b, TRUE, <<>>)
  <2>2. ReportPieces(b) = <<p>>
    BY <2>1 DEF ReportPieces
  <2>3. p.size = HeaderBytes + ReportHeader(b.sr) /\ "size" \in DOMAIN p
    <3>1. Len(<<>>) = 0 /\ (TRUE /\ b.sr) = b.sr
      OBVIOUS
    <3>2. r * 0 = 0 /\ HeaderBytes + ReportHeader(b.sr) \in Nat
      BY <1>1, <1>3 DEF HeaderBytes
    <3>3. /\ p.size = HeaderBytes + ReportHeader(TRUE /\ b.sr) + ReportBlockBytes * Len(<<>>)
          /\ "size" \in DOMAIN p
      BY <3>1, ReportPieceSize
    <3>4. ReportHeader(TRUE /\ b.sr) = ReportHeader(b.sr)
      BY <1>3
    <3> HIDE DEF p
    <3> QED BY <1>1, <3>1, <3>2, <3>3, <3>4
  <2> HIDE DEF p
  <2>4. NeededReport(b) = HeaderBytes + ReportHeader(b.sr) /\ HeaderBytes + ReportHeader(b.sr) \in Nat
    BY <1>2, <1>3, <1>4 DEF NeededReport, ReportBytes, HeaderBytes
  <2> DEFINE z == [i \in DOMAIN <<p>> |-> <<p>>[i].size]
  <2>5. z \in Seq(Nat) /\ Len(z) = 1 /\ z[1] = p.size
    BY <2>3, <2>4
  <2>6. Written(<<p>>) = p.size
    <3> HIDE DEF z
    <3> QED BY <2>5, SumOfOne DEF Written, z
  <2>7. DOMAIN <<p>> = 1..1 /\ <<p>>[1] = p /\ <<p>> = [i \in DOMAIN <<p>> |-> <<p>>[i]]
    OBVIOUS
  <2>8. p.size \in Nat
    BY <2>3, <2>4
  <2>9. Written(ReportPieces(b)) = NeededReport(b)
    BY <2>2, <2>3, <2>4, <2>6
  <2>10. DOMAIN ReportPieces(b) = 1..1 /\ ReportPieces(b)[1] = p
         /\ ReportPieces(b) = [i \in DOMAIN ReportPieces(b) |-> ReportPieces(b)[i]]
    BY <2>2, <2>7
  <2>11. \A i \in 1..1 : i = 1
    OBVIOUS
  <2> QED BY <2>3, <2>8, <2>9, <2>10, <2>11
<1>5. CASE n # 0
  <2> DEFINE g == CeilDiv(n, MaxCount)
             t == Groups(b.blocks)
             p == ReportPieces(b)
  <2>1. n \in Nat \ {0} /\ b.blocks # <<>>
    BY <1>2, <1>5
  <2>2. g \in Nat \ {0}
    BY <2>1, CeilDivFacts
  <2>3. DOMAIN t = 1..g /\ \A i \in 1..g : Len(t[i]) = Upto(n, i) - Upto(n, i - 1)
    <3>1. /\ DOMAIN Groups(b.blocks) = 1..CeilDiv(n, MaxCount)
          /\ \A i \in 1..CeilDiv(n, MaxCount) :
               /\ Groups(b.blocks)[i] \in Seq(S)
               /\ Len(Groups(b.blocks)[i]) = Upto(n, i) - Upto(n, i - 1)
      BY ONLY <1>2, <2>1, b.blocks \in Seq(S), GroupsFacts
    <3> QED BY ONLY <3>1
  <2>4. /\ Upto(n, 0) = 0 /\ Upto(n, g) = n
        /\ \A i \in 1..g : /\ Upto(n, i - 1) \in Nat /\ Upto(n, i) \in Nat
                           /\ Upto(n, i - 1) < Upto(n, i)
    BY <2>1, UptoFacts
  <2>5. p = [i \in 1..g |-> ReportPiece(b, i = 1, t[i])]
    BY <2>1, <2>3 DEF ReportPieces
  <2> HIDE DEF g, t, p
  <2>6. \A i \in 1..g : /\ p[i].size = 4 + (IF i = 1 /\ b.sr THEN 24 ELSE 4)
                                       + r * (Upto(n, i) - Upto(n, i - 1))
                        /\ "size" \in DOMAIN p[i] /\ p[i].size \in Nat
    <3> SUFFICES ASSUME NEW i \in 1..g
                 PROVE  /\ p[i].size = 4 + (IF i = 1 /\ b.sr THEN 24 ELSE 4)
                                       + r * (Upto(n, i) - Upto(n, i - 1))
                        /\ "size" \in DOMAIN p[i] /\ p[i].size \in Nat
      OBVIOUS
    <3>1. PICK k \in Nat : k = Upto(n, i) - Upto(n, i - 1) /\ k = Len(t[i])
      BY <2>3, <2>4
    <3>2. PICK first \in BOOLEAN : (first <=> i = 1) /\ p[i] = ReportPiece(b, first, t[i])
      <4>1. p[i] = ReportPiece(b, i = 1, t[i]) /\ (i = 1) \in BOOLEAN
        BY <2>5
      <4> QED BY <4>1
    <3>3. /\ p[i].size = HeaderBytes + ReportHeader(first /\ b.sr) + r * k
          /\ "size" \in DOMAIN p[i]
      <4>1. /\ ReportPiece(b, first, t[i]).size =
                 HeaderBytes + ReportHeader(first /\ b.sr) + ReportBlockBytes * Len(t[i])
            /\ "size" \in DOMAIN ReportPiece(b, first, t[i])
        BY ONLY <3>1, first \in BOOLEAN, k \in Nat, ReportPieceSize, ZenonT(30)
      <4> QED BY ONLY <1>1, <3>1, <3>2, <4>1
    <3>4. ReportHeader(first /\ b.sr) = IF i = 1 /\ b.sr THEN 24 ELSE 4
      BY <1>3, <3>2
    <3>5. r * k \in Nat
      BY <1>1, <3>1
    <3>6. p[i].size = 4 + (IF i = 1 /\ b.sr THEN 24 ELSE 4) + r * k
      BY <3>3, <3>4 DEF HeaderBytes
    <3>7. p[i].size \in Nat
      <4>1. \A x \in Nat : 4 + (IF i = 1 /\ b.sr THEN 24 ELSE 4) + x \in Nat
        OBVIOUS
      <4> QED BY <3>5, <3>6, <4>1
    <3> QED BY <3>1, <3>3, <3>6, <3>7
  <2> DEFINE z == [i \in DOMAIN p |-> p[i].size]
             f == [i \in 0..g |-> r * Upto(n, i) + 8 * i + (IF i > 0 /\ b.sr THEN 20 ELSE 0)]
  <2>7. z \in Seq(Nat) /\ Len(z) = g /\ \A i \in 1..g : z[i] = p[i].size
    BY <2>2, <2>5, <2>6
  <2>8. f[0] = 0
    <3>1. f[0] = r * Upto(n, 0) + 8 * 0 + (IF 0 > 0 /\ b.sr THEN 20 ELSE 0)
      BY <2>2
    <3>2. r * 0 + 8 * 0 + 0 = 0
      BY <1>1
    <3> HIDE DEF f
    <3> QED BY <2>4, <3>1, <3>2
  <2>9. \A i \in 1..g : f[i] = f[i - 1] + p[i].size
    <3> SUFFICES ASSUME NEW i \in 1..g PROVE f[i] = f[i - 1] + p[i].size
      OBVIOUS
    <3>1. PICK u \in Nat, v \in Nat : u = Upto(n, i - 1) /\ v = Upto(n, i)
      BY <2>4
    <3>2. i \in 0..g /\ i - 1 \in 0..g /\ i \in Nat \ {0}
      BY <2>2
    <3>3. f[i] = r * v + 8 * i + (IF b.sr THEN 20 ELSE 0)
      BY <3>1, <3>2
    <3>4. f[i - 1] = r * u + 8 * (i - 1) + (IF i > 1 /\ b.sr THEN 20 ELSE 0)
      BY <3>1, <3>2
    <3>5. p[i].size = 4 + (IF i = 1 /\ b.sr THEN 24 ELSE 4) + r * (v - u)
      BY <2>6, <3>1
    <3>6. r * (v - u) = r * v - r * u /\ r * v \in Nat /\ r * u \in Nat
      BY <1>1
    <3> HIDE DEF f
    <3> QED BY <3>2, <3>3, <3>4, <3>5, <3>6
  <2>10. f[g] = r * n + 8 * g + (IF b.sr THEN 20 ELSE 0)
    BY <2>2, <2>4
  <2>11. Written(p) = f[g]
    <3> HIDE DEF z, f
    <3>1. \A i \in 1..Len(z) : f[i] = f[i - 1] + z[i]
      BY <2>7, <2>9
    <3> QED BY <2>7, <2>8, <3>1, SumIs DEF Written, z
  <2>12. NeededReport(b) = n * r + g * 8 + (IF b.sr THEN 20 ELSE 0)
    BY <1>1, <1>2, <1>5 DEF NeededReport, ReportBytes, g, HeaderBytes, SSRCBytes, SenderInfoBytes
  <2>13. n * r = r * n /\ g * 8 = 8 * g
    BY <1>1, <2>2
  <2>14. Written(p) = NeededReport(b)
    BY <2>10, <2>11, <2>12, <2>13
  <2>15. DOMAIN p = 1..g /\ p = [i \in DOMAIN p |-> p[i]]
    BY <2>5
  <2> QED BY <2>2, <2>6, <2>14, <2>15 DEF p
<1> QED BY <1>2, <1>4, <1>5

\* One element more adds itself.
LEMMA SumOfLonger ==
  ASSUME NEW s \in Seq(Nat), NEW t \in Seq(Nat), Len(t) = Len(s) + 1,
         \A i \in 1..Len(s) : t[i] = s[i]
  PROVE  SumOf(t) = SumOf(s) + t[Len(t)] /\ SumOf(s) \in Nat
<1>1. PICK n \in Nat : n = Len(s) /\ Len(t) = n + 1
  OBVIOUS
<1>2. PICK f : f[0] = 0 /\ f[n + 1] = SumOf(t) /\ \A i \in 1..n + 1 : f[i] = f[i - 1] + t[i]
  <2>1. \E f : /\ f[0] = 0 /\ f[Len(t)] = SumOf(t)
                /\ \A i \in 1..Len(t) : f[i] = f[i - 1] + t[i]
    BY PartialSums
  <2> QED BY <1>1, <2>1
<1>3. \A i \in 1..n : f[i] = f[i - 1] + s[i]
  <2> SUFFICES ASSUME NEW i \in 1..n PROVE f[i] = f[i - 1] + s[i]
    OBVIOUS
  <2>1. i \in 1..n + 1 /\ t[i] = s[i]
    BY <1>1
  <2> QED BY <1>2, <2>1
<1>4. f[n] = SumOf(s) /\ SumOf(s) \in Nat
  BY <1>1, <1>2, <1>3, SumIs
<1>5. n + 1 \in 1..n + 1 /\ (n + 1) - 1 = n
  OBVIOUS
<1>6. f[n + 1] = f[n] + t[n + 1]
  BY <1>2, <1>5
<1> QED BY <1>1, <1>2, <1>4, <1>6

\* The values a builder takes.
AnyItem == [id : Int, len : 0..255]
AnyChunk == [ssrc : {Own}, items : Seq(AnyItem)]
AnyBye == [ssrcs : {<<Own>>}, reason : 0..255]
Builders ==
  [max : Nat, sr : BOOLEAN, header : Nat, own : {0, Own}, blocks : Seq(Sources),
   sources : Seq(AnyChunk), byes : Seq(AnyBye), apps : Seq(Nat)]

LEMMA ItemLens == \A x \in AnyItem : x.len \in 0..255 /\ SDESHeaderBytes + x.len = 2 + x.len
                                /\ x.len \in Nat /\ 2 + x.len \in Nat
<1>1. \A x \in AnyItem : x.len \in 0..255
  BY DEF AnyItem
<1>2. \A l \in 0..255 : l \in Nat /\ 2 + l \in Nat
  OBVIOUS
<1> QED BY <1>1, <1>2 DEF SDESHeaderBytes

\* A builder with its report and the chunk of the own source.
WellBuilt(b) ==
  /\ b \in Builders /\ b.header = ReportHeader(b.sr)
  /\ Len(b.sources) = 1

OwnItems(b) == b.sources[1].items

LEMMA RoundUp4Facts ==
  ASSUME NEW n \in Nat
  PROVE  RoundUp4(n) \in Nat /\ n <= RoundUp4(n) /\ RoundUp4(n) <= n + 3
BY DEF RoundUp4

LEMMA ItemBytesFacts ==
  ASSUME NEW items \in Seq(AnyItem)
  PROVE  ItemBytes(items) \in Nat /\ NeededSource(items) \in Nat
<1> DEFINE z == [i \in DOMAIN items |-> SDESHeaderBytes + items[i].len]
<1>1. z \in Seq(Nat)
  <2>1. \A i \in DOMAIN items : SDESHeaderBytes + items[i].len \in Nat
    <3>1. \A i \in DOMAIN items : items[i] \in AnyItem
      OBVIOUS
    <3> QED BY <3>1, ItemLens
  <2> QED BY <2>1
<1>2. SumOf(z) \in Nat
  <2> HIDE DEF z
  <2>1. PICK f : f[0] = 0 /\ f[Len(z)] = SumOf(z) /\ \A i \in 1..Len(z) : f[i] = f[i - 1] + z[i]
    BY <1>1, PartialSums
  <2> QED BY <1>1, <2>1, SumIs
<1>3. ItemBytes(items) \in Nat
  BY <1>2 DEF ItemBytes
<1>4. PICK n \in Nat : n = ItemBytes(items) + 1
  BY <1>3
<1>5. RoundUp4(n) \in Nat
  BY RoundUp4Facts
<1>6. NeededSource(items) = RoundUp4(n) + 4
  BY <1>4 DEF NeededSource, SSRCBytes
<1> QED BY <1>3, <1>5, <1>6

\* One item more takes its header and its bytes.
LEMMA OneItemMore ==
  ASSUME NEW items \in Seq(AnyItem), NEW more \in Seq(AnyItem), Len(more) = Len(items) + 1,
         \A i \in 1..Len(items) : more[i].len = items[i].len
  PROVE  ItemBytes(more) = ItemBytes(items) + 2 + more[Len(more)].len
<1> DEFINE z(s) == [i \in DOMAIN s |-> SDESHeaderBytes + s[i].len]
<1>1. \A s \in Seq(AnyItem) : /\ z(s) \in Seq(Nat) /\ Len(z(s)) = Len(s)
                            /\ \A i \in 1..Len(s) : z(s)[i] = 2 + s[i].len /\ s[i].len \in Nat
  <2> SUFFICES ASSUME NEW s \in Seq(AnyItem)
               PROVE  /\ z(s) \in Seq(Nat) /\ Len(z(s)) = Len(s)
                      /\ \A i \in 1..Len(s) : z(s)[i] = 2 + s[i].len /\ s[i].len \in Nat
    OBVIOUS
  <2>1. \A i \in 1..Len(s) : s[i] \in AnyItem
    BY ONLY s \in Seq(AnyItem)
  <2>2. \A i \in 1..Len(s) : SDESHeaderBytes + s[i].len = 2 + s[i].len /\ s[i].len \in Nat
                             /\ 2 + s[i].len \in Nat
    BY <2>1, ItemLens
  <2>3. DOMAIN s = 1..Len(s) /\ Len(s) \in Nat
    BY ONLY s \in Seq(AnyItem)
  <2> QED BY ONLY <2>2, <2>3
<1>2. PICK n \in Nat : n = Len(items) /\ Len(more) = n + 1
  OBVIOUS
<1> HIDE DEF z
<1>3. \A i \in 1..n : z(more)[i] = z(items)[i]
  <2> SUFFICES ASSUME NEW i \in 1..n PROVE z(more)[i] = z(items)[i]
    OBVIOUS
  <2>1. i \in 1..n + 1
    OBVIOUS
  <2> QED BY <1>1, <1>2, <2>1
<1>4. n + 1 \in 1..n + 1
  OBVIOUS
<1>5. z(more)[n + 1] = 2 + more[n + 1].len /\ more[n + 1].len \in Nat
  BY <1>1, <1>2, <1>4
<1>6. SumOf(z(more)) = SumOf(z(items)) + z(more)[n + 1] /\ SumOf(z(items)) \in Nat
  BY <1>1, <1>2, <1>3, SumOfLonger
<1>7. ItemBytes(more) = SumOf(z(more)) /\ ItemBytes(items) = SumOf(z(items))
  BY DEF ItemBytes, z
<1>8. ItemBytes(more) = ItemBytes(items) + (2 + more[n + 1].len) /\ ItemBytes(items) \in Nat
  BY <1>5, <1>6, <1>7
<1>9. ItemBytes(more) = ItemBytes(items) + 2 + more[n + 1].len
  <2>1. PICK x \in Nat, l \in Nat : x = ItemBytes(items) /\ l = more[n + 1].len
    BY <1>5, <1>8
  <2>2. x + (2 + l) = (x + 2) + l
    BY ONLY x \in Nat, l \in Nat
  <2>3. ItemBytes(more) = x + (2 + l)
    BY ONLY <1>8, <2>1
  <2> QED BY ONLY <2>1, <2>2, <2>3
<1> QED BY <1>2, <1>9

LEMMA OneGroup == CeilDiv(1, MaxCount) = 1
<1>1. PICK c \in Nat \ {0} : c = MaxCount
  BY FormatAssumption
<1>2. (1 + c - 1) \div c = 1
  BY ONLY c \in Nat \ {0}
<1> QED BY <1>1, <1>2 DEF CeilDiv

\* What a builder with one chunk needs.
LEMMA NeededIs ==
  ASSUME NEW b, WellBuilt(b)
  PROVE  /\ NeededSDES(b) = NeededSource(OwnItems(b)) + 4
         /\ OwnItems(b) \in Seq(AnyItem)
         /\ NeededSource(OwnItems(b)) \in Nat
<1>1. b.sources \in Seq(AnyChunk) /\ Len(b.sources) = 1
  BY DEF WellBuilt, Builders
<1>2. \A i \in 1..Len(b.sources) : b.sources[i] \in AnyChunk
  <2>1. \A s \in Seq(AnyChunk) : \A i \in 1..Len(s) : s[i] \in AnyChunk
    BY ONLY TRUE
  <2> QED BY <1>1, <2>1
<1>3. OwnItems(b) \in Seq(AnyItem)
  BY <1>1, <1>2 DEF OwnItems, AnyChunk
<1>4. NeededSource(OwnItems(b)) \in Nat
  BY <1>3, ItemBytesFacts
<1> DEFINE z == [i \in DOMAIN b.sources |-> NeededSource(b.sources[i].items)]
<1>5. DOMAIN b.sources = 1..1
  BY <1>1
<1>6. z \in Seq(Nat) /\ Len(z) = 1 /\ z[1] = NeededSource(OwnItems(b))
  <2>1. \A i \in 1..1 : NeededSource(b.sources[i].items) = NeededSource(OwnItems(b))
    BY DEF OwnItems
  <2> QED BY <1>4, <1>5, <2>1
<1>7. SumOf(z) = NeededSource(OwnItems(b))
  <2> HIDE DEF z
  <2> QED BY <1>6, SumOfOne
<1>8. SDESHeaders(Len(b.sources)) = 4
  BY <1>1, OneGroup DEF SDESHeaders, HeaderBytes
<1> QED BY <1>3, <1>4, <1>7, <1>8 DEF NeededSDES

\* The SDES packet of a single chunk.
LEMMA SDESWritten ==
  ASSUME NEW b, WellBuilt(b)
  PROVE  \E p : /\ SDESPieces(b) = <<p>> /\ "size" \in DOMAIN p
                /\ p.size \in Nat /\ p.size = NeededSDES(b)
<1>1. b.sources \in Seq(AnyChunk) /\ Len(b.sources) = 1
  BY DEF WellBuilt, Builders
<1>2. DOMAIN Groups(b.sources) = 1..1
  BY <1>1, OneGroup DEF Groups
<1> DEFINE t == Groups(b.sources)[1]
           p == SDESPiece(t)
<1>3. t \in Seq(AnyChunk) /\ Len(t) = 1 /\ t[1] = b.sources[1]
  <2>1. MaxCount \in Nat \ {0}
    BY FormatAssumption
  <2>2. (1 - 1) * MaxCount + 1 = 1 /\ Smallest(1 * MaxCount, 1) = 1
    BY <2>1 DEF Smallest
  <2>3. t = SubSeq(b.sources, 1, 1)
    <3>1. t = SubSeq(b.sources, (1 - 1) * MaxCount + 1, Smallest(1 * MaxCount, 1))
      <4>1. \A s : \A i \in DOMAIN Groups(s) :
              Groups(s)[i] = SubSeq(s, (i - 1) * MaxCount + 1, Smallest(i * MaxCount, Len(s)))
        BY ONLY TRUE DEF Groups
      <4>2. 1 \in DOMAIN Groups(b.sources)
        BY <1>2
      <4> QED BY <1>1, <4>1, <4>2
    <3> HIDE DEF t
    <3> QED BY <2>2, <3>1
  <2>4. \A s \in Seq(AnyChunk) : Len(s) = 1 =>
          SubSeq(s, 1, 1) \in Seq(AnyChunk) /\ Len(SubSeq(s, 1, 1)) = 1 /\ SubSeq(s, 1, 1)[1] = s[1]
    BY ONLY TRUE
  <2> HIDE DEF t
  <2> QED BY <1>1, <2>3, <2>4
<1>4. SDESPieces(b) = <<p>>
  <2>1. SDESPieces(b) = [i \in 1..1 |-> SDESPiece(Groups(b.sources)[i])]
    BY <1>2 DEF SDESPieces
  <2> QED BY <2>1
<1> HIDE DEF t
<1> DEFINE Sums(h) == h = [n \in 1..Len(t) + 1 |->
                             IF n = 1 THEN HeaderBytes
                             ELSE h[n - 1] + NeededSource(t[n - 1].items)]
           h == CHOOSE g : Sums(g)
<1>5. p.size = h[Len(t) + 1] /\ "size" \in DOMAIN p
  BY PieceSize DEF SDESPiece
<1>6. \E g : Sums(g)
  <2> DEFINE g == [n \in 1..2 |-> IF n = 1 THEN HeaderBytes
                                  ELSE HeaderBytes + NeededSource(t[n - 1].items)]
  <2>1. \A n \in 1..2 : n = 1 \/ n = 2
    OBVIOUS
  <2>2. g[1] = HeaderBytes
    OBVIOUS
  <2>3. g = [n \in 1..2 |-> IF n = 1 THEN HeaderBytes
                            ELSE g[n - 1] + NeededSource(t[n - 1].items)]
    <3>1. \A n \in 1..2 : g[n] = IF n = 1 THEN HeaderBytes
                                 ELSE g[n - 1] + NeededSource(t[n - 1].items)
      <4> SUFFICES ASSUME NEW n \in 1..2
                   PROVE  g[n] = IF n = 1 THEN HeaderBytes
                                 ELSE g[n - 1] + NeededSource(t[n - 1].items)
        OBVIOUS
      <4>1. CASE n = 1
        BY <2>2, <4>1
      <4>2. CASE n = 2
        <5>1. n - 1 = 1 /\ n # 1
          BY <4>2
        <5>2. g[n] = HeaderBytes + NeededSource(t[n - 1].items)
          BY <4>2
        <5> HIDE DEF g
        <5> QED BY <2>2, <5>1, <5>2
      <4> QED BY <2>1, <4>1, <4>2
    <3> QED BY <3>1
  <2>4. Len(t) + 1 = 2
    BY <1>3
  <2> QED BY <2>3, <2>4
<1>7. Sums(h)
  <2> HIDE DEF Sums
  <2> QED BY <1>6
<1> HIDE DEF h
<1>8. h[2] = HeaderBytes + NeededSource(t[1].items)
  <2>1. h = [n \in 1..2 |-> IF n = 1 THEN HeaderBytes
                            ELSE h[n - 1] + NeededSource(t[n - 1].items)]
    BY <1>3, <1>7
  <2>2. h[1] = HeaderBytes
    BY <2>1
  <2>3. 2 \in 1..2 /\ 2 # 1 /\ 2 - 1 = 1
    OBVIOUS
  <2> QED BY <2>1, <2>2, <2>3
<1>9. p.size = 4 + NeededSource(OwnItems(b))
  <2> HIDE DEF p
  <2>1. Len(t) + 1 = 2
    BY <1>3
  <2> QED BY <1>3, <1>5, <1>8, <2>1 DEF OwnItems, HeaderBytes
<1> HIDE DEF p
<1> QED BY <1>4, <1>5, <1>9, NeededIs

LEMMA APPWritten ==
  ASSUME NEW b, b.apps \in Seq(Nat)
  PROVE  LET p == [i \in DOMAIN b.apps |-> APPPiece(b, b.apps[i])]
         IN  /\ \A i \in DOMAIN p : p[i].size \in Nat /\ "size" \in DOMAIN p[i]
             /\ Written(p) = AppBytes(b) /\ AppBytes(b) \in Nat
<1> DEFINE p == [i \in DOMAIN b.apps |-> APPPiece(b, b.apps[i])]
           z == [i \in DOMAIN b.apps |-> NeededAPP(b.apps[i])]
<1>1. \A i \in DOMAIN b.apps : NeededAPP(b.apps[i]) \in Nat
  <2>1. \A i \in DOMAIN b.apps : b.apps[i] \in Nat
    OBVIOUS
  <2> QED BY <2>1 DEF NeededAPP, HeaderBytes, SSRCBytes
<1>2. \A i \in DOMAIN b.apps : p[i].size = NeededAPP(b.apps[i]) /\ "size" \in DOMAIN p[i]
  BY PieceSize DEF APPPiece
<1>3. DOMAIN p = DOMAIN b.apps
  OBVIOUS
<1>4. z \in Seq(Nat)
  BY <1>1
<1> HIDE DEF p
<1>5. [i \in DOMAIN p |-> p[i].size] = z
  BY <1>2, <1>3
<1> HIDE DEF z
<1>6. SumOf(z) \in Nat
  BY <1>4, PartialSums, SumIs
<1> QED BY <1>1, <1>2, <1>3, <1>5, <1>6 DEF Written, AppBytes, p, z

LEMMA NeededBYEIsNat ==
  ASSUME NEW n \in Nat, NEW len \in 0..255
  PROVE  NeededBYE(n, len) \in Nat /\ NeededBYE(n, len) <= 4 + 4 * n + 259
<1>1. len + 1 \in Nat /\ len + 1 <= 256
  OBVIOUS
<1>2. RoundUp4(len + 1) \in Nat /\ RoundUp4(len + 1) <= 259
  BY <1>1, RoundUp4Facts
<1> HIDE DEF RoundUp4
<1> QED BY <1>2 DEF NeededBYE, HeaderBytes, SSRCBytes

LEMMA BYEWritten ==
  ASSUME NEW b, b.byes \in Seq(AnyBye)
  PROVE  LET p == [i \in DOMAIN b.byes |-> BYEPiece(b.byes[i])]
         IN  /\ \A i \in DOMAIN p : p[i].size \in Nat /\ "size" \in DOMAIN p[i]
             /\ Written(p) = ByeBytes(b) /\ ByeBytes(b) \in Nat
<1> DEFINE p == [i \in DOMAIN b.byes |-> BYEPiece(b.byes[i])]
           z == [i \in DOMAIN b.byes |-> NeededBYE(Len(b.byes[i].ssrcs), b.byes[i].reason)]
<1>1. \A i \in DOMAIN b.byes : NeededBYE(Len(b.byes[i].ssrcs), b.byes[i].reason) \in Nat
  <2>1. \A i \in DOMAIN b.byes : b.byes[i] \in AnyBye
    OBVIOUS
  <2>2. \A x \in AnyBye : x.ssrcs = <<Own>> /\ x.reason \in 0..255
    BY DEF AnyBye
  <2>3. Len(<<Own>>) = 1 /\ 1 \in Nat
    OBVIOUS
  <2> QED BY <2>1, <2>2, <2>3, NeededBYEIsNat
<1>2. \A i \in DOMAIN b.byes : /\ p[i].size = NeededBYE(Len(b.byes[i].ssrcs), b.byes[i].reason)
                               /\ "size" \in DOMAIN p[i]
  BY PieceSize DEF BYEPiece
<1>3. DOMAIN p = DOMAIN b.byes
  OBVIOUS
<1>4. z \in Seq(Nat)
  BY <1>1
<1> HIDE DEF p
<1>5. [i \in DOMAIN p |-> p[i].size] = z
  BY <1>2, <1>3
<1> HIDE DEF z
<1>6. SumOf(z) \in Nat
  BY <1>4, PartialSums, SumIs
<1> QED BY <1>1, <1>2, <1>3, <1>5, <1>6 DEF Written, ByeBytes, p, z

LEMMA FunctionIsSeq ==
  ASSUME NEW f, NEW k \in Nat, DOMAIN f = 1..k, f = [i \in DOMAIN f |-> f[i]]
  PROVE  f \in Seq({f[i] : i \in DOMAIN f})
<1> DEFINE S == {f[i] : i \in DOMAIN f}
<1>1. \A i \in 1..k : f[i] \in S
  OBVIOUS
<1> HIDE DEF S
<1>2. f \in [1..k -> S]
  BY <1>1
<1>3. f \in Seq(S)
  BY ONLY <1>2, k \in Nat
<1> QED BY <1>3 DEF S

\* EndBuild writes exactly what NeededBytes counts.
LEMMA EndBuildWrites ==
  ASSUME NEW b, WellBuilt(b)
  PROVE  /\ Written(EndBuild(b).part) = EndBuild(b).len
         /\ EndBuild(b).len = NeededBytes(b)
<1> DEFINE r == ReportPieces(b)
           s == SDESPieces(b)
           a == [i \in DOMAIN b.apps |-> APPPiece(b, b.apps[i])]
           y == [i \in DOMAIN b.byes |-> BYEPiece(b.byes[i])]
           P == {r[i] : i \in DOMAIN r} \cup {s[i] : i \in DOMAIN s}
                \cup {a[i] : i \in DOMAIN a} \cup {y[i] : i \in DOMAIN y}
<1>1. /\ b.blocks \in Seq(Sources) /\ b.sr \in BOOLEAN /\ b.header = ReportHeader(b.sr)
      /\ b.apps \in Seq(Nat) /\ b.byes \in Seq(AnyBye)
  BY DEF WellBuilt, Builders
<1>2. /\ \E k \in Nat : DOMAIN r = 1..k
      /\ r = [i \in DOMAIN r |-> r[i]]
      /\ \A i \in DOMAIN r : r[i].size \in Nat /\ "size" \in DOMAIN r[i]
      /\ Written(r) = NeededReport(b)
  BY <1>1, ReportsWritten
<1>3. PICK p : s = <<p>> /\ "size" \in DOMAIN p /\ p.size \in Nat /\ p.size = NeededSDES(b)
  BY SDESWritten
<1>4. /\ \A i \in DOMAIN a : a[i].size \in Nat /\ "size" \in DOMAIN a[i]
      /\ Written(a) = AppBytes(b) /\ AppBytes(b) \in Nat
  BY <1>1, APPWritten
<1>5. /\ \A i \in DOMAIN y : y[i].size \in Nat /\ "size" \in DOMAIN y[i]
      /\ Written(y) = ByeBytes(b) /\ ByeBytes(b) \in Nat
  BY <1>1, BYEWritten
<1>6. a \in Seq({a[i] : i \in DOMAIN a}) /\ y \in Seq({y[i] : i \in DOMAIN y})
  <2>1. PICK k \in Nat, l \in Nat : DOMAIN b.apps = 1..k /\ DOMAIN b.byes = 1..l
    <3>1. DOMAIN b.apps = 1..Len(b.apps) /\ Len(b.apps) \in Nat
      BY <1>1
    <3>2. DOMAIN b.byes = 1..Len(b.byes) /\ Len(b.byes) \in Nat
      BY <1>1
    <3> QED BY <3>1, <3>2
  <2>2. DOMAIN a = 1..k /\ a = [i \in DOMAIN a |-> a[i]]
    BY <2>1
  <2>3. DOMAIN y = 1..l /\ y = [i \in DOMAIN y |-> y[i]]
    BY <2>1
  <2> HIDE DEF a, y
  <2> QED BY <2>2, <2>3, FunctionIsSeq
<1>7. Pieces(b) = r \o s \o a \o y
  BY DEF Pieces
<1> HIDE DEF r, s, a, y
<1>8. \A i \in DOMAIN s : s[i].size \in Nat /\ "size" \in DOMAIN s[i]
  BY <1>3
<1>9. r \in Seq({r[i] : i \in DOMAIN r}) /\ s \in Seq({s[i] : i \in DOMAIN s})
  <2>1. PICK k \in Nat : DOMAIN r = 1..k
    BY <1>2
  <2>2. r \in Seq({r[i] : i \in DOMAIN r})
    BY <1>2, <2>1, FunctionIsSeq
  <2> QED BY <1>3, <2>2
<1>10. \A x \in P : x.size \in Nat /\ "size" \in DOMAIN x
  BY <1>2, <1>4, <1>5, <1>8
<1>11. r \in Seq(P) /\ s \in Seq(P) /\ a \in Seq(P) /\ y \in Seq(P)
  <2>1. \A Q : Q \subseteq P => Seq(Q) \subseteq Seq(P)
    <3> HIDE DEF P
    <3> QED OBVIOUS
  <2> QED BY <1>6, <1>9, <2>1
<1> HIDE DEF P
<1>12. Written(s) = NeededSDES(b)
  <2> DEFINE z == [i \in DOMAIN s |-> s[i].size]
  <2>1. z \in Seq(Nat) /\ Len(z) = 1 /\ z[1] = p.size
    BY <1>3
  <2> HIDE DEF z
  <2> QED BY <1>3, <2>1, SumOfOne DEF Written, z
<1>13. r \o s \in Seq(P) /\ r \o s \o a \in Seq(P) /\ r \o s \o a \o y \in Seq(P)
  BY <1>11
<1>14. Written(r \o s) = Written(r) + Written(s) /\ Written(r) \in Nat /\ Written(s) \in Nat
  BY <1>10, <1>11, WrittenConcat
<1>15. Written(r \o s \o a) = Written(r \o s) + Written(a)
  BY <1>10, <1>11, <1>13, WrittenConcat
<1>16. Written(r \o s \o a \o y) = Written(r \o s \o a) + Written(y)
  BY <1>10, <1>11, <1>13, WrittenConcat
<1>17. Written(Pieces(b)) = NeededReport(b) + NeededSDES(b) + ByeBytes(b) + AppBytes(b)
  BY <1>2, <1>4, <1>5, <1>7, <1>12, <1>14, <1>15, <1>16
<1>18. Written(LaidOut(Pieces(b))) = Written(Pieces(b))
  BY <1>7, <1>10, <1>13, WrittenLaidOut
<1> QED BY <1>17, <1>18 DEF EndBuild, NeededBytes

-----------------------------------------------------------------------------
(* What the calls make of a builder.                                       *)

LEMMA InitBuildFacts ==
  ASSUME NEW size \in Nat
  PROVE  /\ InitBuild(size) \in Builders
         /\ InitBuild(size).max = size /\ InitBuild(size).header = 0
         /\ InitBuild(size).blocks = <<>> /\ InitBuild(size).sources = <<>>
         /\ InitBuild(size).byes = <<>> /\ InitBuild(size).apps = <<>>
<1>1. <<>> \in Seq(Sources) /\ <<>> \in Seq(AnyChunk) /\ <<>> \in Seq(AnyBye) /\ <<>> \in Seq(Nat)
  OBVIOUS
<1> QED BY <1>1 DEF InitBuild, Builders

LEMMA WithReportFacts ==
  ASSUME NEW b \in Builders, NEW sr \in BOOLEAN
  PROVE  /\ WithReport(b, sr, Own) \in Builders
         /\ WithReport(b, sr, Own).sr = sr
         /\ WithReport(b, sr, Own).header = ReportHeader(sr)
         /\ WithReport(b, sr, Own).max = b.max
         /\ WithReport(b, sr, Own).blocks = b.blocks
         /\ WithReport(b, sr, Own).sources = b.sources
         /\ WithReport(b, sr, Own).byes = b.byes
         /\ WithReport(b, sr, Own).apps = b.apps
<1>1. ReportHeader(sr) \in Nat
  BY DEF ReportHeader, SSRCBytes, SenderInfoBytes
<1> QED BY <1>1 DEF WithReport, Builders

LEMMA WithSDESSourceFacts ==
  ASSUME NEW b \in Builders, b.sources = <<>>
  PROVE  /\ WithSDESSource(b, Own) \in Builders
         /\ WithSDESSource(b, Own).sources = <<[ssrc |-> Own, items |-> <<>>]>>
         /\ WithSDESSource(b, Own).max = b.max
         /\ WithSDESSource(b, Own).sr = b.sr
         /\ WithSDESSource(b, Own).header = b.header
         /\ WithSDESSource(b, Own).blocks = b.blocks
         /\ WithSDESSource(b, Own).byes = b.byes
         /\ WithSDESSource(b, Own).apps = b.apps
<1>1. [ssrc |-> Own, items |-> <<>>] \in AnyChunk
  BY DEF AnyChunk
<1> DEFINE c == [ssrc |-> Own, items |-> <<>>]
<1> HIDE DEF c
<1>2. Append(b.sources, c) = <<c>> /\ <<c>> \in Seq(AnyChunk)
  BY <1>1 DEF c
<1>3. WithSDESSource(b, Own) = [b EXCEPT !.sources = <<c>>]
  <2>1. WithSDESSource(b, Own) = [b EXCEPT !.sources = Append(b.sources, c)]
    BY DEF WithSDESSource, c
  <2> QED BY <1>2, <2>1
<1> QED BY <1>2, <1>3 DEF Builders, c

\* b with other items for the own source.
Replaced(b, items) == [b EXCEPT !.sources[Len(b.sources)].items = items]

LEMMA ReplacedFacts ==
  ASSUME NEW b, WellBuilt(b), NEW items \in Seq(AnyItem)
  PROVE  /\ WellBuilt(Replaced(b, items))
         /\ OwnItems(Replaced(b, items)) = items
         /\ Replaced(b, items).max = b.max
         /\ Replaced(b, items).sr = b.sr
         /\ Replaced(b, items).header = b.header
         /\ Replaced(b, items).blocks = b.blocks
         /\ Replaced(b, items).byes = b.byes
         /\ Replaced(b, items).apps = b.apps
<1>1. /\ b \in Builders /\ b.header = ReportHeader(b.sr)
      /\ b.sources \in Seq(AnyChunk) /\ Len(b.sources) = 1
  BY DEF WellBuilt, Builders
<1> DEFINE t == [b.sources EXCEPT ![1].items = items]
<1>2. Replaced(b, items) = [b EXCEPT !.sources = t]
  BY <1>1 DEF Replaced
<1>3. t \in Seq(AnyChunk) /\ Len(t) = 1 /\ t[1].items = items
  <2>1. DOMAIN b.sources = 1..1
    BY <1>1
  <2>2. b.sources[1] \in AnyChunk
    <3>1. \A s \in Seq(AnyChunk) : \A i \in DOMAIN s : s[i] \in AnyChunk
      BY ONLY TRUE
    <3> QED BY <1>1, <2>1, <3>1
  <2>3. t = [i \in 1..1 |-> [b.sources[1] EXCEPT !.items = items]]
    BY <2>1
  <2>4. /\ [b.sources[1] EXCEPT !.items = items] \in AnyChunk
        /\ [b.sources[1] EXCEPT !.items = items].items = items
    BY <2>2 DEF AnyChunk
  <2>5. PICK c \in AnyChunk : c = [b.sources[1] EXCEPT !.items = items]
    BY <2>4
  <2> HIDE DEF t
  <2>6. t = [i \in 1..1 |-> c] /\ c.items = items
    BY <2>3, <2>4, <2>5
  <2>7. [i \in 1..1 |-> c] \in Seq(AnyChunk) /\ Len([i \in 1..1 |-> c]) = 1
        /\ [i \in 1..1 |-> c][1] = c
    BY ONLY c \in AnyChunk
  <2> QED BY <2>6, <2>7
<1> HIDE DEF t
<1> QED BY <1>1, <1>2, <1>3 DEF WellBuilt, Builders, OwnItems

LEMMA WithItemFacts ==
  ASSUME NEW b, WellBuilt(b), NEW item \in AnyItem
  PROVE  WithItem(b, item) = Replaced(b, Append(OwnItems(b), item))
<1>1. Len(b.sources) = 1
  BY DEF WellBuilt
<1> QED BY <1>1 DEF WithItem, Replaced, OwnItems

LEMMA WithItemsFacts ==
  ASSUME NEW b, WellBuilt(b), NEW s \in Seq(ItemNames)
  PROVE  WithItems(b, s) = Replaced(b, OwnItems(b) \o ItemsWith(s))
<1>1. Len(b.sources) = 1
  BY DEF WellBuilt
<1> QED BY <1>1 DEF WithItems, Replaced, OwnItems

LEMMA WithBlocksFacts ==
  ASSUME NEW b, WellBuilt(b), NEW s \in Seq(Sources)
  PROVE  /\ WellBuilt(WithBlocks(b, s))
         /\ OwnItems(WithBlocks(b, s)) = OwnItems(b)
         /\ WithBlocks(b, s).max = b.max
         /\ WithBlocks(b, s).sr = b.sr
         /\ WithBlocks(b, s).header = b.header
         /\ WithBlocks(b, s).blocks = b.blocks \o s
         /\ WithBlocks(b, s).byes = b.byes
         /\ WithBlocks(b, s).apps = b.apps
<1>1. b \in Builders /\ b.blocks \in Seq(Sources)
  BY DEF WellBuilt, Builders
<1>2. b.blocks \o s \in Seq(Sources)
  BY <1>1
<1> QED BY <1>1, <1>2 DEF WithBlocks, WellBuilt, Builders, OwnItems

\* What a builder needs besides its items does not depend on them.
LEMMA NeededParts ==
  ASSUME NEW b, WellBuilt(b)
  PROVE  /\ NeededReport(b) \in Nat /\ ByeBytes(b) \in Nat /\ AppBytes(b) \in Nat
         /\ NeededBytes(b) = NeededReport(b) + (NeededSource(OwnItems(b)) + 4)
                             + ByeBytes(b) + AppBytes(b)
         /\ NeededSource(OwnItems(b)) \in Nat
         /\ NeededBytes(b) - NeededSDES(b) = NeededReport(b) + ByeBytes(b) + AppBytes(b)
         /\ NeededBytes(b) - NeededReport(b) =
              (NeededSource(OwnItems(b)) + 4) + ByeBytes(b) + AppBytes(b)
<1>1. /\ b.blocks \in Seq(Sources) /\ b.sr \in BOOLEAN /\ b.header = ReportHeader(b.sr)
      /\ b.apps \in Seq(Nat) /\ b.byes \in Seq(AnyBye)
  BY DEF WellBuilt, Builders
<1>2. ByeBytes(b) \in Nat /\ AppBytes(b) \in Nat
  BY <1>1, APPWritten, BYEWritten
<1>3. NeededReport(b) \in Nat
  <2>1. Len(b.blocks) \in Nat
    BY <1>1
  <2>2. \A n \in Nat : ReportBytes(b, n) \in Nat
    <3> SUFFICES ASSUME NEW n \in Nat PROVE ReportBytes(b, n) \in Nat
      OBVIOUS
    <3>1. CASE n = 0
      BY <1>1, <3>1 DEF ReportBytes, ReportHeader, HeaderBytes, SSRCBytes, SenderInfoBytes
    <3>2. CASE n # 0
      <4>1. PICK r \in Nat \ {0} : r = ReportBlockBytes
        BY FormatAssumption
      <4>2. PICK g \in Nat : g = CeilDiv(n, MaxCount)
        BY <3>2, CeilDivFacts
      <4>3. n * r \in Nat /\ g * 8 \in Nat
        BY <4>1, <4>2
      <4>4. ReportBytes(b, n) = n * r + g * 8 + (IF b.sr THEN 20 ELSE 0)
        BY <3>2, <4>1, <4>2 DEF ReportBytes, HeaderBytes, SSRCBytes, SenderInfoBytes
      <4> QED BY <4>3, <4>4
    <3> QED BY <3>1, <3>2
  <2> QED BY <2>1, <2>2 DEF NeededReport
<1>4. NeededSDES(b) = NeededSource(OwnItems(b)) + 4 /\ NeededSource(OwnItems(b)) \in Nat
  BY NeededIs
<1> QED BY <1>2, <1>3, <1>4 DEF NeededBytes

-----------------------------------------------------------------------------
(* The beginning of every packet.                                          *)

LEMMA EmptyParts ==
  ASSUME NEW b, b.byes = <<>>, b.apps = <<>>
  PROVE  ByeBytes(b) = 0 /\ AppBytes(b) = 0
<1>1. /\ [i \in DOMAIN b.byes |-> NeededBYE(Len(b.byes[i].ssrcs), b.byes[i].reason)] = <<>>
      /\ [i \in DOMAIN b.apps |-> NeededAPP(b.apps[i])] = <<>>
  OBVIOUS
<1> QED BY <1>1, SumOfEmpty DEF ByeBytes, AppBytes

LEMMA ReportWithoutBlocks ==
  ASSUME NEW b, b.blocks = <<>>, b.sr \in BOOLEAN, b.header = ReportHeader(b.sr)
  PROVE  NeededReport(b) = IF b.sr THEN 28 ELSE 8
<1>1. Len(b.blocks) = 0
  OBVIOUS
<1>2. ReportHeader(b.sr) = IF b.sr THEN 24 ELSE 4
  BY DEF ReportHeader, SSRCBytes, SenderInfoBytes
<1>3. NeededReport(b) = IF b.header = 0 THEN 0 ELSE 4 + b.header
  BY <1>1 DEF NeededReport, ReportBytes, HeaderBytes
<1> QED BY <1>2, <1>3

LEMMA SizesType ==
  ASSUME BuilderTypeOK
  PROVE  maxpacketsize \in Nat /\ maxpacketsize >= 600
<1>1. maxpacketsize \in Nat /\ maxpacketsize >= MinPacketSize
  BY PacketBuilderAssumption DEF BuilderTypeOK
<1>2. MinPacketSize \in Nat /\ MinPacketSize >= 600
  BY RoomAssumption, BuilderAssumption
<1> QED BY <1>1, <1>2

LEMMA SourceBound ==
  ASSUME NEW items \in Seq(AnyItem)
  PROVE  /\ NeededSource(items) \in Nat /\ ItemBytes(items) \in Nat
         /\ NeededSource(items) <= ItemBytes(items) + 8
<1>1. PICK n \in Nat : n = ItemBytes(items)
  BY ItemBytesFacts
<1>2. RoundUp4(n + 1) \in Nat /\ RoundUp4(n + 1) <= (n + 1) + 3
  <2>1. PICK k \in Nat : k = n + 1
    OBVIOUS
  <2>2. RoundUp4(k) \in Nat /\ RoundUp4(k) <= k + 3
    BY RoundUp4Facts
  <2> QED BY <2>1, <2>2
<1>3. NeededSource(items) = RoundUp4(n + 1) + 4
  BY <1>1 DEF NeededSource, SSRCBytes
<1> HIDE DEF RoundUp4
<1> QED BY <1>1, <1>2, <1>3

LEMMA NoItemsBytes == <<>> \in Seq(AnyItem) /\ ItemBytes(<<>>) = 0
<1>1. [i \in DOMAIN <<>> |-> SDESHeaderBytes + <<>>[i].len] = <<>>
  OBVIOUS
<1> QED BY <1>1, SumOfEmpty DEF ItemBytes

\* One item appended.
LEMMA AppendedItem ==
  ASSUME NEW items \in Seq(AnyItem), NEW item \in AnyItem
  PROVE  /\ Append(items, item) \in Seq(AnyItem)
         /\ ItemBytes(Append(items, item)) = ItemBytes(items) + 2 + item.len
<1> DEFINE more == Append(items, item)
<1>1. /\ more \in Seq(AnyItem) /\ Len(more) = Len(items) + 1 /\ more[Len(more)] = item
      /\ \A i \in 1..Len(items) : more[i] = items[i]
  OBVIOUS
<1> HIDE DEF more
<1>2. ItemBytes(more) = ItemBytes(items) + 2 + more[Len(more)].len
  BY <1>1, OneItemMore
<1> QED BY <1>1, <1>2 DEF more

LEMMA StartedFacts ==
  ASSUME BuilderTypeOK, NEW sr \in BOOLEAN
  PROVE  /\ WellBuilt(Started(sr)) /\ OwnItems(Started(sr)) = <<>>
         /\ Started(sr).max = maxpacketsize /\ Started(sr).sr = sr
         /\ Started(sr).blocks = <<>> /\ Started(sr).byes = <<>> /\ Started(sr).apps = <<>>
         /\ StartsReport(InitBuild(maxpacketsize), sr)
         /\ AddsSDESSource(WithReport(InitBuild(maxpacketsize), sr, Own))
<1> DEFINE a == InitBuild(maxpacketsize)
           b == WithReport(a, sr, Own)
           c == Started(sr)
<1>0. maxpacketsize \in Nat /\ maxpacketsize >= 600
  BY SizesType
<1>1. /\ a \in Builders /\ a.max = maxpacketsize /\ a.header = 0 /\ a.blocks = <<>>
      /\ a.sources = <<>> /\ a.byes = <<>> /\ a.apps = <<>>
  BY <1>0, InitBuildFacts
<1> HIDE DEF a
<1>2. /\ b \in Builders /\ b.sr = sr /\ b.header = ReportHeader(sr) /\ b.max = maxpacketsize
      /\ b.blocks = <<>> /\ b.sources = <<>> /\ b.byes = <<>> /\ b.apps = <<>>
  BY <1>1, WithReportFacts
<1> HIDE DEF b
<1>3. /\ c \in Builders /\ c.sr = sr /\ c.header = ReportHeader(sr) /\ c.max = maxpacketsize
      /\ c.blocks = <<>> /\ c.sources = <<[ssrc |-> Own, items |-> <<>>]>>
      /\ c.byes = <<>> /\ c.apps = <<>>
  <2>1. c = WithSDESSource(b, Own)
    BY DEF Started, a, b
  <2> HIDE DEF c
  <2> QED BY <1>2, <2>1, WithSDESSourceFacts
<1>4. NeededBytes(a) - NeededReport(a) = 0 /\ NeededSDES(b) = 0 /\ NeededReport(b) \in 8..28
      /\ NeededBytes(b) = NeededReport(b)
  <2>1. \A x : x.sources = <<>> => NeededSDES(x) = 0
    <3> SUFFICES ASSUME NEW x, x.sources = <<>> PROVE NeededSDES(x) = 0
      OBVIOUS
    <3>1. [i \in DOMAIN x.sources |-> NeededSource(x.sources[i].items)] = <<>>
      OBVIOUS
    <3>2. SDESHeaders(Len(x.sources)) = 0
      <4>1. PICK m \in Nat \ {0} : m = MaxCount
        BY FormatAssumption
      <4>2. (0 + m - 1) \div m = 0
        BY ONLY m \in Nat \ {0}
      <4> QED BY <4>1, <4>2 DEF SDESHeaders, CeilDiv, HeaderBytes
    <3> QED BY <3>1, <3>2, SumOfEmpty DEF NeededSDES
  <2>2. NeededReport(a) = 0
    <3>1. Len(a.blocks) = 0
      BY <1>1
    <3> QED BY <1>1, <3>1 DEF NeededReport, ReportBytes
  <2>3. NeededReport(b) \in 8..28
    BY <1>2, ReportWithoutBlocks
  <2>4. ByeBytes(a) = 0 /\ AppBytes(a) = 0 /\ ByeBytes(b) = 0 /\ AppBytes(b) = 0
    BY <1>1, <1>2, EmptyParts
  <2> QED BY <1>1, <1>2, <2>1, <2>2, <2>3, <2>4 DEF NeededBytes
<1>5. ReportHeader(sr) \in 4..24
  BY DEF ReportHeader, SSRCBytes, SenderInfoBytes
<1>6. StartsReport(a, sr)
  BY <1>0, <1>1, <1>4, <1>5, SMTT(30) DEF StartsReport, EnoughLeft, HeaderBytes
<1>7. AddsSDESSource(b)
  BY <1>0, <1>2, <1>4, SMTT(30) DEF AddsSDESSource, NeededBytesWithExtraSource
<1>8. WellBuilt(c) /\ OwnItems(c) = <<>>
  <2>1. Len(c.sources) = 1 /\ c.sources[1].items = <<>>
    BY <1>3
  <2> QED BY <1>3, <2>1 DEF WellBuilt, OwnItems
<1> QED BY <1>3, <1>6, <1>7, <1>8 DEF a, b

\* Every packet of a legal size has room for the report and the own CNAME.
LEMMA BegunFacts ==
  ASSUME BuilderTypeOK, NEW sr \in BOOLEAN
  PROVE  /\ HasRoomToBegin(sr)
         /\ WellBuilt(Begun(sr)) /\ Begun(sr).max = maxpacketsize /\ Begun(sr).sr = sr
         /\ Begun(sr).blocks = <<>> /\ Begun(sr).byes = <<>> /\ Begun(sr).apps = <<>>
         /\ NeededReport(Begun(sr)) \in 8..28
         /\ ByeBytes(Begun(sr)) = 0 /\ AppBytes(Begun(sr)) = 0
         /\ ItemBytes(OwnItems(Begun(sr))) \in 0..257
         /\ NeededBytes(Begun(sr)) \in 0..297
<1> DEFINE c == Started(sr)
           item == [id |-> ItemId["CNAME"], len |-> CnameBytes]
           d == Begun(sr)
<1>0. maxpacketsize \in Nat /\ maxpacketsize >= 600
  BY SizesType
<1>1. /\ WellBuilt(c) /\ OwnItems(c) = <<>> /\ c.max = maxpacketsize /\ c.sr = sr
      /\ c.blocks = <<>> /\ c.byes = <<>> /\ c.apps = <<>>
      /\ StartsReport(InitBuild(maxpacketsize), sr)
      /\ AddsSDESSource(WithReport(InitBuild(maxpacketsize), sr, Own))
  BY StartedFacts
<1>2. item \in AnyItem /\ [id |-> 0, len |-> CnameBytes] \in AnyItem
  <2>1. ItemId["CNAME"] \in Int /\ CnameBytes \in 0..255
    <3>1. ItemId["CNAME"] \in 1..255
      BY PacketBuilderAssumption, BuilderAssumption
    <3>2. \A x \in 1..255 : x \in Int
      OBVIOUS
    <3>3. CnameBytes \in 0..255
      BY PacketBuilderAssumption
    <3> QED BY <3>1, <3>2, <3>3
  <2> QED BY <2>1 DEF AnyItem
<1>3. d = WithItem(c, item)
  BY DEF Begun, WithSDESNormalItem
<1> HIDE DEF c, d
<1>4. \A x \in AnyItem : x.len = CnameBytes =>
        LET e == WithItem(c, x)
        IN  /\ WellBuilt(e) /\ e.max = maxpacketsize /\ e.sr = sr
            /\ e.blocks = <<>> /\ e.byes = <<>> /\ e.apps = <<>>
            /\ ItemBytes(OwnItems(e)) = 2 + CnameBytes
  <2> SUFFICES ASSUME NEW x \in AnyItem, x.len = CnameBytes
               PROVE  LET e == WithItem(c, x)
                      IN  /\ WellBuilt(e) /\ e.max = maxpacketsize /\ e.sr = sr
                          /\ e.blocks = <<>> /\ e.byes = <<>> /\ e.apps = <<>>
                          /\ ItemBytes(OwnItems(e)) = 2 + CnameBytes
    OBVIOUS
  <2>1. Append(<<>>, x) \in Seq(AnyItem) /\ ItemBytes(Append(<<>>, x)) = 0 + 2 + x.len
    BY NoItemsBytes, AppendedItem
  <2>2. WithItem(c, x) = Replaced(c, Append(<<>>, x))
    BY <1>1, WithItemFacts
  <2>3. 0 + 2 + x.len = 2 + CnameBytes
    BY PacketBuilderAssumption
  <2> DEFINE l == Append(<<>>, x)
  <2> HIDE DEF l
  <2> QED BY <1>1, <2>1, <2>2, <2>3, ReplacedFacts DEF l
<1>5. \A e : WellBuilt(e) /\ e.max = maxpacketsize /\ e.blocks = <<>> /\ e.byes = <<>>
             /\ e.apps = <<>> /\ ItemBytes(OwnItems(e)) = 2 + CnameBytes =>
        /\ NeededReport(e) \in 8..28 /\ ByeBytes(e) = 0 /\ AppBytes(e) = 0
        /\ NeededSDES(e) \in 0..269 /\ NeededBytes(e) \in 0..297
  <2> SUFFICES ASSUME NEW e, WellBuilt(e), e.blocks = <<>>, e.byes = <<>>, e.apps = <<>>,
                      ItemBytes(OwnItems(e)) = 2 + CnameBytes
               PROVE  /\ NeededReport(e) \in 8..28 /\ ByeBytes(e) = 0 /\ AppBytes(e) = 0
                      /\ NeededSDES(e) \in 0..269 /\ NeededBytes(e) \in 0..297
    OBVIOUS
  <2>1. NeededReport(e) \in 8..28
    <3>1. e.sr \in BOOLEAN /\ e.header = ReportHeader(e.sr)
      BY DEF WellBuilt, Builders
    <3> QED BY <3>1, ReportWithoutBlocks
  <2>2. ByeBytes(e) = 0 /\ AppBytes(e) = 0
    BY EmptyParts
  <2>3. NeededSDES(e) = NeededSource(OwnItems(e)) + 4 /\ OwnItems(e) \in Seq(AnyItem)
    BY NeededIs
  <2>4. NeededSource(OwnItems(e)) \in Nat /\ NeededSource(OwnItems(e)) <= ItemBytes(OwnItems(e)) + 8
    BY <2>3, SourceBound
  <2>5. NeededSDES(e) \in 0..269
    <3>1. PICK n \in 0..255 : n = CnameBytes
      BY PacketBuilderAssumption
    <3>2. PICK l \in Nat : l = NeededSource(OwnItems(e)) /\ l <= 2 + n + 8
      BY <2>4, <3>1
    <3>3. l + 4 \in 0..269
      BY ONLY <3>2, n \in 0..255
    <3> QED BY <2>3, <3>2, <3>3
  <2>6. \A x \in 8..28, y \in 0..269 : x + y + 0 + 0 \in 0..297
    OBVIOUS
  <2> QED BY <2>1, <2>2, <2>5, <2>6 DEF NeededBytes
<1>6. AddsSDESNormalItem(c, CnameBytes)
  <2> DEFINE e == WithItem(c, [id |-> 0, len |-> CnameBytes])
  <2>1. NeededSDES(e) \in 0..269
    BY <1>2, <1>4, <1>5
  <2>2. NeededBytes(c) - NeededSDES(c) = NeededReport(c) + ByeBytes(c) + AppBytes(c)
    BY <1>1, NeededParts
  <2>3. NeededReport(c) \in 8..28 /\ ByeBytes(c) = 0 /\ AppBytes(c) = 0
    <3>1. c.sr \in BOOLEAN /\ c.header = ReportHeader(c.sr)
      BY <1>1 DEF WellBuilt, Builders
    <3> QED BY <1>1, <3>1, ReportWithoutBlocks, EmptyParts, SMTT(30)
  <2>4. c.sources # <<>>
    <3>1. Len(c.sources) = 1 /\ Len(<<>>) = 0
      BY <1>1 DEF WellBuilt
    <3> QED BY <3>1
  <2>5. NeededBytesWithExtraItem(c, CnameBytes) = NeededSDES(e)
    BY DEF NeededBytesWithExtraItem
  <2> HIDE DEF e
  <2>6. NeededBytes(c) - NeededSDES(c) + NeededSDES(e) <= maxpacketsize
    BY <1>0, <2>1, <2>2, <2>3
  <2> QED BY <1>1, <2>4, <2>5, <2>6 DEF AddsSDESNormalItem
<1>7. HasRoomToBegin(sr)
  BY <1>1, <1>6 DEF HasRoomToBegin, c
<1>8. /\ WellBuilt(d) /\ d.max = maxpacketsize /\ d.sr = sr
      /\ d.blocks = <<>> /\ d.byes = <<>> /\ d.apps = <<>>
      /\ ItemBytes(OwnItems(d)) = 2 + CnameBytes
  BY <1>2, <1>3, <1>4
<1>9. 2 + CnameBytes \in 0..257
  BY PacketBuilderAssumption
<1> QED BY <1>5, <1>7, <1>8, <1>9 DEF d

-----------------------------------------------------------------------------
(* What is filled in fits.                                                 *)

Fitting(b) == WellBuilt(b) /\ NeededBytes(b) <= b.max

LEMMA SamePartsSameBytes ==
  ASSUME NEW x, NEW y, x.sr = y.sr, x.header = y.header, x.byes = y.byes, x.apps = y.apps
  PROVE  /\ ByeBytes(x) = ByeBytes(y) /\ AppBytes(x) = AppBytes(y)
         /\ \A n : ReportBytes(x, n) = ReportBytes(y, n)
<1>1. ByeBytes(x) = ByeBytes(y)
  BY DEF ByeBytes
<1>2. AppBytes(x) = AppBytes(y)
  BY DEF AppBytes
<1>3. \A n : ReportBytes(x, n) = ReportBytes(y, n)
  BY DEF ReportBytes
<1> QED BY <1>1, <1>2, <1>3

\* The first n elements.
LEMMA FirstElements ==
  ASSUME NEW S, NEW s \in Seq(S), NEW n \in 0..Len(s)
  PROVE  /\ SubSeq(s, 1, n) \in Seq(S) /\ Len(SubSeq(s, 1, n)) = n
         /\ \A i \in 1..n : SubSeq(s, 1, n)[i] = s[i]
<1>1. PICK l \in Nat : l = Len(s)
  OBVIOUS
<1>2. n \in Nat /\ n <= l
  BY <1>1
<1> QED BY <1>1, <1>2

\* b with the first blocks of a list.
LEMMA SomeBlocks ==
  ASSUME NEW b, WellBuilt(b), NEW open \in Seq(Sources), NEW n \in 0..Len(open)
  PROVE  LET x == WithBlocks(b, SubSeq(open, 1, n))
         IN  /\ WellBuilt(x) /\ x.max = b.max /\ x.header = b.header
             /\ Len(x.blocks) = Len(b.blocks) + n /\ Len(b.blocks) \in Nat
             /\ NeededReport(x) = ReportBytes(b, Len(b.blocks) + n)
             /\ NeededBytesWithExtraReportBlock(x) = ReportBytes(b, Len(b.blocks) + n + 1)
             /\ NeededBytes(x) - NeededReport(x) = NeededBytes(b) - NeededReport(b)
             /\ NeededReport(x) \in Nat /\ NeededBytes(x) \in Nat
             /\ NeededBytes(b) - NeededReport(b) \in Nat
<1> DEFINE s == SubSeq(open, 1, n)
           x == WithBlocks(b, s)
<1>1. s \in Seq(Sources) /\ Len(s) = n /\ n \in Nat
  <2>1. Len(open) \in Nat
    OBVIOUS
  <2> QED BY <2>1, FirstElements
<1> HIDE DEF s
<1>2. /\ WellBuilt(x) /\ OwnItems(x) = OwnItems(b) /\ x.max = b.max /\ x.sr = b.sr
      /\ x.header = b.header /\ x.blocks = b.blocks \o s /\ x.byes = b.byes /\ x.apps = b.apps
  BY <1>1, WithBlocksFacts
<1> HIDE DEF x
<1>3. b.blocks \in Seq(Sources)
  BY DEF WellBuilt, Builders
<1>4. PICK l \in Nat : l = Len(b.blocks) /\ Len(x.blocks) = l + n
  <2>1. PICK t : t = b.blocks /\ t \in Seq(Sources)
    BY <1>3
  <2>2. Len(t \o s) = Len(t) + Len(s) /\ Len(t) \in Nat
    BY <1>1, <2>1, SMTT(30)
  <2> QED BY <1>1, <1>2, <2>1, <2>2
<1>5. /\ ByeBytes(x) = ByeBytes(b) /\ AppBytes(x) = AppBytes(b)
      /\ \A m : ReportBytes(x, m) = ReportBytes(b, m)
  BY <1>2, SamePartsSameBytes
<1>6. NeededReport(x) = ReportBytes(b, l + n)
      /\ NeededBytesWithExtraReportBlock(x) = ReportBytes(b, l + n + 1)
  BY <1>4, <1>5 DEF NeededReport, NeededBytesWithExtraReportBlock
<1>7. /\ NeededReport(x) \in Nat /\ ByeBytes(x) \in Nat /\ AppBytes(x) \in Nat
      /\ NeededSource(OwnItems(x)) \in Nat
      /\ NeededBytes(x) = NeededReport(x) + (NeededSource(OwnItems(x)) + 4)
                          + ByeBytes(x) + AppBytes(x)
      /\ NeededBytes(x) - NeededReport(x) =
           (NeededSource(OwnItems(x)) + 4) + ByeBytes(x) + AppBytes(x)
  BY <1>2, NeededParts
<1>8. NeededBytes(b) - NeededReport(b) =
        (NeededSource(OwnItems(b)) + 4) + ByeBytes(b) + AppBytes(b)
  BY NeededParts
<1>9. NeededBytes(x) - NeededReport(x) = NeededBytes(b) - NeededReport(b)
      /\ NeededBytes(x) \in Nat /\ NeededBytes(b) - NeededReport(b) \in Nat
  BY <1>2, <1>5, <1>7, <1>8
<1> QED BY <1>2, <1>4, <1>6, <1>7, <1>9 DEF x, s

\* The report blocks fit, and the first one is taken if there is room for it.
LEMMA BlocksFit ==
  ASSUME BuilderTypeOK, NEW b, Fitting(b), NEW marks, NEW maxcount \in Nat
  PROVE  LET f == FillInReportBlocks(b, marks, maxcount)
         IN  /\ Fitting(f.b) /\ f.b.max = b.max
             /\ f.full /\ AddsReportBlock(WithBlocks(b, <<>>)) => f.added # {}
<1> DEFINE places == {i \in DOMAIN table : Eligible(table[i]) /\ table[i] \notin marks}
           open == Picked(table, places)
           max == Smallest(Len(open), maxcount)
           taken == {m \in 1..max : AddsReportBlock(WithBlocks(b, SubSeq(open, 1, m - 1)))}
           n == ReportBlocksTaken(b, open, maxcount)
           x(m) == WithBlocks(b, SubSeq(open, 1, m))
<1>1. open \in Seq(Sources)
  <2>1. table \in Seq(Sources) /\ places \in SUBSET DOMAIN table
    BY DEF BuilderTypeOK
  <2> HIDE DEF places
  <2> QED BY <2>1, PickedFacts
<1>2. LET f == FillInReportBlocks(b, marks, maxcount)
      IN  /\ f.b = x(n) /\ f.added = {open[i] : i \in 1..n} /\ f.full = (n < max)
  BY DEF FillInReportBlocks, ReportBlocks
<1> HIDE DEF open
<1>3. /\ n \in 0..max /\ 1..n \subseteq taken /\ (n < max => n + 1 \notin taken)
      /\ max \in Nat /\ max <= Len(open) /\ Len(open) \in Nat
  <2>1. Len(open) \in Nat
    BY <1>1
  <2>2. max \in Nat /\ max <= Len(open)
    BY <2>1 DEF Smallest
  <2>3. n = TakenFirst(max, taken)
    BY DEF ReportBlocksTaken
  <2> HIDE DEF n, taken, max
  <2> QED BY <2>1, <2>2, <2>3, TakenFirstFacts
<1> HIDE DEF n, max, taken
<1>4. n \in Nat /\ n <= max /\ n \in 0..Len(open)
  BY <1>3
<1>5. WellBuilt(b) /\ NeededBytes(b) <= b.max
  BY DEF Fitting
<1>6. /\ WellBuilt(x(n)) /\ x(n).max = b.max /\ NeededBytes(x(n)) \in Nat
      /\ NeededReport(x(n)) = ReportBytes(b, Len(b.blocks) + n) /\ NeededReport(x(n)) \in Nat
      /\ NeededBytes(x(n)) - NeededReport(x(n)) = NeededBytes(b) - NeededReport(b)
      /\ NeededBytes(b) - NeededReport(b) \in Nat
      /\ Len(b.blocks) \in Nat
  BY <1>1, <1>4, <1>5, SomeBlocks
<1>7. NeededBytes(x(n)) <= b.max
  <2>1. CASE n = 0
    <3>1. NeededReport(x(n)) = NeededReport(b)
      BY <1>6, <2>1 DEF NeededReport
    <3>2. NeededBytes(x(n)) = NeededBytes(b)
      <4>1. NeededBytes(b) \in Nat /\ NeededReport(b) \in Nat
        <5>1. /\ NeededReport(b) \in Nat /\ ByeBytes(b) \in Nat /\ AppBytes(b) \in Nat
              /\ NeededBytes(b) = NeededReport(b) + (NeededSource(OwnItems(b)) + 4)
                                  + ByeBytes(b) + AppBytes(b)
              /\ NeededSource(OwnItems(b)) \in Nat
          BY <1>5, NeededParts
        <5> QED BY <5>1
      <4> HIDE DEF x
      <4> QED BY <1>6, <3>1, <4>1
    <3> QED BY <1>5, <3>2
  <2>2. CASE n # 0
    <3>1. n \in 1..n /\ n - 1 \in 0..Len(open) /\ n - 1 \in Nat
      BY <1>3, <1>4, <2>2
    <3>2. AddsReportBlock(x(n - 1))
      BY <1>3, <3>1 DEF taken
    <3>3. /\ x(n - 1).max = b.max
          /\ NeededBytesWithExtraReportBlock(x(n - 1)) = ReportBytes(b, Len(b.blocks) + (n - 1) + 1)
          /\ NeededBytes(x(n - 1)) - NeededReport(x(n - 1)) = NeededBytes(b) - NeededReport(b)
      BY <1>1, <1>5, <3>1, SomeBlocks
    <3>4. Len(b.blocks) + (n - 1) + 1 = Len(b.blocks) + n
      BY <1>4, <1>6
    <3> HIDE DEF x
    <3>5. NeededBytes(b) - NeededReport(b) + NeededReport(x(n)) <= b.max
      BY <1>6, <3>2, <3>3, <3>4 DEF AddsReportBlock
    <3> QED BY <1>6, <3>5
  <2> QED BY <2>1, <2>2
<1>8. n < max /\ AddsReportBlock(WithBlocks(b, <<>>)) => {open[i] : i \in 1..n} # {}
  <2> SUFFICES ASSUME n < max, AddsReportBlock(WithBlocks(b, <<>>)), n = 0 PROVE FALSE
    <3>1. n # 0 => open[1] \in {open[i] : i \in 1..n}
      BY <1>4
    <3> QED BY <3>1
  <2>1. SubSeq(open, 1, 0) = <<>>
    <3>1. SubSeq(open, 1, 0) \in Seq(Sources) /\ Len(SubSeq(open, 1, 0)) = 0
      <4>1. 0 \in 0..Len(open)
        BY <1>3
      <4> QED BY <1>1, <4>1, FirstElements
    <3> QED BY <3>1, EmptySeq
  <2>2. 1 \in 1..max /\ 1 - 1 = 0 /\ 0 + 1 = 1
    BY <1>3
  <2>3. 1 \in taken
    BY <2>1, <2>2 DEF taken
  <2> QED BY <1>3, <2>2, <2>3
<1> QED BY <1>2, <1>6, <1>7, <1>8 DEF Fitting

LEMMA ItemsWithType ==
  ASSUME BuilderTypeOK, NEW s \in Seq(ItemNames)
  PROVE  /\ ItemsWith(s) \in Seq(AnyItem) /\ Len(ItemsWith(s)) = Len(s)
         /\ \A i \in 1..Len(s) : ItemsWith(s)[i].len = lens[s[i]]
         /\ \A i \in ItemNames : lens[i] \in 0..255
<1>1. \A i \in ItemNames : ItemId[i] \in Int
  <2>1. \A i \in DOMAIN ItemId : ItemId[i] \in 1..255
    BY BuilderAssumption
  <2>2. \A x \in 1..255 : x \in Int
    OBVIOUS
  <2> QED BY <2>1, <2>2, ItemNamesFacts
<1>2. \A i \in ItemNames : lens[i] \in 0..255
  <2>1. \A i \in ItemNames : lens[i] \in ItemLengths \cup {0}
    BY DEF BuilderTypeOK
  <2>2. ItemLengths \cup {0} \subseteq 0..255
    BY PacketBuilderAssumption
  <2> QED BY <2>1, <2>2
<1>3. \A i \in 1..Len(s) : s[i] \in ItemNames
  BY ONLY s \in Seq(ItemNames)
<1>4. \A i \in 1..Len(s) : [id |-> ItemId[s[i]], len |-> lens[s[i]]] \in AnyItem
  BY <1>1, <1>2, <1>3 DEF AnyItem
<1>5. Len(s) \in Nat /\ DOMAIN s = 1..Len(s)
  BY ONLY s \in Seq(ItemNames)
<1>6. ItemsWith(s) = [i \in 1..Len(s) |-> [id |-> ItemId[s[i]], len |-> lens[s[i]]]]
  BY <1>5 DEF ItemsWith
<1> QED BY <1>2, <1>4, <1>5, <1>6

\* b with the first items of a list.
LEMMA SomeItems ==
  ASSUME BuilderTypeOK, NEW b, WellBuilt(b), NEW open \in Seq(ItemNames), NEW n \in 0..Len(open)
  PROVE  LET x == WithItems(b, SubSeq(open, 1, n))
         IN  /\ WellBuilt(x) /\ x.max = b.max /\ OwnItems(x) \in Seq(AnyItem)
             /\ OwnItems(x) = OwnItems(b) \o ItemsWith(SubSeq(open, 1, n))
             /\ NeededBytes(x) - NeededSDES(x) = NeededBytes(b) - NeededSDES(b)
             /\ NeededBytes(x) = (NeededBytes(b) - NeededSDES(b)) + NeededSDES(x)
             /\ NeededBytes(b) - NeededSDES(b) \in Nat
<1> DEFINE s == SubSeq(open, 1, n)
           items == OwnItems(b) \o ItemsWith(s)
           x == WithItems(b, s)
<1>1. s \in Seq(ItemNames)
  BY FirstElements
<1>2. ItemsWith(s) \in Seq(AnyItem) /\ OwnItems(b) \in Seq(AnyItem)
  BY <1>1, ItemsWithType, NeededIs
<1>3. items \in Seq(AnyItem)
  BY <1>2
<1>4. x = Replaced(b, items)
  BY <1>1, WithItemsFacts
<1> HIDE DEF x, items
<1>5. /\ WellBuilt(x) /\ OwnItems(x) = items /\ x.max = b.max /\ x.sr = b.sr
      /\ x.header = b.header /\ x.blocks = b.blocks /\ x.byes = b.byes /\ x.apps = b.apps
  BY <1>3, <1>4, ReplacedFacts
<1>6. /\ ByeBytes(x) = ByeBytes(b) /\ AppBytes(x) = AppBytes(b)
      /\ \A m : ReportBytes(x, m) = ReportBytes(b, m)
  BY <1>5, SamePartsSameBytes
<1>7. NeededReport(x) = NeededReport(b)
  BY <1>5, <1>6 DEF NeededReport
<1>8. /\ NeededReport(b) \in Nat /\ ByeBytes(b) \in Nat /\ AppBytes(b) \in Nat
      /\ NeededBytes(b) - NeededSDES(b) = NeededReport(b) + ByeBytes(b) + AppBytes(b)
  BY NeededParts
<1>9. NeededBytes(x) - NeededSDES(x) = NeededReport(x) + ByeBytes(x) + AppBytes(x)
      /\ NeededBytes(x) = NeededReport(x) + (NeededSource(OwnItems(x)) + 4)
                          + ByeBytes(x) + AppBytes(x)
      /\ NeededSource(OwnItems(x)) \in Nat
  BY <1>5, NeededParts
<1>10. NeededSDES(x) = NeededSource(OwnItems(x)) + 4
  BY <1>5, NeededIs
<1>11. NeededBytes(x) = (NeededBytes(b) - NeededSDES(b)) + NeededSDES(x)
  BY <1>6, <1>7, <1>8, <1>9, <1>10
<1>12. NeededBytes(x) - NeededSDES(x) = NeededBytes(b) - NeededSDES(b)
  BY <1>6, <1>7, <1>8, <1>9
<1>13. NeededBytes(b) - NeededSDES(b) \in Nat
  BY <1>8
<1> QED BY <1>3, <1>5, <1>11, <1>12, <1>13 DEF x, items, s

\* The item that was asked for and the one that is added need the same.
LEMMA NextItem ==
  ASSUME BuilderTypeOK, NEW b, WellBuilt(b), NEW open \in Seq(ItemNames), NEW n \in 1..Len(open)
  PROVE  NeededBytesWithExtraItem(WithItems(b, SubSeq(open, 1, n - 1)), lens[open[n]]) =
           NeededSDES(WithItems(b, SubSeq(open, 1, n)))
<1> DEFINE s == SubSeq(open, 1, n - 1)
           t == SubSeq(open, 1, n)
           x == WithItems(b, s)
           y == WithItems(b, t)
           item == [id |-> 0, len |-> lens[open[n]]]
           z == WithItem(x, item)
<1>1. n - 1 \in 0..Len(open) /\ n \in 0..Len(open) /\ n \in Nat /\ n - 1 \in Nat
  <2>1. PICK l \in Nat : l = Len(open)
    OBVIOUS
  <2> QED BY <2>1
<1>2. /\ s \in Seq(ItemNames) /\ Len(s) = n - 1 /\ \A i \in 1..n - 1 : s[i] = open[i]
      /\ t \in Seq(ItemNames) /\ Len(t) = n /\ \A i \in 1..n : t[i] = open[i]
  BY <1>1, FirstElements
<1>3. open[n] \in ItemNames
  <2>1. \A i \in 1..Len(open) : open[i] \in ItemNames
    BY ONLY open \in Seq(ItemNames)
  <2> QED BY <2>1
<1>4. item \in AnyItem
  BY <1>2, <1>3, ItemsWithType DEF AnyItem
<1>5. /\ WellBuilt(x) /\ OwnItems(x) \in Seq(AnyItem)
      /\ OwnItems(x) = OwnItems(b) \o ItemsWith(s)
  BY <1>1, SomeItems
<1>6. /\ WellBuilt(y) /\ OwnItems(y) \in Seq(AnyItem)
      /\ OwnItems(y) = OwnItems(b) \o ItemsWith(t)
  BY <1>1, SomeItems
<1>7. /\ ItemsWith(s) \in Seq(AnyItem) /\ Len(ItemsWith(s)) = n - 1
      /\ \A i \in 1..n - 1 : ItemsWith(s)[i].len = lens[s[i]]
      /\ ItemsWith(t) \in Seq(AnyItem) /\ Len(ItemsWith(t)) = n
      /\ \A i \in 1..n : ItemsWith(t)[i].len = lens[t[i]]
  BY <1>2, ItemsWithType
<1>8. OwnItems(b) \in Seq(AnyItem)
  BY NeededIs
<1> HIDE DEF s, t, x, y, item
<1>9. PICK l \in Nat : /\ l = Len(OwnItems(b))
                       /\ Len(OwnItems(x)) = l + (n - 1) /\ Len(OwnItems(y)) = l + n
  <2>1. \A u, v \in Seq(AnyItem) : Len(u \o v) = Len(u) + Len(v) /\ Len(u) \in Nat
    BY ONLY TRUE
  <2>2. Len(OwnItems(x)) = Len(OwnItems(b)) + Len(ItemsWith(s))
    BY <1>5, <1>7, <1>8, <2>1
  <2>3. Len(OwnItems(y)) = Len(OwnItems(b)) + Len(ItemsWith(t))
    BY <1>6, <1>7, <1>8, <2>1
  <2> QED BY <1>7, <1>8, <2>1, <2>2, <2>3
<1>10. \A i \in 1..l + (n - 1) : OwnItems(y)[i].len = OwnItems(x)[i].len
  <2> SUFFICES ASSUME NEW i \in 1..l + (n - 1) PROVE OwnItems(y)[i].len = OwnItems(x)[i].len
    OBVIOUS
  <2>1. CASE i <= l
    <3>1. OwnItems(x)[i] = OwnItems(b)[i] /\ OwnItems(y)[i] = OwnItems(b)[i]
      BY <1>1, <1>5, <1>6, <1>7, <1>8, <1>9, <2>1
    <3> QED BY <3>1
  <2>2. CASE ~ (i <= l)
    <3>1. i - l \in 1..n - 1 /\ i - l \in 1..n
      BY <1>1, <2>2
    <3>2. OwnItems(x)[i] = ItemsWith(s)[i - l] /\ OwnItems(y)[i] = ItemsWith(t)[i - l]
      BY <1>1, <1>5, <1>6, <1>7, <1>8, <1>9, <2>2
    <3>3. s[i - l] = t[i - l]
      BY <1>2, <3>1
    <3> QED BY <1>7, <3>1, <3>2, <3>3
  <2> QED BY <2>1, <2>2
<1>11. OwnItems(y)[l + n].len = lens[open[n]]
  <2>1. OwnItems(y)[l + n] = ItemsWith(t)[n]
    <3>1. l + n \in 1..l + n /\ ~ (l + n <= l) /\ (l + n) - l = n
      BY <1>1
    <3> QED BY <1>1, <1>6, <1>7, <1>8, <1>9, <3>1
  <2>2. n \in 1..n
    BY <1>1
  <2> QED BY <1>2, <1>7, <2>1, <2>2
<1>12. ItemBytes(OwnItems(y)) = ItemBytes(OwnItems(x)) + 2 + lens[open[n]]
  <2>1. Len(OwnItems(y)) = Len(OwnItems(x)) + 1
    BY <1>1, <1>9
  <2> QED BY <1>5, <1>6, <1>9, <1>10, <1>11, <2>1, OneItemMore
<1>13. WellBuilt(z) /\ OwnItems(z) = Append(OwnItems(x), item)
  <2>1. Append(OwnItems(x), item) \in Seq(AnyItem)
    BY <1>4, <1>5
  <2> HIDE DEF z
  <2>2. z = Replaced(x, Append(OwnItems(x), item))
    BY <1>4, <1>5, WithItemFacts DEF z
  <2> QED BY <1>5, <2>1, <2>2, ReplacedFacts
<1>14. ItemBytes(OwnItems(z)) = ItemBytes(OwnItems(x)) + 2 + lens[open[n]]
  <2>1. item.len = lens[open[n]]
    BY DEF item
  <2>2. ItemBytes(Append(OwnItems(x), item)) = ItemBytes(OwnItems(x)) + 2 + item.len
    BY <1>4, <1>5, AppendedItem
  <2> HIDE DEF z
  <2> QED BY <1>13, <2>1, <2>2
<1> HIDE DEF z
<1>15. NeededSource(OwnItems(z)) = NeededSource(OwnItems(y))
  BY <1>12, <1>14 DEF NeededSource
<1>16. NeededSDES(z) = NeededSDES(y)
  BY <1>6, <1>13, <1>15, NeededIs
<1> QED BY <1>16 DEF NeededBytesWithExtraItem, x, y, z, s, t, item

\* The items fit, and the first one is added if there is room for each.
LEMMA ItemsFit ==
  ASSUME BuilderTypeOK, NEW b, Fitting(b),
         NEW due \in SUBSET ItemNames, NEW done \in SUBSET ItemNames
  PROVE  LET s == FillInSDES(b, due, done)
         IN  /\ Fitting(s.b) /\ s.b.max = b.max
             /\ /\ due \ done # {}
                /\ \A i \in ItemNames : AddsSDESNormalItem(WithItems(b, <<>>), lens[i])
                => s.added # {}
<1> DEFINE places == {k \in DOMAIN ItemOrder : ItemOrder[k] \in due \ done}
           open == Picked(ItemOrder, places)
           taken == {m \in 1..Len(open) :
                       AddsSDESNormalItem(WithItems(b, SubSeq(open, 1, m - 1)), lens[open[m]])}
           n == ItemsTaken(b, open)
           x(m) == WithItems(b, SubSeq(open, 1, m))
<1>1. /\ open \in Seq(ItemNames)
      /\ \A i \in places : \E k \in DOMAIN open : open[k] = ItemOrder[i]
  <2>1. ItemOrder \in Seq(ItemNames) /\ places \in SUBSET DOMAIN ItemOrder
    BY ItemNamesFacts
  <2> HIDE DEF places
  <2> QED BY <2>1, PickedFacts
<1>2. LET s == FillInSDES(b, due, done)
      IN  s.b = x(n) /\ s.added = {open[i] : i \in 1..n}
  BY DEF FillInSDES, ItemsOf
<1>3. due \ done # {} => open # <<>>
  <2> SUFFICES ASSUME NEW i \in due \ done, open = <<>> PROVE FALSE
    OBVIOUS
  <2>1. PICK k \in DOMAIN ItemOrder : ItemOrder[k] = i
    BY ItemNamesFacts
  <2>2. k \in places
    BY <2>1
  <2> HIDE DEF open, places
  <2>3. PICK j \in DOMAIN open : TRUE
    BY <1>1, <2>2
  <2>4. DOMAIN open = {}
    OBVIOUS
  <2> QED BY <2>3, <2>4
<1> HIDE DEF open
<1>4. /\ n \in 0..Len(open) /\ 1..n \subseteq taken /\ (n < Len(open) => n + 1 \notin taken)
      /\ Len(open) \in Nat
  <2>1. Len(open) \in Nat
    BY <1>1
  <2>2. n = TakenFirst(Len(open), taken)
    BY DEF ItemsTaken
  <2> HIDE DEF n, taken
  <2> QED BY <2>1, <2>2, TakenFirstFacts
<1> HIDE DEF n, taken
<1>5. n \in Nat
  BY <1>4
<1>6. WellBuilt(b) /\ NeededBytes(b) <= b.max
  BY DEF Fitting
<1>7. /\ WellBuilt(x(n)) /\ x(n).max = b.max
      /\ NeededBytes(x(n)) = (NeededBytes(b) - NeededSDES(b)) + NeededSDES(x(n))
  BY <1>1, <1>4, <1>6, SomeItems
<1>8. NeededBytes(x(n)) <= b.max
  <2>1. CASE n = 0
    <3>1. SubSeq(open, 1, n) = <<>>
      <4>1. SubSeq(open, 1, n) \in Seq(ItemNames) /\ Len(SubSeq(open, 1, n)) = 0
        BY <1>1, <1>4, <2>1, FirstElements
      <4> QED BY <4>1, EmptySeq
    <3>2. ItemsWith(<<>>) = <<>>
      BY DEF ItemsWith
    <3>3. OwnItems(b) \in Seq(AnyItem) /\ NeededSDES(b) = NeededSource(OwnItems(b)) + 4
          /\ NeededSource(OwnItems(b)) \in Nat
      BY <1>6, NeededIs
    <3>4. OwnItems(x(n)) = OwnItems(b) \o <<>>
      <4>1. OwnItems(x(n)) = OwnItems(b) \o ItemsWith(SubSeq(open, 1, n))
        BY <1>1, <1>4, <1>6, SomeItems
      <4> HIDE DEF x
      <4> QED BY <3>1, <3>2, <4>1
    <3>5. OwnItems(x(n)) = OwnItems(b)
      <4> HIDE DEF x
      <4> QED BY <3>3, <3>4
    <3>6. NeededSDES(x(n)) = NeededSDES(b)
      <4> HIDE DEF x
      <4>1. NeededSDES(x(n)) = NeededSource(OwnItems(x(n))) + 4
        BY <1>7, NeededIs
      <4> QED BY <3>3, <3>5, <4>1
    <3>7. NeededBytes(b) - NeededSDES(b) \in Nat /\ NeededBytes(b) \in Nat
      <4>1. /\ NeededReport(b) \in Nat /\ ByeBytes(b) \in Nat /\ AppBytes(b) \in Nat
            /\ NeededBytes(b) = NeededReport(b) + (NeededSource(OwnItems(b)) + 4)
                                + ByeBytes(b) + AppBytes(b)
            /\ NeededBytes(b) - NeededSDES(b) = NeededReport(b) + ByeBytes(b) + AppBytes(b)
        BY <1>6, NeededParts
      <4> QED BY <3>3, <4>1
    <3>8. (NeededBytes(b) - NeededSDES(b)) + NeededSDES(b) = NeededBytes(b)
      BY <3>3, <3>7
    <3> HIDE DEF x
    <3> QED BY <1>6, <1>7, <3>6, <3>8
  <2>2. CASE n # 0
    <3>1. n \in 1..n /\ n \in 1..Len(open) /\ n - 1 \in 0..Len(open)
      BY <1>4, <1>5, <2>2
    <3>2. AddsSDESNormalItem(x(n - 1), lens[open[n]])
      BY <1>4, <3>1 DEF taken
    <3>3. /\ x(n - 1).max = b.max
          /\ NeededBytes(x(n - 1)) - NeededSDES(x(n - 1)) = NeededBytes(b) - NeededSDES(b)
      BY <1>1, <1>6, <3>1, SomeItems
    <3>4. NeededBytesWithExtraItem(x(n - 1), lens[open[n]]) = NeededSDES(x(n))
      BY <1>1, <1>6, <3>1, NextItem
    <3> HIDE DEF x
    <3>5. (NeededBytes(b) - NeededSDES(b)) + NeededSDES(x(n)) <= b.max
      BY <3>2, <3>3, <3>4 DEF AddsSDESNormalItem
    <3> QED BY <1>7, <3>5
  <2> QED BY <2>1, <2>2
<1>9. /\ due \ done # {}
      /\ \A i \in ItemNames : AddsSDESNormalItem(WithItems(b, <<>>), lens[i])
      => {open[i] : i \in 1..n} # {}
  <2> SUFFICES ASSUME open # <<>>, n = 0,
                      \A i \in ItemNames : AddsSDESNormalItem(WithItems(b, <<>>), lens[i])
               PROVE  FALSE
    <3>1. n # 0 => open[1] \in {open[i] : i \in 1..n}
      BY <1>5
    <3> QED BY <1>3, <3>1
  <2>1. SubSeq(open, 1, 0) = <<>>
    <3>1. SubSeq(open, 1, 0) \in Seq(ItemNames) /\ Len(SubSeq(open, 1, 0)) = 0
      <4>1. 0 \in 0..Len(open)
        BY <1>4
      <4> QED BY <1>1, <4>1, FirstElements
    <3> QED BY <3>1, EmptySeq
  <2>2. Len(open) \in Nat \ {0}
    BY <1>1, EmptySeq
  <2>3. 1 \in 1..Len(open) /\ 1 - 1 = 0 /\ 0 + 1 = 1 /\ 0 < Len(open)
    BY <2>2
  <2>4. open[1] \in ItemNames
    <3>1. \A i \in 1..Len(open) : open[i] \in ItemNames
      BY ONLY <1>1
    <3> QED BY <2>3, <3>1
  <2>5. 1 \in taken
    BY <2>1, <2>3, <2>4 DEF taken
  <2> QED BY <1>4, <2>3, <2>5
<1> QED BY <1>2, <1>7, <1>8, <1>9 DEF Fitting

-----------------------------------------------------------------------------
(* There is room for something in every packet.                            *)

LEMMA BegunNeeds ==
  ASSUME BuilderTypeOK, NEW sr \in BOOLEAN
  PROVE  LET b == Begun(sr)
         IN  /\ Fitting(b) /\ b.max = maxpacketsize /\ b.max \in Nat /\ b.max >= 600
             /\ NeededReport(b) \in 8..28 /\ NeededSDES(b) \in 0..269
             /\ OwnItems(b) \in Seq(AnyItem) /\ ItemBytes(OwnItems(b)) \in 0..257
             /\ NeededBytes(b) - NeededReport(b) = NeededSDES(b)
             /\ NeededBytes(b) - NeededSDES(b) = NeededReport(b)
             /\ NeededBytes(b) \in 0..297
<1> DEFINE b == Begun(sr)
<1>1. /\ WellBuilt(b) /\ b.max = maxpacketsize
      /\ NeededReport(b) \in 8..28 /\ ByeBytes(b) = 0 /\ AppBytes(b) = 0
      /\ ItemBytes(OwnItems(b)) \in 0..257 /\ NeededBytes(b) \in 0..297
  BY BegunFacts
<1> HIDE DEF b
<1>2. b.max \in Nat /\ b.max >= 600
  BY <1>1, SizesType
<1>3. OwnItems(b) \in Seq(AnyItem) /\ NeededSDES(b) = NeededSource(OwnItems(b)) + 4
  BY <1>1, NeededIs
<1>4. NeededSource(OwnItems(b)) \in Nat
      /\ NeededSource(OwnItems(b)) <= ItemBytes(OwnItems(b)) + 8
  BY <1>3, SourceBound
<1>5. NeededSDES(b) \in 0..269
  <2>1. PICK n \in 0..257, l \in Nat : /\ n = ItemBytes(OwnItems(b))
                                       /\ l = NeededSource(OwnItems(b)) /\ l <= n + 8
    BY <1>1, <1>4
  <2>2. l + 4 \in 0..269
    BY ONLY <2>1, n \in 0..257, l \in Nat
  <2> QED BY <1>3, <2>1, <2>2
<1>6. NeededBytes(b) = NeededReport(b) + NeededSDES(b) + 0 + 0
  BY <1>1 DEF NeededBytes
<1>7. /\ NeededBytes(b) - NeededReport(b) = NeededSDES(b)
      /\ NeededBytes(b) - NeededSDES(b) = NeededReport(b)
  BY <1>1, <1>5, <1>6, SMTT(30)
<1>8. Fitting(b)
  BY <1>1, <1>2 DEF Fitting
<1> QED BY <1>1, <1>2, <1>3, <1>5, <1>7, <1>8 DEF b

LEMMA NothingFilledIn ==
  ASSUME BuilderTypeOK, NEW b, WellBuilt(b)
  PROVE  /\ WellBuilt(WithBlocks(b, <<>>)) /\ WellBuilt(WithItems(b, <<>>))
         /\ WithBlocks(b, <<>>).max = b.max /\ WithItems(b, <<>>).max = b.max
         /\ WithBlocks(b, <<>>).blocks = b.blocks \o <<>>
         /\ WithBlocks(b, <<>>).sr = b.sr /\ WithBlocks(b, <<>>).header = b.header
         /\ OwnItems(WithItems(b, <<>>)) = OwnItems(b)
         /\ NeededBytes(WithBlocks(b, <<>>)) - NeededReport(WithBlocks(b, <<>>)) =
              NeededBytes(b) - NeededReport(b)
         /\ NeededBytes(WithItems(b, <<>>)) - NeededSDES(WithItems(b, <<>>)) =
              NeededBytes(b) - NeededSDES(b)
<1>1. /\ <<>> \in Seq(Sources) /\ <<>> \in Seq(ItemNames) /\ Len(<<>>) = 0 /\ 0 \in 0..0
  OBVIOUS
<1>2. SubSeq(<<>>, 1, 0) = <<>>
  <2>1. SubSeq(<<>>, 1, 0) \in Seq(Sources) /\ Len(SubSeq(<<>>, 1, 0)) = 0
    BY <1>1, FirstElements
  <2> QED BY <2>1, EmptySeq
<1>3. /\ WellBuilt(WithBlocks(b, <<>>)) /\ WithBlocks(b, <<>>).max = b.max
      /\ WithBlocks(b, <<>>).blocks = b.blocks \o <<>>
      /\ WithBlocks(b, <<>>).sr = b.sr /\ WithBlocks(b, <<>>).header = b.header
  BY <1>1, WithBlocksFacts
<1>4. NeededBytes(WithBlocks(b, <<>>)) - NeededReport(WithBlocks(b, <<>>)) =
        NeededBytes(b) - NeededReport(b)
  <2>1. 0 \in 0..Len(<<>>)
    BY <1>1
  <2>2. LET x == WithBlocks(b, SubSeq(<<>>, 1, 0))
        IN  NeededBytes(x) - NeededReport(x) = NeededBytes(b) - NeededReport(b)
    BY <1>1, <2>1, SomeBlocks
  <2> QED BY <1>2, <2>2
<1>5. LET x == WithItems(b, SubSeq(<<>>, 1, 0))
      IN  /\ WellBuilt(x) /\ x.max = b.max
          /\ OwnItems(x) = OwnItems(b) \o ItemsWith(SubSeq(<<>>, 1, 0))
          /\ NeededBytes(x) - NeededSDES(x) = NeededBytes(b) - NeededSDES(b)
  <2>1. 0 \in 0..Len(<<>>)
    BY <1>1
  <2> QED BY <1>1, <2>1, SomeItems
<1>6. OwnItems(b) \o ItemsWith(<<>>) = OwnItems(b)
  <2>1. ItemsWith(<<>>) = <<>>
    BY DEF ItemsWith
  <2>2. OwnItems(b) \in Seq(AnyItem)
    BY NeededIs
  <2>3. OwnItems(b) \o <<>> = OwnItems(b)
    BY <2>2
  <2> QED BY <2>1, <2>3
<1> QED BY <1>2, <1>3, <1>4, <1>5, <1>6

LEMMA RoomForABlock ==
  ASSUME BuilderTypeOK, NEW sr \in BOOLEAN
  PROVE  AddsReportBlock(WithBlocks(Begun(sr), <<>>))
<1> DEFINE b == Begun(sr)
           x == WithBlocks(b, <<>>)
<1>1. /\ WellBuilt(b) /\ b.max \in Nat /\ b.max >= 600 /\ NeededSDES(b) \in 0..269
      /\ NeededBytes(b) - NeededReport(b) = NeededSDES(b) /\ b.blocks = <<>>
  BY BegunNeeds, BegunFacts
<1> HIDE DEF b
<1>2. /\ x.max = b.max /\ x.header = b.header /\ x.sr = b.sr /\ x.blocks = b.blocks \o <<>>
      /\ NeededBytes(x) - NeededReport(x) = NeededBytes(b) - NeededReport(b)
      /\ WellBuilt(x)
  BY <1>1, NothingFilledIn
<1> HIDE DEF x
<1>3. x.sr \in BOOLEAN /\ x.header \in {4, 24}
  BY <1>2 DEF WellBuilt, Builders, ReportHeader, SSRCBytes, SenderInfoBytes
<1>4. Len(x.blocks) = 0
  BY <1>1, <1>2
<1>5. PICK r \in Nat : r = ReportBlockBytes /\ r <= 300
  BY FormatAssumption, RoomAssumption
<1>6. NeededBytesWithExtraReportBlock(x) = r + 8 + (IF x.sr THEN 20 ELSE 0)
  <2>1. 1 * r = r /\ 0 + 1 = 1 /\ 1 # 0 /\ 1 * 8 = 8
    OBVIOUS
  <2> QED BY <1>4, <1>5, <2>1, OneGroup
        DEF NeededBytesWithExtraReportBlock, ReportBytes, HeaderBytes, SSRCBytes, SenderInfoBytes
<1>7. NeededSDES(b) + (r + 8 + (IF x.sr THEN 20 ELSE 0)) <= b.max
  <2>1. PICK n \in 0..269, m \in Nat : n = NeededSDES(b) /\ m = b.max /\ m >= 600
    BY <1>1
  <2>2. n + (r + 8 + (IF x.sr THEN 20 ELSE 0)) <= m
    BY ONLY <1>5, <2>1, n \in 0..269, m \in Nat, r \in Nat
  <2> QED BY <2>1, <2>2
<1>8. AddsReportBlock(x)
  BY <1>1, <1>2, <1>3, <1>6, <1>7 DEF AddsReportBlock
<1> QED BY <1>8 DEF x, b

LEMMA RoomForAnItem ==
  ASSUME BuilderTypeOK, NEW sr \in BOOLEAN, NEW i \in ItemNames
  PROVE  AddsSDESNormalItem(WithItems(Begun(sr), <<>>), lens[i])
<1> DEFINE b == Begun(sr)
           x == WithItems(b, <<>>)
           item == [id |-> 0, len |-> lens[i]]
           z == WithItem(x, item)
<1>1. /\ WellBuilt(b) /\ b.max \in Nat /\ b.max >= 600
      /\ NeededBytes(b) - NeededSDES(b) = NeededReport(b) /\ NeededReport(b) \in 8..28
      /\ OwnItems(b) \in Seq(AnyItem) /\ ItemBytes(OwnItems(b)) \in 0..257
  BY BegunNeeds, BegunFacts
<1> HIDE DEF b
<1>2. /\ WellBuilt(x) /\ x.max = b.max /\ OwnItems(x) = OwnItems(b)
      /\ NeededBytes(x) - NeededSDES(x) = NeededBytes(b) - NeededSDES(b)
  BY <1>1, NothingFilledIn
<1> HIDE DEF x
<1>3. lens[i] \in 0..255 /\ item \in AnyItem
  <2>1. lens[i] \in 0..255
    <3>1. <<>> \in Seq(ItemNames)
      OBVIOUS
    <3> QED BY <3>1, ItemsWithType
  <2> QED BY <2>1 DEF AnyItem
<1> HIDE DEF item
<1>4. ItemBytes(Append(OwnItems(b), item)) = ItemBytes(OwnItems(b)) + 2 + item.len
      /\ Append(OwnItems(b), item) \in Seq(AnyItem)
  BY <1>1, <1>3, AppendedItem
<1>5. item.len = lens[i]
  BY DEF item
<1>6. WellBuilt(z) /\ OwnItems(z) = Append(OwnItems(b), item)
  <2>1. z = Replaced(x, Append(OwnItems(x), item))
    BY <1>2, <1>3, WithItemFacts
  <2> HIDE DEF z
  <2> QED BY <1>2, <1>4, <2>1, ReplacedFacts
<1> HIDE DEF z
<1>7. NeededSDES(z) = NeededSource(OwnItems(z)) + 4
  BY <1>6, NeededIs
<1>8. NeededSource(OwnItems(z)) \in Nat
      /\ NeededSource(OwnItems(z)) <= ItemBytes(OwnItems(z)) + 8
  BY <1>4, <1>6, SourceBound
<1>9. NeededReport(b) + NeededSDES(z) <= b.max
  <2>1. PICK n \in 0..257, l \in 0..255, s \in Nat, r \in 8..28, m \in Nat :
          /\ n = ItemBytes(OwnItems(b)) /\ l = lens[i] /\ s = NeededSource(OwnItems(z))
          /\ r = NeededReport(b) /\ m = b.max
    BY <1>1, <1>3, <1>8
  <2>2. s <= (n + 2 + l) + 8 /\ m >= 600
    BY <1>1, <1>4, <1>5, <1>6, <1>8, <2>1
  <2>3. r + (s + 4) <= m
    BY ONLY <2>2, n \in 0..257, l \in 0..255, s \in Nat, r \in 8..28, m \in Nat
  <2> QED BY <1>7, <2>1, <2>3
<1>10. x.sources # <<>>
  <2>1. Len(x.sources) = 1 /\ Len(<<>>) = 0
    BY <1>2 DEF WellBuilt
  <2> QED BY <2>1
<1>11. NeededBytesWithExtraItem(x, lens[i]) = NeededSDES(z)
  BY DEF NeededBytesWithExtraItem, z, item
<1>12. AddsSDESNormalItem(x, lens[i])
  BY <1>1, <1>2, <1>9, <1>10, <1>11 DEF AddsSDESNormalItem
<1> QED BY <1>12 DEF x, b

\* A packet that is built and fits.
Succeeds(r) == r.ok = TRUE /\ Fitting(r.b)

LEMMA BuiltSucceeds ==
  ASSUME NEW b, Fitting(b), NEW marks, NEW newsdes, NEW items, NEW begins
  PROVE  Succeeds(Built(b, marks, newsdes, items, begins))
BY DEF Succeeds, Built

LEMMA ReportsFirstFits ==
  ASSUME BuilderTypeOK
  PROVE  Succeeds(ReportsFirst)
<1> DEFINE b == Begun(sender)
           f == FillInReportBlocks(b, processed, TotalCount)
           s == FillInSDES(f.b, Due(NextRound), sdes.done)
           again == FillInReportBlocks(s.b, {}, f.skipped)
<1>1. sender \in BOOLEAN /\ TotalCount \in Nat
  BY StateType, SdesType
<1>2. Fitting(b) /\ AddsReportBlock(WithBlocks(b, <<>>))
  BY <1>1, BegunNeeds, RoomForABlock
<1> HIDE DEF b
<1>3. Fitting(f.b) /\ (f.full => f.added # {})
  BY <1>1, <1>2, BlocksFit
<1>4. f.skipped \in Nat
  BY <1>1, SkippedIsNat
<1>5. ReportsFirst = AfterReports(f)
  BY DEF ReportsFirst, b
<1> HIDE DEF f
<1>6. Fitting(s.b)
  <2>1. Due(NextRound) \in SUBSET ItemNames /\ sdes.done \in SUBSET ItemNames
    BY SdesType
  <2> QED BY <1>3, <2>1, ItemsFit
<1> HIDE DEF s
<1>7. Fitting(again.b)
  BY <1>4, <1>6, BlocksFit
<1> HIDE DEF again
<1>8. CASE f.full
  <2>1. AfterReports(f) = Built(f.b, processed \cup f.added, sdes, {}, FALSE)
    BY <1>3, <1>8 DEF AfterReports
  <2> QED BY <1>3, <1>5, <2>1, BuiltSucceeds
<1>9. CASE ~ f.full
  <2>1. AfterReports(f) = BeginsRound(f, s)
    BY <1>9 DEF AfterReports, s
  <2>2. \/ \E m, n : BeginsRound(f, s) = Built(s.b, m, n, s.added, TRUE)
        \/ \E m, n : BeginsRound(f, s) = Built(again.b, m, n, s.added, TRUE)
    <3>1. CASE ~ s.processedall
      <4>1. BeginsRound(f, s) =
              Built(s.b, {}, [Opened EXCEPT !.processing = TRUE, !.done = @ \cup s.added],
                    s.added, TRUE)
        BY <3>1 DEF BeginsRound
      <4> QED BY <4>1
    <3>2. CASE s.processedall /\ f.skipped > 0
      <4>1. BeginsRound(f, s) =
              Built(again.b, again.added, [Opened EXCEPT !.done = {}], s.added, TRUE)
        BY <3>2 DEF BeginsRound, FillsUp, again
      <4> QED BY <4>1
    <3>3. CASE s.processedall /\ ~ (f.skipped > 0)
      <4>1. BeginsRound(f, s) = Built(s.b, {}, [Opened EXCEPT !.done = {}], s.added, TRUE)
        BY <3>3 DEF BeginsRound
      <4> QED BY <4>1
    <3> QED BY <3>1, <3>2, <3>3
  <2>3. Succeeds(BeginsRound(f, s))
    BY <1>6, <1>7, <2>2, BuiltSucceeds
  <2> QED BY <1>5, <2>1, <2>3
<1> QED BY <1>8, <1>9

LEMMA ItemsFirstFits ==
  ASSUME BuilderTypeOK, sdes.processing
  PROVE  Succeeds(ItemsFirst)
<1> DEFINE b == Begun(sender)
           s == FillInSDES(b, sdes.due, sdes.done)
           f == FillInReportBlocks(s.b, processed, TotalCount)
<1>1. /\ sender \in BOOLEAN /\ TotalCount \in Nat
      /\ sdes.due \in SUBSET ItemNames /\ sdes.done \in SUBSET ItemNames
  BY StateType, SdesType
<1>2. Fitting(b) /\ \A i \in ItemNames : AddsSDESNormalItem(WithItems(b, <<>>), lens[i])
  BY <1>1, BegunNeeds, RoomForAnItem
<1> HIDE DEF b
<1>3. sdes.due \ sdes.done # {}
  BY DEF BuilderTypeOK
<1>4. Fitting(s.b) /\ s.added # {}
  BY <1>1, <1>2, <1>3, ItemsFit
<1>5. ItemsFirst = AfterItems(s)
  BY DEF ItemsFirst, b
<1> HIDE DEF s
<1>6. Fitting(f.b)
  BY <1>1, <1>4, BlocksFit
<1>7. CASE ~ s.processedall
  <2>1. AfterItems(s) =
          Built(s.b, processed, [sdes EXCEPT !.done = @ \cup s.added], s.added, FALSE)
    BY <1>4, <1>7 DEF AfterItems
  <2> QED BY <1>4, <1>5, <2>1, BuiltSucceeds
<1>8. CASE s.processedall
  <2>1. AfterItems(s) = EndsRound(s, f)
    BY <1>4, <1>8 DEF AfterItems
  <2>2. Succeeds(EndsRound(s, f))
    BY <1>6, BuiltSucceeds DEF EndsRound
  <2> QED BY <1>5, <2>1, <2>2
<1> QED BY <1>7, <1>8

LEMMA NextPacketFits ==
  ASSUME BuilderTypeOK
  PROVE  Succeeds(NextPacket)
<1>1. sender \in BOOLEAN
  BY StateType
<1>2. HasRoomToBegin(sender)
  BY <1>1, BegunFacts
<1> QED BY <1>2, ReportsFirstFits, ItemsFirstFits DEF NextPacket

\* A packet that fits is written as FitsAndProgresses says.
LEMMA EndedFits ==
  ASSUME NEW b, Fitting(b), NEW kind, pack' = Ended(kind, b), status' = "ok"
  PROVE  FitsAndProgresses'
<1>1. /\ Written(EndBuild(b).part) = EndBuild(b).len /\ EndBuild(b).len = NeededBytes(b)
      /\ NeededBytes(b) <= b.max
  BY EndBuildWrites DEF Fitting
<1>2. pack'.b = b /\ pack'.wire = EndBuild(b)
  BY DEF Ended
<1> QED BY <1>1, <1>2 DEF FitsAndProgresses

LEMMA BYEFits ==
  ASSUME BuilderTypeOK, NEW sr \in BOOLEAN, NEW reason \in Reasons
  PROVE  /\ AddsBYEPacket(Begun(sr), <<Own>>, reason)
         /\ Fitting(WithBYEPacket(Begun(sr), <<Own>>, reason))
<1> DEFINE b == Begun(sr)
           bye == [ssrcs |-> <<Own>>, reason |-> reason]
           x == WithBYEPacket(b, <<Own>>, reason)
<1>1. /\ WellBuilt(b) /\ b.max \in Nat /\ b.max >= 600 /\ NeededBytes(b) \in 0..297
      /\ b.byes = <<>> /\ b.apps = <<>>
  BY BegunNeeds, BegunFacts
<1> HIDE DEF b
<1>2. reason \in 0..255
  BY PacketBuilderAssumption
<1>3. bye \in AnyBye
  BY <1>2 DEF AnyBye
<1>4. PICK n \in Nat : n = NeededBYE(1, reason) /\ n <= 267
  <2>1. 1 \in Nat
    OBVIOUS
  <2>2. NeededBYE(1, reason) \in Nat /\ NeededBYE(1, reason) <= 4 + 4 * 1 + 259
    BY <1>2, <2>1, NeededBYEIsNat
  <2>3. \A n \in Nat : n <= 4 + 4 * 1 + 259 => n <= 267
    OBVIOUS
  <2> QED BY <2>2, <2>3
<1>5. NeededBytes(b) + NeededBYE(1, reason) <= b.max /\ NeededBytes(b) + n <= b.max
  <2>1. PICK m \in 0..297, k \in Nat : m = NeededBytes(b) /\ k = b.max /\ k >= 600
    BY <1>1
  <2>2. m + n <= k
    BY ONLY <1>4, <2>1, m \in 0..297, k \in Nat, n \in Nat
  <2> QED BY <1>4, <2>1, <2>2
<1>6. AddsBYEPacket(b, <<Own>>, reason)
  <2>1. Len(<<Own>>) = 1 /\ 1 <= MaxCount
    BY FormatAssumption
  <2> QED BY <1>5, <2>1 DEF AddsBYEPacket
<1>7. x = [b EXCEPT !.byes = <<bye>>]
  <2>1. x = [b EXCEPT !.byes = Append(b.byes, bye)]
    BY DEF WithBYEPacket
  <2> HIDE DEF x, bye
  <2>2. Append(b.byes, bye) = <<bye>>
    BY <1>1
  <2> QED BY <2>1, <2>2
<1>8. /\ WellBuilt(x) /\ x.byes = <<bye>> /\ x.max = b.max /\ x.sr = b.sr
      /\ x.header = b.header /\ x.blocks = b.blocks /\ x.apps = b.apps /\ x.sources = b.sources
  <2> HIDE DEF x, bye
  <2>1. <<bye>> \in Seq(AnyBye)
    BY <1>3
  <2> QED BY <1>1, <1>7, <2>1 DEF WellBuilt, Builders
<1>9. ByeBytes(x) = n
  <2> DEFINE z == [i \in DOMAIN x.byes |-> NeededBYE(Len(x.byes[i].ssrcs), x.byes[i].reason)]
  <2>1. NeededBYE(Len(bye.ssrcs), bye.reason) = n
    <3>1. Len(bye.ssrcs) = 1 /\ bye.reason = reason
      OBVIOUS
    <3> QED BY <1>4, <3>1
  <2> HIDE DEF x, bye
  <2>2. z \in Seq(Nat) /\ Len(z) = 1 /\ z[1] = n
    BY <1>8, <2>1
  <2> HIDE DEF z
  <2> QED BY <2>2, SumOfOne DEF ByeBytes, z
<1> HIDE DEF x, bye
<1>10. NeededBytes(x) = NeededBytes(b) + n
  <2>1. NeededReport(x) = NeededReport(b)
    BY <1>8 DEF NeededReport, ReportBytes
  <2>2. NeededSDES(x) = NeededSDES(b)
    BY <1>8 DEF NeededSDES
  <2>3. AppBytes(x) = AppBytes(b)
    BY <1>8 DEF AppBytes
  <2>4. ByeBytes(b) = 0 /\ AppBytes(b) = 0
    BY <1>1, EmptyParts
  <2>5. NeededReport(b) \in Nat /\ NeededSDES(b) \in Nat
    <3> HIDE DEF b
    <3>1. WellBuilt(b)
      BY ONLY <1>1
    <3>2. NeededReport(b) \in Nat
      BY ONLY <3>1, NeededParts
    <3>3. NeededSDES(b) = NeededSource(OwnItems(b)) + 4 /\ NeededSource(OwnItems(b)) \in Nat
      BY ONLY <3>1, NeededIs
    <3>4. \A q \in Nat : q + 4 \in Nat
      BY ONLY TRUE
    <3> QED BY ONLY <3>2, <3>3, <3>4
  <2> QED BY <1>9, <2>1, <2>2, <2>3, <2>4, <2>5 DEF NeededBytes
<1>11. Fitting(x)
  BY <1>5, <1>8, <1>10 DEF Fitting
<1> QED BY <1>11, <1>6 DEF x, b

LEMMA APPFits ==
  ASSUME BuilderTypeOK, NEW len \in AppLengths, AddsAPPPacket(Begun(FALSE), len)
  PROVE  Fitting(WithAPPPacket(Begun(FALSE), len))
<1> DEFINE b == Begun(FALSE)
           x == WithAPPPacket(b, len)
<1>1. /\ WellBuilt(b) /\ b.max \in Nat /\ NeededBytes(b) \in 0..297
      /\ b.byes = <<>> /\ b.apps = <<>> /\ NeededBytes(b) + NeededAPP(len) <= b.max
  BY BegunNeeds, BegunFacts DEF AddsAPPPacket
<1> HIDE DEF b
<1>2. len \in Nat
  BY PacketBuilderAssumption
<1>3. PICK n \in Nat : n = NeededAPP(len)
  BY <1>2 DEF NeededAPP, HeaderBytes, SSRCBytes
<1>4. x = [b EXCEPT !.apps = <<len>>]
  <2>1. x = [b EXCEPT !.apps = Append(b.apps, len)]
    BY DEF WithAPPPacket
  <2> HIDE DEF x
  <2>2. Append(b.apps, len) = <<len>>
    BY <1>1
  <2> QED BY <2>1, <2>2
<1> HIDE DEF x
<1>5. /\ WellBuilt(x) /\ x.apps = <<len>> /\ x.max = b.max /\ x.sr = b.sr
      /\ x.header = b.header /\ x.blocks = b.blocks /\ x.byes = b.byes /\ x.sources = b.sources
  <2>1. <<len>> \in Seq(Nat)
    BY <1>2
  <2> QED BY <1>1, <1>4, <2>1 DEF WellBuilt, Builders
<1>6. AppBytes(x) = n
  <2> DEFINE z == [i \in DOMAIN x.apps |-> NeededAPP(x.apps[i])]
  <2>1. z \in Seq(Nat) /\ Len(z) = 1 /\ z[1] = n
    BY <1>3, <1>5
  <2> HIDE DEF z
  <2> QED BY <2>1, SumOfOne DEF AppBytes, z
<1>7. NeededBytes(x) = NeededBytes(b) + n
  <2>1. NeededReport(x) = NeededReport(b)
    BY <1>5 DEF NeededReport, ReportBytes
  <2>2. NeededSDES(x) = NeededSDES(b)
    BY <1>5 DEF NeededSDES
  <2>3. ByeBytes(x) = ByeBytes(b)
    BY <1>5 DEF ByeBytes
  <2>4. ByeBytes(b) = 0 /\ AppBytes(b) = 0
    BY <1>1, EmptyParts
  <2>5. NeededReport(b) \in Nat /\ NeededSDES(b) \in Nat
    <3> HIDE DEF b
    <3>1. WellBuilt(b)
      BY ONLY <1>1
    <3>2. NeededReport(b) \in Nat
      BY ONLY <3>1, NeededParts
    <3>3. NeededSDES(b) = NeededSource(OwnItems(b)) + 4 /\ NeededSource(OwnItems(b)) \in Nat
      BY ONLY <3>1, NeededIs
    <3>4. \A q \in Nat : q + 4 \in Nat
      BY ONLY TRUE
    <3> QED BY ONLY <3>2, <3>3, <3>4
  <2> QED BY <1>6, <2>1, <2>2, <2>3, <2>4, <2>5 DEF NeededBytes
<1>8. Fitting(x)
  BY <1>1, <1>3, <1>5, <1>7 DEF Fitting
<1> QED BY <1>8 DEF x, b

\* Every step leads to a packet that fits or to none.
LEMMA FitsKept ==
  ASSUME BuilderTypeOK, FitsAndProgresses, [BuilderNext]_builderVars
  PROVE  FitsAndProgresses'
<1>1. CASE UNCHANGED builderVars
  BY <1>1 DEF builderVars, FitsAndProgresses
<1>2. CASE BuildNextPacket
  <2>1. Succeeds(NextPacket)
    BY NextPacketFits
  <2>2. Sends(NextPacket)
    BY <1>2, <2>1 DEF BuildNextPacket, SendsOrRefuses, Succeeds
  <2>3. status' = "ok" /\ pack' = Ended("next", NextPacket.b)
    BY <2>2 DEF Sends
  <2> QED BY <2>1, <2>3, EndedFits DEF Succeeds
<1>3. ASSUME NEW r \in Reasons, NEW useSR \in BOOLEAN, BuildBYEPacket(r, useSR)
      PROVE  FitsAndProgresses'
  <2>1. PICK sr \in BOOLEAN : sr = (useSR /\ sender)
    <3>1. sender \in BOOLEAN
      BY StateType
    <3> QED BY <3>1
  <2>2. HasRoomToBegin(sr) /\ AddsBYEPacket(Begun(sr), <<Own>>, r)
        /\ Fitting(WithBYEPacket(Begun(sr), <<Own>>, r))
    BY BegunFacts, BYEFits
  <2>3. Answers(HasRoomToBegin(sr) /\ AddsBYEPacket(Begun(sr), <<Own>>, r), "bye",
                WithBYEPacket(Begun(sr), <<Own>>, r))
    BY <1>3, <2>1 DEF BuildBYEPacket
  <2>4. status' = "ok" /\ pack' = Ended("bye", WithBYEPacket(Begun(sr), <<Own>>, r))
    BY <2>2, <2>3 DEF Answers
  <2> QED BY <2>2, <2>4, EndedFits
<1>4. ASSUME NEW len \in AppLengths, SendRTCPAPPPacket(len)
      PROVE  FitsAndProgresses'
  <2>1. AddsAPPPacket(Begun(FALSE), len)
        /\ Answers(TRUE, "app", WithAPPPacket(Begun(FALSE), len))
    BY <1>4 DEF SendRTCPAPPPacket
  <2>2. status' = "ok" /\ pack' = Ended("app", WithAPPPacket(Begun(FALSE), len))
    BY <2>1 DEF Answers
  <2>3. Fitting(WithAPPPacket(Begun(FALSE), len))
    BY <2>1, APPFits
  <2> QED BY <2>2, <2>3, EndedFits
<1>5. ASSUME pack' = NoPack, status' = status \/ status' = "ok" PROVE FitsAndProgresses'
  BY <1>5 DEF FitsAndProgresses
<1>6. ASSUME NEW s \in Sources, Arrives(s) \/ Leaves(s) PROVE FitsAndProgresses'
  BY <1>5, <1>6 DEF Arrives, Leaves
<1>7. CASE \/ \E v \in BOOLEAN : SetSender(v)
           \/ \E i \in ItemNames, len \in ItemLengths : SetLocalItem(i, len)
           \/ \E size \in PacketSizes : SetMaximumPacketSize(size)
           \/ Recreate
  BY <1>5, <1>7 DEF SetSender, SetLocalItem, SetMaximumPacketSize, Recreate
<1> QED BY <1>1, <1>2, <1>3, <1>4, <1>6, <1>7 DEF BuilderNext

\* No packet is ever too long or refused for lack of room, and EndBuild writes
\* as many bytes as NeededBytes counted, however many sources and items there
\* are and however their blocks are split over report packets.
THEOREM BuilderFitsAndProgresses == BuilderSpec => []FitsAndProgresses
<1>1. BuilderInit => FitsAndProgresses
  BY DEF BuilderInit, FitsAndProgresses
<1>2. BuilderInv => BuilderTypeOK
  BY DEF BuilderInv
<1>3. BuilderInv /\ FitsAndProgresses /\ [BuilderNext]_builderVars
      => BuilderInv' /\ FitsAndProgresses'
  BY <1>2, BuilderKeeps, FitsKept
<1> QED BY <1>1, <1>3, BuilderBegins, PTL DEF BuilderSpec

=============================================================================
