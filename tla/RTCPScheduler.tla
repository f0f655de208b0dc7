--------------------------- MODULE RTCPScheduler ---------------------------
(***************************************************************************)
(* When a session sends its RTCP compound packets: RTCPScheduler, with     *)
(* timer reconsideration, reverse reconsideration and the BYE backoff of   *)
(* RFC 3550, over the member counts of a source table that changes around  *)
(* it.                                                                     *)
(*                                                                         *)
(* Time is counted in ticks from the present: wait is nextrtcptime - now,  *)
(* 0 when that is past, and since is now - prevrtcptime.  Intervals are    *)
(* rounded to ticks.  Of the packet sizes remains a size class, the ticks  *)
(* the full bandwidth needs per member; a running average of packets is    *)
(* somewhere between what it was and the new size.                         *)
(***************************************************************************)
EXTENDS Integers

CONSTANTS
  MaxMembers,     \* bound on the active members of the source table
  MaxBYEs,        \* bound on byemembers
  Sizes,          \* size classes of RTCP packets
  MinInterval,    \* mininterval of the parameters, in ticks
  HalfAtStartup,  \* usehalfatstartup
  ImmediateBYE,   \* immediatebye
  FewMembers,     \* RTCP may send a BYE at once below this many members (50)
  Share           \* senderfraction is 1/Share

ASSUME SchedulerAssumption ==
  /\ MaxMembers \in Nat \ {0} /\ MaxBYEs \in Nat \ {0} /\ FewMembers \in Nat
  /\ Sizes \subseteq Nat \ {0} /\ \E s \in Sizes : \A t \in Sizes : t <= s
  /\ MinInterval \in Nat /\ MinInterval >= 2 /\ Share \in Nat /\ Share >= 2
  /\ {HalfAtStartup, ImmediateBYE} \subseteq BOOLEAN

VARIABLES
  wait, since,   \* nextrtcptime and prevrtcptime, seen from now
  sched,         \* firstcall, hassentrtcp, avg: avgrtcppacksize, pmembers,
                 \* byescheduled, byemembers, avgbye, sendbyenow
  members,       \* active members of the source table, and among them ...
  senders,       \* ... those that send
  aresender,     \* the session itself is a sender
  answer,        \* IsTime was the last thing called, and said yes
  gap, eased     \* ticks since it last said yes; whether a member left or a
                 \* BYE was scheduled since then

vars == <<wait, since, sched, members, senders, aresender, answer, gap, eased>>

Least(a, b) == IF a < b THEN a ELSE b
Most(a, b) == IF a > b THEN a ELSE b

-----------------------------------------------------------------------------
(* The intervals.                                                          *)

\* The share of the bandwidth is split between senders and the others while few
\* are senders.
FewSend(m) == senders * Share <= m

\* n members, packets of a size class, a share 1/Share or (Share-1)/Share.
BandwidthInterval(sender, m, avg) ==
  IF FewSend(m)
  THEN IF sender THEN senders * avg * Share
       ELSE ((m - senders) * avg * Share) \div (Share - 1)
  ELSE m * avg

Startup(half) == IF half /\ HalfAtStartup THEN MinInterval \div 2 ELSE MinInterval

CalculateDeterministicInterval(sender) ==
  Most(Startup(~ sched.hassentrtcp),
       BandwidthInterval(sender, Most(members, 1), sched.avg))

\* A random value between 0.5 and 1.5 times the interval, divided by 1.21828.
Shortest(td) == (2 * td + 4) \div 5
Longest(td) == (5 * td) \div 4
Random(td) == Shortest(td)..Longest(td)

CalculateTransmissionInterval(sender) ==
  Random(CalculateDeterministicInterval(sender))

CalculateBYETransmissionInterval(s) ==
  IF ~ s.byescheduled \/ s.sendbyenow THEN {0}
  ELSE Random(Most(Startup(TRUE),
                   (s.byemembers * s.avgbye * Share) \div (Share - 1)))

BiggestSize == CHOOSE s \in Sizes : \A t \in Sizes : t <= s
BiggestInterval ==
  Most(MinInterval, Most(MaxMembers, MaxBYEs) * BiggestSize * Share)
\* No interval is longer than Horizon; no interval must be longer than Near.
Horizon == Longest(BiggestInterval)
Near == Shortest(BiggestInterval)

Sched ==
  [firstcall : BOOLEAN, hassentrtcp : BOOLEAN, avg : 1..BiggestSize,
   pmembers : 0..MaxMembers, byescheduled : BOOLEAN, byemembers : 1..MaxBYEs,
   avgbye : 1..BiggestSize, sendbyenow : BOOLEAN]

TypeOK ==
  /\ wait \in 0..Horizon /\ since \in 0..Horizon /\ gap \in 0..Near
  /\ sched \in Sched
  /\ members \in 0..MaxMembers /\ senders \in 0..members
  /\ {aresender, answer, eased} \subseteq BOOLEAN

Init ==
  /\ wait = 0 /\ since = 0 /\ gap = 0
  /\ \E avg \in Sizes :
       sched = [firstcall |-> TRUE, hassentrtcp |-> FALSE, avg |-> avg,
                pmembers |-> 0, byescheduled |-> FALSE, byemembers |-> 1,
                avgbye |-> avg, sendbyenow |-> FALSE]
  /\ members = 1 /\ senders = 0 /\ aresender = FALSE
  /\ answer = FALSE /\ eased = FALSE

-----------------------------------------------------------------------------
(* What the session calls.                                                 *)

Table == <<members, senders, aresender>>

\* The first call of GetTransmissionDelay or IsTime sets the timer.
FirstCall ==
  /\ sched.firstcall
  /\ wait' \in CalculateTransmissionInterval(aresender)
  /\ since' = 0
  /\ sched' = [sched EXCEPT !.firstcall = FALSE, !.pmembers = members]
  /\ answer' = FALSE
  /\ UNCHANGED <<Table, gap, eased>>

\* Faulty variant: the timer is not set for the next packet.
ExpireOnce ==
  /\ wait' = 0
  /\ since' = 0
  /\ sched' = [sched EXCEPT !.byescheduled = FALSE, !.pmembers = members]
  /\ answer' = TRUE /\ gap' = 0 /\ eased' = FALSE

\* It is time: the timer is set for the next packet, by the table as it is.
Expire ==
  /\ wait' \in CalculateTransmissionInterval(aresender)
  /\ since' = 0
  /\ sched' = [sched EXCEPT !.byescheduled = FALSE, !.pmembers = members]
  /\ answer' = TRUE /\ gap' = 0 /\ eased' = FALSE

\* Faulty variant: the interval counts from the present.
ReconsiderAgain(t) ==
  /\ wait' = t - since /\ since' = 0
  /\ sched' = [sched EXCEPT !.pmembers = members]
  /\ answer' = FALSE
  /\ UNCHANGED <<gap, eased>>

\* It is not: the timer expired early for the interval that holds by now.
Reconsider(t) ==
  /\ wait' = t - since
  /\ sched' = [sched EXCEPT !.pmembers = members]
  /\ answer' = FALSE
  /\ UNCHANGED <<since, gap, eased>>

\* Faulty variant: what was drawn when the timer was set still counts.
CheckIntervalsNone == {0}

CheckIntervals ==
  IF sched.byescheduled THEN CalculateBYETransmissionInterval(sched)
  ELSE CalculateTransmissionInterval(aresender)

\* IsTime after the first call; before the timer has expired it changes nothing.
IsTime ==
  /\ ~ sched.firstcall /\ wait = 0
  /\ \E t \in CheckIntervals :
       IF t <= since THEN Expire ELSE Reconsider(t)
  /\ UNCHANGED Table

\* ScheduleBYEPacket; without a first call before it, prevrtcptime is set here.
ScheduleBYEPacket ==
  /\ ~ sched.byescheduled
  /\ \E size \in Sizes :
       LET s == [sched EXCEPT
                   !.firstcall = FALSE, !.byescheduled = TRUE, !.avgbye = size,
                   !.pmembers = IF sched.firstcall THEN members ELSE @,
                   !.byemembers = 1,
                   !.sendbyenow = ImmediateBYE /\ members < FewMembers]
       IN  sched' = s /\ wait' \in CalculateBYETransmissionInterval(s)
  /\ since' = 0
  /\ answer' = FALSE /\ eased' = TRUE
  /\ UNCHANGED <<Table, gap>>

Averages(avg, size) == Least(avg, size)..Most(avg, size)

\* AnalyseIncoming: a packet without a BYE counts for the average; one with a
\* BYE counts as a further leaving member while a BYE is scheduled.
AnalyseReport ==
  /\ \E size \in Sizes : \E avg \in Averages(sched.avg, size) :
       sched' = [sched EXCEPT !.avg = avg]
  /\ answer' = FALSE
  /\ UNCHANGED <<wait, since, Table, gap, eased>>

AnalyseBYE ==
  /\ sched.byescheduled /\ sched.byemembers < MaxBYEs
  /\ \E size \in Sizes : \E avg \in Averages(sched.avgbye, size) :
       sched' = [sched EXCEPT !.byemembers = @ + 1, !.avgbye = avg]
  /\ answer' = FALSE
  /\ UNCHANGED <<wait, since, Table, gap, eased>>

\* AnalyseOutgoing, after IsTime said yes.
AnalyseOutgoing ==
  /\ answer
  /\ \E size \in Sizes : \E avg \in Averages(sched.avg, size) :
       sched' = [sched EXCEPT !.avg = avg, !.hassentrtcp = TRUE]
  /\ answer' = FALSE
  /\ UNCHANGED <<wait, since, Table, gap, eased>>

-----------------------------------------------------------------------------
(* The source table around it.                                             *)

NewMember ==
  /\ members < MaxMembers
  /\ members' = members + 1
  /\ senders' \in {senders, senders + 1}
  /\ answer' = FALSE
  /\ UNCHANGED <<wait, since, sched, aresender, gap, eased>>

StartSending ==
  /\ ~ aresender /\ senders < members
  /\ aresender' = TRUE /\ senders' = senders + 1
  /\ answer' = FALSE
  /\ UNCHANGED <<wait, since, sched, members, gap, eased>>

\* Faulty variant: the counts of members are taken the wrong way round.
PerformReverseReconsiderationUpward(left) ==
  LET p == Most(sched.pmembers, 1)
  IN  /\ wait' = Least(Horizon, (p * wait) \div Most(left, 1))
      /\ since' = Least(Horizon, (p * since) \div Most(left, 1))
      /\ sched' = [sched EXCEPT !.pmembers = left]

\* Both times move towards the present, as much as the group has shrunk.
PerformReverseReconsideration(left) ==
  LET p == Most(sched.pmembers, 1)
  IN  /\ wait' = (left * wait) \div p
      /\ since' = (left * since) \div p
      /\ sched' = [sched EXCEPT !.pmembers = left]

\* A member, perhaps a sender, times out or sends a BYE: the table counts it no
\* more and calls ActiveMemberDecrease.
ActiveMemberDecrease ==
  /\ members > 1
  /\ members' = members - 1
  /\ \E s \in {senders, senders - 1} :
       /\ s \in 0..members' /\ (aresender => s > 0)
       /\ senders' = s
  /\ IF ~ sched.firstcall /\ members' < sched.pmembers
     THEN PerformReverseReconsideration(members')
     ELSE UNCHANGED <<wait, since, sched>>
  /\ answer' = FALSE /\ eased' = TRUE
  /\ UNCHANGED <<aresender, gap>>

\* What lies further back than every interval is not told apart.
Tick ==
  /\ wait' = Most(wait - 1, 0)
  /\ since' = Least(since + 1, Horizon)
  /\ gap' = Least(gap + 1, Near)
  /\ answer' = FALSE
  /\ UNCHANGED <<sched, Table, eased>>

Next ==
  \/ FirstCall \/ IsTime \/ ScheduleBYEPacket \/ AnalyseReport \/ AnalyseBYE
  \/ AnalyseOutgoing \/ NewMember \/ StartSending \/ ActiveMemberDecrease
  \/ Tick

Spec == Init /\ [][Next]_vars

\* The poll thread asks again and again (every wait of its loop is bounded by
\* GetTransmissionDelay), and time passes.
Fairness == WF_vars(FirstCall) /\ WF_vars(IsTime) /\ WF_vars(Tick)
FairSpec == Spec /\ Fairness

-----------------------------------------------------------------------------
(* Properties.                                                             *)

\* "if it is called again right away, it will return false"
\* (rtcpscheduler.h:150, IsTime): in the moment it said yes the timer is set to
\* a later time.
NotTwiceAtOnce == TypeOK /\ (answer => wait > 0)

\* A report goes out no earlier after the one before than the shortest interval
\* for the group as it is now, even if the group was smaller when the timer was
\* set (IsTime's reconsideration); only a shrinking group or a BYE eases that.
ReportsAreSpaced ==
  [][answer' /\ ~ eased =>
       gap >= Shortest(CalculateDeterministicInterval(aresender))]_vars

\* A member that leaves never makes the session wait longer, whatever the counts
\* were when the timer was set (PerformReverseReconsideration).
LeavingNeverDelays ==
  [][members' < members => wait' <= wait /\ since' <= since]_vars

\* Unless members leave for ever, the session keeps sending reports and the
\* BYEs it scheduled: reconsidering the timer does not put it off for ever.
KeepsReporting == <>[][members' >= members]_vars => []<> answer

=============================================================================
