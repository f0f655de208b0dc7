----------------------------- MODULE RTPSession -----------------------------
(***************************************************************************)
(* An RTPSession with its poll thread: the application's thread creates    *)
(* the session, sends, looks at the source table and destroys the session, *)
(* while RTPPollThread waits in the transmitter, polls it and runs         *)
(* ProcessPolledData.  Steps end where a lock is taken that the other      *)
(* thread may hold, or where both threads touch the same field; a lock     *)
(* taken and released within one step (builder, scheduler, packsent, stop, *)
(* the transmitter's main mutex) needs no variable.                        *)
(*                                                                         *)
(* Kept of the components: of the packet builder its SSRC, numbered in the *)
(* order they are made (CreateNewSSRC picks one no member has); of the     *)
(* source table the own entry; of the scheduler whether a BYE is           *)
(* scheduled; of the transmitter its wait and its packets.  A packet is    *)
(* from an address and carries an SSRC; No is the SSRC of one that the     *)
(* source table refuses with an error.                                     *)
(***************************************************************************)
EXTENDS JThread, SequencesExt

CONSTANTS
  Address,     \* where packets come from
  MaxPackets,  \* bound: packets that arrive
  MaxSessions  \* bound: how often the session is created

ASSUME BoundsAssumption == MaxPackets \in Nat /\ MaxSessions \in Nat \ {0}

No == 0  \* no SSRC
SSRC == 1..(MaxSessions + MaxPackets)
Packet == [from : Address, ssrc : SSRC \cup {No}]

VARIABLES
  session,      \* ssrc: of the packet builder; own: owndata of the source
                \* table; sentpackets; byes: byepackets, by their SSRCs;
                \* byescheduled, of the scheduler; collisions: collisionlist
  sourcesmutex, \* who holds it
  stop,         \* RTPPollThread::stop
  trans,        \* waiting: waitingfordata; waitmutex: who holds it; aborts:
                \* bytes in the abort pipe; socket: packets that arrived;
                \* packets: those the last Poll read
  longwait,     \* the delay of a wait may be longer than Stop's 5 seconds
  history,      \* the SSRCs a BYE was sent for, in order
  arrived, sessions  \* bounded by MaxPackets and MaxSessions

sessionvars == <<session, sourcesmutex, stop, trans, longwait,
                 history, arrived, sessions>>
vars == <<threadvars, sessionvars>>

\* What an action leaves alone that changes one or two of them.
butSession ==
  <<sourcesmutex, stop, trans, longwait, history, arrived, sessions>>
butTrans ==
  <<session, sourcesmutex, stop, longwait, history, arrived, sessions>>
butSources ==
  <<session, stop, trans, longwait, history, arrived, sessions>>
butStop ==
  <<session, sourcesmutex, trans, longwait, history, arrived, sessions>>
butSessionHistory ==
  <<sourcesmutex, stop, trans, longwait, arrived, sessions>>
butSessionTrans ==
  <<sourcesmutex, stop, longwait, history, arrived, sessions>>

NoSession ==
  [ssrc |-> No, own |-> No, sentpackets |-> FALSE, byes |-> <<>>,
   byescheduled |-> FALSE, collisions |-> {}]
NewTransmitter ==
  [waiting |-> FALSE, waitmutex |-> Free, aborts |-> 0, socket |-> <<>>,
   packets |-> <<>>]

AppPlace ==
  {"none", "start", "starting", "starting2", "started", "failed", "ready",
   "built", "counted", "access", "stop", "bye", "abort", "waitstop",
   "stopped", "byes", "teardown", "delete"}
ThreadPlace ==
  BeforeStarted \cup Over \cup
  {"check", "sched", "wait", "select", "selected", "poll",
   "process", "receive", "collision", "leave", "newssrc", "clear", "own",
   "timeouts", "istime", "send", "analyse", "step", "ending"}

\* Places of the poll thread between SOURCES_LOCK and SOURCES_UNLOCK.
Processing ==
  {"receive", "collision", "leave", "newssrc", "clear", "own", "timeouts",
   "istime", "send", "analyse"}
\* Places of the application in Destroy or BYEDestroy after Stop returned.
AfterStop == {"bye", "byes", "teardown", "delete"}
Leaving == {"stop", "abort", "waitstop", "stopped"} \cup AfterStop

SessionTypeOK ==
  session \in [ssrc : SSRC \cup {No}, own : SSRC \cup {No},
               sentpackets : BOOLEAN, byes : Seq(SSRC),
               byescheduled : BOOLEAN, collisions : SUBSET Address]
TransTypeOK ==
  trans \in [waiting : BOOLEAN, waitmutex : Owner, aborts : Nat,
             socket : Seq(Packet), packets : Seq(Packet)]

TypeOK ==
  /\ app \in AppPlace /\ thread \in ThreadPlace /\ running \in BOOLEAN
  /\ {continuemutex, continuemutex2, sourcesmutex} \subseteq Owner
  /\ SessionTypeOK /\ TransTypeOK
  /\ {stop, longwait} \subseteq BOOLEAN
  /\ history \in Seq(SSRC)
  /\ arrived \in 0..MaxPackets /\ sessions \in 0..MaxSessions

Init ==
  /\ JThreadInit
  /\ session = NoSession
  /\ sourcesmutex = Free
  /\ stop = FALSE
  /\ trans = NewTransmitter
  /\ longwait \in BOOLEAN
  /\ history = <<>>
  /\ arrived = 0 /\ sessions = 0

-----------------------------------------------------------------------------
(* The application: creating the session, sending, looking at sources.     *)

\* InternalCreate up to the start of the poll thread: a new SSRC, above all that
\* were used, and its entry in the table; the scheduler is reset.
InternalCreate ==
  session' = LET new == arrived + sessions + 1
             IN  [session EXCEPT !.ssrc = new, !.own = new,
                                 !.sentpackets = FALSE, !.byescheduled = FALSE]

Create ==
  /\ app = "none" /\ sessions < MaxSessions
  /\ InternalCreate
  /\ trans' = NewTransmitter
  /\ stop' = FALSE
  /\ sessions' = sessions + 1
  /\ app' = "start"
  /\ UNCHANGED <<thread, running, continuemutex, continuemutex2, sourcesmutex,
                 longwait, history, arrived>>

\* InternalCreate cleans up when the poll thread does not start.
CreateFails ==
  /\ app = "failed"
  /\ session' = [session EXCEPT !.ssrc = No, !.own = No]
  /\ trans' = NewTransmitter
  /\ app' = "none"
  /\ UNCHANGED <<thread, running, continuemutex, continuemutex2, sourcesmutex,
                 stop, longwait, history, arrived, sessions>>

AppGoes(from, to) ==
  /\ app = from /\ app' = to
  /\ UNCHANGED <<thread, running, continuemutex, continuemutex2>>

Created ==
  AppGoes("started", "ready") /\ UNCHANGED sessionvars

\* SendPacket: BuildPacket and SendRTPData under the builder's lock ...
SendPacket ==
  /\ AppGoes("ready", "built")
  /\ UNCHANGED sessionvars

\* ... then SentRTPPacket under the sources' lock (owndata becomes a sender,
\* which the source table models), then the flag.
SentRTPPacket ==
  /\ sourcesmutex = Free
  /\ AppGoes("built", "counted")
  /\ UNCHANGED sessionvars

SetSentPackets(t) == [session EXCEPT !.sentpackets = t]

PacketSent ==
  /\ AppGoes("counted", "ready")
  /\ session' = SetSentPackets(TRUE)
  /\ UNCHANGED butSession

\* Faulty variant: the lock is not taken.
BeginDataAccessUnlocked ==
  /\ AppGoes("ready", "access")
  /\ UNCHANGED sessionvars

BeginDataAccess ==
  /\ sourcesmutex = Free
  /\ AppGoes("ready", "access")
  /\ sourcesmutex' = App
  /\ UNCHANGED butSources

EndDataAccess ==
  /\ AppGoes("access", "ready")
  /\ sourcesmutex' = Free
  /\ UNCHANGED butSources

-----------------------------------------------------------------------------
(* The application: leaving.  Destroy ends at "stopped" with the teardown, *)
(* BYEDestroy sends the BYEs that are left first.  RTPPollThread::Stop is  *)
(* the part between "stop" and "stopped".                                  *)

Leave == AppGoes("ready", "stop") /\ UNCHANGED sessionvars

\* Faulty variant: the thread is woken and not told to stop.
StopSignalsNot ==
  /\ app = "stop" /\ running
  /\ AppGoes("stop", "abort")
  /\ UNCHANGED sessionvars

StopSignals ==
  /\ app = "stop" /\ running
  /\ AppGoes("stop", "abort")
  /\ stop' = TRUE
  /\ UNCHANGED butStop

StopNothingRuns ==
  /\ ~ running
  /\ AppGoes("stop", "stopped")
  /\ UNCHANGED sessionvars

\* RTPUDPv4Transmitter::AbortWait: without a wait there is nothing to abort.
AbortWait ==
  /\ AppGoes("abort", "waitstop")
  /\ trans' = [trans EXCEPT !.aborts = IF trans.waiting THEN @ + 1 ELSE @]
  /\ UNCHANGED butTrans

\* Faulty variant: Stop does not wait for the thread.
StopDoneAtOnce ==
  /\ AppGoes("waitstop", "stopped")
  /\ UNCHANGED sessionvars

StopDone ==
  /\ ~ running
  /\ AppGoes("waitstop", "stopped")
  /\ UNCHANGED sessionvars

\* Five seconds pass only while the poll thread is blocked in its wait, which
\* is where the cancellation strikes it.
StopKills ==
  /\ longwait /\ thread = "select" /\ trans.aborts = 0
  /\ app = "waitstop" /\ Kill("stopped")
  /\ UNCHANGED sessionvars

\* The end of Stop, then ~JThread, which kills nothing any more, and the
\* choice between Destroy and BYEDestroy.
StopReturns ==
  /\ app = "stopped"
  /\ \E next \in {"teardown", "bye"} : AppGoes("stopped", next)
  /\ stop' = FALSE
  /\ UNCHANGED butStop

Schedule(s) == [s EXCEPT !.byescheduled = (s.byes # <<>>) \/ @]
ScheduleFirst(s) == IF Len(s.byes) = 1 THEN Schedule(s) ELSE s

\* BYEDestroy adds a BYE packet if packets were sent.
BYEDestroyAdds ==
  /\ AppGoes("bye", "byes")
  /\ session' =
       IF session.sentpackets
       THEN ScheduleFirst([session EXCEPT !.byes = Append(@, session.ssrc)])
       ELSE session
  /\ UNCHANGED butSession

SendsBYE(s) == history' = Append(history, s)

\* IsTime was true: it takes back what was scheduled, the next BYE is sent and
\* the one after it scheduled.
BYEDestroySends ==
  /\ session.byes # <<>>
  /\ AppGoes("byes", "byes")
  /\ SendsBYE(Head(session.byes))
  /\ session' = Schedule([session EXCEPT !.byes = Tail(@),
                                         !.byescheduled = FALSE])
  /\ UNCHANGED butSessionHistory

\* No BYE is left, or maxwaittime is over.
BYEDestroyEnds ==
  AppGoes("byes", "teardown") /\ UNCHANGED sessionvars

\* RTPUDPv4Transmitter::Destroy: a thread that waits is woken, ...
DeleteTransmitter ==
  /\ AppGoes("teardown", "delete")
  /\ trans' = [trans EXCEPT !.socket = <<>>, !.packets = <<>>,
                            !.aborts = IF trans.waiting THEN @ + 1 ELSE @]
  /\ UNCHANGED butTrans

\* ... and its wait must have ended, before the rest of the session goes.
DestroyComponents ==
  /\ trans.waiting => trans.waitmutex = Free
  /\ AppGoes("delete", "none")
  /\ session' = [NoSession EXCEPT !.sentpackets = session.sentpackets]
  /\ UNCHANGED butSession

-----------------------------------------------------------------------------
(* RTPPollThread::Thread.                                                  *)

ThreadGoes(from, to) ==
  /\ thread = from /\ thread' = to
  /\ UNCHANGED <<app, running, continuemutex, continuemutex2>>

\* Before the loop and at the end of its body.
CheckStop ==
  /\ ThreadGoes("check", IF stop THEN "ending" ELSE "sched")
  /\ UNCHANGED sessionvars

\* The scheduler's lock is taken first, then that of the sources, and both are
\* released.
GetTransmissionDelay ==
  /\ sourcesmutex = Free
  /\ ThreadGoes("sched", "wait")
  /\ UNCHANGED sessionvars

\* WaitForIncomingData up to the select ...
WaitForIncomingData ==
  /\ trans.waitmutex = Free
  /\ ThreadGoes("wait", "select")
  /\ trans' = [trans EXCEPT !.waiting = TRUE, !.waitmutex = Thread]
  /\ UNCHANGED butTrans

\* ... which ends when there is something to read ...
SelectReady ==
  /\ trans.socket # <<>> \/ trans.aborts > 0
  /\ ThreadGoes("select", IF trans.aborts > 0 THEN "selected" ELSE "poll")
  /\ trans' = IF trans.aborts > 0 THEN trans
              ELSE [trans EXCEPT !.waiting = FALSE, !.waitmutex = Free]
  /\ UNCHANGED butTrans

\* ... or when the delay is over.
SelectTimesOut ==
  /\ ThreadGoes("select", "poll")
  /\ trans' = [trans EXCEPT !.waiting = FALSE, !.waitmutex = Free]
  /\ UNCHANGED butTrans

ReadSignallingByte ==
  /\ ThreadGoes("selected", "poll")
  /\ trans' = [trans EXCEPT !.waiting = FALSE, !.waitmutex = Free,
                            !.aborts = @ - 1]
  /\ UNCHANGED butTrans

\* The transmitter's Poll moves what arrived to its list of packets.
Poll ==
  /\ ThreadGoes("poll", "process")
  /\ trans' = [trans EXCEPT !.packets = @ \o trans.socket, !.socket = <<>>]
  /\ UNCHANGED butTrans

\* An error of the wait, of Poll or of sending ends the thread; the sources'
\* lock is released on the way.
ThreadFails ==
  /\ \E place \in {"select", "poll", "send"} : ThreadGoes(place, "ending")
  /\ sourcesmutex' = IF thread = "send" THEN Free ELSE sourcesmutex
  /\ trans' = IF thread = "select"
              THEN [trans EXCEPT !.waiting = FALSE, !.waitmutex = Free]
              ELSE trans
  /\ session' = IF thread = "send" /\ session.byes # <<>>
                THEN [session EXCEPT !.byes = Tail(@)] ELSE session
  /\ UNCHANGED <<stop, longwait, history, arrived, sessions>>

-----------------------------------------------------------------------------
(* RTPSession::ProcessPolledData, in the poll thread.                      *)

Process ==
  /\ sourcesmutex = Free
  /\ ThreadGoes("process", "receive")
  /\ sourcesmutex' = Thread
  /\ UNCHANGED butSources

This == Head(trans.packets)
Delete == trans' = [trans EXCEPT !.packets = Tail(@)]
OwnCollision == This.ssrc = session.own

\* GetNextPacket found a packet, ProcessRawPacket handles it under the
\* scheduler's lock; one that collides with the own SSRC is looked at again.
ReceivePacket ==
  /\ trans.packets # <<>> /\ This.ssrc # No
  /\ ThreadGoes("receive", IF OwnCollision THEN "collision" ELSE "receive")
  /\ IF OwnCollision THEN UNCHANGED trans ELSE Delete
  /\ UNCHANGED butTrans

ReceiveFails ==
  /\ trans.packets # <<>> /\ This.ssrc = No
  /\ ThreadGoes("receive", "ending")
  /\ Delete
  /\ sourcesmutex' = Free
  /\ UNCHANGED <<session, stop, longwait, history, arrived,
                 sessions>>

\* An address that collided before only has its time updated; a first collision
\* leaves with the SSRC, and with a BYE if packets were sent with it.
KnownCollision ==
  /\ ThreadGoes("collision", "receive")
  /\ This.from \in session.collisions
  /\ Delete
  /\ UNCHANGED butTrans

FirstCollision ==
  /\ ThreadGoes("collision", IF session.sentpackets THEN "leave" ELSE "newssrc")
  /\ This.from \notin session.collisions
  /\ session' = [session EXCEPT !.collisions = @ \cup {This.from}]
  /\ UNCHANGED butSession

\* Faulty variant: the SSRC is changed before the BYE packet is built.
LeaveSSRCLate ==
  /\ ThreadGoes("leave", "newssrc")
  /\ session' =
       ScheduleFirst([session EXCEPT !.byes = Append(@, session.ssrc + 1)])
  /\ UNCHANGED butSession

\* BuildBYEPacket under the builder's lock; the first BYE is scheduled.
LeaveSSRC ==
  /\ ThreadGoes("leave", "newssrc")
  /\ session' = ScheduleFirst([session EXCEPT !.byes = Append(@, session.ssrc)])
  /\ UNCHANGED butSession

CreateNewSSRC ==
  /\ ThreadGoes("newssrc", "clear")
  /\ session' = [session EXCEPT !.ssrc = @ + 1]
  /\ UNCHANGED butSession

ClearSentPackets ==
  /\ ThreadGoes("clear", "own")
  /\ session' = SetSentPackets(FALSE)
  /\ UNCHANGED butSession

\* Faulty variant: the table keeps the entry of the old SSRC as its own.
KeepOwnSSRC ==
  /\ ThreadGoes("own", "receive")
  /\ Delete
  /\ UNCHANGED butTrans

\* DeleteOwnSSRC and CreateOwnSSRC of the source table.
ReplaceOwnSSRC ==
  /\ ThreadGoes("own", "receive")
  /\ session' = [session EXCEPT !.own = session.ssrc]
  /\ Delete
  /\ UNCHANGED butSessionTrans

NoMorePackets ==
  /\ trans.packets = <<>>
  /\ ThreadGoes("receive", "timeouts")
  /\ UNCHANGED sessionvars

\* MultipleTimeouts, then RTPCollisionList::Timeout forgets old addresses.
Timeouts ==
  /\ ThreadGoes("timeouts", "istime")
  /\ \E young \in SUBSET session.collisions :
       session' = [session EXCEPT !.collisions = young]
  /\ UNCHANGED butSession

\* IsTime says no, or says yes and takes back what was scheduled.
NotTime ==
  /\ ThreadGoes("istime", "step")
  /\ sourcesmutex' = Free
  /\ UNCHANGED butSources

IsTime ==
  /\ ThreadGoes("istime", "send")
  /\ session' = [session EXCEPT !.byescheduled = FALSE]
  /\ UNCHANGED butSession

\* A report goes out with the builder's SSRC, or the next BYE; then the flag.
SendReport ==
  /\ session.byes = <<>>
  /\ ThreadGoes("send", "analyse")
  /\ session' = SetSentPackets(TRUE)
  /\ UNCHANGED butSession

SendBYE ==
  /\ session.byes # <<>>
  /\ ThreadGoes("send", "analyse")
  /\ SendsBYE(Head(session.byes))
  /\ session' =
       Schedule([session EXCEPT !.byes = Tail(@), !.sentpackets = TRUE])
  /\ UNCHANGED butSessionHistory

\* AnalyseOutgoing under the scheduler's lock; ProcessPolledData returns.
AnalyseOutgoing ==
  /\ ThreadGoes("analyse", "step")
  /\ sourcesmutex' = Free
  /\ UNCHANGED butSources

Step == ThreadGoes("step", "check") /\ UNCHANGED sessionvars

-----------------------------------------------------------------------------
\* A packet comes in; others may use any SSRC this session ever had, or send
\* something the source table cannot process.
Arrive ==
  /\ arrived < MaxPackets /\ app \notin {"none", "failed", "delete"}
  /\ \E from \in Address, s \in {No, session.ssrc} :
       trans' = [trans EXCEPT !.socket = Append(@, [from |-> from, ssrc |-> s])]
  /\ arrived' = arrived + 1
  /\ UNCHANGED <<threadvars, session, sourcesmutex, stop, longwait,
                 history, sessions>>

StartSession ==
  \/ (StartInApp /\ UNCHANGED sessionvars) \/ Created \/ CreateFails
StartThread == StartInThread /\ UNCHANGED sessionvars
StopThread ==
  \/ StopSignals \/ StopNothingRuns \/ AbortWait \/ StopDone \/ StopKills
  \/ StopReturns
Teardown ==
  \/ BYEDestroyAdds \/ BYEDestroySends \/ BYEDestroyEnds \/ DeleteTransmitter
  \/ DestroyComponents
Use == Create \/ SendPacket \/ BeginDataAccess \/ Leave
FinishUse == SentRTPPacket \/ PacketSent \/ EndDataAccess
WaitAndPoll ==
  \/ CheckStop \/ GetTransmissionDelay \/ WaitForIncomingData
  \/ SelectReady \/ ReadSignallingByte \/ Poll \/ Step
ProcessPolledData ==
  \/ Process \/ ReceivePacket \/ ReceiveFails \/ KnownCollision
  \/ FirstCollision \/ LeaveSSRC \/ CreateNewSSRC \/ ClearSentPackets
  \/ ReplaceOwnSSRC \/ NoMorePackets \/ Timeouts \/ NotTime \/ IsTime
  \/ SendReport \/ SendBYE \/ AnalyseOutgoing

AppFinishes == StartSession \/ StopThread \/ Teardown \/ FinishUse
ThreadRuns ==
  StartThread \/ WaitAndPoll \/ ProcessPolledData \/ SelectTimesOut

Next == Use \/ AppFinishes \/ ThreadRuns \/ ThreadFails \/ Arrive

Spec == Init /\ [][Next]_vars

\* Each thread goes on when it can, which includes that a delay passes.  The
\* application need not begin anything, nothing need arrive or fail, and the
\* five seconds of Stop need not pass.
Fairness ==
  /\ WF_vars(AppFinishes)
  /\ WF_vars(ThreadRuns)
FairSpec == Spec /\ Fairness

-----------------------------------------------------------------------------
(* Properties.                                                             *)

\* Nothing is half done by ProcessPolledData, and the session is not leaving.
AtRest == sourcesmutex # Thread /\ app \notin AfterStop

\* Outside of ProcessPolledData the source table's own entry is the one of the
\* SSRC that packets are built with, also after collisions changed it.
OwnEntryMatches == AtRest => session.own = session.ssrc

\* The BYE packets a collision left behind are scheduled with RTCPScheduler, and
\* nothing is when there are none, so that each is sent and no report goes out
\* as if it were a BYE.  A thread that an error ended schedules nothing.
BYEsAreScheduled ==
  AtRest /\ thread \notin Over \cup {"ending"} =>
    (session.byescheduled <=> session.byes # <<>>)

\* A BYE packet waits or was sent for an SSRC only once, and never while packets
\* are built with it (SSRC collisions in ProcessPolledData, and BYEDestroy).
LeavesOnce ==
  LET left == history \o session.byes
  IN  /\ IsInjective(left)
      /\ AtRest => session.ssrc \notin ToSet(left)

\* An SSRC is left with one BYE, which is scheduled and not forgotten.
LeavesProperly == TypeOK /\ LeavesOnce /\ BYEsAreScheduled

\* Between BeginDataAccess and EndDataAccess the source table does not change.
AccessIsStable ==
  [][app = "access" => UNCHANGED <<session.own, session.collisions>>]_vars

\* Once Stop has returned the poll thread touches no component any more, whether
\* it ended or was cancelled: BYEDestroy counts on full control.
FullControl ==
  app \in AfterStop => thread \in Over /\ sourcesmutex = Free

\* Destroy and BYEDestroy return when Stop's five seconds are enough, even when
\* AbortWait came too early for the wait it should have ended.
LeavesInTime == ~ longwait => (app \in Leaving ~> app = "none")

\* They return in any case: rtpsession.h promises that BYEDestroy waits at most
\* maxwaittime before it leaves the session.
Leaves == app \in Leaving ~> app = "none"

=============================================================================
