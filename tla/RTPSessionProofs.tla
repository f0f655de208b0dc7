-------------------------- MODULE RTPSessionProofs --------------------------
(***************************************************************************)
(* What the locks and the start and stop handshakes of a session guarantee *)
(* in every interleaving, for any number of packets, sessions and          *)
(* addresses.                                                              *)
(***************************************************************************)
EXTENDS RTPSession, TLAPS

\* Who holds a mutex is seen from where the two threads stand.
LocksHeld ==
  /\ sourcesmutex \in Owner
  /\ sourcesmutex = App <=> app = "access"
  /\ sourcesmutex = Thread <=> thread \in Processing
  /\ continuemutex = IF app = "starting" THEN App ELSE Free
  /\ continuemutex2 =
       IF thread \in {"marked", "continued"} THEN Thread ELSE Free

\* Where the thread can be, seen from where the application stands.
Handshake ==
  /\ running \in BOOLEAN
  /\ running <=> thread \notin Over \cup {"born"}
  /\ app \in {"none", "start", "failed"} => thread \in Over
  /\ app = "starting" => thread \in {"born", "marked"}
  /\ app = "starting2" => thread \notin {"none", "born"}
  /\ StartedMeansStarted
  /\ app \in {"stopped"} \cup AfterStop => thread \in Over

ThreadInvariant == LocksHeld /\ Handshake

\* The own entry is behind the builder only where the thread changes both, and
\* BYE packets are scheduled unless it is about to send one.
Entries ==
  /\ thread \notin {"clear", "own"} => session.own = session.ssrc
  /\ app = "none" <=> session.ssrc = No
  /\ app \in {"none", "start", "failed"} =>
       session.byes = <<>> /\ ~ session.byescheduled
  /\ thread = "send" => ~ session.byescheduled
  /\ thread \notin Over \cup {"ending", "send"} =>
       (session.byescheduled <=> session.byes # <<>>)

\* Where a packet or a signalling byte has been seen, it is still there.
Queues ==
  /\ thread = "selected" => trans.aborts > 0
  /\ thread \in {"collision", "leave", "newssrc", "clear", "own"} =>
       trans.packets # <<>>

\* Each new SSRC was paid for: by a session, or by a packet that collided and is
\* deleted only after the SSRC was changed.
Unread == Len(trans.packets) + Len(trans.socket)
Paid ==
  /\ session.ssrc + Unread <= arrived + sessions + 1
  /\ thread \notin {"clear", "own"} =>
       session.ssrc + Unread <= arrived + sessions

\* The SSRCs that were left or will be.
Left == ToSet(history) \cup ToSet(session.byes)

\* They are all different, ...
Distinct ==
  /\ IsInjective(history) /\ IsInjective(session.byes)
  /\ ToSet(history) \cap ToSet(session.byes) = {}

\* ... none is above the builder's, and that is one of them only when it is
\* about to be changed or the session is about to end.
LeftBehind ==
  /\ \A s \in Left : s <= arrived + sessions
  /\ app # "none" => \A s \in Left : s <= session.ssrc
  /\ app \notin {"none", "byes", "teardown", "delete"}
       /\ thread # "newssrc" => session.ssrc \notin Left

SessionInvariant ==
  /\ ThreadInvariant
  /\ TypeOK
  /\ Entries
  /\ Queues /\ Paid
  /\ Distinct /\ LeftBehind

-----------------------------------------------------------------------------
(* The threads and their locks.                                            *)

LEMMA ThreadInit == Init => ThreadInvariant
  BY DEF Init, JThreadInit, ThreadInvariant, LocksHeld, Handshake,
         StartedMeansStarted, Owner, Free, App, Thread, Processing, Over,
         BeforeStarted, AfterStop

LEMMA UseKeepsThreads ==
  ASSUME ThreadInvariant, Use
  PROVE  ThreadInvariant'
<1> USE DEF ThreadInvariant, LocksHeld, Handshake, StartedMeansStarted, Owner,
            Free, App, Thread, Processing, Over, BeforeStarted, AfterStop
<1>1. CASE Create
  BY <1>1 DEF Create
<1>2. CASE SendPacket
  BY <1>2 DEF SendPacket, AppGoes, sessionvars
<1>3. CASE BeginDataAccess
  BY <1>3 DEF BeginDataAccess, AppGoes, butSources
<1>4. CASE Leave
  BY <1>4 DEF Leave, AppGoes, sessionvars
<1>5. QED
  BY <1>1, <1>2, <1>3, <1>4 DEF Use

LEMMA FinishUseKeepsThreads ==
  ASSUME ThreadInvariant, FinishUse
  PROVE  ThreadInvariant'
<1> USE DEF ThreadInvariant, LocksHeld, Handshake, StartedMeansStarted, Owner,
            Free, App, Thread, Processing, Over, BeforeStarted, AfterStop
<1>1. CASE SentRTPPacket
  BY <1>1 DEF SentRTPPacket, AppGoes, sessionvars
<1>2. CASE PacketSent
  BY <1>2 DEF PacketSent, AppGoes, butSession
<1>3. CASE EndDataAccess
  BY <1>3 DEF EndDataAccess, AppGoes, butSources
<1>4. QED
  BY <1>1, <1>2, <1>3 DEF FinishUse

LEMMA StartSessionKeepsThreads ==
  ASSUME ThreadInvariant, StartSession
  PROVE  ThreadInvariant'
<1> USE DEF ThreadInvariant, LocksHeld, Handshake, StartedMeansStarted, Owner,
            Free, App, Thread, Processing, Over, BeforeStarted, AfterStop
<1>1. CASE StartCreates /\ UNCHANGED sessionvars
  BY <1>1 DEF StartCreates, sessionvars
<1>2. CASE StartSeesRunning /\ UNCHANGED sessionvars
  BY <1>2 DEF StartSeesRunning, sessionvars
<1>3. CASE StartReturns /\ UNCHANGED sessionvars
  BY <1>3 DEF StartReturns, sessionvars
<1>4. CASE StartFails /\ UNCHANGED sessionvars
  BY <1>4 DEF StartFails, sessionvars
<1>5. CASE Created
  BY <1>5 DEF Created, AppGoes, sessionvars
<1>6. CASE CreateFails
  BY <1>6 DEF CreateFails
<1>7. QED
  BY <1>1, <1>2, <1>3, <1>4, <1>5, <1>6 DEF StartSession, StartInApp

LEMMA StartThreadKeepsThreads ==
  ASSUME ThreadInvariant, StartThread
  PROVE  ThreadInvariant'
<1> USE DEF ThreadInvariant, LocksHeld, Handshake, StartedMeansStarted, Owner,
            Free, App, Thread, Processing, Over, BeforeStarted, AfterStop
<1>1. CASE ThreadMarks /\ UNCHANGED sessionvars
  BY <1>1 DEF ThreadMarks, sessionvars
<1>2. CASE ThreadContinues /\ UNCHANGED sessionvars
  BY <1>2 DEF ThreadContinues, sessionvars
<1>3. CASE ThreadStarted /\ UNCHANGED sessionvars
  BY <1>3 DEF ThreadStarted, sessionvars
<1>4. CASE ThreadEnds /\ UNCHANGED sessionvars
  BY <1>4 DEF ThreadEnds, sessionvars
<1>5. QED
  BY <1>1, <1>2, <1>3, <1>4 DEF StartThread, StartInThread

LEMMA StopKeepsThreads ==
  ASSUME ThreadInvariant, StopThread
  PROVE  ThreadInvariant'
<1> USE DEF ThreadInvariant, LocksHeld, Handshake, StartedMeansStarted, Owner,
            Free, App, Thread, Processing, Over, BeforeStarted, AfterStop
<1>1. CASE StopSignals
  BY <1>1 DEF StopSignals, AppGoes, butStop
<1>2. CASE StopNothingRuns
  BY <1>2 DEF StopNothingRuns, AppGoes, sessionvars
<1>3. CASE AbortWait
  BY <1>3 DEF AbortWait, AppGoes, butTrans
<1>4. CASE StopDone
  BY <1>4 DEF StopDone, AppGoes, sessionvars
<1>5. CASE StopKills
  BY <1>5 DEF StopKills, Kill, sessionvars
<1>6. CASE StopReturns
  BY <1>6 DEF StopReturns, AppGoes, butStop
<1>7. QED
  BY <1>1, <1>2, <1>3, <1>4, <1>5, <1>6 DEF StopThread

LEMMA TeardownKeepsThreads ==
  ASSUME ThreadInvariant, Teardown
  PROVE  ThreadInvariant'
<1> USE DEF ThreadInvariant, LocksHeld, Handshake, StartedMeansStarted, Owner,
            Free, App, Thread, Processing, Over, BeforeStarted, AfterStop
<1>1. CASE BYEDestroyAdds
  BY <1>1 DEF BYEDestroyAdds, AppGoes, butSession
<1>2. CASE BYEDestroySends
  BY <1>2 DEF BYEDestroySends, AppGoes, butSessionHistory
<1>3. CASE BYEDestroyEnds
  BY <1>3 DEF BYEDestroyEnds, AppGoes, sessionvars
<1>4. CASE DeleteTransmitter
  BY <1>4 DEF DeleteTransmitter, AppGoes, butTrans
<1>5. CASE DestroyComponents
  BY <1>5 DEF DestroyComponents, AppGoes, butSession
<1>6. QED
  BY <1>1, <1>2, <1>3, <1>4, <1>5 DEF Teardown

LEMMA WaitKeepsThreads ==
  ASSUME ThreadInvariant, WaitAndPoll \/ SelectTimesOut \/ ThreadFails
  PROVE  ThreadInvariant'
<1> USE DEF ThreadInvariant, LocksHeld, Handshake, StartedMeansStarted, Owner,
            Free, App, Thread, Processing, Over, BeforeStarted, AfterStop
<1>1. CASE CheckStop
  BY <1>1 DEF CheckStop, ThreadGoes, sessionvars
<1>2. CASE GetTransmissionDelay
  BY <1>2 DEF GetTransmissionDelay, ThreadGoes, sessionvars
<1>3. CASE WaitForIncomingData
  BY <1>3 DEF WaitForIncomingData, ThreadGoes, butTrans
<1>4. CASE SelectReady
  BY <1>4 DEF SelectReady, ThreadGoes, butTrans
<1>5. CASE SelectTimesOut
  BY <1>5 DEF SelectTimesOut, ThreadGoes, butTrans
<1>6. CASE ReadSignallingByte
  BY <1>6 DEF ReadSignallingByte, ThreadGoes, butTrans
<1>7. CASE Poll
  BY <1>7 DEF Poll, ThreadGoes, butTrans
<1>8. CASE Step
  BY <1>8 DEF Step, ThreadGoes, sessionvars
<1>9. CASE ThreadFails
  BY <1>9 DEF ThreadFails, ThreadGoes
<1>10. QED
  BY <1>1, <1>2, <1>3, <1>4, <1>5, <1>6, <1>7, <1>8, <1>9 DEF WaitAndPoll

LEMMA ProcessKeepsThreads ==
  ASSUME ThreadInvariant, ProcessPolledData
  PROVE  ThreadInvariant'
<1> USE DEF ThreadInvariant, LocksHeld, Handshake, StartedMeansStarted, Owner,
            Free, App, Thread, Processing, Over, BeforeStarted, AfterStop
<1>1. CASE Process
  BY <1>1 DEF Process, ThreadGoes, butSources
<1>2. CASE ReceivePacket
  BY <1>2 DEF ReceivePacket, ThreadGoes, butTrans
<1>3. CASE ReceiveFails
  BY <1>3 DEF ReceiveFails, ThreadGoes
<1>4. CASE KnownCollision
  BY <1>4 DEF KnownCollision, ThreadGoes, butTrans
<1>5. CASE FirstCollision
  BY <1>5 DEF FirstCollision, ThreadGoes, butSession
<1>6. CASE LeaveSSRC
  BY <1>6 DEF LeaveSSRC, ThreadGoes, butSession
<1>7. CASE CreateNewSSRC
  BY <1>7 DEF CreateNewSSRC, ThreadGoes, butSession
<1>8. CASE ClearSentPackets
  BY <1>8 DEF ClearSentPackets, ThreadGoes, butSession
<1>9. CASE ReplaceOwnSSRC
  BY <1>9 DEF ReplaceOwnSSRC, ThreadGoes, butSessionTrans
<1>10. CASE NoMorePackets
  BY <1>10 DEF NoMorePackets, ThreadGoes, sessionvars
<1>11. CASE Timeouts
  BY <1>11 DEF Timeouts, ThreadGoes, butSession
<1>12. CASE NotTime
  BY <1>12 DEF NotTime, ThreadGoes, butSources
<1>13. CASE IsTime
  BY <1>13 DEF IsTime, ThreadGoes, butSession
<1>14. CASE SendReport
  BY <1>14 DEF SendReport, ThreadGoes, butSession
<1>15. CASE SendBYE
  BY <1>15 DEF SendBYE, ThreadGoes, butSessionHistory
<1>16. CASE AnalyseOutgoing
  BY <1>16 DEF AnalyseOutgoing, ThreadGoes, butSources
<1>17. QED
  BY <1>1, <1>2, <1>3, <1>4, <1>5, <1>6, <1>7, <1>8, <1>9, <1>10, <1>11,
     <1>12, <1>13, <1>14, <1>15, <1>16 DEF ProcessPolledData

LEMMA ThreadStep ==
  ASSUME ThreadInvariant, [Next]_vars
  PROVE  ThreadInvariant'
<1>1. CASE Arrive
  BY <1>1
     DEF Arrive, threadvars, ThreadInvariant, LocksHeld, Handshake,
         StartedMeansStarted
<1>2. CASE UNCHANGED vars
  BY <1>2
     DEF vars, threadvars, sessionvars, ThreadInvariant, LocksHeld, Handshake,
         StartedMeansStarted
<1>3. QED
  BY <1>1, <1>2, UseKeepsThreads, FinishUseKeepsThreads,
     StartSessionKeepsThreads, StartThreadKeepsThreads, StopKeepsThreads,
     TeardownKeepsThreads, WaitKeepsThreads, ProcessKeepsThreads
     DEF Next, AppFinishes, ThreadRuns

\* The locks and the handshakes of JThread and RTPPollThread::Stop, for every
\* interleaving.
THEOREM ThreadsAreInStep == Spec => []ThreadInvariant
  BY ThreadInit, ThreadStep, PTL DEF Spec

\* JThread::Start returns only when the poll thread's Thread() was entered and
\* ThreadStarted called, also when that thread ends at once.
THEOREM StartIsRight == Spec => []StartedMeansStarted
<1>1. ThreadInvariant => StartedMeansStarted
  BY DEF ThreadInvariant, Handshake
<1>2. QED
  BY <1>1, ThreadsAreInStep, PTL

\* After RTPPollThread::Stop the poll thread is gone and holds no lock of the
\* session: Destroy and BYEDestroy have it for themselves.
THEOREM ControlIsFull == Spec => []FullControl
<1>1. ThreadInvariant => FullControl
  BY DEF ThreadInvariant, LocksHeld, Handshake, FullControl, AfterStop, Over,
         Processing, Owner, Free, App, Thread
<1>2. QED
  BY <1>1, ThreadsAreInStep, PTL

-----------------------------------------------------------------------------
(* The SSRCs and the BYE packets.                                          *)

\* Appending an element to a sequence, and taking its head away.
LEMMA AppendFacts ==
  ASSUME NEW S, NEW s \in Seq(S), NEW e \in S
  PROVE  /\ ToSet(Append(s, e)) = ToSet(s) \cup {e}
         /\ IsInjective(s) /\ e \notin ToSet(s) => IsInjective(Append(s, e))
<1> DEFINE a == Append(s, e)
           n == Len(s) + 1
<1>1. \A i \in DOMAIN a :
        (i \in DOMAIN s /\ a[i] = s[i]) \/ (i = n /\ a[i] = e)
  OBVIOUS
<1>2. \A i \in DOMAIN s : i \in DOMAIN a /\ a[i] = s[i]
  OBVIOUS
<1>3. n \in DOMAIN a /\ a[n] = e
  OBVIOUS
<1> HIDE DEF a, n
<1>4. ToSet(a) \subseteq ToSet(s) \cup {e}
  BY <1>1 DEF ToSet
<1>5. ToSet(s) \cup {e} \subseteq ToSet(a)
  BY <1>2, <1>3 DEF ToSet
<1>6. ASSUME IsInjective(s), e \notin ToSet(s) PROVE IsInjective(a)
  BY <1>1, <1>6 DEF ToSet, IsInjective
<1>7. QED
  BY <1>4, <1>5, <1>6 DEF a

LEMMA TailFacts ==
  ASSUME NEW S, NEW s \in Seq(S), s # <<>>
  PROVE  /\ ToSet(s) = {Head(s)} \cup ToSet(Tail(s))
         /\ IsInjective(s) =>
              IsInjective(Tail(s)) /\ Head(s) \notin ToSet(Tail(s))
<1> DEFINE t == Tail(s)
<1>1. \A i \in DOMAIN t :
        i \in Nat \ {0} /\ i + 1 \in DOMAIN s /\ t[i] = s[i + 1]
  OBVIOUS
<1>2. \A i \in DOMAIN s :
        \/ i = 1 /\ s[i] = Head(s)
        \/ i - 1 \in DOMAIN t /\ t[i - 1] = s[i]
  OBVIOUS
<1>3. 1 \in DOMAIN s /\ s[1] = Head(s)
  OBVIOUS
<1> HIDE DEF t
<1>4. ToSet(s) \subseteq {Head(s)} \cup ToSet(t)
  BY <1>2 DEF ToSet
<1>5. {Head(s)} \cup ToSet(t) \subseteq ToSet(s)
  BY <1>1, <1>3 DEF ToSet
<1>6. ASSUME IsInjective(s) PROVE IsInjective(t) /\ Head(s) \notin ToSet(t)
  BY <1>1, <1>3, <1>6 DEF ToSet, IsInjective
<1>7. QED
  BY <1>4, <1>5, <1>6 DEF t

\* Two sequences without repetitions that share nothing.
LEMMA ConcatFacts ==
  ASSUME NEW S, NEW s \in Seq(S), NEW t \in Seq(S),
         IsInjective(s), IsInjective(t), ToSet(s) \cap ToSet(t) = {}
  PROVE  /\ IsInjective(s \o t)
         /\ ToSet(s \o t) = ToSet(s) \cup ToSet(t)
<1>1. \A i \in DOMAIN (s \o t) :
        \/ i \in DOMAIN s /\ (s \o t)[i] = s[i]
        \/ i - Len(s) \in DOMAIN t /\ (s \o t)[i] = t[i - Len(s)]
  OBVIOUS
<1>2. /\ \A i \in DOMAIN s : i \in DOMAIN (s \o t) /\ (s \o t)[i] = s[i]
      /\ \A i \in DOMAIN t : /\ i + Len(s) \in DOMAIN (s \o t)
                             /\ (s \o t)[i + Len(s)] = t[i]
  OBVIOUS
<1>3. DOMAIN (s \o t) \subseteq Nat /\ Len(s) \in Nat
  OBVIOUS
<1>4. IsInjective(s \o t)
  <2>1. SUFFICES ASSUME NEW i \in DOMAIN (s \o t), NEW j \in DOMAIN (s \o t),
                        (s \o t)[i] = (s \o t)[j]
                 PROVE  i = j
    BY DEF IsInjective
  <2>2. ~ (i \in DOMAIN s /\ (s \o t)[i] = s[i]
             /\ j - Len(s) \in DOMAIN t /\ (s \o t)[j] = t[j - Len(s)])
    BY <2>1 DEF ToSet
  <2>3. ~ (j \in DOMAIN s /\ (s \o t)[j] = s[j]
             /\ i - Len(s) \in DOMAIN t /\ (s \o t)[i] = t[i - Len(s)])
    BY <2>1 DEF ToSet
  <2>4. CASE /\ i \in DOMAIN s /\ (s \o t)[i] = s[i]
             /\ j \in DOMAIN s /\ (s \o t)[j] = s[j]
    BY <2>1, <2>4 DEF IsInjective
  <2>5. CASE /\ i - Len(s) \in DOMAIN t /\ (s \o t)[i] = t[i - Len(s)]
             /\ j - Len(s) \in DOMAIN t /\ (s \o t)[j] = t[j - Len(s)]
    <3>1. i - Len(s) = j - Len(s)
      BY <2>1, <2>5 DEF IsInjective
    <3>2. QED
      BY <3>1, <1>3
  <2>6. QED
    BY <1>1, <2>2, <2>3, <2>4, <2>5
<1>5. ToSet(s \o t) = ToSet(s) \cup ToSet(t)
  <2>1. ToSet(s \o t) \subseteq ToSet(s) \cup ToSet(t)
    BY <1>1 DEF ToSet
  <2>2. ToSet(s) \cup ToSet(t) \subseteq ToSet(s \o t)
    BY <1>2 DEF ToSet
  <2>3. QED
    BY <2>1, <2>2
<1>6. QED
  BY <1>4, <1>5

\* What the sequences and the records are after the steps that change them.
LEMMA SSRCs ==
  /\ SSRC = 1..(MaxSessions + MaxPackets)
  /\ SSRC \subseteq Nat \ {0} /\ No \notin SSRC
  BY BoundsAssumption DEF SSRC, No

LEMMA QueuesTyped ==
  ASSUME TransTypeOK
  PROVE  /\ trans.aborts + 1 \in Nat
         /\ trans.aborts > 0 => trans.aborts - 1 \in Nat
         /\ trans.packets # <<>> => Tail(trans.packets) \in Seq(Packet)
         /\ trans.packets \o trans.socket \in Seq(Packet)
         /\ <<>> \in Seq(Packet)
  BY DEF TransTypeOK

LEMMA BYEsTyped ==
  ASSUME SessionTypeOK
  PROVE  /\ session.byes # <<>> =>
              Head(session.byes) \in SSRC /\ Tail(session.byes) \in Seq(SSRC)
         /\ \A s \in SSRC : /\ Append(session.byes, s) \in Seq(SSRC)
                            /\ Append(session.byes, s) # <<>>
                            /\ Len(Append(session.byes, s)) = 1 <=>
                                 session.byes = <<>>
         /\ <<>> \in Seq(SSRC)
<1>1. session.byes \in Seq(SSRC)
  BY DEF SessionTypeOK
<1>2. session.byes # <<>> =>
        Head(session.byes) \in SSRC /\ Tail(session.byes) \in Seq(SSRC)
  BY <1>1
<1>3. ASSUME NEW s \in SSRC
      PROVE  /\ Append(session.byes, s) \in Seq(SSRC)
             /\ Append(session.byes, s) # <<>>
             /\ Len(Append(session.byes, s)) = 1 <=> session.byes = <<>>
  BY <1>1
<1>4. <<>> \in Seq(SSRC)
  OBVIOUS
<1>5. QED
  BY <1>2, <1>3, <1>4

LEMMA CollisionsTyped ==
  ASSUME TransTypeOK, trans.packets # <<>>
  PROVE  This \in Packet /\ This.from \in Address
<1>1. This \in Packet
  BY DEF TransTypeOK, This
<1>2. QED
  BY <1>1 DEF Packet

\* How many packets are on their way to the source table.
LEMMA UnreadFacts ==
  ASSUME TransTypeOK
  PROVE  /\ Unread \in Nat
         /\ trans.packets # <<>> => Unread > 0
<1>1. trans.packets \in Seq(Packet) /\ trans.socket \in Seq(Packet)
  BY DEF TransTypeOK
<1>2. PICK n \in Nat :
        n = Len(trans.packets) /\ (trans.packets # <<>> => n > 0)
  BY <1>1
<1>3. PICK m \in Nat : m = Len(trans.socket)
  BY <1>1
<1>4. Unread = n + m
  BY <1>2, <1>3 DEF Unread
<1>5. QED
  BY <1>2, <1>4

LEMMA UnreadSteps ==
  ASSUME TransTypeOK
  PROVE  /\ trans' = NewTransmitter \/ DeleteTransmitter => Unread' = 0
         /\ (\/ AbortWait \/ WaitForIncomingData \/ SelectReady
             \/ SelectTimesOut \/ ReadSignallingByte \/ Poll \/ ThreadFails)
              => Unread' = Unread
         /\ trans.packets # <<>> /\ Delete => Unread' = Unread - 1
         /\ Arrive => Unread' = Unread + 1
<1>1. /\ trans.packets \in Seq(Packet) /\ trans.socket \in Seq(Packet)
      /\ trans = [waiting |-> trans.waiting, waitmutex |-> trans.waitmutex,
                  aborts |-> trans.aborts, socket |-> trans.socket,
                  packets |-> trans.packets]
  BY DEF TransTypeOK
<1>2. ASSUME trans' = NewTransmitter \/ DeleteTransmitter PROVE Unread' = 0
  <2>1. trans'.packets = <<>> /\ trans'.socket = <<>>
    <3>1. CASE trans' = NewTransmitter
      BY <3>1 DEF NewTransmitter
    <3>2. CASE DeleteTransmitter
      BY <1>1, <3>2 DEF DeleteTransmitter
    <3>3. QED
      BY <1>2, <3>1, <3>2
  <2>2. QED
    BY <2>1 DEF Unread
<1>3. ASSUME \/ AbortWait \/ WaitForIncomingData \/ SelectReady
             \/ SelectTimesOut \/ ReadSignallingByte \/ ThreadFails
      PROVE  Unread' = Unread
  <2>1. trans'.packets = trans.packets /\ trans'.socket = trans.socket
    BY <1>1, <1>3
       DEF AbortWait, WaitForIncomingData, SelectReady, SelectTimesOut,
           ReadSignallingByte, ThreadFails
  <2>2. QED
    BY <2>1 DEF Unread
<1>4. ASSUME Poll PROVE Unread' = Unread
  <2>1. trans'.packets = trans.packets \o trans.socket /\ trans'.socket = <<>>
    BY <1>1, <1>4 DEF Poll
  <2>2. Len(trans.packets \o trans.socket) =
          Len(trans.packets) + Len(trans.socket)
    BY <1>1
  <2>3. QED
    BY <1>1, <2>1, <2>2 DEF Unread
<1>5. ASSUME trans.packets # <<>>, Delete PROVE Unread' = Unread - 1
  <2>1. trans'.packets = Tail(trans.packets) /\ trans'.socket = trans.socket
    BY <1>1, <1>5 DEF Delete
  <2>2. PICK n \in Nat :
          Len(trans.packets) = n /\ Len(Tail(trans.packets)) = n - 1
    BY <1>1, <1>5
  <2>3. PICK m \in Nat : Len(trans.socket) = m
    BY <1>1
  <2>4. Unread = n + m /\ Unread' = n - 1 + m
    BY <2>1, <2>2, <2>3 DEF Unread
  <2>5. QED
    BY <2>4
<1>6. ASSUME Arrive PROVE Unread' = Unread + 1
  <2>1. PICK packet : trans' = [trans EXCEPT !.socket = Append(@, packet)]
    BY <1>6 DEF Arrive
  <2>2. /\ trans'.packets = trans.packets
        /\ trans'.socket = Append(trans.socket, packet)
    BY <1>1, <2>1
  <2>3. Len(Append(trans.socket, packet)) = Len(trans.socket) + 1
    BY <1>1
  <2>4. QED
    BY <1>1, <2>2, <2>3 DEF Unread
<1>7. QED
  BY <1>2, <1>3, <1>4, <1>5, <1>6

\* An SSRC is in use as long as there is a session, and a new one is in range.
LEMMA SSRCsInRange ==
  ASSUME SessionInvariant
  PROVE  /\ app # "none" => session.ssrc \in SSRC
         /\ thread = "newssrc" => session.ssrc + 1 \in SSRC
         /\ sessions < MaxSessions => arrived + sessions + 1 \in SSRC
<1>1. /\ session.ssrc \in SSRC \cup {No} /\ MaxSessions \in Nat
      /\ MaxPackets \in Nat
      /\ arrived \in 0..MaxPackets /\ sessions \in 0..MaxSessions
  BY BoundsAssumption DEF SessionInvariant, TypeOK, SessionTypeOK
<1>2. app # "none" => session.ssrc \in SSRC
  BY <1>1 DEF SessionInvariant, Entries
<1>3. ASSUME thread = "newssrc" PROVE session.ssrc + 1 \in SSRC
  <2>1. Unread \in Nat \ {0}
    BY <1>3, UnreadFacts DEF SessionInvariant, Queues, TypeOK
  <2>2. session.ssrc + Unread <= arrived + sessions
    BY <1>3 DEF SessionInvariant, Paid
  <2>3. session.ssrc \in Nat
    BY <1>1, SSRCs DEF No
  <2>4. session.ssrc + 1 <= arrived + sessions
    BY <1>1, <2>1, <2>2, <2>3
  <2>5. QED
    BY <1>1, <2>3, <2>4, SSRCs
<1>4. sessions < MaxSessions => arrived + sessions + 1 \in SSRC
  BY <1>1, SSRCs
<1>5. QED
  BY <1>2, <1>3, <1>4

LEMMA SessionStep ==
  ASSUME SessionInvariant, [Next]_vars
  PROVE  SessionTypeOK'
<1>1. /\ SessionTypeOK /\ TransTypeOK /\ ThreadInvariant /\ Queues
      /\ Free \in Owner /\ Thread \in Owner
  BY DEF SessionInvariant, TypeOK, Owner
<1>2. CASE UNCHANGED session
  BY <1>1, <1>2 DEF SessionTypeOK
<1>3. CASE Use
  <2>1. CASE Create
    BY <1>1, <2>1, SSRCsInRange DEF Create, InternalCreate, SessionTypeOK
  <2>2. QED
    BY <1>2, <1>3, <2>1 DEF Use, SendPacket, BeginDataAccess, Leave,
       AppGoes, butSources, sessionvars
<1>4. CASE FinishUse
  <2>1. CASE PacketSent
    BY <1>1, <2>1 DEF PacketSent, SetSentPackets, SessionTypeOK
  <2>2. QED
    BY <1>2, <1>4, <2>1 DEF FinishUse, SentRTPPacket, EndDataAccess,
       AppGoes, butSession, butSources, sessionvars
<1>5. CASE StartSession
  <2>1. CASE CreateFails
    BY <1>1, <2>1 DEF CreateFails, SessionTypeOK
  <2>2. QED
    BY <1>2, <1>5, <2>1 DEF StartInApp, StartSession, Created, AppGoes,
       sessionvars
<1>6. CASE StartThread
  BY <1>2, <1>6 DEF StartThread, sessionvars
<1>7. CASE StopThread
  BY <1>2, <1>7 DEF StopThread, StopSignals, StopNothingRuns, AbortWait,
     StopDone, StopKills, StopReturns, butStop, butTrans, sessionvars
<1>8. CASE Teardown
  <2>1. CASE BYEDestroyAdds
    BY <1>1, <2>1, SSRCsInRange, BYEsTyped DEF BYEDestroyAdds,
       ScheduleFirst, Schedule, AppGoes, SessionTypeOK
  <2>2. CASE BYEDestroySends
    BY <1>1, <2>2, BYEsTyped DEF BYEDestroySends, Schedule, SessionTypeOK
  <2>3. CASE DestroyComponents
    BY <1>1, <2>3, BYEsTyped DEF DestroyComponents, NoSession, SessionTypeOK
  <2>4. QED
    BY <1>2, <1>8, <2>1, <2>2, <2>3 DEF Teardown, BYEDestroyEnds,
       DeleteTransmitter, butTrans, butSession,
       butSessionHistory, sessionvars
<1>9. CASE WaitAndPoll
  BY <1>2, <1>9 DEF WaitAndPoll, CheckStop, GetTransmissionDelay,
     WaitForIncomingData, SelectReady, ReadSignallingByte, Poll, Step,
     butTrans, sessionvars
<1>10. CASE ProcessPolledData
  <2>1. CASE FirstCollision
    BY <1>1, <2>1, CollisionsTyped DEF FirstCollision, ThreadGoes, Queues,
       SessionTypeOK
  <2>2. CASE LeaveSSRC
    BY <1>1, <2>2, SSRCsInRange, BYEsTyped DEF LeaveSSRC, ThreadGoes,
       LocksHeld, ThreadInvariant, Handshake, Over, ScheduleFirst, Schedule,
       SessionTypeOK
  <2>3. CASE CreateNewSSRC
    BY <1>1, <2>3, SSRCsInRange DEF CreateNewSSRC, ThreadGoes, SessionTypeOK
  <2>4. CASE ClearSentPackets
    BY <1>1, <2>4 DEF ClearSentPackets, SetSentPackets, SessionTypeOK
  <2>5. CASE ReplaceOwnSSRC
    BY <1>1, <2>5 DEF ReplaceOwnSSRC, SessionTypeOK
  <2>6. CASE Timeouts
    BY <1>1, <2>6 DEF Timeouts, SessionTypeOK
  <2>7. CASE IsTime
    BY <1>1, <2>7 DEF IsTime, SessionTypeOK
  <2>8. CASE SendReport
    BY <1>1, <2>8 DEF SendReport, SetSentPackets, SessionTypeOK
  <2>9. CASE SendBYE
    BY <1>1, <2>9, BYEsTyped DEF SendBYE, Schedule, SessionTypeOK
  <2>10. QED
    BY <1>2, <1>10, <2>1, <2>2, <2>3, <2>4, <2>5, <2>6, <2>7, <2>8, <2>9 DEF
       ProcessPolledData, Process, ReceivePacket, ReceiveFails,
       KnownCollision, NoMorePackets, NotTime, AnalyseOutgoing, butSources,
       butTrans, butSession, butSessionTrans, butSessionHistory, sessionvars
<1>11. CASE SelectTimesOut
  BY <1>2, <1>11 DEF SelectTimesOut, butTrans, SessionTypeOK
<1>12. CASE ThreadFails
  BY <1>1, <1>12, BYEsTyped DEF ThreadFails, SessionTypeOK
<1>13. CASE Arrive
  BY <1>2, <1>13 DEF Arrive
<1>14. QED
  BY <1>2, <1>3, <1>4, <1>5, <1>6, <1>7, <1>8, <1>9, <1>10, <1>11, <1>12,
     <1>13 DEF Next, AppFinishes, ThreadRuns, vars, sessionvars

LEMMA TransStep ==
  ASSUME SessionInvariant, [Next]_vars
  PROVE  TransTypeOK'
<1>1. /\ SessionTypeOK /\ TransTypeOK /\ ThreadInvariant /\ Queues
      /\ Free \in Owner /\ Thread \in Owner
  BY DEF SessionInvariant, TypeOK, Owner
<1>2. CASE UNCHANGED trans
  BY <1>1, <1>2 DEF TransTypeOK
<1>3. CASE Use
  <2>1. CASE Create
    BY <1>1, <2>1, QueuesTyped DEF Create, NewTransmitter, TransTypeOK
  <2>2. QED
    BY <1>2, <1>3, <2>1 DEF Use, SendPacket, BeginDataAccess, Leave,
       AppGoes, butSources, sessionvars
<1>4. CASE FinishUse
  BY <1>2, <1>4 DEF FinishUse, SentRTPPacket, PacketSent, EndDataAccess,
     AppGoes, butSession, butSources, sessionvars
<1>5. CASE StartSession
  <2>1. CASE CreateFails
    BY <1>1, <2>1, QueuesTyped DEF CreateFails, NewTransmitter, TransTypeOK
  <2>2. QED
    BY <1>2, <1>5, <2>1 DEF StartInApp, StartSession, Created, AppGoes,
       sessionvars
<1>6. CASE StartThread
  BY <1>2, <1>6 DEF StartThread, sessionvars
<1>7. CASE StopThread
  <2>1. CASE AbortWait
    BY <1>1, <2>1, QueuesTyped DEF AbortWait, TransTypeOK
  <2>2. QED
    BY <1>2, <1>7, <2>1 DEF StopThread, StopSignals, StopNothingRuns,
       StopDone, StopKills, StopReturns, butStop, butTrans, sessionvars
<1>8. CASE Teardown
  <2>1. CASE DeleteTransmitter
    BY <1>1, <2>1, QueuesTyped DEF DeleteTransmitter, TransTypeOK
  <2>2. QED
    BY <1>2, <1>8, <2>1 DEF Teardown, BYEDestroyAdds, BYEDestroySends,
       BYEDestroyEnds, DestroyComponents, butTrans, butSession,
       butSessionHistory, sessionvars
<1>9. CASE WaitAndPoll
  <2>1. CASE WaitForIncomingData
    BY <1>1, <2>1 DEF WaitForIncomingData, TransTypeOK
  <2>2. CASE SelectReady
    BY <1>1, <2>2 DEF SelectReady, TransTypeOK
  <2>3. CASE ReadSignallingByte
    BY <1>1, <2>3, QueuesTyped DEF ReadSignallingByte, ThreadGoes, Queues,
       TransTypeOK
  <2>4. CASE Poll
    BY <1>1, <2>4, QueuesTyped DEF Poll, TransTypeOK
  <2>5. QED
    BY <1>2, <1>9, <2>1, <2>2, <2>3, <2>4 DEF WaitAndPoll, CheckStop,
       GetTransmissionDelay, Step, butTrans, sessionvars
<1>10. CASE ProcessPolledData
  <2>1. CASE ReceivePacket
    BY <1>1, <2>1, QueuesTyped DEF ReceivePacket, Delete, TransTypeOK
  <2>2. CASE ReceiveFails
    BY <1>1, <2>2, QueuesTyped DEF ReceiveFails, Delete, TransTypeOK
  <2>3. CASE KnownCollision
    BY <1>1, <2>3, QueuesTyped DEF KnownCollision, Delete, ThreadGoes,
       Queues, TransTypeOK
  <2>4. CASE ReplaceOwnSSRC
    BY <1>1, <2>4, QueuesTyped DEF ReplaceOwnSSRC, Delete, ThreadGoes,
       Queues, TransTypeOK
  <2>5. QED
    BY <1>2, <1>10, <2>1, <2>2, <2>3, <2>4 DEF ProcessPolledData, Process,
       FirstCollision, LeaveSSRC, CreateNewSSRC, ClearSentPackets,
       NoMorePackets, Timeouts, NotTime, IsTime, SendReport, SendBYE,
       AnalyseOutgoing, butSources, butTrans, butSession, butSessionTrans,
       butSessionHistory, sessionvars
<1>11. CASE SelectTimesOut
  BY <1>1, <1>11 DEF SelectTimesOut, butTrans, TransTypeOK
<1>12. CASE ThreadFails
  BY <1>1, <1>12, BYEsTyped DEF ThreadFails, TransTypeOK
<1>13. CASE Arrive
  <2>1. PICK packet \in Packet :
          trans' = [trans EXCEPT !.socket = Append(@, packet)]
    BY <1>13, SSRCsInRange DEF Arrive, Packet
  <2>2. Append(trans.socket, packet) \in Seq(Packet)
    BY <1>1 DEF TransTypeOK
  <2>3. QED
    BY <1>1, <2>1, <2>2 DEF TransTypeOK
<1>14. QED
  BY <1>2, <1>3, <1>4, <1>5, <1>6, <1>7, <1>8, <1>9, <1>10, <1>11, <1>12,
     <1>13 DEF Next, AppFinishes, ThreadRuns, vars, sessionvars

LEMMA EntriesStep ==
  ASSUME SessionInvariant, [Next]_vars
  PROVE  Entries'
<1>1. /\ SessionTypeOK /\ Entries /\ LocksHeld /\ Handshake
  BY DEF SessionInvariant, ThreadInvariant, TypeOK
<1> USE DEF LocksHeld, Handshake
<1> USE DEF Entries, Owner, Free, App, Thread, Processing, Over,
   BeforeStarted, AfterStop
<1>2. CASE Use
  <2>1. CASE Create
    BY <1>1, <2>1, SSRCsInRange, SSRCs DEF Create, InternalCreate,
       NewTransmitter
  <2>2. CASE SendPacket
    BY <1>1, <2>2 DEF SendPacket, AppGoes, sessionvars
  <2>3. CASE BeginDataAccess
    BY <1>1, <2>3 DEF BeginDataAccess, AppGoes, butSources
  <2>4. CASE Leave
    BY <1>1, <2>4 DEF Leave, AppGoes, sessionvars
  <2>5. QED
    BY <1>2, <2>1, <2>2, <2>3, <2>4 DEF Use
<1>3. CASE FinishUse
  <2>1. CASE SentRTPPacket
    BY <1>1, <2>1 DEF SentRTPPacket, AppGoes, sessionvars
  <2>2. CASE PacketSent
    BY <1>1, <2>2 DEF PacketSent, SetSentPackets, AppGoes, butSession
  <2>3. CASE EndDataAccess
    BY <1>1, <2>3 DEF EndDataAccess, AppGoes, butSources
  <2>4. QED
    BY <1>3, <2>1, <2>2, <2>3 DEF FinishUse
<1>4. CASE StartSession
  <2>1. CASE StartInApp /\ UNCHANGED sessionvars
    BY <1>1, <2>1 DEF StartInApp, StartCreates, StartSeesRunning,
       StartReturns, StartFails, sessionvars
  <2>2. CASE Created
    BY <1>1, <2>2 DEF Created, AppGoes, sessionvars
  <2>3. CASE CreateFails
    BY <1>1, <2>3 DEF CreateFails, NewTransmitter
  <2>4. QED
    BY <1>4, <2>1, <2>2, <2>3 DEF StartSession
<1>5. CASE StartThread
  BY <1>1, <1>5 DEF StartThread, StartInThread, ThreadMarks,
     ThreadContinues, ThreadStarted, ThreadEnds, sessionvars
<1>6. CASE StopThread
  <2>1. CASE StopSignals
    BY <1>1, <2>1 DEF StopSignals, AppGoes, butStop
  <2>2. CASE StopNothingRuns
    BY <1>1, <2>2 DEF StopNothingRuns, AppGoes, sessionvars
  <2>3. CASE AbortWait
    BY <1>1, <2>3 DEF AbortWait, AppGoes, butTrans
  <2>4. CASE StopDone
    BY <1>1, <2>4 DEF StopDone, AppGoes, sessionvars
  <2>5. CASE StopKills
    BY <1>1, <2>5 DEF StopKills, Kill, sessionvars
  <2>6. CASE StopReturns
    BY <1>1, <2>6 DEF StopReturns, AppGoes, butStop
  <2>7. QED
    BY <1>6, <2>1, <2>2, <2>3, <2>4, <2>5, <2>6 DEF StopThread
<1>7. CASE Teardown
  <2>1. CASE BYEDestroyAdds
    BY <1>1, <2>1, BYEsTyped DEF BYEDestroyAdds, ScheduleFirst, Schedule,
       AppGoes, butSession, SessionTypeOK
  <2>2. CASE BYEDestroySends
    BY <1>1, <2>2 DEF BYEDestroySends, SendsBYE, Schedule, AppGoes,
       butSessionHistory
  <2>3. CASE BYEDestroyEnds
    BY <1>1, <2>3 DEF BYEDestroyEnds, AppGoes, sessionvars
  <2>4. CASE DeleteTransmitter
    BY <1>1, <2>4 DEF DeleteTransmitter, AppGoes, butTrans
  <2>5. CASE DestroyComponents
    BY <1>1, <2>5 DEF DestroyComponents, NoSession, AppGoes, butSession
  <2>6. QED
    BY <1>7, <2>1, <2>2, <2>3, <2>4, <2>5 DEF Teardown
<1>8. CASE WaitAndPoll
  <2>1. CASE CheckStop
    BY <1>1, <2>1 DEF CheckStop, ThreadGoes, sessionvars
  <2>2. CASE GetTransmissionDelay
    BY <1>1, <2>2 DEF GetTransmissionDelay, ThreadGoes, sessionvars
  <2>3. CASE WaitForIncomingData
    BY <1>1, <2>3 DEF WaitForIncomingData, ThreadGoes, butTrans
  <2>4. CASE SelectReady
    BY <1>1, <2>4 DEF SelectReady, ThreadGoes, butTrans
  <2>5. CASE ReadSignallingByte
    BY <1>1, <2>5 DEF ReadSignallingByte, ThreadGoes, butTrans
  <2>6. CASE Poll
    BY <1>1, <2>6 DEF Poll, ThreadGoes, butTrans
  <2>7. CASE Step
    BY <1>1, <2>7 DEF Step, ThreadGoes, sessionvars
  <2>8. QED
    BY <1>8, <2>1, <2>2, <2>3, <2>4, <2>5, <2>6, <2>7 DEF WaitAndPoll
<1>9. CASE ProcessPolledData
  <2>1. CASE Process
    BY <1>1, <2>1 DEF Process, ThreadGoes, butSources
  <2>2. CASE ReceivePacket
    BY <1>1, <2>2 DEF ReceivePacket, Delete, ThreadGoes, butTrans
  <2>3. CASE ReceiveFails
    BY <1>1, <2>3 DEF ReceiveFails, Delete, ThreadGoes
  <2>4. CASE KnownCollision
    BY <1>1, <2>4 DEF KnownCollision, Delete, ThreadGoes, butTrans
  <2>5. CASE FirstCollision
    BY <1>1, <2>5 DEF FirstCollision, ThreadGoes, butSession
  <2>6. CASE LeaveSSRC
    BY <1>1, <2>6, BYEsTyped DEF LeaveSSRC, ScheduleFirst, Schedule,
       ThreadGoes, butSession, SessionTypeOK
  <2>7. CASE CreateNewSSRC
    BY <1>1, <2>7, SSRCsInRange, SSRCs DEF CreateNewSSRC, ThreadGoes,
       butSession, SessionTypeOK
  <2>8. CASE ClearSentPackets
    BY <1>1, <2>8 DEF ClearSentPackets, SetSentPackets, ThreadGoes,
       butSession
  <2>9. CASE ReplaceOwnSSRC
    BY <1>1, <2>9 DEF ReplaceOwnSSRC, Delete, ThreadGoes, butSessionTrans
  <2>10. CASE NoMorePackets
    BY <1>1, <2>10 DEF NoMorePackets, ThreadGoes, sessionvars
  <2>11. CASE Timeouts
    BY <1>1, <2>11 DEF Timeouts, ThreadGoes, butSession
  <2>12. CASE NotTime
    BY <1>1, <2>12 DEF NotTime, ThreadGoes, butSources
  <2>13. CASE IsTime
    BY <1>1, <2>13 DEF IsTime, ThreadGoes, butSession
  <2>14. CASE SendReport
    BY <1>1, <2>14 DEF SendReport, SetSentPackets, ThreadGoes, butSession
  <2>15. CASE SendBYE
    BY <1>1, <2>15 DEF SendBYE, SendsBYE, Schedule, ThreadGoes,
       butSessionHistory, SessionTypeOK
  <2>16. CASE AnalyseOutgoing
    BY <1>1, <2>16 DEF AnalyseOutgoing, ThreadGoes, butSources
  <2>17. QED
    BY <1>9, <2>1, <2>2, <2>3, <2>4, <2>5, <2>6, <2>7, <2>8, <2>9, <2>10,
       <2>11, <2>12, <2>13, <2>14, <2>15, <2>16 DEF ProcessPolledData
<1>10. CASE SelectTimesOut
  BY <1>1, <1>10 DEF SelectTimesOut, ThreadGoes, butTrans
<1>11. CASE ThreadFails
  BY <1>1, <1>11 DEF ThreadFails, ThreadGoes
<1>12. CASE Arrive
  BY <1>1, <1>12 DEF Arrive, threadvars
<1>13. CASE UNCHANGED vars
  BY <1>1, <1>13 DEF vars, threadvars, sessionvars
<1>14. QED
  BY <1>2, <1>3, <1>4, <1>5, <1>6, <1>7, <1>8, <1>9, <1>10, <1>11, <1>12,
     <1>13 DEF Next, AppFinishes, ThreadRuns

LEMMA QueuesStep ==
  ASSUME SessionInvariant, [Next]_vars
  PROVE  Queues'
<1>1. /\ Queues
      /\ trans.packets # <<>> => Len(trans.packets) > 0
      /\ app \in {"none", "start", "failed"} \cup AfterStop => thread \in Over
      /\ trans.waiting \in BOOLEAN /\ trans.aborts \in Nat
  BY DEF SessionInvariant, ThreadInvariant, Handshake, TypeOK, TransTypeOK
<1>2. TransTypeOK
  BY DEF SessionInvariant, TypeOK
<1> USE DEF Queues
<1>3. CASE Use
  <2>1. CASE Create
    BY <1>1, <2>1 DEF Create, InternalCreate, NewTransmitter, AfterStop,
       Over
  <2>2. CASE SendPacket
    BY <1>1, <2>2 DEF SendPacket, AppGoes, sessionvars
  <2>3. CASE BeginDataAccess
    BY <1>1, <2>3 DEF BeginDataAccess, AppGoes, butSources
  <2>4. CASE Leave
    BY <1>1, <2>4 DEF Leave, AppGoes, sessionvars
  <2>5. QED
    BY <1>3, <2>1, <2>2, <2>3, <2>4 DEF Use
<1>4. CASE FinishUse
  <2>1. CASE SentRTPPacket
    BY <1>1, <2>1 DEF SentRTPPacket, AppGoes, sessionvars
  <2>2. CASE PacketSent
    BY <1>1, <2>2 DEF PacketSent, SetSentPackets, AppGoes, butSession
  <2>3. CASE EndDataAccess
    BY <1>1, <2>3 DEF EndDataAccess, AppGoes, butSources
  <2>4. QED
    BY <1>4, <2>1, <2>2, <2>3 DEF FinishUse
<1>5. CASE StartSession
  <2>1. CASE StartInApp /\ UNCHANGED sessionvars
    BY <1>1, <2>1 DEF StartInApp, StartCreates, StartSeesRunning,
       StartReturns, StartFails, sessionvars
  <2>2. CASE Created
    BY <1>1, <2>2 DEF Created, AppGoes, sessionvars
  <2>3. CASE CreateFails
    BY <1>1, <2>3 DEF CreateFails, NewTransmitter, Over
  <2>4. QED
    BY <1>5, <2>1, <2>2, <2>3 DEF StartSession
<1>6. CASE StartThread
  BY <1>1, <1>6 DEF StartThread, StartInThread, ThreadMarks,
     ThreadContinues, ThreadStarted, ThreadEnds, sessionvars
<1>7. CASE StopThread
  <2>1. CASE StopSignals
    BY <1>1, <2>1 DEF StopSignals, AppGoes, butStop
  <2>2. CASE StopNothingRuns
    BY <1>1, <2>2 DEF StopNothingRuns, AppGoes, sessionvars
  <2>3. CASE AbortWait
    BY <1>1, <2>3, <1>2 DEF AbortWait, AppGoes, butTrans, TransTypeOK
  <2>4. CASE StopDone
    BY <1>1, <2>4 DEF StopDone, AppGoes, sessionvars
  <2>5. CASE StopKills
    BY <1>1, <2>5 DEF StopKills, Kill, sessionvars
  <2>6. CASE StopReturns
    BY <1>1, <2>6 DEF StopReturns, AppGoes, butStop
  <2>7. QED
    BY <1>7, <2>1, <2>2, <2>3, <2>4, <2>5, <2>6 DEF StopThread
<1>8. CASE Teardown
  <2>1. CASE BYEDestroyAdds
    BY <1>1, <2>1 DEF BYEDestroyAdds, ScheduleFirst, Schedule, AppGoes,
       butSession
  <2>2. CASE BYEDestroySends
    BY <1>1, <2>2 DEF BYEDestroySends, SendsBYE, Schedule, AppGoes,
       butSessionHistory
  <2>3. CASE BYEDestroyEnds
    BY <1>1, <2>3 DEF BYEDestroyEnds, AppGoes, sessionvars
  <2>4. CASE DeleteTransmitter
    BY <1>1, <2>4 DEF DeleteTransmitter, AppGoes, butTrans, AfterStop, Over
  <2>5. CASE DestroyComponents
    BY <1>1, <2>5 DEF DestroyComponents, NoSession, AppGoes, butSession
  <2>6. QED
    BY <1>8, <2>1, <2>2, <2>3, <2>4, <2>5 DEF Teardown
<1>9. CASE WaitAndPoll
  <2>1. CASE CheckStop
    BY <1>1, <2>1 DEF CheckStop, ThreadGoes, sessionvars
  <2>2. CASE GetTransmissionDelay
    BY <1>1, <2>2 DEF GetTransmissionDelay, ThreadGoes, sessionvars
  <2>3. CASE WaitForIncomingData
    BY <1>1, <2>3 DEF WaitForIncomingData, ThreadGoes, butTrans
  <2>4. CASE SelectReady
    BY <1>1, <2>4 DEF SelectReady, ThreadGoes, butTrans
  <2>5. CASE ReadSignallingByte
    BY <1>1, <2>5 DEF ReadSignallingByte, ThreadGoes, butTrans
  <2>6. CASE Poll
    BY <1>1, <2>6, <1>2 DEF Poll, ThreadGoes, butTrans, TransTypeOK
  <2>7. CASE Step
    BY <1>1, <2>7 DEF Step, ThreadGoes, sessionvars
  <2>8. QED
    BY <1>9, <2>1, <2>2, <2>3, <2>4, <2>5, <2>6, <2>7 DEF WaitAndPoll
<1>10. CASE ProcessPolledData
  <2>1. CASE Process
    BY <1>1, <2>1 DEF Process, ThreadGoes, butSources
  <2>2. CASE ReceivePacket
    BY <1>1, <2>2 DEF ReceivePacket, Delete, ThreadGoes, butTrans
  <2>3. CASE ReceiveFails
    BY <1>1, <2>3 DEF ReceiveFails, Delete, ThreadGoes
  <2>4. CASE KnownCollision
    BY <1>1, <2>4 DEF KnownCollision, Delete, ThreadGoes, butTrans
  <2>5. CASE FirstCollision
    BY <1>1, <2>5 DEF FirstCollision, ThreadGoes, butSession
  <2>6. CASE LeaveSSRC
    BY <1>1, <2>6 DEF LeaveSSRC, ScheduleFirst, Schedule, ThreadGoes,
       butSession
  <2>7. CASE CreateNewSSRC
    BY <1>1, <2>7 DEF CreateNewSSRC, ThreadGoes, butSession
  <2>8. CASE ClearSentPackets
    BY <1>1, <2>8 DEF ClearSentPackets, SetSentPackets, ThreadGoes,
       butSession
  <2>9. CASE ReplaceOwnSSRC
    BY <1>1, <2>9 DEF ReplaceOwnSSRC, Delete, ThreadGoes, butSessionTrans
  <2>10. CASE NoMorePackets
    BY <1>1, <2>10 DEF NoMorePackets, ThreadGoes, sessionvars
  <2>11. CASE Timeouts
    BY <1>1, <2>11 DEF Timeouts, ThreadGoes, butSession
  <2>12. CASE NotTime
    BY <1>1, <2>12 DEF NotTime, ThreadGoes, butSources
  <2>13. CASE IsTime
    BY <1>1, <2>13 DEF IsTime, ThreadGoes, butSession
  <2>14. CASE SendReport
    BY <1>1, <2>14 DEF SendReport, SetSentPackets, ThreadGoes, butSession
  <2>15. CASE SendBYE
    BY <1>1, <2>15 DEF SendBYE, SendsBYE, Schedule, ThreadGoes,
       butSessionHistory
  <2>16. CASE AnalyseOutgoing
    BY <1>1, <2>16 DEF AnalyseOutgoing, ThreadGoes, butSources
  <2>17. QED
    BY <1>10, <2>1, <2>2, <2>3, <2>4, <2>5, <2>6, <2>7, <2>8, <2>9, <2>10,
       <2>11, <2>12, <2>13, <2>14, <2>15, <2>16 DEF ProcessPolledData
<1>11. CASE SelectTimesOut
  BY <1>1, <1>11 DEF SelectTimesOut, ThreadGoes, butTrans
<1>12. CASE ThreadFails
  BY <1>1, <1>12 DEF ThreadFails, ThreadGoes
<1>13. CASE Arrive
  BY <1>1, <1>13, <1>2 DEF Arrive, threadvars, TransTypeOK
<1>14. CASE UNCHANGED vars
  BY <1>1, <1>14 DEF vars, threadvars, sessionvars
<1>15. QED
  BY <1>3, <1>4, <1>5, <1>6, <1>7, <1>8, <1>9, <1>10, <1>11, <1>12, <1>13,
     <1>14 DEF Next, AppFinishes, ThreadRuns

LEMMA PaidStep ==
  ASSUME SessionInvariant, [Next]_vars
  PROVE  Paid'
<1>1. /\ arrived \in Nat /\ sessions \in Nat /\ session.ssrc \in Nat
      /\ Unread \in Nat /\ Paid /\ Queues
      /\ app \in {"none", "start", "failed"} \cup AfterStop => thread \in Over
  BY SSRCs, BoundsAssumption, UnreadFacts
     DEF SessionInvariant, ThreadInvariant, Handshake, TypeOK, SessionTypeOK,
         No
<1>2. SessionTypeOK /\ TransTypeOK
  BY DEF SessionInvariant, TypeOK
<1>3. UNCHANGED trans => Unread' = Unread
  BY DEF Unread
<1> USE DEF Paid
<1>4. CASE Use
  <2>1. CASE Create
    BY <1>1, <1>2, <1>3, <2>1, UnreadSteps
       DEF Create, InternalCreate, AfterStop, Over, SessionTypeOK, No
  <2>2. CASE SendPacket
    BY <1>1, <1>3, <2>2 DEF SendPacket, AppGoes, sessionvars
  <2>3. CASE BeginDataAccess
    BY <1>1, <1>3, <2>3 DEF BeginDataAccess, AppGoes, butSources
  <2>4. CASE Leave
    BY <1>1, <1>3, <2>4 DEF Leave, AppGoes, sessionvars
  <2>5. QED
    BY <1>4, <2>1, <2>2, <2>3, <2>4 DEF Use
<1>5. CASE FinishUse
  <2>1. CASE SentRTPPacket
    BY <1>1, <1>3, <2>1 DEF SentRTPPacket, AppGoes, sessionvars
  <2>2. CASE PacketSent
    BY <1>1, <1>2, <1>3, <2>2
       DEF PacketSent, SetSentPackets, AppGoes, butSession, SessionTypeOK
  <2>3. CASE EndDataAccess
    BY <1>1, <1>3, <2>3 DEF EndDataAccess, AppGoes, butSources
  <2>4. QED
    BY <1>5, <2>1, <2>2, <2>3 DEF FinishUse
<1>6. CASE StartSession
  <2>1. CASE StartInApp /\ UNCHANGED sessionvars
    BY <1>1, <1>3, <2>1 DEF StartInApp, StartCreates, StartSeesRunning,
       StartReturns, StartFails, sessionvars, Over
  <2>2. CASE Created
    BY <1>1, <1>3, <2>2 DEF Created, AppGoes, sessionvars
  <2>3. CASE CreateFails
    BY <1>1, <1>3, <2>3, <1>2, UnreadSteps DEF CreateFails,
       AfterStop, Over, SessionTypeOK, No
  <2>4. QED
    BY <1>6, <2>1, <2>2, <2>3 DEF StartSession
<1>7. CASE StartThread
  BY <1>1, <1>3, <1>7 DEF StartThread, StartInThread, ThreadMarks,
     ThreadContinues, ThreadStarted, ThreadEnds, sessionvars
<1>8. CASE StopThread
  <2>1. CASE StopSignals
    BY <1>1, <1>3, <2>1 DEF StopSignals, AppGoes, butStop
  <2>2. CASE StopNothingRuns
    BY <1>1, <1>3, <2>2 DEF StopNothingRuns, AppGoes, sessionvars
  <2>3. CASE AbortWait
    BY <1>1, <1>3, <2>3, <1>2, UnreadSteps DEF AbortWait, AppGoes, butTrans
  <2>4. CASE StopDone
    BY <1>1, <1>3, <2>4 DEF StopDone, AppGoes, sessionvars
  <2>5. CASE StopKills
    BY <1>1, <1>3, <2>5 DEF StopKills, Kill, sessionvars
  <2>6. CASE StopReturns
    BY <1>1, <1>3, <2>6 DEF StopReturns, AppGoes, butStop
  <2>7. QED
    BY <1>8, <2>1, <2>2, <2>3, <2>4, <2>5, <2>6 DEF StopThread
<1>9. CASE Teardown
  <2>1. CASE BYEDestroyAdds
    BY <1>1, <1>2, <1>3, <2>1
       DEF BYEDestroyAdds, ScheduleFirst, Schedule, AppGoes, butSession,
           SessionTypeOK
  <2>2. CASE BYEDestroySends
    BY <1>1, <1>2, <1>3, <2>2
       DEF BYEDestroySends, SendsBYE, Schedule, AppGoes, butSessionHistory,
           SessionTypeOK
  <2>3. CASE BYEDestroyEnds
    BY <1>1, <1>3, <2>3 DEF BYEDestroyEnds, AppGoes, sessionvars
  <2>4. CASE DeleteTransmitter
    BY <1>1, <1>2, <1>3, <2>4, UnreadSteps
       DEF DeleteTransmitter, AppGoes, butTrans, AfterStop, Over,
           SessionTypeOK, No
  <2>5. CASE DestroyComponents
    BY <1>1, <1>2, <1>3, <2>5
       DEF DestroyComponents, NoSession, AppGoes, butSession, SessionTypeOK,
           No, AfterStop, Over
  <2>6. QED
    BY <1>9, <2>1, <2>2, <2>3, <2>4, <2>5 DEF Teardown
<1>10. CASE WaitAndPoll
  <2>1. CASE CheckStop
    BY <1>1, <1>3, <2>1 DEF CheckStop, ThreadGoes, sessionvars
  <2>2. CASE GetTransmissionDelay
    BY <1>1, <1>3, <2>2 DEF GetTransmissionDelay, ThreadGoes, sessionvars
  <2>3. CASE WaitForIncomingData
    BY <1>1, <1>2, <1>3, <2>3, UnreadSteps
       DEF WaitForIncomingData, ThreadGoes, butTrans
  <2>4. CASE SelectReady
    BY <1>1, <1>2, <1>3, <2>4, UnreadSteps
       DEF SelectReady, ThreadGoes, butTrans
  <2>5. CASE ReadSignallingByte
    BY <1>1, <1>3, <2>5, <1>2, UnreadSteps DEF ReadSignallingByte, ThreadGoes,
       butTrans
  <2>6. CASE Poll
    BY <1>1, <1>3, <2>6, <1>2, UnreadSteps DEF Poll, ThreadGoes, butTrans
  <2>7. CASE Step
    BY <1>1, <1>3, <2>7 DEF Step, ThreadGoes, sessionvars
  <2>8. QED
    BY <1>10, <2>1, <2>2, <2>3, <2>4, <2>5, <2>6, <2>7 DEF WaitAndPoll
<1>11. CASE ProcessPolledData
  <2>1. CASE Process
    BY <1>1, <1>3, <2>1 DEF Process, ThreadGoes, butSources
  <2>2. CASE ReceivePacket
    BY <1>1, <1>3, <2>2, <1>2, UnreadSteps DEF ReceivePacket, ThreadGoes,
       butTrans, Queues
  <2>3. CASE ReceiveFails
    BY <1>1, <1>3, <2>3, <1>2, UnreadSteps DEF ReceiveFails, ThreadGoes,
       Queues
  <2>4. CASE KnownCollision
    BY <1>1, <1>3, <2>4, <1>2, UnreadSteps DEF KnownCollision, ThreadGoes,
       butTrans, Queues
  <2>5. CASE FirstCollision
    BY <1>1, <1>3, <2>5, <1>2 DEF FirstCollision, ThreadGoes, butSession,
       SessionTypeOK
  <2>6. CASE LeaveSSRC
    BY <1>1, <1>2, <1>3, <2>6
       DEF LeaveSSRC, ScheduleFirst, Schedule, ThreadGoes, butSession,
           SessionTypeOK
  <2>7. CASE CreateNewSSRC
    BY <1>1, <1>3, <2>7, <1>2 DEF CreateNewSSRC, ThreadGoes, butSession,
       SessionTypeOK
  <2>8. CASE ClearSentPackets
    BY <1>1, <1>2, <1>3, <2>8
       DEF ClearSentPackets, SetSentPackets, ThreadGoes, butSession,
           SessionTypeOK
  <2>9. CASE ReplaceOwnSSRC
    BY <1>1, <1>3, <2>9, <1>2, UnreadSteps DEF ReplaceOwnSSRC, ThreadGoes,
       butSessionTrans, Queues, SessionTypeOK
  <2>10. CASE NoMorePackets
    BY <1>1, <1>3, <2>10 DEF NoMorePackets, ThreadGoes, sessionvars
  <2>11. CASE Timeouts
    BY <1>1, <1>2, <1>3, <2>11
       DEF Timeouts, ThreadGoes, butSession, SessionTypeOK
  <2>12. CASE NotTime
    BY <1>1, <1>3, <2>12 DEF NotTime, ThreadGoes, butSources
  <2>13. CASE IsTime
    BY <1>1, <1>2, <1>3, <2>13
       DEF IsTime, ThreadGoes, butSession, SessionTypeOK
  <2>14. CASE SendReport
    BY <1>1, <1>3, <2>14, <1>2 DEF SendReport, SetSentPackets, ThreadGoes,
       butSession, SessionTypeOK
  <2>15. CASE SendBYE
    BY <1>1, <1>3, <2>15, <1>2 DEF SendBYE, SendsBYE, Schedule, ThreadGoes,
       butSessionHistory, SessionTypeOK
  <2>16. CASE AnalyseOutgoing
    BY <1>1, <1>3, <2>16 DEF AnalyseOutgoing, ThreadGoes, butSources
  <2>17. QED
    BY <1>11, <2>1, <2>2, <2>3, <2>4, <2>5, <2>6, <2>7, <2>8, <2>9, <2>10,
       <2>11, <2>12, <2>13, <2>14, <2>15, <2>16 DEF ProcessPolledData
<1>12. CASE SelectTimesOut
  BY <1>1, <1>2, <1>3, <1>12, UnreadSteps
     DEF SelectTimesOut, ThreadGoes, butTrans
<1>13. CASE ThreadFails
  BY <1>1, <1>2, <1>3, <1>13, UnreadSteps
     DEF ThreadFails, ThreadGoes, SessionTypeOK
<1>14. CASE Arrive
  <2>1. Unread' = Unread + 1
    BY <1>2, <1>14, UnreadSteps
  <2>2. QED
    BY <1>1, <1>14, <2>1 DEF Arrive, threadvars
<1>15. CASE UNCHANGED vars
  BY <1>1, <1>3, <1>15 DEF vars, threadvars, sessionvars
<1>16. QED
  BY <1>4, <1>5, <1>6, <1>7, <1>8, <1>9, <1>10, <1>11, <1>12, <1>13, <1>14,
     <1>15 DEF Next, AppFinishes, ThreadRuns

\* The SSRCs that were left: after nothing happened to them, after one more was
\* left, after its BYE packet was sent, and after that was lost.
LEMMA LeftKept ==
  ASSUME Distinct, history' = history, session'.byes = session.byes
  PROVE  Distinct' /\ Left' = Left
  BY DEF Distinct, Left

LEMMA LeftAnother ==
  ASSUME history \in Seq(SSRC), session.byes \in Seq(SSRC), Distinct,
         NEW s \in SSRC, s \notin Left,
         history' = history, session'.byes = Append(session.byes, s)
  PROVE  Distinct' /\ Left' = Left \cup {s}
<1>1. ToSet(session'.byes) = ToSet(session.byes) \cup {s}
  BY AppendFacts
<1>2. s \notin ToSet(session.byes) /\ s \notin ToSet(history)
  BY DEF Left
<1>3. IsInjective(session'.byes)
  BY <1>2, AppendFacts DEF Distinct
<1>4. QED
  BY <1>1, <1>2, <1>3 DEF Distinct, Left

LEMMA LeftSent ==
  ASSUME history \in Seq(SSRC), session.byes \in Seq(SSRC), Distinct,
         session.byes # <<>>, history' = Append(history, Head(session.byes)),
         session'.byes = Tail(session.byes)
  PROVE  Distinct' /\ Left' = Left
<1> DEFINE s == Head(session.byes)
<1>1. s \in SSRC
  OBVIOUS
<1>2. /\ ToSet(session.byes) = {s} \cup ToSet(Tail(session.byes))
      /\ IsInjective(Tail(session.byes)) /\ s \notin ToSet(Tail(session.byes))
  BY TailFacts DEF Distinct
<1>3. s \notin ToSet(history)
  BY <1>2 DEF Distinct
<1>4. ToSet(history') = ToSet(history) \cup {s} /\ IsInjective(history')
  BY <1>1, <1>3, AppendFacts DEF Distinct
<1> HIDE DEF s
<1>5. QED
  BY <1>2, <1>3, <1>4 DEF Distinct, Left

LEMMA LeftLost ==
  ASSUME session.byes \in Seq(SSRC), Distinct, history' = history,
         \/ session'.byes = <<>>
         \/ session.byes # <<>> /\ session'.byes = Tail(session.byes)
  PROVE  Distinct' /\ Left' \subseteq Left
<1>1. CASE session'.byes = <<>>
  <2>1. ToSet(session'.byes) = {} /\ IsInjective(session'.byes)
    BY <1>1 DEF ToSet, IsInjective
  <2>2. QED
    BY <2>1 DEF Distinct, Left
<1>2. CASE session.byes # <<>> /\ session'.byes = Tail(session.byes)
  <2>1. /\ ToSet(session.byes) = {Head(session.byes)} \cup ToSet(session'.byes)
        /\ IsInjective(session'.byes)
    BY <1>2, TailFacts DEF Distinct
  <2>2. QED
    BY <2>1 DEF Distinct, Left
<1>3. QED
  BY <1>1, <1>2

\* An SSRC is left by BYEDestroy and after a collision.
Another == LeaveSSRC \/ (BYEDestroyAdds /\ session.sentpackets)

\* What happens to the BYE packets in a step.
LEMMA BYEsStep ==
  ASSUME SessionTypeOK, [Next]_vars
  PROVE  \/ Another
         \/ history' = history /\ session'.byes = session.byes
         \/ /\ history' = history
            /\ \/ session'.byes = <<>>
               \/ session.byes # <<>> /\ session'.byes = Tail(session.byes)
         \/ /\ session.byes # <<>>
            /\ history' = Append(history, Head(session.byes))
            /\ session'.byes = Tail(session.byes)
<1>1. SessionTypeOK
  OBVIOUS
<1>2. CASE Use
  BY <1>1, <1>2 DEF Use, Create, SendPacket, BeginDataAccess, Leave,
     AppGoes, butSources, InternalCreate, SessionTypeOK, sessionvars
<1>3. CASE FinishUse
  BY <1>1, <1>3 DEF FinishUse, SentRTPPacket, PacketSent, EndDataAccess,
     AppGoes, butSession, butSources, SetSentPackets, SessionTypeOK,
     butSession, sessionvars
<1>4. CASE StartSession
  BY <1>1, <1>4 DEF StartSession, StartInApp, Created, CreateFails, AppGoes,
     SessionTypeOK, sessionvars
<1>5. CASE StartThread
  BY <1>1, <1>5 DEF StartThread, sessionvars
<1>6. CASE StopThread
  BY <1>1, <1>6 DEF StopThread, StopSignals, StopNothingRuns, AbortWait,
     StopDone, StopKills, StopReturns, butStop, butTrans, sessionvars,
     sessionvars
<1>7. CASE Teardown
  BY <1>1, <1>7 DEF Teardown, BYEDestroyAdds, BYEDestroySends,
     BYEDestroyEnds, DeleteTransmitter, DestroyComponents,
     butTrans, butSession, butSessionHistory, NoSession, Schedule, SendsBYE,
     SessionTypeOK, Another, sessionvars
<1>8. CASE WaitAndPoll
  BY <1>1, <1>8 DEF WaitAndPoll, CheckStop, GetTransmissionDelay,
     WaitForIncomingData, SelectReady, ReadSignallingByte, Poll, Step,
     butTrans, sessionvars
<1>9. CASE ProcessPolledData
  BY <1>1, <1>9 DEF ProcessPolledData, Process, ReceivePacket, ReceiveFails,
     KnownCollision, FirstCollision, LeaveSSRC, CreateNewSSRC,
     ClearSentPackets, ReplaceOwnSSRC, NoMorePackets, Timeouts, NotTime,
     IsTime, SendReport, SendBYE, AnalyseOutgoing, butSources, butTrans,
     butSession, butSessionTrans, butSessionHistory, SetSentPackets,
     Schedule, SendsBYE, SessionTypeOK, Another, sessionvars
<1>10. CASE SelectTimesOut
  BY <1>10 DEF SelectTimesOut, butTrans
<1>11. CASE ThreadFails
  BY <1>1, <1>11 DEF ThreadFails, SessionTypeOK
<1>12. CASE Arrive
  BY <1>12 DEF Arrive
<1>13. CASE UNCHANGED vars
  BY <1>13 DEF vars, sessionvars
<1>14. QED
  BY <1>2, <1>3, <1>4, <1>5, <1>6, <1>7, <1>8, <1>9, <1>10, <1>11, <1>12,
     <1>13 DEF Next, AppFinishes, ThreadRuns

LEMMA LeftStep ==
  ASSUME SessionInvariant, [Next]_vars
  PROVE  /\ Distinct'
         /\ \/ /\ \/ thread = "leave" /\ thread' = "newssrc"
                  \/ app = "bye" /\ app' = "byes"
               /\ Left' = Left \cup {session.ssrc}
            \/ Left' \subseteq Left
<1>1. /\ history \in Seq(SSRC) /\ session.byes \in Seq(SSRC) /\ Distinct
      /\ SessionTypeOK
  BY DEF SessionInvariant, TypeOK, SessionTypeOK
<1>2. CASE Another
  <2>1. session.ssrc \in SSRC /\ session.ssrc \notin Left
    BY <1>2, SSRCsInRange
       DEF Another, SessionInvariant, ThreadInvariant, Handshake, LeftBehind,
           LeaveSSRC, BYEDestroyAdds, AppGoes, ThreadGoes, AfterStop, Over
  <2>2. /\ history' = history
        /\ session'.byes = Append(session.byes, session.ssrc)
    BY <1>1, <1>2
       DEF Another, LeaveSSRC, BYEDestroyAdds, ScheduleFirst, Schedule,
           butSession, SessionTypeOK
  <2>3. QED
    BY <1>1, <1>2, <2>1, <2>2, LeftAnother
       DEF Another, LeaveSSRC, BYEDestroyAdds, AppGoes, ThreadGoes
<1>3. QED
  BY <1>1, <1>2, BYEsStep, LeftKept, LeftSent, LeftLost

LEMMA LeftTyped ==
  ASSUME SessionInvariant
  PROVE  Left \subseteq SSRC /\ Left \subseteq Nat
<1>1. history \in Seq(SSRC) /\ session.byes \in Seq(SSRC)
  BY DEF SessionInvariant, TypeOK, SessionTypeOK
<1>2. ToSet(history) \subseteq SSRC /\ ToSet(session.byes) \subseteq SSRC
  BY <1>1 DEF ToSet
<1>3. QED
  BY <1>2, SSRCs DEF Left

LEMMA BehindStep ==
  ASSUME SessionInvariant, [Next]_vars
  PROVE  LeftBehind'
<1>1. /\ arrived \in Nat /\ sessions \in Nat /\ session.ssrc \in Nat
      /\ LeftBehind /\ Paid /\ Unread \in Nat /\ Left \subseteq Nat
      /\ app \in {"none", "start", "failed", "stopped"} \cup AfterStop =>
           thread \in Over
  BY SSRCs, BoundsAssumption, UnreadFacts, LeftTyped
     DEF SessionInvariant, ThreadInvariant, Handshake, TypeOK, SessionTypeOK,
         No
<1>2. SessionTypeOK
  BY DEF SessionInvariant, TypeOK
<1>3. \/ /\ \/ thread = "leave" /\ thread' = "newssrc"
            \/ app = "bye" /\ app' = "byes"
         /\ Left' = Left \cup {session.ssrc}
      \/ Left' \subseteq Left
  BY LeftStep
<1> USE DEF LeftBehind
<1>4. CASE Use
  <2>1. CASE Create
    BY <1>1, <1>3, <2>1, <1>2 DEF Create, InternalCreate, NewTransmitter,
       SessionTypeOK, AfterStop, Over, No, Paid
  <2>2. CASE SendPacket
    BY <1>1, <1>3, <2>2 DEF SendPacket, AppGoes, sessionvars
  <2>3. CASE BeginDataAccess
    BY <1>1, <1>3, <2>3 DEF BeginDataAccess, AppGoes, butSources
  <2>4. CASE Leave
    BY <1>1, <1>3, <2>4 DEF Leave, AppGoes, sessionvars
  <2>5. QED
    BY <1>4, <2>1, <2>2, <2>3, <2>4 DEF Use
<1>5. CASE FinishUse
  <2>1. CASE SentRTPPacket
    BY <1>1, <1>3, <2>1 DEF SentRTPPacket, AppGoes, sessionvars
  <2>2. CASE PacketSent
    BY <1>1, <1>2, <1>3, <2>2
       DEF PacketSent, SetSentPackets, AppGoes, butSession, SessionTypeOK
  <2>3. CASE EndDataAccess
    BY <1>1, <1>3, <2>3 DEF EndDataAccess, AppGoes, butSources
  <2>4. QED
    BY <1>5, <2>1, <2>2, <2>3 DEF FinishUse
<1>6. CASE StartSession
  <2>1. CASE StartInApp /\ UNCHANGED sessionvars
    BY <1>1, <1>3, <2>1 DEF StartInApp, StartCreates, StartSeesRunning,
       StartReturns, StartFails, sessionvars, Over
  <2>2. CASE Created
    BY <1>1, <1>3, <2>2 DEF Created, AppGoes, sessionvars
  <2>3. CASE CreateFails
    BY <1>1, <1>3, <2>3, <1>2 DEF CreateFails, NewTransmitter, SessionTypeOK
  <2>4. QED
    BY <1>6, <2>1, <2>2, <2>3 DEF StartSession
<1>7. CASE StartThread
  BY <1>1, <1>3, <1>7 DEF StartThread, StartInThread, ThreadMarks,
     ThreadContinues, ThreadStarted, ThreadEnds, sessionvars
<1>8. CASE StopThread
  <2>1. CASE StopSignals
    BY <1>1, <1>3, <2>1 DEF StopSignals, AppGoes, butStop
  <2>2. CASE StopNothingRuns
    BY <1>1, <1>3, <2>2 DEF StopNothingRuns, AppGoes, sessionvars
  <2>3. CASE AbortWait
    BY <1>1, <1>3, <2>3 DEF AbortWait, AppGoes, butTrans
  <2>4. CASE StopDone
    BY <1>1, <1>3, <2>4 DEF StopDone, AppGoes, sessionvars
  <2>5. CASE StopKills
    BY <1>1, <1>3, <2>5 DEF StopKills, Kill, sessionvars
  <2>6. CASE StopReturns
    BY <1>1, <1>3, <2>6 DEF StopReturns, AppGoes, butStop, AfterStop, Over
  <2>7. QED
    BY <1>8, <2>1, <2>2, <2>3, <2>4, <2>5, <2>6 DEF StopThread
<1>9. CASE Teardown
  <2>1. CASE BYEDestroyAdds
    BY <1>1, <1>2, <1>3, <2>1
       DEF BYEDestroyAdds, ScheduleFirst, Schedule, AppGoes, butSession,
           SessionTypeOK, Another, Paid, AfterStop, Over
  <2>2. CASE BYEDestroySends
    BY <1>1, <1>2, <1>3, <2>2
       DEF BYEDestroySends, SendsBYE, Schedule, AppGoes, butSessionHistory,
           SessionTypeOK
  <2>3. CASE BYEDestroyEnds
    BY <1>1, <1>3, <2>3 DEF BYEDestroyEnds, AppGoes, sessionvars
  <2>4. CASE DeleteTransmitter
    BY <1>1, <1>3, <2>4 DEF DeleteTransmitter, AppGoes, butTrans
  <2>5. CASE DestroyComponents
    BY <1>1, <1>2, <1>3, <2>5
       DEF DestroyComponents, NoSession, AppGoes, butSession, SessionTypeOK
  <2>6. QED
    BY <1>9, <2>1, <2>2, <2>3, <2>4, <2>5 DEF Teardown
<1>10. CASE WaitAndPoll
  <2>1. CASE CheckStop
    BY <1>1, <1>3, <2>1 DEF CheckStop, ThreadGoes, sessionvars
  <2>2. CASE GetTransmissionDelay
    BY <1>1, <1>3, <2>2 DEF GetTransmissionDelay, ThreadGoes, sessionvars
  <2>3. CASE WaitForIncomingData
    BY <1>1, <1>3, <2>3 DEF WaitForIncomingData, ThreadGoes, butTrans
  <2>4. CASE SelectReady
    BY <1>1, <1>3, <2>4 DEF SelectReady, ThreadGoes, butTrans
  <2>5. CASE ReadSignallingByte
    BY <1>1, <1>3, <2>5 DEF ReadSignallingByte, ThreadGoes, butTrans
  <2>6. CASE Poll
    BY <1>1, <1>3, <2>6 DEF Poll, ThreadGoes, butTrans
  <2>7. CASE Step
    BY <1>1, <1>3, <2>7 DEF Step, ThreadGoes, sessionvars
  <2>8. QED
    BY <1>10, <2>1, <2>2, <2>3, <2>4, <2>5, <2>6, <2>7 DEF WaitAndPoll
<1>11. CASE ProcessPolledData
  <2>1. CASE Process
    BY <1>1, <1>3, <2>1 DEF Process, ThreadGoes, butSources
  <2>2. CASE ReceivePacket
    BY <1>1, <1>3, <2>2 DEF ReceivePacket, Delete, ThreadGoes, butTrans
  <2>3. CASE ReceiveFails
    BY <1>1, <1>3, <2>3 DEF ReceiveFails, Delete, ThreadGoes
  <2>4. CASE KnownCollision
    BY <1>1, <1>3, <2>4 DEF KnownCollision, Delete, ThreadGoes, butTrans
  <2>5. CASE FirstCollision
    BY <1>1, <1>3, <2>5, <1>2 DEF FirstCollision, ThreadGoes, butSession,
       SessionTypeOK
  <2>6. CASE LeaveSSRC
    BY <1>1, <1>2, <1>3, <2>6
       DEF LeaveSSRC, ScheduleFirst, Schedule, ThreadGoes, butSession,
           SessionTypeOK, Another, Paid, AfterStop, Over
  <2>7. CASE CreateNewSSRC
    BY <1>1, <1>3, <2>7, <1>2 DEF CreateNewSSRC, ThreadGoes, butSession,
       SessionTypeOK
  <2>8. CASE ClearSentPackets
    BY <1>1, <1>2, <1>3, <2>8
       DEF ClearSentPackets, SetSentPackets, ThreadGoes, butSession,
           SessionTypeOK
  <2>9. CASE ReplaceOwnSSRC
    BY <1>1, <1>3, <2>9, <1>2 DEF ReplaceOwnSSRC, Delete, ThreadGoes,
       butSessionTrans, SessionTypeOK
  <2>10. CASE NoMorePackets
    BY <1>1, <1>3, <2>10 DEF NoMorePackets, ThreadGoes, sessionvars
  <2>11. CASE Timeouts
    BY <1>1, <1>2, <1>3, <2>11
       DEF Timeouts, ThreadGoes, butSession, SessionTypeOK
  <2>12. CASE NotTime
    BY <1>1, <1>3, <2>12 DEF NotTime, ThreadGoes, butSources
  <2>13. CASE IsTime
    BY <1>1, <1>2, <1>3, <2>13
       DEF IsTime, ThreadGoes, butSession, SessionTypeOK
  <2>14. CASE SendReport
    BY <1>1, <1>3, <2>14, <1>2 DEF SendReport, SetSentPackets, ThreadGoes,
       butSession, SessionTypeOK
  <2>15. CASE SendBYE
    BY <1>1, <1>3, <2>15, <1>2 DEF SendBYE, SendsBYE, Schedule, ThreadGoes,
       butSessionHistory, SessionTypeOK
  <2>16. CASE AnalyseOutgoing
    BY <1>1, <1>3, <2>16 DEF AnalyseOutgoing, ThreadGoes, butSources
  <2>17. QED
    BY <1>11, <2>1, <2>2, <2>3, <2>4, <2>5, <2>6, <2>7, <2>8, <2>9, <2>10,
       <2>11, <2>12, <2>13, <2>14, <2>15, <2>16 DEF ProcessPolledData
<1>12. CASE SelectTimesOut
  BY <1>1, <1>3, <1>12 DEF SelectTimesOut, ThreadGoes, butTrans
<1>13. CASE ThreadFails
  BY <1>1, <1>3, <1>13, <1>2 DEF ThreadFails, ThreadGoes, SessionTypeOK
<1>14. CASE Arrive
  BY <1>1, <1>3, <1>14 DEF Arrive, threadvars
<1>15. CASE UNCHANGED vars
  BY <1>1, <1>3, <1>15 DEF vars, threadvars, sessionvars
<1>16. QED
  BY <1>4, <1>5, <1>6, <1>7, <1>8, <1>9, <1>10, <1>11, <1>12, <1>13, <1>14,
     <1>15 DEF Next, AppFinishes, ThreadRuns

\* The rest of TypeOK.
Places ==
  /\ app \in AppPlace /\ thread \in ThreadPlace
  /\ {stop, longwait} \subseteq BOOLEAN
  /\ history \in Seq(SSRC)
  /\ arrived \in 0..MaxPackets /\ sessions \in 0..MaxSessions

LEMMA PlacesStep ==
  ASSUME SessionInvariant, [Next]_vars
  PROVE  Places'
<1>1. /\ Places
      /\ session.byes # <<>> =>
           Append(history, Head(session.byes)) \in Seq(SSRC)
  BY BYEsTyped DEF SessionInvariant, TypeOK, Places
<1> USE DEF Places, AppPlace, ThreadPlace, BeforeStarted, Over
<1>2. CASE Use
  <2>1. CASE Create
    <3>1. sessions < MaxSessions => sessions + 1 \in 0..MaxSessions
      BY <1>1, BoundsAssumption
    <3>2. QED
      BY <1>1, <2>1, <3>1 DEF Create
  <2>2. CASE SendPacket
    BY <1>1, <2>2 DEF SendPacket, AppGoes, sessionvars
  <2>3. CASE BeginDataAccess
    BY <1>1, <2>3 DEF BeginDataAccess, AppGoes, butSources
  <2>4. CASE Leave
    BY <1>1, <2>4 DEF Leave, AppGoes, sessionvars
  <2>5. QED
    BY <1>2, <2>1, <2>2, <2>3, <2>4 DEF Use
<1>3. CASE FinishUse
  <2>1. CASE SentRTPPacket
    BY <1>1, <2>1 DEF SentRTPPacket, AppGoes, sessionvars
  <2>2. CASE PacketSent
    BY <1>1, <2>2 DEF PacketSent, SetSentPackets, AppGoes, butSession
  <2>3. CASE EndDataAccess
    BY <1>1, <2>3 DEF EndDataAccess, AppGoes, butSources
  <2>4. QED
    BY <1>3, <2>1, <2>2, <2>3 DEF FinishUse
<1>4. CASE StartSession
  <2>1. CASE StartInApp /\ UNCHANGED sessionvars
    BY <1>1, <2>1 DEF StartInApp, StartCreates, StartSeesRunning,
       StartReturns, StartFails, sessionvars
  <2>2. CASE Created
    BY <1>1, <2>2 DEF Created, AppGoes, sessionvars
  <2>3. CASE CreateFails
    BY <1>1, <2>3 DEF CreateFails, NewTransmitter
  <2>4. QED
    BY <1>4, <2>1, <2>2, <2>3 DEF StartSession
<1>5. CASE StartThread
  BY <1>1, <1>5 DEF StartThread, StartInThread, ThreadMarks,
     ThreadContinues, ThreadStarted, ThreadEnds, sessionvars
<1>6. CASE StopThread
  <2>1. CASE StopSignals
    BY <1>1, <2>1 DEF StopSignals, AppGoes, butStop
  <2>2. CASE StopNothingRuns
    BY <1>1, <2>2 DEF StopNothingRuns, AppGoes, sessionvars
  <2>3. CASE AbortWait
    BY <1>1, <2>3 DEF AbortWait, AppGoes, butTrans
  <2>4. CASE StopDone
    BY <1>1, <2>4 DEF StopDone, AppGoes, sessionvars
  <2>5. CASE StopKills
    BY <1>1, <2>5 DEF StopKills, Kill, sessionvars
  <2>6. CASE StopReturns
    BY <1>1, <2>6 DEF StopReturns, AppGoes, butStop
  <2>7. QED
    BY <1>6, <2>1, <2>2, <2>3, <2>4, <2>5, <2>6 DEF StopThread
<1>7. CASE Teardown
  <2>1. CASE BYEDestroyAdds
    BY <1>1, <2>1 DEF BYEDestroyAdds, ScheduleFirst, Schedule, AppGoes,
       butSession
  <2>2. CASE BYEDestroySends
    BY <1>1, <2>2 DEF BYEDestroySends, SendsBYE, Schedule, AppGoes,
       butSessionHistory
  <2>3. CASE BYEDestroyEnds
    BY <1>1, <2>3 DEF BYEDestroyEnds, AppGoes, sessionvars
  <2>4. CASE DeleteTransmitter
    BY <1>1, <2>4 DEF DeleteTransmitter, AppGoes, butTrans
  <2>5. CASE DestroyComponents
    BY <1>1, <2>5 DEF DestroyComponents, NoSession, AppGoes, butSession
  <2>6. QED
    BY <1>7, <2>1, <2>2, <2>3, <2>4, <2>5 DEF Teardown
<1>8. CASE WaitAndPoll
  <2>1. CASE CheckStop
    BY <1>1, <2>1 DEF CheckStop, ThreadGoes, sessionvars
  <2>2. CASE GetTransmissionDelay
    BY <1>1, <2>2 DEF GetTransmissionDelay, ThreadGoes, sessionvars
  <2>3. CASE WaitForIncomingData
    BY <1>1, <2>3 DEF WaitForIncomingData, ThreadGoes, butTrans
  <2>4. CASE SelectReady
    BY <1>1, <2>4 DEF SelectReady, ThreadGoes, butTrans
  <2>5. CASE ReadSignallingByte
    BY <1>1, <2>5 DEF ReadSignallingByte, ThreadGoes, butTrans
  <2>6. CASE Poll
    BY <1>1, <2>6 DEF Poll, ThreadGoes, butTrans
  <2>7. CASE Step
    BY <1>1, <2>7 DEF Step, ThreadGoes, sessionvars
  <2>8. QED
    BY <1>8, <2>1, <2>2, <2>3, <2>4, <2>5, <2>6, <2>7 DEF WaitAndPoll
<1>9. CASE ProcessPolledData
  <2>1. CASE Process
    BY <1>1, <2>1 DEF Process, ThreadGoes, butSources
  <2>2. CASE ReceivePacket
    BY <1>1, <2>2 DEF ReceivePacket, Delete, ThreadGoes, butTrans
  <2>3. CASE ReceiveFails
    BY <1>1, <2>3 DEF ReceiveFails, Delete, ThreadGoes
  <2>4. CASE KnownCollision
    BY <1>1, <2>4 DEF KnownCollision, Delete, ThreadGoes, butTrans
  <2>5. CASE FirstCollision
    BY <1>1, <2>5 DEF FirstCollision, ThreadGoes, butSession
  <2>6. CASE LeaveSSRC
    BY <1>1, <2>6 DEF LeaveSSRC, ScheduleFirst, Schedule, ThreadGoes,
       butSession
  <2>7. CASE CreateNewSSRC
    BY <1>1, <2>7 DEF CreateNewSSRC, ThreadGoes, butSession
  <2>8. CASE ClearSentPackets
    BY <1>1, <2>8 DEF ClearSentPackets, SetSentPackets, ThreadGoes,
       butSession
  <2>9. CASE ReplaceOwnSSRC
    BY <1>1, <2>9 DEF ReplaceOwnSSRC, Delete, ThreadGoes, butSessionTrans
  <2>10. CASE NoMorePackets
    BY <1>1, <2>10 DEF NoMorePackets, ThreadGoes, sessionvars
  <2>11. CASE Timeouts
    BY <1>1, <2>11 DEF Timeouts, ThreadGoes, butSession
  <2>12. CASE NotTime
    BY <1>1, <2>12 DEF NotTime, ThreadGoes, butSources
  <2>13. CASE IsTime
    BY <1>1, <2>13 DEF IsTime, ThreadGoes, butSession
  <2>14. CASE SendReport
    BY <1>1, <2>14 DEF SendReport, SetSentPackets, ThreadGoes, butSession
  <2>15. CASE SendBYE
    BY <1>1, <2>15 DEF SendBYE, SendsBYE, Schedule, ThreadGoes,
       butSessionHistory
  <2>16. CASE AnalyseOutgoing
    BY <1>1, <2>16 DEF AnalyseOutgoing, ThreadGoes, butSources
  <2>17. QED
    BY <1>9, <2>1, <2>2, <2>3, <2>4, <2>5, <2>6, <2>7, <2>8, <2>9, <2>10,
       <2>11, <2>12, <2>13, <2>14, <2>15, <2>16 DEF ProcessPolledData
<1>10. CASE SelectTimesOut
  BY <1>1, <1>10 DEF SelectTimesOut, ThreadGoes, butTrans
<1>11. CASE ThreadFails
  BY <1>1, <1>11 DEF ThreadFails, ThreadGoes
<1>12. CASE Arrive
  BY <1>1, <1>12, BoundsAssumption DEF Arrive, threadvars
<1>13. CASE UNCHANGED vars
  BY <1>1, <1>13 DEF vars, threadvars, sessionvars
<1>14. QED
  BY <1>2, <1>3, <1>4, <1>5, <1>6, <1>7, <1>8, <1>9, <1>10, <1>11, <1>12,
     <1>13 DEF Next, AppFinishes, ThreadRuns

LEMMA SessionInit == Init => SessionInvariant
<1> SUFFICES ASSUME Init PROVE SessionInvariant
  OBVIOUS
<1>1. ThreadInvariant
  BY ThreadInit
<1>2. TypeOK
  <2>1. SessionTypeOK
    BY DEF Init, NoSession, SessionTypeOK
  <2>2. TransTypeOK
    BY DEF Init, NewTransmitter, TransTypeOK, Owner
  <2>3. arrived \in 0..MaxPackets /\ sessions \in 0..MaxSessions
    BY BoundsAssumption DEF Init
  <2>4. /\ app \in AppPlace /\ thread \in ThreadPlace /\ history \in Seq(SSRC)
        /\ {continuemutex, continuemutex2, sourcesmutex} \subseteq Owner
    BY DEF Init, JThreadInit, AppPlace, ThreadPlace, Over, Owner
  <2>5. running \in BOOLEAN /\ {stop, longwait} \subseteq BOOLEAN
    BY DEF Init, JThreadInit
  <2>6. QED
    BY <2>1, <2>2, <2>3, <2>4, <2>5 DEF TypeOK
<1>3. Entries /\ Queues
  BY DEF Init, JThreadInit, NoSession, Entries, Queues, Over
<1>4. Unread = 0
  BY DEF Init, NewTransmitter, Unread
<1>5. Paid
  BY <1>4 DEF Init, NoSession, No, Paid
<1>6. ToSet(history) = {} /\ ToSet(session.byes) = {}
  BY DEF Init, NoSession, ToSet
<1>7. Distinct
  BY <1>6 DEF Init, NoSession, Distinct, IsInjective
<1>8. LeftBehind
  BY <1>6 DEF Init, JThreadInit, LeftBehind, Left
<1>9. QED
  BY <1>1, <1>2, <1>3, <1>5, <1>7, <1>8 DEF SessionInvariant

LEMMA SessionInvariantStep ==
  ASSUME SessionInvariant, [Next]_vars
  PROVE  SessionInvariant'
<1>1. ThreadInvariant'
  BY ThreadStep DEF SessionInvariant
<1>2. TypeOK'
  BY <1>1, SessionStep, TransStep, PlacesStep
     DEF TypeOK, Places, ThreadInvariant, LocksHeld, Handshake, Owner, Free,
         App, Thread
<1>3. QED
  BY <1>1, <1>2, EntriesStep, QueuesStep, PaidStep, LeftStep, BehindStep
     DEF SessionInvariant

\* The entries, the queues and the BYE packets of a session agree, for any number
\* of packets, sessions and addresses.
THEOREM SessionIsConsistent == Spec => []SessionInvariant
  BY SessionInit, SessionInvariantStep, PTL DEF Spec

\* Whatever collides, the source table's own entry is that of the SSRC packets
\* are built with, except while ProcessPolledData changes both.
THEOREM OwnEntryIsRight == Spec => []OwnEntryMatches
<1>1. SessionInvariant => OwnEntryMatches
  BY DEF SessionInvariant, ThreadInvariant, LocksHeld, Entries, Processing,
         OwnEntryMatches, AtRest
<1>2. QED
  BY <1>1, SessionIsConsistent, PTL

\* An SSRC is left with at most one BYE packet, which stays scheduled until it is
\* sent, and is not used again.
THEOREM LeavingIsProper == Spec => []LeavesProperly
<1>1. ASSUME SessionInvariant PROVE LeavesProperly
  <2>1. LeavesOnce
    <3>1. history \in Seq(SSRC) /\ session.byes \in Seq(SSRC)
      BY <1>1 DEF SessionInvariant, TypeOK, SessionTypeOK
    <3>2. /\ IsInjective(history \o session.byes)
          /\ ToSet(history \o session.byes) = Left
      BY <1>1, <3>1, ConcatFacts DEF SessionInvariant, Distinct, Left
    <3>3. ASSUME AtRest PROVE session.ssrc \notin Left
      <4>1. thread # "newssrc" /\ app \notin AfterStop
        BY <1>1, <3>3
           DEF SessionInvariant, ThreadInvariant, LocksHeld, Processing,
               AtRest
      <4>2. app = "none" => session.ssrc \notin Left
        BY <1>1, LeftTyped, SSRCs DEF SessionInvariant, Entries
      <4>3. QED
        BY <1>1, <4>1, <4>2 DEF SessionInvariant, LeftBehind, AfterStop
    <3>4. QED
      BY <3>2, <3>3 DEF LeavesOnce
  <2>2. BYEsAreScheduled
    BY <1>1
       DEF SessionInvariant, ThreadInvariant, LocksHeld, Entries, Processing,
           BYEsAreScheduled, AtRest
  <2>3. QED
    BY <1>1, <2>1, <2>2 DEF SessionInvariant, LeavesProperly
<1>2. QED
  BY <1>1, SessionIsConsistent, PTL

\* What the application reads between BeginDataAccess and EndDataAccess, the poll
\* thread does not change.
THEOREM AccessIsRight == Spec => AccessIsStable
<1>1. ASSUME ThreadInvariant, [Next]_vars, app = "access"
      PROVE  UNCHANGED <<session.own, session.collisions>>
  <2>1. thread \notin Processing
    BY <1>1 DEF ThreadInvariant, LocksHeld, App, Thread, Owner
  <2>2. CASE AppFinishes \/ Use
    BY <1>1, <2>2
       DEF Use, Create, SendPacket, BeginDataAccess, Leave, AppFinishes,
           StartSession, StartInApp, StartCreates, StartSeesRunning,
           StartReturns, StartFails, Created, CreateFails, StopThread,
           StopSignals, StopNothingRuns, AbortWait, StopDone, StopKills,
           StopReturns, Teardown, BYEDestroyAdds, BYEDestroySends,
           BYEDestroyEnds, DeleteTransmitter, DestroyComponents,
           FinishUse, SentRTPPacket, PacketSent, EndDataAccess, AppGoes,
           butSources
  <2>3. CASE ProcessPolledData
    BY <1>1, <2>1, <2>3
       DEF Processing, ProcessPolledData, Process, ReceivePacket,
           ReceiveFails, KnownCollision, FirstCollision, LeaveSSRC,
           CreateNewSSRC, ClearSentPackets, ReplaceOwnSSRC, NoMorePackets,
           Timeouts, NotTime, IsTime, SendReport, SendBYE, AnalyseOutgoing,
           ThreadGoes, butSources
  <2>4. CASE WaitAndPoll \/ SelectTimesOut \/ StartThread
    BY <2>4
       DEF WaitAndPoll, CheckStop, GetTransmissionDelay, WaitForIncomingData,
           SelectReady, ReadSignallingByte, Poll, Step, SelectTimesOut,
           StartThread, butTrans, sessionvars
  <2>5. CASE ThreadFails
    BY <2>1, <2>5 DEF Processing, ThreadFails, ThreadGoes
  <2>6. CASE Arrive
    BY <2>6 DEF Arrive
  <2>7. CASE UNCHANGED vars
    BY <2>7 DEF vars, sessionvars
  <2>8. QED
    BY <1>1, <2>2, <2>3, <2>4, <2>5, <2>6, <2>7 DEF Next, ThreadRuns
<1>2. ThreadInvariant /\ [Next]_vars =>
        [app = "access" => UNCHANGED <<session.own, session.collisions>>]_vars
  BY <1>1
<1>3. QED
  BY <1>2, ThreadsAreInStep, PTL DEF Spec, AccessIsStable


=============================================================================
