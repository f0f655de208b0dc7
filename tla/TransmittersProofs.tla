------------------------- MODULE TransmittersProofs -------------------------
(***************************************************************************)
(* Theorems about the transmitters.                                        *)
(***************************************************************************)
EXTENDS MCTransmitters, Iteration, SequenceTheorems

-----------------------------------------------------------------------------
(* The receive mode and its list.                                          *)

FilterInvariant == FilterTypeOK /\ NothingUnasked

\* An entry keeps its type when a port, or all of them, is added or deleted.
LEMMA EntryTypes ==
  ASSUME NEW info \in PortInfo, NEW p \in Port \cup {AllPorts}
  PROVE  /\ ProcessAddAcceptIgnoreEntry(info, p) \in PortInfo
         /\ ProcessDeleteAcceptIgnoreEntry(info, p) \in PortInfo
  BY PortAssumption
     DEF PortInfo, ProcessAddAcceptIgnoreEntry, ProcessDeleteAcceptIgnoreEntry,
         AllPorts

\* What an entry lists: every port but the exceptions, or the ports given.
Lists(info) == IF info.all THEN Port \ info.portlist ELSE info.portlist

\* Adding a port lists that one more at most, deleting one takes it away.
LEMMA AddingLists ==
  ASSUME NEW info \in PortInfo, NEW p \in Port \cup {AllPorts}
  PROVE  Lists(ProcessAddAcceptIgnoreEntry(info, p))
           \subseteq Lists(info) \cup (IF p = AllPorts THEN Port ELSE {p})
  BY PortAssumption DEF Lists, PortInfo, ProcessAddAcceptIgnoreEntry, AllPorts

\* Deleting takes the port away.
LEMMA DeletingLists ==
  ASSUME NEW info \in PortInfo, NEW p \in Port \cup {AllPorts}
  PROVE  Lists(ProcessDeleteAcceptIgnoreEntry(info, p))
           \subseteq Lists(info) \ (IF p = AllPorts THEN Port ELSE {p})
  BY PortAssumption DEF Lists, PortInfo, ProcessDeleteAcceptIgnoreEntry, AllPorts

\* NothingUnasked, host by host.
LEMMA UnaskedByHost ==
  ASSUME FilterTypeOK
  PROVE  NothingUnasked <=>
           \A h \in Host : \A p \in Lists(acceptignoreinfo[h]) : <<h, p>> \in wanted
<1>1. \A h \in Host : acceptignoreinfo[h] \in PortInfo
  BY DEF FilterTypeOK
<1>2. \A h \in Host, p \in Port :
        Listed(h, p) <=> p \in Lists(acceptignoreinfo[h])
  BY <1>1 DEF Listed, Lists, PortInfo
<1>3. \A h \in Host : Lists(acceptignoreinfo[h]) \subseteq Port
  BY <1>1 DEF Lists, PortInfo
<1>4. ListedOnes = {a \in Host \X Port : a[2] \in Lists(acceptignoreinfo[a[1]])}
  BY <1>2 DEF ListedOnes
<1>5. QED
  BY <1>3, <1>4 DEF NothingUnasked

\* The same of the next state.
LEMMA UnaskedByHostNext ==
  ASSUME FilterTypeOK',
         \A h \in Host : \A p \in Lists(acceptignoreinfo'[h]) : <<h, p>> \in wanted'
  PROVE  NothingUnasked'
<1>1. \A h \in Host : acceptignoreinfo'[h] \in PortInfo
  BY DEF FilterTypeOK
<1>2. \A h \in Host, p \in Port :
        Listed(h, p)' <=> p \in Lists(acceptignoreinfo'[h])
  BY <1>1 DEF Listed, Lists, PortInfo
<1>3. QED
  BY <1>2 DEF NothingUnasked, ListedOnes

\* An entry that is added lists what the application named.
LEMMA AddKeeps ==
  ASSUME FilterInvariant, NEW h \in Host, NEW p \in Port \cup {AllPorts},
         AddToList(h, p)
  PROVE  FilterInvariant'
<1> DEFINE added == ProcessAddAcceptIgnoreEntry(acceptignoreinfo[h], p)
<1>1. acceptignoreinfo \in [Host -> PortInfo] /\ wanted \subseteq Host \X Port
  BY DEF FilterInvariant, FilterTypeOK
<1>2. added \in PortInfo
  BY <1>1, EntryTypes
<1>3. acceptignoreinfo' = [acceptignoreinfo EXCEPT ![h] = added]
  BY DEF AddToList
<1>4. FilterTypeOK'
  BY <1>1, <1>2, <1>3, PortAssumption
     DEF FilterInvariant, FilterTypeOK, AddToList, Named, AllPorts
<1>5. ASSUME NEW g \in Host, NEW q \in Lists(acceptignoreinfo'[g])
      PROVE  <<g, q>> \in wanted'
  <2>1. CASE g = h
    <3>1. acceptignoreinfo'[g] = added
      BY <1>1, <1>3, <2>1
    <3>2. \/ q \in Lists(acceptignoreinfo[h])
          \/ q \in (IF p = AllPorts THEN Port ELSE {p})
      BY <1>1, <3>1, AddingLists
    <3>3. q \in Lists(acceptignoreinfo[h]) => <<g, q>> \in wanted
      BY <2>1, UnaskedByHost DEF FilterInvariant
    <3>4. QED
      BY <2>1, <3>2, <3>3 DEF AddToList, Named
  <2>2. CASE g # h
    <3>1. acceptignoreinfo'[g] = acceptignoreinfo[g]
      BY <1>1, <1>3, <2>2
    <3>2. <<g, q>> \in wanted
      BY <3>1, UnaskedByHost DEF FilterInvariant
    <3>3. QED
      BY <3>2 DEF AddToList
  <2>3. QED
    BY <2>1, <2>2
<1>6. QED
  BY <1>4, <1>5, UnaskedByHostNext DEF FilterInvariant

\* So does the list without an entry that is deleted.
LEMMA DeleteKeeps ==
  ASSUME FilterInvariant, NEW h \in Host, NEW p \in Port \cup {AllPorts},
         DeleteFromList(h, p)
  PROVE  FilterInvariant'
<1> DEFINE rest == ProcessDeleteAcceptIgnoreEntry(acceptignoreinfo[h], p)
<1>1. acceptignoreinfo \in [Host -> PortInfo] /\ wanted \subseteq Host \X Port
  BY DEF FilterInvariant, FilterTypeOK
<1>2. rest \in PortInfo
  BY <1>1, EntryTypes
<1>3. acceptignoreinfo' = [acceptignoreinfo EXCEPT ![h] = rest]
  BY DEF DeleteFromList
<1>4. FilterTypeOK'
  BY <1>1, <1>2, <1>3 DEF FilterInvariant, FilterTypeOK, DeleteFromList
<1>5. ASSUME NEW g \in Host, NEW q \in Lists(acceptignoreinfo'[g])
      PROVE  <<g, q>> \in wanted'
  <2>1. CASE g = h
    <3>1. acceptignoreinfo'[g] = rest
      BY <1>1, <1>3, <2>1
    <3>2. /\ q \in Lists(acceptignoreinfo[h])
          /\ q \notin (IF p = AllPorts THEN Port ELSE {p})
      BY <1>1, <3>1, DeletingLists
    <3>3. <<g, q>> \in wanted
      BY <2>1, <3>2, UnaskedByHost DEF FilterInvariant
    <3>4. QED
      BY <2>1, <3>2, <3>3 DEF DeleteFromList, Named
  <2>2. CASE g # h
    <3>1. acceptignoreinfo'[g] = acceptignoreinfo[g]
      BY <1>1, <1>3, <2>2
    <3>2. <<g, q>> \in wanted
      BY <3>1, UnaskedByHost DEF FilterInvariant
    <3>3. QED
      BY <2>2, <3>2 DEF DeleteFromList, Named
  <2>3. QED
    BY <2>1, <2>2
<1>6. QED
  BY <1>4, <1>5, UnaskedByHostNext DEF FilterInvariant

\* An empty list acts on nothing, whatever the mode.
LEMMA NothingKeeps ==
  ASSUME acceptignoreinfo' = Nothing, wanted' = {}, receivemode' \in ReceiveMode
  PROVE  FilterInvariant'
<1>1. FilterTypeOK'
  BY DEF FilterTypeOK, Nothing, PortInfo
<1>2. \A h \in Host : Lists(acceptignoreinfo'[h]) = {}
  BY DEF Nothing, Lists
<1>3. QED
  BY <1>1, <1>2, UnaskedByHostNext DEF FilterInvariant

\* No call breaks it.
LEMMA FilterKeeps ==
  ASSUME FilterInvariant, [FilterNext \/ FilterBegins \/ FilterEnds]_fvars
  PROVE  FilterInvariant'
<1>1. receivemode \in ReceiveMode
  BY DEF FilterInvariant, FilterTypeOK
<1>2. ASSUME NEW m \in ReceiveMode, SetReceiveMode(m) PROVE FilterInvariant'
  BY <1>2, NothingKeeps DEF SetReceiveMode
<1>3. ASSUME NEW h \in Host, NEW p \in Port \cup {AllPorts}, ChangeList(h, p)
      PROVE  FilterInvariant'
  BY <1>3, AddKeeps, DeleteKeeps
     DEF ChangeList, AddToAcceptList, AddToIgnoreList, DeleteFromAcceptList,
         DeleteFromIgnoreList
<1>4. CASE ClearAcceptList \/ ClearIgnoreList \/ FilterEnds
  BY <1>1, <1>4, NothingKeeps
     DEF ClearAcceptList, ClearIgnoreList, FilterEnds, ClearAcceptIgnoreInfo
<1>5. CASE FilterBegins
  BY <1>5
     DEF FilterBegins, FilterInvariant, FilterTypeOK, ReceiveMode,
         NothingUnasked, ListedOnes, Listed
<1>6. CASE UNCHANGED fvars
  BY <1>6
     DEF fvars, FilterInvariant, FilterTypeOK, NothingUnasked, ListedOnes, Listed
<1> QED BY <1>2, <1>3, <1>4, <1>5, <1>6 DEF FilterNext

\* It holds of the mode and the list at first.
LEMMA FilterStarts ==
  ASSUME FilterInit
  PROVE  FilterInvariant
<1>1. FilterTypeOK
  BY DEF FilterInit, FilterTypeOK, Nothing, PortInfo, ReceiveMode
<1>2. \A h \in Host : Lists(acceptignoreinfo[h]) = {}
  BY DEF FilterInit, Nothing, Lists
<1> QED BY <1>1, <1>2, UnaskedByHost DEF FilterInvariant

\* The receive mode with its list keeps its types, and never acts on an address
\* the application did not put on the list or has deleted since (accept and
\* ignore lists of the UDP and the fake transmitters).
THEOREM FilterIsRight == FilterSpec => []FilterTypeOK /\ []NothingUnasked
<1>1. FilterInit => FilterInvariant
  BY FilterStarts
<1>2. FilterInvariant /\ [FilterNext \/ FilterBegins \/ FilterEnds]_fvars
        => FilterInvariant'
  BY FilterKeeps
<1> QED BY <1>1, <1>2, PTL DEF FilterSpec, FilterInvariant

-----------------------------------------------------------------------------
(* What the transmitters have in common.                                   *)

\* Destroy waits for as long as a thread waits in a transmitter that is gone,
\* and only then; what a wait saw in the pipe is still there.
Life ==
  /\ created \in BOOLEAN /\ destroying \in BOOLEAN
  /\ waiter.at \in {"idle", "select", "woken"}
  /\ abort \in [own : BOOLEAN, bytes : 0..(MaxAborts + 1)]
  /\ created => abort.bytes <= MaxAborts /\ ~ destroying
  /\ ~ created /\ waitingfordata => destroying
  /\ NeverReadsEmptyPipe

\* A byte written to the pipe of a transmitter, waited for or not.
Signals ==
  /\ created /\ abort.bytes < MaxAborts
  /\ abort' = SendAbortSignal(abort)
  /\ UNCHANGED <<created, destroying, waiter>>

\* What the steps of a transmitter do to the variables of Life.
LifeStep ==
  \/ StartsWaiting
  \/ \E sockets : "abort" \notin sockets /\ SelectReturns(sockets)
  \/ SelectTimesOut
  \/ EndsWaiting(ReadSignallingByte(abort)) \/ EndsWaiting(ClearAbortSignal(abort))
  \/ Signals
  \/ ~ created /\ ~ destroying /\ \E own \in BOOLEAN : IsCreated(own)
  \/ IsDestroyed
  \/ DestroyReturns
  \/ UNCHANGED <<created, destroying, waiter, abort>>

\* No step of a transmitter breaks it.
LEMMA LifeGoesOn ==
  ASSUME Life, LifeStep
  PROVE  Life'
<1>0. MaxAborts \in Nat /\ MaxAborts > 0 /\ abort.bytes \in Nat
      /\ abort \in [own : BOOLEAN, bytes : 0..(MaxAborts + 1)]
  BY AbortsAssumption DEF Life
<1>1. CASE StartsWaiting
  BY <1>1 DEF StartsWaiting, Life, NeverReadsEmptyPipe, waitingfordata
<1>2. ASSUME NEW sockets, "abort" \notin sockets, SelectReturns(sockets)
      PROVE  Life'
  BY <1>0, <1>2 DEF SelectReturns, Life, NeverReadsEmptyPipe, waitingfordata
<1>3. CASE SelectTimesOut
  BY <1>3 DEF SelectTimesOut, Life, NeverReadsEmptyPipe, waitingfordata
<1>4. ASSUME NEW emptied \in {ReadSignallingByte(abort), ClearAbortSignal(abort)},
             EndsWaiting(emptied)
      PROVE  Life'
  <2>1. ASSUME created, "abort" \in waiter.ready
        PROVE  /\ emptied \in [own : BOOLEAN, bytes : 0..(MaxAborts + 1)]
               /\ emptied.bytes <= MaxAborts
    <3>1. abort.bytes > 0 /\ abort.bytes <= MaxAborts
      BY <1>4, <2>1 DEF Life, NeverReadsEmptyPipe, EndsWaiting
    <3> QED BY <1>0, <3>1 DEF ReadSignallingByte, ClearAbortSignal
  <2> QED BY <1>4, <2>1
          DEF EndsWaiting, Nowhere, Life, NeverReadsEmptyPipe, waitingfordata
<1>5. CASE Signals
  BY <1>0, <1>5 DEF Signals, SendAbortSignal, Life, NeverReadsEmptyPipe, waitingfordata
<1>6. ASSUME ~ created, ~ destroying, NEW own \in BOOLEAN, IsCreated(own)
      PROVE  Life'
  <2>1. abort' \in [own : BOOLEAN, bytes : 0..(MaxAborts + 1)]
        /\ abort'.bytes <= MaxAborts
    BY <1>0, <1>6 DEF IsCreated, AbortDescriptors
  <2> QED BY <1>6, <2>1 DEF IsCreated, Life, NeverReadsEmptyPipe, waitingfordata
<1>7. CASE IsDestroyed
  <2>1. abort' \in [own : BOOLEAN, bytes : 0..(MaxAborts + 1)]
    BY <1>0, <1>7
       DEF IsDestroyed, CloseAbortDescriptors, SendAbortSignal, ClearAbortSignal, Life
  <2> QED BY <1>7, <2>1 DEF IsDestroyed, Life, NeverReadsEmptyPipe, waitingfordata
<1>8. CASE DestroyReturns
  BY <1>8 DEF DestroyReturns, Life, NeverReadsEmptyPipe, waitingfordata
<1>9. CASE UNCHANGED <<created, destroying, waiter, abort>>
  BY <1>9 DEF Life, NeverReadsEmptyPipe, waitingfordata
<1> QED BY <1>1, <1>2, <1>3, <1>4, <1>5, <1>6, <1>7, <1>8, <1>9 DEF LifeStep

-----------------------------------------------------------------------------
(* The steps of each transmitter, as steps of that.                        *)

\* No one else runs while Create of a UDP transmitter goes through its stages,
\* and nothing waits for a fake one.
Creates ==
  /\ UDP => DOMAIN creating = {"stage", "params", "attempts", "toclose"}
  /\ UDP /\ creating.stage # "no" =>
       ~ created /\ ~ destroying /\ creating.params.ownabort \in BOOLEAN
  /\ kind = "fake" => waiter.at = "idle" /\ ~ destroying

\* The destinations and the sockets a wait looks at are connections, and it
\* looks at all of them or will be woken.
Watches ==
  kind = "tcp" =>
    /\ m_tmpSocks \subseteq Connection
    /\ TCP!Destinations \subseteq Connection
    /\ TCP!NewConnectionWakes

\* The lives of the transmitters.
LEMMA V4LifeSteps ==
  ASSUME V4Next, Creates, UDP
  PROVE  LifeStep
<1>1. ASSUME NEW params, V4!Create(params) PROVE LifeStep
  BY <1>1 DEF V4!Create, V4!CreateBegins, V4!CreateWithSockets, V4!CreateOnPort,
              V4!butCreate, LifeStep
<1>2. CASE V4!CreateGoesOn
  <2>1. CASE V4!GetAutoSockets \/ V4!GetAutoSocketsFails \/ V4!CreateGivesUp
    BY <2>1 DEF V4!GetAutoSockets, V4!GetAutoSocketsFails, V4!CreateGivesUp,
                V4!butCreate, LifeStep
  <2>2. CASE V4!CreateEnds
    BY <2>2 DEF V4!CreateEnds, V4!Finished, V4!IsCreated, IsCreated,
                V4!AbortDescriptors, AbortDescriptors, Creates, LifeStep
  <2> QED BY <1>2, <2>1, <2>2 DEF V4!CreateGoesOn
<1>3. CASE V4!Destroy \/ V4!DestroyEnds
  BY <1>3 DEF V4!Destroy, V4!DestroyEnds, V4!IsDestroyed, IsDestroyed,
              V4!DestroyReturns, DestroyReturns, V4!CloseAbortDescriptors,
              CloseAbortDescriptors, V4!SendAbortSignal, SendAbortSignal,
              V4!ClearAbortSignal, ClearAbortSignal, V4!waitingfordata,
              waitingfordata, LifeStep
<1>4. CASE V4Waits
  <2>1. CASE V4!SelectWakes
    <3>1. "abort" \notin V4!Ready
      BY DEF V4!Ready, V4!Channel
    <3>2. SelectReturns(V4!Ready)
      BY <2>1 DEF V4!SelectWakes, V4!SelectReturns, SelectReturns
    <3> QED BY <3>1, <3>2 DEF LifeStep
  <2>2. CASE V4!WaitForIncomingData \/ V4!SelectEnds \/ V4!WaitReturns
    BY <2>2 DEF V4!WaitForIncomingData, V4!StartsWaiting, StartsWaiting,
                V4!SelectEnds, V4!SelectTimesOut, SelectTimesOut,
                V4!WaitReturns, V4!EndsWaiting, EndsWaiting, V4!Nowhere, Nowhere,
                V4!ReadSignallingByte, ReadSignallingByte,
                V4!waitingfordata, waitingfordata, LifeStep
  <2>3. CASE V4!AbortWait
    BY <2>3 DEF V4!AbortWait, V4!AbortsWait, Signals, V4!SendAbortSignal,
                SendAbortSignal, LifeStep
  <2> QED BY <1>4, <2>1, <2>2, <2>3 DEF V4Waits
<1>5. CASE V4Receives
  BY <1>5 DEF V4Receives, V4!Arrives, V4!Poll, V4!GetNextPacket, V4!TakesNext,
              V4!basevars, LifeStep
<1>6. CASE V4Groups
  BY <1>6 DEF V4Groups, V4!JoinMulticastGroup, V4!LeaveMulticastGroup,
              V4!LeaveAllMulticastGroups, V4!basevars, LifeStep
<1>7. CASE V4Names
  BY <1>7 DEF V4Names, V4!AddDestination, V4!DeleteDestination,
              V4!ClearDestinations, V4!GetLocalHostName, V4!basevars, LifeStep
<1>8. CASE V4!ChangesFilter
  BY <1>8 DEF V4!ChangesFilter, V4!basevars, LifeStep
<1> QED BY <1>1, <1>2, <1>3, <1>4, <1>5, <1>6, <1>7, <1>8 DEF V4Next

\* Over IPv6.
LEMMA V6LifeSteps ==
  ASSUME V6Next, Creates, UDP
  PROVE  LifeStep
<1>1. ASSUME NEW params, V6!Create(params) PROVE LifeStep
  BY <1>1 DEF V6!Create, LifeStep
<1>2. CASE V6!CreateGivesUp
  BY <1>2 DEF V6!CreateGivesUp, V6!V4!CreateGivesUp, V6!V4!butCreate, LifeStep
<1>3. CASE V6!CreateEnds
  BY <1>3 DEF V6!CreateEnds, V6!V4!Finished, V6!V4!IsCreated, IsCreated,
              V6!V4!AbortDescriptors, AbortDescriptors, Creates, LifeStep
<1>4. CASE V6!Destroy \/ V6!DestroyEnds
  BY <1>4 DEF V6!Destroy, V6!V4!Destroy, V6!DestroyEnds, V6!V4!DestroyEnds,
              V6!V4!IsDestroyed, IsDestroyed, V6!V4!DestroyReturns, DestroyReturns,
              V6!V4!CloseAbortDescriptors, CloseAbortDescriptors,
              V6!V4!SendAbortSignal, SendAbortSignal,
              V6!V4!ClearAbortSignal, ClearAbortSignal, V6!V4!waitingfordata,
              waitingfordata, LifeStep
<1>5. CASE V6Waits
  <2>1. CASE V6!SelectWakes
    <3>1. "abort" \notin V6!V4!Ready
      BY DEF V6!V4!Ready, V6!V4!Channel
    <3>2. SelectReturns(V6!V4!Ready)
      BY <2>1 DEF V6!SelectWakes, V6!V4!SelectWakes, V6!V4!SelectReturns,
                  SelectReturns
    <3> QED BY <3>1, <3>2 DEF LifeStep
  <2>2. CASE V6!WaitForIncomingData \/ V6!SelectEnds \/ V6!WaitReturns
    BY <2>2 DEF V6!WaitForIncomingData, V6!V4!WaitForIncomingData,
                V6!V4!StartsWaiting, StartsWaiting,
                V6!SelectEnds, V6!V4!SelectEnds, V6!V4!SelectTimesOut, SelectTimesOut,
                V6!WaitReturns, V6!V4!WaitReturns, V6!V4!EndsWaiting, EndsWaiting,
                V6!V4!Nowhere, Nowhere,
                V6!V4!ReadSignallingByte, ReadSignallingByte,
                V6!V4!waitingfordata, waitingfordata, LifeStep
  <2>3. CASE V6!AbortWait
    BY <2>3 DEF V6!AbortWait, V6!V4!AbortWait, V6!V4!AbortsWait, Signals,
                V6!V4!SendAbortSignal, SendAbortSignal, LifeStep
  <2> QED BY <1>5, <2>1, <2>2, <2>3 DEF V6Waits
<1>6. CASE V6Receives
  BY <1>6 DEF V6Receives, V6!Arrives, V6!V4!Arrives, V6!Poll, V6!GetNextPacket,
              V6!V4!GetNextPacket, V6!V4!TakesNext, V6!V4!basevars, LifeStep
<1>7. CASE V6Groups
  BY <1>7 DEF V6Groups, V6!JoinMulticastGroup, V6!LeaveMulticastGroup,
              V6!LeaveAllMulticastGroups, V6!V4!JoinMulticastGroup,
              V6!V4!LeaveMulticastGroup, V6!V4!LeaveAllMulticastGroups,
              V6!V4!basevars, LifeStep
<1>8. CASE V6Names
  BY <1>8 DEF V6Names, V6!AddDestination, V6!DeleteDestination,
              V6!ClearDestinations, V6!GetLocalHostName,
              V6!V4!AddDestination, V6!V4!DeleteDestination,
              V6!V4!ClearDestinations, V6!V4!GetLocalHostName,
              V6!V4!basevars, LifeStep
<1>9. CASE V6!ChangesFilter
  BY <1>9 DEF V6!ChangesFilter, V6!SetReceiveMode, V6!AddToIgnoreList,
              V6!DeleteFromIgnoreList, V6!AddToAcceptList, V6!DeleteFromAcceptList,
              V6!ClearIgnoreList, V6!ClearAcceptList, V6!butFilter, V6!basevars,
              LifeStep
<1> QED BY <1>1, <1>2, <1>3, <1>4, <1>5, <1>6, <1>7, <1>8, <1>9 DEF V6Next

\* The fake one.
LEMMA FakeLifeSteps ==
  ASSUME FakeNext, Creates, kind = "fake"
  PROVE  LifeStep
<1>1. ASSUME NEW params, Fake!Create(params) PROVE LifeStep
  BY <1>1 DEF Fake!Create, Fake!IsCreated, IsCreated, Fake!AbortDescriptors,
              AbortDescriptors, Creates, LifeStep
<1>2. CASE Fake!Destroy
  BY <1>2 DEF Fake!Destroy, Fake!IsDestroyed, IsDestroyed,
              Fake!CloseAbortDescriptors,
              CloseAbortDescriptors, Fake!SendAbortSignal, SendAbortSignal,
              Fake!ClearAbortSignal, ClearAbortSignal, Fake!waitingfordata,
              waitingfordata, LifeStep
<1>3. CASE FakeReceives
  BY <1>3 DEF FakeReceives, Fake!SetCurrentData, Fake!ForgetCurrentData, Fake!Poll,
              Fake!GetNextPacket, Fake!V4!GetNextPacket, Fake!V4!TakesNext,
              Fake!basevars, LifeStep
<1>4. CASE FakeNames
  BY <1>4 DEF FakeNames, Fake!AddDestination, Fake!DeleteDestination,
              Fake!ClearDestinations, Fake!GetLocalHostName,
              Fake!V4!AddDestination, Fake!V4!DeleteDestination,
              Fake!V4!ClearDestinations, Fake!V4!GetLocalHostName,
              Fake!V4!basevars, LifeStep
<1>5. CASE Fake!ChangesFilter
  BY <1>5 DEF Fake!ChangesFilter, Fake!SetReceiveMode, Fake!AddToIgnoreList,
              Fake!DeleteFromIgnoreList, Fake!AddToAcceptList,
              Fake!DeleteFromAcceptList, Fake!ClearIgnoreList, Fake!ClearAcceptList,
              Fake!butFilter, Fake!basevars, LifeStep
<1> QED BY <1>1, <1>2, <1>3, <1>4, <1>5 DEF FakeNext

\* Over TCP.
LEMMA TCPLifeSteps ==
  ASSUME TCPNext, Watches, kind = "tcp"
  PROVE  LifeStep
<1>1. ASSUME NEW own \in BOOLEAN, TCP!Create(own) PROVE LifeStep
  BY <1>1 DEF TCP!Create, TCP!IsCreated, IsCreated, TCP!AbortDescriptors,
              AbortDescriptors, LifeStep
<1>2. CASE TCP!Destroy \/ TCP!DestroyEnds
  BY <1>2 DEF TCP!Destroy, TCP!DestroyEnds, TCP!IsDestroyed, IsDestroyed,
              TCP!DestroyReturns, DestroyReturns, TCP!CloseAbortDescriptors,
              CloseAbortDescriptors, TCP!SendAbortSignal, SendAbortSignal,
              TCP!ClearAbortSignal, ClearAbortSignal, TCP!waitingfordata,
              waitingfordata, LifeStep
<1>3. CASE TCPWaits
  <2>1. CASE TCP!SelectWakes
    <3>1. "abort" \notin TCP!Ready
      BY InstanceAssumption DEF TCP!Ready, Watches
    <3>2. SelectReturns(TCP!Ready)
      BY <2>1 DEF TCP!SelectWakes, TCP!SelectReturns, SelectReturns
    <3> QED BY <3>1, <3>2 DEF LifeStep
  <2>2. CASE TCP!WaitForIncomingData \/ TCP!SelectEnds \/ TCP!WaitReturns
    BY <2>2 DEF TCP!WaitForIncomingData, TCP!StartsWaiting, StartsWaiting,
                TCP!SelectEnds, TCP!SelectTimesOut, SelectTimesOut,
                TCP!WaitReturns, TCP!EndsWaiting, EndsWaiting, TCP!Nowhere, Nowhere,
                TCP!ReadSignallingByte, ReadSignallingByte,
                TCP!waitingfordata, waitingfordata, LifeStep
  <2>3. CASE TCP!AbortWait
    BY <2>3 DEF TCP!AbortWait, TCP!AbortsWait, Signals, TCP!SendAbortSignal,
                SendAbortSignal, LifeStep
  <2> QED BY <1>3, <2>1, <2>2, <2>3 DEF TCPWaits
<1>4. CASE TCP!GetNextPacket \/ TCP!ClearDestinations
  BY <1>4 DEF TCP!GetNextPacket, TCP!TakesNext, TCP!ClearDestinations,
              TCP!basevars, LifeStep
<1>5. ASSUME NEW s \in Connection, TCP!AddDestination(s) PROVE LifeStep
  BY <1>5 DEF TCP!AddDestination, TCP!SendAbortSignal, SendAbortSignal, Signals,
              LifeStep
<1>6. ASSUME NEW s \in Connection, TCP!DeleteDestination(s) \/ TCP!PollSocket(s)
      PROVE  LifeStep
  BY <1>6 DEF TCP!DeleteDestination, TCP!PollSocket, TCP!basevars, LifeStep
<1>7. ASSUME NEW s \in Connection, NEW len,
             TCP!BytesArrive(s) \/ TCP!PeerSends(s, len)
      PROVE  LifeStep
  BY <1>7 DEF TCP!BytesArrive, TCP!PeerSends, TCP!basevars, LifeStep
<1> QED BY <1>1, <1>2, <1>3, <1>4, <1>5, <1>6, <1>7 DEF TCPNext

\* What an external transmitter knows of its pipe.
Counts ==
  kind = "external" =>
    /\ m_abortCount \in 0..(MaxAborts + 1)
    /\ External!InjectedWakes /\ External!CountsTheBytes

\* The external one.
LEMMA ExternalLifeSteps ==
  ASSUME ExternalNext, Life, Counts, kind = "external"
  PROVE  LifeStep
<1>1. CASE External!Create
  BY <1>1 DEF External!Create, External!IsCreated, IsCreated,
              External!AbortDescriptors, AbortDescriptors, LifeStep
<1>2. CASE External!Destroy \/ External!DestroyEnds
  BY <1>2 DEF External!Destroy, External!DestroyEnds, External!IsDestroyed,
              IsDestroyed, External!DestroyReturns, DestroyReturns,
              External!CloseAbortDescriptors, CloseAbortDescriptors,
              External!SendAbortSignal, SendAbortSignal,
              External!ClearAbortSignal, ClearAbortSignal, External!waitingfordata,
              waitingfordata, LifeStep
<1>3. CASE External!SelectWakes
  <2>1. SelectReturns({})
    BY <1>3 DEF External!SelectWakes, External!SelectReturns, SelectReturns
  <2> QED BY <2>1 DEF LifeStep
<1>4. CASE External!WaitForIncomingData \/ External!SelectEnds \/ External!WaitReturns
  BY <1>4 DEF External!WaitForIncomingData, External!StartsWaiting, StartsWaiting,
              External!SelectEnds, External!SelectTimesOut, SelectTimesOut,
              External!WaitReturns, External!EndsWaiting, EndsWaiting,
              External!Nowhere, Nowhere,
              External!ClearAbortSignal, ClearAbortSignal,
              External!waitingfordata, waitingfordata, LifeStep
<1>5. CASE External!AbortWait
  BY <1>5 DEF External!AbortWait, External!AbortsWait, Signals,
              External!SendAbortSignal, SendAbortSignal, LifeStep
<1>6. CASE External!Inject
  <2>1. CASE m_abortCount = 0
    <3>1. abort.bytes = 0 /\ abort.bytes < MaxAborts
      BY <1>6, <2>1, AbortsAssumption
         DEF External!Inject, Counts, External!CountsTheBytes
    <3> QED BY <1>6, <2>1, <3>1 DEF External!Inject, External!SendAbortSignal,
              SendAbortSignal, Signals, LifeStep
  <2>2. CASE m_abortCount # 0
    BY <1>6, <2>2 DEF External!Inject, LifeStep
  <2> QED BY <2>1, <2>2
<1>7. CASE External!GetNextPacket
  BY <1>7 DEF External!GetNextPacket, External!TakesNext, LifeStep
<1> QED BY <1>1, <1>2, <1>3, <1>4, <1>5, <1>6, <1>7 DEF ExternalNext

-----------------------------------------------------------------------------
(* No transmitter breaks them.                                             *)

\* Every set of parameters says whose the abort descriptors are.
LEMMA OwnAbort ==
  ASSUME NEW params \in V4Params \cup FewParams \cup V6Params
  PROVE  params.ownabort \in BOOLEAN
<1>1. ASSUME NEW e, NEW b, NEW r, NEW m, NEW o, params \in Params(e, b, r, m, o)
      PROVE  params.ownabort \in BOOLEAN
  BY <1>1 DEF Params
<1>2. CASE params \in AppIPs
  BY <1>2 DEF AppIPs, OnPort, Params
<1>3. CASE params \in AppPipe
  BY <1>3 DEF AppPipe, Params
<1> QED BY <1>1, <1>2, <1>3 DEF V4Params, FewParams, V6Params, OnPort

\* What the variables of Creates become in the stages of Create.
LEMMA V4Creates ==
  ASSUME V4Next, Creates, Life, UDP, kind' = kind
  PROVE  Creates'
<1>0. UDP' /\ kind' # "fake"
  BY DEF UDP
<1> USE DEF Creates
<1>1. ASSUME NEW params \in V4Params \cup FewParams, V4!Create(params)
      PROVE  Creates'
  <2>1. params.ownabort \in BOOLEAN
    BY OwnAbort
  <2>2. /\ ~ created /\ ~ destroying /\ UNCHANGED <<created, destroying>>
        /\ \/ creating' = V4!NotCreating
           \/ \E stage : creating' = [V4!NotCreating EXCEPT !.stage = stage,
                                                            !.params = params]
    BY <1>1 DEF V4!Create, V4!CreateBegins, V4!CreateWithSockets, V4!CreateOnPort,
                V4!butCreate, V4!Fails
  <2>3. CASE creating' = V4!NotCreating
    BY <1>0, <2>3 DEF V4!NotCreating
  <2>4. ASSUME NEW stage,
               creating' = [V4!NotCreating EXCEPT !.stage = stage, !.params = params]
        PROVE  Creates'
    <3>1. /\ DOMAIN creating' = {"stage", "params", "attempts", "toclose"}
          /\ creating'.params = params
      BY <2>4 DEF V4!NotCreating
    <3> QED BY <1>0, <2>1, <2>2, <3>1
  <2> QED BY <2>2, <2>3, <2>4
<1>2. CASE V4!CreateGoesOn
  <2>1. CASE V4!GetAutoSockets \/ V4!GetAutoSocketsFails \/ V4!CreateGivesUp
    <3>1. /\ creating.stage # "no" /\ UNCHANGED <<created, destroying>>
          /\ \/ creating' = V4!NotCreating
             \/ creating' = [creating EXCEPT !.stage = "setup", !.toclose = {}]
             \/ \E ss : creating' = [creating EXCEPT !.attempts = @ + 1,
                                                     !.toclose = @ \cup ss]
      BY <2>1 DEF V4!GetAutoSockets, V4!AutoSockets, V4!KeepsForLater, V4!InPortOrder,
                  V4!Takes, V4!Uses, V4!GetAutoSocketsFails, V4!CreateGivesUp,
                  V4!Fails, V4!butCreate
    <3>2. CASE creating' = V4!NotCreating
      BY <1>0, <3>2 DEF V4!NotCreating
    <3>3. CASE creating' = [creating EXCEPT !.stage = "setup", !.toclose = {}]
      BY <1>0, <3>1, <3>3
    <3>4. ASSUME NEW ss, creating' = [creating EXCEPT !.attempts = @ + 1,
                                                      !.toclose = @ \cup ss]
          PROVE  Creates'
      <4>1. /\ DOMAIN creating' = {"stage", "params", "attempts", "toclose"}
            /\ creating'.params = creating.params
        BY <3>4
      <4> QED BY <1>0, <3>1, <4>1
    <3> QED BY <3>1, <3>2, <3>3, <3>4
  <2>2. CASE V4!CreateEnds
    BY <1>0, <2>2 DEF V4!CreateEnds, V4!Finished, V4!NotCreating
  <2> QED BY <1>2, <2>1, <2>2 DEF V4!CreateGoesOn
<1>3. CASE ~ (\E params \in V4Params \cup FewParams : V4!Create(params))
           /\ ~ V4!CreateGoesOn
  <2>1. UNCHANGED creating
    BY <1>3 DEF V4Next, V4!Destroy, V4!DestroyEnds, V4!udpvars, V4Waits,
      V4!WaitForIncomingData, V4!SelectWakes, V4!SelectEnds, V4!WaitReturns,
      V4!AbortWait, V4Receives, V4!Arrives, V4!Poll, V4!GetNextPacket,
      V4!ChangesFilter, V4Groups, V4!JoinMulticastGroup, V4!LeaveMulticastGroup,
      V4!LeaveAllMulticastGroups, V4!butGroups, V4Names, V4!AddDestination,
      V4!DeleteDestination, V4!ClearDestinations, V4!butLists, V4!GetLocalHostName
  <2>2. CASE creating.stage = "no"
    BY <1>0, <2>1, <2>2
  <2>3. CASE creating.stage # "no"
    <3>1. ~ created /\ ~ destroying
      BY <2>3
    <3>2. UNCHANGED <<created, destroying>>
      BY <1>3, <3>1 DEF V4Next, V4!Destroy, V4!IsDestroyed, V4!DestroyEnds,
        V4!DestroyReturns, V4Waits, V4!WaitForIncomingData, V4!StartsWaiting,
        V4!SelectWakes, V4!SelectReturns, V4!SelectEnds, V4!SelectTimesOut,
        V4!WaitReturns, V4!EndsWaiting, V4!AbortWait, V4!AbortsWait, V4Receives,
        V4!Arrives, V4!Poll, V4!GetNextPacket, V4!TakesNext, V4!ChangesFilter,
        V4Groups, V4!JoinMulticastGroup, V4!LeaveMulticastGroup,
        V4!LeaveAllMulticastGroups, V4Names, V4!AddDestination,
        V4!DeleteDestination, V4!ClearDestinations, V4!GetLocalHostName,
        V4!basevars
    <3> QED BY <1>0, <2>1, <3>1, <3>2
  <2> QED BY <2>2, <2>3
<1> QED BY <1>1, <1>2, <1>3

\* The same over IPv6, which has fewer stages.
LEMMA V6Creates ==
  ASSUME V6Next, Creates, Life, UDP, kind' = kind
  PROVE  Creates'
<1>0. UDP' /\ kind' # "fake"
  BY DEF UDP
<1> USE DEF Creates
<1>1. ASSUME NEW params \in V6Params, V6!Create(params)
      PROVE  Creates'
  <2>1. params.ownabort \in BOOLEAN
    BY OwnAbort
  <2>2. /\ ~ created /\ ~ destroying /\ UNCHANGED <<created, destroying>>
        /\ \/ creating' = V6!V4!NotCreating
           \/ creating' = [V6!V4!NotCreating EXCEPT !.stage = "setup",
                                                    !.params = params]
    BY <1>1 DEF V6!Create, V6!V4!Fails
  <2>3. CASE creating' = V6!V4!NotCreating
    BY <1>0, <2>3 DEF V6!V4!NotCreating
  <2>4. CASE creating' = [V6!V4!NotCreating EXCEPT !.stage = "setup",
                                                   !.params = params]
    BY <1>0, <2>1, <2>2, <2>4 DEF V6!V4!NotCreating
  <2> QED BY <2>2, <2>3, <2>4
<1>2. CASE V6!CreateGivesUp \/ V6!CreateEnds
  <2>1. creating' = V6!V4!NotCreating
        \/ creating' = [V6!V4!NotCreating EXCEPT !.params = creating.params]
    BY <1>2 DEF V6!CreateGivesUp, V6!V4!CreateGivesUp, V6!V4!Fails, V6!CreateEnds,
                V6!V4!Finished
  <2> QED BY <1>0, <2>1 DEF V6!V4!NotCreating
<1>3. CASE ~ (\E params \in V6Params : V6!Create(params))
           /\ ~ V6!CreateGivesUp /\ ~ V6!CreateEnds
  <2>1. UNCHANGED creating
    BY <1>3 DEF V6Next, V6!Destroy, V6!V4!Destroy, V6!DestroyEnds, V6!V4!DestroyEnds,
      V6!V4!udpvars, V6Waits, V6!WaitForIncomingData, V6!V4!WaitForIncomingData,
      V6!SelectWakes, V6!V4!SelectWakes, V6!SelectEnds, V6!V4!SelectEnds,
      V6!WaitReturns, V6!V4!WaitReturns, V6!AbortWait, V6!V4!AbortWait, V6Receives,
      V6!Arrives, V6!V4!Arrives, V6!Poll, V6!GetNextPacket, V6!V4!GetNextPacket,
      V6!ChangesFilter, V6!SetReceiveMode, V6!AddToIgnoreList,
      V6!DeleteFromIgnoreList, V6!AddToAcceptList, V6!DeleteFromAcceptList,
      V6!ClearIgnoreList, V6!ClearAcceptList, V6!butFilter, V6!udpvars,
      V6Groups, V6!JoinMulticastGroup, V6!V4!JoinMulticastGroup,
      V6!LeaveMulticastGroup, V6!V4!LeaveMulticastGroup,
      V6!LeaveAllMulticastGroups, V6!V4!LeaveAllMulticastGroups, V6!V4!butGroups,
      V6Names, V6!AddDestination, V6!V4!AddDestination, V6!DeleteDestination,
      V6!V4!DeleteDestination, V6!ClearDestinations, V6!V4!ClearDestinations,
      V6!V4!butLists, V6!GetLocalHostName, V6!V4!GetLocalHostName
  <2>2. CASE creating.stage = "no"
    BY <1>0, <2>1, <2>2
  <2>3. CASE creating.stage # "no"
    <3>1. ~ created /\ ~ destroying
      BY <2>3
    <3>2. UNCHANGED <<created, destroying>>
      BY <1>3, <3>1 DEF V6Next, V6!Destroy, V6!V4!Destroy, V6!V4!IsDestroyed,
        V6!DestroyEnds, V6!V4!DestroyEnds, V6!V4!DestroyReturns, V6Waits,
        V6!WaitForIncomingData, V6!V4!WaitForIncomingData, V6!V4!StartsWaiting,
        V6!SelectWakes, V6!V4!SelectWakes, V6!V4!SelectReturns,
        V6!SelectEnds, V6!V4!SelectEnds, V6!V4!SelectTimesOut,
        V6!WaitReturns, V6!V4!WaitReturns, V6!V4!EndsWaiting,
        V6!AbortWait, V6!V4!AbortWait, V6!V4!AbortsWait, V6Receives,
        V6!Arrives, V6!V4!Arrives, V6!Poll, V6!GetNextPacket, V6!V4!GetNextPacket,
        V6!V4!TakesNext,
        V6!ChangesFilter, V6!SetReceiveMode, V6!AddToIgnoreList,
        V6!DeleteFromIgnoreList, V6!AddToAcceptList, V6!DeleteFromAcceptList,
        V6!ClearIgnoreList, V6!ClearAcceptList,
        V6Groups, V6!JoinMulticastGroup, V6!V4!JoinMulticastGroup,
        V6!LeaveMulticastGroup, V6!V4!LeaveMulticastGroup,
        V6!LeaveAllMulticastGroups, V6!V4!LeaveAllMulticastGroups,
        V6Names, V6!AddDestination, V6!V4!AddDestination, V6!DeleteDestination,
        V6!V4!DeleteDestination, V6!ClearDestinations, V6!V4!ClearDestinations,
        V6!GetLocalHostName, V6!V4!GetLocalHostName
    <3> QED BY <1>0, <2>1, <3>1, <3>2
  <2> QED BY <2>2, <2>3
<1> QED BY <1>1, <1>2, <1>3

\* A fake transmitter has no waits and no stages.
LEMMA FakeCreates ==
  ASSUME FakeNext, Creates, kind = "fake", kind' = kind
  PROVE  Creates'
<1>1. ~ UDP' /\ waiter.at = "idle" /\ ~ destroying
  BY DEF UDP, Creates
<1>2. waiter'.at = "idle" /\ ~ destroying'
  <2>1. ASSUME NEW params, Fake!Create(params) PROVE UNCHANGED <<waiter, destroying>>
    BY <2>1 DEF Fake!Create, Fake!IsCreated
  <2>2. CASE Fake!Destroy
    BY <1>1, <2>2 DEF Fake!Destroy, Fake!IsDestroyed, Fake!waitingfordata
  <2>3. CASE FakeReceives
    BY <1>1, <2>3 DEF FakeReceives, Fake!SetCurrentData, Fake!ForgetCurrentData,
      Fake!Poll, Fake!GetNextPacket, Fake!V4!GetNextPacket, Fake!V4!TakesNext,
      Fake!basevars
  <2>4. CASE FakeNames
    BY <1>1, <2>4 DEF FakeNames, Fake!AddDestination, Fake!DeleteDestination,
      Fake!ClearDestinations, Fake!GetLocalHostName, Fake!V4!AddDestination,
      Fake!V4!DeleteDestination, Fake!V4!ClearDestinations,
      Fake!V4!GetLocalHostName, Fake!V4!basevars
  <2>5. CASE Fake!ChangesFilter
    BY <1>1, <2>5 DEF Fake!ChangesFilter, Fake!SetReceiveMode, Fake!AddToIgnoreList,
      Fake!DeleteFromIgnoreList, Fake!AddToAcceptList, Fake!DeleteFromAcceptList,
      Fake!ClearIgnoreList, Fake!ClearAcceptList, Fake!butFilter, Fake!basevars
  <2> QED BY <1>1, <2>1, <2>2, <2>3, <2>4, <2>5 DEF FakeNext
<1> QED BY <1>1, <1>2 DEF Creates

\* A destination that is added during a wait leaves a byte in the pipe, and no
\* step of the wait takes it before the wait has ended.
LEMMA TCPWatches ==
  ASSUME TCPNext, Watches, Life, kind = "tcp", kind' = kind
  PROVE  Watches'
<1> USE DEF Watches, TCP!NewConnectionWakes, TCP!Destinations
<1>0. abort \in [own : BOOLEAN, bytes : 0..(MaxAborts + 1)] /\ MaxAborts \in Nat
  BY AbortsAssumption DEF Life
<1>1. ASSUME NEW own \in BOOLEAN, TCP!Create(own) PROVE Watches'
  BY <1>1 DEF TCP!Create, TCP!IsCreated, TCP!tcpvars, Life, waitingfordata
<1>2. CASE TCP!Destroy \/ TCP!DestroyEnds
  <2>1. CASE TCP!Destroy
    BY <2>1 DEF TCP!Destroy, TCP!IsDestroyed, TCP!Forgets
  <2>2. CASE TCP!DestroyEnds
    BY <2>2 DEF TCP!DestroyEnds, TCP!DestroyReturns, TCP!tcpvars
  <2> QED BY <1>2, <2>1, <2>2
<1>3. CASE TCPWaits
  <2>1. CASE TCP!WaitForIncomingData
    BY <2>1 DEF TCP!WaitForIncomingData, TCP!StartsWaiting
  <2>2. CASE TCP!SelectWakes \/ TCP!SelectEnds \/ TCP!WaitReturns
    BY <2>2 DEF TCP!SelectWakes, TCP!SelectReturns, TCP!SelectEnds,
                TCP!SelectTimesOut, TCP!WaitReturns, TCP!EndsWaiting, TCP!Nowhere,
                TCP!tcpvars
  <2>3. CASE TCP!AbortWait
    BY <1>0, <2>3 DEF TCP!AbortWait, TCP!AbortsWait, TCP!SendAbortSignal, TCP!tcpvars
  <2> QED BY <1>3, <2>1, <2>2, <2>3 DEF TCPWaits
<1>4. CASE TCP!GetNextPacket
  BY <1>4 DEF TCP!GetNextPacket, TCP!TakesNext, TCP!tcpvars
<1>5. ASSUME NEW ss, TCP!Forgets(ss), UNCHANGED <<m_tmpSocks, waiter, created, abort>>
      PROVE  Watches'
  BY <1>5 DEF TCP!Forgets
<1>6. ASSUME NEW s \in Connection, TCP!AddDestination(s) PROVE Watches'
  <2>1. abort'.bytes > 0
    BY <1>0, <1>6 DEF TCP!AddDestination, TCP!SendAbortSignal
  <2> QED BY <1>6, <2>1 DEF TCP!AddDestination
<1>7. ASSUME NEW s \in Connection,
             TCP!PollSocket(s) \/ TCP!BytesArrive(s) \/ \E len : TCP!PeerSends(s, len)
      PROVE  Watches'
  BY <1>7 DEF TCP!PollSocket, TCP!BytesArrive, TCP!PeerSends, TCP!basevars
<1>8. ASSUME NEW s \in Connection, TCP!ClearDestinations \/ TCP!DeleteDestination(s)
      PROVE  Watches'
  BY <1>5, <1>8 DEF TCP!ClearDestinations, TCP!DeleteDestination, TCP!basevars
<1>9. CASE TCP!ClearDestinations
  BY <1>5, <1>9 DEF TCP!ClearDestinations, TCP!basevars
<1> QED BY <1>1, <1>2, <1>3, <1>4, <1>6, <1>7, <1>8, <1>9 DEF TCPNext

\* m_abortCount goes with the bytes, and the wait begins without packets.
LEMMA ExternalCounts ==
  ASSUME ExternalNext, Counts, Life, kind = "external", kind' = kind
  PROVE  Counts'
<1> USE DEF Counts, External!InjectedWakes, External!CountsTheBytes
<1>0. /\ abort \in [own : BOOLEAN, bytes : 0..(MaxAborts + 1)]
      /\ created => abort.bytes <= MaxAborts
      /\ m_abortCount \in 0..(MaxAborts + 1) /\ MaxAborts \in Nat /\ MaxAborts > 0
  BY AbortsAssumption DEF Life
<1>1. CASE External!Create
  <2>1. abort'.bytes = 0
    BY <1>1 DEF External!Create, External!IsCreated, External!AbortDescriptors
  <2>2. ~ waitingfordata /\ UNCHANGED waiter
    BY <1>1 DEF External!Create, External!IsCreated, Life
  <2> QED BY <1>0, <1>1, <2>1, <2>2 DEF External!Create, waitingfordata
<1>2. CASE External!Destroy \/ External!DestroyEnds
  <2>1. CASE External!Destroy
    BY <1>0, <2>1 DEF External!Destroy, External!IsDestroyed
  <2>2. CASE External!DestroyEnds
    BY <1>0, <2>2 DEF External!DestroyEnds, External!DestroyReturns, External!extvars
  <2> QED BY <1>2, <2>1, <2>2
<1>3. CASE External!WaitForIncomingData
  BY <1>0, <1>3 DEF External!WaitForIncomingData, External!StartsWaiting,
                    External!extvars
<1>4. CASE External!SelectWakes \/ External!SelectEnds
  BY <1>0, <1>4 DEF External!SelectWakes, External!SelectReturns,
                    External!SelectEnds, External!SelectTimesOut, External!extvars
<1>5. CASE External!WaitReturns
  BY <1>0, <1>5 DEF External!WaitReturns, External!EndsWaiting, External!Nowhere,
                    External!ClearAbortSignal
<1>6. CASE External!AbortWait
  BY <1>0, <1>6 DEF External!AbortWait, External!AbortsWait, External!SendAbortSignal
<1>7. CASE External!Inject
  <2>1. CASE m_abortCount = 0
    BY <1>0, <1>7, <2>1 DEF External!Inject, External!SendAbortSignal
  <2>2. CASE m_abortCount # 0
    BY <1>0, <1>7, <2>2 DEF External!Inject
  <2> QED BY <2>1, <2>2
<1>8. CASE External!GetNextPacket
  BY <1>0, <1>8 DEF External!GetNextPacket, External!TakesNext, External!extvars
<1> QED BY <1>1, <1>2, <1>3, <1>4, <1>5, <1>6, <1>7, <1>8 DEF ExternalNext

-----------------------------------------------------------------------------
(* All of them together.                                                   *)

Kinds == {"v4", "v6", "fake", "tcp", "external"}

\* The inductive invariant of the waits.
WaitInv == kind \in Kinds /\ Life /\ Creates /\ Watches /\ Counts

\* It holds of a transmitter that was never created.
LEMMA WaitsBegin ==
  ASSUME Init
  PROVE  WaitInv
<1>1. kind \in Kinds
  BY DEF Init, Kinds
<1>2. Life
  <2>1. /\ created = FALSE /\ destroying = FALSE
        /\ waiter.at = "idle" /\ abort = [own |-> TRUE, bytes |-> 0]
    BY DEF Init, V4!Init, V4!TransmitterInit, V4!Nowhere
  <2>2. 0 \in 0..(MaxAborts + 1)
    BY AbortsAssumption
  <2>3. abort \in [own : BOOLEAN, bytes : 0..(MaxAborts + 1)]
    BY <2>1, <2>2
  <2> QED BY <2>1, <2>3 DEF Life, waitingfordata, NeverReadsEmptyPipe
<1>3. Creates
  BY DEF Init, V4!Init, V4!TransmitterInit, V4!Nowhere, V4!NotCreating, Creates
<1>4. Watches
  BY DEF Init, TCP!Init, TCP!TransmitterInit, TCP!Nowhere, Watches,
         TCP!Destinations, TCP!NewConnectionWakes
<1>5. Counts
  BY AbortsAssumption DEF Init, External!Init, External!TransmitterInit,
         External!Nowhere, Counts, External!InjectedWakes, External!CountsTheBytes
<1> QED BY <1>1, <1>2, <1>3, <1>4, <1>5 DEF WaitInv

\* What the steps of one transmitter leave to the others.
LEMMA WaitsGoOn ==
  ASSUME WaitInv, [Next]_vars
  PROVE  WaitInv'
<1> USE DEF WaitInv
<1>1. CASE kind = "v4" /\ V4Next /\ UNCHANGED <<butUDP, kind, part>>
  <2>1. UDP
    BY <1>1 DEF UDP
  <2>2. Life'
    BY <1>1, <2>1, V4LifeSteps, LifeGoesOn
  <2>3. Creates'
    BY <1>1, <2>1, V4Creates
  <2> QED BY <1>1, <2>2, <2>3 DEF Watches, Counts
<1>2. CASE kind = "v6" /\ V6Next /\ UNCHANGED <<butUDP, kind, part>>
  <2>1. UDP
    BY <1>2 DEF UDP
  <2>2. Life'
    BY <1>2, <2>1, V6LifeSteps, LifeGoesOn
  <2>3. Creates'
    BY <1>2, <2>1, V6Creates
  <2> QED BY <1>2, <2>2, <2>3 DEF Watches, Counts
<1>3. CASE kind = "fake" /\ FakeNext /\ UNCHANGED <<butUDP, kind, part>>
  <2>1. Life'
    BY <1>3, FakeLifeSteps, LifeGoesOn
  <2>2. Creates'
    BY <1>3, FakeCreates
  <2> QED BY <1>3, <2>1, <2>2 DEF Watches, Counts
<1>4. CASE kind = "tcp" /\ TCPNext /\ UNCHANGED <<butTCP, kind, part>>
  <2>1. Life'
    BY <1>4, TCPLifeSteps, LifeGoesOn
  <2>2. Watches'
    BY <1>4, TCPWatches
  <2> QED BY <1>4, <2>1, <2>2 DEF Creates, Counts, UDP
<1>5. CASE kind = "external" /\ ExternalNext /\ UNCHANGED <<butExternal, kind, part>>
  <2>1. Life'
    BY <1>5, ExternalLifeSteps, LifeGoesOn
  <2>2. Counts'
    BY <1>5, ExternalCounts
  <2> QED BY <1>5, <2>1, <2>2 DEF Creates, Watches, UDP
<1>6. CASE UNCHANGED vars
  <2>1. UNCHANGED <<created, destroying, waiter, abort, rawpacketlist, creating,
                    m_destSockets, m_tmpSocks, m_abortCount, kind>>
    BY <1>6 DEF vars, basevars, V4!udpvars, butUDP
  <2>2. Life'
    BY <2>1, LifeGoesOn DEF LifeStep
  <2> QED BY <2>1, <2>2 DEF Creates, UDP, Watches, TCP!Destinations,
        TCP!NewConnectionWakes, Counts, External!InjectedWakes,
        External!CountsTheBytes
<1> QED BY <1>1, <1>2, <1>3, <1>4, <1>5, <1>6 DEF Next

\* The inductive invariant.
LEMMA WaitInvariance == Spec => []WaitInv
<1>1. Init => WaitInv
  BY WaitsBegin
<1>2. WaitInv /\ [Next]_vars => WaitInv'
  BY WaitsGoOn
<1> QED BY <1>1, <1>2, PTL DEF Spec

\* For any number of connections, ports and bytes in the pipe: a thread in
\* WaitForIncomingData is woken by a new connection and by an injected packet,
\* and reads no byte that is not there.
THEOREM WaitsAreAlwaysWoken == Spec => []WaitsAreWoken
<1>1. WaitInv => WaitsAreWoken
  BY DEF WaitInv, WaitsAreWoken, Life, Watches, Counts
<1> QED BY <1>1, WaitInvariance, PTL

-----------------------------------------------------------------------------
(* Polling.                                                                *)

\* A list that begins with the old one, followed by accepted packets.
Grown(P, list, accepted) ==
  {l \in Seq(P) :
     /\ Len(list) <= Len(l)
     /\ \A i \in 1..Len(list) : l[i] = list[i]
     /\ \A i \in (Len(list) + 1)..Len(l) : l[i].from \in accepted}

\* Polling a socket appends what is accepted.
LEMMA PolledGrows ==
  ASSUME NEW P, NEW list \in Seq(P), NEW queue \in Seq(P), NEW accepted
  PROVE  Polled(list, queue, accepted) \in Grown(P, list, accepted)
<1> DEFINE
      L == Len(queue)
      X == Grown(P, list, accepted)
      After(u, n) == IF queue[n].from \in accepted THEN Append(u, queue[n]) ELSE u
      step == [y \in X \X (1..L) |-> After(y[1], y[2])]
      Steps(h) == h = [n \in 0..L |-> IF n = 0 THEN list ELSE After(h[n - 1], n)]
      after == CHOOSE h : Steps(h)
<1>1. L \in Nat /\ \A n \in 1..L : queue[n] \in P
  OBVIOUS
<1>2. ASSUME NEW u \in X, NEW n \in 1..L
      PROVE  After(u, n) \in X
  <2>1. CASE queue[n].from \in accepted
    <3>1. u \in Seq(P) /\ queue[n] \in P /\ Append(u, queue[n]) \in Seq(P)
          /\ Len(Append(u, queue[n])) = Len(u) + 1
      BY <1>1 DEF Grown
    <3>2. \A i \in 1..Len(u) : Append(u, queue[n])[i] = u[i]
      BY <3>1
    <3>3. Append(u, queue[n])[Len(u) + 1] = queue[n]
      BY <3>1
    <3>4. ASSUME NEW r, r = Append(u, queue[n]) PROVE r \in X
      <4>1. /\ r \in Seq(P) /\ u \in Seq(P) /\ Len(r) = Len(u) + 1
            /\ \A i \in 1..Len(u) : r[i] = u[i]
            /\ r[Len(u) + 1].from \in accepted
        BY <2>1, <3>1, <3>2, <3>3, <3>4
      <4>2. Len(list) \in Nat /\ Len(u) \in Nat /\ Len(list) <= Len(u)
        BY <4>1 DEF Grown
      <4>3. \A i \in 1..Len(list) : r[i] = list[i]
        BY <4>1, <4>2 DEF Grown
      <4>4. ASSUME NEW i \in (Len(list) + 1)..Len(r) PROVE r[i].from \in accepted
        <5>1. CASE i = Len(u) + 1
          BY <4>1, <5>1
        <5>2. CASE i # Len(u) + 1
          <6>1. i \in 1..Len(u) /\ i \in (Len(list) + 1)..Len(u)
            BY <4>1, <4>2, <5>2
          <6> QED BY <4>1, <6>1 DEF Grown
        <5> QED BY <5>1, <5>2
      <4>5. Len(list) <= Len(r)
        BY <4>1, <4>2
      <4> QED BY <4>1, <4>3, <4>4, <4>5 DEF Grown
    <3> QED BY <2>1, <3>4
  <2>2. CASE queue[n].from \notin accepted
    BY <2>2
  <2> QED BY <2>1, <2>2
<1>3. list \in X
  BY DEF Grown
<1> HIDE DEF X
<1>4. \E g : Steps(g)
  <2>1. step \in [X \X (1..L) -> X]
    <3> SUFFICES ASSUME NEW y \in X \X (1..L) PROVE step[y] \in X
      OBVIOUS
    <3>1. y[1] \in X /\ y[2] \in 1..L
      OBVIOUS
    <3>2. After(y[1], y[2]) \in X
      <4> HIDE DEF L, After
      <4> QED BY <1>2, <3>1
    <3> QED BY <3>2
  <2>2. PICK g : Iterates(g, X, list, L, step)
    <3> HIDE DEF L, step
    <3> QED BY <1>1, <1>3, <2>1, IterationExists
  <2>3. ASSUME NEW n \in 1..L
        PROVE  step[<<g[n - 1], n>>] = After(g[n - 1], n)
    <3> HIDE DEF L, After
    <3>1. n - 1 \in 0..L /\ g[n - 1] \in X
      BY <1>1, <2>2 DEF Iterates
    <3>2. <<g[n - 1], n>> \in X \X (1..L)
      BY <3>1
    <3> QED BY <3>2
  <2>4. /\ g = [n \in 0..L |-> g[n]] /\ g[0] = list
        /\ \A n \in 1..L : g[n] = step[<<g[n - 1], n>>]
    <3> HIDE DEF L, step
    <3> QED BY <2>2 DEF Iterates
  <2>5. Steps(g)
    <3> HIDE DEF L, step, After
    <3>1. ASSUME NEW n \in 0..L
          PROVE  g[n] = IF n = 0 THEN list ELSE After(g[n - 1], n)
      <4>1. CASE n = 0
        BY <2>4, <4>1
      <4>2. CASE n \in 1..L
        <5>1. g[n] = step[<<g[n - 1], n>>]
          BY ONLY <2>4, <4>2
        <5>2. step[<<g[n - 1], n>>] = After(g[n - 1], n)
          BY <2>3, <4>2
        <5> QED BY <5>1, <5>2, <4>2
      <4> QED BY <1>1, <4>1, <4>2
    <3> QED BY <2>4, <3>1
  <2> QED BY <2>5
<1>5. Steps(after)
  <2> HIDE DEF Steps
  <2> QED BY <1>4
<1>6. /\ after[0] = list
      /\ \A n \in 1..L : after[n] = After(after[n - 1], n)
  <2> HIDE DEF after, L, After
  <2> QED BY <1>1, <1>5
<1>7. after[L] \in X
  <2> HIDE DEF after, L, After
  <2>1. after[0] \in X
    BY <1>3, <1>6
  <2>2. \A n \in 1..L : after[n - 1] \in X => after[n] \in X
    BY <1>2, <1>6
  <2> QED BY <1>1, <2>1, <2>2, IterationStays
<1>8. Polled(list, queue, accepted) = after[L]
  BY DEF Polled
<1> QED BY <1>7, <1>8 DEF X

\* Polling two sockets.
LEMMA PolledTwice ==
  ASSUME NEW P, NEW list \in Seq(P), NEW accepted,
         NEW one \in Grown(P, list, accepted), NEW two \in Grown(P, one, accepted)
  PROVE  two \in Grown(P, list, accepted)
<1>1. /\ one \in Seq(P) /\ two \in Seq(P)
      /\ Len(list) \in Nat /\ Len(one) \in Nat /\ Len(two) \in Nat
  BY DEF Grown
<1>2. Len(one) >= Len(list) /\ Len(two) >= Len(one)
  BY DEF Grown
<1>3. \A i \in 1..Len(list) : two[i] = list[i]
  BY <1>1, <1>2 DEF Grown
<1>4. \A i \in (Len(list) + 1)..Len(two) : two[i].from \in accepted
  <2> SUFFICES ASSUME NEW i \in (Len(list) + 1)..Len(two)
               PROVE  two[i].from \in accepted
    OBVIOUS
  <2>1. CASE i <= Len(one)
    BY <1>1, <1>2, <2>1 DEF Grown
  <2>2. CASE i > Len(one)
    BY <1>1, <1>2, <2>2 DEF Grown
  <2> QED BY <1>1, <2>1, <2>2
<1> QED BY <1>1, <1>2, <1>3, <1>4 DEF Grown

-----------------------------------------------------------------------------
(* The packets, the destinations and the lists from Create to Destroy.     *)

Filters == kind \in {"v4", "v6", "fake"}
Packet == [n : Nat, via : {"rtp", "rtcp"}, from : Source]
Inboxes == [{"rtp", "rtcp"} -> Seq(Packet)]
Accepted == {a \in Host \X Port : ShouldAcceptData(a[1], a[2])}

\* A transmitter that is gone keeps nothing, and one without a receive mode is
\* open to all.
CleanInv ==
  /\ FilterInvariant
  /\ ~ created => rawpacketlist = <<>>
  /\ ~ created \/ ~ Filters =>
       destinations = {} /\ multicastgroups = {} /\ acceptignoreinfo = Nothing
  /\ ~ Filters => receivemode = "AcceptAll"
  /\ Filters => /\ rawpacketlist \in Seq(Packet)
                /\ inbox \in Inboxes /\ arrived \in Nat

\* What the steps of a transmitter do to these variables.
Begins ==
  /\ ~ created /\ created' = TRUE
  /\ FilterBegins
  /\ UNCHANGED <<rawpacketlist, inbox, arrived, destinations, multicastgroups>>
Ends ==
  /\ created /\ created' = FALSE
  /\ rawpacketlist' = <<>> /\ destinations' = {} /\ multicastgroups' = {}
  /\ FilterEnds
  /\ inbox' \in {inbox, [c \in {"rtp", "rtcp"} |-> <<>>]}
  /\ UNCHANGED arrived
Receives ==
  /\ inbox' \in Inboxes /\ arrived' \in Nat
  /\ UNCHANGED <<created, fvars, rawpacketlist, destinations, multicastgroups>>
Polls ==
  /\ created /\ inbox' \in Inboxes
  /\ rawpacketlist' \in Grown(Packet, rawpacketlist, Accepted)
  /\ UNCHANGED <<created, fvars, arrived, destinations, multicastgroups>>
HandsOut ==
  /\ created /\ rawpacketlist # <<>> /\ rawpacketlist' = Tail(rawpacketlist)
  /\ UNCHANGED <<created, fvars, inbox, arrived, destinations, multicastgroups>>
Filtering ==
  /\ created /\ FilterNext
  /\ UNCHANGED <<created, rawpacketlist, inbox, arrived, destinations,
                 multicastgroups>>
Naming ==
  /\ created
  /\ UNCHANGED <<created, fvars, rawpacketlist, inbox, arrived>>

FilterStep ==
  \/ Begins \/ Ends \/ Receives \/ Polls \/ HandsOut \/ Filtering \/ Naming
  \/ UNCHANGED <<created, fvars, rawpacketlist, inbox, arrived, destinations,
                 multicastgroups>>

\* No packet is added but by Polls.
LEMMA NothingGetsIn ==
  ASSUME Len(rawpacketlist) \in Nat, Len(rawpacketlist') \in Nat,
         Len(rawpacketlist') <= Len(rawpacketlist)
  PROVE  V4!OnlyWantedGetIn
<1>1. (Len(rawpacketlist) + 1)..Len(rawpacketlist') = {}
  OBVIOUS
<1> QED BY <1>1 DEF V4!OnlyWantedGetIn

\* No step breaks it, none begins with something left over, and what Polls lets
\* in was asked for.
LEMMA FilterGoesOn ==
  ASSUME CleanInv, FilterStep, Filters, Filters', created \in BOOLEAN
  PROVE  CleanInv' /\ V4!CleanStart /\ V4!OnlyWantedGetIn
<1> USE DEF CleanInv
<1>0. rawpacketlist \in Seq(Packet) /\ inbox \in Inboxes /\ arrived \in Nat
      /\ Len(rawpacketlist) \in Nat
  OBVIOUS
<1>1. CASE Begins
  <2>1. FilterInvariant'
    BY <1>1, FilterKeeps DEF Begins
  <2>2. UNCHANGED <<acceptignoreinfo, wanted, rawpacketlist, inbox, arrived,
                    destinations, multicastgroups>>
    BY <1>1 DEF Begins, FilterBegins
  <2>3. V4!CleanStart
    BY <1>1, <2>2 DEF Begins, V4!CleanStart, V4!ListedOnes, V4!Listed, Nothing
  <2>4. V4!OnlyWantedGetIn
    BY <1>0, <2>2, NothingGetsIn
  <2> QED BY <1>0, <1>1, <2>1, <2>2, <2>3, <2>4 DEF Begins
<1>2. CASE Ends
  <2>1. FilterInvariant'
    BY <1>2, FilterKeeps DEF Ends
  <2>2. acceptignoreinfo' = Nothing /\ rawpacketlist' \in Seq(Packet)
        /\ Len(rawpacketlist') = 0
    BY <1>2 DEF Ends, FilterEnds, ClearAcceptIgnoreInfo
  <2>3. inbox' \in Inboxes
    <3>1. <<>> \in Seq(Packet)
      OBVIOUS
    <3>2. [c \in {"rtp", "rtcp"} |-> <<>>] \in Inboxes
      BY <3>1 DEF Inboxes
    <3> QED BY <1>0, <1>2, <3>2 DEF Ends
  <2>4. V4!OnlyWantedGetIn
    BY <1>0, <2>2, NothingGetsIn
  <2> QED BY <1>0, <1>2, <2>1, <2>2, <2>3, <2>4 DEF Ends, V4!CleanStart
<1>3. CASE Receives
  <2>1. FilterInvariant'
    BY <1>3, FilterKeeps DEF Receives
  <2>2. V4!OnlyWantedGetIn
    BY <1>0, <1>3, NothingGetsIn DEF Receives
  <2> QED BY <1>0, <1>3, <2>1, <2>2 DEF Receives, fvars, V4!CleanStart
<1>4. CASE Polls
  <2>1. FilterInvariant'
    BY <1>4, FilterKeeps DEF Polls
  <2>2. rawpacketlist' \in Seq(Packet)
    BY <1>4 DEF Polls, Grown
  <2>3. ASSUME receivemode = "AcceptSome",
               NEW i \in (Len(rawpacketlist) + 1)..Len(rawpacketlist')
        PROVE  rawpacketlist'[i].from \in wanted
    <3>1. rawpacketlist'[i].from \in Accepted
      BY <1>4, <2>3 DEF Polls, Grown
    <3>2. rawpacketlist'[i].from \in ListedOnes
      BY <2>3, <3>1 DEF Accepted, ShouldAcceptData, ListedOnes
    <3> QED BY <3>2 DEF FilterInvariant, NothingUnasked
  <2>4. V4!OnlyWantedGetIn
    BY <2>3 DEF V4!OnlyWantedGetIn
  <2> QED BY <1>0, <1>4, <2>1, <2>2, <2>4 DEF Polls, fvars, V4!CleanStart
<1>5. CASE HandsOut
  <2>1. FilterInvariant'
    BY <1>5, FilterKeeps DEF HandsOut
  <2>2. rawpacketlist' \in Seq(Packet) /\ Len(rawpacketlist') = Len(rawpacketlist) - 1
    BY <1>0, <1>5 DEF HandsOut
  <2>3. V4!OnlyWantedGetIn
    BY <1>0, <2>2, NothingGetsIn
  <2> QED BY <1>0, <1>5, <2>1, <2>2, <2>3 DEF HandsOut, fvars, V4!CleanStart
<1>6. CASE Filtering
  <2>1. FilterInvariant'
    BY <1>6, FilterKeeps DEF Filtering
  <2>2. V4!OnlyWantedGetIn
    BY <1>0, <1>6, NothingGetsIn DEF Filtering
  <2> QED BY <1>0, <1>6, <2>1, <2>2 DEF Filtering, V4!CleanStart
<1>7. CASE Naming
  <2>1. FilterInvariant'
    BY <1>7, FilterKeeps DEF Naming
  <2>2. V4!OnlyWantedGetIn
    BY <1>0, <1>7, NothingGetsIn DEF Naming
  <2> QED BY <1>0, <1>7, <2>1, <2>2 DEF Naming, fvars, V4!CleanStart
<1>8. CASE UNCHANGED <<created, fvars, rawpacketlist, inbox, arrived, destinations,
                       multicastgroups>>
  <2>1. FilterInvariant'
    BY <1>8, FilterKeeps
  <2>2. V4!OnlyWantedGetIn
    BY <1>0, <1>8, NothingGetsIn
  <2> QED BY <1>0, <1>8, <2>1, <2>2 DEF fvars, V4!CleanStart
<1> QED BY <1>1, <1>2, <1>3, <1>4, <1>5, <1>6, <1>7, <1>8 DEF FilterStep

\* A packet that arrives, and polling the socket of a channel.
LEMMA InboxGrows ==
  ASSUME inbox \in Inboxes, arrived \in Nat, NEW c \in {"rtp", "rtcp"}, NEW a \in Source
  PROVE  [inbox EXCEPT ![c] = Append(@, [n |-> arrived + 1, via |-> c, from |-> a])]
           \in Inboxes
<1>1. [n |-> arrived + 1, via |-> c, from |-> a] \in Packet
  BY DEF Packet
<1>2. Append(inbox[c], [n |-> arrived + 1, via |-> c, from |-> a]) \in Seq(Packet)
  BY <1>1 DEF Inboxes
<1> QED BY <1>2 DEF Inboxes

\* Sockets that were read to their end.
LEMMA InboxEmpties == [c \in {"rtp", "rtcp"} |-> <<>>] \in Inboxes
<1>1. <<>> \in Seq(Packet)
  OBVIOUS
<1> QED BY <1>1 DEF Inboxes

\* What polling both sockets adds.
LEMMA BothPolled ==
  ASSUME rawpacketlist \in Seq(Packet), inbox \in Inboxes, NEW accepted
  PROVE  Polled(Polled(rawpacketlist, inbox["rtp"], accepted), inbox["rtcp"], accepted)
           \in Grown(Packet, rawpacketlist, accepted)
<1>1. inbox["rtp"] \in Seq(Packet) /\ inbox["rtcp"] \in Seq(Packet)
  BY DEF Inboxes
<1> DEFINE one == Polled(rawpacketlist, inbox["rtp"], accepted)
           two == Polled(one, inbox["rtcp"], accepted)
<1>2. one \in Grown(Packet, rawpacketlist, accepted)
  BY <1>1, PolledGrows
<1>3. one \in Seq(Packet)
  BY <1>2 DEF Grown
<1> HIDE DEF one
<1>4. two \in Grown(Packet, one, accepted)
  BY <1>1, <1>3, PolledGrows
<1> HIDE DEF two
<1>5. two \in Grown(Packet, rawpacketlist, accepted)
  BY ONLY <1>2, <1>4, rawpacketlist \in Seq(Packet), PolledTwice
<1> QED BY <1>5 DEF one, two

\* The steps of each transmitter, as these.
LEMMA V4FilterSteps ==
  ASSUME V4Next, Creates, UDP, CleanInv, Filters, created \in BOOLEAN
  PROVE  FilterStep
<1> USE DEF FilterStep
<1>0. inbox \in Inboxes /\ arrived \in Nat /\ rawpacketlist \in Seq(Packet)
  BY DEF CleanInv
<1>1. ASSUME NEW params, V4!Create(params) PROVE FilterStep
  BY <1>1 DEF V4!Create, V4!CreateBegins, V4!CreateWithSockets, V4!CreateOnPort,
              V4!butCreate, V4!fvars, fvars
<1>2. CASE V4!CreateGoesOn
  <2>1. CASE V4!GetAutoSockets \/ V4!GetAutoSocketsFails \/ V4!CreateGivesUp
    BY <2>1 DEF V4!GetAutoSockets, V4!GetAutoSocketsFails, V4!CreateGivesUp,
                V4!butCreate, V4!fvars, fvars
  <2>2. CASE V4!CreateEnds
    <3>1. Begins
      BY <2>2 DEF V4!CreateEnds, V4!Finished, V4!IsCreated, V4!FilterBegins,
                  FilterBegins, Creates, Begins
    <3> QED BY <3>1
  <2> QED BY <1>2, <2>1, <2>2 DEF V4!CreateGoesOn
<1>3. CASE V4!Destroy
  <2>1. Ends
    BY <1>3 DEF V4!Destroy, V4!IsDestroyed, V4!Empties, V4!ClearAcceptIgnoreInfo,
                V4!Nothing, Ends, FilterEnds, ClearAcceptIgnoreInfo, Nothing,
                V4!Channel
  <2> QED BY <2>1
<1>4. CASE V4!DestroyEnds
  BY <1>4 DEF V4!DestroyEnds, V4!DestroyReturns, V4!udpvars, V4!fvars, fvars
<1>5. CASE V4Waits
  BY <1>5 DEF V4Waits, V4!WaitForIncomingData, V4!StartsWaiting, V4!SelectWakes,
              V4!SelectReturns, V4!SelectEnds, V4!SelectTimesOut, V4!WaitReturns,
              V4!EndsWaiting, V4!AbortWait, V4!AbortsWait, V4!udpvars, V4!fvars, fvars
<1>6. CASE V4Receives
  <2>1. ASSUME NEW c \in V4!Channel, NEW a \in Source, V4!Arrives(c, a)
        PROVE  FilterStep
    <3>1. [inbox EXCEPT ![c] = Append(@, [n |-> arrived + 1, via |-> c, from |-> a])]
            \in Inboxes
      BY <1>0, <2>1, InboxGrows DEF V4!Channel
    <3>2. arrived + 1 \in Nat
      BY <1>0
    <3>3. Receives
      BY <2>1, <3>1, <3>2 DEF V4!Arrives, V4!basevars, V4!fvars, fvars, Receives
    <3> QED BY <3>3
  <2>2. CASE V4!Poll
    <3>1. /\ created /\ inbox' = [c \in {"rtp", "rtcp"} |-> <<>>]
          /\ rawpacketlist' = V4!PollSocket(V4!PollSocket(rawpacketlist, "rtp"), "rtcp")
          /\ UNCHANGED <<created, fvars, arrived, destinations, multicastgroups>>
      BY <2>2 DEF V4!Poll, V4!fvars, fvars, V4!Channel
    <3>2. V4!Accepted = Accepted
      BY DEF V4!Accepted, V4!ShouldAcceptData, V4!Listed, Accepted, ShouldAcceptData,
             Listed
    <3>3. \A l, q, a : V4!Polled(l, q, a) = Polled(l, q, a)
      BY DEF V4!Polled, Polled
    <3>4. rawpacketlist' \in Grown(Packet, rawpacketlist, Accepted)
      BY <1>0, <3>1, <3>2, <3>3, BothPolled DEF V4!PollSocket
    <3>5. Polls
      BY <3>1, <3>4, InboxEmpties DEF Polls
    <3> QED BY <3>5
  <2>3. CASE V4!GetNextPacket
    <3>1. HandsOut
      BY <2>3 DEF V4!GetNextPacket, V4!TakesNext, V4!udpvars, V4!fvars, fvars,
                  HandsOut
    <3> QED BY <3>1
  <2> QED BY <1>6, <2>1, <2>2, <2>3 DEF V4Receives
<1>7. CASE V4Groups
  <2>1. Naming
    BY <1>7 DEF V4Groups, V4!JoinMulticastGroup, V4!LeaveMulticastGroup,
                V4!LeaveAllMulticastGroups, V4!basevars, V4!butGroups, V4!fvars,
                fvars, Naming
  <2> QED BY <2>1
<1>8. CASE V4Names
  <2>1. Naming
    BY <1>8 DEF V4Names, V4!AddDestination, V4!DeleteDestination,
                V4!ClearDestinations, V4!GetLocalHostName, V4!basevars,
                V4!butLists, V4!fvars, fvars, Naming
  <2> QED BY <2>1
<1>9. CASE V4!ChangesFilter
  <2>1. V4!FilterNext => FilterNext
    BY DEF V4!FilterNext, FilterNext, V4!SetReceiveMode, SetReceiveMode,
           V4!ReceiveMode, ReceiveMode, V4!AllPorts, AllPorts, V4!ChangeList,
           ChangeList, V4!AddToAcceptList, AddToAcceptList, V4!AddToIgnoreList,
           AddToIgnoreList, V4!DeleteFromAcceptList, DeleteFromAcceptList,
           V4!DeleteFromIgnoreList, DeleteFromIgnoreList, V4!AddToList, AddToList,
           V4!DeleteFromList, DeleteFromList, V4!ProcessAddAcceptIgnoreEntry,
           ProcessAddAcceptIgnoreEntry, V4!ProcessDeleteAcceptIgnoreEntry,
           ProcessDeleteAcceptIgnoreEntry, V4!Named, Named, V4!ClearAcceptList,
           ClearAcceptList, V4!ClearIgnoreList, ClearIgnoreList,
           V4!ClearAcceptIgnoreInfo, ClearAcceptIgnoreInfo, V4!Nothing, Nothing
  <2>2. Filtering
    BY <1>9, <2>1 DEF V4!ChangesFilter, V4!basevars, V4!udpvars, Filtering
  <2> QED BY <2>2
<1> QED BY <1>1, <1>2, <1>3, <1>4, <1>5, <1>6, <1>7, <1>8, <1>9 DEF V4Next

\* Over IPv6.
LEMMA V6FilterSteps ==
  ASSUME V6Next, Creates, UDP, CleanInv, Filters, created \in BOOLEAN
  PROVE  FilterStep
<1> USE DEF FilterStep
<1>0. inbox \in Inboxes /\ arrived \in Nat /\ rawpacketlist \in Seq(Packet)
  BY DEF CleanInv
<1>1. ASSUME NEW params, V6!Create(params) PROVE FilterStep
  BY <1>1 DEF V6!Create, V6!fvars, fvars
<1>2. CASE V6!CreateGivesUp
  BY <1>2 DEF V6!CreateGivesUp, V6!V4!CreateGivesUp, V6!V4!butCreate, V6!V4!fvars,
              fvars
<1>3. CASE V6!CreateEnds
  <2>1. Begins
    BY <1>3 DEF V6!CreateEnds, V6!V4!Finished, V6!V4!IsCreated, V6!V4!FilterBegins,
                FilterBegins, Creates, Begins
  <2> QED BY <2>1
<1>4. CASE V6!Destroy
  <2>1. Ends
    BY <1>4 DEF V6!Destroy, V6!V4!Destroy, V6!V4!IsDestroyed, V6!V4!Empties,
                V6!V4!ClearAcceptIgnoreInfo, V6!V4!Nothing, Ends, FilterEnds,
                ClearAcceptIgnoreInfo, Nothing, V6!V4!Channel
  <2> QED BY <2>1
<1>5. CASE V6!DestroyEnds
  BY <1>5 DEF V6!DestroyEnds, V6!V4!DestroyEnds, V6!V4!DestroyReturns,
              V6!V4!udpvars, V6!V4!fvars, fvars
<1>6. CASE V6Waits
  BY <1>6 DEF V6Waits, V6!WaitForIncomingData, V6!V4!WaitForIncomingData,
              V6!V4!StartsWaiting, V6!SelectWakes, V6!V4!SelectWakes,
              V6!V4!SelectReturns, V6!SelectEnds, V6!V4!SelectEnds,
              V6!V4!SelectTimesOut, V6!WaitReturns, V6!V4!WaitReturns,
              V6!V4!EndsWaiting, V6!AbortWait, V6!V4!AbortWait, V6!V4!AbortsWait,
              V6!V4!udpvars, V6!V4!fvars, fvars
<1>7. CASE V6Receives
  <2>1. ASSUME NEW c \in V4!Channel, NEW a \in Source, V6!Arrives(c, a)
        PROVE  FilterStep
    <3>1. [inbox EXCEPT ![c] = Append(@, [n |-> arrived + 1, via |-> c, from |-> a])]
            \in Inboxes
      BY <1>0, <2>1, InboxGrows DEF V4!Channel
    <3>2. arrived + 1 \in Nat
      BY <1>0
    <3>3. Receives
      BY <2>1, <3>1, <3>2 DEF V6!Arrives, V6!V4!Arrives, V6!V4!basevars,
                              V6!V4!fvars, fvars, Receives
    <3> QED BY <3>3
  <2>2. CASE V6!Poll
    <3>1. /\ created /\ inbox' = [c \in {"rtp", "rtcp"} |-> <<>>]
          /\ UNCHANGED <<created, fvars, arrived, destinations, multicastgroups>>
          /\ rawpacketlist' = V6!PollSocket(V6!PollSocket(rawpacketlist, "rtp"), "rtcp")
      BY <2>2 DEF V6!Poll, V6!fvars, fvars, V6!V4!Channel
    <3>2. V6!Accepted = Accepted
      BY DEF V6!Accepted, V6!ShouldAcceptData, V6!Filter!ShouldAcceptData,
             V6!Filter!Listed, Accepted, ShouldAcceptData, Listed
    <3>3. \A l, q, a : V6!Polled(l, q, a) = Polled(l, q, a)
      BY DEF V6!Polled, Polled
    <3>4. rawpacketlist' \in Grown(Packet, rawpacketlist, Accepted)
      BY <1>0, <3>1, <3>2, <3>3, BothPolled DEF V6!PollSocket
    <3>5. Polls
      BY <3>1, <3>4, InboxEmpties DEF Polls
    <3> QED BY <3>5
  <2>3. CASE V6!GetNextPacket
    <3>1. HandsOut
      BY <2>3 DEF V6!GetNextPacket, V6!V4!GetNextPacket, V6!V4!TakesNext,
                  V6!V4!udpvars, V6!V4!fvars, fvars, HandsOut
    <3> QED BY <3>1
  <2> QED BY <1>7, <2>1, <2>2, <2>3 DEF V6Receives
<1>8. CASE V6Groups \/ V6Names
  <2>1. Naming
    BY <1>8 DEF V6Groups, V6!JoinMulticastGroup, V6!V4!JoinMulticastGroup,
      V6!LeaveMulticastGroup, V6!V4!LeaveMulticastGroup,
      V6!LeaveAllMulticastGroups, V6!V4!LeaveAllMulticastGroups, V6!V4!butGroups,
      V6Names, V6!AddDestination, V6!V4!AddDestination, V6!DeleteDestination,
      V6!V4!DeleteDestination, V6!ClearDestinations, V6!V4!ClearDestinations,
      V6!V4!butLists, V6!GetLocalHostName, V6!V4!GetLocalHostName,
      V6!V4!basevars, V6!V4!fvars, fvars, Naming
  <2> QED BY <2>1
<1>9. CASE V6!ChangesFilter
  <2>1. created /\ FilterNext /\ UNCHANGED V6!butFilter
    <3>1. created /\ UNCHANGED V6!butFilter
      BY <1>9 DEF V6!ChangesFilter, V6!SetReceiveMode, V6!AddToIgnoreList,
        V6!DeleteFromIgnoreList, V6!AddToAcceptList, V6!DeleteFromAcceptList,
        V6!ClearIgnoreList, V6!ClearAcceptList
    <3>2. ASSUME NEW m \in V6!Filter!ReceiveMode, V6!SetReceiveMode(m) PROVE FilterNext
      BY <3>2 DEF V6!SetReceiveMode, V6!Filter!SetReceiveMode, V6!Filter!ReceiveMode,
        V6!Filter!Nothing, FilterNext, SetReceiveMode, ReceiveMode, Nothing
    <3>3. ASSUME NEW h \in Host, NEW p \in Port \cup {V6!Filter!AllPorts},
                 \/ V6!AddToIgnoreList(h, p) \/ V6!DeleteFromIgnoreList(h, p)
                 \/ V6!AddToAcceptList(h, p) \/ V6!DeleteFromAcceptList(h, p)
          PROVE  FilterNext
      <4>1. ChangeList(h, p)
        BY <3>3 DEF V6!AddToIgnoreList, V6!DeleteFromIgnoreList,
          V6!AddToAcceptList, V6!DeleteFromAcceptList, V6!AddEntry, V6!DeleteEntry,
          V6!Filter!AddToList, V6!Filter!DeleteFromList,
          V6!Filter!ProcessAddAcceptIgnoreEntry, ProcessAddAcceptIgnoreEntry,
          V6!Filter!ProcessDeleteAcceptIgnoreEntry, ProcessDeleteAcceptIgnoreEntry,
          V6!Filter!Named, Named, V6!Filter!AllPorts, AllPorts, AddToList,
          DeleteFromList, ChangeList, AddToAcceptList, AddToIgnoreList,
          DeleteFromAcceptList, DeleteFromIgnoreList
      <4> QED BY <4>1 DEF FilterNext, V6!Filter!AllPorts, AllPorts
    <3>4. CASE V6!ClearIgnoreList \/ V6!ClearAcceptList
      BY <3>4 DEF V6!ClearIgnoreList, V6!ClearAcceptList, V6!ClearEntries,
        V6!Filter!ClearAcceptIgnoreInfo, V6!Filter!Nothing, ClearIgnoreList,
        ClearAcceptList, ClearAcceptIgnoreInfo, Nothing, FilterNext
    <3> QED BY <1>9, <3>1, <3>2, <3>3, <3>4 DEF V6!ChangesFilter
  <2>2. Filtering
    BY <2>1 DEF V6!butFilter, V6!basevars, V6!udpvars, Filtering
  <2> QED BY <2>2
<1> QED BY <1>1, <1>2, <1>3, <1>4, <1>5, <1>6, <1>7, <1>8, <1>9 DEF V6Next

\* The fake one, which has a single packet at a time.
LEMMA FakeFilterSteps ==
  ASSUME FakeNext, CleanInv, Filters, created \in BOOLEAN
  PROVE  FilterStep
<1> USE DEF FilterStep
<1>0. inbox \in Inboxes /\ arrived \in Nat /\ rawpacketlist \in Seq(Packet)
  BY DEF CleanInv
<1>1. ASSUME NEW params, Fake!Create(params) PROVE FilterStep
  <2>1. Begins
    BY <1>1 DEF Fake!Create, Fake!IsCreated, Fake!Filter!FilterBegins, FilterBegins,
                Begins
  <2> QED BY <2>1
<1>2. CASE Fake!Destroy
  <2>1. Ends
    BY <1>2 DEF Fake!Destroy, Fake!IsDestroyed, Fake!V4!Empties,
                Fake!V4!ClearAcceptIgnoreInfo, Fake!V4!Nothing, Ends, FilterEnds,
                ClearAcceptIgnoreInfo, Nothing, Fake!V4!Channel
  <2> QED BY <2>1
<1>3. CASE FakeReceives
  <2>1. ASSUME NEW a \in Source, Fake!SetCurrentData(a) PROVE FilterStep
    <3>1. /\ [n |-> arrived + 1, via |-> "rtp", from |-> a] \in Packet
          /\ arrived + 1 \in Nat
      BY <1>0 DEF Packet
    <3>2. <<[n |-> arrived + 1, via |-> "rtp", from |-> a]>> \in Seq(Packet)
      BY <3>1
    <3>3. [inbox EXCEPT !["rtp"] = <<[n |-> arrived + 1, via |-> "rtp", from |-> a]>>]
            \in Inboxes
      BY <1>0, <3>2 DEF Inboxes
    <3>4. Receives
      BY <2>1, <3>1, <3>3 DEF Fake!SetCurrentData, Fake!basevars, Fake!fvars, fvars,
                              Receives
    <3> QED BY <3>4
  <2>2. [inbox EXCEPT !["rtp"] = <<>>] \in Inboxes
    <3>1. <<>> \in Seq(Packet)
      OBVIOUS
    <3> QED BY <1>0, <3>1 DEF Inboxes
  <2>3. CASE Fake!ForgetCurrentData
    <3>1. Receives
      BY <1>0, <2>2, <2>3 DEF Fake!ForgetCurrentData, Fake!basevars, Fake!fvars,
                              fvars, Receives
    <3> QED BY <3>1
  <2>4. CASE Fake!Poll
    <3>1. ASSUME inbox["rtp"] # <<>>, Fake!ShouldAcceptData(Head(inbox["rtp"])),
                 NEW p, p = Head(inbox["rtp"])
          PROVE  Append(rawpacketlist, p) \in Grown(Packet, rawpacketlist, Accepted)
      <4>1. p \in Packet
        BY <1>0, <3>1 DEF Inboxes
      <4>2. p.from \in Accepted
        BY <3>1, <4>1, InstanceAssumption
           DEF Packet, Accepted, Fake!ShouldAcceptData, Fake!Filter!ShouldAcceptData,
               Fake!Filter!Listed, ShouldAcceptData, Listed
      <4>3. Append(rawpacketlist, p) \in Seq(Packet)
            /\ Len(Append(rawpacketlist, p)) = Len(rawpacketlist) + 1
        BY <1>0, <4>1
      <4>4. Append(rawpacketlist, p)[Len(rawpacketlist) + 1] = p
        BY <1>0
      <4>5. \A i \in 1..Len(rawpacketlist) :
              Append(rawpacketlist, p)[i] = rawpacketlist[i]
        BY <1>0
      <4>6. \A i \in (Len(rawpacketlist) + 1)..Len(Append(rawpacketlist, p)) :
              i = Len(rawpacketlist) + 1
        BY <1>0, <4>3
      <4>7. Len(rawpacketlist) <= Len(Append(rawpacketlist, p))
        BY <1>0, <4>3
      <4> QED BY <4>2, <4>3, <4>4, <4>5, <4>6, <4>7 DEF Grown
    <3>2. rawpacketlist \in Grown(Packet, rawpacketlist, Accepted)
      BY <1>0 DEF Grown
    <3>3. rawpacketlist' \in Grown(Packet, rawpacketlist, Accepted)
      <4> QED BY <2>4, <3>1, <3>2 DEF Fake!Poll, Fake!FakePoll
    <3>4. Polls
      BY <2>2, <2>4, <3>3 DEF Fake!Poll, Fake!fvars, fvars, Polls
    <3> QED BY <3>4
  <2>5. CASE Fake!GetNextPacket
    <3>1. HandsOut
      BY <2>5 DEF Fake!GetNextPacket, Fake!V4!GetNextPacket, Fake!V4!TakesNext,
                  Fake!V4!udpvars, Fake!V4!fvars, fvars, HandsOut
    <3> QED BY <3>1
  <2> QED BY <1>3, <2>1, <2>3, <2>4, <2>5 DEF FakeReceives
<1>4. CASE FakeNames
  <2>1. Naming
    BY <1>4 DEF FakeNames, Fake!AddDestination, Fake!V4!AddDestination,
      Fake!DeleteDestination, Fake!V4!DeleteDestination, Fake!ClearDestinations,
      Fake!V4!ClearDestinations, Fake!V4!butLists, Fake!GetLocalHostName,
      Fake!V4!GetLocalHostName, Fake!V4!basevars, Fake!V4!fvars, fvars, Naming
  <2> QED BY <2>1
<1>5. CASE Fake!ChangesFilter
  <2>1. created /\ FilterNext /\ UNCHANGED Fake!butFilter
    <3>1. created /\ UNCHANGED Fake!butFilter
      BY <1>5 DEF Fake!ChangesFilter, Fake!SetReceiveMode, Fake!AddToIgnoreList,
        Fake!DeleteFromIgnoreList, Fake!AddToAcceptList, Fake!DeleteFromAcceptList,
        Fake!ClearIgnoreList, Fake!ClearAcceptList
    <3>2. ASSUME NEW m \in Fake!Filter!ReceiveMode, Fake!SetReceiveMode(m)
          PROVE  FilterNext
      BY <3>2 DEF Fake!SetReceiveMode, Fake!Filter!SetReceiveMode,
        Fake!Filter!ReceiveMode, Fake!Filter!Nothing, FilterNext, SetReceiveMode,
        ReceiveMode, Nothing
    <3>3. ASSUME NEW h \in Host, NEW p \in Port \cup {Fake!Filter!AllPorts},
                 \/ Fake!AddToIgnoreList(h, p) \/ Fake!DeleteFromIgnoreList(h, p)
                 \/ Fake!AddToAcceptList(h, p) \/ Fake!DeleteFromAcceptList(h, p)
          PROVE  FilterNext
      <4>1. ChangeList(h, p)
        BY <3>3 DEF Fake!AddToIgnoreList, Fake!DeleteFromIgnoreList,
          Fake!AddToAcceptList, Fake!DeleteFromAcceptList, Fake!AddEntry,
          Fake!DeleteEntry, Fake!Filter!AddToList, Fake!Filter!DeleteFromList,
          Fake!Filter!ProcessAddAcceptIgnoreEntry, ProcessAddAcceptIgnoreEntry,
          Fake!Filter!ProcessDeleteAcceptIgnoreEntry, ProcessDeleteAcceptIgnoreEntry,
          Fake!Filter!Named, Named, Fake!Filter!AllPorts, AllPorts, AddToList,
          DeleteFromList, ChangeList, AddToAcceptList, AddToIgnoreList,
          DeleteFromAcceptList, DeleteFromIgnoreList
      <4> QED BY <4>1 DEF FilterNext, Fake!Filter!AllPorts, AllPorts
    <3>4. CASE Fake!ClearIgnoreList \/ Fake!ClearAcceptList
      BY <3>4 DEF Fake!ClearIgnoreList, Fake!ClearAcceptList, Fake!ClearEntries,
        Fake!Filter!ClearAcceptIgnoreInfo, Fake!Filter!Nothing, ClearIgnoreList,
        ClearAcceptList, ClearAcceptIgnoreInfo, Nothing, FilterNext
    <3> QED BY <1>5, <3>1, <3>2, <3>3, <3>4 DEF Fake!ChangesFilter
  <2>2. Filtering
    BY <2>1 DEF Fake!butFilter, Fake!basevars, Fake!udpvars, Filtering
  <2> QED BY <2>2
<1> QED BY <1>1, <1>2, <1>3, <1>4, <1>5 DEF FakeNext

\* The other two have no receive mode: their lists never change.
LEMMA OpenToAll ==
  ASSUME CleanInv, ~ Filters, kind' = kind,
         UNCHANGED <<fvars, destinations, multicastgroups>>,
         \/ UNCHANGED <<created, rawpacketlist>>
         \/ created /\ created'
         \/ ~ created' /\ rawpacketlist' = <<>>
         \/ ~ created /\ created' /\ UNCHANGED rawpacketlist
  PROVE  CleanInv' /\ V4!CleanStart /\ V4!OnlyWantedGetIn
<1>1. FilterInvariant'
  BY FilterKeeps DEF CleanInv
<1>2. ~ Filters' /\ receivemode = "AcceptAll" /\ acceptignoreinfo = Nothing
      /\ destinations = {} /\ multicastgroups = {}
  BY DEF Filters, CleanInv
<1>3. CleanInv'
  BY <1>1, <1>2 DEF CleanInv, fvars
<1>4. V4!CleanStart
  BY <1>2 DEF CleanInv, V4!CleanStart, V4!ListedOnes, V4!Listed, fvars, Nothing
<1>5. V4!OnlyWantedGetIn
  BY <1>2 DEF V4!OnlyWantedGetIn
<1> QED BY <1>3, <1>4, <1>5

\* What the steps of a TCP transmitter do to created and rawpacketlist.
LEMMA TCPOpen ==
  ASSUME TCPNext, created \in BOOLEAN
  PROVE  \/ UNCHANGED <<created, rawpacketlist>>
         \/ created /\ created'
         \/ ~ created' /\ rawpacketlist' = <<>>
         \/ ~ created /\ created' /\ UNCHANGED rawpacketlist
<1>1. ASSUME NEW own, TCP!Create(own)
      PROVE  ~ created /\ created' /\ UNCHANGED rawpacketlist
  BY <1>1 DEF TCP!Create, TCP!IsCreated
<1>2. CASE TCP!Destroy
  BY <1>2 DEF TCP!Destroy, TCP!IsDestroyed
<1>3. CASE TCP!DestroyEnds
  BY <1>3 DEF TCP!DestroyEnds, TCP!DestroyReturns
<1>4. CASE TCPWaits
  BY <1>4 DEF TCPWaits, TCP!WaitForIncomingData, TCP!StartsWaiting, TCP!SelectWakes,
              TCP!SelectReturns, TCP!SelectEnds, TCP!SelectTimesOut, TCP!WaitReturns,
              TCP!EndsWaiting, TCP!AbortWait, TCP!AbortsWait
<1>5. CASE TCP!GetNextPacket \/ TCP!ClearDestinations
  BY <1>5 DEF TCP!GetNextPacket, TCP!TakesNext, TCP!ClearDestinations, TCP!basevars
<1>6. ASSUME NEW s, \/ TCP!AddDestination(s) \/ TCP!DeleteDestination(s)
                    \/ TCP!PollSocket(s) \/ TCP!BytesArrive(s)
                    \/ \E len : TCP!PeerSends(s, len)
      PROVE  UNCHANGED <<created, rawpacketlist>> \/ (created /\ created')
  BY <1>6 DEF TCP!AddDestination, TCP!DeleteDestination, TCP!PollSocket,
              TCP!BytesArrive, TCP!PeerSends, TCP!basevars
<1> QED BY <1>1, <1>2, <1>3, <1>4, <1>5, <1>6 DEF TCPNext

\* And those of an external one.
LEMMA ExternalOpen ==
  ASSUME ExternalNext, created \in BOOLEAN
  PROVE  \/ UNCHANGED <<created, rawpacketlist>>
         \/ created /\ created'
         \/ ~ created' /\ rawpacketlist' = <<>>
         \/ ~ created /\ created' /\ UNCHANGED rawpacketlist
<1>1. CASE External!Create
  BY <1>1 DEF External!Create, External!IsCreated
<1>2. CASE External!Destroy
  BY <1>2 DEF External!Destroy, External!IsDestroyed
<1>3. CASE \/ External!DestroyEnds \/ External!WaitForIncomingData
           \/ External!SelectWakes \/ External!SelectEnds
           \/ External!WaitReturns \/ External!AbortWait
  BY <1>3 DEF External!DestroyEnds, External!DestroyReturns,
              External!WaitForIncomingData, External!StartsWaiting,
              External!SelectWakes, External!SelectReturns, External!SelectEnds,
              External!SelectTimesOut, External!WaitReturns, External!EndsWaiting,
              External!AbortWait, External!AbortsWait
<1>4. CASE External!Inject \/ External!GetNextPacket
  BY <1>4 DEF External!Inject, External!GetNextPacket, External!TakesNext
<1> QED BY <1>1, <1>2, <1>3, <1>4 DEF ExternalNext

\* Nothing is left over and nothing unasked got in before the first step.
LEMMA CleanAtFirst ==
  ASSUME Init
  PROVE  CleanInv
<1>1. FilterInvariant
  <2>1. FilterInit
    BY DEF Init, V4!Init, V4!FilterInit, FilterInit, V4!Nothing, Nothing
  <2> QED BY <2>1, FilterStarts
<1>2. /\ created = FALSE /\ rawpacketlist = <<>> /\ destinations = {}
      /\ multicastgroups = {} /\ acceptignoreinfo = Nothing
      /\ receivemode = "AcceptAll"
      /\ inbox = [c \in {"rtp", "rtcp"} |-> <<>>] /\ arrived = 0
  BY DEF Init, V4!Init, V4!TransmitterInit, V4!FilterInit, V4!Nothing, Nothing,
         V4!Channel
<1>3. rawpacketlist \in Seq(Packet) /\ inbox \in Inboxes /\ arrived \in Nat
  BY <1>2, InboxEmpties
<1> QED BY <1>1, <1>2, <1>3 DEF CleanInv

\* Every step of any transmitter.
LEMMA CleanGoesOn ==
  ASSUME WaitInv, CleanInv, [Next]_vars
  PROVE  /\ CleanInv'
         /\ [V4!CleanStart /\ V4!OnlyWantedGetIn]_vars
<1>0. created \in BOOLEAN /\ Creates
  BY DEF WaitInv, Life
<1>1. CASE kind = "v4" /\ V4Next /\ UNCHANGED <<butUDP, kind, part>>
  <2>1. UDP /\ Filters /\ Filters'
    BY <1>1 DEF UDP, Filters
  <2>2. FilterStep
    BY <1>0, <1>1, <2>1, V4FilterSteps
  <2> QED BY <1>0, <2>1, <2>2, FilterGoesOn
<1>2. CASE kind = "v6" /\ V6Next /\ UNCHANGED <<butUDP, kind, part>>
  <2>1. UDP /\ Filters /\ Filters'
    BY <1>2 DEF UDP, Filters
  <2>2. FilterStep
    BY <1>0, <1>2, <2>1, V6FilterSteps
  <2> QED BY <1>0, <2>1, <2>2, FilterGoesOn
<1>3. CASE kind = "fake" /\ FakeNext /\ UNCHANGED <<butUDP, kind, part>>
  <2>1. Filters /\ Filters'
    BY <1>3 DEF Filters
  <2>2. FilterStep
    BY <1>0, <1>3, <2>1, FakeFilterSteps
  <2> QED BY <1>0, <2>1, <2>2, FilterGoesOn
<1>4. CASE kind = "tcp" /\ TCPNext /\ UNCHANGED <<butTCP, kind, part>>
  <2>1. ~ Filters /\ UNCHANGED <<fvars, destinations, multicastgroups, kind>>
    BY <1>4 DEF Filters, butTCP
  <2> QED BY <1>0, <1>4, <2>1, TCPOpen, OpenToAll
<1>5. CASE kind = "external" /\ ExternalNext /\ UNCHANGED <<butExternal, kind, part>>
  <2>1. ~ Filters /\ UNCHANGED <<fvars, destinations, multicastgroups, kind>>
    BY <1>5 DEF Filters, butExternal
  <2> QED BY <1>0, <1>5, <2>1, ExternalOpen, OpenToAll
<1>6. CASE UNCHANGED vars
  <2>1. UNCHANGED <<created, fvars, rawpacketlist, inbox, arrived, destinations,
                    multicastgroups, kind>>
    BY <1>6 DEF vars, basevars, V4!udpvars
  <2>2. FilterInvariant'
    BY <2>1, FilterKeeps DEF CleanInv
  <2>3. CleanInv'
    BY <2>1, <2>2 DEF CleanInv, Filters, fvars
  <2> QED BY <1>6, <2>3
<1> QED BY <1>1, <1>2, <1>3, <1>4, <1>5, <1>6 DEF Next

\* With any hosts, ports and sources of packets: a transmitter begins with
\* nothing of an earlier session, however that ended, and in AcceptSome mode
\* lets in only packets from addresses on its list.
THEOREM AlwaysCleanAndFiltered == Spec => CleanAndFiltered
<1>1. Init => WaitInv /\ CleanInv
  BY WaitsBegin, CleanAtFirst
<1>2. WaitInv /\ CleanInv /\ [Next]_vars =>
        (WaitInv /\ CleanInv)' /\ [V4!CleanStart /\ V4!OnlyWantedGetIn]_vars
  BY WaitsGoOn, CleanGoesOn
<1> QED BY <1>1, <1>2, PTL DEF Spec, CleanAndFiltered

\* The list of a transmitter acts on no address that the application did not put
\* there or has deleted since, also across Destroy and Create.
THEOREM NeverUnasked == Spec => []NothingUnasked
<1>1. Init => WaitInv /\ CleanInv
  BY WaitsBegin, CleanAtFirst
<1>2. WaitInv /\ CleanInv /\ [Next]_vars => (WaitInv /\ CleanInv)'
  BY WaitsGoOn, CleanGoesOn
<1>3. CleanInv => NothingUnasked
  BY DEF CleanInv, FilterInvariant
<1> QED BY <1>1, <1>2, <1>3, PTL DEF Spec

-----------------------------------------------------------------------------
(* Sockets and ports.                                                      *)

\* The system gives a socket a number that no open one has.
LEMMA FreeSocket ==
  ASSUME NEW open, IsFiniteSet(DOMAIN open)
  PROVE  V4!NewSocket(open) \in (Nat \ {0}) \ DOMAIN open
<1> DEFINE D == DOMAIN open
           C == {n \in 1..(Cardinality(D) + 1) : n \notin D}
<1>1. Cardinality(D) \in Nat
  BY FS_CardinalityType
<1>2. C # {}
  <2> SUFFICES ASSUME C = {} PROVE FALSE
    OBVIOUS
  <2>1. 1..(Cardinality(D) + 1) \in SUBSET D
    OBVIOUS
  <2>2. Cardinality(1..(Cardinality(D) + 1)) <= Cardinality(D)
    BY <2>1, FS_Subset
  <2>3. Cardinality(1..(Cardinality(D) + 1)) = Cardinality(D) + 1
    BY <1>1, FS_Interval
  <2> QED BY <1>1, <2>2, <2>3
<1>3. C \in SUBSET Nat
  BY <1>1
<1>4. \E m \in C : \A k \in C : m <= k
  <2> HIDE DEF C
  <2> QED BY <1>2, <1>3, LeastNumber
<1>5. \A S : V4!Cardinality(S) = Cardinality(S)
  BY DEF V4!Cardinality, Cardinality
<1>6. V4!NewSocket(open) = CHOOSE x \in C : \A y \in C : x <= y
  BY <1>5 DEF V4!NewSocket, V4!Min
<1>7. V4!NewSocket(open) \in C
  <2> HIDE DEF C
  <2> QED BY <1>4, <1>6
<1> QED BY <1>1, <1>7

\* The same of the IPv6 transmitter.
LEMMA SameSockets ==
  /\ \A open : V6!V4!NewSocket(open) = V4!NewSocket(open)
  /\ \A open, s, p : V6!V4!Open(open, s, p) = V4!Open(open, s, p)
  /\ \A open, ss : V6!V4!Close(open, ss) = V4!Close(open, ss)
<1>1. \A S : V6!V4!Cardinality(S) = V4!Cardinality(S)
  BY DEF V4!Cardinality, V6!V4!Cardinality
<1>2. \A S : V6!V4!Min(S) = V4!Min(S)
  BY DEF V4!Min, V6!V4!Min
<1> QED BY <1>1, <1>2 DEF V4!NewSocket, V6!V4!NewSocket, V4!Open, V6!V4!Open, V4!Close,
                          V6!V4!Close
\* The open sockets are finitely many, each on a port.
OpenOK(open) == open \in [DOMAIN open -> 0..MaxPort] /\ IsFiniteSet(DOMAIN open)

\* Opening one.
LEMMA Opened ==
  ASSUME NEW open, OpenOK(open), NEW s, NEW port \in 0..MaxPort
  PROVE  /\ OpenOK(V4!Open(open, s, port))
         /\ DOMAIN V4!Open(open, s, port) = DOMAIN open \cup {s}
         /\ V4!Open(open, s, port)[s] = port
<1>1. IsFiniteSet(DOMAIN open \cup {s})
  BY FS_AddElement DEF OpenOK
<1> QED BY <1>1 DEF OpenOK, V4!Open

\* Closing some.
LEMMA Closed ==
  ASSUME NEW open, OpenOK(open), NEW ss
  PROVE  /\ OpenOK(V4!Close(open, ss))
         /\ DOMAIN V4!Close(open, ss) = DOMAIN open \ ss
         /\ \A n \in DOMAIN open \ ss : V4!Close(open, ss)[n] = open[n]
<1>1. IsFiniteSet(DOMAIN open \ ss)
  BY FS_Subset DEF OpenOK
<1> QED BY <1>1 DEF OpenOK, V4!Close

AllParams == V4Params \cup FewParams \cup V6Params

\* What the parameters of Create are.
LEMMA ParamsTyped ==
  ASSUME NEW params \in AllParams
  PROVE  /\ params.existing \subseteq {1, 2}
         /\ params.portbase \in 0..MaxPort /\ params.rtcpport \in {0, 1}
         /\ params.mux \in BOOLEAN /\ params.odd \in BOOLEAN
<1>0. MaxPort \in Nat /\ MaxPort > 3
  BY InstanceAssumption DEF V4!PortsAssumption
<1> DEFINE Typed(p) ==
             /\ p.existing \subseteq {1, 2}
             /\ p.portbase \in 0..MaxPort /\ p.rtcpport \in {0, 1}
             /\ p.mux \in BOOLEAN /\ p.odd \in BOOLEAN
<1>1. ASSUME NEW e \in SUBSET SUBSET {1, 2}, NEW b \in SUBSET (0..MaxPort),
             NEW r \in SUBSET {0, 1}, NEW m \in SUBSET BOOLEAN,
             NEW o \in SUBSET BOOLEAN, NEW p \in Params(e, b, r, m, o)
      PROVE  Typed(p)
  BY DEF Params
<1>2. CASE params \in AppIPs
  <2>1. PICK p \in Params({{}}, {2}, {0}, {FALSE}, {FALSE}) :
          params = [p EXCEPT !.ips = Host]
    BY <1>2 DEF AppIPs, OnPort
  <2>2. Typed(p)
    <3>1. {0} \in SUBSET (0..MaxPort) /\ {2} \in SUBSET (0..MaxPort)
      BY <1>0
    <3>2. {{}} \in SUBSET SUBSET {1, 2} /\ {{1, 2}} \in SUBSET SUBSET {1, 2}
          /\ {FALSE} \in SUBSET BOOLEAN /\ {0} \in SUBSET {0, 1}
      OBVIOUS
    <3> HIDE DEF Typed
    <3> QED BY <1>1, <3>1, <3>2
  <2>3. DOMAIN p = {"existing", "portbase", "rtcpport", "mux", "odd", "ips", "ownabort"}
    BY DEF Params
  <2> QED BY <2>1, <2>2, <2>3
<1>3. CASE params \in AppPipe
  <2>1. PICK p \in Params({{1, 2}}, {0}, {0}, {FALSE}, {FALSE}) :
          params = [p EXCEPT !.ownabort = FALSE]
    BY <1>3 DEF AppPipe
  <2>2. Typed(p)
    <3>1. {0} \in SUBSET (0..MaxPort) /\ {2} \in SUBSET (0..MaxPort)
      BY <1>0
    <3>2. {{}} \in SUBSET SUBSET {1, 2} /\ {{1, 2}} \in SUBSET SUBSET {1, 2}
          /\ {FALSE} \in SUBSET BOOLEAN /\ {0} \in SUBSET {0, 1}
      OBVIOUS
    <3> HIDE DEF Typed
    <3> QED BY <1>1, <3>1, <3>2
  <2>3. DOMAIN p = {"existing", "portbase", "rtcpport", "mux", "odd", "ips", "ownabort"}
    BY DEF Params
  <2> QED BY <2>1, <2>2, <2>3
<1>4. CASE params \in OnPort({2, MaxPort - 3, MaxPort})
  <2>1. {2, MaxPort - 3, MaxPort} \in SUBSET (0..MaxPort)
    BY <1>0
  <2> QED BY <1>1, <1>4, <2>1 DEF OnPort
<1>5. CASE params \in Params({{}}, {2, MaxPort - 3, MaxPort}, {0}, BOOLEAN, BOOLEAN)
  <2>1. {2, MaxPort - 3, MaxPort} \in SUBSET (0..MaxPort)
    BY <1>0
  <2> QED BY <1>1, <1>5, <2>1
<1>6. CASE \/ params \in Params({{}}, {2}, {1}, {FALSE}, {FALSE})
           \/ params \in Params({{}}, {0}, {0}, BOOLEAN, BOOLEAN)
           \/ params \in Params({{}}, {2}, {0}, BOOLEAN, {FALSE})
  <2>1. {0} \in SUBSET (0..MaxPort) /\ {2} \in SUBSET (0..MaxPort)
    BY <1>0
  <2> QED BY <1>1, <1>6, <2>1
<1>7. CASE params \in Params((SUBSET V4!AppSockets) \ {{}}, {0}, {0}, {FALSE}, {FALSE})
  <2>1. {0} \in SUBSET (0..MaxPort)
    BY <1>0
  <2>2. (SUBSET V4!AppSockets) \ {{}} \in SUBSET SUBSET {1, 2}
    BY DEF V4!AppSockets
  <2> QED BY <1>1, <1>7, <2>1, <2>2
<1> QED BY <1>2, <1>3, <1>4, <1>5, <1>6, <1>7
        DEF AllParams, V4Params, V6Params, FewParams

\* Those for IPv6 name the ports.
LEMMA V6ParamsTyped ==
  ASSUME NEW params \in V6Params, params.portbase % 2 = 0
  PROVE  params.portbase \in Nat \ {0} /\ params.portbase + 1 \in 0..MaxPort
<1>0. MaxPort \in Nat /\ MaxPort > 3 /\ MaxPort % 2 = 1
  BY InstanceAssumption DEF V4!PortsAssumption
<1>1. params.portbase \in {2, MaxPort - 3, MaxPort}
  <2>1. CASE params \in AppIPs
    BY <2>1 DEF AppIPs, OnPort, Params
  <2>2. CASE params \in OnPort({2, MaxPort - 3, MaxPort})
    BY <2>2 DEF OnPort, Params
  <2> QED BY <2>1, <2>2 DEF V6Params
<1> QED BY <1>0, <1>1

\* Ports that the system chose, before and after Create has ended.
Paired(params, rtp, rtcp, open) ==
  params.existing = {} /\ params.portbase = 0 =>
    IF params.mux
    THEN rtp = rtcp /\ (params.odd \/ open[rtp] % 2 = 0)
    ELSE open[rtp] % 2 = 0 /\ open[rtcp] = open[rtp] + 1

InUse == created \/ creating.stage = "setup"

\* The sockets that are open, in every stage of Create.
PortsInv ==
  /\ OpenOK(ports) /\ V4!AppSockets \subseteq DOMAIN ports
  /\ sock \in [rtp : Nat, rtcp : Nat, own : BOOLEAN]
  /\ creating.stage \in {"no", "auto", "setup"}
  /\ creating.attempts \in 0..MaxAttempts
  /\ creating.toclose \cap V4!AppSockets = {}
  /\ creating.stage # "auto" => creating.toclose = {}
  /\ V4!SocketsAccountedFor

\* The sockets that are used, are the right ones.
UseInv ==
  /\ UDP /\ (created \/ creating.stage # "no") => creating.params \in AllParams
  /\ UDP /\ InUse =>
       /\ V4!MySockets \subseteq DOMAIN ports
       /\ IF sock.own THEN V4!MySockets \cap V4!AppSockets = {}
                      ELSE V4!MySockets \subseteq V4!AppSockets
       /\ myports.rtp = ports[sock.rtp] /\ myports.rtcp = ports[sock.rtcp]
       /\ Paired(creating.params, sock.rtp, sock.rtcp, ports)

\* Only sockets of the application are members of a group when the transmitter
\* is gone.
MemberInv ==
  /\ members \subseteq (DOMAIN ports) \X Group
  /\ multicastgroups \subseteq Group
  /\ UDP => V4!MembershipsMatch
  /\ UDP /\ ~ created => \A m \in members : m[1] \in V4!AppSockets

SocketInv == PortsInv /\ UseInv /\ MemberInv

\* Create has its sockets.
LEMMA SetsUp ==
  ASSUME SocketInv, UDP, UDP', ~ created, ~ created',
         UNCHANGED <<members, multicastgroups>>,
         NEW open, OpenOK(open), ports' = open,
         NEW rtp \in Nat, NEW rtcp \in Nat, NEW own \in BOOLEAN,
         sock' = [rtp |-> rtp, rtcp |-> rtcp, own |-> own],
         DOMAIN open = V4!AppSockets \cup (IF own THEN {rtp, rtcp} ELSE {}),
         IF own THEN {rtp, rtcp} \cap V4!AppSockets = {}
                ELSE {rtp, rtcp} \subseteq V4!AppSockets,
         myports'.rtp = open[rtp], myports'.rtcp = open[rtcp],
         NEW params \in AllParams, creating'.params = params,
         creating'.stage = "setup", creating'.toclose = {},
         creating'.attempts \in 0..MaxAttempts,
         Paired(params, rtp, rtcp, open)
  PROVE  SocketInv'
<1>1. sock'.rtp = rtp /\ sock'.rtcp = rtcp /\ sock'.own = own
  OBVIOUS
<1>2. PortsInv'
  BY <1>1 DEF PortsInv, V4!SocketsAccountedFor, V4!MySockets
<1>3. UseInv'
  BY <1>1 DEF UseInv, InUse, V4!MySockets
<1>4. MemberInv'
  BY DEF SocketInv, MemberInv, V4!MembershipsMatch
<1> QED BY <1>2, <1>3, <1>4 DEF SocketInv

\* Create tries for a pair of ports, or begins to.
LEMMA Tries ==
  ASSUME SocketInv, UDP, UDP', ~ created, ~ created',
         UNCHANGED <<sock, members, multicastgroups>>,
         OpenOK(ports'), DOMAIN ports' = V4!AppSockets \cup creating'.toclose,
         creating'.stage = "auto", creating'.params \in AllParams,
         creating'.attempts \in 0..MaxAttempts,
         creating'.toclose \cap V4!AppSockets = {}
  PROVE  SocketInv'
<1>1. PortsInv'
  BY DEF SocketInv, PortsInv, V4!SocketsAccountedFor
<1>2. UseInv'
  BY DEF UseInv, InUse
<1>3. MemberInv'
  BY DEF SocketInv, MemberInv, V4!MembershipsMatch
<1> QED BY <1>1, <1>2, <1>3 DEF SocketInv

\* Create fails, and has closed what it opened.
LEMMA GivesUp ==
  ASSUME SocketInv, UDP, UDP', ~ created, ~ created',
         UNCHANGED <<sock, members, multicastgroups>>,
         OpenOK(ports'), DOMAIN ports' = V4!AppSockets, creating' = V4!NotCreating
  PROVE  SocketInv'
<1>1. creating'.stage = "no" /\ creating'.attempts = 0 /\ creating'.toclose = {}
  BY DEF V4!NotCreating
<1>2. MaxAttempts \in Nat
  BY InstanceAssumption DEF V4!PortsAssumption
<1>3. PortsInv'
  BY <1>1, <1>2 DEF SocketInv, PortsInv, V4!SocketsAccountedFor
<1>4. UseInv'
  BY <1>1 DEF UseInv, InUse
<1>5. MemberInv'
  BY DEF SocketInv, MemberInv, V4!MembershipsMatch
<1> QED BY <1>3, <1>4, <1>5 DEF SocketInv

\* Create ends well.
LEMMA IsSetUp ==
  ASSUME SocketInv, CleanInv, UDP, UDP', ~ created, created', creating.stage = "setup",
         UNCHANGED <<ports, sock, myports, members, multicastgroups>>,
         creating' = [V4!NotCreating EXCEPT !.params = creating.params]
  PROVE  SocketInv'
<1>1. /\ creating'.stage = "no" /\ creating'.attempts = 0 /\ creating'.toclose = {}
      /\ creating'.params = creating.params
  BY DEF V4!NotCreating
<1>2. MaxAttempts \in Nat
  BY InstanceAssumption DEF V4!PortsAssumption
<1>3. PortsInv'
  BY <1>1, <1>2 DEF SocketInv, PortsInv, V4!SocketsAccountedFor, V4!MySockets
<1>4. UseInv'
  BY <1>1 DEF SocketInv, UseInv, InUse, V4!MySockets
<1>5. multicastgroups = {} /\ multicastgroups' = {}
  BY DEF CleanInv
<1>6. MemberInv'
  BY <1>5 DEF SocketInv, MemberInv, V4!MembershipsMatch, V4!MySockets
<1> QED BY <1>3, <1>4, <1>6 DEF SocketInv

\* CLOSESOCKETS leaves those of the application.
LEMMA ClosedAll ==
  ASSUME SocketInv, UDP, InUse, creating.toclose = {}
  PROVE  OpenOK(V4!CloseSockets) /\ DOMAIN V4!CloseSockets = V4!AppSockets
<1>1. OpenOK(ports)
  BY DEF SocketInv, PortsInv
<1>2. CASE sock.own
  <2>1. V4!CloseSockets = V4!Close(ports, {sock.rtp, sock.rtcp})
    BY <1>2 DEF V4!CloseSockets
  <2>2. DOMAIN ports \ {sock.rtp, sock.rtcp} = V4!AppSockets
    BY <1>2 DEF SocketInv, PortsInv, V4!SocketsAccountedFor, UseInv, V4!MySockets
  <2> QED BY <1>1, <2>1, <2>2, Closed
<1>3. CASE ~ sock.own
  BY <1>1, <1>3 DEF V4!CloseSockets, SocketInv, PortsInv, V4!SocketsAccountedFor
<1> QED BY <1>2, <1>3

\* Destroy closes the sockets that are its own.
LEMMA ClosesAll ==
  ASSUME SocketInv, UDP, UDP', created, ~ created', creating.stage = "no",
         ports' = V4!CloseSockets, multicastgroups' = {},
         members' = {m \in members : m[1] \in DOMAIN V4!CloseSockets},
         UNCHANGED <<sock, myports, creating>>
  PROVE  SocketInv'
<1>1. OpenOK(ports') /\ DOMAIN ports' = V4!AppSockets
  <2>1. InUse /\ creating.toclose = {}
    BY DEF InUse, SocketInv, PortsInv
  <2> QED BY <2>1, ClosedAll
<1>2. PortsInv'
  BY <1>1 DEF SocketInv, PortsInv, V4!SocketsAccountedFor
<1>3. UseInv'
  BY DEF UseInv, InUse
<1>4. MemberInv'
  BY <1>1 DEF SocketInv, MemberInv, V4!MembershipsMatch
<1> QED BY <1>2, <1>3, <1>4 DEF SocketInv

\* Steps that leave the sockets alone.
LEMMA SocketsStay ==
  ASSUME SocketInv, MemberInv',
         UNCHANGED <<created, ports, sock, myports, creating, kind>>
  PROVE  SocketInv'
BY DEF SocketInv, PortsInv, V4!SocketsAccountedFor, V4!MySockets, UseInv, InUse, UDP

-----------------------------------------------------------------------------
(* GetAutoSockets.                                                         *)

\* It is the turn of GetAutoSockets.
Trying ==
  /\ SocketInv /\ Creates /\ UDP /\ UDP' /\ creating.stage = "auto"
  /\ ~ created /\ ~ created' /\ UNCHANGED <<members, multicastgroups>>

\* A try that fails, with the sockets ss on the ports of open.
LEMMA KeepsTrying ==
  ASSUME Trying, creating.attempts < MaxAttempts,
         NEW open, OpenOK(open), NEW ss, DOMAIN open = DOMAIN ports \cup ss,
         ss \cap DOMAIN ports = {}, V4!KeepsForLater(open, ss)
  PROVE  SocketInv'
<1>1. /\ creating'.stage = "auto" /\ creating'.params = creating.params
      /\ creating'.attempts = creating.attempts + 1
      /\ creating'.toclose = creating.toclose \cup ss
      /\ ports' = open /\ UNCHANGED sock
  BY DEF V4!KeepsForLater, Trying, Creates
<1>2. creating.params \in AllParams
  BY DEF Trying, SocketInv, UseInv
<1>3. MaxAttempts \in Nat
  BY InstanceAssumption DEF V4!PortsAssumption
<1>4. creating'.attempts \in 0..MaxAttempts
  BY <1>1, <1>3 DEF Trying, SocketInv, PortsInv
<1>5. DOMAIN open = V4!AppSockets \cup creating'.toclose
  BY <1>1 DEF Trying, SocketInv, PortsInv, V4!SocketsAccountedFor
<1>6. creating'.toclose \cap V4!AppSockets = {}
  BY <1>1 DEF Trying, SocketInv, PortsInv
<1> QED BY <1>1, <1>2, <1>4, <1>5, <1>6, Tries DEF Trying

\* One that gives sockets to use, closes those of the failed ones.
LEMMA TakesSockets ==
  ASSUME Trying, NEW open, OpenOK(open), NEW rtp \in Nat, NEW rtcp \in Nat,
         DOMAIN open = DOMAIN ports \cup {rtp, rtcp},
         rtp \notin DOMAIN ports, rtcp \notin DOMAIN ports,
         Paired(creating.params, rtp, rtcp, open), V4!Takes(open, rtp, rtcp)
  PROVE  SocketInv'
<1> DEFINE left == V4!Close(open, creating.toclose)
<1>1. /\ OpenOK(left) /\ DOMAIN left = DOMAIN open \ creating.toclose
      /\ \A n \in DOMAIN open \ creating.toclose : left[n] = open[n]
  BY Closed
<1>2. DOMAIN ports = V4!AppSockets \cup creating.toclose
      /\ creating.toclose \cap V4!AppSockets = {}
  BY DEF Trying, SocketInv, PortsInv, V4!SocketsAccountedFor
<1>3. DOMAIN left = V4!AppSockets \cup {rtp, rtcp}
      /\ {rtp, rtcp} \cap V4!AppSockets = {}
      /\ left[rtp] = open[rtp] /\ left[rtcp] = open[rtcp]
  BY <1>1, <1>2
<1>4. /\ ports' = left /\ sock' = [rtp |-> rtp, rtcp |-> rtcp, own |-> TRUE]
      /\ myports' = [rtp |-> left[rtp], rtcp |-> left[rtcp]]
      /\ creating' = [creating EXCEPT !.stage = "setup", !.toclose = {}]
  BY DEF V4!Takes, V4!Uses
<1>5. /\ creating'.stage = "setup" /\ creating'.params = creating.params
      /\ creating'.attempts = creating.attempts /\ creating'.toclose = {}
  BY <1>4 DEF Trying, Creates
<1>6. creating.params \in AllParams /\ creating.attempts \in 0..MaxAttempts
  BY DEF Trying, SocketInv, UseInv, PortsInv
<1>7. Paired(creating.params, rtp, rtcp, left)
  BY <1>3 DEF Paired
<1>8. myports'.rtp = left[rtp] /\ myports'.rtcp = left[rtcp]
  BY <1>4
<1> HIDE DEF left
<1> QED BY <1>1, <1>3, <1>4, <1>5, <1>6, <1>7, <1>8, SetsUp DEF Trying

\* Whatever port the system gives.
LEMMA AutoStep ==
  ASSUME Trying, V4!GetAutoSockets
  PROVE  SocketInv'
<1>1. PICK base \in V4!PortNumber \ V4!Bound(ports) : V4!AutoSockets(base)
  BY DEF V4!GetAutoSockets
<1>2. creating.attempts < MaxAttempts
  BY DEF V4!GetAutoSockets
<1>3. MaxPort \in Nat /\ MaxPort % 2 = 1
  BY InstanceAssumption DEF V4!PortsAssumption
<1>4. base \in 1..MaxPort /\ base \in 0..MaxPort
  BY <1>3 DEF V4!PortNumber
<1> DEFINE one == V4!NewSocket(ports)
           first == V4!Open(ports, one, base)
           two == V4!NewSocket(first)
           second == V4!SecondPort(base)
           pair == V4!Open(first, two, second)
           unbound == V4!Open(first, two, 0)
<1>5. OpenOK(ports)
  BY DEF Trying, SocketInv, PortsInv
<1>6. one \in Nat /\ one \notin DOMAIN ports
  BY <1>5, FreeSocket DEF OpenOK
<1> HIDE DEF one
<1>7. OpenOK(first) /\ DOMAIN first = DOMAIN ports \cup {one} /\ first[one] = base
  BY ONLY <1>4, <1>5, Opened DEF first
<1> HIDE DEF first
<1>8. two \in Nat /\ two \notin DOMAIN first
  BY <1>7, FreeSocket DEF OpenOK
<1> HIDE DEF two
<1>9. ASSUME NEW port \in 0..MaxPort
       PROVE  LET open == V4!Open(first, two, port)
              IN  /\ OpenOK(open) /\ DOMAIN open = DOMAIN ports \cup {one, two}
                  /\ open[two] = port /\ open[one] = base
  <2> DEFINE open == V4!Open(first, two, port)
  <2>1. OpenOK(open) /\ DOMAIN open = DOMAIN first \cup {two} /\ open[two] = port
    <3>1. OpenOK(first)
      BY <1>7
    <3>2. IsFiniteSet(DOMAIN first \cup {two})
      BY <3>1, FS_AddElement DEF OpenOK
    <3> QED BY <3>1, <3>2 DEF OpenOK, V4!Open
  <2>2. open[one] = first[one]
    BY <1>7, <1>8 DEF V4!Open
  <2> HIDE DEF open
  <2>3. /\ OpenOK(open) /\ DOMAIN open = DOMAIN ports \cup {one, two}
        /\ open[two] = port /\ open[one] = base
    BY <1>7, <2>1, <2>2
  <2> QED BY <2>3 DEF open
<1>10. CASE creating.params.mux
  <2>1. CASE base % 2 = 0 \/ creating.params.odd
    <3>1. V4!Takes(first, one, one)
      BY <1>1, <1>10, <2>1 DEF V4!AutoSockets, one, first
    <3>2. Paired(creating.params, one, one, first)
      BY <1>7, <1>10, <2>1 DEF Paired
    <3> QED BY <1>6, <1>7, <3>1, <3>2, TakesSockets
  <2>2. CASE ~ (base % 2 = 0 \/ creating.params.odd)
    <3>1. V4!KeepsForLater(first, {one})
      BY <1>1, <1>10, <2>2 DEF V4!AutoSockets, one, first
    <3> QED BY <1>2, <1>6, <1>7, <3>1, KeepsTrying
  <2> QED BY <2>1, <2>2
<1>11. CASE ~ creating.params.mux
  <2>1. CASE V4!KeepsForLater(unbound, {one, two})
    <3>1. OpenOK(unbound) /\ DOMAIN unbound = DOMAIN ports \cup {one, two}
      BY <1>3, <1>9
    <3> HIDE DEF unbound
    <3> QED BY <1>2, <1>6, <1>7, <1>8, <2>1, <3>1, KeepsTrying
  <2>2. CASE second # 0 /\ V4!InPortOrder(pair, one, two)
    <3>1. second \in 0..MaxPort
          /\ IF base % 2 = 0 THEN second = base + 1
             ELSE base = second + 1 /\ second % 2 = 0
      BY <1>3, <1>4, <2>2 DEF V4!SecondPort
    <3> HIDE DEF second
    <3>2. /\ OpenOK(pair) /\ DOMAIN pair = DOMAIN ports \cup {one, two}
          /\ pair[two] = second /\ pair[one] = base
      BY <1>9, <3>1
    <3> HIDE DEF pair
    <3>3. CASE base < second
      <4>1. V4!Takes(pair, one, two)
        BY <2>2, <3>2, <3>3 DEF V4!InPortOrder
      <4>2. Paired(creating.params, one, two, pair)
        BY <1>4, <1>11, <3>1, <3>2, <3>3 DEF Paired
      <4> QED BY <1>6, <1>7, <1>8, <3>2, <4>1, <4>2, TakesSockets
    <3>4. CASE ~ (base < second)
      <4>1. V4!Takes(pair, two, one)
        BY <2>2, <3>2, <3>4 DEF V4!InPortOrder
      <4>2. Paired(creating.params, two, one, pair)
        BY <1>4, <1>11, <3>1, <3>2, <3>4 DEF Paired
      <4>3. DOMAIN pair = DOMAIN ports \cup {two, one}
        BY <3>2
      <4> QED BY <1>6, <1>7, <1>8, <3>2, <4>1, <4>2, <4>3, TakesSockets
    <3> QED BY <3>3, <3>4
  <2>3. \/ V4!KeepsForLater(unbound, {one, two})
        \/ second # 0 /\ V4!InPortOrder(pair, one, two)
    BY <1>1, <1>11 DEF V4!AutoSockets, one, first, two
  <2> QED BY <2>1, <2>2, <2>3
<1> QED BY <1>10, <1>11

-----------------------------------------------------------------------------
(* The steps of the transmitter over IPv4.                                 *)

\* Joining and leaving groups, what fails half-way too.
GroupStep(g) ==
  \/ V4!Joins(g) \/ V4!JoinFails(g)
  \/ /\ members' = members \ (V4!MySockets \X {g})
     /\ multicastgroups' = multicastgroups \ {g}
  \/ /\ members' = members \ (V4!MySockets \X multicastgroups)
     /\ multicastgroups' = {}

\* They keep the members of both sockets and of the groups the same.
LEMMA GroupSteps ==
  ASSUME SocketInv, UDP, created, NEW g \in Group, GroupStep(g),
         UNCHANGED <<created, ports, sock, myports, creating, kind>>
  PROVE  SocketInv'
<1>1. V4!MySockets \subseteq DOMAIN ports /\ UNCHANGED V4!MySockets
  BY DEF SocketInv, UseInv, InUse, V4!MySockets
<1>2. /\ members \subseteq (DOMAIN ports) \X Group /\ multicastgroups \subseteq Group
      /\ V4!MySockets \X multicastgroups \subseteq members
      /\ \A m \in members :
           m \in V4!MySockets \X multicastgroups \/ m[1] \in V4!AppSockets
  BY DEF SocketInv, MemberInv, V4!MembershipsMatch
<1>3. /\ members' \subseteq (DOMAIN ports) \X Group /\ multicastgroups' \subseteq Group
      /\ V4!MySockets \X multicastgroups' \subseteq members'
      /\ \A m \in members' :
           m \in V4!MySockets \X multicastgroups' \/ m[1] \in V4!AppSockets
  <2>1. CASE V4!Joins(g)
    BY <1>1, <1>2, <2>1 DEF V4!Joins
  <2>2. CASE V4!JoinFails(g)
    <3>1. UNCHANGED <<members, multicastgroups>>
      BY <2>2 DEF V4!JoinFails
    <3> QED BY <1>2, <3>1
  <2>3. CASE /\ members' = members \ (V4!MySockets \X {g})
             /\ multicastgroups' = multicastgroups \ {g}
    BY <1>2, <2>3
  <2>4. CASE /\ members' = members \ (V4!MySockets \X multicastgroups)
             /\ multicastgroups' = {}
    BY <1>2, <2>4
  <2> QED BY <2>1, <2>2, <2>3, <2>4 DEF GroupStep
<1>4. MemberInv'
  BY <1>1, <1>3 DEF MemberInv, V4!MembershipsMatch, UDP
<1> QED BY <1>4, SocketsStay

\* A step that leaves the sockets and the groups alone.
LEMMA NothingMoves ==
  ASSUME SocketInv, UNCHANGED <<created, ports, sock, myports, creating, kind,
                                members, multicastgroups>>
  PROVE  SocketInv'
<1>1. MemberInv'
  BY DEF SocketInv, MemberInv, V4!MembershipsMatch, V4!MySockets, UDP
<1> QED BY <1>1, SocketsStay

\* What Create does with its parameters.
LEMMA V4CreateSteps ==
  ASSUME SocketInv, Creates, UDP, UDP', NEW params \in AllParams, V4!Create(params)
  PROVE  SocketInv'
<1>1. /\ ~ created /\ ~ created' /\ creating.stage = "no"
      /\ UNCHANGED <<members, multicastgroups>>
  BY DEF V4!Create, V4!CreateBegins, V4!CreateWithSockets, V4!CreateOnPort, V4!butCreate
<1>2. OpenOK(ports) /\ DOMAIN ports = V4!AppSockets /\ 0 \in 0..MaxAttempts
  <2>1. MaxAttempts \in Nat
    BY InstanceAssumption DEF V4!PortsAssumption
  <2> QED BY <1>1, <2>1 DEF SocketInv, PortsInv, V4!SocketsAccountedFor
<1>3. CASE V4!CreateBegins(params)
  <2>1. /\ creating'.stage = "auto" /\ creating'.params = params
        /\ creating'.attempts = 0 /\ creating'.toclose = {}
        /\ UNCHANGED <<ports, sock>>
    BY <1>3 DEF V4!CreateBegins, V4!NotCreating
  <2> QED BY <1>1, <1>2, <2>1, Tries
<1>4. CASE V4!CreateWithSockets(params)
  <2>1. PICK rtp \in params.existing, rtcp \in params.existing :
          /\ sock' = [rtp |-> rtp, rtcp |-> rtcp, own |-> FALSE]
          /\ myports' = [rtp |-> ports[rtp], rtcp |-> ports[rtcp]]
    BY <1>4 DEF V4!CreateWithSockets
  <2>2. rtp \in {1, 2} /\ rtcp \in {1, 2} /\ params.existing # {}
    BY ParamsTyped
  <2>3. /\ creating'.stage = "setup" /\ creating'.params = params
        /\ creating'.attempts = 0 /\ creating'.toclose = {}
        /\ ports' = ports
    BY <1>4 DEF V4!CreateWithSockets, V4!NotCreating
  <2>4. Paired(params, rtp, rtcp, ports)
    BY <2>2 DEF Paired
  <2>5. myports'.rtp = ports[rtp] /\ myports'.rtcp = ports[rtcp]
    BY <2>1
  <2>6. rtp \in Nat /\ rtcp \in Nat /\ {rtp, rtcp} \subseteq V4!AppSockets
    BY <2>2 DEF V4!AppSockets
  <2> QED BY <1>1, <1>2, <2>1, <2>3, <2>4, <2>5, <2>6, SetsUp
<1>5. CASE V4!CreateOnPort(params)
  <2>1. params.portbase \in 0..MaxPort /\ V4!RTCPPort(params) \in 0..MaxPort
        /\ params.portbase # 0
    <3>1. MaxPort \in Nat /\ MaxPort > 3
      BY InstanceAssumption DEF V4!PortsAssumption
    <3>2. params.portbase \in 0..MaxPort /\ params.rtcpport \in {0, 1}
      BY ParamsTyped
    <3> QED BY <1>5, <3>1, <3>2 DEF V4!RTCPPort, V4!CreateOnPort
  <2>2. PICK base \in 0..MaxPort : base = params.portbase
    BY <2>1
  <2>3. PICK next \in 0..MaxPort : next = V4!RTCPPort(params)
    BY <2>1
  <2> DEFINE rtp == V4!NewSocket(ports)
             one == V4!Open(ports, rtp, base)
             rtcp == V4!NewSocket(one)
             both == V4!Open(one, rtcp, next)
  <2>4. rtp \in Nat /\ rtp \notin DOMAIN ports
    BY <1>2, FreeSocket DEF OpenOK
  <2>5. OpenOK(one) /\ DOMAIN one = V4!AppSockets \cup {rtp}
        /\ one[rtp] = base
    <3> HIDE DEF rtp
    <3> QED BY <1>2, Opened
  <2> HIDE DEF one
  <2>6. rtcp \in Nat /\ rtcp \notin DOMAIN one
    BY <2>5, FreeSocket DEF OpenOK
  <2>7. OpenOK(both) /\ DOMAIN both = V4!AppSockets \cup {rtp, rtcp}
        /\ both[rtcp] = next /\ both[rtp] = base
    <3> HIDE DEF rtp, rtcp
    <3>1. OpenOK(both) /\ DOMAIN both = DOMAIN one \cup {rtcp}
          /\ both[rtcp] = next
      BY <2>5, Opened
    <3>2. both[rtp] = one[rtp]
      BY <2>5, <2>6 DEF V4!Open
    <3> HIDE DEF both
    <3> QED BY <2>5, <3>1, <3>2
  <2>8. OpenOK(V4!Close(one, {rtp})) /\ DOMAIN V4!Close(one, {rtp}) = V4!AppSockets
    <3> HIDE DEF rtp
    <3>1. OpenOK(V4!Close(one, {rtp}))
          /\ DOMAIN V4!Close(one, {rtp}) = DOMAIN one \ {rtp}
      BY <2>5, Closed
    <3> QED BY <1>2, <2>4, <2>5, <3>1
  <2>9. OpenOK(V4!Close(both, {rtp, rtcp}))
        /\ DOMAIN V4!Close(both, {rtp, rtcp}) = V4!AppSockets
    <3> HIDE DEF rtp, rtcp, both
    <3>1. OpenOK(V4!Close(both, {rtp, rtcp}))
          /\ DOMAIN V4!Close(both, {rtp, rtcp}) = DOMAIN both \ {rtp, rtcp}
      BY <2>7, Closed
    <3> QED BY <1>2, <2>4, <2>5, <2>6, <2>7, <3>1
  <2>10. \/ V4!Fails(ports) \/ V4!Fails(V4!Close(one, {rtp}))
        \/ V4!Fails(V4!Close(both, {rtp, rtcp}))
        \/ /\ ports' = one /\ sock' = [rtp |-> rtp, rtcp |-> rtp, own |-> TRUE]
           /\ myports' = [c \in V4!Channel |-> base]
           /\ creating' = [V4!NotCreating EXCEPT !.stage = "setup",
                                                 !.params = params]
        \/ /\ ports' = both /\ sock' = [rtp |-> rtp, rtcp |-> rtcp, own |-> TRUE]
           /\ myports' = [rtp |-> base, rtcp |-> next]
           /\ creating' = [V4!NotCreating EXCEPT !.stage = "setup",
                                                 !.params = params]
    BY <1>5, <2>2, <2>3 DEF V4!CreateOnPort, one
  <2>11. \A open : Paired(params, rtp, rtp, open) /\ Paired(params, rtp, rtcp, open)
    BY <2>1 DEF Paired
  <2> HIDE DEF rtp, rtcp, both
  <2>12. ASSUME NEW open, OpenOK(open), DOMAIN open = V4!AppSockets, V4!Fails(open)
         PROVE  SocketInv'
    BY <1>1, <2>12, GivesUp DEF V4!Fails
  <2>13. ASSUME creating' = [V4!NotCreating EXCEPT !.stage = "setup",
                                                   !.params = params],
                NEW open, OpenOK(open), ports' = open, NEW s \in Nat, NEW t \in Nat,
                DOMAIN open = V4!AppSockets \cup {s, t}, {s, t} \cap V4!AppSockets = {},
                sock' = [rtp |-> s, rtcp |-> t, own |-> TRUE],
                myports'.rtp = open[s], myports'.rtcp = open[t],
                Paired(params, s, t, open)
         PROVE  SocketInv'
    <3>1. /\ creating'.stage = "setup" /\ creating'.params = params
          /\ creating'.attempts = 0 /\ creating'.toclose = {}
      BY <2>13 DEF V4!NotCreating
    <3> QED BY <1>1, <1>2, <2>13, <3>1, SetsUp
  <2>14. CASE V4!Fails(ports) \/ V4!Fails(V4!Close(one, {rtp}))
              \/ V4!Fails(V4!Close(both, {rtp, rtcp}))
    BY <1>2, <2>8, <2>9, <2>12, <2>14
  <2>15. CASE /\ ports' = one /\ sock' = [rtp |-> rtp, rtcp |-> rtp, own |-> TRUE]
              /\ myports' = [c \in V4!Channel |-> base]
              /\ creating' = [V4!NotCreating EXCEPT !.stage = "setup",
                                                    !.params = params]
    <3>1. myports'.rtp = one[rtp]
      BY <2>5, <2>15 DEF V4!Channel
    <3>2. myports'.rtcp = one[rtp]
      BY <2>5, <2>15 DEF V4!Channel
    <3>3. /\ DOMAIN one = V4!AppSockets \cup {rtp, rtp}
          /\ {rtp, rtp} \cap V4!AppSockets = {}
      BY <1>2, <2>4, <2>5
    <3> QED BY <2>4, <2>5, <2>11, <2>13, <2>15, <3>1, <3>2, <3>3
  <2>16. CASE /\ ports' = both /\ sock' = [rtp |-> rtp, rtcp |-> rtcp, own |-> TRUE]
              /\ myports' = [rtp |-> base, rtcp |-> next]
              /\ creating' = [V4!NotCreating EXCEPT !.stage = "setup",
                                                    !.params = params]
    <3>1. myports'.rtp = both[rtp] /\ myports'.rtcp = both[rtcp]
      BY <2>7, <2>16
    <3>2. {rtp, rtcp} \cap V4!AppSockets = {}
      BY <1>2, <2>4, <2>5, <2>6
    <3> QED BY <2>4, <2>6, <2>7, <2>11, <2>13, <2>16, <3>1, <3>2
  <2> QED BY <2>10, <2>14, <2>15, <2>16
<1> QED BY <1>3, <1>4, <1>5 DEF V4!Create

\* Everything that the transmitter over IPv4 does.
LEMMA V4SocketSteps ==
  ASSUME WaitInv, CleanInv, SocketInv, kind = "v4", UNCHANGED kind, V4Next
  PROVE  SocketInv'
<1>0. UDP /\ UDP' /\ Creates /\ created \in BOOLEAN
  BY DEF UDP, WaitInv, Life
<1>1. ASSUME NEW params \in V4Params \cup FewParams, V4!Create(params)
      PROVE  SocketInv'
  BY <1>0, <1>1, V4CreateSteps DEF AllParams
<1>2. CASE V4!CreateGoesOn
  <2>0. creating.stage \in {"auto", "setup"} /\ ~ created
        /\ UNCHANGED <<members, multicastgroups>>
    BY <1>0, <1>2 DEF V4!CreateGoesOn, V4!GetAutoSockets, V4!GetAutoSocketsFails,
      V4!CreateEnds, V4!Finished, V4!CreateGivesUp, V4!butCreate, SocketInv, PortsInv,
      Creates
  <2>1. OpenOK(ports)
    BY DEF SocketInv, PortsInv
  <2>2. CASE V4!GetAutoSockets
    <3>1. Trying
      BY <1>0, <2>0, <2>2 DEF Trying, V4!GetAutoSockets
    <3> QED BY <2>2, <3>1, AutoStep
  <2>3. CASE V4!GetAutoSocketsFails
    <3> DEFINE open == V4!Close(ports, creating.toclose)
    <3>1. OpenOK(open) /\ DOMAIN open = DOMAIN ports \ creating.toclose
      BY <2>1, Closed
    <3>2. DOMAIN open = V4!AppSockets
      BY <2>0, <2>3, <3>1
         DEF V4!GetAutoSocketsFails, SocketInv, PortsInv, V4!SocketsAccountedFor
    <3>3. V4!Fails(open) /\ ~ created'
      BY <2>0, <2>3 DEF V4!GetAutoSocketsFails
    <3> HIDE DEF open
    <3> QED BY <1>0, <2>0, <3>1, <3>2, <3>3, GivesUp DEF V4!Fails
  <2>4. CASE V4!CreateGivesUp
    <3> DEFINE open == V4!CloseSockets
    <3>1. OpenOK(open) /\ DOMAIN open = V4!AppSockets
      <4>1. InUse /\ creating.toclose = {}
        BY <2>4 DEF V4!CreateGivesUp, InUse, SocketInv, PortsInv
      <4> QED BY <1>0, <4>1, ClosedAll
    <3>2. V4!Fails(open) /\ ~ created'
      BY <2>0, <2>4 DEF V4!CreateGivesUp
    <3> HIDE DEF open
    <3> QED BY <1>0, <2>0, <3>1, <3>2, GivesUp DEF V4!Fails
  <2>5. CASE V4!CreateEnds
    <3>1. /\ creating.stage = "setup" /\ created'
          /\ UNCHANGED <<ports, sock, myports>>
          /\ creating' = [V4!NotCreating EXCEPT !.params = creating.params]
      BY <2>5 DEF V4!CreateEnds, V4!Finished, V4!IsCreated
    <3> QED BY <1>0, <2>0, <3>1, IsSetUp
  <2> QED BY <1>2, <2>2, <2>3, <2>4, <2>5 DEF V4!CreateGoesOn
<1>3. CASE V4!Destroy
  <2>1. /\ created /\ ~ created'
        /\ ports' = V4!CloseSockets /\ multicastgroups' = {}
        /\ members' = {m \in members : m[1] \in DOMAIN V4!CloseSockets}
        /\ UNCHANGED <<sock, myports, creating>>
    BY <1>3 DEF V4!Destroy, V4!IsDestroyed, V4!Empties
  <2>2. creating.stage = "no"
    BY <1>0, <2>1 DEF Creates
  <2> QED BY <1>0, <2>1, <2>2, ClosesAll
<1>4. CASE V4Groups
  <2>1. created /\ UNCHANGED <<created, ports, sock, myports, creating>>
    BY <1>4 DEF V4Groups, V4!JoinMulticastGroup, V4!LeaveMulticastGroup,
                V4!LeaveAllMulticastGroups, V4!basevars, V4!butGroups
  <2>2. ASSUME NEW g \in Group,
               V4!JoinMulticastGroup(g) \/ V4!LeaveMulticastGroup(g)
        PROVE  SocketInv'
    <3>1. GroupStep(g)
      BY <2>2 DEF V4!JoinMulticastGroup, V4!LeaveMulticastGroup, GroupStep
    <3> QED BY <1>0, <2>1, <3>1, GroupSteps
  <2>3. CASE V4!LeaveAllMulticastGroups
    <3>1. /\ members' = members \ (V4!MySockets \X multicastgroups)
          /\ multicastgroups' = {}
      BY <2>3 DEF V4!LeaveAllMulticastGroups
    <3>2. CASE Group = {}
      <4>1. UNCHANGED <<members, multicastgroups>>
        BY <3>1, <3>2 DEF SocketInv, MemberInv
      <4> QED BY <2>1, <4>1, NothingMoves
    <3>3. CASE Group # {}
      <4>1. PICK g \in Group : TRUE
        BY <3>3
      <4> QED BY <1>0, <2>1, <3>1, GroupSteps DEF GroupStep
    <3> QED BY <3>2, <3>3
  <2> QED BY <1>4, <2>2, <2>3 DEF V4Groups
<1>5. CASE \/ V4!DestroyEnds \/ V4Waits \/ V4Receives \/ V4!ChangesFilter \/ V4Names
  <2>1. UNCHANGED <<created, ports, sock, myports, creating, members, multicastgroups>>
    BY <1>5 DEF V4!DestroyEnds, V4!DestroyReturns, V4!udpvars, V4Waits,
      V4!WaitForIncomingData, V4!StartsWaiting, V4!SelectWakes, V4!SelectReturns,
      V4!SelectEnds, V4!SelectTimesOut, V4!WaitReturns, V4!EndsWaiting, V4!AbortWait,
      V4!AbortsWait, V4Receives, V4!Arrives, V4!Poll, V4!GetNextPacket, V4!TakesNext,
      V4!ChangesFilter, V4Names, V4!AddDestination, V4!DeleteDestination,
      V4!ClearDestinations, V4!butLists, V4!GetLocalHostName, V4!basevars
  <2> QED BY <2>1, NothingMoves
<1> QED BY <1>1, <1>2, <1>3, <1>4, <1>5 DEF V4Next

-----------------------------------------------------------------------------
(* The steps of the transmitter over IPv6.                                 *)

\* Create makes both sockets before it binds them.
LEMMA V6CreateSteps ==
  ASSUME SocketInv, Creates, UDP, UDP', NEW params \in V6Params, V6!Create(params)
  PROVE  SocketInv'
<1>1. /\ ~ created /\ ~ created' /\ creating.stage = "no"
      /\ UNCHANGED <<members, multicastgroups>>
  BY DEF V6!Create
<1>2. OpenOK(ports) /\ DOMAIN ports = V4!AppSockets /\ 0 \in 0..MaxAttempts
  <2>1. MaxAttempts \in Nat
    BY InstanceAssumption DEF V4!PortsAssumption
  <2> QED BY <1>1, <2>1 DEF SocketInv, PortsInv, V4!SocketsAccountedFor
<1>3. params.portbase \in Nat \ {0} /\ params.portbase + 1 \in 0..MaxPort
  BY V6ParamsTyped DEF V6!Create
<1>4. MaxPort \in Nat
  BY InstanceAssumption DEF V4!PortsAssumption
<1>5. PICK base \in 0..MaxPort : base = params.portbase
  BY <1>3, <1>4
<1>6. PICK next \in 0..MaxPort : next = params.portbase + 1
  BY <1>3
<1>7. PICK none \in 0..MaxPort : none = 0
  BY <1>4
<1> DEFINE rtp == V4!NewSocket(ports)
           one == V4!Open(ports, rtp, none)
           rtcp == V4!NewSocket(one)
           half == V4!Open(one, rtp, base)
           bound == V4!Open(half, rtcp, next)
<1>8. rtp \in Nat /\ rtp \notin DOMAIN ports
  BY <1>2, FreeSocket DEF OpenOK
<1>9. OpenOK(one) /\ DOMAIN one = V4!AppSockets \cup {rtp}
  <2> HIDE DEF rtp
  <2> QED BY <1>2, Opened
<1> HIDE DEF one
<1>10. rtcp \in Nat /\ rtcp \notin DOMAIN one
  BY <1>9, FreeSocket DEF OpenOK
<1> HIDE DEF rtp, rtcp
<1>11. OpenOK(half) /\ DOMAIN half = DOMAIN one \cup {rtp} /\ half[rtp] = base
  BY <1>9, Opened
<1> HIDE DEF half
<1>12. /\ OpenOK(bound) /\ DOMAIN bound = V4!AppSockets \cup {rtp, rtcp}
       /\ bound[rtcp] = next /\ bound[rtp] = base
  <2>1. OpenOK(bound) /\ DOMAIN bound = DOMAIN half \cup {rtcp} /\ bound[rtcp] = next
    BY <1>11, Opened
  <2>2. bound[rtp] = half[rtp]
    BY <1>9, <1>10, <1>11 DEF V4!Open
  <2> HIDE DEF bound
  <2> QED BY <1>9, <1>11, <2>1, <2>2
<1>13. OpenOK(V4!Close(one, {rtp})) /\ DOMAIN V4!Close(one, {rtp}) = V4!AppSockets
  <2>1. OpenOK(V4!Close(one, {rtp})) /\ DOMAIN V4!Close(one, {rtp}) = DOMAIN one \ {rtp}
    BY <1>9, Closed
  <2> QED BY <1>2, <1>8, <1>9, <2>1
<1> HIDE DEF bound
<1>14. OpenOK(V4!Close(bound, {rtp, rtcp}))
       /\ DOMAIN V4!Close(bound, {rtp, rtcp}) = V4!AppSockets
  <2>1. OpenOK(V4!Close(bound, {rtp, rtcp}))
        /\ DOMAIN V4!Close(bound, {rtp, rtcp}) = DOMAIN bound \ {rtp, rtcp}
    BY <1>12, Closed
  <2> QED BY <1>2, <1>8, <1>9, <1>10, <1>12, <2>1
<1>15. V6!V4!NotCreating = V4!NotCreating
  BY DEF V6!V4!NotCreating, V4!NotCreating, V6!V4!NoParams, V4!NoParams
<1>16. \/ V4!Fails(V4!Close(one, {rtp})) \/ V4!Fails(V4!Close(bound, {rtp, rtcp}))
       \/ /\ ports' = bound /\ sock' = [rtp |-> rtp, rtcp |-> rtcp, own |-> TRUE]
          /\ myports' = [rtp |-> base, rtcp |-> next]
          /\ creating' = [V4!NotCreating EXCEPT !.stage = "setup",
                                                !.params = params]
  <2>1. /\ rtp = V6!V4!NewSocket(ports)
        /\ one = V6!V4!Open(ports, V6!V4!NewSocket(ports), 0)
        /\ rtcp = V6!V4!NewSocket(V6!V4!Open(ports, V6!V4!NewSocket(ports), 0))
    BY <1>7, SameSockets DEF rtp, one, rtcp
  <2>2. bound = V6!V4!Open(V6!V4!Open(one, rtp, params.portbase), rtcp,
                           params.portbase + 1)
    BY <1>5, <1>6, SameSockets DEF bound, half
  <2>3. /\ V6!V4!Close(one, {rtp}) = V4!Close(one, {rtp})
        /\ V6!V4!Close(bound, {rtp, rtcp}) = V4!Close(bound, {rtp, rtcp})
    BY SameSockets
  <2>4. \A open : V6!V4!Fails(open) <=> V4!Fails(open)
    BY <1>15 DEF V6!V4!Fails, V4!Fails
  <2>5. \/ V6!V4!Fails(V6!V4!Close(one, {rtp}))
        \/ V6!V4!Fails(V6!V4!Close(bound, {rtp, rtcp}))
        \/ /\ ports' = bound /\ sock' = [rtp |-> rtp, rtcp |-> rtcp, own |-> TRUE]
           /\ myports' = [rtp |-> params.portbase, rtcp |-> params.portbase + 1]
           /\ creating' = [V6!V4!NotCreating EXCEPT !.stage = "setup",
                                                    !.params = params]
    BY <2>1, <2>2 DEF V6!Create
  <2>6. /\ params.portbase = base /\ params.portbase + 1 = next
    BY <1>5, <1>6
  <2> QED BY <1>15, <2>3, <2>4, <2>5, <2>6
<1>17. ASSUME NEW open, OpenOK(open), DOMAIN open = V4!AppSockets, V4!Fails(open)
       PROVE  SocketInv'
  BY <1>1, <1>17, GivesUp DEF V4!Fails
<1>18. CASE V4!Fails(V4!Close(one, {rtp})) \/ V4!Fails(V4!Close(bound, {rtp, rtcp}))
  BY <1>13, <1>14, <1>17, <1>18
<1>19. CASE /\ ports' = bound /\ sock' = [rtp |-> rtp, rtcp |-> rtcp, own |-> TRUE]
            /\ myports' = [rtp |-> base, rtcp |-> next]
            /\ creating' = [V4!NotCreating EXCEPT !.stage = "setup",
                                                  !.params = params]
  <2>1. myports'.rtp = bound[rtp] /\ myports'.rtcp = bound[rtcp]
    BY <1>12, <1>19
  <2>2. {rtp, rtcp} \cap V4!AppSockets = {}
    BY <1>2, <1>8, <1>9, <1>10
  <2>3. /\ creating'.stage = "setup" /\ creating'.params = params
        /\ creating'.attempts = 0 /\ creating'.toclose = {}
    BY <1>19 DEF V4!NotCreating
  <2>4. Paired(params, rtp, rtcp, bound)
    BY <1>3 DEF Paired
  <2>5. params \in AllParams
    BY DEF AllParams
  <2> QED BY <1>1, <1>2, <1>8, <1>10, <1>12, <1>19, <2>1, <2>2, <2>3, <2>4, <2>5, SetsUp
<1> QED BY <1>16, <1>18, <1>19

\* Everything that the transmitter over IPv6 does.
LEMMA V6SocketSteps ==
  ASSUME WaitInv, CleanInv, SocketInv, kind = "v6", UNCHANGED kind, V6Next
  PROVE  SocketInv'
<1>0. UDP /\ UDP' /\ Creates /\ created \in BOOLEAN
  BY DEF UDP, WaitInv, Life
<1>1. ASSUME NEW params \in V6Params, V6!Create(params)
      PROVE  SocketInv'
  BY <1>0, <1>1, V6CreateSteps
<1>2. V6!V4!NotCreating = V4!NotCreating /\ V6!V4!CloseSockets = V4!CloseSockets
  BY SameSockets DEF V6!V4!NotCreating, V4!NotCreating, V6!V4!NoParams, V4!NoParams,
                     V6!V4!CloseSockets, V4!CloseSockets
<1>3. CASE V6!CreateGivesUp
  <2> DEFINE open == V4!CloseSockets
  <2>1. /\ creating.stage = "setup" /\ UNCHANGED <<created, members, multicastgroups>>
        /\ ports' = open /\ creating' = V4!NotCreating /\ UNCHANGED sock
    BY <1>2, <1>3
       DEF V6!CreateGivesUp, V6!V4!CreateGivesUp, V6!V4!Fails, V6!V4!butCreate
  <2>2. InUse /\ creating.toclose = {} /\ ~ created
    BY <1>0, <2>1 DEF InUse, SocketInv, PortsInv, Creates
  <2>3. OpenOK(open) /\ DOMAIN open = V4!AppSockets
    BY <1>0, <2>2, ClosedAll
  <2> HIDE DEF open
  <2> QED BY <1>0, <2>1, <2>2, <2>3, GivesUp
<1>4. CASE V6!CreateEnds
  <2>1. /\ creating.stage = "setup" /\ created'
        /\ UNCHANGED <<ports, sock, myports, members, multicastgroups>>
        /\ creating' = [V4!NotCreating EXCEPT !.params = creating.params]
    BY <1>2, <1>4 DEF V6!CreateEnds, V6!V4!Finished, V6!V4!IsCreated
  <2>2. ~ created
    BY <1>0, <2>1 DEF Creates
  <2> QED BY <1>0, <2>1, <2>2, IsSetUp
<1>5. CASE V6!Destroy
  <2>1. /\ created /\ ~ created'
        /\ ports' = V4!CloseSockets /\ multicastgroups' = {}
        /\ members' = {m \in members : m[1] \in DOMAIN V4!CloseSockets}
        /\ UNCHANGED <<sock, myports, creating>>
    BY <1>2, <1>5 DEF V6!Destroy, V6!V4!Destroy, V6!V4!IsDestroyed, V6!V4!Empties
  <2>2. creating.stage = "no"
    BY <1>0, <2>1 DEF Creates
  <2> QED BY <1>0, <2>1, <2>2, ClosesAll
<1>6. CASE V6Groups
  <2>0. V6!V4!MySockets = V4!MySockets
    BY DEF V6!V4!MySockets, V4!MySockets
  <2>1. created /\ UNCHANGED <<created, ports, sock, myports, creating>>
    BY <1>6 DEF V6Groups, V6!JoinMulticastGroup, V6!V4!JoinMulticastGroup,
      V6!LeaveMulticastGroup, V6!V4!LeaveMulticastGroup, V6!LeaveAllMulticastGroups,
      V6!V4!LeaveAllMulticastGroups, V6!V4!basevars, V6!V4!butGroups
  <2>2. ASSUME NEW g \in Group,
               V6!JoinMulticastGroup(g) \/ V6!LeaveMulticastGroup(g)
        PROVE  SocketInv'
    <3>1. GroupStep(g)
      BY <2>0, <2>2 DEF V6!JoinMulticastGroup, V6!V4!JoinMulticastGroup,
        V6!LeaveMulticastGroup, V6!V4!LeaveMulticastGroup, V6!V4!Joins, V4!Joins,
        V6!V4!JoinFails, V4!JoinFails, GroupStep
    <3> QED BY <1>0, <2>1, <3>1, GroupSteps
  <2>3. CASE V6!LeaveAllMulticastGroups
    <3>1. /\ members' = members \ (V4!MySockets \X multicastgroups)
          /\ multicastgroups' = {}
      BY <2>0, <2>3 DEF V6!LeaveAllMulticastGroups, V6!V4!LeaveAllMulticastGroups
    <3>2. CASE Group = {}
      <4>1. UNCHANGED <<members, multicastgroups>>
        BY <3>1, <3>2 DEF SocketInv, MemberInv
      <4> QED BY <2>1, <4>1, NothingMoves
    <3>3. CASE Group # {}
      <4>1. PICK g \in Group : TRUE
        BY <3>3
      <4> QED BY <1>0, <2>1, <3>1, GroupSteps DEF GroupStep
    <3> QED BY <3>2, <3>3
  <2> QED BY <1>6, <2>2, <2>3 DEF V6Groups
<1>7. CASE \/ V6!DestroyEnds \/ V6Waits \/ V6Receives \/ V6!ChangesFilter \/ V6Names
  <2>1. UNCHANGED <<created, ports, sock, myports, creating, members, multicastgroups>>
    BY <1>7 DEF V6!DestroyEnds, V6!V4!DestroyEnds, V6!V4!DestroyReturns,
      V6!V4!udpvars, V6Waits, V6!WaitForIncomingData, V6!V4!WaitForIncomingData,
      V6!V4!StartsWaiting, V6!SelectWakes, V6!V4!SelectWakes, V6!V4!SelectReturns,
      V6!SelectEnds, V6!V4!SelectEnds, V6!V4!SelectTimesOut,
      V6!WaitReturns, V6!V4!WaitReturns, V6!V4!EndsWaiting,
      V6!AbortWait, V6!V4!AbortWait, V6!V4!AbortsWait, V6Receives,
      V6!Arrives, V6!V4!Arrives, V6!Poll, V6!GetNextPacket, V6!V4!GetNextPacket,
      V6!V4!TakesNext, V6!ChangesFilter, V6!SetReceiveMode, V6!AddToIgnoreList,
      V6!DeleteFromIgnoreList, V6!AddToAcceptList, V6!DeleteFromAcceptList,
      V6!ClearIgnoreList, V6!ClearAcceptList, V6!butFilter, V6!basevars, V6!udpvars,
      V6Names, V6!AddDestination, V6!V4!AddDestination, V6!DeleteDestination,
      V6!V4!DeleteDestination, V6!ClearDestinations, V6!V4!ClearDestinations,
      V6!V4!butLists, V6!GetLocalHostName, V6!V4!GetLocalHostName, V6!V4!basevars
  <2> QED BY <2>1, NothingMoves
<1> QED BY <1>1, <1>3, <1>4, <1>5, <1>6, <1>7 DEF V6Next

-----------------------------------------------------------------------------
(* Frames.                                                                 *)

\* A byte has a value; one of the data names its packet too.
Octet == [v : Nat] \cup [v : Nat, packet : Nat, at : Nat]
Octets == Seq(Octet)

\* What was read of a frame: not more than its length says, and the length is
\* there before any data.
FrameOK(d) ==
  /\ d \in [lengthBuffer : Octets, dataLength : Nat, data : Octets]
  /\ Len(d.lengthBuffer) \in 0..2 /\ Len(d.data) <= d.dataLength
  /\ IF Len(d.lengthBuffer) < 2 THEN d.dataLength = 0
     ELSE d.dataLength = TCP!Value(d.lengthBuffer)

\* Not more bytes are here than were sent.
StreamOK(in) ==
  /\ DOMAIN in = {"bytes", "here", "packets"}
  /\ in.bytes \in Octets /\ in.here \in 0..Len(in.bytes)

FramesInv ==
  /\ DOMAIN m_destSockets \subseteq Connection
  /\ m_destSockets = [s \in DOMAIN m_destSockets |-> m_destSockets[s]]
  /\ \A s \in DOMAIN m_destSockets : FrameOK(m_destSockets[s])
  /\ stream = [s \in Connection |-> stream[s]]
  /\ \A s \in Connection : StreamOK(stream[s])
  /\ m_tmpSocks \subseteq Connection /\ midframe \subseteq Connection

\* The smaller of two.
LEMMA Smaller ==
  ASSUME NEW a \in Nat, NEW b \in Nat
  PROVE  TCP!Min({a, b}) = IF a <= b THEN a ELSE b
<1>1. TCP!Min({a, b}) = CHOOSE x \in {a, b} : \A y \in {a, b} : x <= y
  BY DEF TCP!Min
<1>2. CASE a <= b
  BY <1>1, <1>2
<1>3. CASE b < a
  BY <1>1, <1>3
<1> QED BY <1>2, <1>3

\* What reading the bytes that are here makes of a frame, and how many it takes:
\* f of them for the length, and if there is no data yet, and g for the data.
TakesBytes(d, bytes, here, f, g) ==
  LET did == TCP!ProcessAvailableBytes(d, bytes, here)
      e == did.socketdata
  IN  /\ f + g <= here /\ did.read = f + g /\ (f = 0 \/ Len(d.data) = 0)
      /\ e.lengthBuffer = d.lengthBuffer \o SubSeq(bytes, 1, f)
      /\ e.data = d.data \o SubSeq(bytes, f + 1, f + g)
      /\ did.complete => /\ Len(e.lengthBuffer) = 2
                         /\ Len(e.data) = TCP!Value(e.lengthBuffer)

LEMMA FrameGoesOn ==
  ASSUME NEW d, FrameOK(d), NEW bytes \in Octets, NEW here \in 0..Len(bytes)
  PROVE  LET did == TCP!ProcessAvailableBytes(d, bytes, here)
         IN  /\ FrameOK(did.socketdata) /\ did.read \in 0..here
             /\ \E f, g \in Nat : TakesBytes(d, bytes, here, f, g)
<1> DEFINE forLength == TCP!Min({2 - Len(d.lengthBuffer), here})
           lengthBuffer == d.lengthBuffer \o SubSeq(bytes, 1, forLength)
           dataLength == IF Len(lengthBuffer) < 2 THEN 0 ELSE TCP!Value(lengthBuffer)
           forData == TCP!Min({dataLength - Len(d.data), here - forLength})
           data == d.data \o SubSeq(bytes, forLength + 1, forLength + forData)
           did == TCP!ProcessAvailableBytes(d, bytes, here)
<1>0. /\ d.lengthBuffer \in Octets /\ d.data \in Octets /\ d.dataLength \in Nat
      /\ Len(d.lengthBuffer) \in 0..2 /\ Len(d.data) \in Nat
      /\ Len(d.data) <= d.dataLength /\ Len(bytes) \in Nat /\ here \in Nat
  BY DEF FrameOK, Octets
<1>1. /\ did.read = forLength + forData
      /\ did.socketdata = [lengthBuffer |-> lengthBuffer, dataLength |-> dataLength,
                           data |-> data]
      /\ did.complete => Len(lengthBuffer) = 2 /\ forData = dataLength - Len(d.data)
  BY DEF TCP!ProcessAvailableBytes
<1> HIDE DEF did
<1>2. /\ forLength \in 0..here /\ forLength <= 2 - Len(d.lengthBuffer)
  <2> DEFINE n == Len(d.lengthBuffer)
  <2>1. n \in 0..2
    BY <1>0
  <2> HIDE DEF n
  <2>2. 2 - n \in Nat
    BY <2>1
  <2>3. forLength = IF 2 - n <= here THEN 2 - n ELSE here
    BY <1>0, <2>2, Smaller DEF n
  <2> HIDE DEF forLength
  <2>4. forLength \in 0..here /\ forLength <= 2 - n
    BY <1>0, <2>1, <2>3
  <2> QED BY <2>4 DEF n
<1> HIDE DEF forLength
<1>3. /\ SubSeq(bytes, 1, forLength) \in Octets
      /\ Len(SubSeq(bytes, 1, forLength)) = forLength
  BY <1>0, <1>2 DEF Octets
<1>4. /\ lengthBuffer \in Octets
      /\ Len(lengthBuffer) = Len(d.lengthBuffer) + forLength
      /\ Len(d.lengthBuffer) = 2 => lengthBuffer = d.lengthBuffer
  <2>1. lengthBuffer \in Octets /\ Len(lengthBuffer) = Len(d.lengthBuffer) + forLength
    BY <1>0, <1>3 DEF Octets
  <2>2. ASSUME Len(d.lengthBuffer) = 2 PROVE lengthBuffer = d.lengthBuffer
    <3>1. SubSeq(bytes, 1, forLength) = <<>>
      BY <1>0, <1>2, <1>3, <2>2, EmptySeq DEF Octets
    <3> QED BY <1>0, <3>1, ConcatEmptySeq DEF Octets
  <2> QED BY <2>1, <2>2
<1> HIDE DEF lengthBuffer
<1>5. dataLength \in Nat /\ Len(d.data) <= dataLength
  <2>1. CASE Len(lengthBuffer) < 2
    BY <1>0, <1>2, <1>4, <2>1 DEF FrameOK
  <2>2. CASE ~ (Len(lengthBuffer) < 2)
    <3>1. Len(lengthBuffer) = 2
      BY <1>0, <1>2, <1>4, <2>2
    <3>2. lengthBuffer[1].v \in Nat /\ lengthBuffer[2].v \in Nat
      <4>1. lengthBuffer[1] \in Octet /\ lengthBuffer[2] \in Octet
        <5>1. lengthBuffer \in [1..2 -> Octet]
          BY <1>4, <3>1, LenProperties DEF Octets
        <5> QED BY <5>1
      <4>2. \A o \in Octet : o.v \in Nat
        BY DEF Octet
      <4> QED BY <4>1, <4>2
    <3>3. Base \in Nat
      BY InstanceAssumption DEF TCP!FramesAssumption
    <3>4. TCP!Value(lengthBuffer) \in Nat
      <4>1. ASSUME NEW a \in Nat, NEW b \in Nat, NEW c \in Nat PROVE a * b + c \in Nat
        OBVIOUS
      <4> QED BY <3>2, <3>3, <4>1 DEF TCP!Value
    <3>5. Len(d.data) <= TCP!Value(lengthBuffer)
      <4>1. CASE Len(d.lengthBuffer) = 2
        BY <1>0, <1>4, <4>1 DEF FrameOK
      <4>2. CASE Len(d.lengthBuffer) # 2
        <5>1. d.dataLength = 0
          <6>1. Len(d.lengthBuffer) < 2
            <7>1. \A n \in 0..2 : n # 2 => n < 2
              OBVIOUS
            <7> QED BY <1>0, <4>2, <7>1
          <6> QED BY <6>1 DEF FrameOK
        <5>2. Len(d.data) = 0
          BY <1>0, <5>1
        <5> QED BY <3>4, <5>2
      <4> QED BY <4>1, <4>2
    <3> QED BY <2>2, <3>4, <3>5
  <2> QED BY <2>1, <2>2
<1>6. /\ Len(lengthBuffer) < 2 => dataLength = 0
      /\ ~ (Len(lengthBuffer) < 2) => dataLength = TCP!Value(lengthBuffer)
  OBVIOUS
<1> HIDE DEF dataLength
<1>7. forData \in 0..(here - forLength) /\ Len(d.data) + forData <= dataLength
  <2>1. dataLength - Len(d.data) \in Nat /\ here - forLength \in Nat
    BY <1>0, <1>2, <1>5
  <2>2. forData = IF dataLength - Len(d.data) <= here - forLength
                  THEN dataLength - Len(d.data) ELSE here - forLength
    BY <2>1, Smaller
  <2> HIDE DEF forData
  <2> DEFINE n == Len(d.data)
  <2>3. n \in Nat /\ n <= dataLength /\ dataLength \in Nat
        /\ forData = IF dataLength - n <= here - forLength
                     THEN dataLength - n ELSE here - forLength
    BY <1>0, <1>5, <2>2
  <2> HIDE DEF n
  <2>4. forData \in 0..(here - forLength) /\ n + forData <= dataLength
    BY <1>0, <1>2, <2>3
  <2> QED BY <2>4 DEF n
<1> HIDE DEF forData
<1>8. data \in Octets /\ Len(data) = Len(d.data) + forData
  <2>1. /\ SubSeq(bytes, forLength + 1, forLength + forData) \in Octets
        /\ Len(SubSeq(bytes, forLength + 1, forLength + forData)) = forData
    BY <1>0, <1>2, <1>7 DEF Octets
  <2> QED BY <1>0, <2>1 DEF Octets
<1> HIDE DEF data
<1>9. FrameOK(did.socketdata)
  BY <1>0, <1>1, <1>2, <1>4, <1>5, <1>6, <1>7, <1>8 DEF FrameOK
<1>10. did.read \in 0..here
  BY <1>0, <1>1, <1>2, <1>7
<1>11. ASSUME did.complete
       PROVE  Len(lengthBuffer) = 2 /\ Len(data) = TCP!Value(lengthBuffer)
  <2>1. Len(lengthBuffer) = 2 /\ forData = dataLength - Len(d.data)
    BY <1>1, <1>11
  <2>2. dataLength = TCP!Value(lengthBuffer)
    BY <1>6, <2>1
  <2>3. \A m, n, k \in Nat : n = k - m => m + n = k
    OBVIOUS
  <2>4. forData \in Nat
    BY <1>0, <1>2, <1>7
  <2> QED BY <1>0, <1>5, <1>8, <2>1, <2>2, <2>3, <2>4
<1>12. forLength = 0 \/ Len(d.data) = 0
  <2>1. CASE Len(d.lengthBuffer) = 2
    BY <1>0, <1>2, <2>1
  <2>2. CASE Len(d.lengthBuffer) # 2
    <3>1. \A n \in 0..2 : n # 2 => n < 2
      OBVIOUS
    <3>2. d.dataLength = 0
      BY <1>0, <2>2, <3>1 DEF FrameOK
    <3> QED BY <1>0, <3>2
  <2> QED BY <2>1, <2>2
<1>13. /\ forLength \in Nat /\ forData \in Nat /\ forLength + forData <= here
       /\ did.socketdata.lengthBuffer = d.lengthBuffer \o SubSeq(bytes, 1, forLength)
       /\ did.socketdata.data =
            d.data \o SubSeq(bytes, forLength + 1, forLength + forData)
  <2>1. forLength \in Nat /\ forData \in Nat /\ forLength + forData <= here
    BY <1>0, <1>2, <1>7
  <2>2. did.socketdata.lengthBuffer = lengthBuffer /\ did.socketdata.data = data
    BY <1>1
  <2> QED BY <2>1, <2>2 DEF lengthBuffer, data
<1>14. did.complete => /\ Len(did.socketdata.lengthBuffer) = 2
                       /\ Len(did.socketdata.data) = TCP!Value(did.socketdata.lengthBuffer)
  BY <1>1, <1>11
<1>15. TakesBytes(d, bytes, here, forLength, forData)
  BY <1>1, <1>12, <1>13, <1>14 DEF TakesBytes, did
<1> QED BY <1>9, <1>10, <1>13, <1>15 DEF did

\* A frame that was not begun.
LEMMA FrameBegins == FrameOK(TCP!NewSocketData)
<1>1. <<>> \in Octets /\ Len(<<>>) = 0
  BY DEF Octets
<1> QED BY <1>1 DEF FrameOK, TCP!NewSocketData

\* A destination's frame is another one.
LEMMA FrameChanges ==
  ASSUME FramesInv, NEW s \in Connection, NEW d, FrameOK(d),
         m_destSockets' = [t \in DOMAIN m_destSockets \cup {s} |->
                             IF t = s THEN d ELSE m_destSockets[t]]
  PROVE  /\ DOMAIN m_destSockets' \subseteq Connection
         /\ m_destSockets' = [t \in DOMAIN m_destSockets' |-> m_destSockets'[t]]
         /\ \A t \in DOMAIN m_destSockets' : FrameOK(m_destSockets'[t])
BY DEF FramesInv
\* The same for what is on its way.
LEMMA StreamChanges ==
  ASSUME FramesInv, NEW s \in Connection, NEW in, StreamOK(in),
         stream' = [stream EXCEPT ![s] = in]
  PROVE  /\ stream' = [t \in Connection |-> stream'[t]]
         /\ \A t \in Connection : StreamOK(stream'[t])
BY DEF FramesInv

\* What the steps of a TCP transmitter do to its frames.
LEMMA FrameSteps ==
  ASSUME FramesInv, TCPNext, arrived \in 0..MaxPackets
  PROVE  FramesInv'
<1>0. /\ DOMAIN m_destSockets \subseteq Connection
      /\ m_tmpSocks \subseteq Connection /\ midframe \subseteq Connection
      /\ \A s \in DOMAIN m_destSockets : FrameOK(m_destSockets[s])
      /\ \A s \in Connection : StreamOK(stream[s])
      /\ TCP!Destinations = DOMAIN m_destSockets
  BY DEF FramesInv, TCP!Destinations
<1>1. ASSUME UNCHANGED <<m_destSockets, stream, midframe>>,
             m_tmpSocks' \subseteq Connection
      PROVE  FramesInv'
  BY <1>1 DEF FramesInv
<1>2. ASSUME NEW ss \in SUBSET DOMAIN m_destSockets, TCP!Forgets(ss),
             UNCHANGED <<m_tmpSocks, stream>>
      PROVE  FramesInv'
  BY <1>2 DEF FramesInv, TCP!Forgets, TCP!Destinations
<1>3. CASE TCP!DestroyEnds \/ TCP!GetNextPacket \/ TCPWaits
           \/ \E own \in BOOLEAN : TCP!Create(own)
  <2>1. UNCHANGED <<m_destSockets, stream, midframe>>
        /\ m_tmpSocks' \in {m_tmpSocks, TCP!Destinations}
    BY <1>3 DEF TCP!Create, TCP!DestroyEnds, TCP!GetNextPacket, TCPWaits,
      TCP!WaitForIncomingData, TCP!SelectWakes, TCP!SelectEnds, TCP!WaitReturns,
      TCP!AbortWait, TCP!tcpvars
  <2> QED BY <1>0, <1>1, <2>1
<1>4. CASE TCP!Destroy \/ TCP!ClearDestinations
           \/ \E s \in Connection : TCP!DeleteDestination(s)
  <2>1. \E ss \in SUBSET DOMAIN m_destSockets : TCP!Forgets(ss)
    BY <1>0, <1>4 DEF TCP!Destroy, TCP!ClearDestinations, TCP!DeleteDestination
  <2>2. UNCHANGED <<m_tmpSocks, stream>>
    BY <1>4 DEF TCP!Destroy, TCP!ClearDestinations, TCP!DeleteDestination
  <2> QED BY <1>2, <2>1, <2>2
<1>5. ASSUME NEW s \in Connection, TCP!AddDestination(s) PROVE FramesInv'
  <2>1. /\ m_destSockets' = [t \in DOMAIN m_destSockets \cup {s} |->
                               IF t = s THEN TCP!NewSocketData ELSE m_destSockets[t]]
        /\ UNCHANGED <<m_tmpSocks, stream, midframe>>
    BY <1>5 DEF TCP!AddDestination, TCP!Destinations
  <2> QED BY <1>0, <2>1, FrameBegins, FrameChanges DEF FramesInv
<1>6. ASSUME NEW s \in Connection, TCP!BytesArrive(s) PROVE FramesInv'
  <2>1. PICK n \in (stream[s].here + 1)..Len(stream[s].bytes) :
          stream' = [stream EXCEPT ![s].here = n]
    BY <1>6 DEF TCP!BytesArrive
  <2> DEFINE in == [stream[s] EXCEPT !.here = n]
  <2>2. stream' = [stream EXCEPT ![s] = in]
    BY <2>1
  <2>3. StreamOK(in)
    <3>1. StreamOK(stream[s])
      BY <1>0
    <3>2. stream[s].here \in Nat /\ Len(stream[s].bytes) \in Nat
      BY <3>1 DEF StreamOK, Octets
    <3>3. n \in 0..Len(stream[s].bytes)
      BY <2>1, <3>2
    <3> QED BY <3>1, <3>3 DEF StreamOK
  <2>4. UNCHANGED <<m_destSockets, m_tmpSocks, midframe>>
    BY <1>6 DEF TCP!BytesArrive
  <2> HIDE DEF in
  <2> QED BY <2>2, <2>3, <2>4, StreamChanges DEF FramesInv
<1>7. ASSUME NEW s \in Connection, NEW len \in 0..MaxLength, TCP!PeerSends(s, len)
      PROVE  FramesInv'
  <2> DEFINE data == [i \in 1..len |-> [v |-> 0, packet |-> arrived + 1, at |-> i]]
             sent == stream[s].bytes \o TCP!Frame(data)
             in == [stream[s] EXCEPT !.bytes = sent, !.packets = Append(@, data)]
  <2>1. /\ stream' = [stream EXCEPT ![s] = in]
        /\ UNCHANGED <<m_destSockets, m_tmpSocks, midframe>>
    BY <1>7 DEF TCP!PeerSends
  <2>2. MaxLength \in Nat /\ Base \in Nat \ {0} /\ MaxPackets \in Nat
    BY InstanceAssumption DEF TCP!FramesAssumption
  <2>3. data \in Octets /\ Len(data) = len
    <3>1. \A i \in 1..len : [v |-> 0, packet |-> arrived + 1, at |-> i] \in Octet
      BY <2>2 DEF Octet
    <3> QED BY <2>2, <3>1 DEF Octets
  <2> HIDE DEF data
  <2>4. TCP!Frame(data) \in Octets
    <3>1. len \div Base \in Nat /\ len % Base \in Nat
      BY <2>2
    <3>2. [v |-> len \div Base] \in Octet /\ [v |-> len % Base] \in Octet
      BY <3>1 DEF Octet
    <3>3. <<[v |-> len \div Base], [v |-> len % Base]>> \in Octets
      BY <3>2 DEF Octets
    <3> QED BY <2>3, <3>3 DEF TCP!Frame, Octets
  <2>5. StreamOK(stream[s])
    BY <1>0
  <2>6. sent \in Octets /\ Len(sent) = Len(stream[s].bytes) + Len(TCP!Frame(data))
        /\ Len(TCP!Frame(data)) \in Nat /\ Len(stream[s].bytes) \in Nat
    <3>1. stream[s].bytes \in Octets
      BY <2>5 DEF StreamOK
    <3> HIDE DEF Octet
    <3> QED BY <2>4, <3>1, ConcatProperties, LenProperties DEF Octets
  <2> HIDE DEF sent
  <2>7. StreamOK(in)
    <3>1. stream[s].here \in 0..Len(sent)
      BY <2>5, <2>6 DEF StreamOK
    <3> QED BY <2>5, <2>6, <3>1 DEF StreamOK
  <2> HIDE DEF in
  <2> QED BY <2>1, <2>7, StreamChanges DEF FramesInv
<1>8. ASSUME NEW s \in Connection, TCP!PollSocket(s) PROVE FramesInv'
  <2> DEFINE in == stream[s]
             d == m_destSockets[s]
             did == TCP!ProcessAvailableBytes(d, in.bytes, in.here)
             rest == [in EXCEPT !.bytes = SubSeq(@, did.read + 1, Len(@)),
                                !.here = @ - did.read]
  <2>1. s \in DOMAIN m_destSockets /\ FrameOK(d) /\ StreamOK(in)
    BY <1>0, <1>8 DEF TCP!PollSocket
  <2>2. FrameOK(did.socketdata) /\ did.read \in 0..in.here
    BY <2>1, FrameGoesOn DEF StreamOK
  <2>3. UNCHANGED <<m_tmpSocks, midframe>>
        /\ \/ /\ m_destSockets' = [m_destSockets EXCEPT ![s] = TCP!NewSocketData]
              /\ stream' = [stream EXCEPT ![s] = [rest EXCEPT !.packets = Tail(@)]]
           \/ /\ m_destSockets' = [m_destSockets EXCEPT ![s] = did.socketdata]
              /\ stream' = [stream EXCEPT ![s] = rest]
    BY <1>8 DEF TCP!PollSocket
  <2> HIDE DEF did
  <2>4. StreamOK(rest) /\ StreamOK([rest EXCEPT !.packets = Tail(@)])
    <3>1. PICK here \in Nat : here = in.here
      BY <2>1 DEF StreamOK, Octets
    <3>2. PICK read \in 0..here : read = did.read
      BY <2>2, <3>1
    <3>3. PICK n \in Nat : n = Len(in.bytes) /\ here <= n
      BY <2>1, <3>1 DEF StreamOK, Octets
    <3> DEFINE left == SubSeq(in.bytes, read + 1, n)
    <3>4. left \in Octets /\ Len(left) = n - read
      BY <2>1, <3>3 DEF StreamOK, Octets
    <3>5. here - read \in 0..Len(left)
      BY <3>3, <3>4
    <3>6. rest = [in EXCEPT !.bytes = left, !.here = here - read]
      BY <3>1, <3>2, <3>3
    <3> HIDE DEF left, rest
    <3>7. DOMAIN rest = {"bytes", "here", "packets"} /\ rest.bytes = left
          /\ rest.here = here - read
      BY <2>1, <3>6 DEF StreamOK
    <3> QED BY <3>4, <3>5, <3>7 DEF StreamOK
  <2> HIDE DEF rest
  <2>5. \E e \in {TCP!NewSocketData, did.socketdata} :
          m_destSockets' = [m_destSockets EXCEPT ![s] = e]
    BY <2>3
  <2>6. PICK e \in {TCP!NewSocketData, did.socketdata} :
          m_destSockets' = [t \in DOMAIN m_destSockets \cup {s} |->
                              IF t = s THEN e ELSE m_destSockets[t]]
    BY <2>1, <2>5
  <2>7. FrameOK(e)
    BY <2>2, FrameBegins
  <2>8. PICK on \in {rest, [rest EXCEPT !.packets = Tail(@)]} :
          stream' = [stream EXCEPT ![s] = on]
    BY <2>3
  <2>9. StreamOK(on)
    BY <2>4
  <2> QED BY <2>3, <2>6, <2>7, <2>8, <2>9, FrameChanges, StreamChanges DEF FramesInv
<1>9. \A len \in IF part = "waits" THEN {0} ELSE 0..MaxLength : len \in 0..MaxLength
  BY InstanceAssumption DEF TCP!FramesAssumption
<1> QED BY <1>3, <1>4, <1>5, <1>6, <1>7, <1>8, <1>9 DEF TCPNext

-----------------------------------------------------------------------------
(* What else the transmitters keep.                                        *)

DataInv ==
  /\ arrived \in 0..MaxPackets
  /\ DOMAIN inbox = {"rtp", "rtcp"}
  /\ V4!ToldEnough
  /\ m_abortCount \in 0..(MaxAborts + 1)
  /\ ~ UDP => ~ sock.own

\* A packet arrives or not, and a host name is found, told or forgotten.
DataStep ==
  /\ arrived' = arrived \/ (arrived < MaxPackets /\ arrived' = arrived + 1)
  /\ \/ UNCHANGED hostname
     \/ hostname' = [name |-> 0, told |-> 0]
     \/ \E name, told : /\ hostname' = [name |-> name, told |-> told]
                        /\ told = name \/ told = hostname.told
                        /\ hostname.name # 0 => name = hostname.name

\* No such step breaks it, with an inbox and a count of signals that are right.
LEMMA DataGoesOn ==
  ASSUME DataInv, DataStep, kind' = kind, UDP \/ UNCHANGED sock,
         DOMAIN inbox' = {"rtp", "rtcp"}, m_abortCount' \in 0..(MaxAborts + 1)
  PROVE  DataInv'
<1>1. arrived' \in 0..MaxPackets
  <2>1. MaxPackets \in Nat
    BY InstanceAssumption DEF V4!PortsAssumption
  <2> QED BY <2>1 DEF DataInv, DataStep
<1>2. V4!ToldEnough'
  BY DEF DataInv, DataStep, V4!ToldEnough
<1> QED BY <1>1, <1>2 DEF DataInv, UDP

\* Over IPv4.
LEMMA V4DataSteps ==
  ASSUME V4Next
  PROVE  DataStep
<1>1. ASSUME NEW params, V4!Create(params) PROVE DataStep
  BY <1>1 DEF V4!Create, V4!CreateBegins, V4!CreateWithSockets, V4!CreateOnPort,
              V4!butCreate, DataStep
<1>2. CASE V4!CreateGoesOn
  BY <1>2 DEF V4!CreateGoesOn, V4!GetAutoSockets, V4!GetAutoSocketsFails,
              V4!CreateGivesUp, V4!butCreate, V4!CreateEnds, V4!Finished,
              V4!NoHostName, DataStep
<1>3. CASE V4!Destroy \/ V4!DestroyEnds
  BY <1>3 DEF V4!Destroy, V4!Empties, V4!NoHostName, V4!DestroyEnds, V4!udpvars,
              DataStep
<1>4. CASE V4Waits
  BY <1>4 DEF V4Waits, V4!WaitForIncomingData, V4!SelectWakes, V4!SelectEnds,
              V4!WaitReturns, V4!AbortWait, V4!udpvars, DataStep
<1>5. CASE V4Receives \/ V4!ChangesFilter
  BY <1>5 DEF V4Receives, V4!Arrives, V4!Poll, V4!GetNextPacket, V4!ChangesFilter,
              V4!udpvars, DataStep
<1>6. CASE V4Groups
  BY <1>6 DEF V4Groups, V4!JoinMulticastGroup, V4!LeaveMulticastGroup,
              V4!LeaveAllMulticastGroups, V4!butGroups, DataStep
<1>7. CASE V4Names
  BY <1>7 DEF V4Names, V4!AddDestination, V4!DeleteDestination,
              V4!ClearDestinations, V4!butLists, V4!GetLocalHostName, DataStep
<1> QED BY <1>1, <1>2, <1>3, <1>4, <1>5, <1>6, <1>7 DEF V4Next

\* Over IPv6.
LEMMA V6DataSteps ==
  ASSUME V6Next
  PROVE  DataStep
<1>1. ASSUME NEW params, V6!Create(params) PROVE DataStep
  BY <1>1 DEF V6!Create, DataStep
<1>2. CASE V6!CreateEnds \/ V6!CreateGivesUp
  BY <1>2 DEF V6!CreateGivesUp, V6!V4!CreateGivesUp, V6!V4!butCreate, V6!CreateEnds,
              V6!V4!Finished, V6!V4!NoHostName, DataStep
<1>3. CASE V6!Destroy \/ V6!DestroyEnds
  BY <1>3 DEF V6!Destroy, V6!V4!Destroy, V6!V4!Empties, V6!V4!NoHostName,
              V6!DestroyEnds, V6!V4!DestroyEnds, V6!V4!udpvars, DataStep
<1>4. CASE V6Waits
  BY <1>4 DEF V6Waits, V6!WaitForIncomingData, V6!V4!WaitForIncomingData,
              V6!SelectWakes, V6!V4!SelectWakes, V6!SelectEnds, V6!V4!SelectEnds,
              V6!WaitReturns, V6!V4!WaitReturns, V6!AbortWait, V6!V4!AbortWait,
              V6!V4!udpvars, DataStep
<1>5. CASE V6Receives
  BY <1>5 DEF V6Receives, V6!Arrives, V6!V4!Arrives, V6!Poll, V6!GetNextPacket,
              V6!V4!GetNextPacket, V6!V4!udpvars, DataStep
<1>6. CASE V6!ChangesFilter
  BY <1>6 DEF V6!ChangesFilter, V6!SetReceiveMode, V6!AddToIgnoreList,
              V6!DeleteFromIgnoreList, V6!AddToAcceptList, V6!DeleteFromAcceptList,
              V6!ClearIgnoreList, V6!ClearAcceptList, V6!butFilter, V6!udpvars,
              DataStep
<1>7. CASE V6Groups
  BY <1>7 DEF V6Groups, V6!JoinMulticastGroup, V6!V4!JoinMulticastGroup,
              V6!LeaveMulticastGroup, V6!V4!LeaveMulticastGroup,
              V6!LeaveAllMulticastGroups, V6!V4!LeaveAllMulticastGroups,
              V6!V4!butGroups, DataStep
<1>8. CASE V6Names
  BY <1>8 DEF V6Names, V6!AddDestination, V6!V4!AddDestination,
              V6!DeleteDestination, V6!V4!DeleteDestination, V6!ClearDestinations,
              V6!V4!ClearDestinations, V6!V4!butLists, V6!GetLocalHostName,
              V6!V4!GetLocalHostName, DataStep
<1> QED BY <1>1, <1>2, <1>3, <1>4, <1>5, <1>6, <1>7, <1>8 DEF V6Next

\* A fake transmitter has no sockets.
LEMMA FakeDataSteps ==
  ASSUME FakeNext
  PROVE  /\ DataStep /\ UNCHANGED <<ports, sock, myports, creating, members>>
         /\ multicastgroups' \in {multicastgroups, {}}
<1> USE DEF DataStep
<1>1. ASSUME NEW params, Fake!Create(params)
      PROVE  /\ DataStep
             /\ UNCHANGED <<ports, sock, myports, creating, members, multicastgroups>>
  BY <1>1 DEF Fake!Create, Fake!V4!NoHostName
<1>2. CASE Fake!Destroy
  BY <1>2 DEF Fake!Destroy, Fake!V4!Empties, Fake!V4!NoHostName
<1>3. CASE FakeReceives
  BY <1>3 DEF FakeReceives, Fake!SetCurrentData, Fake!ForgetCurrentData, Fake!Poll,
              Fake!GetNextPacket, Fake!V4!GetNextPacket, Fake!V4!udpvars
<1>4. CASE Fake!ChangesFilter
  BY <1>4 DEF Fake!ChangesFilter, Fake!SetReceiveMode, Fake!AddToIgnoreList,
              Fake!DeleteFromIgnoreList, Fake!AddToAcceptList,
              Fake!DeleteFromAcceptList, Fake!ClearIgnoreList,
              Fake!ClearAcceptList, Fake!butFilter, Fake!udpvars
<1>5. CASE FakeNames
  BY <1>5 DEF FakeNames, Fake!AddDestination, Fake!V4!AddDestination,
              Fake!DeleteDestination, Fake!V4!DeleteDestination,
              Fake!ClearDestinations, Fake!V4!ClearDestinations,
              Fake!V4!butLists, Fake!GetLocalHostName, Fake!V4!GetLocalHostName
<1> QED BY <1>1, <1>2, <1>3, <1>4, <1>5 DEF FakeNext

\* What the peers send.
LEMMA TCPDataSteps ==
  ASSUME TCPNext, UNCHANGED hostname
  PROVE  DataStep
BY DEF TCPNext, TCP!Create, TCP!Destroy, TCP!DestroyEnds, TCP!GetNextPacket,
       TCP!ClearDestinations, TCPWaits, TCP!WaitForIncomingData, TCP!SelectWakes,
       TCP!SelectEnds, TCP!WaitReturns, TCP!AbortWait, TCP!tcpvars,
       TCP!AddDestination, TCP!DeleteDestination, TCP!PollSocket, TCP!BytesArrive,
       TCP!PeerSends, DataStep

\* What is injected.
LEMMA ExternalDataSteps ==
  ASSUME ExternalNext, UNCHANGED hostname
  PROVE  DataStep
BY DEF ExternalNext, External!Create, External!Destroy, External!DestroyEnds,
       External!WaitForIncomingData, External!SelectWakes, External!SelectEnds,
       External!WaitReturns, External!AbortWait, External!Inject,
       External!GetNextPacket, External!extvars, DataStep

-----------------------------------------------------------------------------
(* All of it together.                                                     *)

\* The inductive invariant of SocketsInOrder.
OrderInv == WaitInv /\ CleanInv /\ SocketInv /\ FramesInv /\ DataInv

\* It holds when nothing but the application's sockets is there.
LEMMA OrderBegins ==
  ASSUME Init
  PROVE  OrderInv
<1>0. MaxPort \in Nat /\ MaxPort > 3 /\ MaxAttempts \in Nat /\ MaxPackets \in Nat
      /\ MaxAborts \in Nat
  BY InstanceAssumption, AbortsAssumption DEF V4!PortsAssumption
<1>1. WaitInv /\ CleanInv
  BY WaitsBegin, CleanAtFirst
<1>2. /\ created = FALSE /\ ports = [s \in {1, 2} |-> MaxPort - s]
      /\ sock = [rtp |-> 0, rtcp |-> 0, own |-> FALSE]
      /\ creating.stage = "no" /\ creating.attempts = 0 /\ creating.toclose = {}
      /\ members = {} /\ multicastgroups = {} /\ hostname.told = 0
      /\ DOMAIN inbox = {"rtp", "rtcp"} /\ arrived = 0 /\ m_abortCount = 0
  BY DEF Init, V4!Init, V4!TransmitterInit, V4!AppSockets, V4!NoSocket, V4!NotCreating,
         V4!NoHostName, V4!Channel, External!Init
<1>3. SocketInv
  <2>1. IsFiniteSet({1, 2})
    <3>1. IsFiniteSet({1})
      BY FS_Singleton
    <3>2. {1, 2} = {1} \cup {2}
      OBVIOUS
    <3> QED BY <3>1, <3>2, FS_AddElement
  <2>2. OpenOK(ports) /\ DOMAIN ports = V4!AppSockets
    BY <1>0, <1>2, <2>1 DEF OpenOK, V4!AppSockets
  <2>3. PortsInv
    BY <1>0, <1>2, <2>2 DEF PortsInv, V4!SocketsAccountedFor
  <2>4. UseInv
    BY <1>2 DEF UseInv, InUse
  <2>5. MemberInv
    BY <1>2 DEF MemberInv, V4!MembershipsMatch
  <2> QED BY <2>3, <2>4, <2>5 DEF SocketInv
<1>4. FramesInv
  <2>1. /\ m_destSockets = [s \in {} |-> TCP!NewSocketData]
        /\ m_tmpSocks = {} /\ midframe = {}
        /\ stream = [s \in Connection |->
                       [bytes |-> <<>>, here |-> 0, packets |-> <<>>]]
    BY DEF Init, TCP!Init
  <2>2. StreamOK([bytes |-> <<>>, here |-> 0, packets |-> <<>>])
    <3>1. <<>> \in Octets /\ Len(<<>>) = 0
      BY DEF Octets
    <3> QED BY <3>1 DEF StreamOK
  <2> QED BY <2>1, <2>2 DEF FramesInv
<1>5. DataInv
  BY <1>0, <1>2 DEF DataInv, V4!ToldEnough
<1> QED BY <1>1, <1>3, <1>4, <1>5 DEF OrderInv

\* Transmitters that have no sockets of their own.
LEMMA NoSockets ==
  ASSUME SocketInv, DataInv, ~ UDP, kind' = kind,
         UNCHANGED <<ports, sock, myports, creating, members>>,
         multicastgroups' \in {multicastgroups, {}}
  PROVE  SocketInv'
<1>1. ~ UDP' /\ ~ sock.own
  BY DEF UDP, DataInv
<1>2. PortsInv'
  BY <1>1 DEF SocketInv, PortsInv, V4!SocketsAccountedFor
<1>3. UseInv' /\ MemberInv'
  BY <1>1 DEF SocketInv, UseInv, MemberInv
<1> QED BY <1>2, <1>3 DEF SocketInv

\* Every step of any transmitter.
LEMMA OrderGoesOn ==
  ASSUME OrderInv, [Next]_vars
  PROVE  OrderInv'
<1> USE DEF OrderInv
<1>1. WaitInv' /\ CleanInv'
  BY WaitsGoOn, CleanGoesOn
<1>2. ASSUME Filters' PROVE DOMAIN inbox' = {"rtp", "rtcp"}
  BY <1>1, <1>2 DEF CleanInv, Inboxes
<1>3. ASSUME UNCHANGED butUDP
      PROVE  FramesInv' /\ m_abortCount' \in 0..(MaxAborts + 1)
  BY <1>3 DEF butUDP, FramesInv, DataInv
<1>4. CASE kind = "v4" /\ V4Next /\ UNCHANGED <<butUDP, kind, part>>
  <2>1. UDP /\ Filters' /\ kind' = kind
    BY <1>4 DEF UDP, Filters
  <2>2. DataInv'
    BY <1>2, <1>3, <1>4, <2>1, V4DataSteps, DataGoesOn
  <2> QED BY <1>1, <1>3, <1>4, <2>2, V4SocketSteps
<1>5. CASE kind = "v6" /\ V6Next /\ UNCHANGED <<butUDP, kind, part>>
  <2>1. UDP /\ Filters' /\ kind' = kind
    BY <1>5 DEF UDP, Filters
  <2>2. DataInv'
    BY <1>2, <1>3, <1>5, <2>1, V6DataSteps, DataGoesOn
  <2> QED BY <1>1, <1>3, <1>5, <2>2, V6SocketSteps
<1>6. CASE kind = "fake" /\ FakeNext /\ UNCHANGED <<butUDP, kind, part>>
  <2>1. ~ UDP /\ Filters' /\ kind' = kind
    BY <1>6 DEF UDP, Filters
  <2>2. DataStep /\ UNCHANGED <<ports, sock, myports, creating, members>>
        /\ multicastgroups' \in {multicastgroups, {}}
    BY <1>6, FakeDataSteps
  <2>3. DataInv'
    BY <1>2, <1>3, <1>6, <2>1, <2>2, DataGoesOn
  <2>4. SocketInv'
    BY <2>1, <2>2, NoSockets
  <2> QED BY <1>1, <1>3, <1>6, <2>3, <2>4
<1>7. CASE kind = "tcp" /\ TCPNext /\ UNCHANGED <<butTCP, kind, part>>
  <2>1. /\ ~ UDP /\ kind' = kind
        /\ UNCHANGED <<ports, sock, myports, creating, members, multicastgroups, inbox,
                       hostname, m_abortCount>>
    BY <1>7 DEF UDP, butTCP
  <2>2. SocketInv'
    BY <2>1, NoSockets
  <2>3. FramesInv'
    BY <1>7, FrameSteps DEF DataInv
  <2>4. DOMAIN inbox' = {"rtp", "rtcp"} /\ m_abortCount' \in 0..(MaxAborts + 1)
    BY <2>1 DEF DataInv
  <2>5. DataInv'
    BY <1>7, <2>1, <2>4, TCPDataSteps, DataGoesOn
  <2> QED BY <1>1, <2>2, <2>3, <2>5
<1>8. CASE kind = "external" /\ ExternalNext /\ UNCHANGED <<butExternal, kind, part>>
  <2>1. /\ ~ UDP /\ kind' = kind
        /\ UNCHANGED <<ports, sock, myports, creating, members, multicastgroups, inbox,
                       hostname, m_destSockets, m_tmpSocks, stream, midframe>>
    BY <1>8 DEF UDP, butExternal
  <2>2. SocketInv'
    BY <2>1, NoSockets
  <2>3. FramesInv'
    BY <2>1 DEF FramesInv
  <2>4. DOMAIN inbox' = {"rtp", "rtcp"} /\ m_abortCount' \in 0..(MaxAborts + 1)
    BY <1>1, <1>8, <2>1 DEF DataInv, WaitInv, Counts
  <2>5. DataInv'
    BY <1>8, <2>1, <2>4, ExternalDataSteps, DataGoesOn
  <2> QED BY <1>1, <2>2, <2>3, <2>5
<1>9. CASE UNCHANGED vars
  <2>1. UNCHANGED <<created, ports, sock, myports, creating, members, multicastgroups,
                    kind, inbox, hostname, arrived, butUDP>>
    BY <1>9 DEF vars, basevars, V4!udpvars
  <2>2. SocketInv'
    BY <2>1, NothingMoves
  <2>3. DataInv'
    BY <2>1 DEF DataInv, V4!ToldEnough, butUDP, UDP
  <2> QED BY <1>1, <1>3, <2>1, <2>2, <2>3
<1> QED BY <1>4, <1>5, <1>6, <1>7, <1>8, <1>9 DEF Next

\* What the invariant says of the runs' properties.
LEMMA OrderImplies ==
  ASSUME OrderInv
  PROVE  SocketsInOrder
<1> USE DEF OrderInv
<1>1. TransmitterTypeOK /\ FilterTypeOK
  BY DEF WaitInv, Life, TransmitterTypeOK, CleanInv, FilterInvariant
<1>2. V4!UDPTypeOK
  <2>1. \A s \in DOMAIN ports : ports[s] \in 0..MaxPort
    BY DEF SocketInv, PortsInv, OpenOK
  <2>2. creating.toclose \subseteq DOMAIN ports /\ DOMAIN sock = {"rtp", "rtcp", "own"}
    BY DEF SocketInv, PortsInv, V4!SocketsAccountedFor
  <2> QED BY <2>1, <2>2 DEF V4!UDPTypeOK, V4!Channel, SocketInv, PortsInv, MemberInv,
                            DataInv
<1>3. TCP!TCPTypeOK
  <2>1. \A s \in DOMAIN m_destSockets :
          Len(m_destSockets[s].lengthBuffer) <= 2
          /\ Len(m_destSockets[s].data) <= m_destSockets[s].dataLength
    <3> SUFFICES ASSUME NEW s \in DOMAIN m_destSockets
                 PROVE  /\ Len(m_destSockets[s].lengthBuffer) <= 2
                        /\ Len(m_destSockets[s].data) <= m_destSockets[s].dataLength
      OBVIOUS
    <3>1. FrameOK(m_destSockets[s])
      BY DEF FramesInv
    <3>2. \A n \in 0..2 : n <= 2
      OBVIOUS
    <3> QED BY <3>1, <3>2 DEF FrameOK
  <2>2. \A s \in Connection : stream[s].here <= Len(stream[s].bytes)
    <3> SUFFICES ASSUME NEW s \in Connection
                 PROVE  stream[s].here <= Len(stream[s].bytes)
      OBVIOUS
    <3>1. StreamOK(stream[s])
      BY DEF FramesInv
    <3>2. Len(stream[s].bytes) \in Nat
      BY <3>1 DEF StreamOK, Octets
    <3> QED BY <3>1, <3>2 DEF StreamOK
  <2> QED BY <2>1, <2>2 DEF TCP!TCPTypeOK, TCP!Destinations, FramesInv, DataInv
<1>4. External!ExternalTypeOK
  BY DEF External!ExternalTypeOK, DataInv
<1>5. ASSUME UDP
      PROVE  /\ V4!SocketsAccountedFor /\ V4!AutoPortsPaired
             /\ V4!KnowsItself /\ V4!MembershipsMatch
  <2>1. V4!SocketsAccountedFor /\ V4!MembershipsMatch
    BY <1>5 DEF SocketInv, PortsInv, MemberInv
  <2>2. V4!AutoPortsPaired
    BY <1>5 DEF SocketInv, UseInv, InUse, Paired, V4!AutoPortsPaired
  <2>3. ASSUME created
        PROVE  \A c \in V4!Channel : ports[sock[c]] \in {myports.rtp, myports.rtcp}
    BY <1>5, <2>3 DEF SocketInv, UseInv, InUse, V4!Channel
  <2>4. V4!KnowsItself
    BY <2>3 DEF V4!KnowsItself, V4!ComesFromThisTransmitter
  <2> QED BY <2>1, <2>2, <2>4
<1> QED BY <1>1, <1>2, <1>3, <1>4, <1>5 DEF SocketsInOrder, TypeOK, DataInv

\* For any number of ports, attempts, groups, connections, packets and bytes:
\* no socket leaks and none is used that is closed, whatever step of Create
\* fails; automatic ports are an even one and the next; the transmitter knows
\* its own addresses and is a member of the groups it names.
THEOREM AlwaysInOrder == Spec => []SocketsInOrder
<1>1. Init => OrderInv
  BY OrderBegins
<1>2. OrderInv /\ [Next]_vars => OrderInv'
  BY OrderGoesOn
<1>3. OrderInv => SocketsInOrder
  BY OrderImplies
<1> QED BY <1>1, <1>2, <1>3, PTL DEF Spec

=============================================================================
