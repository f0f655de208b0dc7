--------------------------- MODULE MCTransmitters ---------------------------
(***************************************************************************)
(* Each of the transmitters in turn, as the application and the poll       *)
(* thread of a session use it.  For the UDP ones and the fake one a        *)
(* behaviour shows one part of their operations, next to Create and        *)
(* Destroy: the others touch none of the same state.                       *)
(***************************************************************************)
EXTENDS RTPTransmitter, ReceiveFilter

CONSTANTS
  MaxPort, MaxAttempts, Group, MaxPackets, Connection, Base, MaxLength,
  Source  \* where packets come from

VARIABLES
  ports, sock, myports, creating, inbox, members, multicastgroups, destinations,
  localIPs, hostname, arrived, m_destSockets, m_tmpSocks, stream, midframe,
  m_abortCount,
  kind,  \* which transmitter
  part   \* which part of its operations

V4 == INSTANCE RTPUDPv4Transmitter
V6 == INSTANCE RTPUDPv6Transmitter
Fake == INSTANCE RTPFakeTransmitter
TCP == INSTANCE RTPTCPTransmitter
External == INSTANCE RTPExternalTransmitter

ASSUME InstanceAssumption ==
  /\ V4!PortsAssumption /\ TCP!FramesAssumption
  /\ Connection \cap {"rtp", "rtcp", "injector", "abort"} = {}
  /\ Source \subseteq Host \X Port

basevars == <<created, destroying, waiter, abort, rawpacketlist, taken>>
butUDP == <<m_destSockets, m_tmpSocks, stream, midframe, m_abortCount>>
butTCP == <<fvars, ports, sock, myports, creating, inbox, members,
            multicastgroups, destinations, localIPs, hostname, m_abortCount>>
butExternal == <<fvars, ports, sock, myports, creating, inbox, members,
                 multicastgroups, destinations, localIPs, hostname,
                 m_destSockets, m_tmpSocks, stream, midframe>>
vars == <<basevars, V4!udpvars, fvars, butUDP, kind, part>>

Init ==
  /\ V4!Init /\ TCP!Init /\ External!Init
  /\ kind \in {"v4", "v6", "fake", "tcp", "external"}
  /\ part \in CASE kind \in {"v4", "v6"} ->
                    {"sockets", "groups", "names", "waits", "filter"}
              [] kind = "fake" -> {"names", "filter"}
              [] kind = "tcp" -> {"waits", "frames"}
              [] OTHER -> {"waits"}

-----------------------------------------------------------------------------
\* The parameters of Create, with a choice for some of them.
Params(existing, portbase, rtcpport, mux, odd) ==
  [existing : existing, portbase : portbase, rtcpport : rtcpport, mux : mux,
   odd : odd, ips : {{}}, ownabort : {TRUE}]
OnPort(portbase) == Params({{}}, portbase, {0}, {FALSE}, {FALSE})
AppIPs == {[params EXCEPT !.ips = Host] : params \in OnPort({2})}
AppPipe == {[params EXCEPT !.ownabort = FALSE] :
              params \in Params({{1, 2}}, {0}, {0}, {FALSE}, {FALSE})}

\* On a fixed port, next to a taken one, at the very top, odd, with a port for
\* RTCP, multiplexed; automatic ports; the application's sockets, one or two.
V4Params ==
  Params({{}}, {2, MaxPort - 3, MaxPort}, {0}, BOOLEAN, BOOLEAN) \cup
  Params({{}}, {2}, {1}, {FALSE}, {FALSE}) \cup AppIPs \cup
  Params({{}}, {0}, {0}, BOOLEAN, BOOLEAN) \cup
  Params((SUBSET V4!AppSockets) \ {{}}, {0}, {0}, {FALSE}, {FALSE})
V6Params == OnPort({2, MaxPort - 3, MaxPort}) \cup AppIPs

\* With one socket, with two, with two of the application and its pipe.
FewParams == Params({{}}, {2}, {0}, BOOLEAN, {FALSE}) \cup AppPipe
\* What a behaviour of one part creates with; its sockets do not change.
Allowed(all, params) ==
  CASE part = "sockets" -> params \in all
    [] part = "groups" -> params \in FewParams /\ (kind = "v6" => params \in V6Params)
    [] part = "waits" ->
         /\ params \in FewParams /\ (kind = "v6" => params \in V6Params)
         /\ creating.params \in {V4!NoParams, params}
    [] OTHER -> params \in OnPort({2}) \cup AppIPs

MCSource == Host \X {1}
Dest == {[rtp |-> 1, rtcp |-> 2], [rtp |-> 1, rtcp |-> 3], [rtp |-> 2, rtcp |-> 3]}

\* The parts, in terms of the transmitter's own operations.
V4Waits ==
  \/ V4!WaitForIncomingData \/ V4!SelectWakes \/ V4!SelectEnds
  \/ V4!WaitReturns \/ V4!AbortWait
V6Waits ==
  \/ V6!WaitForIncomingData \/ V6!SelectWakes \/ V6!SelectEnds
  \/ V6!WaitReturns \/ V6!AbortWait
V4Receives ==
  \/ \E c \in V4!Channel, a \in Source : V4!Arrives(c, a)
  \/ V4!Poll \/ V4!GetNextPacket
V6Receives ==
  \/ \E c \in V4!Channel, a \in Source : V6!Arrives(c, a)
  \/ V6!Poll \/ V6!GetNextPacket
V4Groups ==
  \/ \E g \in Group : V4!JoinMulticastGroup(g) \/ V4!LeaveMulticastGroup(g)
  \/ V4!LeaveAllMulticastGroups
V6Groups ==
  \/ \E g \in Group : V6!JoinMulticastGroup(g) \/ V6!LeaveMulticastGroup(g)
  \/ V6!LeaveAllMulticastGroups
V4Names ==
  \/ \E d \in Dest : V4!AddDestination(d) \/ V4!DeleteDestination(d)
  \/ V4!ClearDestinations
  \/ \E found, room \in 1..2 : V4!GetLocalHostName(found, room)
V6Names ==
  \/ \E d \in Dest : V6!AddDestination(d) \/ V6!DeleteDestination(d)
  \/ V6!ClearDestinations
  \/ \E found, room \in 1..2 : V6!GetLocalHostName(found, room)

V4Next ==
  \/ \E params \in V4Params \cup FewParams :
       Allowed(V4Params, params) /\ V4!Create(params)
  \/ V4!CreateGoesOn \/ V4!Destroy \/ V4!DestroyEnds
  \/ part = "waits" /\ (V4Waits \/ V4Receives)
  \/ part = "filter" /\ (V4Receives \/ V4!ChangesFilter)
  \/ part = "groups" /\ V4Groups
  \/ part = "names" /\ V4Names

V6Next ==
  \/ \E params \in V6Params : Allowed(V6Params, params) /\ V6!Create(params)
  \/ V6!CreateEnds \/ V6!CreateGivesUp \/ V6!Destroy \/ V6!DestroyEnds
  \/ part = "waits" /\ (V6Waits \/ V6Receives)
  \/ part = "filter" /\ (V6Receives \/ V6!ChangesFilter)
  \/ part = "groups" /\ V6Groups
  \/ part = "names" /\ V6Names

FakeNames ==
  \/ \E d \in Dest : Fake!AddDestination(d) \/ Fake!DeleteDestination(d)
  \/ Fake!ClearDestinations
  \/ \E found, room \in 1..2 : Fake!GetLocalHostName(found, room)
FakeReceives ==
  \/ \E a \in Source : Fake!SetCurrentData(a)
  \/ Fake!ForgetCurrentData \/ Fake!Poll \/ Fake!GetNextPacket

FakeNext ==
  \/ \E params \in OnPort({2}) \cup AppIPs : Fake!Create(params)
  \/ Fake!Destroy
  \/ part = "filter" /\ (FakeReceives \/ Fake!ChangesFilter)
  \/ part = "names" /\ FakeNames

\* While a thread waits, packets are empty: two bytes of length.
TCPWaits ==
  \/ TCP!WaitForIncomingData \/ TCP!SelectWakes \/ TCP!SelectEnds
  \/ TCP!WaitReturns \/ TCP!AbortWait
TCPNext ==
  \/ \E own \in BOOLEAN : TCP!Create(own)
  \/ TCP!Destroy \/ TCP!DestroyEnds
  \/ TCP!GetNextPacket \/ TCP!ClearDestinations
  \/ part = "waits" /\ TCPWaits
  \/ \E s \in Connection :
       \/ TCP!AddDestination(s) \/ TCP!DeleteDestination(s)
       \/ TCP!PollSocket(s) \/ TCP!BytesArrive(s)
       \/ \E len \in IF part = "waits" THEN {0} ELSE 0..MaxLength :
            TCP!PeerSends(s, len)

ExternalNext ==
  \/ External!Create \/ External!Destroy \/ External!DestroyEnds
  \/ External!WaitForIncomingData \/ External!SelectWakes
  \/ External!SelectEnds \/ External!WaitReturns \/ External!AbortWait
  \/ External!Inject \/ External!GetNextPacket

Next ==
  \/ kind = "v4" /\ V4Next /\ UNCHANGED <<butUDP, kind, part>>
  \/ kind = "v6" /\ V6Next /\ UNCHANGED <<butUDP, kind, part>>
  \/ kind = "fake" /\ FakeNext /\ UNCHANGED <<butUDP, kind, part>>
  \/ kind = "tcp" /\ TCPNext /\ UNCHANGED <<butTCP, kind, part>>
  \/ kind = "external" /\ ExternalNext /\ UNCHANGED <<butExternal, kind, part>>

Spec == Init /\ [][Next]_vars

\* Select returns when something is ready, a thread that was woken goes on, and
\* Destroy gets the mutex that it waits for.  A wait need not time out, unless
\* its descriptors are gone: then the delay it was given ends it.
WaiterRuns ==
  \/ /\ kind = "v4" /\ (V4!SelectWakes \/ V4!WaitReturns)
     /\ UNCHANGED <<butUDP, kind, part>>
  \/ /\ kind = "v6" /\ (V6!SelectWakes \/ V6!WaitReturns)
     /\ UNCHANGED <<butUDP, kind, part>>
  \/ /\ kind = "tcp" /\ (TCP!SelectWakes \/ TCP!WaitReturns)
     /\ UNCHANGED <<butTCP, kind, part>>
  \/ /\ kind = "external" /\ (External!SelectWakes \/ External!WaitReturns)
     /\ UNCHANGED <<butExternal, kind, part>>
DestroyRuns ==
  \/ kind = "v4" /\ V4!DestroyEnds /\ UNCHANGED <<butUDP, kind, part>>
  \/ kind = "v6" /\ V6!DestroyEnds /\ UNCHANGED <<butUDP, kind, part>>
  \/ kind = "tcp" /\ TCP!DestroyEnds /\ UNCHANGED <<butTCP, kind, part>>
  \/ kind = "external" /\ External!DestroyEnds /\ UNCHANGED <<butExternal, kind, part>>
FairSpec == Spec /\ WF_vars(WaiterRuns) /\ WF_vars(DestroyRuns)

-----------------------------------------------------------------------------
UDP == kind \in {"v4", "v6"}

TypeOK ==
  /\ TransmitterTypeOK /\ FilterTypeOK
  /\ V4!UDPTypeOK /\ TCP!TCPTypeOK /\ External!ExternalTypeOK

\* The packets of a list that came over a channel.
Through(list, c) ==
  LET through[n \in 0..Len(list)] ==
        IF n = 0 THEN <<>>
        ELSE IF list[n].via = c THEN Append(through[n - 1], list[n])
        ELSE through[n - 1]
  IN  through[Len(list)]

\* What has arrived over a channel and was not handed out.
Pending ==
  [c \in V4!Channel \cup Connection \cup {"injector"} |->
     Through(rawpacketlist, c) \o
     CASE c \in V4!Channel -> inbox[c]
       [] c \in Connection ->
            [i \in DOMAIN stream[c].packets |->
               [via |-> c, data |-> stream[c].packets[i]]]
       [] OTHER -> <<>>]

Queue == INSTANCE PacketQueue WITH pending <- Pending

\* Every transmitter implements the packet queue: no packet is handed out twice,
\* out of order or changed, however it was cut into pieces on its way.
DeliversInOrder == Queue!Spec

\* What a UDP transmitter holds is accounted for, on every way through Create,
\* a failing one too: no socket stays open or is used after it was closed, an
\* automatic pair of ports is an even one and the next, the transmitter knows
\* its own addresses and is a member of the groups it names and no others, and
\* a name it hands out fits the caller's buffer.
SocketsInOrder ==
  /\ TypeOK
  /\ UDP => /\ V4!SocketsAccountedFor /\ V4!AutoPortsPaired
            /\ V4!KnowsItself /\ V4!MembershipsMatch
  /\ V4!ToldEnough

\* A thread in WaitForIncomingData does not miss what happens while it waits: a
\* new connection or an injected packet leaves it a byte to wake up from, it
\* never reads a byte that is not there, and takes as many as were sent.
WaitsAreWoken ==
  /\ NeverReadsEmptyPipe
  /\ kind = "tcp" => TCP!NewConnectionWakes
  /\ kind = "external" => External!InjectedWakes /\ External!CountsTheBytes

\* Create begins with nothing of an earlier session, and Poll lets in only what
\* the application's receive mode and lists ask for.
CleanAndFiltered == [][V4!CleanStart /\ V4!OnlyWantedGetIn]_vars

\* Destroy comes back when a thread waits for data: the wait it must outlast
\* ends, although its descriptors are closed under it.  And a signal in the pipe
\* ends the wait.
WaitsEnd ==
  /\ destroying ~> ~ destroying
  /\ (waiter.at = "select" /\ abort.bytes > 0) ~> (waiter.at # "select")

=============================================================================
