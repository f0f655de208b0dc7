------------------------ MODULE RTPUDPv4Transmitter ------------------------
(***************************************************************************)
(* The transmitter over UDP and IPv4: two sockets, or one when RTCP is     *)
(* multiplexed, on ports of its own choice, on a given port, or made by    *)
(* the application; destinations, multicast groups and the receive mode.   *)
(* Create holds the main mutex while it goes through `creating', so no     *)
(* other operation runs then.                                              *)
(*                                                                         *)
(* A packet is a record with the channel it came `via' and the address it  *)
(* is `from'.  Left out: sending, which changes no state; that memory runs *)
(* out; how the type byte tells RTCP from RTP on a multiplexed socket.     *)
(***************************************************************************)
EXTENDS RTPTransmitter, ReceiveFilter, FiniteSetsExt

CONSTANTS
  MaxPort,      \* 65535 in the code
  MaxAttempts,  \* maxAttempts, 1024 in the code
  Group,        \* multicast groups
  MaxPackets    \* bound: packets that arrive

\* Whoever instantiates this module assumes it.
PortsAssumption ==
  /\ MaxPort \in Nat /\ MaxPort > 3 /\ MaxPort % 2 = 1
  /\ MaxAttempts \in Nat /\ MaxPackets \in Nat

VARIABLES
  ports,       \* the operating system: the open sockets, each with its port
  sock,        \* rtp, rtcp: rtpsock and rtcpsock; own: closesocketswhendone
  myports,     \* rtp, rtcp: m_rtpPort and m_rtcpPort
  creating,    \* stage: where Create is; params; GetAutoSockets' attempts and
               \* toclose.  The parameters stay, as history
  inbox,       \* the packets in the sockets, by channel
  members,     \* the operating system: <<socket, group>>
  multicastgroups, destinations, localIPs,
  hostname,    \* name: localhostname, by its length, 0 when there is none;
               \* told: history, the length a caller was told to have room for
  arrived      \* bounded by MaxPackets

udpvars == <<ports, sock, myports, creating, inbox, members, multicastgroups,
             destinations, localIPs, hostname, arrived>>
basevars == <<created, destroying, waiter, abort, rawpacketlist, taken>>
vars == <<basevars, fvars, udpvars>>

butLists == <<ports, sock, myports, creating, inbox, members, localIPs,
              hostname, arrived>>

PortNumber == 1..MaxPort
AppSockets == {1, 2}
NoSocket == 0
Loopback == "loopback"
NoParams == [given |-> FALSE]
NotCreating ==
  [stage |-> "no", params |-> NoParams, attempts |-> 0, toclose |-> {}]
NoHostName == [name |-> 0, told |-> 0]
Channel == {"rtp", "rtcp"}

NewSocket(open) == Min({n \in 1..(Cardinality(DOMAIN open) + 1) : n \notin DOMAIN open})
Open(open, s, port) == [n \in DOMAIN open \cup {s} |-> IF n = s THEN port ELSE open[n]]
Close(open, ss) == [n \in DOMAIN open \ ss |-> open[n]]
Bound(open) == {open[s] : s \in DOMAIN open}

UDPTypeOK ==
  /\ \A s \in DOMAIN ports : ports[s] \in 0..MaxPort
  /\ AppSockets \subseteq DOMAIN ports
  /\ DOMAIN sock = {"rtp", "rtcp", "own"}
  /\ creating.stage \in {"no", "auto", "setup"}
  /\ creating.attempts \in 0..MaxAttempts
  /\ creating.toclose \subseteq DOMAIN ports
  /\ DOMAIN inbox = Channel
  /\ members \subseteq (DOMAIN ports) \X Group
  /\ multicastgroups \subseteq Group
  /\ arrived \in 0..MaxPackets

\* The application has two sockets of its own, bound to the topmost ports.
Init ==
  /\ TransmitterInit /\ FilterInit
  /\ ports = [s \in AppSockets |-> MaxPort - s]
  /\ sock = [rtp |-> NoSocket, rtcp |-> NoSocket, own |-> FALSE]
  /\ myports = [rtp |-> 0, rtcp |-> 0]
  /\ creating = NotCreating
  /\ inbox = [c \in Channel |-> <<>>]
  /\ members = {} /\ multicastgroups = {} /\ destinations = {}
  /\ localIPs = {} /\ hostname = NoHostName
  /\ arrived = 0

-----------------------------------------------------------------------------
(* Create.  The parameters: existing, the application's sockets or {};     *)
(* portbase, 0 for GetAutoSockets; rtcpport, 0 for the next one; mux;      *)
(* odd, an odd portbase is allowed; ips, the local IP list; ownabort.      *)

butCreate == <<destroying, waiter, rawpacketlist, taken, fvars, inbox, members,
               multicastgroups, destinations, hostname, arrived>>

\* The first sockets are known, Create goes on with the rest.
Uses(open, rtp, rtcp, own) ==
  /\ ports' = open
  /\ sock' = [rtp |-> rtp, rtcp |-> rtcp, own |-> own]
  /\ myports' = [rtp |-> open[rtp], rtcp |-> open[rtcp]]
  /\ creating' = [creating EXCEPT !.stage = "setup", !.toclose = {}]

Fails(open) ==
  /\ ports' = open
  /\ creating' = NotCreating
  /\ UNCHANGED <<sock, myports>>

CreateBegins(params) ==
  /\ ~ created /\ ~ destroying /\ creating.stage = "no"
  /\ params.existing = {} /\ params.portbase = 0
  /\ creating' = [NotCreating EXCEPT !.stage = "auto", !.params = params]
  /\ UNCHANGED <<created, abort, butCreate, ports, sock, myports, localIPs>>

CreateWithSockets(params) ==
  /\ ~ created /\ ~ destroying /\ creating.stage = "no"
  /\ \E rtp, rtcp \in params.existing :
       /\ sock' = [rtp |-> rtp, rtcp |-> rtcp, own |-> FALSE]
       /\ myports' = [rtp |-> ports[rtp], rtcp |-> ports[rtcp]]
  /\ creating' = [NotCreating EXCEPT !.stage = "setup", !.params = params]
  /\ UNCHANGED <<created, abort, butCreate, ports, localIPs>>

\* The port of the RTCP socket, the same as the RTP port at the very top.
RTCPPort(params) ==
  IF params.rtcpport # 0 THEN params.rtcpport
  ELSE IF params.portbase < MaxPort THEN params.portbase + 1
  ELSE params.portbase

\* Two sockets, or one; another process may have one of the ports.
CreateOnPort(params) ==
  LET rtp == NewSocket(ports)
      one == Open(ports, rtp, params.portbase)
      rtcp == NewSocket(one)
      both == Open(one, rtcp, RTCPPort(params))
      \* CLOSESOCKETS, as far as sockets were created.
      fails == \/ Fails(ports)
               \/ Fails(Close(one, {rtp}))
               \/ ~ params.mux /\ Fails(Close(both, {rtp, rtcp}))
  IN  /\ ~ created /\ ~ destroying /\ creating.stage = "no"
      /\ params.existing = {} /\ params.portbase # 0
      /\ params.odd \/ params.portbase % 2 = 0
      /\ \/ fails
         \/ /\ params.portbase \notin Bound(ports)
            /\ IF params.mux
               THEN /\ ports' = one
                    /\ sock' = [rtp |-> rtp, rtcp |-> rtp, own |-> TRUE]
                    /\ myports' = [c \in Channel |-> params.portbase]
               ELSE /\ RTCPPort(params) \notin Bound(one)
                    /\ ports' = both
                    /\ sock' = [rtp |-> rtp, rtcp |-> rtcp, own |-> TRUE]
                    /\ myports' = [rtp |-> params.portbase,
                                   rtcp |-> RTCPPort(params)]
            /\ creating' = [NotCreating EXCEPT !.stage = "setup",
                                               !.params = params]
      /\ UNCHANGED <<created, abort, butCreate, localIPs>>

SecondPort(base) == IF base % 2 = 0 THEN base + 1 ELSE base - 1

\* A try that did not give a pair keeps its sockets until the end, so that
\* their ports are not given out again.
KeepsForLater(open, ss) ==
  /\ ports' = open
  /\ creating' = [creating EXCEPT !.attempts = @ + 1, !.toclose = @ \cup ss]
  /\ UNCHANGED <<sock, myports>>

\* The pair to use, and the sockets of earlier tries are closed.
Takes(open, rtp, rtcp) == Uses(Close(open, creating.toclose), rtp, rtcp, TRUE)

InPortOrder(open, one, two) ==
  IF open[one] < open[two] THEN Takes(open, one, two) ELSE Takes(open, two, one)

\* One try of GetAutoSockets: the system gave the port base; the second bind
\* fails when the neighbour is taken, by us or by another process.
AutoSockets(base) ==
  LET one == NewSocket(ports)
      first == Open(ports, one, base)
      two == NewSocket(first)
      second == SecondPort(base)
  IN  IF creating.params.mux
      THEN IF base % 2 = 0 \/ creating.params.odd
           THEN Takes(first, one, one)
           ELSE KeepsForLater(first, {one})
      ELSE \/ KeepsForLater(Open(first, two, 0), {one, two})
           \/ /\ second # 0 /\ second \notin Bound(first)
              /\ InPortOrder(Open(first, two, second), one, two)

GetAutoSockets ==
  /\ creating.stage = "auto" /\ creating.attempts < MaxAttempts
  /\ \E base \in PortNumber \ Bound(ports) : AutoSockets(base)
  /\ UNCHANGED <<created, abort, butCreate, localIPs>>

\* A socket cannot be created or bound, or all attempts are used up.
GetAutoSocketsFails ==
  /\ creating.stage = "auto"
  /\ Fails(Close(ports, creating.toclose))
  /\ UNCHANGED <<created, abort, butCreate, localIPs>>

\* CreateLocalIPList: what the interfaces or the name service say, with the
\* loopback address.
CreateLocalIPList(found) == found \cup {Loopback}

Finished(ips) ==
  /\ creating.stage = "setup"
  /\ IsCreated(creating.params.ownabort)
  /\ localIPs' = IF creating.params.ips = {} THEN ips ELSE creating.params.ips
  /\ hostname' = NoHostName
  /\ FilterBegins
  /\ creating' = [NotCreating EXCEPT !.params = creating.params]
  /\ UNCHANGED <<ports, sock, myports, inbox, members, multicastgroups,
                 destinations, arrived>>

CreateEnds == \E found \in SUBSET Host : Finished(CreateLocalIPList(found))

CloseSockets == IF sock.own THEN Close(ports, {sock.rtp, sock.rtcp}) ELSE ports

\* Faulty variant: returns without CLOSESOCKETS.
CreateGivesUpOpen ==
  /\ creating.stage = "setup"
  /\ Fails(ports)
  /\ UNCHANGED <<created, abort, butCreate, localIPs>>

\* A socket option, the packet size or the abort descriptors fail.
CreateGivesUp ==
  /\ creating.stage = "setup"
  /\ Fails(CloseSockets)
  /\ UNCHANGED <<created, abort, butCreate, localIPs>>

Create(params) ==
  CreateBegins(params) \/ CreateWithSockets(params) \/ CreateOnPort(params)
CreateGoesOn ==
  GetAutoSockets \/ GetAutoSocketsFails \/ CreateEnds \/ CreateGivesUp

\* Faulty variant: the destinations and the multicast groups stay.
EmptiesSome ==
  /\ localIPs' = {} /\ hostname' = NoHostName
  /\ ClearAcceptIgnoreInfo
  /\ UNCHANGED <<multicastgroups, destinations>>

Empties ==
  /\ destinations' = {} /\ multicastgroups' = {}
  /\ localIPs' = {} /\ hostname' = NoHostName
  /\ ClearAcceptIgnoreInfo

\* The system forgets what a closed socket received and joined.  Sockets of the
\* application keep both.
Destroy ==
  /\ IsDestroyed
  /\ ports' = CloseSockets
  /\ inbox' = IF sock.own THEN [c \in Channel |-> <<>>] ELSE inbox
  /\ members' = {m \in members : m[1] \in DOMAIN CloseSockets}
  /\ Empties
  /\ UNCHANGED <<receivemode, sock, myports, creating, arrived>>

-----------------------------------------------------------------------------
(* Receiving.                                                              *)

\* On a multiplexed socket everything arrives over the RTP channel.
Arrives(c, from) ==
  /\ created /\ arrived < MaxPackets
  /\ c = "rtcp" => sock.rtp # sock.rtcp
  /\ inbox' = [inbox EXCEPT ![c] =
                 Append(@, [n |-> arrived + 1, via |-> c, from |-> from])]
  /\ arrived' = arrived + 1
  /\ UNCHANGED <<basevars, fvars, ports, sock, myports, creating, members,
                 multicastgroups, destinations, localIPs, hostname>>

Accepted == {a \in Host \X Port : ShouldAcceptData(a[1], a[2])}
PollSocket(list, c) == Polled(list, inbox[c], Accepted)

Poll ==
  /\ created
  /\ rawpacketlist' = PollSocket(PollSocket(rawpacketlist, "rtp"), "rtcp")
  /\ inbox' = [c \in Channel |-> <<>>]
  /\ UNCHANGED <<created, destroying, waiter, abort, taken, fvars, ports, sock,
                 myports, creating, members, multicastgroups, destinations,
                 localIPs, hostname, arrived>>

Ready == {c \in Channel : created /\ inbox[c] # <<>>}

WaitForIncomingData == StartsWaiting /\ UNCHANGED <<fvars, udpvars>>
SelectWakes == SelectReturns(Ready) /\ UNCHANGED <<fvars, udpvars>>
SelectEnds == SelectTimesOut /\ UNCHANGED <<fvars, udpvars>>
\* Faulty variant: goes on waiting when the transmitter is gone.
WaitsOn ==
  /\ IF created THEN EndsWaiting(ReadSignallingByte(abort))
     ELSE /\ waiter.at = "woken"
          /\ waiter' = [at |-> "select", ready |-> {}]
          /\ UNCHANGED <<created, destroying, abort, rawpacketlist, taken>>
  /\ UNCHANGED <<fvars, udpvars>>
WaitReturns == EndsWaiting(ReadSignallingByte(abort)) /\ UNCHANGED <<fvars, udpvars>>
AbortWait == AbortsWait /\ UNCHANGED <<fvars, udpvars>>
DestroyEnds == DestroyReturns /\ UNCHANGED <<fvars, udpvars>>
GetNextPacket == TakesNext /\ UNCHANGED <<fvars, udpvars>>

-----------------------------------------------------------------------------
(* Destinations, multicast groups, the local host's names.                 *)

\* Two destinations with the same RTP port are the same one to the table.
AddDestination(d) ==
  /\ created /\ \A e \in destinations : e.rtp # d.rtp
  /\ destinations' = destinations \cup {d}
  /\ UNCHANGED <<basevars, fvars, butLists, multicastgroups>>

DeleteDestination(d) ==
  /\ created
  /\ destinations' = {e \in destinations : e.rtp # d.rtp}
  /\ UNCHANGED <<basevars, fvars, butLists, multicastgroups>>

ClearDestinations ==
  /\ created /\ destinations' = {}
  /\ UNCHANGED <<basevars, fvars, butLists, multicastgroups>>

butGroups == <<ports, sock, myports, creating, inbox, destinations, localIPs,
               hostname, arrived>>
MySockets == {sock.rtp, sock.rtcp}

\* setsockopt fails for the first socket; or for the second, and the first
\* leaves again.
JoinFails(g) ==
  \/ UNCHANGED <<members, multicastgroups>>
  \/ /\ sock.rtp # sock.rtcp /\ <<sock.rtp, g>> \notin members
     /\ members' = (members \cup {<<sock.rtp, g>>}) \ {<<sock.rtp, g>>}
     /\ UNCHANGED multicastgroups

Joins(g) ==
  /\ (MySockets \X {g}) \cap members = {}
  /\ members' = members \cup (MySockets \X {g})
  /\ multicastgroups' = multicastgroups \cup {g}

JoinMulticastGroup(g) ==
  /\ created /\ g \notin multicastgroups
  /\ Joins(g) \/ JoinFails(g)
  /\ UNCHANGED <<basevars, fvars, butGroups>>

LeaveMulticastGroup(g) ==
  /\ created /\ g \in multicastgroups
  /\ multicastgroups' = multicastgroups \ {g}
  /\ members' = members \ (MySockets \X {g})
  /\ UNCHANGED <<basevars, fvars, butGroups>>

LeaveAllMulticastGroups ==
  /\ created
  /\ members' = members \ (MySockets \X multicastgroups)
  /\ multicastgroups' = {}
  /\ UNCHANGED <<basevars, fvars, butGroups>>

\* The name is looked up once; `room' is the caller's buffer.
GetLocalHostName(found, room) ==
  LET name == IF hostname.name # 0 THEN hostname.name ELSE found
  IN  /\ created
      /\ hostname' = [name |-> name,
                      told |-> IF room < name THEN name ELSE hostname.told]
      /\ UNCHANGED <<basevars, fvars, ports, sock, myports, creating, inbox,
                     members, multicastgroups, destinations, localIPs, arrived>>

ComesFromThisTransmitter(ip, port) ==
  created /\ ip \in localIPs /\ port \in {myports.rtp, myports.rtcp}

ChangesFilter ==
  /\ created
  /\ FilterNext
  /\ UNCHANGED <<basevars, udpvars>>

-----------------------------------------------------------------------------
(* What must hold of the UDP transmitters.                                 *)

\* No socket leaks and none is closed that is in use or is the application's:
\* the open sockets are the application's, those of the current Create or of
\* the created transmitter, whichever of the steps of Create failed.
SocketsAccountedFor ==
  DOMAIN ports =
    AppSockets \cup creating.toclose \cup
    (IF sock.own /\ (created \/ creating.stage = "setup")
     THEN MySockets ELSE {})

\* Ports that GetAutoSockets chose are an even one for RTP and the next for
\* RTCP, or a single one that is even unless odd ones are allowed.
AutoPortsPaired ==
  created /\ creating.params.existing = {} /\ creating.params.portbase = 0 =>
    IF creating.params.mux
    THEN /\ sock.rtp = sock.rtcp
         /\ creating.params.odd \/ ports[sock.rtp] % 2 = 0
    ELSE /\ ports[sock.rtp] % 2 = 0
         /\ ports[sock.rtcp] = ports[sock.rtp] + 1

\* The transmitter knows its own packets, which is how a session tells a loop
\* from a collision: whatever way Create took to its sockets, their real ports
\* are the ones ComesFromThisTransmitter compares with.
KnowsItself ==
  created /\ Loopback \in localIPs =>
    \A c \in Channel : ComesFromThisTransmitter(Loopback, ports[sock[c]])

\* Both sockets are members of the groups that were joined, and sockets of the
\* transmitter of no others, also after a join that failed half-way.  (Sockets
\* of the application stay members when the transmitter is destroyed.)
MembershipsMatch ==
  created =>
    /\ MySockets \X multicastgroups \subseteq members
    /\ \A m \in members :
         m \in MySockets \X multicastgroups \/ m[1] \in AppSockets

\* A caller who is told how much room the host name needs has enough of it the
\* next time.
ToldEnough == hostname.told \in {0, hostname.name}

\* A transmitter that is created again starts without the packets,
\* destinations, groups and lists of its former life.
CleanStart ==
  ~ created /\ created' =>
    /\ rawpacketlist' = <<>> /\ destinations' = {}
    /\ multicastgroups' = {} /\ ListedOnes' = {}

\* In AcceptSome mode a packet gets in only from an address that is on the list
\* when the socket is polled.
OnlyWantedGetIn ==
  receivemode = "AcceptSome" =>
    \A i \in (Len(rawpacketlist) + 1)..Len(rawpacketlist') :
      rawpacketlist'[i].from \in wanted

=============================================================================
