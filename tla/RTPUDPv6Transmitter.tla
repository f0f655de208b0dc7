------------------------ MODULE RTPUDPv6Transmitter ------------------------
(***************************************************************************)
(* The transmitter over UDP and IPv6.  But for Create and the kind of      *)
(* addresses its operations are those of the IPv4 one: it always makes two *)
(* sockets of its own, on an even portbase and the next port.              *)
(***************************************************************************)
EXTENDS RTPTransmitter

CONSTANTS MaxPort, MaxAttempts, Group, MaxPackets, Host, Port

VARIABLES ports, sock, myports, creating, inbox, members, multicastgroups,
          destinations, localIPs, hostname, arrived,
          receivemode, acceptignoreinfo, wanted

V4 == INSTANCE RTPUDPv4Transmitter
Filter == INSTANCE ReceiveFilter

fvars == <<receivemode, acceptignoreinfo, wanted>>

basevars == <<created, destroying, waiter, abort, rawpacketlist, taken>>
udpvars == <<ports, sock, myports, creating, inbox, members, multicastgroups,
             destinations, localIPs, hostname, arrived>>

Init == V4!Init

\* Both sockets are made before either is bound; what fails closes both.
Create(params) ==
  LET rtp == V4!NewSocket(ports)
      one == V4!Open(ports, rtp, 0)
      rtcp == V4!NewSocket(one)
      bound == V4!Open(V4!Open(one, rtp, params.portbase), rtcp, params.portbase + 1)
  IN  /\ ~ created /\ ~ destroying /\ creating.stage = "no"
      /\ params.portbase % 2 = 0
      /\ \/ V4!Fails(V4!Close(one, {rtp}))
         \/ V4!Fails(V4!Close(bound, {rtp, rtcp}))
         \/ /\ {params.portbase, params.portbase + 1} \cap V4!Bound(ports) = {}
            /\ ports' = bound
            /\ sock' = [rtp |-> rtp, rtcp |-> rtcp, own |-> TRUE]
            /\ myports' = [rtp |-> params.portbase, rtcp |-> params.portbase + 1]
            /\ creating' = [V4!NotCreating EXCEPT !.stage = "setup",
                                                  !.params = params]
      /\ UNCHANGED <<created, abort, localIPs, destroying, waiter,
                     rawpacketlist, taken, fvars, inbox, members,
                     multicastgroups, destinations, hostname, arrived>>

CreateLocalIPList(found) == found \cup {V4!Loopback}
CreateEnds == \E found \in SUBSET Host : V4!Finished(CreateLocalIPList(found))
CreateGivesUp == V4!CreateGivesUp
Destroy == V4!Destroy
DestroyEnds == V4!DestroyEnds

Arrives(c, from) == V4!Arrives(c, from)
ShouldAcceptData(h, p) == Filter!ShouldAcceptData(h, p)
Accepted == {a \in Host \X Port : ShouldAcceptData(a[1], a[2])}
PollSocket(list, c) == Polled(list, inbox[c], Accepted)

Poll ==
  /\ created
  /\ rawpacketlist' = PollSocket(PollSocket(rawpacketlist, "rtp"), "rtcp")
  /\ inbox' = [c \in V4!Channel |-> <<>>]
  /\ UNCHANGED <<created, destroying, waiter, abort, taken, fvars, ports, sock,
                 myports, creating, members, multicastgroups, destinations,
                 localIPs, hostname, arrived>>

WaitForIncomingData == V4!WaitForIncomingData
SelectWakes == V4!SelectWakes
SelectEnds == V4!SelectEnds
WaitReturns == V4!WaitReturns
AbortWait == V4!AbortWait
GetNextPacket == V4!GetNextPacket

AddDestination(d) == V4!AddDestination(d)
DeleteDestination(d) == V4!DeleteDestination(d)
ClearDestinations == V4!ClearDestinations
JoinMulticastGroup(g) == V4!JoinMulticastGroup(g)
LeaveMulticastGroup(g) == V4!LeaveMulticastGroup(g)
LeaveAllMulticastGroups == V4!LeaveAllMulticastGroups

GetLocalHostName(found, room) == V4!GetLocalHostName(found, room)
ComesFromThisTransmitter(ip, port) == V4!ComesFromThisTransmitter(ip, port)

-----------------------------------------------------------------------------
(* The receive mode and its list.                                          *)

butFilter == <<basevars, udpvars>>

AddEntry(h, p) == Filter!AddToList(h, p)
DeleteEntry(h, p) == Filter!DeleteFromList(h, p)
ClearEntries == Filter!ClearAcceptIgnoreInfo /\ UNCHANGED receivemode

SetReceiveMode(m) == created /\ Filter!SetReceiveMode(m) /\ UNCHANGED butFilter

AddToIgnoreList(h, p) ==
  /\ created /\ receivemode = "IgnoreSome"
  /\ AddEntry(h, p) /\ UNCHANGED butFilter
DeleteFromIgnoreList(h, p) ==
  /\ created /\ receivemode = "IgnoreSome"
  /\ DeleteEntry(h, p) /\ UNCHANGED butFilter
ClearIgnoreList ==
  /\ created /\ receivemode = "IgnoreSome"
  /\ ClearEntries /\ UNCHANGED butFilter

AddToAcceptList(h, p) ==
  /\ created /\ receivemode = "AcceptSome"
  /\ AddEntry(h, p) /\ UNCHANGED butFilter
DeleteFromAcceptList(h, p) ==
  /\ created /\ receivemode = "AcceptSome"
  /\ DeleteEntry(h, p) /\ UNCHANGED butFilter
ClearAcceptList ==
  /\ created /\ receivemode = "AcceptSome"
  /\ ClearEntries /\ UNCHANGED butFilter

ChangesFilter ==
  \/ \E m \in Filter!ReceiveMode : SetReceiveMode(m)
  \/ \E h \in Host, p \in Port \cup {Filter!AllPorts} :
       \/ AddToIgnoreList(h, p) \/ DeleteFromIgnoreList(h, p)
       \/ AddToAcceptList(h, p) \/ DeleteFromAcceptList(h, p)
  \/ ClearIgnoreList \/ ClearAcceptList

=============================================================================
