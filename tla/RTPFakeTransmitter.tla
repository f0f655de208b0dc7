------------------------- MODULE RTPFakeTransmitter -------------------------
(***************************************************************************)
(* The transmitter that gets its data from the application's code, one     *)
(* packet at a time: SetCurrentData stores it in the parameters, Poll      *)
(* takes it.  It refuses threads, waits for nothing and has no sockets and *)
(* no multicast; its destinations, host name and receive mode are the code *)
(* of the IPv4 transmitter.                                                *)
(***************************************************************************)
EXTENDS RTPTransmitter

CONSTANTS MaxPort, MaxAttempts, Group, MaxPackets, Host, Port

VARIABLES ports, sock, myports, creating, inbox, members, multicastgroups,
          destinations, localIPs, hostname, arrived,
          receivemode, acceptignoreinfo, wanted

V4 == INSTANCE RTPUDPv4Transmitter
Filter == INSTANCE ReceiveFilter

fvars == <<receivemode, acceptignoreinfo, wanted>>

basevars == <<created, destroying, waiter, abort, rawpacketlist, taken>>
udpvars == <<ports, sock, myports, creating, inbox, members, multicastgroups,
             destinations, localIPs, hostname, arrived>>

Init == V4!Init

CreateLocalIPList(found) == found \cup {V4!Loopback}

Create(params) ==
  /\ ~ created
  /\ IsCreated(TRUE)
  /\ \E found \in SUBSET Host :
       localIPs' = IF params.ips = {} THEN CreateLocalIPList(found)
                   ELSE params.ips
  /\ hostname' = V4!NoHostName
  /\ Filter!FilterBegins
  /\ UNCHANGED <<ports, sock, myports, creating, inbox, members,
                 multicastgroups, destinations, arrived>>

\* The parameters go with it, and the packet in them.
Destroy ==
  /\ IsDestroyed
  /\ inbox' = [c \in V4!Channel |-> <<>>]
  /\ V4!Empties
  /\ UNCHANGED <<receivemode, ports, sock, myports, creating, members, arrived>>

\* The application gives data; giving other data before the Poll is the same as
\* SetCurrentData(NULL) and then giving it.
SetCurrentData(from) ==
  /\ created /\ arrived < MaxPackets /\ inbox["rtp"] = <<>>
  /\ inbox' = [inbox EXCEPT !["rtp"] =
                 <<[n |-> arrived + 1, via |-> "rtp", from |-> from]>>]
  /\ arrived' = arrived + 1
  /\ UNCHANGED <<basevars, fvars, ports, sock, myports, creating, members,
                 multicastgroups, destinations, localIPs, hostname>>

ForgetCurrentData ==
  /\ created
  /\ inbox' = [inbox EXCEPT !["rtp"] = <<>>]
  /\ UNCHANGED <<basevars, fvars, ports, sock, myports, creating, members,
                 multicastgroups, destinations, localIPs, hostname, arrived>>

ShouldAcceptData(p) == Filter!ShouldAcceptData(p.from[1], p.from[2])

FakePoll ==
  rawpacketlist' =
    IF inbox["rtp"] # <<>> /\ ShouldAcceptData(Head(inbox["rtp"]))
    THEN Append(rawpacketlist, Head(inbox["rtp"])) ELSE rawpacketlist

\* The data is forgotten, whether the receive mode accepted it or not.
Poll ==
  /\ created /\ FakePoll
  /\ inbox' = [inbox EXCEPT !["rtp"] = <<>>]
  /\ UNCHANGED <<created, destroying, waiter, abort, taken, fvars, ports, sock,
                 myports, creating, members, multicastgroups, destinations,
                 localIPs, hostname, arrived>>

GetNextPacket == V4!GetNextPacket
AddDestination(d) == V4!AddDestination(d)
DeleteDestination(d) == V4!DeleteDestination(d)
ClearDestinations == V4!ClearDestinations
GetLocalHostName(found, room) == V4!GetLocalHostName(found, room)

-----------------------------------------------------------------------------
(* The receive mode and its list.                                          *)

butFilter == <<basevars, udpvars>>

AddEntry(h, p) == Filter!AddToList(h, p)
DeleteEntry(h, p) == Filter!DeleteFromList(h, p)
ClearEntries == Filter!ClearAcceptIgnoreInfo /\ UNCHANGED receivemode

SetReceiveMode(m) == created /\ Filter!SetReceiveMode(m) /\ UNCHANGED butFilter

AddToIgnoreList(h, p) ==
  /\ created /\ receivemode = "IgnoreSome"
  /\ AddEntry(h, p) /\ UNCHANGED butFilter
DeleteFromIgnoreList(h, p) ==
  /\ created /\ receivemode = "IgnoreSome"
  /\ DeleteEntry(h, p) /\ UNCHANGED butFilter
ClearIgnoreList ==
  /\ created /\ receivemode = "IgnoreSome"
  /\ ClearEntries /\ UNCHANGED butFilter

AddToAcceptList(h, p) ==
  /\ created /\ receivemode = "AcceptSome"
  /\ AddEntry(h, p) /\ UNCHANGED butFilter
DeleteFromAcceptList(h, p) ==
  /\ created /\ receivemode = "AcceptSome"
  /\ DeleteEntry(h, p) /\ UNCHANGED butFilter
ClearAcceptList ==
  /\ created /\ receivemode = "AcceptSome"
  /\ ClearEntries /\ UNCHANGED butFilter

ChangesFilter ==
  \/ \E m \in Filter!ReceiveMode : SetReceiveMode(m)
  \/ \E h \in Host, p \in Port \cup {Filter!AllPorts} :
       \/ AddToIgnoreList(h, p) \/ DeleteFromIgnoreList(h, p)
       \/ AddToAcceptList(h, p) \/ DeleteFromAcceptList(h, p)
  \/ ClearIgnoreList \/ ClearAcceptList

=============================================================================
