--------------------------- MODULE ReceiveFilter ---------------------------
(***************************************************************************)
(* The receive mode of a transmitter with its accept or ignore list, the   *)
(* same code in RTPUDPv4Transmitter, RTPUDPv6Transmitter and               *)
(* RTPFakeTransmitter.  An address is a host and a port; port 0 in a call  *)
(* stands for every port of the host.  A host without an entry in          *)
(* acceptignoreinfo and one whose entry lists nothing are treated alike    *)
(* but for the error that deleting all its ports returns, so every host    *)
(* has an entry here.                                                      *)
(***************************************************************************)
EXTENDS Naturals

CONSTANTS Host, Port

ASSUME PortAssumption == Port \subseteq Nat \ {0}

VARIABLES
  receivemode,
  acceptignoreinfo,  \* the PortInfo of every host
  wanted             \* history: the addresses that were added to the list of
                     \* the receive mode and not deleted since

fvars == <<receivemode, acceptignoreinfo, wanted>>

AllPorts == 0
ReceiveMode == {"AcceptAll", "AcceptSome", "IgnoreSome"}
PortInfo == [all : BOOLEAN, portlist : SUBSET Port]
Nothing == [h \in Host |-> [all |-> FALSE, portlist |-> {}]]

FilterTypeOK ==
  /\ receivemode \in ReceiveMode
  /\ acceptignoreinfo \in [Host -> PortInfo]
  /\ wanted \subseteq Host \X Port

\* With `all' the list holds the exceptions.
Listed(h, p) ==
  IF acceptignoreinfo[h].all
  THEN p \notin acceptignoreinfo[h].portlist
  ELSE p \in acceptignoreinfo[h].portlist

ShouldAcceptData(h, p) ==
  \/ receivemode = "AcceptAll"
  \/ receivemode = "AcceptSome" /\ Listed(h, p)
  \/ receivemode = "IgnoreSome" /\ ~ Listed(h, p)

Named(h, p) == {h} \X (IF p = AllPorts THEN Port ELSE {p})

FilterInit ==
  /\ receivemode = "AcceptAll"
  /\ acceptignoreinfo = Nothing /\ wanted = {}

-----------------------------------------------------------------------------
SetReceiveMode(m) ==
  /\ m # receivemode
  /\ receivemode' = m
  /\ acceptignoreinfo' = Nothing
  /\ wanted' = {}

\* While all ports are selected, adding one more changes nothing.
ProcessAddAcceptIgnoreEntry(info, p) ==
  IF p = AllPorts THEN [all |-> TRUE, portlist |-> {}]
  ELSE IF info.all THEN info
  ELSE [info EXCEPT !.portlist = @ \cup {p}]

\* Faulty variant: with all ports selected, deleting one deletes nothing.
DeleteForgetsAll(info, p) ==
  IF p = AllPorts THEN [all |-> FALSE, portlist |-> {}]
  ELSE [info EXCEPT !.portlist = @ \ {p}]

ProcessDeleteAcceptIgnoreEntry(info, p) ==
  IF p = AllPorts THEN [all |-> FALSE, portlist |-> {}]
  ELSE IF info.all THEN [info EXCEPT !.portlist = @ \cup {p}]
  ELSE [info EXCEPT !.portlist = @ \ {p}]

AddToList(h, p) ==
  /\ acceptignoreinfo' =
       [acceptignoreinfo EXCEPT ![h] = ProcessAddAcceptIgnoreEntry(@, p)]
  /\ wanted' = wanted \cup Named(h, p)
  /\ UNCHANGED receivemode

DeleteFromList(h, p) ==
  /\ acceptignoreinfo' =
       [acceptignoreinfo EXCEPT ![h] = ProcessDeleteAcceptIgnoreEntry(@, p)]
  /\ wanted' = wanted \ Named(h, p)
  /\ UNCHANGED receivemode

ClearAcceptIgnoreInfo ==
  acceptignoreinfo' = Nothing /\ wanted' = {}

AddToAcceptList(h, p) == receivemode = "AcceptSome" /\ AddToList(h, p)
AddToIgnoreList(h, p) == receivemode = "IgnoreSome" /\ AddToList(h, p)
DeleteFromAcceptList(h, p) == receivemode = "AcceptSome" /\ DeleteFromList(h, p)
DeleteFromIgnoreList(h, p) == receivemode = "IgnoreSome" /\ DeleteFromList(h, p)

ClearAcceptList ==
  /\ receivemode = "AcceptSome"
  /\ ClearAcceptIgnoreInfo /\ UNCHANGED receivemode

ClearIgnoreList ==
  /\ receivemode = "IgnoreSome"
  /\ ClearAcceptIgnoreInfo /\ UNCHANGED receivemode

ChangeList(h, p) ==
  \/ AddToAcceptList(h, p) \/ AddToIgnoreList(h, p)
  \/ DeleteFromAcceptList(h, p) \/ DeleteFromIgnoreList(h, p)

\* Create of the transmitter resets the mode, its Destroy clears the list.
FilterBegins == receivemode' = "AcceptAll" /\ UNCHANGED <<acceptignoreinfo, wanted>>
FilterEnds == ClearAcceptIgnoreInfo /\ UNCHANGED receivemode

FilterNext ==
  \/ \E m \in ReceiveMode : SetReceiveMode(m)
  \/ \E h \in Host, p \in Port \cup {AllPorts} : ChangeList(h, p)
  \/ ClearAcceptList \/ ClearIgnoreList

FilterSpec == FilterInit /\ [][FilterNext \/ FilterBegins \/ FilterEnds]_fvars

-----------------------------------------------------------------------------
ListedOnes == {a \in Host \X Port : Listed(a[1], a[2])}

\* The receive mode never acts on an address that the application did not put
\* on the list of that mode or has deleted since, in whatever order single
\* ports and "all ports" of a host were added and deleted.
NothingUnasked == ListedOnes \subseteq wanted

=============================================================================
