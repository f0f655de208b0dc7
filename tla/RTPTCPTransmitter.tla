------------------------- MODULE RTPTCPTransmitter -------------------------
(***************************************************************************)
(* The transmitter over TCP connections that the application made.  A      *)
(* packet travels as a frame, two bytes of length and the data, and        *)
(* arrives in whatever pieces the connection gives: SocketData keeps what  *)
(* was read of the frame so far.                                           *)
(*                                                                         *)
(* A byte is a record: its value v, which only the length bytes need, and  *)
(* the packet and the place it comes from.  Connections do not fail here,  *)
(* and each pass of the loop in PollSocket is a step, because bytes arrive *)
(* between them; that another call may also run there is more than the     *)
(* main mutex allows.                                                      *)
(***************************************************************************)
EXTENDS RTPTransmitter, FiniteSetsExt

CONSTANTS
  Connection,
  Base,       \* 256 in the code: how many values a byte has
  MaxLength,  \* bound: bytes of a packet
  MaxPackets  \* bound: packets that are sent

\* Whoever instantiates this module assumes it.
FramesAssumption ==
  /\ Base \in Nat \ {0, 1} /\ MaxLength \in 0..(Base * Base - 1)
  /\ MaxPackets \in Nat

VARIABLES
  m_destSockets,  \* the SocketData of every destination
  m_tmpSocks,     \* the sockets the current wait looks at
  stream,         \* the peers and the network: bytes not read yet, how many of
                  \* them arrived, packets not read to their end
  midframe,       \* history: deleted while a frame was half read
  arrived         \* bounded by MaxPackets

tcpvars == <<m_destSockets, m_tmpSocks, stream, midframe, arrived>>
basevars == <<created, destroying, waiter, abort, rawpacketlist, taken>>
vars == <<basevars, tcpvars>>

\* SocketData::Reset: m_lengthBuffer as far as it was read, m_dataLength, and
\* the data as far as it was read.
NewSocketData == [lengthBuffer |-> <<>>, dataLength |-> 0, data |-> <<>>]
InFrame(s) == m_destSockets[s].lengthBuffer # <<>>
Destinations == DOMAIN m_destSockets

TCPTypeOK ==
  /\ Destinations \subseteq Connection
  /\ \A s \in Destinations :
       /\ Len(m_destSockets[s].lengthBuffer) <= 2
       /\ Len(m_destSockets[s].data) <= m_destSockets[s].dataLength
  /\ \A s \in Connection : stream[s].here <= Len(stream[s].bytes)
  /\ m_tmpSocks \subseteq Connection /\ midframe \subseteq Connection
  /\ arrived \in 0..MaxPackets

Init ==
  /\ TransmitterInit
  /\ m_destSockets = [s \in {} |-> NewSocketData]
  /\ m_tmpSocks = {} /\ midframe = {} /\ arrived = 0
  /\ stream = [s \in Connection |-> [bytes |-> <<>>, here |-> 0, packets |-> <<>>]]

-----------------------------------------------------------------------------
(* The peers and the network.                                              *)

\* SendRTPRTCPData at the other end: the length, high byte first, and the data.
Frame(data) ==
  <<[v |-> Len(data) \div Base], [v |-> Len(data) % Base]>> \o data

PeerSends(s, len) ==
  LET data == [i \in 1..len |-> [v |-> 0, packet |-> arrived + 1, at |-> i]]
  IN  /\ arrived < MaxPackets
      /\ arrived' = arrived + 1
      /\ stream' = [stream EXCEPT ![s].bytes = @ \o Frame(data),
                                  ![s].packets = Append(@, data)]
      /\ UNCHANGED <<basevars, m_destSockets, m_tmpSocks, midframe>>

BytesArrive(s) ==
  /\ \E n \in (stream[s].here + 1)..Len(stream[s].bytes) :
       stream' = [stream EXCEPT ![s].here = n]
  /\ UNCHANGED <<basevars, m_destSockets, m_tmpSocks, midframe, arrived>>

-----------------------------------------------------------------------------
Create(own) ==
  /\ ~ created /\ ~ destroying
  /\ IsCreated(own)
  /\ UNCHANGED tcpvars

Forgets(ss) ==
  /\ m_destSockets' = [s \in Destinations \ ss |-> m_destSockets[s]]
  /\ midframe' = midframe \cup {s \in ss : InFrame(s)}

Destroy ==
  /\ IsDestroyed
  /\ Forgets(Destinations)
  /\ UNCHANGED <<m_tmpSocks, stream, arrived>>

DestroyEnds == DestroyReturns /\ UNCHANGED tcpvars

\* Faulty variant: a wait in progress is not told of the new socket.
AddDestinationQuietly(s) ==
  /\ created /\ s \notin Destinations \cup midframe
  /\ abort.bytes < MaxAborts
  /\ m_destSockets' = [t \in Destinations \cup {s} |->
                         IF t = s THEN NewSocketData ELSE m_destSockets[t]]
  /\ UNCHANGED <<basevars, m_tmpSocks, stream, midframe, arrived>>

\* Signals, waiting or not.  The application does not add a connection again
\* that it deleted within a frame: what follows would be taken for a length.
AddDestination(s) ==
  /\ created /\ s \notin Destinations \cup midframe
  /\ abort.bytes < MaxAborts
  /\ m_destSockets' = [t \in Destinations \cup {s} |->
                         IF t = s THEN NewSocketData ELSE m_destSockets[t]]
  /\ abort' = SendAbortSignal(abort)
  /\ UNCHANGED <<created, destroying, waiter, rawpacketlist, taken, m_tmpSocks,
                 stream, midframe, arrived>>

DeleteDestination(s) ==
  /\ created /\ s \in Destinations
  /\ Forgets({s})
  /\ UNCHANGED <<basevars, m_tmpSocks, stream, arrived>>

ClearDestinations ==
  /\ created
  /\ Forgets(Destinations)
  /\ UNCHANGED <<basevars, m_tmpSocks, stream, arrived>>

-----------------------------------------------------------------------------
(* Waiting and polling.                                                    *)

Ready == {s \in m_tmpSocks : created /\ stream[s].here > 0}

WaitForIncomingData ==
  /\ StartsWaiting
  /\ m_tmpSocks' = Destinations
  /\ UNCHANGED <<m_destSockets, stream, midframe, arrived>>

SelectWakes == SelectReturns(Ready) /\ UNCHANGED tcpvars
SelectEnds == SelectTimesOut /\ UNCHANGED tcpvars
WaitReturns == EndsWaiting(ReadSignallingByte(abort)) /\ UNCHANGED tcpvars
AbortWait == AbortsWait /\ UNCHANGED tcpvars
GetNextPacket == TakesNext /\ UNCHANGED tcpvars

Value(lengthBuffer) == lengthBuffer[1].v * Base + lengthBuffer[2].v

\* Faulty variant: every piece is stored at the start of the data.
ProcessAtStart(d, bytes, here) ==
  LET forLength == Min({2 - Len(d.lengthBuffer), here})
      lengthBuffer == d.lengthBuffer \o SubSeq(bytes, 1, forLength)
      dataLength == IF Len(lengthBuffer) < 2 THEN 0 ELSE Value(lengthBuffer)
      forData == Min({dataLength - Len(d.data), here - forLength})
      piece == SubSeq(bytes, forLength + 1, forLength + forData)
  IN  [read |-> forLength + forData,
       socketdata |-> [lengthBuffer |-> lengthBuffer, dataLength |-> dataLength,
                       data |-> piece \o d.data],
       complete |-> Len(lengthBuffer) = 2 /\ forData = dataLength - Len(d.data)]

\* What SocketData becomes, how many bytes it read, and whether the frame is
\* complete: first the rest of the length, then the rest of the data, as far as
\* the bytes that are here go.
ProcessAvailableBytes(d, bytes, here) ==
  LET forLength == Min({2 - Len(d.lengthBuffer), here})
      lengthBuffer == d.lengthBuffer \o SubSeq(bytes, 1, forLength)
      dataLength == IF Len(lengthBuffer) < 2 THEN 0 ELSE Value(lengthBuffer)
      forData == Min({dataLength - Len(d.data), here - forLength})
  IN  [read |-> forLength + forData,
       socketdata |-> [lengthBuffer |-> lengthBuffer, dataLength |-> dataLength,
                       data |-> d.data \o SubSeq(bytes, forLength + 1,
                                                 forLength + forData)],
       complete |-> Len(lengthBuffer) = 2 /\ forData = dataLength - Len(d.data)]

\* One pass of the loop: FIONREAD bytes are here.
PollSocket(s) ==
  LET in == stream[s]
      did == ProcessAvailableBytes(m_destSockets[s], in.bytes, in.here)
      rest == [in EXCEPT !.bytes = SubSeq(@, did.read + 1, Len(@)),
                         !.here = @ - did.read]
  IN  /\ created /\ s \in Destinations /\ in.here > 0
      /\ IF did.complete
         THEN /\ rawpacketlist' =
                   Append(rawpacketlist, [via |-> s, data |-> did.socketdata.data])
              /\ m_destSockets' = [m_destSockets EXCEPT ![s] = NewSocketData]
              /\ stream' = [stream EXCEPT ![s] = [rest EXCEPT !.packets = Tail(@)]]
         ELSE /\ m_destSockets' = [m_destSockets EXCEPT ![s] = did.socketdata]
              /\ stream' = [stream EXCEPT ![s] = rest]
              /\ UNCHANGED rawpacketlist
      /\ UNCHANGED <<created, destroying, waiter, abort, taken, m_tmpSocks,
                     midframe, arrived>>

-----------------------------------------------------------------------------
\* A connection that is added during a wait does not go unwatched until the
\* wait times out: the wait has been woken or is about to be.
NewConnectionWakes ==
  waiter.at = "select" /\ created =>
    Destinations \subseteq m_tmpSocks \/ abort.bytes > 0

=============================================================================
