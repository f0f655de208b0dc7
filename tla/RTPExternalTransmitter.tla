----------------------- MODULE RTPExternalTransmitter -----------------------
(***************************************************************************)
(* The transmitter whose packets the application injects, from any thread, *)
(* through RTPExternalPacketInjector.  There is no socket: a wait is woken *)
(* through the abort pipe only, and m_abortCount remembers whether a byte  *)
(* is in it.  Left out: that memory runs out, after which an Inject        *)
(* returns with the main mutex held.                                       *)
(***************************************************************************)
EXTENDS RTPTransmitter

CONSTANT MaxPackets  \* bound: packets that are injected

VARIABLES m_abortCount, arrived

extvars == <<m_abortCount, arrived>>
basevars == <<created, destroying, waiter, abort, rawpacketlist, taken>>
vars == <<basevars, extvars>>

ExternalTypeOK ==
  m_abortCount \in 0..(MaxAborts + 1) /\ arrived \in 0..MaxPackets

Init == TransmitterInit /\ m_abortCount = 0 /\ arrived = 0

Create ==
  /\ ~ created /\ ~ destroying
  /\ IsCreated(TRUE)
  /\ m_abortCount' = 0
  /\ UNCHANGED arrived

Destroy ==
  /\ IsDestroyed
  /\ m_abortCount' = IF waitingfordata THEN m_abortCount + 1 ELSE m_abortCount
  /\ UNCHANGED arrived

DestroyEnds == DestroyReturns /\ UNCHANGED extvars

\* Returns at once when packets are there, and leaves the pipe as it is.
WaitForIncomingData ==
  /\ rawpacketlist = <<>>
  /\ StartsWaiting
  /\ UNCHANGED extvars

SelectWakes == SelectReturns({}) /\ UNCHANGED extvars
SelectEnds == SelectTimesOut /\ UNCHANGED extvars

WaitReturns ==
  /\ EndsWaiting(ClearAbortSignal(abort))
  /\ m_abortCount' = IF created /\ "abort" \in waiter.ready THEN 0
                     ELSE m_abortCount
  /\ UNCHANGED arrived

AbortWait ==
  /\ AbortsWait
  /\ m_abortCount' = m_abortCount + 1
  /\ UNCHANGED arrived

\* InjectRTP, InjectRTCP and InjectRTPorRTCP: at most one byte for all of them.
Inject ==
  /\ created /\ arrived < MaxPackets
  /\ rawpacketlist' =
       Append(rawpacketlist, [n |-> arrived + 1, via |-> "injector"])
  /\ IF m_abortCount = 0
     THEN abort' = SendAbortSignal(abort) /\ m_abortCount' = 1
     ELSE UNCHANGED <<abort, m_abortCount>>
  /\ arrived' = arrived + 1
  /\ UNCHANGED <<created, destroying, waiter, taken>>

GetNextPacket == TakesNext /\ UNCHANGED extvars

-----------------------------------------------------------------------------
\* No injected packet waits for a wait to time out: while a thread is in select
\* and packets are there, a byte is in the pipe, although Inject writes one
\* only when it believes that there is none.
InjectedWakes ==
  waiter.at = "select" /\ created /\ rawpacketlist # <<>> => abort.bytes > 0

\* m_abortCount is the number of bytes in the pipe.
CountsTheBytes == created => m_abortCount = abort.bytes

=============================================================================
