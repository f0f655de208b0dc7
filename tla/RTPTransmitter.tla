--------------------------- MODULE RTPTransmitter ---------------------------
(***************************************************************************)
(* What the transmitters have in common: their life between Create and     *)
(* Destroy, the one thread that waits for data in select and is woken      *)
(* through the pipe of the RTPAbortDescriptors, and the list of packets    *)
(* that were received and not handed out.                                  *)
(*                                                                         *)
(* The main mutex is held by an action from its first to its last line, so *)
(* it needs no variable; the waiting thread gives it up in select, and     *)
(* Destroy while it waits for waitmutex, which the waiting thread holds    *)
(* from "select" until it is idle.                                         *)
(***************************************************************************)
EXTENDS Naturals, Sequences

CONSTANT MaxAborts  \* bound: bytes in the abort pipe

ASSUME AbortsAssumption == MaxAborts \in Nat \ {0}

VARIABLES
  created,
  destroying,     \* Destroy waits for waitmutex
  waiter,         \* at: where the thread in WaitForIncomingData is; ready:
                  \* what its select found
  abort,          \* own: it is m_abortDesc and not the application's; bytes:
                  \* written to its pipe and not read
  rawpacketlist,
  taken           \* the packet GetNextPacket returned last

Nowhere == [at |-> "idle", ready |-> {}]
NoPacket == [via |-> "none"]

waitingfordata == waiter.at # "idle"

TransmitterTypeOK ==
  /\ created \in BOOLEAN /\ destroying \in BOOLEAN
  /\ waiter.at \in {"idle", "select", "woken"}
  /\ abort.own \in BOOLEAN /\ abort.bytes \in 0..(MaxAborts + 1)

TransmitterInit ==
  /\ created = FALSE /\ destroying = FALSE
  /\ waiter = Nowhere
  /\ abort = [own |-> TRUE, bytes |-> 0]
  /\ rawpacketlist = <<>> /\ taken = NoPacket

-----------------------------------------------------------------------------
(* RTPAbortDescriptors.                                                    *)

SendAbortSignal(a) == [a EXCEPT !.bytes = @ + 1]
ReadSignallingByte(a) == [a EXCEPT !.bytes = @ - 1]
ClearAbortSignal(a) == [a EXCEPT !.bytes = 0]

\* Create opens a pipe, or uses the one the application gives it, with what is
\* still in there if the application does not clear it.
AbortDescriptors(own) ==
  [own : {own}, bytes : IF own \/ abort.own THEN {0}
                        ELSE {0, abort.bytes} \cap 0..MaxAborts]

\* Destroy closes its own pipe.
CloseAbortDescriptors(a) == IF a.own THEN ClearAbortSignal(a) ELSE a

-----------------------------------------------------------------------------
(* WaitForIncomingData.                                                    *)

StartsWaiting ==
  /\ created /\ ~ waitingfordata
  /\ waiter' = [at |-> "select", ready |-> {}]
  /\ UNCHANGED <<created, destroying, abort, rawpacketlist, taken>>

\* `sockets' are the ones that have data.  A select whose descriptors were
\* closed by Destroy may have seen the byte before that or not.
SelectReturns(sockets) ==
  LET ready == sockets \cup (IF abort.bytes > 0 \/ ~ created
                             THEN {"abort"} ELSE {})
  IN  /\ waiter.at = "select" /\ ready # {}
      /\ waiter' = [at |-> "woken", ready |-> ready]
      /\ UNCHANGED <<created, destroying, abort, rawpacketlist, taken>>

SelectTimesOut ==
  /\ waiter.at = "select"
  /\ waiter' = [at |-> "woken", ready |-> {}]
  /\ UNCHANGED <<created, destroying, abort, rawpacketlist, taken>>

\* PollSocket of the transmitters over UDP: reads what is in a socket one by
\* one, until it is empty, and keeps the packets from the addresses in
\* `accepted'.
Polled(list, queue, accepted) ==
  LET polled[n \in 0..Len(queue)] ==
        IF n = 0 THEN list
        ELSE IF queue[n].from \in accepted THEN Append(polled[n - 1], queue[n])
        ELSE polled[n - 1]
  IN  polled[Len(queue)]

\* The transmitter takes what woke it out of the pipe, which is then `emptied'.
EndsWaiting(emptied) ==
  /\ waiter.at = "woken"
  /\ waiter' = Nowhere
  /\ abort' = IF created /\ "abort" \in waiter.ready THEN emptied ELSE abort
  /\ UNCHANGED <<created, destroying, rawpacketlist, taken>>

AbortsWait ==
  /\ created /\ waitingfordata
  /\ abort.bytes < MaxAborts
  /\ abort' = SendAbortSignal(abort)
  /\ UNCHANGED <<created, destroying, waiter, rawpacketlist, taken>>

-----------------------------------------------------------------------------
(* Create, Destroy and GetNextPacket.                                      *)

IsCreated(own) ==
  /\ created' = TRUE
  /\ abort' \in AbortDescriptors(own)
  /\ UNCHANGED <<destroying, waiter, rawpacketlist, taken>>

\* A thread that waits is woken, and then the pipe is closed.
IsDestroyed ==
  /\ created /\ created' = FALSE
  /\ rawpacketlist' = <<>>
  /\ abort' = CloseAbortDescriptors(IF waitingfordata
                                    THEN SendAbortSignal(abort) ELSE abort)
  /\ destroying' = waitingfordata
  /\ UNCHANGED <<waiter, taken>>

\* Destroy got waitmutex.
DestroyReturns ==
  /\ destroying /\ ~ waitingfordata
  /\ destroying' = FALSE
  /\ UNCHANGED <<created, waiter, abort, rawpacketlist, taken>>

TakesNext ==
  /\ created /\ rawpacketlist # <<>>
  /\ taken' = Head(rawpacketlist)
  /\ rawpacketlist' = Tail(rawpacketlist)
  /\ UNCHANGED <<created, destroying, waiter, abort>>

-----------------------------------------------------------------------------
\* ReadSignallingByte blocks on an empty pipe, with the main mutex held: a wait
\* that was woken through the pipe must find a byte there when it gets the
\* mutex back, whatever aborted, destroyed and re-created the transmitter.
NeverReadsEmptyPipe ==
  waiter.at = "woken" /\ created /\ "abort" \in waiter.ready => abort.bytes > 0

=============================================================================
