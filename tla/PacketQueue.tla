---------------------------- MODULE PacketQueue ----------------------------
(***************************************************************************)
(* What an RTPTransmitter promises about the packets it receives, whatever *)
(* carries them: a packet that arrived over a channel (a socket, a         *)
(* connection, the injector) is handed out at most once, in the order of   *)
(* arrival of its channel, and nothing else is.  A packet may be lost: the *)
(* receive mode refuses it, or the transmitter is destroyed.               *)
(***************************************************************************)
EXTENDS Naturals, Sequences

VARIABLES
  pending,  \* what arrived and was not handed out, for every channel
  taken     \* the packet that was handed out last

vars == <<pending, taken>>

Last(s) == s[Len(s)]

\* t is what is left of s when elements are taken out.
IsPartOf(t, s) ==
  \E at \in [1..Len(t) -> 1..Len(s)] :
    /\ \A i \in 1..Len(t) : t[i] = s[at[i]]
    /\ \A i, j \in 1..Len(t) : i < j => at[i] < at[j]

Arrive ==
  /\ \E c \in DOMAIN pending :
       /\ Len(pending'[c]) = Len(pending[c]) + 1
       /\ pending' = [pending EXCEPT ![c] = Append(@, Last(pending'[c]))]
  /\ UNCHANGED taken

Take ==
  \E c \in DOMAIN pending :
    /\ pending[c] # <<>>
    /\ taken' = Head(pending[c])
    /\ pending' = [pending EXCEPT ![c] = Tail(@)]

Lose ==
  /\ DOMAIN pending' = DOMAIN pending
  /\ \A c \in DOMAIN pending : IsPartOf(pending'[c], pending[c])
  /\ UNCHANGED taken

Init == \A c \in DOMAIN pending : pending[c] = <<>>
Next == Arrive \/ Take \/ Lose
Spec == Init /\ [][Next]_vars

=============================================================================
