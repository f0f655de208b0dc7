------------------------ MODULE MCRTCPPacketBuilder ------------------------
(***************************************************************************)
(* RTCPPacketBuilder on a small instance.  The sizes are the real ones but *)
(* for a report block, which is made so large that a packet of the         *)
(* smallest legal size holds two or three, and for MaxCount, which splits  *)
(* the third block off into a report packet of its own.                    *)
(***************************************************************************)
EXTENDS RTCPPacketBuilder

CONSTANTS s1, s2, s3

MCSources == {s1, s2, s3}
AnyOrder == Permutations(MCSources)

MCItemId == [CNAME |-> 1, NAME |-> 2, NOTE |-> 7]
MCItemOrder == <<"NAME", "NOTE">>
MCIntervals == {[NAME |-> 1, NOTE |-> 2]}

=============================================================================
