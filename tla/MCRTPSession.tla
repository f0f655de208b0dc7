---------------------------- MODULE MCRTPSession ----------------------------
(* Two addresses that may collide with the session's SSRC.                 *)
EXTENDS RTPSession

CONSTANTS a1, a2

MCAddress == {a1, a2}

=============================================================================
