----------------------------- MODULE MCDecoders -----------------------------
(***************************************************************************)
(* The two decoders behind a NAL unit on small instances: Ebsp, which      *)
(* takes the emulation prevention bytes out, and NaluStream, which reads   *)
(* the fields of a payload.  They share no state; a behaviour runs one of  *)
(* them, and the other stands still.                                       *)
(*                                                                         *)
(* NaluStream has narrow bytes and ints: what matters is where a code lies *)
(* in its bytes, and how its zeros compare with the width of an int.  For  *)
(* Ebsp 4 stands for every byte the loop does not name.                    *)
(***************************************************************************)
EXTENDS MCNaluStream

CONSTANTS
  Byte,       \* the constants of Ebsp
  Ebsps,
  OverRead,
  MaxLen      \* bytes of the body of an ebsp of AllEbsps

VARIABLES
  decoder,    \* the one that runs, "ebsp" or "stream"
  ebsp, epc, eidx, ebuffer, erbsp

ebspVars == <<ebsp, epc, eidx, ebuffer, erbsp>>

MCByte == 0..4
MCOverRead == {1, 4}
AllEbsps == {e \in BoundedSeq(MCByte, MaxLen + 1) : e = <<>> \/ e[1] = 4}

E == INSTANCE Ebsp WITH
       m_buffer <- ebsp, pc <- epc, idx <- eidx, buffer <- ebuffer, rbsp <- erbsp

ASSUME DecodersAssumption == E!EbspAssumption

NoEbsp == ebsp = <<>> /\ epc = "false" /\ eidx = 3 /\ ebuffer = <<>> /\ erbsp = <<>>

DecodersInit ==
  \/ decoder = "ebsp" /\ E!Init /\ NaluInit /\ m_buffer = <<>>
  \/ decoder = "stream" /\ NoEbsp /\ NaluInit

StepsEbsp == decoder = "ebsp" /\ E!Next /\ UNCHANGED <<decoder, allVars>>
StepsStream == decoder = "stream" /\ Next /\ UNCHANGED <<decoder, ebspVars>>
DecodersNext == StepsEbsp \/ StepsStream

\* A call that was made is executed: nothing in the process blocks it.
DecodersSpec ==
  /\ DecodersInit /\ [][DecodersNext]_<<decoder, allVars, ebspVars>>
  /\ WF_<<decoder, allVars, ebspVars>>(StepsEbsp)
  /\ WF_<<decoder, allVars, ebspVars>>(StepsStream /\ op # "idle")

\* getRbsp undoes the encoder (and its variables keep their types).
UndoesEscape == E!TypeOK /\ E!UndoesEscape

\* It drops exactly the bytes its comment lists.
DropsOnlyListed == E!DropsOnlyListed

\* It returns.
Returns == E!Returns
=============================================================================
