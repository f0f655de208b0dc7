------------------------------ MODULE NalUnit -------------------------------
(***************************************************************************)
(* The chain from a NAL unit to its payload: Nalu (start code, head,       *)
(* body), Ebsp (head, body with emulation prevention bytes) and Rbsp (the  *)
(* payload).  The three classes only wrap a byte vector, so a value of one *)
(* is the sequence it holds, and their conversions are operators.          *)
(***************************************************************************)
EXTENDS Integers, SequencesExt

\* Nalu::isValid
IsValid(nalu) ==
  /\ nalu.buffer # <<>>
  /\ nalu.startCodeLen # 0
  /\ Len(nalu.buffer) > nalu.startCodeLen

\* Faulty variant: the last byte of the start code is taken along.
GetEbspKeepsOne(nalu) == SubSeq(nalu.buffer, nalu.startCodeLen, Len(nalu.buffer))

\* Nalu::getEbsp on a valid unit
GetEbsp(nalu) == SubSeq(nalu.buffer, nalu.startCodeLen + 1, Len(nalu.buffer))

-----------------------------------------------------------------------------
(* Ebsp::getRbsp.  Offsets are 0-based; past is what two reads behind the  *)
(* end of the vector find.                                                 *)

\* Faulty variant: a 03 behind the 03 is forgotten.
IsEmulationByteUpToTwo(ebsp, i) ==
  /\ ebsp[i + 1] = 3
  /\ ebsp[i - 1] = 0 /\ ebsp[i] = 0
  /\ i + 1 < Len(ebsp)
  /\ ebsp[i + 2] \in 0..2

\* The test the loop makes at offset i >= 3: the byte is a 03 put there by the
\* encoder between two zeros and a byte of at most 03.
IsEmulationByte(ebsp, i) ==
  /\ ebsp[i + 1] = 3
  /\ ebsp[i - 1] = 0 /\ ebsp[i] = 0
  /\ i + 1 < Len(ebsp)
  /\ ebsp[i + 2] \in 0..3

\* The vector built from offsets 1 and 2 before the loop, whether or not the
\* vector has them.
FirstTwo(ebsp, past) ==
  [k \in 1..2 |-> IF k < Len(ebsp) THEN ebsp[k + 1] ELSE past[k]]

\* The element of a set that has one.
The(set) == CHOOSE x \in set : TRUE

\* The offsets the loop has passed over and keeps when it comes to offset end.
Kept(ebsp, end) == {i \in 3..end - 1 : ~ IsEmulationByte(ebsp, i)}

\* The n-th of some offsets.
Nth(offsets, n) == The({i \in offsets : Cardinality({j \in offsets : j <= i}) = n})

\* The bytes at these offsets, in their order.
KeptBytes(ebsp, end) ==
  [k \in 1..Cardinality(Kept(ebsp, end)) |-> ebsp[Nth(Kept(ebsp, end), k) + 1]]

\* The result of getRbsp on a non-empty ebsp.
GetRbsp(ebsp, past) == FirstTwo(ebsp, past) \o KeptBytes(ebsp, Len(ebsp))

-----------------------------------------------------------------------------
(* The encoder that wrote the stream.  It is not part of this program; what*)
(* it does is what getRbsp undoes.                                         *)

\* A 03 goes in front of a byte of at most 03 that would follow two zeros.
Emit(out, b) ==
  IF b <= 3 /\ Len(out) >= 2 /\ out[Len(out) - 1] = 0 /\ out[Len(out)] = 0
  THEN out \o <<3, b>>
  ELSE Append(out, b)

Escape(payload) ==
  LET out[n \in 0..Len(payload)] ==
        IF n = 0 THEN <<>> ELSE Emit(out[n - 1], payload[n])
  IN  out[Len(payload)]

StartCode(n) == IF n = 3 THEN <<0, 0, 1>> ELSE <<0, 0, 0, 1>>

\* The byte stream of a sequence of units.
Encode(units) ==
  FlattenSeq([k \in DOMAIN units |->
    StartCode(units[k].startCodeLen) \o <<units[k].head>> \o Escape(units[k].payload)])
=============================================================================
