---------------------------- MODULE MCNaluStream ----------------------------
(* NaluStream on narrow bytes and ints: what matters is where a code lies  *)
(* in its bytes, and how its zeros compare with the width of an int.       *)
EXTENDS NaluStream, SequencesExt

CONSTANTS
  MaxBytes,      \* length of the buffers of AllBuffers
  MaxMagnitude   \* largest magnitude of a signed code

AllBuffers == BoundedSeq(BitByte, MaxBytes)

\* One field, as a call reads it: a bit, three bits, or an Exp-Golomb code.
FieldBits == 3
Fields ==
  [op : {"bit"}, value : {0, 1}]
  \cup [op : {"bits"}, value : {0, 5}]
  \cup [op : {"ue"}, value : 0..2^IntBits - 2]
  \cup [op : {"se"}, value : -MaxMagnitude..MaxMagnitude]

EncodeField(f) ==
  CASE f.op = "bit"  -> <<f.value>>
    [] f.op = "bits" -> LowBits(f.value, FieldBits)
    [] f.op = "ue"   -> UeBits(f.value)
    [] f.op = "se"   -> SeBits(f.value)

\* The bytes of some bits, the last one filled up with a one and zeros.
Pack(bits) ==
  LET bytes == Len(bits) \div ByteBits + 1
      padded == bits \o [k \in 1..bytes * ByteBits - Len(bits) |->
                           IF k = 1 THEN 1 ELSE 0]
  IN  [b \in 1..bytes |->
         [n \in 0..ByteBits - 1 |-> padded[b * ByteBits - n]]]

FieldSeqs == {<<f, g>> : f, g \in Fields}
Packed == [fs \in FieldSeqs |-> Pack(EncodeField(fs[1]) \o EncodeField(fs[2]))]
PackedBuffers == {Packed[fs] : fs \in FieldSeqs}
PackedFrom == [b \in PackedBuffers |-> {fs \in FieldSeqs : Packed[fs] = b}]
MCBuffers == AllBuffers \cup PackedBuffers

\* The call that returned r was the one that reads the field f.
ReadAs(r, f) == r.op = f.op /\ (r.op = "bits" => r.n = FieldBits)

\* Fields written one after the other are read back with the values they were
\* written with, by the calls that match them, wherever they lie in the bytes
\* (and the variables keep their types).
FieldsReadBack ==
  /\ TypeOK
  /\ op = "idle" /\ m_buffer \in PackedBuffers =>
       \A fs \in PackedFrom[m_buffer] : \A k \in DOMAIN results :
         k <= 2 /\ (\A j \in 1..k : ReadAs(results[j], fs[j]))
            => results[k].value = fs[k].value
=============================================================================
