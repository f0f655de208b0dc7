-------------------------------- MODULE Ebsp --------------------------------
(***************************************************************************)
(* Ebsp::getRbsp, one step per turn of its loop, on any non-empty or empty *)
(* ebsp.  At every offset from 3 on the loop looks back two bytes and      *)
(* ahead one; the two bytes before that are copied unseen.                 *)
(***************************************************************************)
EXTENDS NalUnit

CONSTANTS
  Byte,      \* byte values
  Ebsps,     \* the contents m_buffer may have
  OverRead   \* values a byte past the end of m_buffer may have

\* What the constants have to be; MCDecoders assumes it of its instance.
EbspAssumption ==
  /\ Byte \subseteq Nat /\ 0..3 \subseteq Byte
  /\ Ebsps \subseteq Seq(Byte)
  /\ OverRead \subseteq Byte /\ OverRead # {}

VARIABLES
  m_buffer,  \* the ebsp: head byte and body
  pc,        \* "call", "loop", "true" or "false": what getRbsp returned
  idx,       \* locals of getRbsp
  buffer,
  rbsp       \* the caller's Rbsp

vars == <<m_buffer, pc, idx, buffer, rbsp>>

TypeOK ==
  /\ m_buffer \in Seq(Byte)
  /\ pc \in {"call", "loop", "true", "false"}
  /\ idx \in Nat
  /\ buffer \in Seq(Byte)
  /\ rbsp \in Seq(Byte)

Init ==
  /\ m_buffer \in Ebsps
  /\ pc = "call"
  /\ idx = 3
  /\ buffer = <<>>
  /\ rbsp = <<>>

Invalid ==
  /\ pc = "call"
  /\ m_buffer = <<>>
  /\ pc' = "false"
  /\ UNCHANGED <<m_buffer, idx, buffer, rbsp>>

CopyFirstTwo(past) ==
  /\ pc = "call"
  /\ m_buffer # <<>>
  /\ buffer' = FirstTwo(m_buffer, past)
  /\ pc' = "loop"
  /\ UNCHANGED <<m_buffer, idx, rbsp>>

KeepByte ==
  /\ pc = "loop"
  /\ idx < Len(m_buffer)
  /\ ~ IsEmulationByte(m_buffer, idx)
  /\ buffer' = Append(buffer, m_buffer[idx + 1])
  /\ idx' = idx + 1
  /\ UNCHANGED <<m_buffer, pc, rbsp>>

\* Faulty variants: the byte behind the 03 is passed over, or the loop goes on
\* without counting.
DropByteAndNext ==
  /\ pc = "loop"
  /\ idx < Len(m_buffer)
  /\ IsEmulationByte(m_buffer, idx)
  /\ idx' = idx + 2
  /\ UNCHANGED <<m_buffer, pc, buffer, rbsp>>

DropByteStays ==
  /\ pc = "loop"
  /\ idx < Len(m_buffer)
  /\ IsEmulationByte(m_buffer, idx)
  /\ UNCHANGED vars

DropByte ==
  /\ pc = "loop"
  /\ idx < Len(m_buffer)
  /\ IsEmulationByte(m_buffer, idx)
  /\ idx' = idx + 1
  /\ UNCHANGED <<m_buffer, pc, buffer, rbsp>>

SetRbsp ==
  /\ pc = "loop"
  /\ idx >= Len(m_buffer)
  /\ rbsp' = buffer
  /\ pc' = "true"
  /\ UNCHANGED <<m_buffer, idx, buffer>>

Next ==
  \/ Invalid
  \/ \E past \in OverRead \X OverRead : CopyFirstTwo(past)
  \/ KeepByte
  \/ DropByte
  \/ SetRbsp

Spec == Init /\ [][Next]_vars /\ WF_vars(Next)

-----------------------------------------------------------------------------
(* Properties.                                                             *)

Body == Tail(m_buffer)

\* The bodies an encoder can have written: two zeros are followed by a byte
\* above 03, or by an emulation prevention byte and a byte of at most 03.
Escaped(body) ==
  \A i \in 1..Len(body) - 2 :
    body[i] = 0 /\ body[i + 1] = 0 =>
      \/ body[i + 2] > 3
      \/ body[i + 2] = 3 /\ i + 3 <= Len(body) /\ body[i + 3] <= 3

\* getRbsp undoes the encoder: escaping the payload again gives the body back.
\* The two bytes copied before the loop and the look-back into the unstripped
\* body must not make it miss a byte, or take one for an emulation byte.
UndoesEscape ==
  pc = "true" /\ Len(Body) >= 2 /\ Escaped(Body) => Escape(rbsp) = Body

\* On every ebsp of three bytes or more, also one that no encoder writes, the
\* loop drops exactly the bytes its comment lists; a 03 at the very end stays.
DropsOnlyListed ==
  pc = "true" /\ Len(m_buffer) >= 3 => rbsp = GetRbsp(m_buffer, <<0, 0>>)

\* Rbsp.h: the rbsp is the ebsp without the head byte and without emulation
\* prevention bytes.  So it is never longer than the body.
RbspIsPayload == pc = "true" => Len(rbsp) <= Len(Body)

\* getRbsp returns.
Returns == <>(pc \in {"true", "false"})
=============================================================================
