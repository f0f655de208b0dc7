----------------------------- MODULE BitStream ------------------------------
(***************************************************************************)
(* Common::BitStream, a reader of a byte vector bit by bit, most           *)
(* significant bit first.  m_bitOffset is the number of bits not yet read  *)
(* of the byte at m_pos.  A byte is the function from bit numbers to bits, *)
(* so (byte >> n) & 1 is byte[n].                                          *)
(*                                                                         *)
(* readNBits is split where its loop turns.  An int is its bit pattern,    *)
(* 0..2^IntBits - 1; Signed is the value it stands for.                    *)
(***************************************************************************)
EXTENDS Integers, Sequences

CONSTANTS
  ByteBits,  \* bits of a byte (8)
  IntBits,   \* bits of an int, and the 32 of readUev's and readSev's loops
  Buffers,   \* the contents m_buffer may have
  Counts,    \* the counts readNBits is called with
  MaxCalls   \* bound: the calls made on one stream

Bit == {0, 1}
BitByte == [0..ByteBits - 1 -> Bit]

ASSUME ByteBitsAssumption == ByteBits \in Nat \ {0}
ASSUME IntBitsAssumption == IntBits \in Nat \ {0, 1}
ASSUME BuffersAssumption == Buffers \subseteq Seq(BitByte)
ASSUME CountsAssumption == Counts \subseteq 0..IntBits
ASSUME MaxCallsAssumption == MaxCalls \in Nat

VARIABLES
  m_buffer, m_pos, m_bitOffset,
  op,       \* the call that runs: "idle", "bits" (readNBits), "ue" or "se"
  pc,       \* "zeros": readUev and readSev count zeros; "bits": readNBits runs
  count,    \* locals of readNBits; idx counts the bits already taken
  idx,
  ret,
  results   \* history: the calls that returned, how many bits readNBits took for
            \* them, and what they returned

stream == <<m_buffer, m_pos, m_bitOffset>>
vars == <<m_buffer, m_pos, m_bitOffset, op, pc, count, idx, ret, results>>

\* The value of a bit pattern as an int.
Signed(pattern) ==
  IF pattern < 2^(IntBits - 1) THEN pattern ELSE pattern - 2^IntBits

-----------------------------------------------------------------------------
(* The position.                                                           *)

IsEnd == m_pos >= Len(m_buffer)

\* Faulty variant: the bit at m_bitOffset counts as read.
RemainBitSizeLess == Len(m_buffer) * ByteBits - m_pos * ByteBits - (ByteBits - m_bitOffset + 1)

RemainBitSize == Len(m_buffer) * ByteBits - m_pos * ByteBits - (ByteBits - m_bitOffset)

\* readOneBit, not at the end: the bit it returns, and how it moves on.
NextBit == m_buffer[m_pos + 1][m_bitOffset - 1]

\* Faulty variant: a byte ends one bit early.
AdvanceEarly ==
  /\ m_pos' = IF m_bitOffset <= 2 THEN m_pos + 1 ELSE m_pos
  /\ m_bitOffset' = IF m_bitOffset <= 2 THEN ByteBits ELSE m_bitOffset - 1
  /\ UNCHANGED m_buffer

Advance ==
  /\ m_pos' = IF m_bitOffset = 1 THEN m_pos + 1 ELSE m_pos
  /\ m_bitOffset' = IF m_bitOffset = 1 THEN ByteBits ELSE m_bitOffset - 1
  /\ UNCHANGED m_buffer

\* A call returns; its locals are dead.
Return(call, value) ==
  /\ op' = "idle"
  /\ pc' = "idle"
  /\ count' = 0
  /\ idx' = 0
  /\ ret' = 0
  /\ results' = Append(results, [op |-> call, n |-> count, value |-> value])

-----------------------------------------------------------------------------
(* The calls.                                                              *)

Init ==
  /\ m_buffer \in Buffers
  /\ m_pos = 0
  /\ m_bitOffset = ByteBits
  /\ op = "idle"
  /\ pc = "idle"
  /\ count = 0
  /\ idx = 0
  /\ ret = 0
  /\ results = <<>>

\* The caller makes a call.
Ready ==
  /\ op = "idle"
  /\ Len(results) < MaxCalls

ReadOneBit ==
  /\ Ready
  /\ ~ IsEnd
  /\ Advance
  /\ Return("bit", NextBit)

ReadOneBitAtEnd ==
  /\ Ready
  /\ IsEnd
  /\ Return("bit", -1)
  /\ UNCHANGED stream

\* Faulty variant: the count is not cut.
EnterReadNBitsUncut(n, remain) ==
  /\ pc' = "bits"
  /\ count' = n
  /\ idx' = 0
  /\ ret' = 0

\* readNBits starts: the count is cut to what is left.
EnterReadNBits(n, remain) ==
  /\ pc' = "bits"
  /\ count' = IF n <= remain THEN n ELSE remain
  /\ idx' = 0
  /\ ret' = 0

ReadNBits(n) ==
  /\ Ready
  /\ op' = "bits"
  /\ EnterReadNBits(n, RemainBitSize)
  /\ UNCHANGED <<stream, results>>

\* One turn of the loop.  The bits fall on different places of ret, so |= adds.
\* readOneBit is not at the end here; that it never is, so that -1 never gets
\* into ret, is BitsAreThere in NaluStream.
TakeBit ==
  /\ pc = "bits"
  /\ idx < count
  /\ ~ IsEnd
  /\ ret' = ret + NextBit * 2^(count - idx - 1)
  /\ idx' = idx + 1
  /\ Advance
  /\ UNCHANGED <<op, pc, count, results>>

ReturnBits ==
  /\ pc = "bits"
  /\ op = "bits"
  /\ idx = count
  /\ Return("bits", Signed(ret))
  /\ UNCHANGED stream
=============================================================================
