----------------------------- MODULE NaluStream -----------------------------
(***************************************************************************)
(* AnnexB::NaluStream, a BitStream that also reads Exp-Golomb codes, under *)
(* a caller that makes any calls in any order, past the end of the buffer  *)
(* too.  An n-zero code is n zeros, a one and n more bits; readUev and     *)
(* readSev count the zeros up to and including the one bit by bit, then    *)
(* let readNBits take the rest.                                            *)
(***************************************************************************)
EXTENDS BitStream

VARIABLE zeroPosCount  \* local of readUev and readSev

allVars == <<vars, zeroPosCount>>

TypeOK ==
  /\ m_buffer \in Seq(BitByte)
  /\ m_pos \in 0..Len(m_buffer)
  /\ m_bitOffset \in 1..ByteBits
  /\ op \in {"idle", "bits", "ue", "se"}
  /\ pc \in {"idle", "zeros", "bits"}
  /\ count \in Nat
  /\ idx \in 0..count
  /\ ret \in Nat
  /\ results \in Seq([op : {"bit", "bits", "ue", "se"}, n : Nat, value : Int])
  /\ zeroPosCount \in 0..IntBits

NaluInit ==
  /\ Init
  /\ zeroPosCount = 0

BitStreamCall ==
  /\ \/ ReadOneBit
     \/ ReadOneBitAtEnd
     \/ \E n \in Counts : ReadNBits(n)
     \/ TakeBit
     \/ ReturnBits
  /\ UNCHANGED zeroPosCount

ReadExpGolomb(call) ==
  /\ Ready
  /\ op' = call
  /\ pc' = "zeros"
  /\ UNCHANGED <<stream, count, idx, ret, results, zeroPosCount>>

-----------------------------------------------------------------------------
(* The loop over the zeros.  Its condition reads a bit before it looks at  *)
(* the end of the buffer and at the number of zeros.                       *)

CountZero ==
  /\ pc = "zeros"
  /\ ~ IsEnd
  /\ NextBit = 0
  /\ Advance
  /\ ~ IsEnd'
  /\ zeroPosCount < IntBits
  /\ zeroPosCount' = zeroPosCount + 1
  /\ UNCHANGED <<op, pc, count, idx, ret, results>>

ZerosEnd ==
  /\ pc = "zeros"
  /\ ~ IsEnd
  /\ Advance
  /\ NextBit = 1 \/ IsEnd' \/ zeroPosCount = IntBits
  /\ EnterReadNBits(zeroPosCount, RemainBitSize')
  /\ UNCHANGED <<op, results, zeroPosCount>>

\* Faulty variant: the loop waits for a one and not for the end of the zeros.
ZerosPastEndWaits ==
  /\ pc = "zeros"
  /\ IsEnd
  /\ UNCHANGED allVars

\* readOneBit returns -1.
ZerosPastEnd ==
  /\ pc = "zeros"
  /\ IsEnd
  /\ EnterReadNBits(zeroPosCount, RemainBitSize)
  /\ UNCHANGED <<stream, op, results, zeroPosCount>>

-----------------------------------------------------------------------------
(* The value.                                                              *)

\* ret |= 1 << zeroPosCount.  A shift by the width of an int is undefined: the
\* machine shifts by nothing, or everything out.
Patterns ==
  IF zeroPosCount < IntBits THEN {ret + 2^zeroPosCount}
  ELSE {ret, ret + 1 - (ret % 2)}

Leave(value) ==
  /\ Return(op, value)
  /\ zeroPosCount' = 0
  /\ UNCHANGED stream

\* ret - 1, as a uint32_t.  For ret the smallest int the subtraction overflows;
\* the Debug build CMakeLists.txt asks for wraps it.
ReturnUev ==
  /\ pc = "bits" /\ op = "ue" /\ idx = count
  /\ \E pattern \in Patterns : Leave((pattern - 1) % 2^IntBits)

\* Faulty variant: the sign is taken the other way round.
ReturnSevSwapped ==
  /\ pc = "bits" /\ op = "se" /\ idx = count
  /\ \E pattern \in Patterns :
       LET half == Signed(pattern) \div 2
       IN  Leave(IF pattern % 2 = 0 THEN -half ELSE half)

\* ret >> 1 keeps the sign bit of the int.
ReturnSev ==
  /\ pc = "bits" /\ op = "se" /\ idx = count
  /\ \E pattern \in Patterns :
       LET half == Signed(pattern) \div 2
       IN  Leave(IF pattern % 2 = 0 THEN half ELSE -half)

Next ==
  \/ BitStreamCall
  \/ \E call \in {"ue", "se"} : ReadExpGolomb(call)
  \/ CountZero
  \/ ZerosEnd
  \/ ZerosPastEnd
  \/ ReturnUev
  \/ ReturnSev

Spec == NaluInit /\ [][Next]_allVars

\* A call that was made is executed: nothing in the process blocks it.
RunningCall == op # "idle" /\ Next

FairSpec == Spec /\ WF_allVars(RunningCall)

-----------------------------------------------------------------------------
(* The encoder that wrote the buffer.  It is not part of this program; its *)
(* rules are in the comments above readUev and readSev.                    *)

\* The n low bits of v.
LowBits(v, n) == [k \in 1..n |-> (v \div 2^(n - k)) % 2]

Digits(v) == CHOOSE n \in 1..IntBits + 1 : 2^(n - 1) <= v /\ v < 2^n

\* A number v > 0 behind as many zeros as it has digits, less one.
Golomb(v) == [k \in 1..Digits(v) - 1 |-> 0] \o LowBits(v, Digits(v))

UeBits(v) == Golomb(v + 1)

\* The binary digits of the magnitude, then the sign.
SeBits(v) == Golomb(IF v > 0 THEN 2 * v ELSE -2 * v + 1)

-----------------------------------------------------------------------------
(* Properties.                                                             *)

\* While readNBits runs, the bits it still wants are in the buffer: cutting the
\* count once, before the loop, keeps readOneBit from ever returning -1 into
\* ret, wherever in a byte the call began.
BitsAreThere == pc = "bits" => count - idx <= RemainBitSize

\* The unsigned arithmetic of getRemainBitSize does not wrap, and is zero at the
\* end only.
RemainIsExact ==
  /\ RemainBitSize >= 0
  /\ RemainBitSize = 0 <=> IsEnd

\* Reading never moves back, and at most one bit forward.
ReadsForward ==
  [][RemainBitSize' \in {RemainBitSize, RemainBitSize - 1}]_stream

\* Every call returns, on any bits, however many zeros there are.
CallsReturn == op # "idle" ~> op = "idle"
=============================================================================
