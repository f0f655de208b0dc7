----------------------------- MODULE StartCodes -----------------------------
(***************************************************************************)
(* Annex B byte streams, as Nalu.h draws them: a NAL unit is a start code  *)
(* (00 00 01 or 00 00 00 01), a head byte and a body, and the next NAL     *)
(* unit begins at the next start code.  These operators are the reference  *)
(* the reader is checked against; none of them reads outside its argument. *)
(* Offsets are 0-based as in the code: offset o of s is s[o + 1].          *)
(***************************************************************************)
EXTENDS Integers, Sequences

\* A start code of n bytes (n zeros but the last, which is one) lies at offset o.
StartCodeAt(s, o, n) ==
  /\ o + n <= Len(s)
  /\ \A k \in 1..n-1 : s[o + k] = 0
  /\ s[o + n] = 1

Boundary(s, o) == \E n \in {3, 4} : StartCodeAt(s, o, n)

\* The frame that starts at offset o of s with an n-byte start code ends at
\* offset e: at the first start code after its own, or with s.
Frame(s, o, n, e) ==
  /\ StartCodeAt(s, o, n)
  /\ e \in o + n .. Len(s)
  /\ e = Len(s) \/ Boundary(s, e)
  /\ \A i \in o + n .. e - 1 : ~ Boundary(s, i)

\* Three zero bytes only ever begin a four-byte start code.  A NAL unit never
\* holds three zeros in a row (that is what emulation prevention is for), so
\* this says that the stream has no trailing zero bytes between its units.
WellFormed(s) ==
  \A o \in 0..Len(s) - 3 :
    (\A k \in 1..3 : s[o + k] = 0) => StartCodeAt(s, o, 4)
=============================================================================
