----------------------------- MODULE NaluSource -----------------------------
(***************************************************************************)
(* What FileReader promises its caller: the bytes it is fed form one       *)
(* stream, and every successful read hands out the next frame of that      *)
(* stream, whole and only once; a read fails only when no frame starts     *)
(* where the last one ended.  How the bytes are fetched is not visible.    *)
(***************************************************************************)
EXTENDS StartCodes

CONSTANT Files  \* the contents a file may have

VARIABLES
  source,   \* the stream: what was fed and what the open file still holds
  taken,    \* how many of its bytes were handed out
  frame,    \* the frame the caller's Nalu object holds
  result    \* what the last finished read returned

vars == <<source, taken, frame, result>>

Init ==
  /\ source = <<>>
  /\ taken = 0
  /\ frame = <<>>
  /\ result = "none"

\* A file is opened, or what was not fetched of the open one is lost when the
\* file is closed or fails.
Feed ==
  /\ UNCHANGED <<taken, frame, result>>
  /\ \E k \in taken..Len(source) :
       /\ SubSeq(source', 1, k) = SubSeq(source, 1, k)
       /\ k = Len(source') \/ SubSeq(source', k + 1, Len(source')) \in Files

Deliver ==
  /\ result' = "true"
  /\ UNCHANGED source
  /\ \E n \in {3, 4}, e \in taken..Len(source) :
       /\ taken' = e
       /\ frame' = SubSeq(source, taken + 1, e)
       /\ Frame(source, taken, n, e)

NoFrame ==
  /\ result' = "false"
  /\ UNCHANGED <<source, taken, frame>>
  /\ ~ Boundary(source, taken)

\* The caller reuses its Nalu object.
Discard ==
  /\ frame' = <<>>
  /\ UNCHANGED <<source, taken, result>>

Next == Feed \/ Deliver \/ NoFrame \/ Discard

Spec == Init /\ [][Next]_vars
=============================================================================
