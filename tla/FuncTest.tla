------------------------------ MODULE FuncTest ------------------------------
(***************************************************************************)
(* The program main.cpp runs, FuncTestRbsp: it opens the file, reads one   *)
(* NAL unit after the other, turns each into its payload and prints it,    *)
(* and closes the file.  FileReader is composed with its only caller here, *)
(* so the calls come in the caller's order; Nalu, Ebsp and Rbsp contribute *)
(* the conversions of the loop body.                                       *)
(***************************************************************************)
EXTENDS FileReader, NalUnit

VARIABLES
  step,    \* where FuncTestRbsp is
  rbsps    \* history: the payloads printed

driverVars == <<step, rbsps>>
allVars == <<vars, step, rbsps>>

DriverTypeOK ==
  /\ TypeOK
  /\ step \in {"start", "loop", "reading", "body", "close", "done"}
  /\ rbsps \in Seq(Seq(Byte))

DriverInit ==
  /\ Init
  /\ step = "start"
  /\ rbsps = <<>>

OpenFile ==
  /\ step = "start"
  /\ Open
  /\ step' = "loop"
  /\ UNCHANGED rbsps

\* The file is missing or unreadable: FuncTestRbsp returns.
OpenFails ==
  /\ step = "start"
  /\ step' = "done"
  /\ UNCHANGED <<vars, rbsps>>

CallReader ==
  /\ step = "loop"
  /\ CallReadNalu
  /\ step' = "reading"
  /\ UNCHANGED rbsps

\* Faulty variant: the result of readNalu is not looked at.
RunReaderIgnoresFalse ==
  /\ step = "reading"
  /\ ReadNalu
  /\ step' = IF pc' # "idle" THEN "reading" ELSE "body"
  /\ UNCHANGED rbsps

RunReader ==
  /\ step = "reading"
  /\ ReadNalu
  /\ step' = IF pc' # "idle" THEN "reading"
             ELSE IF result' = "true" THEN "body" ELSE "close"
  /\ UNCHANGED rbsps

\* A unit that is only a start code has no ebsp and prints nothing.
PrintUnit(past) ==
  /\ step = "body"
  /\ rbsps' = IF IsValid(nalu) THEN Append(rbsps, GetRbsp(GetEbsp(nalu), past))
              ELSE rbsps
  /\ ClearNalu
  /\ step' = "loop"

CloseFile ==
  /\ step = "close"
  /\ Close
  /\ step' = "done"
  /\ UNCHANGED rbsps

DriverNext ==
  \/ OpenFile
  \/ OpenFails
  \/ CallReader
  \/ RunReader
  \/ \E past \in OverRead \X OverRead : PrintUnit(past)
  \/ CloseFile

\* The one thread of the process keeps running.
DriverSpec == DriverInit /\ [][DriverNext]_allVars /\ WF_allVars(DriverNext)

-----------------------------------------------------------------------------
(* Properties.                                                             *)

\* The program prints all of a file that starts with a start code: it does not
\* stop before the end, and leaves nothing behind in m_buffer.
ReadsWholeFile ==
  step = "done" /\ isOpen = FALSE /\ opens > 0 /\ Boundary(file, 0) =>
    taken = Len(file) /\ m_buffer = <<>>

\* The program ends, whatever the file holds and wherever a read fails.
Terminates == <>(step = "done")
=============================================================================
