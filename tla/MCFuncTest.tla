----------------------------- MODULE MCFuncTest -----------------------------
(* FuncTestRbsp on small files.  9 stands for every byte the program does  *)
(* not name.                                                               *)
EXTENDS FuncTest

CONSTANT MaxLen

MCByte == {0, 1, 2, 3, 9}
Sparse == {0, 1, 9}

NoOne == Sparse \ {1}

\* Every content of at most MaxLen bytes, and longer ones put together from the
\* start codes and two bits of a body: three chunks, cut everywhere.
AllFiles == BoundedSeq(Sparse, MaxLen)
Pieces == {<<0, 0, 1>>, <<0, 0, 0, 1>>, <<9>>, <<9, 0>>}
PiecedFiles == {FlattenSeq(ps) : ps \in BoundedSeq(Pieces, 4) \ {<<>>}}
WellFormedFiles == {f \in AllFiles \cup PiecedFiles : WellFormed(f)}

\* Streams of one or two units an encoder wrote, the payload at least two bytes
\* and not ending in zero (its last byte holds the stop bit).
Payloads == {<<9, 9>>, <<0, 1>>, <<0, 0, 1>>, <<0, 0, 0, 3>>, <<3, 0, 0, 9>>,
             <<9, 0, 0, 2, 9>>}
Units == [startCodeLen : {3, 4}, head : {9}, payload : Payloads]
Streams == {<<u>> : u \in Units} \cup {<<u, v>> : u, v \in Units}
EncodedFiles == {Encode(s) : s \in Streams}

MCFiles == AllFiles \cup WellFormedFiles \cup EncodedFiles

\* On a file without trailing zeros between its units, and unless a read fails,
\* the program prints nothing but frames of the file, and reads to its end,
\* whatever FindStartCode finds past the end of m_buffer.
WellFormedDelivered ==
  /\ DriverTypeOK
  /\ WellFormed(file) /\ ~ bad => DeliversFileFrames /\ ReadsWholeFile

\* The payloads printed are the payloads the encoder was given, in order, for
\* every cut of the stream into chunks and every byte read past a buffer's end,
\* unless a read fails.
PayloadsRecovered ==
  step = "done" /\ opens > 0 /\ ~ bad =>
    \A s \in Streams :
      file = Encode(s) => rbsps = [k \in DOMAIN s |-> s[k].payload]
=============================================================================
