---------------------------- MODULE MCFileReader ----------------------------
(* FileReader on small files.  9 stands for every byte but 0 and 1, which  *)
(* are the two the start code test knows.                                  *)
EXTENDS FileReader, SequencesExt

CONSTANT MaxLen

MCByte == {0, 1, 9}
NoOne == MCByte \ {1}

\* Every content of at most MaxLen bytes.
AllFiles == BoundedSeq(MCByte, MaxLen)

\* Contents put together from the start codes and two bits of a body: long
\* enough for three chunks, with a start code at every place of a chunk.
Pieces == {<<0, 0, 1>>, <<0, 0, 0, 1>>, <<9>>, <<9, 0>>}
PiecedFiles == {FlattenSeq(ps) : ps \in BoundedSeq(Pieces, 4) \ {<<>>}}
MCFiles == AllFiles \cup PiecedFiles
=============================================================================
