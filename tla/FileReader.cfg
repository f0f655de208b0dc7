SPECIFICATION FairSpec
CONSTANTS
  Byte <- MCByte
  Chunk = 4
  Files <- MCFiles
  OverRead <- NoOne
  ReadErrors = TRUE
  MaxOpens = 2
  MaxLen = 5
INVARIANTS
  ReaderInvariant
  OneFramePerNalu
PROPERTIES
  FailsOnlyWithoutFrame
  CallsReturn
  ImplementsNaluSource
