SPECIFICATION DriverSpec
CONSTANTS
  Byte <- Sparse
  Chunk = 4
  Files <- AllFiles
  OverRead <- Sparse
  ReadErrors = FALSE
  MaxOpens = 1
  MaxLen = 7
INVARIANTS
  ReadsWholeFile
CHECK_DEADLOCK FALSE
