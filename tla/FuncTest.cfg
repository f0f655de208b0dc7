SPECIFICATION DriverSpec
CONSTANTS
  Byte <- MCByte
  Chunk = 4
  Files <- MCFiles
  OverRead <- Sparse
  ReadErrors = TRUE
  MaxOpens = 1
  MaxLen = 6
INVARIANTS
  WellFormedDelivered
  PayloadsRecovered
PROPERTY
  Terminates
CHECK_DEADLOCK FALSE
