SPECIFICATION DecodersSpec
CONSTANTS
  ByteBits = 3
  IntBits = 4
  Buffers <- MCBuffers
  Counts = {0, 3, 4}
  MaxCalls = 3
  MaxBytes = 2
  MaxMagnitude = 3
  Byte <- MCByte
  Ebsps <- AllEbsps
  MaxLen = 6
  OverRead <- MCOverRead
INVARIANTS
  UndoesEscape
  DropsOnlyListed
  BitsAreThere
  RemainIsExact
  FieldsReadBack
PROPERTIES
  Returns
  ReadsForward
  CallsReturn
CHECK_DEADLOCK FALSE
