SPECIFICATION BuilderSpec
CONSTANTS
  ReportBlockBytes = 100
  MaxCount = 2
  MinPacketSize = 600
  ItemId <- MCItemId
  Own = 9
  s1 = s1
  s2 = s2
  s3 = s3
  Sources <- MCSources
  ItemOrder <- MCItemOrder
  CnameBytes = 255
  ItemLengths = {255}
  Intervals <- MCIntervals
  Cycle = 2
  PacketSizes = {600, 700}
  Reasons = {255}
  AppLengths = {8}
  MaxWait = 3
SYMMETRY AnyOrder
INVARIANT ReportedOnce
