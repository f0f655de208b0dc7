SPECIFICATION FairSpec
CONSTANTS
  a1 = a1
  a2 = a2
  Address <- MCAddress
  MaxPackets = 1
  MaxSessions = 1
PROPERTIES Leaves
CHECK_DEADLOCK FALSE
