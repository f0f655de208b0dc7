SPECIFICATION FairSpec
CONSTANTS
  a1 = a1
  a2 = a2
  Address <- MCAddress
  MaxPackets = 2
  MaxSessions = 2
INVARIANTS StartedMeansStarted OwnEntryMatches LeavesProperly 
PROPERTIES AccessIsStable LeavesInTime
CHECK_DEADLOCK FALSE
