SPECIFICATION FairSpec
CONSTANTS
  SSRC <- MCSSRC
  Address <- MCAddress
  CName = {"x", "y"}
  RTPPackets <- MCRTPPackets
  Compounds <- MCCompounds
  RTPFrom <- MCRTPFrom
  RTCPFrom <- MCRTCPFrom
  ProbationType = "store"
  ProbationCount = 1
  AcceptOwn = TRUE
  Delay <- MCDelay
  MaxPackets = 3
INVARIANTS
  TableInvariant
  
PROPERTIES
  EntriesKeepIdentity
  SilentLeave
CHECK_DEADLOCK FALSE
