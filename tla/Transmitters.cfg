SPECIFICATION FairSpec
CONSTANTS
  MaxAborts = 2
  Host = {h}
  Port = {1, 2}
  MaxPort = 7
  MaxAttempts = 2
  Group = {g}
  MaxPackets = 2
  Connection = {c1, c2}
  Base = 2
  MaxLength = 2
  Source <- MCSource
  h = h
  g = g
  c1 = c1
  c2 = c2
INVARIANTS
  SocketsInOrder
  WaitsAreWoken
  NothingUnasked
PROPERTIES
  DeliversInOrder
  
  WaitsEnd
