SPECIFICATION FairSpec
CONSTANTS
  MaxMembers = 3
  MaxBYEs = 2
  Sizes = {1, 2}
  MinInterval = 4
  HalfAtStartup = TRUE
  ImmediateBYE = TRUE
  FewMembers = 2
  Share = 2
INVARIANT NotTwiceAtOnce
PROPERTIES ReportsAreSpaced LeavingNeverDelays KeepsReporting
