SPECIFICATION FairSpec
CONSTANTS
  Capacity = 5
  InboxDepth = 12
  MaxRuns = 2
  Faults = {"overrun"}
INVARIANT SuccessMeansTested
CHECK_DEADLOCK FALSE
