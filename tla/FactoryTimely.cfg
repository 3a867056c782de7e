SPECIFICATION Spec
CONSTANTS
  Capacity = 5
  InboxDepth = 12
  MaxRuns = 3
  Faults = {"loss", "power", "early"}
INVARIANTS TypeOK SuccessMeansTested OneOutstanding
CHECK_DEADLOCK FALSE
