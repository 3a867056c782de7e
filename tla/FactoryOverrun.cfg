SPECIFICATION FairSpec
CONSTANTS
  Capacity = 5
  InboxDepth = 12
  MaxRuns = 2
  Faults = {"overrun", "socket", "kill"}
INVARIANTS FirstRunHonest LightsMatchRun
PROPERTIES VerdictShown HostTerminates
CHECK_DEADLOCK FALSE
