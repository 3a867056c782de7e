SPECIFICATION Spec
CONSTANTS
  PAGE_COUNT = 2
  SECTOR = 4
  SIXTEENMB = 16
  AddressByte = 8
  Boards <- SpansionParallel
  Faults = {}
  MaxTests = 1
INVARIANT HealthyPasses
CHECK_DEADLOCK FALSE
