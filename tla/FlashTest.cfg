SPECIFICATION FairSpec
CONSTANTS
  PAGE_COUNT = 2
  SECTOR = 4
  SIXTEENMB = 16
  AddressByte = 8
  Boards <- GoodBoards
  Faults = {"stuck", "high", "low"}
  MaxTests = 2
INVARIANTS TypeOK NoCommandWhileBusy HealthyPasses ModeRestored OutsideUntouched FirstTestHonest
PROPERTIES TestReturns
CHECK_DEADLOCK FALSE
