SPECIFICATION FairSpec
CONSTANTS
  Depth = 6
  BufWords = 3
  Lengths = {1, 2, 3, 4}
  Patience = 2
  MaxSends = 4
INVARIANTS TypeOK FirstSendHonest
PROPERTIES SendReturns WordLostOnlyInBacklog
CHECK_DEADLOCK FALSE
