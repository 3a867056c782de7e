SPECIFICATION FairSpec
CONSTANTS
  Capacity = 2
  InboxDepth = 2
  MaxFrames = 4
  Commands = {"DRAM_TEST", "NET_TEST", "CONNECT", "RESULT", "FINISH", "unknown"}
INVARIANTS TypeOK AnswersInOrder AnswersHonest
PROPERTIES AcceptedAnswered
CHECK_DEADLOCK FALSE
