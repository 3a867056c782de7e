SPECIFICATION FairSpec
CONSTANTS
  Space = 3
  TimeoutMs = 1
  WireDepth = 3
  MaxFrames = 7
INVARIANTS TypeOK HeldIntact
PROPERTIES ImplementsQueue EveryFrameSettled
