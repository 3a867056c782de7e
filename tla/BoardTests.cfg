SPECIFICATION Spec
CONSTANTS
    Plans <- MCPlans
    RxRetries = 2
    MaxPolls = 1
    MaxFaults = 2
    MaxFrames = 2
    RxDepth = 2
    NRanges = 2
    Cached = {2}
    Size = 5
    TestWords = 4
    WalkWords = 2
    Wrap = 3
    CacheSize = 2
INVARIANTS
    TypeOK
    BusMatchesUsers
    AnswerOwn
    PassIsForeign
    Verdict
PROPERTY
    TestsReturn
CHECK_DEADLOCK FALSE
