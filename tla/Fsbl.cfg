SPECIFICATION Spec
CONSTANTS
    Images <- MCImages
    NoImage = NoImage
    LastSlot = 1
    BootModes = {0, 1, 5, 7}
    Supported <- MCSupported
    MaxFaults = 3
INVARIANTS
    TypeOK
    ExitComplete
    ApuRestartAlone
    WatchdogCovers
    FirstSound
    HungNotRerun
PROPERTIES
    FallsBack
    Settles
CHECK_DEADLOCK FALSE
