SPECIFICATION Spec
CONSTANTS
    Images <- MCImages
    NoImage = NoImage
    LastSlot = 1
    BootModes = {0, 1, 5, 7}
    Supported <- MCSupported
    MaxFaults = 2
PROPERTY
    SoftResetFollows
CHECK_DEADLOCK FALSE
