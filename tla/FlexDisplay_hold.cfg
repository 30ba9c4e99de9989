SPECIFICATION FairSpec
CONSTANTS
    Sizes = {3, 4}
    Modes = {"raw"}
    MinFrames = 1
    MaxAlignment = 2
    Alignment = 2
    MaxSize = 0
    MaxResizes = 3
    MaxEvents = 1
PROPERTY
    HoldAlwaysEnds
CHECK_DEADLOCK FALSE
