SPECIFICATION FairSpec
CONSTANTS
    Sizes = {3, 4}
    Modes = {"raw"}
    MinFrames = 1
    MaxAlignment = 2
    Alignment = 2
    MaxSize = 0
    MaxResizes = 2
    MaxEvents = 1
PROPERTY
    DisplayAlwaysFollows
CHECK_DEADLOCK FALSE
