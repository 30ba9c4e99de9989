SPECIFICATION FairSpec
CONSTANTS
    Sizes = {3, 4, 6}
    Modes = {"raw", "app", "video"}
    MinFrames = 2
    MaxAlignment = 2
    Alignment = 2
    MaxSize = 5
    MaxResizes = 2
    MaxEvents = 1
INVARIANTS
    TypeOK
    NoWorkForgotten
    ShownAtWindowSize
PROPERTIES
    DisplayFollows
    HoldEnds
CHECK_DEADLOCK FALSE
