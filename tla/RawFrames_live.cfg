SPECIFICATION FairSpec
CONSTANTS
    SlotCount = 3
    Sizes = {1}
    MaxFrames = 4
    MaxSessions = 1
    MaxToggles = 1
    MaxPauses = 2
    LateHello = FALSE
PROPERTIES
    LatestShown
    ImplementsFrameChannel
CHECK_DEADLOCK FALSE
