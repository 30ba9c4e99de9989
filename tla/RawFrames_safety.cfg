SPECIFICATION Spec
CONSTANTS
    SlotCount = 2
    Sizes = {1, 2}
    MaxFrames = 3
    MaxSessions = 2
    MaxToggles = 0
    MaxPauses = 4
    LateHello = TRUE
INVARIANTS
    TypeOK
    SlotsStable
    NoticeMeansItsSlots
    SlotsAccounted
    ShownIntact
PROPERTY NeverBackwards
CHECK_DEADLOCK FALSE
