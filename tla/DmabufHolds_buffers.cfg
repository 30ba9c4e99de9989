SPECIFICATION FairSpec
CONSTANTS
    Buffers = {b1, b2}
    NoBuffer = NoBuffer
    MaxHeld = 1
    MaxFrames = 2
    MaxSessions = 2
    MaxToggles = 1
    MaxRaw = 1
    Timestamps = TRUE
INVARIANTS
    TypeOK
    NoHoldOutlivesRelease
    BuffersComeBack
    HoldsAccounted
PROPERTIES
    ReleasedOnce
    HoldsEnd
CHECK_DEADLOCK FALSE
