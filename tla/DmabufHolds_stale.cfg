SPECIFICATION Spec
CONSTANTS
    Buffers = {b1, b2, b3}
    NoBuffer = NoBuffer
    MaxHeld = 3
    MaxFrames = 4
    MaxSessions = 1
    MaxToggles = 0
    MaxRaw = 0
    Timestamps = FALSE
PROPERTY FlipsSpareTheScreen
CHECK_DEADLOCK FALSE
