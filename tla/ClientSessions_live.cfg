SPECIFICATION FairSpec
CONSTANTS
    k1 = k1
    k2 = k2
    k3 = k3
    Consoles = {k1, k2}
    Displays = {0}
    DisplayOf <- MCDisplayOf
    MaxConnections = 3
    LateHello = FALSE
    SourceErrors = FALSE
INVARIANT ReleaseFailsOnceDisconnected
PROPERTIES
    WaitersGetIn
    StopEnds
    ImplementsDisplayLock
CHECK_DEADLOCK FALSE
