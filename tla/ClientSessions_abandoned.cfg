SPECIFICATION Spec
CONSTANTS
    k1 = k1
    k2 = k2
    k3 = k3
    Consoles = {k1, k2}
    Displays = {0, 1}
    DisplayOf <- MCDisplayOf
    MaxConnections = 2
    LateHello = FALSE
    SourceErrors = TRUE
INVARIANT ReleaseFailsOnceDisconnected
CHECK_DEADLOCK FALSE
