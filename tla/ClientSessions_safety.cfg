SPECIFICATION Spec
CONSTANTS
    k1 = k1
    k2 = k2
    k3 = k3
    Consoles = {k1, k2, k3}
    Displays = {0, 1}
    DisplayOf <- MCDisplayOf
    MaxConnections = 2
    LateHello = TRUE
    SourceErrors = TRUE
SYMMETRY MCSymmetry
INVARIANTS
    TypeOK
    OneClientPerDisplay
    RegisteredFdsOpen
PROPERTY ServedItsDisplay
CHECK_DEADLOCK FALSE
