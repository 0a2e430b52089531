SPECIFICATION Spec
CONSTANTS
    c1 = c1
    c2 = c2
    c3 = c3
    safe = safe
    decline = decline
    off = off
    NoId = NoId
    Unlisted = Unlisted
    Calls <- MCCalls
    Orders <- MCSafeOrders
    Mode <- MCSafeMode
    Verdicts <- MCVerdicts
    ErrorCodes <- MCErrorCodes
    BuiltinTimeout = FALSE
SYMMETRY CallSymmetry
INVARIANTS
    TimeoutIsInovioTimeoutError
CHECK_DEADLOCK FALSE
