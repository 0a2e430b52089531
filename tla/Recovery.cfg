SPECIFICATION RecoverySpec
CONSTANTS
    c1 = c1
    c2 = c2
    c3 = c3
    c4 = c4
    safe = safe
    NoId = NoId
    NoCall = NoCall
    Unlisted = Unlisted
    Calls <- MCCalls
    Orders <- MCOrders
    Mode <- MCMode
    Verdicts <- MCVerdicts
    ErrorCodes <- MCErrorCodes
    BuiltinTimeout = TRUE
    Policy = "askThenRetry"
    MaxFaults = 2
INVARIANTS
    ResolvedMeansDecided
PROPERTIES
    EveryOrderResolves
CHECK_DEADLOCK FALSE
