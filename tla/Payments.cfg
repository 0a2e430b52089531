SPECIFICATION Spec
CONSTANTS
    c1 = c1
    c2 = c2
    c3 = c3
    safe = safe
    decline = decline
    off = off
    NoId = NoId
    Unlisted = Unlisted
    Calls <- MCCalls
    Orders <- MCOrders
    Mode <- MCMode
    Verdicts <- MCVerdicts
    ErrorCodes <- MCErrorCodes
    BuiltinTimeout = TRUE
SYMMETRY CallSymmetry
INVARIANTS
    TypeOK
    NoDoubleCharge
    ApprovedMeansCharged
    AnswersAgree
    ApiErrorMeansNoOrder
PROPERTIES
    ImplementsChargeOnce
CHECK_DEADLOCK FALSE
