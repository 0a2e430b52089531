SPECIFICATION Spec
CONSTANTS
    c1 = c1
    c2 = c2
    c3 = c3
    c4 = c4
    Whole = Whole
    Calls <- MCCalls
    Amounts <- MCAmounts
    Operations <- AllOperations
SYMMETRY CallSymmetry
INVARIANTS
    TypeOK
    FiguresMatchBook
    NeverPromisesTooMuch
    SettledOnlyByBatch
PROPERTIES
    SettledStays
CHECK_DEADLOCK FALSE
