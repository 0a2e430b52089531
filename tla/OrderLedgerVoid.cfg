SPECIFICATION Spec
CONSTANTS
    c1 = c1
    c2 = c2
    c3 = c3
    c4 = c4
    Whole = Whole
    Calls <- MCCalls
    Amounts <- MCAmounts
    Operations <- CaptureAndVoid
SYMMETRY CallSymmetry
INVARIANTS
    NetIsWhatTheMerchantKeeps
CHECK_DEADLOCK FALSE
