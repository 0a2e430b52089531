SPECIFICATION Spec
CONSTANTS
    p1 = p1
    p2 = p2
    Purchases <- MCPurchases
    Window = 5
    Quick = 2
    MaxSkew = 4
    UidLengths <- MCUidLengths
    MaxFaults = 2
PROPERTIES
    EveryPurchaseEnds
CHECK_DEADLOCK FALSE
