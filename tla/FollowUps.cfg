SPECIFICATION FollowSpec
CONSTANTS
    c0 = c0
    c1 = c1
    c2 = c2
    c3 = c3
    c4 = c4
    a = a
    b = b
    NoCall = NoCall
    Whole = Whole
    Calls <- MCCalls
    Amounts <- MCAmounts
    Operations <- MCOperations
    Workers <- MCWorkers
    Opening = c0
    MaxFaults = 2
INVARIANTS
    TwiceOnlyWhenLate
    ToldIsTrue
PROPERTIES
    EveryWorkerFinishes
CHECK_DEADLOCK FALSE
