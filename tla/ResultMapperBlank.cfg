SPECIFICATION Spec
CONSTANTS
    Responses <- MCResponses
INVARIANTS
    BlankIsAbsent
CHECK_DEADLOCK FALSE
