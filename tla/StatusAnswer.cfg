SPECIFICATION StatusSpec
CONSTANTS
    Responses <- MCResponses
    Currencies <- MCCurrencies
    NoList = NoList
    Bodies <- MCBodies
INVARIANTS
    RaisesOnlyOnMalformed
    ReportsOnlyWhatWasWritten
    PendingIsActionable
    AllRowsOrNone
    FiguresAreOfAllRows
    RowsCoverForEachOther
    ApprovedIsWritten
CHECK_DEADLOCK FALSE
