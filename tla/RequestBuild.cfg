SPECIFICATION Spec
CONSTANTS
    usd = usd
    eur = eur
    None = None
    Empty = Empty
    Unlisted = Unlisted
    Currencies <- MCCurrencies
    Requests <- MCRequests
INVARIANTS
    TypeOK
    BuiltIffAcceptable
    WireItemsMatch
CHECK_DEADLOCK FALSE
