CONSTANTS
    RequestIds = {r1, r2}
    Accounts = {a1}
    MaxNonce = 2
    MaxLegs = 2
    MaxClaims = 2
    PriorRows <- NoRows
    FreshIds = TRUE
    None = None
    Departed = Departed
    Pollers = {p1}
    MaxCrashes = 1
    MaxLocks = 1
    ReadFaults = FALSE
SPECIFICATION Spec
SYMMETRY Symmetry
CHECK_DEADLOCK FALSE
INVARIANTS
    WriteAhead
    BurntBeforeOpen
    HashNamesItsRow
PROPERTIES
    KeepsNonceBook
