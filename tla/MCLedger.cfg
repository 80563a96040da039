CONSTANTS
    a1 = a1
    a2 = a2
    RequestIds = {r1, r2}
    Accounts = {a1}
    MaxNonce = 2
    MaxLegs = 2
    MaxClaims = 3
    PriorRows <- MCPriorRows
    FreshIds = FALSE
    None = None
    Departed = Departed
SPECIFICATION LedgerSpec
SYMMETRY Symmetry
CHECK_DEADLOCK FALSE
INVARIANTS
    LedgerTypeOK
    Containment
    WireExclusive
    NoLeak
PROPERTIES
    OwnerAlone
    ImplementsNonceBook
