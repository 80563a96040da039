CONSTANTS
    RequestIds = {r1}
    Accounts = {a1}
    MaxNonce = 1
    MaxLegs = 2
    MaxClaims = 1
    PriorRows <- NoRows
    FreshIds = TRUE
    None = None
    Departed = Departed
    Pollers = {p1, p2}
    MaxCrashes = 1
    MaxLocks = 1
    ReadFaults = FALSE
SPECIFICATION FairSpec
CHECK_DEADLOCK FALSE
INVARIANTS
    TypeOK
    SentOnce
    CancelledNeverLeaves
    InOrder
    BroadcastMeansAll
    BytesBurn
PROPERTIES
    OneVerdict
    DecidedSettles
