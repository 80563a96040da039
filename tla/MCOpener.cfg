SPECIFICATION FairSpec
CONSTANTS
    Accounts = {1, 2}
    Listed = {1}
    Boxed = {1}
    MaxMoves = 2
    MaxFaults = 1
    MaxInstalls = 2
INVARIANT
    LockEndsIt
PROPERTY
    FollowsTheWallet
CHECK_DEADLOCK FALSE
