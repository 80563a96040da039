SPECIFICATION Spec
CONSTANTS
    Account = "me"
    SystemAddress = "system"
    TransfersMax = 1
    MaxWord = 20
    Rows = {1, 2}
    ChainOf <- MCChainOf
    NonceOf <- MCNonceOf
    SentAt <- MCSentAt
    ValueOf <- MCValueOf
    Sweepers = {"s1", "s2"}
    Refreshers = {"s2"}
    ReceiptIf <- MCReceiptIf
    Foreign = 0
    SweepMax = 2
    ReplacedAfter = 0
    Fast = 1
    Slow = 1
    Horizon = 1
    MaxTime = 2
    MaxLag = 0
INVARIANTS
    ReplacedWasReplaced
    RowTellsReceipt
    IdleMeansOver
PROPERTIES
    SettledStays
    ToldAsMoved
