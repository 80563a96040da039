SPECIFICATION Spec
CONSTANTS
    MinSlice = 1
    CalleeMargin = 1
    ProbeBudget = 2
    InitBudget = 2
    FeeBudget = 6
    DefaultTrip = 1
    MinTrip = 1
    MaxTrip = 2
    W = 60
    Bump = 10
    MaxLegs = 2
    SendBudget = 30
    Requests <- MCRequests
    Histories <- MCHistories
    Prices = {2, 12}
    Gases = {1, 2}
    Balances = {16, 60}
    Trips = {1, 3}
    Decimals = 3
    Radix = 2
    DisplayPlaces = 1
    MaxAmount = 60
INVARIANTS
    QuoteTypeOK
    TimeKeptForTheRest
    OutbidsWhatItFound
    PaidInFull
    ReplyTells
