SPECIFICATION Spec
CONSTANTS
    N = 2
    Limit = 2
    DisplayPrice = 1
    MaxCalls = 2
    MaxTroubles = 2
    MaxCrashes = 2
INVARIANTS
    CompleteIsPriced
    TotalIsLowerBound
    SealNeedsFewCrashes
CHECK_DEADLOCK FALSE
