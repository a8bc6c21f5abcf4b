SPECIFICATION Spec
CONSTANTS
    N = 1
    Limit = 2
    DisplayPrice = 1
    MaxCalls = 2
    MaxTroubles = 1
    MaxCrashes = 0
INVARIANT ExactIsWhole
CHECK_DEADLOCK FALSE
