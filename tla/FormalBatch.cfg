SPECIFICATION Spec
CONSTANTS
    N = 3
    Limit = 2
    MaxRetries = 1
    FailFast = TRUE
    InfraAgain = FALSE
    MaxRuns = 4
    MaxInterrupts = 3
INVARIANTS
    BudgetHolds
    RepeatNeedsInterruption
    NextPositionNotStarted
    SealIsBacked
PROPERTIES
    NoPaidRepeat
    TriggerStopsQueue
CHECK_DEADLOCK FALSE
