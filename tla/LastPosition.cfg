SPECIFICATION Spec
CONSTANTS
    N = 2
    Limit = 2
    MaxRetries = 1
    FailFast = TRUE
    InfraAgain = FALSE
    MaxRuns = 2
    MaxInterrupts = 0
INVARIANT UninterruptedIsSealed
CHECK_DEADLOCK FALSE
