SPECIFICATION Spec
CONSTANTS
    Usage = {1}
    Tries = 2
    MaxAttempts = 2
    MaxRequests = 2
    MaxCalls = 2
INVARIANTS
    ExactIsBilled
    AcceptedIsAccounted
PROPERTIES
    AttemptEnds
