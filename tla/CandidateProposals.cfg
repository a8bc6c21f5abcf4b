CONSTANTS
    R = 2
    Observations <- MCObservations
    HighRisk <- MCHighRisk
    Patches <- MCPatches
    Budget = 3
    CandidateCount = 2
    MinFamilies = 2
    MaxTroubles = 2
SPECIFICATION Spec
INVARIANTS
    TurnsAreFair
    CheckedIsWithinPolicy
    PlanIsComplete
    BlockedForCause
