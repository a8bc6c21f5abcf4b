SPECIFICATION FairSpec
CONSTANTS
    MaxBatch = 2
    MaxBuffer = 2
    MaxEvents = 4
    MaxFlushes = 1
    MaxFaults = 2
    MaxTorn = 1
INVARIANTS
    QueueAccounts
    SeenIsStored
    FinalEvidence
PROPERTIES
    DrainEnds
    SessionBecomesEvidence
CHECK_DEADLOCK FALSE
