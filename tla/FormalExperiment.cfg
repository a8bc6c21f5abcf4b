SPECIFICATION GuidedSpec
CONSTANTS
    Budget = 3
    Families <- MCFamilies
    CandidateCount = 2
    MinFamilies = 2
    ReleaseStages <- MCReleaseStages
    Trouble = {"death", "torn", "failure", "edit", "drift", "stage", "hold", "inexact"}
    MaxTroubles = 2
INVARIANTS
    OutcomeIsBacked
    HoldCostStands
    BlockedHasReason
PROPERTIES
    PlanIsFinal
    KeepsPromise
    EventuallyDecides
