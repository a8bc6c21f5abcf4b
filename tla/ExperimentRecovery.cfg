SPECIFICATION Spec
CONSTANTS
    Budget = 3
    Families <- MCFamilies
    CandidateCount = 2
    MinFamilies = 2
    ReleaseStages <- MCReleaseStages
    Trouble = {"death"}
    MaxTroubles = 1
INVARIANTS
    SameCommandRecovers
