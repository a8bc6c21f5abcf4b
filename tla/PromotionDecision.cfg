SPECIFICATION Spec
CONSTANTS
    Count = 2
    Id <- MCId
    TasksOf <- MCTasksOf
    TrialsOf <- MCTrialsOf
    Habit <- MCHabit
    Surprises <- MCSurprises
    MaxSurprises = 2
    Limit <- MCLimit
    NoBatch = NoBatch
CHECK_DEADLOCK FALSE
INVARIANTS
    InfraNeverDecides
    BetterRunNeverHurts
    SelectedIsUndominated
    ExecutedIsCounted
