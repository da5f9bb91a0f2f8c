CONSTANTS
    N = 3
    Plans <- Shapes
    MaxConcurrent = 2
    MaxRetries = 1
    TransientRetries = 1
    Degrade = TRUE
    MaxRepairs = 1
    HasBudget = TRUE
    MaxPauses = 1
    MaxCancels = 1

SPECIFICATION LiveSpec
INVARIANTS
    DependenciesFirst
    RunSound
    RunInv
PROPERTIES
    SettledStays
    ImplementsDagRun
    RunEnds
