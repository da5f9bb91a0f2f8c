CONSTANTS
    Subtasks = {1, 2}
    Budget = 2
    MaxCost = 1
    MaxDelegated = 1
    MaxTurns = 2
    MaxRetries = 1
    BaselineGreen = TRUE
    Checks = {"ruff", "tsc"}
    Uncounted = {"tsc"}
    OldProblems = 1
    MaxProblems = 2
    MaxTries = 2

SPECIFICATION Spec
INVARIANTS
    SpendBounded
    NothingBrokenPasses
PROPERTIES
    CostCoversOwn
    AllSettle
CHECK_DEADLOCK FALSE
