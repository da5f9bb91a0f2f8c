CONSTANTS
    Subtasks = {1, 2}
    Ids = {1, 2, 3}
    Plans <- AcyclicPlans
    MergeMode = TRUE
    MaxCrashes = 1
    MaxResumes = 2

SPECIFICATION Spec
INVARIANTS
    RecordSound
PROPERTIES
    DoneStaysDone
    RunSettles
CHECK_DEADLOCK FALSE
