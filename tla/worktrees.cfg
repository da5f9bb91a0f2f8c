CONSTANTS
    Subtasks = {1, 2}
    Rivals = {2}
    MaxRetries = 0
    EmptyDiffs = FALSE
    MaxCancels = 1
    MaxResumes = 1

SPECIFICATION Spec
INVARIANTS
    WorkSeparate
PROPERTIES
    AllEnd
CHECK_DEADLOCK FALSE
