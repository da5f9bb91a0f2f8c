CONSTANTS
    Projects = {1, 2, 3}
    Bounds = {0, 2}
    MaxBroken = 1
    MaxCancels = 1

SPECIFICATION Spec
INVARIANTS
    FanoutSound
PROPERTIES
    FanoutEnds
CHECK_DEADLOCK FALSE
