CONSTANTS
    s1 = s1
    s2 = s2
    Subtasks = {s1, s2}
    Requests = {1, 2, 3}
    Checkouts = {TRUE, FALSE}
    MaxMerges = 2
    MaxResumes = 1
    MaxCrashes = 1

SPECIFICATION Spec
SYMMETRY Symmetry
CONSTRAINT Bounded
INVARIANTS
    ReviewSound
PROPERTIES
    RollbackTakesOwn
CHECK_DEADLOCK FALSE
