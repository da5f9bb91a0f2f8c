CONSTANTS
    Tasks = {t1, t2}
    Concurrency = 1
    Limits = {1, 2}
    MaxRestarts = 1
    MaxRequeues = 1
    MaxAlive = 2

SPECIFICATION LiveSpec
INVARIANTS
    QueueInv
PROPERTIES
    RunsOnce
    Progress
