CONSTANTS
    Tasks = {t1}
    Concurrency = 1
    Limits = {1}
    MaxRestarts = 0
    MaxRequeues = 0
    MaxAlive = 1
    Issues = {1, 2}
    Junk = {2}
    Comments = {1, 2}
    StreamOf <- MCStreamOf
    MaxFaults = 2
    Projects = {p1, p2}
    Workspaces = {w1, w2}
    Workers = {worker}
    MaxOps = 2
    MaxHours = 2
    MaxCrashes = 1
    Ids = {1, 2}
    Crons <- MCCrons
    Expressions <- MCExpressions
    Intervals = {2}
    MinutesIn = 2
    HoursIn = 2
    WeekDays = 3
    MonthLengths <- MCMonths
    MaxMinutes = 3
    MaxRequests = 3
    MaxMishaps = 1

SPECIFICATION RegistryAlone
INVARIANTS
    WorkspacesSound
    RegistryKept
PROPERTIES
    OptInServed
CHECK_DEADLOCK FALSE
