CONSTANTS
    Agents = {1}
    Clients = {"console", "attend"}
    Terminal = {"attend"}
    Inputs = {"allow", "other"}
    Sockets = {1}
    MaxAttempts = 2
    MaxAsks = 1
    MaxSends = 2
    None = None

SPECIFICATION Spec
INVARIANTS
    HeardRight
    ToldRight
PROPERTIES
    WaitsEnd
CHECK_DEADLOCK FALSE
