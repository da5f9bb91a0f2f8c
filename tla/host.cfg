CONSTANTS
    Askers = {"run", "request"}
    Scopes = {"longterm"}
    Texts = {"x", "y"}
    MemoryCap = 2
    MaxIds = 3
    MaxEdits = 2
    MaxFailures = 1
    Savers = {"run", "refresh"}
    Indexer = "refresh"
    Domain = {"d1", "d2"}
    RunLayer = {"p"}
    MaxWeight = 2
    MaxWork = 3
    Trees = {"t1", "t2"}
    Files = {"f"}
    MaxVersion = 2
    MaxPasses = 4
    Runs = {"r1", "r2"}
    MaxStarts = 4
    MaxCancels = 1
    MaxApps = 2
    Threads = {"t1", "t2"}
    Browsers = {"e1", "e2"}
    MaxCalls = 5
    Levels = 2
    Channels = {"mail", "push"}
    MaxMonth = 2
    MaxTicks = 4
    Names = {"n1", "n2"}
    MaxValue = 2
    MaxRequests = 4
    Jsons = {"json"}
    Dbs = {"db"}
    MaxWrites = 3
    MaxBackups = 2
    MaxRestores = 2
    Drafts <- MCDrafts
    Typed <- MCTyped
    Builtin = {"researcher"}
    Custom = {"custom"}
    Default = "researcher"
    PlanCap = 3
    MaxRevisions = 2
    MaxSubmits = 2
    MaxStops = 2
    MaxResumes = 2
    Suite <- MCSuite
    Repeats <- MCRepeats
    Shas = {"a", "b"}
    Suites = {"golden", "replay"}
    Tier <- MCTier
    Lacking = {"bwrap"}
    Jobs = {"j1", "j2"}
    Values <- MCValues
    Pinned = "pinned"
    MaxCommands = 2
    MaxCrashes = 1

SPECIFICATION Spec
INVARIANTS
    MemorySound
    KnowledgeSound
    ProcessesSound
    NoticesSound
    StoresSound
    PlansSound
    EvalsSound
CHECK_DEADLOCK FALSE
