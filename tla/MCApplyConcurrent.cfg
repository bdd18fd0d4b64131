SPECIFICATION FairSpec
CONSTANTS
    p1 = p1
    p2 = p2
    json = json
    vision = vision
    mcp = mcp
    plugin = plugin
    own = own
    adv = adv
    old = old
    Paths <- MCPaths
    Doc = json
    NoProc = NoProc
    Procs = {p1, p2}
    Entries = {mcp, plugin, adv}
    Invocation <- ConcurrentRuns
    MaxBackups = 2
    MaxRuns = 1
    MaxFaults = 1
    MaxEdits = 1
INVARIANTS
    TypeOK
    LockExclusion
    RollbackPossible
PROPERTIES
    FailedStageRestored
    EveryRunEnds
    StagesAreTransactions
CHECK_DEADLOCK FALSE
