SPECIFICATION Spec
CONSTANTS
    p1 = p1
    p2 = p2
    json = json
    vision = vision
    mcp = mcp
    plugin = plugin
    own = own
    adv = adv
    old = old
    Paths <- MCPaths
    Doc = json
    NoProc = NoProc
    Procs = {p1}
    Entries = {mcp, plugin, own, adv, old}
    Invocation <- OneRun
    MaxBackups = 2
    MaxRuns = 3
    MaxFaults = 2
    MaxEdits = 1
INVARIANTS
    BackupRetention
    SoloRunRenders
CHECK_DEADLOCK FALSE
