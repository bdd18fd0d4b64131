SPECIFICATION Spec
CONSTANTS
    p1 = p1
    p2 = p2
    json = json
    vision = vision
    mcp = mcp
    plugin = plugin
    own = own
    adv = adv
    old = old
    Paths <- MCPaths
    Doc = json
    NoProc = NoProc
    Procs = {p1, p2}
    Entries = {mcp, plugin, own}
    Invocation <- SameStack
    MaxBackups = 2
    MaxRuns = 1
    MaxFaults = 0
    MaxEdits = 0
INVARIANT SerializedRunsRender
CHECK_DEADLOCK FALSE
