CONSTANTS
    Expansion <- MCExpansion
    Pieces <- MCPieces
    CleanPath <- MCCleanPath
    McpURLs <- MCMcpURLs
    Loopback = {"127.0.0.1:7233"}
    Durations <- MCDurations
    SourceKind <- MCSourceKind
    AdvSkills = {"adv-x"}
    Canonical <- MCCanonical
    StaleWorktrees = {"gone"}
    NameOrder <- MCNameOrder
    PluginEntry <- MCPluginEntry
    AdvInstructions = {"/home/u/adv/ADV_INSTRUCTIONS.md"}
    SkillAssets <- MCSkillAssets
    URLPorts <- MCURLPorts
    Classified <- MCClassified
    Checkouts <- MCCheckouts
    PluginDirs <- MCPluginDirs
    CheckoutNames <- MCCheckoutNames
    Absolute <- MCAbsolute
    BundledInstructions <- MCBundledInstructions
    BundledSkills <- MCBundledSkills
    Blocks <- MCBlocks
    Registries <- MCRegistries
    UserEdits <- MCUserEdits
    Alone = {"mcp", "plugins", "temporal"}
    MaxEdits = 1
    MaxBlocks = 1
    MaxApplies = 2
    MaxKills = 1
SPECIFICATION Spec
CHECK_DEADLOCK FALSE
INVARIANTS PortsDisjoint PlanIsApplied Resumable InSync EndpointsServed
PROPERTIES SettingsKept MigratedIsAccepted ExtrasPassThrough UserKeysSurvive UserEntriesSurvive
