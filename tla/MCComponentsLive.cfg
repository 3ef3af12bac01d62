\* Liveness of the components that owe progress, one at a time.
SPECIFICATION PartsLiveSpec
CONSTANTS
    Parts = {"gate", "dsh", "link", "suite", "bridge", "update", "graph", "view"}
    Pools <- MCPools
    Max <- MCMax
    MaxAcquires = 5
    Principals <- MCPrincipals
    MaxQueue = 2
    MaxBytes = 2
    MaxAttempts = 1
    MaxMessages = 3
    ClaudeMembers = {2}
    ClaudeLoopStops = {3}
    ClaudeQueue = 2
    ClaudeMaxMessages = 3
    ClaudeEvents = {"recover", "silent", "nack", "clear", "compact", "release", "stop", "drain", "exit", "gone"}
    ClaudeMaxEvents = 2
    DshLoopStops = {3}
    DshQueue = 2
    DshTries = 2
    DshMaxMessages = 3
    DshMaxFaults = 1
    LinkProcs = {1, 2}
    LinkMaxStarts = 3
    LinkMaxFaults = 1
    OutHigh = {1, 3, 5}
    OutLow = {2, 4}
    OutMax = 2
    OutFrames = 6
    OutTurns = 3
    SuiteRoot = 0
    SuiteWorkers = {}
    SuiteFresh = FALSE
    SuiteMinAge = 1
    SuiteWindow = 1
    SuiteMaxFailures = 1
    RingKeys = 4
    RingAbsent = {"memory"}
    RingMaxRestarts = 3
    BridgeAttempts = 2
    BridgeSelfTests = 3
    BridgeMaxRestarts = 1
    GrokMaxMessages = 2
    GrokMaxClients = 4
    GrokMaxEvents = 2
    UpdNewest = 2
    UpdMaxPublish = 3
    UpdMaxFaults = 1
    UpdDrainAfter = 1
    UpdForceAfter = 1
    UpdLauncher = TRUE
    UpdSplit = FALSE
    UpdMixed = FALSE
    GraphSaves = 2
    GraphAsks = 2
    GraphFaults = 1
    GraphCalls = {1, 2}
    GraphShimMax = 1
    OcMessages = 2
    OcMaxEvents = 3
    OcRetries = 1
    OcClearAt = {"post", "parts", "wait"}
    CvClis = {"codex", "crush", "gemini", "qwen"}
    CvMessages = 3
    CvMaxEvents = 3
    CvLapses <- MCNoLapses
    HangProfiles <- MCProfiles
    HangCompact = 3
    HangHeal = 1
    HangMessages = 2
    HangTools = 1
    HangMaxFaults = 1
    HangMaxAge = 6
    AgSpawns = 3
    AgConfigs = {1, 2}
    AgMaxFaults = 1
    AgLapses <- MCNoLapses
    TwRequests = 3
    TwCommits = 1
    TwMaxFaults = 1
    GitPlaces = {"first", "second"}
    GitBare = {"bare"}
    GitOutside = {"outside"}
    GitMax = 3
    GitRootless = FALSE
    LvDeliveries = 2
    LvQueue = 1
    LvCeiling = 2
    LvMaxFaults = 1
    LvLapses <- MCNoLapses
    ShDeliveries = {1, 2}
    ShTexts = {1, 2}
    ShMaxPending = 1
    ShCap = 1
    ShMaxJobs = 2
    ShMaxEdits = 2
    CtKinds = {"open_design", "opencode", "codex", "dsh", "line", "local"}
    CtMaxCalls = 3
    CtMaxChanges = 1
    CtMaxExpiries = 1
    OdMaxRequests = 1
    OdMaxForeign = 2
    MoNames = {1, 2}
    MoMaxRequests = 3
    MoMaxFaults = 1
    MoLapses <- MCNoLapses
    FrPaths = {1, 2}
    FrMaxRequests = 2
    FrMaxAgent = 1
    ChMaxCalls = 3
    ChMaxFaults = 2
    OsKinds = {"line", "grok", "opencode", "dsh"}
    OsProjects = {"project"}
    OsTtl = 2
    OsMaxRuns = 1
    OsMaxClock = 3
    OsMaxFaults = 1
    OsLapses <- MCNoLapses
    DsTopics = {"log", "spawns", "states"}
    DsRing = 3
    DsBacklog = 2
    DsMaxLines = 4
    DsMaxStreams = 3
    DsChildren = 2
    DsMaxClock = 3
    DsLapses <- MCNoLapses
PROPERTIES
    ImplementsSlotPool
    WaitersServed
    
    
    SuiteReaped
    BridgeSettles
    UpdateArrives
    GraphSettles
    LvAgrees
CHECK_DEADLOCK FALSE
