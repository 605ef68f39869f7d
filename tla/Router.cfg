\* Two nodes, two models, two requests; every part has the sizes its instance gives it.
SPECIFICATION RouterSpec
CONSTANTS
    n1 = n1
    n2 = n2
    a = a
    b = b
    r1 = r1
    r2 = r2
    w1 = w1
    w2 = w2
    NoTags = NoTags
    Nodes <- WatchedNode
    Tags <- OneTag
    Watchers <- TwoWatchers
    MaxOnWire = 1
    Hosts <- TwoNodes
    Pinnable <- TwoModels
    CutFile = CutFile
    Nothing = Nothing
    Spread <- OneModel
    Threshold = 2
    WarmThreshold = 1
    MaxPerCycle = 2
    MaxDepth = 3
    SessionRequests <- FourSessions
    Ttl = 2
    MaxSessions = 2
    MaxTime = 4
    Ids <- FiveIds
    Sizes <- FiveSizes
    Placeholder = 0
    Trigger = 3
    KeepRecent = 1
    Prompted <- TwoRequests
    Prompts <- TwoPrompts
    Curators <- TwoCurators
    Default = b
    Activities <- QuietOrBusy
    MinBloat <- Bloats
    BudgetTokens = 5
    ForceTokens = 11
    PreserveTurns = 1
    WindowNodes <- OneNodeOnly
    WindowModels <- TwoModels
    Recommended <- Needs
    Enough <- OneModel
    Windows <- ThreeWindows
    Cooldown = 2
    MaxClock = 3
    Runs <- TwoRuns
    Pulls <- FivePulls
    MemoryGB <- Memories
    ReserveGB = 20
    MinPullGB = 4
    MinGB = 2
    MaxModelGB = 50
    Attempts <- FourAttempts
    MaxTries = 2
    Recorders <- TwoRecorders
    Observed <- ThreeLatencies
    RowLimit = 3
    MaxRows = 4
    ContextNodes <- OneNodeOnly
    Contexts <- SmallToLarge
    Usages <- LittleUse
    Slots <- UpToFourSlots
    WeightGB = 8
    ContextGB = 128
    Fleets <- TwoFleets
    ReportNodes <- TwoNodes
    OllamaModels <- OneModel
    MlxModels <- AnotherModel
    EmbedModel = a
    MappedModels <- TwoModels
    ErrorPct = 50
    RetryPct = 30
    MaxRequests = 3
    LateModels <- OneModel
    Runners <- ThreeRunners
    NodeGB = 80
    Pressures <- NormalOrCritical
    MaxEvents = 3
    Many <- Limits
    Ram = 4
    MaxCount = 7
    LoadLevels <- LoadPercents
    Trends <- Extremes
    Confidences <- Extremes
    TotalGB = 64
    SustainedMin = 2
    BootstrapMin = 1
    OverrideMin = 2
    Horizon = 3
CHECK_DEADLOCK FALSE
INVARIANTS
    FiguresHold
    
    LimitsKept
    RecordsKept
    ClientsExact
PROPERTIES
    CardsFollow
    StepsAllowed
    OncePerOutage
    NotWhileWatched
    PinsReturn
