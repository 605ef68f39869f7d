\* A request tried on a second node.
SPECIFICATION Spec
CONSTANTS
    ScoredNodes <- TwoNodes
    ScoredModels <- TwoModels
    Disk <- OnDisk
    Bandwidth <- Speeds
    TotalGB <- Memories
    SizeGB <- ModelSizes
    FitGB <- WithCache
    Window <- Contexts
    KindsOf <- Categories
    Quality <- Catalogue
    Reports <- SlowOrFast
    Tokens <- ShortOrLong
    MaxDepth = 1
    Queries <- ThreeQueries
    Routable <- ThreeModels
    KindOf <- OneKindEach
    Priority <- Ranks
    VramFallback = TRUE
    AutoPull = TRUE
    HoldTries = 2
    PullTries = 2
    ChatAsks <- FourDoors
    MaxRetries = 2
    MlxAsks <- TwoDoors
    EmbedAsks <- FourEmbeddings
    MediaAsks <- Pairs
    BodyNodes <- TwoNodes
    BodyModels <- TwoModels
    Windows <- TwoWindows
    DefaultWindow = 128
    Override <- SmallerForA
    Mode = "strip"
    BodyGB <- BodySizes
    Thinking <- OneThinks
    Overhead = 4
    MinPredict = 10
    BodyAsks <- SixBodies
    MaxChanges = 1
    Said <- OnlyText
    MaxCalls = 2
    MaxTurns = 5
CHECK_DEADLOCK FALSE
INVARIANTS
    BudgetOnce
