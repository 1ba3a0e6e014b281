CONSTANTS
    w1 = w1
    w2 = w2
    c1 = c1
    c2 = c2
    NoItem = NoItem
    URLs <- SmallURLs
    AssetLinks <- SmallAssets
    PageLinks <- SmallPages
    ShouldQueue <- SmallSite
    AutoDownloadDepth = 0
    Seeds <- OneSeed
    MayDownload = {TRUE}
    Outcomes = {TRUE}
    Workers = {w1, w2}
    Callers = {c1, c2}
    Budget <- BudgetOutput
    InitialCallback = FALSE
SPECIFICATION Spec
SYMMETRY Symmetry
INVARIANTS
    CountersBalance
    NothingLost
    DrainedBeforeExit
    ResultsDelivered
PROPERTIES
    ImplementsPool
CHECK_DEADLOCK FALSE
