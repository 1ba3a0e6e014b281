CONSTANTS
    w1 = w1
    main = main
    ticker = ticker
    visitor = visitor
    other = other
    NoItem = NoItem
    NoRoot = NoRoot
    URLs <- OnePage
    AssetLinks <- NoLinks
    PageLinks <- NoLinks
    ShouldQueue <- OnePage
    AutoDownloadDepth = 1
    Seeds <- AllSeeds
    MayDownload = {TRUE}
    Outcomes = {TRUE}
    Workers = {w1}
    Callers = {main, ticker, visitor, other}
    Budget <- BudgetEngine
    InitialCallback = TRUE
    Main = main
    Ticker = ticker
    Visitors = {visitor}
    Stoppers = {main, other}
    Mirrors = {"page"}
    EveryHost = TRUE
    AutoEnqueues = TRUE
SPECIFICATION FairEngineSpec
INVARIANTS
    EngineTypeOK
    EngineNoPanic
    WaitsForCrawl
    StopClosesQueue
PROPERTIES
    EngineStops
CHECK_DEADLOCK FALSE
