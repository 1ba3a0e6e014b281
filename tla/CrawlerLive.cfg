CONSTANTS
    w1 = w1
    w2 = w2
    c1 = c1
    c2 = c2
    NoItem = NoItem
    URLs <- SmallURLs
    AssetLinks <- SmallAssets
    PageLinks <- SmallPages
    ShouldQueue <- SmallSite
    AutoDownloadDepth = 1
    Seeds <- TwoSeeds
    MayDownload = {TRUE, FALSE}
    Outcomes = {TRUE, FALSE}
    Workers = {w1, w2}
    Callers = {c1, c2}
    Budget <- BudgetLive
    InitialCallback = TRUE
SPECIFICATION FairSpec
PROPERTIES
    CrawlEnds
    StopTakesEffect
    ImplementsFairPool
CHECK_DEADLOCK FALSE
