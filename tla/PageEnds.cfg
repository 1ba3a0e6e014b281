CONSTANTS
    Names <- AllNames
    Sites <- AllSites
    Cross <- CrossSite
    Pages <- SomePages
    Tokens <- ScriptTokens
    Locations <- Refs
    Rewrites <- OldToThis
    MaxTokens = 5
    Closed = FALSE
SPECIFICATION FairSpec
PROPERTIES
    DownloadReturns
CHECK_DEADLOCK FALSE
