CONSTANTS
    Names <- AllNames
    Sites <- AllSites
    Cross <- CrossSite
    Pages <- SomePages
    Tokens <- SomeTokens
    Locations <- Refs
    Rewrites <- OldToThis
    MaxTokens = 3
    Closed = TRUE
SPECIFICATION FairSpec
INVARIANTS
    TypeOK
    LinksKept
    LinksFollowed
    KeptInOrder
PROPERTIES
    DownloadReturns
CHECK_DEADLOCK FALSE
