CONSTANTS
    URLs <- SmallURLs
    Parts <- SmallParts
    Stripped <- SmallStripped
    Answers <- AnswerNames
    Answer <- AllAnswers
    Source <- FewSources
    DefaultTTL = 2
    BumpTTL = 1
    Half = 8
    AllHosts = "*"
    Taken = {9}
    r1 = r1
    r2 = r2
    Refreshers = {r1, r2}
    MaxTime = 1
    MaxQueue = 2
    Budget <- NoFaults
    CommandLines <- OneLine
SPECIFICATION ProgramSpec
SYMMETRY Symmetry
INVARIANTS
    KeptOffline
CHECK_DEADLOCK FALSE
