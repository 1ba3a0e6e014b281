CONSTANTS
    URLs <- SmallURLs
    Parts <- SmallParts
    Stripped <- SmallStripped
    Answers <- AnswerNames
    Answer <- AllAnswers
    Source <- AllSources
    DefaultTTL = 0
    BumpTTL = 1
    Half = 8
    AllHosts = "*"
    Taken = {9}
    r1 = r1
    r2 = r2
    Refreshers = {r1, r2}
    MaxTime = 3
    MaxQueue = 2
    Budget <- OneFault
    CommandLines <- AllLines
SPECIFICATION ProgramSpec
SYMMETRY Symmetry
INVARIANTS
    TypeOK
    AnswersWhole
    GoodKept
    ListensAsTyped
PROPERTIES
    WrittenFresh
    NoStampede
CHECK_DEADLOCK FALSE
