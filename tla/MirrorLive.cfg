CONSTANTS
    w1 = w1
    w2 = w2
    h1 = h1
    h2 = h2
    old = old
    new = new
    error = error
    Placeholder = Placeholder
    Hole = Hole
    NoPage = NoPage
    Responses <- TwoGood
    Bad = {error}
    Parts <- Long
    Layout <- SameLayout
    Workers = {w1}
    Requests = {h1}
    MaxQueue = 2
    Prompt = TRUE
    Budget <- BudgetServe
SPECIFICATION FairSpec
INVARIANTS
    TypeOK
PROPERTIES
    Recovers
