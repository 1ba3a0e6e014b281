CONSTANTS
    w1 = w1
    w2 = w2
    h1 = h1
    h2 = h2
    old = old
    new = new
    error = error
    Placeholder = Placeholder
    Hole = Hole
    NoPage = NoPage
    Responses <- OneGood
    Bad = {error}
    Parts <- Short
    Layout <- OwnLayout
    Workers = {w1}
    Requests = {h1, h2}
    MaxQueue = 3
    Prompt = FALSE
    Budget <- BudgetServe
SPECIFICATION Spec
SYMMETRY Symmetry
INVARIANTS
    ServedWhole
    EmptyMeansWriting
