\* Two documents, four chunks, one change between the two SELECTs.
SPECIFICATION SearchSpec
CONSTANTS
    d1 = d1
    d2 = d2
    m1 = m1
    m2 = m2
    DocumentIds = {d1, d2}
    Indexes = {1, 2}
    Models = {m1, m2}
    Times = {1, 2}
    Made <- MCMade
    Asked <- MCAsked
    RRF_K = 60
    FETCH_MULTIPLIER = 2
    FETCH_FLOOR = 2
    FETCH_CEILING = 3
    TopKs = {1, 3}
    MaxChanges = 1
INVARIANTS
    HitsAreBest
    HitsAreComplete
CHECK_DEADLOCK FALSE
