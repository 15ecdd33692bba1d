SPECIFICATION MCSpec
CONSTANTS
    Schedulers = {s1}
    Issues = {i1, i2}
    Pulls = {p1}
    Commits = {c1}
    OrgLists = {o1}
    Scopes <- EachAlone
    ItemCount = 2
    PageSize = 2
    Budget = 2
    MaxClock = 3
    Lossy = {i2, c1}
    CallsFail = TRUE
    WindowStart = 2
    ListSize = 1
    MaxPages = {0, 1}
CHECK_DEADLOCK FALSE
INVARIANTS
    WindowIsCovered
    PagingIsComplete
