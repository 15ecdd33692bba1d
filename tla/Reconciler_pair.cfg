SPECIFICATION FairSpec
CONSTANTS
    Schedulers = {s1, s2}
    Issues = {i1}
    Pulls = {}
    Commits = {}
    OrgLists = {}
    Scopes <- AllAtOnce
    ItemCount = 2
    PageSize = 2
    Budget = 2
    MaxClock = 2
    Lossy = {}
    CallsFail = TRUE
CHECK_DEADLOCK FALSE
INVARIANTS
    CursorIsCovered
PROPERTIES
    IssuesNeverGoBack
    SettlesDown
