SPECIFICATION Spec
CONSTANTS
    p1 = p1
    p2 = p2
    p3 = p3
    o1 = o1
    o2 = o2
    g1 = g1
    g2 = g2
    g3 = g3
    e1 = e1
    e2 = e2
    e3 = e3
    w1 = w1
    j1 = j1
    j2 = j2
    None = None
    Families = {"portfolio", "activity"}
    People = {p1, p2, p3}
    Orgs = {o1, o2}
    Repos = {g1, g2, g3}
    Activities = {e1, e2, e3}
    OrgOf <- OrgOfRepo
    RepoOf <- RepoOfEvent
    KindOf <- KindOfEvent
    Credits <- CreditsOf
    HomeOf <- Home
    Order <- IdOrder
    Importers = {w1}
    DayLength = 2
    WeekLength = 2
    LastDays = 2
    Zones = {"utc", "east"}
    Offset <- OffsetOf
    Start = 8
    MaxClock = 9
    MaxDeliveries = 3
    Requests <- Asked
    Boards <- Ranks
    Portfolios <- Found
    PageSize = 1
    Radii = {1}
    Projects = {j1, j2}
    ProjectRows <- RowsOf
CHECK_DEADLOCK FALSE
INVARIANTS
    ReportTypeOK
    ReportCoversCursor
    FiguresAgree
