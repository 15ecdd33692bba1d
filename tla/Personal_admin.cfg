SPECIFICATION MCSpec
CONSTANTS
    u1 = u1
    u2 = u2
    o1 = o1
    o2 = o2
    n1 = n1
    n2 = n2
    x1 = 2
    x2 = 3
    x3 = 4
    t1 = t1
    t2 = t2
    q1 = q1
    q2 = q2
    p1 = p1
    p2 = p2
    d1 = d1
    d2 = d2
    l1 = l1
    l2 = l2
    None = None
    People = {u1, u2}
    Orgs = {o1, o2}
    TagNames = {n1, n2}
    Values = {n1}
    Events = {1, 2, 3}
    Subject = u1
    Roles <- Played
    PageSize = 2
    MaxWebhooks = 2
    Requests = {q1, q2, p1, p2, d1, d2, l1, l2}
    Targets = {2, 3, 4}
    PinCap = 2
    Tags = {t1, t2}
    Verbs <- Asked
    AccountVerbs = {"role", "profile", "anonymise", "home", "export"}
    KeepVerbs = {"home", "pin", "unpin", "reorder", "tag", "retag", "link", "unlink", "setting"}
    ReadVerbs = {"queue", "list", "timeline", "look"}
    DeskVerbs = {"bulk", "status", "create", "edit"}
    LocalVerbs = {"create", "edit", "comment", "refresh"}
    Issues = {1, 2, 3}
    Entries = {1, 2}
    MaxTime = 2
    MaxChanges = 2
    BatchCap = 2
    Limit = 1
    Filters <- Shown
    StateBodies <- States
    BulkBodies <- Bulks
SYMMETRY Symmetry
CHECK_DEADLOCK FALSE
INVARIANTS
    DeskTypeOK
    DeletedAreNameless
    WalksAreComplete
PROPERTIES
    ChoicesAreKept
