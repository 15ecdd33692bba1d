SPECIFICATION MCSpec
CONSTANTS
    r1 = r1
    r2 = r2
    r3 = r3
    k1 = k1
    k2 = k2
    k3 = k3
    u1 = u1
    u2 = u2
    j1 = j1
    v1 = v1
    v2 = v2
    v3 = v3
    a1 = a1
    a2 = a2
    e1 = e1
    e2 = e2
    e3 = e3
    c1 = c1
    c2 = c2
    s1 = s1
    s2 = s2
    s3 = s3
    t1 = t1
    t2 = t2
    h1 = h1
    h2 = h2
    h3 = h3
    o1 = o1
    o2 = o2
    n1 = n1
    n2 = n2
    n3 = n3
    i1 = i1
    i2 = i2
    i3 = i3
    p1 = p1
    p2 = p2
    None = None
    Null = Null
    Rows = {r1, r2, r3}
    Keys = {k1, k2, k3}
    Units = {u1, u2}
    UnitOf <- Product
    Projects = {j1}
    Revisions = {v1, v2, v3}
    Papers = {a1, a2}
    Requests = {c1, c2, s1, s2, s3, t1, t2}
    Verbs <- Asked
    CatalogVerbs = {"create", "edit", "archive", "link", "unlink", "revise", "publish", "upload", "remove"}
    SummaryVerbs = {"patch", "submit", "approve", "revert", "append", "restore", "forget", "upload", "remove"}
    Fields = {"objective", "in_scope"}
    SectionOf <- Part
    Given = {"requirements", "commercial"}
    Texts = {"text", ""}
    Empty = ""
    Patches <- Bodies
    Entries = {e1, e2, e3}
    Threshold = 80
    RepoVerbs = {"deliver", "sync", "sync by name", "import"}
    Hubs = {h1, h2, h3}
    Owners = {o1, o2}
    Names = {n1, n2, n3}
    Containing <- InNames
    RepoIds = {i1, i2, i3}
    Things = {"merged", "other", "run", "undecided", "labeled", "review", "comment", "deployed", "released"}
    About <- Told
    Abouts = {"text"}
    ListLimit = 1
    MinSample = 2
    Span = 72
    Reach = 48
    Asks <- Days
    Paths <- Moves
    Now = 78
    Ahead = 2
    MaxMoves = 1
SYMMETRY Symmetry
CHECK_DEADLOCK FALSE
INVARIANTS
    TypeOK
    LensesAgree
PROPERTIES
    AcceptedSawTheRow
    PublishedUntilReplaced
    GateHolds
