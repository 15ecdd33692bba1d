SPECIFICATION Spec
CONSTANTS
    p1 = p1
    p2 = p2
    p3 = p3
    i1 = i1
    i2 = i2
    i3 = i3
    i4 = i4
    v1 = v1
    v2 = v2
    v3 = v3
    v4 = v4
    n1 = n1
    n2 = n2
    r1 = r1
    g1 = g1
    g2 = g2
    q1 = q1
    q2 = q2
    l1 = l1
    l2 = l2
    b1 = b1
    b2 = b2
    b3 = b3
    d1 = d1
    d2 = d2
    ann = ann
    bug = bug
    bugs = bugs
    t1 = t1
    t2 = t2
    t3 = t3
    t4 = t4
    Blank = Blank
    Facts <- IssueFacts
    TagLinks <- Tagged
    TagKeys = {"gate"}
    Padded <- NoBlanks
    Due <- Dues
    StateOf <- States
    DueOn <- DueDates
    Bodies <- Saved
    MaxCategories = 2
    Queries <- Asked
    DefaultLimit = 3
    MaxLimit = 3
    None = None
    Ids = {p1, p2, p3}
    Issues = {i1, i2, i3, i4}
    Foreign = {i3}
    Fresh = {i4}
    Views = {v1, v2, v3, v4}
    Names = {n1, n2}
    Repos = {r1}
    Milestones = {g1, g2}
    RepoOf <- Home
    MaxEdits = 3
    Requests = {q1, q2}
    Verbs = {"create", "patch", "archive", "add", "remove", "place", "lift", "add view", "edit view", "drop view", "reorder", "new issue"}
    Links = {l1, l2}
    Boards = {b1, b2, b3}
    ClosedBoards = {b3}
    Edits = {d1, d2}
SYMMETRY Symmetry
CHECK_DEADLOCK FALSE
INVARIANTS
    BoardsTypeOK
    BoardsShowDates
    CountsAddUp
    PagesAgree
    MirrorFollows
PROPERTIES
    VersionCoversProject
    RefusedOnlyByRival
