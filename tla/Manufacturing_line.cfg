SPECIFICATION MCSpec
CONSTANTS
    m1 = m1
    m2 = m2
    a = a
    b = b
    t1 = t1
    t2 = t2
    t3 = t3
    b1 = b1
    b2 = b2
    e1 = e1
    e2 = e2
    q1 = q1
    Nobody = Nobody
    NoCode = NoCode
    Runs = {m1, m2}
    Codes = {a, b}
    Testers = {t1, t2, t3}
    Builders = {b1, b2}
    Editors = {e1, e2}
    Signers = {q1}
    CodeInSerial = FALSE
    MaxCount = 2
SYMMETRY Symmetry
CHECK_DEADLOCK FALSE
INVARIANTS
    TypeOK
    CountersHold
    EditsAreSerial
    NoStandstill
