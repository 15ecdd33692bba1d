SPECIFICATION Spec
CONSTANTS
    d1 = d1
    d2 = d2
    d3 = d3
    e1 = e1
    e2 = e2
    Nothing = Nothing
    Deliveries = {d1, d2, d3}
    Events = {e1, e2}
    Carries <- SharedCommit
    Poison = {d2}
    Workers = {w1, w2}
    BatchSize = 2
    MaxSends = 4
    MaxFaults = 2
CHECK_DEADLOCK FALSE
SYMMETRY Symmetry
INVARIANTS
    ProcessedIsApplied
    UncreditedIsOwed
