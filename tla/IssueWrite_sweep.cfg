SPECIFICATION SweepSpec
CONSTANTS
    Requests = {r1, r2}
    Comments = {r1, r2}
    Refreshers = {}
    Workers = {w1}
    Sweepers = {s1}
    Nobody = Nobody
    Timeout = 0
    FallbackWindow = 0
    EditGaps = {1}
    MaxRevision = 1
    MaxDeliveries = 1
CHECK_DEADLOCK FALSE
SYMMETRY Symmetry
INVARIANT OnlyDeathStrands
PROPERTIES
    VerdictIsFinal
    TimeoutsAreDue
