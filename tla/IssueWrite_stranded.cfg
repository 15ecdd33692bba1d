SPECIFICATION FairSpec
CONSTANTS
    Requests = {r1}
    Comments = {}
    Refreshers = {}
    Workers = {w1}
    Sweepers = {}
    Nobody = Nobody
    Timeout = 0
    FallbackWindow = 1
    EditGaps = {1}
    MaxRevision = 1
    MaxDeliveries = 1
CHECK_DEADLOCK FALSE
PROPERTY BufferedIsReplayed
