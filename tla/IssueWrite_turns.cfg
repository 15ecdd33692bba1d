SPECIFICATION Spec
CONSTANTS
    Requests = {r1, r2}
    Comments = {}
    Refreshers = {}
    Workers = {w1}
    Sweepers = {}
    Nobody = Nobody
    Timeout = 0
    FallbackWindow = 1
    EditGaps = {0, 1}
    MaxRevision = 3
    MaxDeliveries = 1
CHECK_DEADLOCK FALSE
VIEW Unswept
SYMMETRY Symmetry
INVARIANTS
    RollbackInvalidatesReaders
    CasProtectsReader
    AuditedUnlessInterrupted
PROPERTIES
    EditsTakeTurns
    VersionTellsChange
    FieldsNeverRegress
