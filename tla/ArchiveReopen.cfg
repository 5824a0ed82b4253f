SPECIFICATION Spec
CONSTANTS
    MaxBytes = 2
    Budget = 6
    SnapshotBytes = 1
    RowBytes = {1, 2}
    MaxRowBytes = 2
    BufBytes = 2
    SessionBytes = 3
    GzipBytes = {1, 3}
    GzipExtra = 0
    Scenarios = {{"open"}}
    Missing = Missing
    MaxRows = 6
    MaxSnapshots = 0
    MaxCrashes = 0
INVARIANT EveryHitArchived
