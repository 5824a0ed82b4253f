SPECIFICATION Spec
CONSTANTS
    MaxBytes = 2
    Budget = 10
    SnapshotBytes = 1
    RowBytes = {1, 2}
    MaxRowBytes = 2
    BufBytes = 2
    SessionBytes = 3
    GzipBytes = {1, 3}
    GzipExtra = 0
    Scenarios = {
        {"placeholder", "rename", "gzip", "unlink", "list", "open", "crash"},
        {"flush", "rename", "gzip", "unlink", "remove", "list", "crash"},
        {"placeholder", "rename", "gzip", "list", "remove", "open"}}
    Missing = Missing
    MaxRows = 5
    MaxSnapshots = 1
    MaxCrashes = 1
INVARIANT CountedRowsAccounted
PROPERTIES ImplementsRowLog NewestChunkSurvives
