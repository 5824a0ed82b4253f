SPECIFICATION StoreSpec
CONSTANTS
    Rows = {r1, r2, r3}
    MaxCrashes = 2
INVARIANT CapturedOnce
PROPERTY AlertsKept
