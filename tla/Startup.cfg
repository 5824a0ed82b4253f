SPECIFICATION Spec
CONSTANTS
    Unset = Unset
    Bad = Bad
    MaxBatch = 2
    FullList = 2
    MaxStarts = 3
INVARIANT HashCoversThresholds
PROPERTY RequireDbCreatesNothing
