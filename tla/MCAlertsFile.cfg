SPECIFICATION Spec
CONSTANTS
    MaxBytes = 2
    Budget = 3
    Scenarios <- MCScenarios
    Missing = Missing
    MaxRows = 6
    MaxCrashes = 2
INVARIANT AckedLinesFound
PROPERTY ImplementsRowLog
