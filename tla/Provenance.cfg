SPECIFICATION FairSpec
CONSTANTS
    Corrupt = {2}
    MaxMishaps = 2
    MaxSnapshots = 3
    MaxRows = 1
INVARIANT RowMatchesSnapshot
PROPERTY ProvenanceCatchesUp
