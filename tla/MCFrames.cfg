SPECIFICATION FrameSpec
CONSTANTS
    Frames <- MCFrames
    Lines <- MCLines
    MaxLines = 2
    Icann <- MCIcann
    Private <- MCPrivate
    Cap = 2
INVARIANTS MatchesAreSuffixes EvidenceFits OneRegistrantPerKey RowKeepsEvidence
