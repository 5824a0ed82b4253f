SPECIFICATION Spec
CONSTANTS
    a = a
    b = b
    c = c
    h1 = h1
    h2 = h2
    Brand <- MCBrand
    Host <- MCHost
    Keywords <- MCKeywords
    Hosts <- MCHosts
    Event <- MCEvent
    MegaSan <- MCMegaSan
    Routine <- MCRoutine
    Ignore = {c}
    WantA = TRUE
    WantB = TRUE
    EmitCandidates = TRUE
    MaxCoalitionLen = 2
    MaxPartnerDegree = 2
    MaxBrandDf = 4
    CalibrateSecs = 1
    CalibrateEvents = 1
    BatchLen = 2
    MaxItems = 3
    MaxFaults = 2
    MaxCrashes = 1
    MaxClock = 1
INVARIANTS SeenOnce AnnouncedOnce AckedIsCounted HostAnnouncedOnce
PROPERTIES HubStays NoFactInBurnIn ImplementsAlertFeed BatchAcknowledged
