SPECIFICATION Safety
CONSTANTS
    small = small
    large = large
    oversize = oversize
    Event <- MCEvent
    Size <- MCSize
    MaxMessages = 2
    MaxBytes = 2
    FlushInterval = 1
    ChannelCapacity = 1
    Dropped = {"ignored", "malformed", "suppressed"}
    NoEvent = NoEvent
    MaxFrames = 3
INVARIANTS
    FramesAccounted
    ArchiveTracksQueue
    CrashCostsLastMatch
    ExitAfterDrain
PROPERTIES
    ImplementsBatcher
