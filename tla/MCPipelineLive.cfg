SPECIFICATION Spec
CONSTANTS
    small = small
    large = large
    oversize = oversize
    Event <- MCEventOversize
    Size <- MCSize
    MaxMessages = 1
    MaxBytes = 2
    FlushInterval = 1
    ChannelCapacity = 1
    Dropped = {}
    NoEvent = NoEvent
    MaxFrames = 5
PROPERTIES
    ShutdownCompletes
    BackpressureResolves
    DeadBatcherEndsLoop
