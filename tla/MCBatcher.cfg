SPECIFICATION Spec
CONSTANTS
    small = small
    medium = medium
    large = large
    oversize = oversize
    Event <- MCEvent
    Size <- MCSize
    MaxMessages = 3
    MaxBytes = 4
    FlushInterval = 2
    ChannelCapacity = 2
    MaxSent = 4
INVARIANTS NothingLost BatchWithinLimits TimerCoversOldest
PROPERTY ImplementsDelivery
