SPECIFICATION FairSpec
CONSTANTS
    Initial = 2
    MaxDelay = 7
    PingInterval = 2
    ServerIdle = 4
    ChannelCapacity = 1
    MaxStall = 4
    MaxFaults = 4
PROPERTIES IdleDropMeansWaited SleepWithinPolicy SessionRestored
