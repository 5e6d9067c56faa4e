SPECIFICATION FairSpec
CONSTANTS
    KeepAlive = 5
    Timeout = 2
    Grace = 9
    Prompt = 1
    InitRetry = 2
    BackoffFirst = 1
    BackoffCap = 2
    Burst = 2
    LastPort = 1
    MaxFaults = 2
    MaxCommands = 1
INVARIANTS
    SilenceIsNoticed
    AliveIsHonest
PROPERTIES
    EndsForAReason
    AliveComesTrue
CHECK_DEADLOCK FALSE
