SPECIFICATION FairSpec
CONSTANTS
    Interval = 3
    FenceAfter = 8
    DeadAfter = 17
    PruneAfter = 19
    HardTimeout = 2
    Lag = 1
    Skew = 1
    BootLatency = 1
    MaxTime = 27
INVARIANTS TypeOK DeadOwnsNoCheckout
PROPERTY FencedExits
CHECK_DEADLOCK FALSE
