SPECIFICATION Spec
CONSTANTS
    Interval = 3
    FenceAfter = 8
    DeadAfter = 17
    PruneAfter = 19
    HardTimeout = 2
    Lag = 1
    Skew = 1
    BootLatency = 2
    MaxTime = 27
INVARIANT DeadOwnsNoCheckout
CHECK_DEADLOCK FALSE
