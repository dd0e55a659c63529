SPECIFICATION FairSpec
CONSTANTS
    Inst = {i1, i2}
    Runs = {r1, r2}
    Deleters = {d1}
    Tokens = {1, 2, 3, 4, 5}
    MaxAttempts = 2
    MaxFaults = 2
    PerAgent = FALSE
    None = None
INVARIANTS TypeOK HeldByAttempt
PROPERTIES ExclusiveRemoval ReservationResolved
CHECK_DEADLOCK FALSE
