SPECIFICATION FairSpec
CONSTANTS
    Inst = {i1, i2}
    Works = {w1}
    Sites <- AllSites
    MaxPaths = 2
    MaxFaults = 1
    None = None
INVARIANTS TypeOK StampIsCurrent
PROPERTIES CheckoutExclusive ClaimReleased
CHECK_DEADLOCK FALSE
