SPECIFICATION Spec
CONSTANTS
    Inst = {i1, i2}
    Works = {w1}
    Sites <- GitPostgres
    MaxPaths = 2
    MaxFaults = 0
    None = None
INVARIANT StampIsAlwaysCurrent
CHECK_DEADLOCK FALSE
