SPECIFICATION Spec
CONSTANTS
    Inst = {i1, i2}
    Works = {w1}
    Sites <- GitPostgres
    MaxPaths = 1
    MaxFaults = 0
    None = None
PROPERTY EveryoneExclusive
CHECK_DEADLOCK FALSE
