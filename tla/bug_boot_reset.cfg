SPECIFICATION Spec
CONSTANTS
    Inst = {i1, i2}
    Works = {w1}
    Sites <- GitSqlite
    MaxPaths = 1
    MaxFaults = 1
    None = None
PROPERTY EveryoneExclusive
CHECK_DEADLOCK FALSE
