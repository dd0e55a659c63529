SPECIFICATION Spec
CONSTANTS
    Inst = {i1, i2}
    Works = {w1}
    Sites <- GitPostgres
    MaxPaths = 1
    MaxFaults = 1
    None = None
PROPERTY PreAcquiredSettles
CHECK_DEADLOCK FALSE
