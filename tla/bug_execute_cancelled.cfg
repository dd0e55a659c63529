SPECIFICATION Spec
CONSTANTS
    Inst = {i1, i2}
    Clients = {c1}
    NumRuns = 2
    MaxTurns = 1
    MaxConcurrency = 1
    MaxQueue = 1
    MaxBoots = 0
    Scm = TRUE
    Sqlite = FALSE
    Ops = {"submit", "create", "execute", "cancel"}
    None = None
INVARIANT Capacity
CHECK_DEADLOCK FALSE
