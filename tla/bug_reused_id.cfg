SPECIFICATION Spec
CONSTANTS
    Inst = {i1, i2}
    Clients = {c1}
    NumRuns = 1
    MaxTurns = 2
    MaxConcurrency = 2
    MaxQueue = 1
    MaxBoots = 1
    Scm = TRUE
    Sqlite = FALSE
    Ops = {"submit", "crash"}
    None = None
PROPERTY ReapSparesEveryOwner
CHECK_DEADLOCK FALSE
