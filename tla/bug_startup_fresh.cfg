SPECIFICATION Spec
CONSTANTS
    Inst = {i1}
    Clients = {c1}
    NumRuns = 1
    MaxTurns = 2
    MaxConcurrency = 1
    MaxQueue = 1
    MaxBoots = 1
    Scm = FALSE
    Sqlite = TRUE
    Ops = {"submit", "crash"}
    None = None
PROPERTY RecoverySparesFreshRuns
CHECK_DEADLOCK FALSE
