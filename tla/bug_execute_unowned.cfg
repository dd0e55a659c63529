SPECIFICATION FairSpec
CONSTANTS
    Inst = {i1, i2}
    Clients = {c1}
    NumRuns = 1
    MaxTurns = 2
    MaxConcurrency = 1
    MaxQueue = 1
    MaxBoots = 0
    Scm = FALSE
    Sqlite = FALSE
    Ops = {"create", "execute", "crash"}
    None = None
PROPERTY OrphansSettle
CHECK_DEADLOCK FALSE
