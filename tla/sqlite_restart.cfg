SPECIFICATION FairSpec
CONSTANTS
    Inst = {i1}
    Clients = {c1}
    NumRuns = 2
    MaxTurns = 2
    MaxConcurrency = 1
    MaxQueue = 1
    MaxBoots = 1
    Scm = FALSE
    Sqlite = TRUE
    Ops = {"submit", "create", "execute", "crash"}
    None = None
PROPERTIES OrphansSettle
CHECK_DEADLOCK FALSE
