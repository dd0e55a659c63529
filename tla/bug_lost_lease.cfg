SPECIFICATION Spec
CONSTANTS
    Inst = {i1}
    Clients = {c1, c2}
    NumRuns = 1
    MaxTurns = 3
    MaxConcurrency = 1
    MaxQueue = 1
    MaxBoots = 0
    Scm = FALSE
    Sqlite = FALSE
    Ops = {"submit", "turn"}
    None = None
INVARIANT NoLeakedLease
CHECK_DEADLOCK FALSE
