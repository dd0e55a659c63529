SPECIFICATION Spec
CONSTANTS
    Inst = {i1, i2}
    Clients = {c1}
    NumRuns = 2
    MaxTurns = 2
    MaxConcurrency = 1
    MaxQueue = 1
    MaxBoots = 0
    Scm = TRUE
    Sqlite = FALSE
    Ops = {"create", "execute", "cancel", "retry", "delete", "turn"}
    None = None
INVARIANTS StepsSettle NoLeakedLease
SYMMETRY Symmetry
CHECK_DEADLOCK FALSE
