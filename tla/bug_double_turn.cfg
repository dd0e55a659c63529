SPECIFICATION Spec
CONSTANTS
    Inst = {i1}
    Clients = {c1, c2}
    NumRuns = 1
    MaxTurns = 3
    MaxConcurrency = 2
    MaxQueue = 1
    MaxBoots = 0
    Scm = TRUE
    Sqlite = FALSE
    Ops = {"submit", "turn"}
    None = None
INVARIANT OneTurnPerRun
CHECK_DEADLOCK FALSE
