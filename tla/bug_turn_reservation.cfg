SPECIFICATION Spec
CONSTANTS
    Inst = {i1}
    Clients = {c1}
    NumRuns = 1
    MaxTurns = 2
    MaxConcurrency = 1
    MaxQueue = 1
    MaxBoots = 0
    Scm = TRUE
    Sqlite = FALSE
    Ops = {"submit", "turn"}
    None = None
INVARIANT QueuedKeepsReservation
CHECK_DEADLOCK FALSE
