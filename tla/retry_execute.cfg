SPECIFICATION Spec
CONSTANTS
    Inst = {i1}
    Clients = {c1}
    NumRuns = 3
    MaxTurns = 2
    MaxConcurrency = 2
    MaxQueue = 1
    MaxBoots = 0
    Scm = TRUE
    Sqlite = FALSE
    Ops = {"create", "execute", "cancel", "retry", "dbfault"}
    None = None
INVARIANTS QueuedKeepsReservation OneTurnPerRun Capacity

CHECK_DEADLOCK FALSE
