SPECIFICATION Spec
CONSTANTS
    Inst = {i1, i2, i3}
    Clients = {c1}
    NumRuns = 1
    MaxTurns = 3
    MaxConcurrency = 1
    MaxQueue = 1
    MaxBoots = 1
    Scm = FALSE
    Sqlite = FALSE
    Ops = {"submit", "cancel", "crash", "delete"}
    None = None
INVARIANTS OneTurnPerFirstLife
PROPERTIES ReapSparesLiveOwner
SYMMETRY Symmetry
CHECK_DEADLOCK FALSE
