SPECIFICATION Spec
CONSTANTS
    Inst = {i1, i2}
    NumTasks = 2
    NumCases = 1
    Sites <- Postgres
    MaxFaults = 1
    None = None
INVARIANT CasesSettleUnlessThrown
CHECK_DEADLOCK FALSE
