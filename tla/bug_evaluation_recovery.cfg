SPECIFICATION Spec
CONSTANTS
    Inst = {i1, i2}
    NumTasks = 2
    NumCases = 1
    Sites <- Sqlite
    MaxFaults = 1
    None = None
PROPERTY EveryTaskAlone
CHECK_DEADLOCK FALSE
