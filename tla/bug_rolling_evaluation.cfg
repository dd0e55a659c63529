SPECIFICATION RollingSpec
CONSTANTS
    Inst = {i1, i2}
    NumTasks = 2
    NumCases = 1
    Sites <- Postgres
    MaxFaults = 1
    None = None
PROPERTY QueueDrains
CHECK_DEADLOCK FALSE
