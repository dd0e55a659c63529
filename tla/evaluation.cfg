SPECIFICATION FairSpec
CONSTANTS
    Inst = {i1, i2}
    NumTasks = 2
    NumCases = 1
    Sites <- AllSites
    MaxFaults = 1
    None = None
INVARIANTS TypeOK CasesSettle
PROPERTIES OneTaskPerAgent TerminalIsFinal QueueDrains
CHECK_DEADLOCK FALSE
