SPECIFICATION FairSpec
CONSTANTS
    Inst = {i1, i2}
    Clients = {c1}
    NumRuns = 2
    MaxTurns = 2
    MaxConcurrency = 1
    MaxQueue = 1
    MaxBoots = 0
    Scm = TRUE
    Sqlite = FALSE
    Ops = {"submit", "cancel", "crash"}
    None = None
INVARIANTS TypeOK Capacity CheckoutGuarded QueuedKeepsReservation
PROPERTIES ImplementsSlotPool QueueDrains OrphansSettle
CHECK_DEADLOCK FALSE
