SPECIFICATION FairSpec
CONSTANTS
    Calls = {c1, c2}
    Tasks = {t1, t2}
    t1 = t1
    t2 = t2
    Sites <- AllSites
    None = None
INVARIANTS TypeOK LiveIsTracked TerminatedTreeIsGone WaitersReap
PROPERTIES RunsSettle
CHECK_DEADLOCK FALSE
