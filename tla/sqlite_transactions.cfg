SPECIFICATION FairSpec
CONSTANTS
    Transactions = {t1, t2}
    Writers = {w1, w2}
    Statements = 2
    None = None
INVARIANTS TypeOK OwnersAtomic ExclusiveWritesSurvive
PROPERTY CallsReturn
CHECK_DEADLOCK FALSE
