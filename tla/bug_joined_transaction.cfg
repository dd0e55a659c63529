SPECIFICATION Spec
CONSTANTS
    Transactions = {t1, t2}
    Writers = {}
    Statements = 1
    None = None
INVARIANT NoLostTransaction
CHECK_DEADLOCK FALSE
