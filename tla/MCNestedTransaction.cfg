CONSTANTS
    Txs = {t1}
    DBs = {d1}
    None = None
    MaxDepth = 2
    MaxCalls = 2
    MaxConns = 1
SPECIFICATION Spec
INVARIANT FailureRollsBackContext
CHECK_DEADLOCK FALSE
