CONSTANTS
    Txs = {t1, t2}
    DBs = {d1, d2}
    None = None
    MaxDepth = 2
    MaxCalls = 2
    MaxConns = 2
SPECIFICATION Spec
INVARIANT OkMeansCommitted
INVARIANT FailureMeansUndone
INVARIANT OneDatabaseNeverLeaks
INVARIANT MuHolderFindsConnection
CHECK_DEADLOCK FALSE
