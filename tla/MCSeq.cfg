CONSTANTS
    p1 = p1
    p2 = p2
    a = a
    b = b
    d = d
    Procs <- MCProcs
    Callers <- MCCallers
    ProcOf <- MCProcOf
    Loads <- MCLoads
    Objects = {o1, o2, o3}
    NoSeq = NoSeq
    NoRow = NoRow
    Base = 0
    Step = 2
    MaxNumber = 5
    MaxCrashes = 1
SPECIFICATION Spec
INVARIANT SerialCallsNeverRepeat
INVARIANT SerialNumbersArePersisted
INVARIANT OneSeqNeverRepeats
