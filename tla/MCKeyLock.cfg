CONSTANTS
    Goroutines = {g1, g2, g3}
    Keys = {k1, k2}
    Locks = {l1, l2, l3, l4}
    NoLock = NoLock
    NoKey = NoKey
    MaxLoops = 2
SPECIFICATION FairSpec
INVARIANT MutualExclusion
INVARIANT NoFatalUnlock
PROPERTY LockReturns
PROPERTY StopEndsLoops
PROPERTY ImplementsKeyedMutex
