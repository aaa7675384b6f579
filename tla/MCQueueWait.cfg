CONSTANTS
    Consumers = {c1, c2, c3}
    Observers = {o1}
    MaxPush = 3
SPECIFICATION Spec
INVARIANT WaitMeansConsumed
