CONSTANTS
    Goroutines = {g1, g2}
    None = None
    Nil = Nil
    MaxRetries = 1
    MaxCalls = 2
SPECIFICATION Spec
INVARIANT FalseMeansNotDeleted
