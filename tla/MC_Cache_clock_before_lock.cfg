\* SetWithTTL and Invalidate by two goroutines, no store: the Set reads its
\* clock before the Invalidate and takes the lock after it.
CONSTANTS
    w = w
    i = i
    r1 = r1
    r2 = r2
    c1 = c1
    k1 = k1
    k2 = k2
    Keys = {k1}
    Instances = {c1}
    Goroutines = {w, i, r1}
    InstanceOf <- OneInstance
    Setters = {w}
    Invalidators = {i}
    TTLs = {0}
    TombstoneTTL = 0
    HasStore = FALSE
    StoreFaults = {}
    NoEntry = NoEntry
    MaxTime = 2
    MaxEpoch = 2
SPECIFICATION Spec
INVARIANT NoStaleServe
