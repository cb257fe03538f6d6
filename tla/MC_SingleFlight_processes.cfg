\* Two processes share a store and a lock, and one invalidates: faults of
\* both, timeouts and a crash.  After a panic in compute every caller of the
\* key in that process hangs: the system may really stop.
CONSTANTS
    a1 = a1
    a2 = a2
    a3 = a3
    b1 = b1
    c1 = c1
    c2 = c2
    k1 = k1
    Keys = {k1}
    Instances = {c1, c2}
    Goroutines = {a1, a2, b1}
    InstanceOf <- ProcessOf
    Computers = {a1, b1}
    Setters = {}
    Invalidators = {a2}
    TTLs = {0}
    TombstoneTTL = 0
    HasStore = TRUE
    StoreFaults = {"get", "set"}
    HasLock = TRUE
    CallFaults = {"compute", "panic", "trylock", "timeout"}
    NoEntry = NoEntry
    Nobody = Nobody
    Failed = Failed
    MaxTime = 2
    MaxEpoch = 1
    MaxCrashes = 1
SPECIFICATION SFSpec
VIEW WithoutHistory
INVARIANTS
    LockNotLeaked
CHECK_DEADLOCK FALSE
