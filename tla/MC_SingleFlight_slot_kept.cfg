\* One process, no store, no lock: the compute function of a caller panics
\* and the caller recovers.  The other callers of the key hang then: the
\* system may really stop.
CONSTANTS
    a1 = a1
    a2 = a2
    a3 = a3
    b1 = b1
    c1 = c1
    c2 = c2
    k1 = k1
    Keys = {k1}
    Instances = {c1}
    Goroutines = {a1, a2}
    InstanceOf <- ProcessOf
    Computers = {a1, a2}
    Setters = {}
    Invalidators = {}
    TTLs = {0}
    TombstoneTTL = 0
    HasStore = FALSE
    StoreFaults = {}
    HasLock = FALSE
    CallFaults = {"panic"}
    NoEntry = NoEntry
    Nobody = Nobody
    Failed = Failed
    MaxTime = 1
    MaxEpoch = 2
    MaxCrashes = 0
SPECIFICATION FairSFSpec
PROPERTY SlotReleased
CHECK_DEADLOCK FALSE
