\* Two processes that share a lock and no store: compute may fail, and the
\* wait for the other process runs out of its budget.
CONSTANTS
    a1 = a1
    a2 = a2
    a3 = a3
    b1 = b1
    c1 = c1
    c2 = c2
    k1 = k1
    Keys = {k1}
    Instances = {c1, c2}
    Goroutines = {a1, a2, b1}
    InstanceOf <- ProcessOf
    Computers = {a1, a2, b1}
    Setters = {}
    Invalidators = {}
    TTLs = {0}
    TombstoneTTL = 0
    HasStore = FALSE
    StoreFaults = {}
    HasLock = TRUE
    CallFaults = {"compute", "timeout"}
    NoEntry = NoEntry
    Nobody = Nobody
    Failed = Failed
    MaxTime = 1
    MaxEpoch = 2
    MaxCrashes = 0
SPECIFICATION FairSFSpec
INVARIANTS
    ComputedOncePerProcess
PROPERTIES
    GetOrComputeReturns
