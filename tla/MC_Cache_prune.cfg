\* Expiring entries and pruned tombstones within the contract of
\* WithTombstoneTTL: two keys, so that invalidating one prunes the other.
CONSTANTS
    w = w
    i = i
    r1 = r1
    r2 = r2
    c1 = c1
    k1 = k1
    k2 = k2
    Keys = {k1, k2}
    Instances = {c1}
    Goroutines = {w, r1}
    InstanceOf <- OneInstance
    Setters = {w}
    Invalidators = {w}
    TTLs = {1}
    TombstoneTTL = 1
    HasStore = TRUE
    StoreFaults = {"leak"}
    NoEntry = NoEntry
    MaxTime = 4
    MaxEpoch = 2
SPECIFICATION Spec
INVARIANTS
    ExpiredNeverServed
    StaleServeHasExpired
    PruneSafe
PROPERTIES
    RetentionBounded
