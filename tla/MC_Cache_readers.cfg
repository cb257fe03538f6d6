\* One goroutine sets and invalidates a key that never expires, two read it,
\* and every store call may fail and a Delete leave the value behind.
CONSTANTS
    w = w
    i = i
    r1 = r1
    r2 = r2
    c1 = c1
    k1 = k1
    k2 = k2
    Keys = {k1}
    Instances = {c1}
    Goroutines = {w, r1, r2}
    InstanceOf <- OneInstance
    Setters = {w}
    Invalidators = {w}
    TTLs = {0}
    TombstoneTTL = 0
    HasStore = TRUE
    StoreFaults = {"get", "set", "delete", "leak"}
    NoEntry = NoEntry
    MaxTime = 3
    MaxEpoch = 3
SPECIFICATION Spec
SYMMETRY Readers
INVARIANTS
    TypeOK
    TombstoneGuardsL1
    NoStaleServe
PROPERTIES
    NeverResurrectOlder
