\* Two goroutines ask for one key in one process, a third one invalidates it
\* up to twice and calls without a cache; routing, execution and the ledger
\* may fail.
CONSTANTS
    a1 = a1
    a2 = a2
    a3 = a3
    c1 = c1
    k1 = k1
    Keys = {k1}
    Instances = {c1}
    Goroutines = {a1, a2, a3}
    InstanceOf <- ProcessOf
    Computers = {a1, a2}
    Setters = {}
    Invalidators = {a3}
    TTLs = {0}
    TombstoneTTL = 0
    HasStore = FALSE
    StoreFaults = {}
    HasLock = FALSE
    CallFaults = {"compute"}
    NoEntry = NoEntry
    Nobody = Nobody
    Failed = Failed
    MaxTime = 2
    MaxEpoch = 3
    MaxCrashes = 0
    Uncached = {a3}
    TierNames = {"haiku"}
    NoDecision = NoDecision
    SavingsFails = TRUE
SYMMETRY Alike
SPECIFICATION PipelineSpec
INVARIANTS
    PipelineTypeOK
    BilledOnce
    HitIsHonest
    RegistryIsExact
PROPERTIES
    GuardsStampede
    SupersededIsNoticed
