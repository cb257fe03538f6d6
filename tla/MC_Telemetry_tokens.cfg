\* The token recorder with a sink that fails or hangs: two goroutines make
\* three records while a third aggregates.
CONSTANTS
    Recorders = {g1, g2}
    Readers = {r1}
    Tags = {"haiku", "opus", "stray"}
    untagged = untagged
    NoTag = untagged
    NoRec = NoRec
    Known = {"haiku", "opus"}
    Offered <- TokenCounts
    HasSink = TRUE
    SinkFails = TRUE
    Bits = 4
    Mantissa = 2
    Nobody = Nobody
    MaxCalls = 3
SPECIFICATION FairSpec
INVARIANTS
    SinkMirrorsLog
    NothingDropped
    Reconciles
    OrderIrrelevant
PROPERTIES
    ReadersNotBlocked
