\* The sums of costs depend on the order of the records (savings.go:247-248),
\* a counterexample.
CONSTANTS
    Recorders = {g1, g2}
    Readers = {r1}
    Tags = {"haiku", "opus", "stray"}
    untagged = untagged
    NoTag = untagged
    NoRec = NoRec
    Known = {"haiku", "opus"}
    Offered <- TokenCounts
    HasSink = TRUE
    SinkFails = TRUE
    Bits = 4
    Mantissa = 2
    Nobody = Nobody
    MaxCalls = 3
SPECIFICATION Spec
INVARIANTS
    SumsIgnoreOrder
