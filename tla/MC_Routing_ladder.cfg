\* Priorities and prices disagree: the default predicate lets a load-bearing
\* request below its floor on the ladder (router.go:113-117), a counterexample.
CONSTANTS
    Names = {1, 2, 3}
    NoName = 0
    Offered <- OfferedTiers
    NoTier = NoTier
    Policies = {stricter}
    Denied <- DeniedBy
    Requests = {q}
    Signals <- RequestSignals
    Sinks = {"evidence", "savings"}
    SinkFaults = {"evidence", "savings"}
    MaxAlternatives = 2
    MaxChanges = 3
SPECIFICATION FailoverSpec
INVARIANTS
    LoadBearingAtFloor
