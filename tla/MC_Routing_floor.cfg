\* One request while tiers and alternatives are registered, the predicate is
\* replaced by a stricter one and back, and tiers go down and come back.
CONSTANTS
    Names = {1, 2, 3}
    NoName = 0
    Offered <- OfferedTiers
    NoTier = NoTier
    Policies = {stricter}
    Denied <- DeniedBy
    Requests = {q}
    Signals <- RequestSignals
    Sinks = {"evidence", "savings"}
    SinkFaults = {"evidence", "savings"}
    MaxAlternatives = 2
    MaxChanges = 3
SPECIFICATION FailoverSpec
INVARIANTS
    TypeOK
    AlternativesSound
    FloorNeverBypassed
    LoadBearingNotCheaper
    CheapestAdequate
    FailoverHonest
    TrailMatchesDecision
    BaselineAtLeastAsStrong
    FailoverByLiveness
