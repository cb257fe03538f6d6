----------------------------- MODULE MC_Routing -----------------------------
(***************************************************************************)
(* Values for the constants of Routing: three tiers whose prices do not    *)
(* follow their priorities, and tiers RegisterTier rejects.                *)
(***************************************************************************)
EXTENDS Failover

TierOf(n, prio, in, out) == [name |-> n, priority |-> prio, priceIn |-> in, priceOut |-> out]

Ladder == {TierOf(1, 1, 0, 0), TierOf(2, 2, 2, 2), TierOf(3, 2, 1, 1)}

(* A negative price, and no name.                                          *)
Rejects == {TierOf(2, 1, 9, -1), TierOf(NoName, 1, 0, 0)}

OfferedTiers == Ladder \cup Rejects

(* Stricter than the default: nothing may get cheaper, load-bearing or not.*)
NeverCheaper ==
    {p \in Offered \X Offered \X BOOLEAN : CombinedPrice(p[2]) < CombinedPrice(p[1])}

DeniedBy == [fn \in Policies |-> NeverCheaper]

Ask(min, floor, lb) ==
    [minTier |-> min, floorTier |-> floor, loadBearing |-> lb, autoBaseline |-> lb]

RequestSignals ==
    {Ask(NoName, NoName, TRUE), Ask(2, NoName, FALSE), Ask(3, 2, FALSE), Ask(2, 3, TRUE)}

=============================================================================
