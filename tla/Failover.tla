------------------------------ MODULE Failover ------------------------------
(***************************************************************************)
(* router.Failover: the walk down the alternatives of a tier that looks at *)
(* liveness only.  The liveness predicate is called once per tier, and     *)
(* between two calls tiers go down, come back and are registered.          *)
(*                                                                         *)
(* Optimize does not call it, and it shares with Optimize nothing but the  *)
(* Config and the tiers that are up, neither of which they write: the two  *)
(* are not interleaved here, which bounds the states.                      *)
(***************************************************************************)
EXTENDS Routing

VARIABLE walk       \* the call of Failover

failoverVars == <<vars, walk>>

Outcomes == {"primary_live", "failover_alternative", "ErrUnknownTier", "ErrNoLiveTier"}

(* tier is what is returned, at counts the alternatives that are behind.   *)
(* History: ever and steady as in Routing.                                 *)
NoWalk == [pc |-> "idle", primary |-> NoName, chain |-> <<>>, at |-> 0, tier |-> NoTier,
           ever |-> {}, steady |-> {}]

FailoverInit == Init /\ walk = NoWalk

Ends(outcome, tier) == walk' = [walk EXCEPT !.pc = outcome, !.tier = tier]

CallFailover(primary) ==
    /\ walk.pc = "idle"
    /\ \A q \in Requests : pc[q] = "idle"
    /\ walk' = [NoWalk EXCEPT !.pc = IF tiers[primary] = NoTier THEN "ErrUnknownTier"
                                     ELSE "primary",
                              !.primary = primary, !.ever = up, !.steady = up]

PrimaryLive ==
    /\ walk.pc = "primary"
    /\ walk.primary \in up
    /\ Ends("primary_live", tiers[walk.primary])

PrimaryDown ==
    /\ walk.pc = "primary"
    /\ walk.primary \notin up
    /\ walk' = [walk EXCEPT !.pc = "chain"]

CopyChain ==
    /\ walk.pc = "chain"
    /\ walk' = [walk EXCEPT !.pc = "alternatives", !.chain = alternatives[walk.primary]]

(* A name that is not registered is skipped.                               *)
Upcoming(n) ==
    /\ walk.pc = "alternatives"
    /\ walk.at < Len(walk.chain)
    /\ n = walk.chain[walk.at + 1]

ChainLive(n) ==
    /\ Upcoming(n)
    /\ tiers[n] # NoTier /\ n \in up
    /\ Ends("failover_alternative", tiers[n])

\* Mutant of ChainDown: the walk gives up at the first alternative that is down.
ChainDownGivesUp(n) ==
    /\ Upcoming(n)
    /\ tiers[n] = NoTier \/ n \notin up
    /\ Ends("ErrNoLiveTier", NoTier)

ChainDown(n) ==
    /\ Upcoming(n)
    /\ tiers[n] = NoTier \/ n \notin up
    /\ walk' = [walk EXCEPT !.at = @ + 1]

NoLiveTier ==
    /\ walk.pc = "alternatives"
    /\ walk.at = Len(walk.chain)
    /\ Ends("ErrNoLiveTier", NoTier)

FailoverReturns ==
    /\ walk.pc \in Outcomes
    /\ walk' = NoWalk

Watched == walk' = IF walk.pc = "idle" \/ walk.pc \in Outcomes THEN walk
                   ELSE [walk EXCEPT !.ever = @ \cup up', !.steady = @ \cap up']

FailoverStep ==
    \/ \E n \in Names : CallFailover(n) \/ ChainLive(n) \/ ChainDown(n)
    \/ PrimaryLive \/ PrimaryDown \/ CopyChain \/ NoLiveTier \/ FailoverReturns

FailoverNext ==
    \/ Configure /\ Watched
    \/ \E q \in Requests : /\ (Optimize(q) /\ walk.pc = "idle") \/ RequestStep(q) \/ Return(q)
                          /\ UNCHANGED walk
    \/ FailoverStep /\ UNCHANGED vars

FailoverSpec == FailoverInit /\ [][FailoverNext]_failoverVars

-----------------------------------------------------------------------------
(***************************************************************************)
(* Failover returns the first live tier of the chain that it was given     *)
(* (failover.go 23-35): the tier returned was up at some moment of the     *)
(* call, every tier before it was down at some moment, and there is none   *)
(* only when that holds of the whole chain, which is still the beginning   *)
(* of the registered one.  No floor is consulted.                          *)
(***************************************************************************)
FailoverByLiveness ==
    LET w == walk
        alts == alternatives[w.primary]
    IN  w.pc # "idle" =>
          /\ w.tier # NoTier => w.tier.name \in w.ever
          /\ w.pc = "primary_live" => w.tier = tiers[w.primary]
          /\ w.pc \in {"chain", "alternatives", "failover_alternative", "ErrNoLiveTier"} =>
                w.primary \notin w.steady
          /\ \A i \in 1 .. w.at : w.chain[i] \notin w.steady
          /\ w.pc = "failover_alternative" => w.tier = tiers[w.chain[w.at + 1]]
          /\ w.pc = "ErrNoLiveTier" => w.at = Len(w.chain)
          /\ \A i \in DOMAIN w.chain : i \in DOMAIN alts /\ alts[i] = w.chain[i]

=============================================================================
