------------------------------ MODULE Pipeline ------------------------------
(***************************************************************************)
(* OptimizeCached (pipeline/cache.go): the composition of GetOrCompute     *)
(* with Optimize, the caller's execute and the savings ledger.             *)
(*                                                                         *)
(* Its compute function is Optimize, which bills the tier it chose, and    *)
(* then execute; a call that computed nothing is billed as a cache hit.    *)
(* Optimize is one step here, which may choose any tier or fail: Routing   *)
(* has its steps.  The recorder keeps a record whose line cannot be        *)
(* written (Telemetry), so that a failed Record may have billed.           *)
(***************************************************************************)
EXTENDS SingleFlight, Sequences

CONSTANTS
    Uncached,       \* the goroutines whose Optimizer has no cache
    TierNames,      \* the tiers Optimize may decide for
    NoDecision,     \* the zero Decision
    SavingsFails    \* whether Record, or the baseline it needs, may fail

ASSUME PipelineAssumption ==
    /\ Uncached \subseteq Goroutines
    /\ NoDecision \notin TierNames
    /\ "cache_hit" \notin TierNames
    /\ SavingsFails \in BOOLEAN

VARIABLES
    stage,          \* where each goroutine is in OptimizeCached
    request         \* its locals and results

pipelineVars == <<stage, request>>

allVars == <<vars, pipelineVars>>

(***************************************************************************)
(* decision is computedDecision, computed and hit as in the code, ok says  *)
(* that no error was returned.  History: bills are the tags of the ledger  *)
(* lines of this call, executed that its execute returned a value.         *)
(***************************************************************************)
CachedCall == [decision : TierNames \cup {NoDecision}, computed : BOOLEAN, hit : BOOLEAN,
               ok : BOOLEAN, bills : Seq(TierNames \cup {"cache_hit"}), executed : BOOLEAN]

NewRequest == [decision |-> NoDecision, computed |-> FALSE, hit |-> FALSE, ok |-> FALSE,
               bills |-> <<>>, executed |-> FALSE]

PipelineTypeOK ==
    /\ SFTypeOK
    /\ stage \in [Goroutines -> {"out", "cached", "execute", "direct", "perform",
                              "returned"}]
    /\ request \in [Goroutines -> CachedCall]

PipelineInit ==
    /\ SFInit
    /\ stage = [g \in Goroutines |-> "out"]
    /\ request = [g \in Goroutines |-> NewRequest]

-----------------------------------------------------------------------------
GotoStage(g, at) == stage' = [stage EXCEPT ![g] = at]

OptimizeCached(g, k) ==
    /\ stage[g] = "out"
    /\ GetOrCompute(g, k)
    /\ GotoStage(g, "cached")
    /\ UNCHANGED request

-----------------------------------------------------------------------------
(* The compute function.                                                   *)

Computing(g) == stage[g] = "cached" /\ flight[g] = "compute"

(* Optimize decided for a tier and billed it.                              *)
Route(g) ==
    /\ Computing(g)
    /\ \E t \in TierNames :
          request' = [request EXCEPT ![g].computed = TRUE, ![g].decision = t,
                                     ![g].bills = Append(@, t)]
    /\ GotoStage(g, "execute")
    /\ UNCHANGED vars

(* No tier: nothing was billed.                                            *)
RouteFails(g) ==
    /\ Computing(g)
    /\ ComputeError(g)
    /\ request' = [request EXCEPT ![g].computed = TRUE]
    /\ UNCHANGED stage

(* A tier, but an error of the ledger beside it: the Decision is dropped.  *)
RouteUnbilled(g) ==
    /\ SavingsFails
    /\ Computing(g)
    /\ ComputeError(g)
    /\ \E t \in TierNames :
          request' = [request EXCEPT ![g].computed = TRUE,
                                     ![g].bills = Append(@, t)]
    /\ UNCHANGED stage

(* Mutant: the answer is billed where it is made, too.                     *)
ExecuteAndBill(g) ==
    /\ stage[g] = "execute"
    /\ ComputeOk(g)
    /\ GotoStage(g, "cached")
    /\ request' = [request EXCEPT ![g].executed = TRUE,
                                  ![g].bills = Append(@, request[g].decision)]

Execute(g) ==
    /\ stage[g] = "execute"
    /\ ComputeOk(g)
    /\ GotoStage(g, "cached")
    /\ request' = [request EXCEPT ![g].executed = TRUE]

ExecuteFails(g) ==
    /\ stage[g] = "execute"
    /\ ComputeError(g)
    /\ GotoStage(g, "cached")
    /\ UNCHANGED request

-----------------------------------------------------------------------------
(* Without a cache Optimize and execute run one after the other, the key   *)
(* is not looked at, and nothing is a hit.                                 *)

OptimizeUncached(g) ==
    /\ g \in Uncached
    /\ stage[g] = "out"
    /\ flight[g] = "out" /\ pc[g] = "idle"
    /\ GotoStage(g, "direct")
    /\ UNCHANGED <<vars, request>>

RouteDirect(g) ==
    /\ stage[g] = "direct"
    /\ \E t \in TierNames :
          request' = [request EXCEPT ![g].decision = t, ![g].bills = Append(@, t)]
    /\ GotoStage(g, "perform")
    /\ UNCHANGED vars

(* No tier, or one with an error of the ledger: the Decision is dropped.   *)
RouteDirectFails(g) ==
    /\ stage[g] = "direct"
    /\ \/ UNCHANGED request
       \/ /\ SavingsFails
          /\ \E t \in TierNames : request' = [request EXCEPT ![g].bills = Append(@, t)]
    /\ GotoStage(g, "returned")
    /\ UNCHANGED vars

PerformDirect(g) ==
    /\ stage[g] = "perform"
    /\ \E ok \in BOOLEAN :
          request' = [request EXCEPT ![g].ok = ok, ![g].executed = ok]
    /\ GotoStage(g, "returned")
    /\ UNCHANGED vars

-----------------------------------------------------------------------------
(* What the call makes of the answer of GetOrCompute.                      *)

Answered(g) ==
    /\ stage[g] = "cached"
    /\ flight[g] = "answer"
    /\ ReturnAnswer(g)
    /\ GotoStage(g, "returned")

(* The error of this call's compute, or of the winner it waited for.       *)
ReturnError(g) ==
    /\ Answered(g)
    /\ job[g].answer = Failed
    /\ UNCHANGED request

(* Mutant: a loser of the single flight does not count as a hit.           *)
NeverHit(g) == FALSE

IsHit(g) == job[g].answer # Failed /\ ~request[g].computed

ReturnMiss(g) ==
    /\ Answered(g)
    /\ job[g].answer # Failed
    /\ ~IsHit(g)
    /\ request' = [request EXCEPT ![g].ok = TRUE]

ReturnHit(g) ==
    /\ Answered(g)
    /\ IsHit(g)
    /\ request' = [request EXCEPT ![g].hit = TRUE, ![g].ok = TRUE,
                                  ![g].bills = Append(@, "cache_hit")]

(* The value is returned beside the error.                                 *)
ReturnHitUnbilled(g) ==
    /\ SavingsFails
    /\ Answered(g)
    /\ IsHit(g)
    /\ \E retained \in BOOLEAN :
          request' = [request EXCEPT ![g].hit = TRUE,
                         ![g].bills = IF retained THEN Append(@, "cache_hit") ELSE @]

Leaves(g) ==
    /\ stage[g] = "returned"
    /\ GotoStage(g, "out")
    /\ request' = [request EXCEPT ![g] = NewRequest]
    /\ UNCHANGED vars

-----------------------------------------------------------------------------
(* The specification.  Panics and crashes are left to SingleFlight.        *)

RequestStep(g) ==
    \/ Route(g) \/ RouteFails(g) \/ RouteUnbilled(g)
    \/ Execute(g) \/ ExecuteFails(g)
    \/ OptimizeUncached(g) \/ RouteDirect(g) \/ RouteDirectFails(g) \/ PerformDirect(g)
    \/ ReturnError(g) \/ ReturnMiss(g) \/ ReturnHit(g) \/ ReturnHitUnbilled(g)
    \/ Leaves(g)

(* The steps of the guard and of the cache, and the other callers.         *)
CachePart(g) ==
    /\ \/ GuardStep(g)
       \/ CacheStep(g)
       \/ stage[g] = "out" /\ PlainCall(g)
    /\ UNCHANGED pipelineVars

PipelineNext ==
    \/ \E g \in Goroutines :
          \/ \E k \in Keys : OptimizeCached(g, k)
          \/ RequestStep(g)
          \/ CachePart(g)
    \/ Tick /\ UNCHANGED <<sfVars, pipelineVars>>

PipelineSpec == PipelineInit /\ [][PipelineNext]_allVars

-----------------------------------------------------------------------------
(* Properties.                                                             *)

(***************************************************************************)
(* A call that returns without error is billed once: for the tier of its   *)
(* Decision if it computed, as a cache hit otherwise.  A call that fails   *)
(* is billed at most once, for its Decision if it returns one              *)
(* (cache.go 151-155, 171-186).                                            *)
(***************************************************************************)
BilledOnce ==
    \A g \in Goroutines : stage[g] = "returned" =>
        LET r == request[g]
        IN  /\ Len(r.bills) <= 1
            /\ r.ok => r.bills = <<IF r.hit THEN "cache_hit" ELSE r.decision>>
            /\ r.decision # NoDecision => r.bills = <<r.decision>>

(***************************************************************************)
(* hit says truly whether this call routed and executed: a hit did neither *)
(* and carries no Decision, an answer that is no hit did both (cache.go    *)
(* 107-114).                                                               *)
(***************************************************************************)
HitIsHonest ==
    \A g \in Goroutines : stage[g] = "returned" =>
        LET r == request[g]
        IN  /\ r.hit => ~r.executed /\ ~r.computed /\ r.decision = NoDecision
            /\ r.ok /\ ~r.hit => r.executed /\ r.decision # NoDecision

=============================================================================
