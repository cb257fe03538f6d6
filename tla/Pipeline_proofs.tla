-------------------------- MODULE Pipeline_proofs --------------------------
(***************************************************************************)
(* Theorems about Pipeline for every set of goroutines, keys and tiers,    *)
(* every fault of compute and every failure of the savings ledger.         *)
(***************************************************************************)
EXTENDS Pipeline, SingleFlight_proofs, SequenceTheorems

(***************************************************************************)
(* OptimizeCached drives GetOrCompute: every step of the pipeline is one   *)
(* of the guard, without panics and crashes, or leaves the guard alone.    *)
(***************************************************************************)
LEMMA PipelineIsOrderly ==
    ASSUME [PipelineNext]_allVars
    PROVE  [Orderly]_vars /\ [Uncrashed]_vars /\ [SFNext]_vars
<1>1. ASSUME NEW g \in Goroutines, NEW k \in Keys, OptimizeCached(g, k) PROVE Acts(g)
  BY <1>1 DEF OptimizeCached, Acts
<1>2. ASSUME NEW g \in Goroutines, RequestStep(g) PROVE Acts(g) \/ UNCHANGED vars
  <2>1. CASE Route(g) \/ OptimizeUncached(g) \/ RouteDirect(g) \/ RouteDirectFails(g)
             \/ PerformDirect(g) \/ Leaves(g)
    BY <2>1 DEF Route, OptimizeUncached, RouteDirect, RouteDirectFails, PerformDirect, Leaves
  <2>2. CASE RouteFails(g) \/ RouteUnbilled(g) \/ Execute(g) \/ ExecuteFails(g)
    BY <2>2 DEF RouteFails, RouteUnbilled, Execute, ExecuteFails, Acts, FlightStep
  <2>3. CASE ReturnError(g) \/ ReturnMiss(g) \/ ReturnHit(g) \/ ReturnHitUnbilled(g)
    BY <2>3 DEF ReturnError, ReturnMiss, ReturnHit, ReturnHitUnbilled, Answered, Acts,
                FlightStep
  <2> QED
    BY <1>2, <2>1, <2>2, <2>3 DEF RequestStep
<1>3. ASSUME NEW g \in Goroutines, CachePart(g) PROVE Acts(g)
  BY <1>3 DEF CachePart, Acts, FlightStep
<1>4. (Tick /\ UNCHANGED <<sfVars, pipelineVars>>) => Tick /\ UNCHANGED sfVars
  OBVIOUS
<1>5. UNCHANGED allVars => UNCHANGED vars
  BY DEF allVars
<1>6. \/ \E g \in Goroutines : Acts(g)
      \/ Tick /\ UNCHANGED sfVars
      \/ UNCHANGED vars
  BY <1>1, <1>2, <1>3, <1>4, <1>5 DEF PipelineNext
<1> QED
  BY <1>6 DEF Orderly, Uncrashed, SFNext, Acts

(***************************************************************************)
(* The pipeline runs the stampede guard (pipeline/cache.go 144-166).       *)
(***************************************************************************)
THEOREM PipelineRunsGuard == PipelineSpec => SFSpec
<1>1. PipelineInit => SFInit
  BY DEF PipelineInit
<1>2. [PipelineNext]_allVars => [SFNext]_vars
  BY PipelineIsOrderly
<1> QED
  BY <1>1, <1>2, PTL DEF PipelineSpec, SFSpec

(***************************************************************************)
(* Under the pipeline, whose compute function does not panic, the registry *)
(* of the guard names exactly the calls that are computing, through every  *)
(* error of routing, of execution and of the ledger (singleflight.go       *)
(* 80-107, 121-137).                                                       *)
(***************************************************************************)
THEOREM PipelineRegistryExact == PipelineSpec => []RegistryIsExact
<1>1. SFTyped /\ Registered /\ Rechecking /\ NamesLeaders /\ [PipelineNext]_allVars =>
          Registered' /\ Rechecking' /\ NamesLeaders'
  BY PipelineIsOrderly, OrderlyRegistry
<1>2. PipelineInit => Registered /\ Rechecking /\ NamesLeaders
  BY RegistryInit DEF PipelineInit
<1> QED
  BY <1>1, <1>2, PipelineRunsGuard, AlwaysSFTyped, ExactIsBoth, PTL DEF PipelineSpec

(***************************************************************************)
(* The pipeline over an in-memory cache never starts a second routing and  *)
(* execution of a key while one is under way, nor one for a cached key     *)
(* (singleflight.go 86-98, 128-134).                                       *)
(***************************************************************************)
THEOREM PipelineGuardsStampede ==
    ASSUME ~HasStore, Setters = {}
    PROVE  PipelineSpec => GuardsStampede
<1>1. Guarded /\ [PipelineNext]_allVars => Guarded' /\ [Flight!Next]_(Flight!flightVars)
  BY PipelineIsOrderly, GuardedStep, GuardedRefines
<1>2. PipelineInit => Guarded /\ Flight!Init
  BY GuardedInit DEF PipelineInit
<1> QED
  BY <1>1, <1>2, PTL DEF PipelineSpec, GuardsStampede, Flight!Spec

-----------------------------------------------------------------------------
(***************************************************************************)
(* The books of a call, by the stage it is in: nothing is billed before    *)
(* Optimize chose a tier; from then on the call is billed for that tier,   *)
(* and the answer of GetOrCompute is the error or the value of its own     *)
(* compute; a call that reached the answer otherwise has no bill at all.   *)
(***************************************************************************)
Ledger == Seq(TierNames \cup {"cache_hit"})

Fresh(r) ==
    r.decision = NoDecision /\ ~r.computed /\ ~r.hit /\ ~r.ok /\ r.bills = <<>> /\ ~r.executed

Routed(r) == r.decision \in TierNames /\ r.bills = <<r.decision>>

Dropped(r) ==
    r.decision = NoDecision /\ (r.bills = <<>> \/ \E t \in TierNames : r.bills = <<t>>)

Served(r, answer) ==
    /\ r.computed /\ ~r.hit /\ ~r.ok
    /\ answer = Failed => ~r.executed /\ (Routed(r) \/ Dropped(r))
    /\ answer # Failed => r.executed /\ Routed(r)

(* compute has returned.                                                   *)
Computed == {"check", "write", "unlock", "publish", "release", "answer"}

Settled(r) ==
    /\ Len(r.bills) <= 1
    /\ r.ok => r.bills = <<IF r.hit THEN "cache_hit" ELSE r.decision>>
    /\ r.decision # NoDecision => r.bills = <<r.decision>>
    /\ r.hit => ~r.executed /\ ~r.computed /\ r.decision = NoDecision
    /\ r.ok /\ ~r.hit => r.executed /\ r.decision # NoDecision

Stages == {"out", "cached", "execute", "direct", "perform", "returned"}

InOrder(s, f, answer, r) ==
    /\ s \in {"out", "direct"} => f = "out" /\ Fresh(r)
    /\ s = "perform" => f = "out" /\ Routed(r) /\ ~r.hit
    /\ s = "execute" => /\ f = "compute" /\ Routed(r)
                        /\ r.computed /\ ~r.hit /\ ~r.ok /\ ~r.executed
    /\ s = "cached" => f # "out" /\ (Fresh(r) \/ (f \in Computed /\ Served(r, answer)))
    /\ s = "returned" => f = "out" /\ Settled(r)

Accounts ==
    \A g \in Goroutines : InOrder(stage[g], flight[g], job[g].answer, request[g])

PipelineTyped ==
    /\ SFTyped
    /\ stage \in [Goroutines -> Stages]
    /\ request \in [Goroutines -> CachedCall]

Ordered == PipelineTyped /\ Accounts

LEMMA CallFields ==
    ASSUME NEW r \in CachedCall
    PROVE  /\ r.decision \in TierNames \cup {NoDecision} /\ r.bills \in Ledger
           /\ r.computed \in BOOLEAN /\ r.hit \in BOOLEAN /\ r.ok \in BOOLEAN
           /\ r.executed \in BOOLEAN
  BY DEF CachedCall, Ledger

LEMMA FirstBill ==
    ASSUME NEW t \in TierNames \cup {"cache_hit"}
    PROVE  /\ Append(<<>>, t) = <<t>> /\ <<t>> \in Ledger /\ Len(<<t>>) = 1
           /\ <<>> \in Ledger /\ Len(<<>>) = 0
  BY DEF Ledger

(* A step of one call, and what it makes of the books of that call.        *)
LEMMA OwnBooks ==
    ASSUME PipelineTyped, Accounts, NEW g \in Goroutines,
           NEW s \in Stages, GotoStage(g, s), NEW r \in CachedCall,
           request' = [request EXCEPT ![g] = r],
           \A h \in Goroutines \ {g} : flight'[h] = flight[h] /\ job'[h] = job[h],
           InOrder(s, flight'[g], job'[g].answer, r)
    PROVE  /\ stage' \in [Goroutines -> Stages]
           /\ request' \in [Goroutines -> CachedCall]
           /\ Accounts'
<1>1. /\ stage'[g] = s /\ request'[g] = r
      /\ \A h \in Goroutines \ {g} : stage'[h] = stage[h] /\ request'[h] = request[h]
  BY DEF PipelineTyped, GotoStage
<1>2. stage' \in [Goroutines -> Stages] /\ request' \in [Goroutines -> CachedCall]
  BY DEF PipelineTyped, GotoStage
<1>3. \A h \in Goroutines : InOrder(stage'[h], flight'[h], job'[h].answer, request'[h])
  BY <1>1 DEF Accounts
<1> QED
  BY <1>2, <1>3 DEF Accounts

LEMMA BillTyped ==
    ASSUME NEW r \in CachedCall, NEW t \in TierNames \cup {"cache_hit"}
    PROVE  Append(r.bills, t) \in Ledger
  BY CallFields, AppendProperties DEF Ledger

LEMMA BookTyped ==
    ASSUME NEW r \in CachedCall, NEW b \in Ledger, NEW d \in TierNames \cup {NoDecision},
           NEW c \in BOOLEAN, NEW h \in BOOLEAN, NEW o \in BOOLEAN, NEW e \in BOOLEAN
    PROVE  [decision |-> d, computed |-> c, hit |-> h, ok |-> o, bills |-> b, executed |-> e]
               \in CachedCall
  BY DEF CachedCall, Ledger

LEMMA RouteBooks ==
    ASSUME Ordered, NEW g \in Goroutines, Route(g) \/ RouteDirect(g)
    PROVE  /\ stage' \in [Goroutines -> Stages]
           /\ request' \in [Goroutines -> CachedCall]
           /\ Accounts'
<1> USE DEF Ordered
<1>0. request \in [Goroutines -> CachedCall] /\ UNCHANGED vars
  BY DEF PipelineTyped, Route, RouteDirect
<1>1. UNCHANGED <<flight, job>>
  BY <1>0 DEF vars, sfVars
<1>2. request[g] \in CachedCall
  BY <1>0
<1>3. CASE Route(g)
  <2>1. PICK t \in TierNames :
          request' = [request EXCEPT ![g].computed = TRUE, ![g].decision = t,
                                     ![g].bills = Append(@, t)]
    BY <1>3 DEF Route
  <2>2. flight[g] = "compute" /\ stage[g] = "cached" /\ GotoStage(g, "execute")
    BY <1>3 DEF Route, Computing
  <2>3. Fresh(request[g])
    BY <2>2 DEF Accounts, InOrder, Computed
  <2> DEFINE r == [request[g] EXCEPT !.computed = TRUE, !.decision = t,
                                     !.bills = Append(request[g].bills, t)]
  <2>4. request' = [request EXCEPT ![g] = r]
    BY <1>0, <2>1
  <2>5. r \in CachedCall /\ r.computed /\ ~r.hit /\ ~r.ok /\ ~r.executed /\ r.decision = t
        /\ r.bills = <<t>>
    BY <1>2, <2>3, BillTyped, FirstBill DEF Fresh, CachedCall, Ledger
  <2> HIDE DEF r
  <2>6. InOrder("execute", flight'[g], job'[g].answer, r)
    BY <1>1, <2>2, <2>5 DEF InOrder, Routed
  <2> QED
    BY <1>1, <2>2, <2>4, <2>5, <2>6, OwnBooks DEF Stages
<1>4. CASE RouteDirect(g)
  <2>1. PICK t \in TierNames :
          request' = [request EXCEPT ![g].decision = t, ![g].bills = Append(@, t)]
    BY <1>4 DEF RouteDirect
  <2>2. flight[g] = "out" /\ stage[g] = "direct" /\ GotoStage(g, "perform")
    BY <1>4 DEF RouteDirect, Accounts, InOrder
  <2>3. Fresh(request[g])
    BY <2>2 DEF Accounts, InOrder
  <2> DEFINE r == [request[g] EXCEPT !.decision = t, !.bills = Append(request[g].bills, t)]
  <2>4. request' = [request EXCEPT ![g] = r]
    BY <1>0, <2>1
  <2>5. r \in CachedCall /\ ~r.hit /\ r.decision = t /\ r.bills = <<t>>
    BY <1>2, <2>3, BillTyped, FirstBill DEF Fresh, CachedCall, Ledger
  <2> HIDE DEF r
  <2>6. InOrder("perform", flight'[g], job'[g].answer, r)
    BY <1>1, <2>2, <2>5 DEF InOrder, Routed
  <2> QED
    BY <1>1, <2>2, <2>4, <2>5, <2>6, OwnBooks DEF Stages
<1> QED
  BY <1>3, <1>4

(* compute returns an error or a value.                                    *)
LEMMA ComputeEnds ==
    ASSUME SFTyped, NEW g \in Goroutines, ComputeError(g) \/ ComputeOk(g)
    PROVE  /\ \A h \in Goroutines \ {g} : flight'[h] = flight[h] /\ job'[h] = job[h]
           /\ flight[g] = "compute" /\ flight'[g] \in Computed
           /\ IF ComputeError(g) THEN job'[g].answer = Failed ELSE job'[g].answer # Failed
<1>1. flight \in [Goroutines -> Flights] /\ job \in [Goroutines -> Job] /\ job[g] \in Job
  BY DEF SFTyped, SFTypeOK
<1>2. CASE ComputeError(g)
  <2>1. job' = [job EXCEPT ![g] = [job[g] EXCEPT !.answer = Failed]]
    BY <1>1, <1>2 DEF ComputeError, Answer
  <2>2. [job[g] EXCEPT !.answer = Failed].answer = Failed
    BY <1>1 DEF Job
  <2> QED
    BY <1>1, <1>2, <2>1, <2>2 DEF ComputeError, Leave, Goto, Computed
<1>3. CASE ComputeOk(g) /\ ~ComputeError(g)
  <2>1. PICK ttl \in TTLs :
            job' = [job EXCEPT ![g].answer = epoch[Key(g)] + 1, ![g].ttl = ttl]
    BY <1>3 DEF ComputeOk
  <2>2. epoch[Key(g)] + 1 \in Nat
    BY JobTyped DEF SFTyped, SFTypeOK, TypeOK
  <2>3. /\ \A h \in Goroutines \ {g} : job'[h] = job[h]
        /\ job'[g] = [job[g] EXCEPT !.answer = epoch[Key(g)] + 1, !.ttl = ttl]
    BY <1>1, <2>1
  <2>4. job'[g].answer = epoch[Key(g)] + 1
    BY <1>1, <2>3 DEF Job
  <2> QED
    BY <1>1, <1>3, <2>2, <2>3, <2>4, SingleFlightAssumption DEF ComputeOk, Goto, Computed
<1> QED
  BY <1>2, <1>3

LEMMA ComputeBooks ==
    ASSUME Ordered, NEW g \in Goroutines,
           RouteFails(g) \/ RouteUnbilled(g) \/ Execute(g) \/ ExecuteFails(g)
    PROVE  /\ stage' \in [Goroutines -> Stages]
           /\ request' \in [Goroutines -> CachedCall]
           /\ Accounts'
<1> USE DEF Ordered
<1>0. /\ request \in [Goroutines -> CachedCall] /\ request[g] \in CachedCall
      /\ stage \in [Goroutines -> Stages] /\ stage[g] \in Stages /\ SFTyped
  BY DEF PipelineTyped
<1>1. /\ \A h \in Goroutines \ {g} : flight'[h] = flight[h] /\ job'[h] = job[h]
      /\ flight[g] = "compute" /\ flight'[g] \in Computed
      /\ IF ComputeError(g) THEN job'[g].answer = Failed ELSE job'[g].answer # Failed
  BY <1>0, ComputeEnds DEF RouteFails, RouteUnbilled, Execute, ExecuteFails
<1>2. flight'[g] # "out" /\ "cached" \in Stages
  BY <1>1 DEF Computed, Stages
<1>3. ASSUME NEW r \in CachedCall, request' = [request EXCEPT ![g] = r],
             GotoStage(g, "cached"), Served(r, job'[g].answer)
      PROVE  /\ stage' \in [Goroutines -> Stages]
             /\ request' \in [Goroutines -> CachedCall]
             /\ Accounts'
  <2>1. InOrder("cached", flight'[g], job'[g].answer, r)
    BY <1>1, <1>2, <1>3 DEF InOrder
  <2> QED
    BY <1>1, <1>2, <1>3, <2>1, OwnBooks
<1>4. CASE RouteFails(g) \/ RouteUnbilled(g)
  <2>1. stage[g] = "cached" /\ stage' = stage /\ job'[g].answer = Failed
    BY <1>1, <1>4 DEF RouteFails, RouteUnbilled, Computing
  <2>2. GotoStage(g, "cached") /\ Fresh(request[g])
    BY <1>0, <1>1, <2>1 DEF GotoStage, Accounts, InOrder, Computed
  <2>3. CASE RouteFails(g)
    <3> DEFINE r == [request[g] EXCEPT !.computed = TRUE]
    <3>1. request' = [request EXCEPT ![g] = r]
      BY <1>0, <2>3 DEF RouteFails
    <3>2. r \in CachedCall /\ r.computed /\ ~r.hit /\ ~r.ok /\ ~r.executed
          /\ r.bills = <<>> /\ r.decision = NoDecision
      BY <1>0, <2>2 DEF Fresh, CachedCall
    <3> HIDE DEF r
    <3>3. Served(r, job'[g].answer)
      BY <2>1, <3>2 DEF Served, Dropped
    <3> QED
      BY <1>3, <2>2, <3>1, <3>2, <3>3
  <2>4. CASE RouteUnbilled(g)
    <3>1. PICK t \in TierNames :
            request' = [request EXCEPT ![g].computed = TRUE, ![g].bills = Append(@, t)]
      BY <2>4 DEF RouteUnbilled
    <3> DEFINE r == [request[g] EXCEPT !.computed = TRUE,
                                       !.bills = Append(request[g].bills, t)]
    <3>2. request' = [request EXCEPT ![g] = r]
      BY <1>0, <3>1
    <3>3. r \in CachedCall /\ r.computed /\ ~r.hit /\ ~r.ok /\ ~r.executed
          /\ r.bills = <<t>> /\ r.decision = NoDecision
      BY <1>0, <2>2, BillTyped, FirstBill DEF Fresh, CachedCall, Ledger
    <3> HIDE DEF r
    <3>4. Served(r, job'[g].answer)
      BY <2>1, <3>3 DEF Served, Dropped
    <3> QED
      BY <1>3, <2>2, <3>2, <3>3, <3>4
  <2> QED
    BY <1>4, <2>3, <2>4
<1>5. CASE Execute(g) \/ ExecuteFails(g)
  <2>1. stage[g] = "execute" /\ GotoStage(g, "cached")
    BY <1>5 DEF Execute, ExecuteFails
  <2>2. Routed(request[g]) /\ request[g].computed /\ ~request[g].hit /\ ~request[g].ok
        /\ ~request[g].executed
    BY <2>1 DEF Accounts, InOrder
  <2>3. CASE ExecuteFails(g)
    <3>1. request' = [request EXCEPT ![g] = request[g]] /\ job'[g].answer = Failed
      BY <1>0, <1>1, <2>3 DEF ExecuteFails
    <3>2. Served(request[g], job'[g].answer)
      BY <2>2, <3>1 DEF Served
    <3> QED
      BY <1>0, <1>3, <2>1, <3>1, <3>2
  <2>4. CASE Execute(g)
    <3> DEFINE r == [request[g] EXCEPT !.executed = TRUE]
    <3>1. request' = [request EXCEPT ![g] = r]
      BY <1>0, <2>4 DEF Execute
    <3>2. /\ r \in CachedCall /\ r.computed /\ ~r.hit /\ ~r.ok /\ r.executed
          /\ r.decision = request[g].decision /\ r.bills = request[g].bills
      BY <1>0, <2>2 DEF CachedCall
    <3> HIDE DEF r
    <3>3. job'[g].answer # Failed
      <4>1. ~ComputeError(g)
        BY <2>4, <1>0, SingleFlightAssumption DEF Execute, ComputeOk, ComputeError, Goto, Leave,
            SFTyped, SFTypeOK
      <4> QED
        BY <1>1, <4>1
    <3>4. Served(r, job'[g].answer)
      BY <2>2, <3>2, <3>3 DEF Served, Routed
    <3> QED
      BY <1>3, <2>1, <3>1, <3>2, <3>4
  <2> QED
    BY <1>5, <2>3, <2>4
<1> QED
  BY <1>4, <1>5

(* A call without a value, one with its own, and one with a cached one.    *)
LEMMA FailedSettles ==
    ASSUME NEW r \in CachedCall, ~r.hit, ~r.ok, Routed(r) \/ Dropped(r) \/ Fresh(r)
    PROVE  Settled(r)
<1>1. CASE r.bills = <<>> /\ r.decision = NoDecision
  BY <1>1, FirstBill DEF Settled
<1>2. ASSUME NEW t \in TierNames, r.bills = <<t>>, r.decision \in {t, NoDecision}
      PROVE  Settled(r)
  <2>1. Len(r.bills) = 1
    BY <1>2, FirstBill
  <2> QED
    BY <1>2, <2>1 DEF Settled
<1> QED
  BY <1>1, <1>2 DEF Routed, Dropped, Fresh

LEMMA AnsweredSettles ==
    ASSUME NEW r \in CachedCall, ~r.hit, r.executed, Routed(r)
    PROVE  Settled(r)
<1>1. PICK t \in TierNames : r.decision = t /\ r.bills = <<t>>
  BY DEF Routed
<1>2. Len(r.bills) = 1 /\ t # NoDecision
  BY <1>1, FirstBill, PipelineAssumption
<1> QED
  BY <1>1, <1>2 DEF Settled

LEMMA HitSettles ==
    ASSUME NEW r \in CachedCall, r.hit, ~r.executed, ~r.computed, r.decision = NoDecision,
           r.bills = <<"cache_hit">> \/ (r.bills = <<>> /\ ~r.ok)
    PROVE  Settled(r)
<1>1. Len(<<"cache_hit">>) = 1 /\ Len(<<>>) = 0
  BY FirstBill
<1>2. Len(r.bills) <= 1
  <2>1. Len(r.bills) \in {0, 1}
    BY <1>1, Zenon
  <2>2. \A n \in {0, 1} : n <= 1
    OBVIOUS
  <2> QED
    BY <2>1, <2>2, Zenon
<1>3. (IF r.hit THEN "cache_hit" ELSE r.decision) = "cache_hit"
  OBVIOUS
<1>4. r.ok => r.bills = <<IF r.hit THEN "cache_hit" ELSE r.decision>>
  BY <1>3
<1> QED
  BY <1>2, <1>4 DEF Settled

LEMMA DirectBooks ==
    ASSUME Ordered, NEW g \in Goroutines,
           OptimizeUncached(g) \/ RouteDirectFails(g) \/ PerformDirect(g) \/ Leaves(g)
    PROVE  /\ stage' \in [Goroutines -> Stages]
           /\ request' \in [Goroutines -> CachedCall]
           /\ Accounts'
<1> USE DEF Ordered
<1>0. /\ request \in [Goroutines -> CachedCall] /\ request[g] \in CachedCall
      /\ UNCHANGED vars
  BY DEF PipelineTyped, OptimizeUncached, RouteDirectFails, PerformDirect, Leaves
<1>1. /\ UNCHANGED <<flight, job>> /\ flight[g] = "out"
  BY <1>0 DEF vars, sfVars, Accounts, InOrder, OptimizeUncached, RouteDirectFails,
              PerformDirect, Leaves
<1>2. ASSUME NEW s \in Stages, GotoStage(g, s), NEW r \in CachedCall,
             request' = [request EXCEPT ![g] = r],
             s \in {"out", "direct"} => Fresh(r),
             s \in {"out", "direct"} \/ (s = "returned" /\ Settled(r))
      PROVE  /\ stage' \in [Goroutines -> Stages]
             /\ request' \in [Goroutines -> CachedCall]
             /\ Accounts'
  <2>1. InOrder(s, flight'[g], job'[g].answer, r)
    BY <1>1, <1>2 DEF InOrder
  <2> QED
    BY <1>1, <1>2, <2>1, OwnBooks
<1>3. CASE OptimizeUncached(g)
  <2>1. Fresh(request[g]) /\ request' = [request EXCEPT ![g] = request[g]]
    BY <1>0, <1>3 DEF OptimizeUncached, Accounts, InOrder
  <2>2. GotoStage(g, "direct") /\ "direct" \in Stages
    BY <1>3 DEF OptimizeUncached, Stages
  <2> QED
    BY <1>0, <1>2, <2>1, <2>2
<1>4. CASE RouteDirectFails(g)
  <2>1. Fresh(request[g]) /\ GotoStage(g, "returned")
    BY <1>4 DEF RouteDirectFails, Accounts, InOrder
  <2>2. CASE UNCHANGED request
    <3>1. Settled(request[g]) /\ request' = [request EXCEPT ![g] = request[g]]
      BY <1>0, <2>1, <2>2, FailedSettles DEF Fresh
    <3> QED
      BY <1>0, <1>2, <2>1, <3>1 DEF Stages
  <2>3. CASE ~UNCHANGED request
    <3>1. PICK t \in TierNames : request' = [request EXCEPT ![g].bills = Append(@, t)]
      BY <1>4, <2>3 DEF RouteDirectFails
    <3> DEFINE r == [request[g] EXCEPT !.bills = Append(request[g].bills, t)]
    <3>2. request' = [request EXCEPT ![g] = r]
      BY <1>0, <3>1
    <3>3. r \in CachedCall /\ ~r.hit /\ ~r.ok /\ r.bills = <<t>> /\ r.decision = NoDecision
      BY <1>0, <2>1, BillTyped, FirstBill DEF Fresh, CachedCall, Ledger
    <3> HIDE DEF r
    <3>4. Settled(r)
      BY <3>3, FailedSettles DEF Dropped
    <3> QED
      BY <1>2, <2>1, <3>2, <3>3, <3>4 DEF Stages
  <2> QED
    BY <2>2, <2>3
<1>5. CASE PerformDirect(g)
  <2>1. PICK ok \in BOOLEAN : request' = [request EXCEPT ![g].ok = ok, ![g].executed = ok]
    BY <1>5 DEF PerformDirect
  <2>2. Routed(request[g]) /\ ~request[g].hit /\ GotoStage(g, "returned")
    BY <1>5 DEF PerformDirect, Accounts, InOrder
  <2> DEFINE r == [request[g] EXCEPT !.ok = ok, !.executed = ok]
  <2>3. request' = [request EXCEPT ![g] = r]
    BY <1>0, <2>1
  <2>4. /\ r \in CachedCall /\ ~r.hit /\ r.ok = ok /\ r.executed = ok
        /\ r.decision = request[g].decision /\ r.bills = request[g].bills
    BY <1>0, <2>2 DEF CachedCall
  <2> HIDE DEF r
  <2>5. Settled(r)
    BY <2>2, <2>4, PipelineAssumption, FirstBill DEF Settled, Routed
  <2> QED
    BY <1>2, <2>2, <2>3, <2>4, <2>5 DEF Stages
<1>6. CASE Leaves(g)
  <2>1. NewRequest \in CachedCall /\ Fresh(NewRequest)
    BY FirstBill DEF NewRequest, CachedCall, Fresh, Ledger
  <2>2. /\ GotoStage(g, "out") /\ "out" \in Stages
        /\ request' = [request EXCEPT ![g] = NewRequest]
    BY <1>6 DEF Leaves, Stages
  <2> QED
    BY <1>2, <2>1, <2>2
<1> QED
  BY <1>3, <1>4, <1>5, <1>6

LEMMA ReturnBooks ==
    ASSUME Ordered, NEW g \in Goroutines,
           ReturnError(g) \/ ReturnMiss(g) \/ ReturnHit(g) \/ ReturnHitUnbilled(g)
    PROVE  /\ stage' \in [Goroutines -> Stages]
           /\ request' \in [Goroutines -> CachedCall]
           /\ Accounts'
<1> USE DEF Ordered
<1> DEFINE q == request[g]
           a == job[g].answer
<1>0. /\ request \in [Goroutines -> CachedCall] /\ q \in CachedCall /\ SFTyped
      /\ job \in [Goroutines -> Job] /\ flight \in [Goroutines -> Flights]
  BY DEF PipelineTyped, SFTyped, SFTypeOK
<1>1. Answered(g)
  BY DEF ReturnError, ReturnMiss, ReturnHit, ReturnHitUnbilled
<1>2. /\ \A h \in Goroutines \ {g} : flight'[h] = flight[h] /\ job'[h] = job[h]
      /\ flight'[g] = "out" /\ GotoStage(g, "returned") /\ stage[g] = "cached"
  BY <1>0, <1>1 DEF Answered, ReturnAnswer, Goto
<1>3. Fresh(q) \/ Served(q, a)
  BY <1>2 DEF Accounts, InOrder
<1>4. ASSUME NEW r \in CachedCall, request' = [request EXCEPT ![g] = r], Settled(r)
      PROVE  /\ stage' \in [Goroutines -> Stages]
             /\ request' \in [Goroutines -> CachedCall]
             /\ Accounts'
  <2>1. InOrder("returned", flight'[g], job'[g].answer, r)
    BY <1>2, <1>4 DEF InOrder
  <2> QED
    BY <1>2, <1>4, <2>1, OwnBooks DEF Stages
<1>5. CASE ReturnError(g)
  <2>1. request' = [request EXCEPT ![g] = q] /\ a = Failed
    BY <1>0, <1>5 DEF ReturnError
  <2>2. Settled(q)
    <3>1. CASE Fresh(q)
      BY <1>0, <3>1, FailedSettles DEF Fresh
    <3>2. CASE Served(q, a)
      BY <1>0, <2>1, <3>2, FailedSettles DEF Served
    <3> QED
      BY <1>3, <3>1, <3>2
  <2> QED
    BY <1>0, <1>4, <2>1, <2>2
<1>6. CASE ReturnMiss(g)
  <2>1. request' = [request EXCEPT ![g].ok = TRUE] /\ a # Failed /\ ~IsHit(g)
    BY <1>6 DEF ReturnMiss
  <2>2. Served(q, a)
    BY <1>3, <2>1 DEF IsHit, Fresh
  <2> DEFINE r == [q EXCEPT !.ok = TRUE]
  <2>3. request' = [request EXCEPT ![g] = r]
    BY <1>0, <2>1
  <2>4. /\ r \in CachedCall /\ r.ok /\ ~r.hit /\ r.executed = q.executed
        /\ r.decision = q.decision /\ r.bills = q.bills
    BY <1>0, <2>2 DEF CachedCall, Served
  <2> HIDE DEF r
  <2>5. Routed(r) /\ r.executed
    BY <2>1, <2>2, <2>4 DEF Served, Routed
  <2> QED
    BY <1>4, <2>3, <2>4, <2>5, AnsweredSettles
<1>7. CASE ReturnHit(g) \/ ReturnHitUnbilled(g)
  <2>1. a # Failed /\ IsHit(g) /\ ~q.computed
    BY <1>7 DEF ReturnHit, ReturnHitUnbilled, IsHit
  <2>2. Fresh(q)
    BY <1>3, <2>1 DEF Served
  <2>3. PICK ok \in BOOLEAN, b \in {Append(q.bills, "cache_hit"), q.bills} :
            /\ request' = [request EXCEPT ![g] = [q EXCEPT !.hit = TRUE, !.ok = ok, !.bills = b]]
            /\ ok => b = Append(q.bills, "cache_hit")
    <3>1. CASE ReturnHit(g)
      <4>1. request' = [request EXCEPT ![g] =
                [q EXCEPT !.hit = TRUE, !.ok = TRUE, !.bills = Append(q.bills, "cache_hit")]]
        BY <1>0, <3>1 DEF ReturnHit
      <4> QED
        BY <4>1
    <3>2. CASE ReturnHitUnbilled(g)
      <4>1. PICK retained \in BOOLEAN :
               request' = [request EXCEPT ![g].hit = TRUE,
                             ![g].bills = IF retained THEN Append(@, "cache_hit") ELSE @]
        BY <3>2 DEF ReturnHitUnbilled
      <4> DEFINE b == IF retained THEN Append(q.bills, "cache_hit") ELSE q.bills
      <4>2. request' = [request EXCEPT ![g] = [q EXCEPT !.hit = TRUE, !.bills = b]]
        BY <1>0, <4>1
      <4>3. [q EXCEPT !.hit = TRUE, !.bills = b]
            = [q EXCEPT !.hit = TRUE, !.ok = FALSE, !.bills = b]
        BY <1>0, <2>2 DEF CachedCall, Fresh
      <4> QED
        BY <4>2, <4>3
    <3> QED
      BY <1>7, <3>1, <3>2
  <2> DEFINE r == [q EXCEPT !.hit = TRUE, !.ok = ok, !.bills = b]
  <2>4. b \in Ledger /\ b \in {<<"cache_hit">>, <<>>} /\ (ok => b = <<"cache_hit">>)
    BY <1>0, <2>2, <2>3, FirstBill DEF Fresh
  <2>5. /\ r \in CachedCall /\ r.hit /\ r.ok = ok /\ r.bills = b
        /\ ~r.executed /\ ~r.computed /\ r.decision = NoDecision
    BY <1>0, <2>2, <2>4 DEF Fresh, CachedCall, Ledger
  <2>6. request' = [request EXCEPT ![g] = r]
    BY <2>3
  <2> HIDE DEF r
  <2>7. Settled(r)
    BY <2>4, <2>5, HitSettles
  <2> QED
    BY <1>4, <2>5, <2>6, <2>7
<1> QED
  BY <1>5, <1>6, <1>7

(***************************************************************************)
(* What the guard does to a call between its compute and its answer: it    *)
(* goes on towards the answer and keeps what compute returned.             *)
(***************************************************************************)
GoesOn(h) ==
    /\ flight[h] = "out" => flight'[h] = "out"
    /\ flight[h] # "out" => flight'[h] # "out"
    /\ flight[h] = "compute" => flight'[h] = "compute"
    /\ flight[h] \in Computed => flight'[h] \in Computed /\ job'[h].answer = job[h].answer

LEMMA GoesOnMove ==
    ASSUME SFTyped, NEW g \in Goroutines, NEW at \in Flights \ {"out"}, Moves(g, at),
           NEW j \in Job, Employs(g, j),
           flight[g] \notin {"out", "compute"},
           flight[g] \in Computed => at \in Computed /\ j.answer = job[g].answer
    PROVE  \A h \in Goroutines : GoesOn(h)
<1>1. flight \in [Goroutines -> Flights] /\ job \in [Goroutines -> Job]
  BY DEF SFTyped, SFTypeOK
<1>2. /\ flight'[g] = at /\ job'[g] = j
      /\ \A h \in Goroutines \ {g} : flight'[h] = flight[h] /\ job'[h] = job[h]
  BY <1>1 DEF Moves, Employs
<1> QED
  BY <1>2 DEF GoesOn

LEMMA GuardGoesOn ==
    ASSUME SFTyped, NEW g \in Goroutines, GuardStep(g)
    PROVE  \A h \in Goroutines : GoesOn(h)
<1>0. /\ flight \in [Goroutines -> Flights] /\ job \in [Goroutines -> Job]
      /\ \A h \in Goroutines : job[h] \in Job
  BY DEF SFTyped, SFTypeOK
<1>1. job' = job => Employs(g, job[g]) /\ job[g] \in Job
  BY JobTyped
<1>2. CASE FastHit(g) \/ FastError(g) \/ RecheckHit(g) \/ PollFound(g)
  <2>1. PICK v \in Nat \cup {Failed} : Answer(g, v)
    BY <1>2, JobTyped DEF FastHit, FastError, RecheckHit, PollFound
  <2>2. PICK j \in Job : Employs(g, j)
    BY <2>1, AnswerTyped
  <2>3. PICK at \in {"answer", "publish"} : Moves(g, at)
    BY <1>2 DEF FastHit, FastError, RecheckHit, PollFound, Goto, Moves
  <2>4. flight[g] \notin {"out", "compute"} \cup Computed /\ at \in Flights \ {"out"}
    BY <1>2, <2>3 DEF FastHit, FastError, RecheckHit, PollFound, Computed, Flights, Leading
  <2> QED
    BY <2>2, <2>3, <2>4, GoesOnMove
<1>3. CASE Join(g)
  <2>1. \A h \in Goroutines \ {g} : flight'[h] = flight[h] /\ job'[h] = job[h]
    BY <1>0, <1>3 DEF Join, Goto, Answer
  <2>2. flight[g] = "lock" /\ flight'[g] \in {"answer", "join"}
    BY <1>0, <1>3 DEF Join, Goto
  <2> QED
    BY <2>1, <2>2 DEF GoesOn, Computed
<1>4. CASE FastMiss(g) \/ Recheck(g) \/ Register(g) \/ TryLockOk(g) \/ TryLockBusy(g)
           \/ Poll(g) \/ PollAgain(g) \/ PollTimeout(g)
  <2>1. PICK at \in {"lock", "recheck", "guard", "snap", "sleep", "poll"} : Moves(g, at)
    BY <1>4 DEF FastMiss, Recheck, Register, TryLockOk, TryLockBusy, Poll, PollAgain,
                PollTimeout, Goto, Moves
  <2>2. job' = job /\ flight[g] \notin {"out", "compute"} \cup Computed
    BY <1>4 DEF FastMiss, Recheck, Register, TryLockOk, TryLockBusy, Poll, PollAgain,
                PollTimeout, Computed
  <2>3. at \in Flights \ {"out"}
    BY <2>1 DEF Flights, Leading
  <2> QED
    BY <1>1, <2>1, <2>2, <2>3, GoesOnMove
<1>5. CASE Snapshot(g)
  <2>1. \A h \in Goroutines \ {g} : flight'[h] = flight[h] /\ job'[h] = job[h]
    BY <1>0, <1>5 DEF Snapshot, Goto
  <2>2. flight[g] = "snap" /\ flight'[g] = "compute"
    BY <1>0, <1>5 DEF Snapshot, Goto
  <2> QED
    BY <2>1, <2>2 DEF GoesOn, Computed
<1>6. CASE Discard(g) \/ Keep(g) \/ WriteBackDone(g) \/ Unlock(g) \/ Release(g)
  <2>1. PICK at \in Computed : Moves(g, at)
    BY <1>6 DEF Discard, Keep, WriteBackDone, Unlock, Release, Leave, Goto, Moves, Computed
  <2>2. job' = job /\ flight[g] \notin {"out", "compute"}
    BY <1>6 DEF Discard, Keep, WriteBackDone, Unlock, Release
  <2>3. at \in Flights \ {"out"}
    BY <2>1 DEF Flights, Leading, Computed
  <2> QED
    BY <1>1, <2>1, <2>2, <2>3, GoesOnMove
<1>7. CASE WriteBack(g)
  BY <1>7 DEF WriteBack, sfVars, GoesOn
<1>8. CASE Publish(g)
  <2>1. \A h \in Goroutines : flight[h] # "join" => job'[h] = job[h]
    BY <1>0, <1>8 DEF Publish, Waiting
  <2>2. \A h \in Goroutines : \/ flight'[h] = flight[h]
                              \/ flight[h] = "publish" /\ flight'[h] = "release"
                              \/ flight[h] = "join" /\ flight'[h] = "answer"
    BY <1>8 DEF Publish, Waiting
  <2> QED
    BY <2>1, <2>2 DEF GoesOn, Computed
<1> QED
  BY <1>2, <1>3, <1>4, <1>5, <1>6, <1>7, <1>8 DEF GuardStep

LEMMA CacheGoesOn ==
    ASSUME SFTyped, NEW g \in Goroutines, CacheStep(g)
    PROVE  \A h \in Goroutines : GoesOn(h)
<1>1. \A r \in Job : [r EXCEPT !.overtaken = TRUE].answer = r.answer
  BY DEF Job
<1>2. \A h \in Goroutines : job[h] \in Job
  BY DEF SFTyped, SFTypeOK
<1>3. flight' = flight /\ \A h \in Goroutines : job'[h].answer = job[h].answer
  BY <1>1, <1>2 DEF CacheStep
<1> QED
  BY <1>3 DEF GoesOn

LEMMA GoesOnBooks ==
    ASSUME Ordered, UNCHANGED pipelineVars, \A h \in Goroutines : GoesOn(h)
    PROVE  /\ stage' \in [Goroutines -> Stages]
           /\ request' \in [Goroutines -> CachedCall]
           /\ Accounts'
<1>1. stage' = stage /\ request' = request
  BY DEF pipelineVars
<1>2. ASSUME NEW h \in Goroutines
      PROVE  InOrder(stage'[h], flight'[h], job'[h].answer, request'[h])
  BY <1>1 DEF Ordered, Accounts, InOrder, GoesOn
<1> QED
  BY <1>1, <1>2 DEF Ordered, PipelineTyped, Accounts

LEMMA StartBooks ==
    ASSUME Ordered, NEW g \in Goroutines, NEW k \in Keys, OptimizeCached(g, k)
    PROVE  /\ stage' \in [Goroutines -> Stages]
           /\ request' \in [Goroutines -> CachedCall]
           /\ Accounts'
<1> USE DEF Ordered
<1>1. /\ stage[g] = "out" /\ GotoStage(g, "cached") /\ request' = [request EXCEPT ![g] = request[g]]
      /\ request[g] \in CachedCall /\ Fresh(request[g])
  BY DEF OptimizeCached, PipelineTyped, Accounts, InOrder
<1>2. /\ flight'[g] = "fast" /\ \A h \in Goroutines \ {g} : flight'[h] = flight[h]
      /\ job' = job
  BY DEF OptimizeCached, GetOrCompute, Goto, PipelineTyped, SFTyped, SFTypeOK
<1>3. InOrder("cached", flight'[g], job'[g].answer, request[g])
  BY <1>1, <1>2 DEF InOrder
<1> QED
  BY <1>1, <1>2, <1>3, OwnBooks DEF Stages

LEMMA OrderedStep == Ordered /\ [PipelineNext]_allVars => Ordered'
<1> SUFFICES ASSUME Ordered, [PipelineNext]_allVars PROVE Ordered'
  OBVIOUS
<1>0. SFTyped /\ SFTyped'
  BY PipelineIsOrderly, SFStepTyped DEF Ordered, PipelineTyped
<1> DEFINE Kept == /\ stage' \in [Goroutines -> Stages]
                   /\ request' \in [Goroutines -> CachedCall]
                   /\ Accounts'
<1>1. ASSUME NEW g \in Goroutines, NEW k \in Keys, OptimizeCached(g, k) PROVE Kept
  BY <1>1, StartBooks
<1>2. ASSUME NEW g \in Goroutines, RequestStep(g) PROVE Kept
  BY <1>2, RouteBooks, ComputeBooks, DirectBooks, ReturnBooks DEF RequestStep
<1>3. ASSUME NEW g \in Goroutines, CachePart(g) PROVE Kept
  <2>1. CASE GuardStep(g)
    BY <1>0, <1>3, <2>1, GuardGoesOn, GoesOnBooks DEF CachePart
  <2>2. CASE CacheStep(g)
    BY <1>0, <1>3, <2>2, CacheGoesOn, GoesOnBooks DEF CachePart
  <2>3. CASE PlainCall(g)
    <3>1. \A h \in Goroutines : GoesOn(h)
      BY <2>3 DEF PlainCall, sfVars, GoesOn
    <3> QED
      BY <1>3, <3>1, GoesOnBooks DEF CachePart
  <2> QED
    BY <1>3, <2>1, <2>2, <2>3 DEF CachePart
<1>4. UNCHANGED <<sfVars, pipelineVars>> => Kept
  <2>1. UNCHANGED sfVars => \A h \in Goroutines : GoesOn(h)
    BY DEF sfVars, GoesOn
  <2> QED
    BY <2>1, GoesOnBooks
<1>5. UNCHANGED allVars => UNCHANGED <<sfVars, pipelineVars>>
  BY DEF allVars, vars
<1>6. Kept
  <2> HIDE DEF Kept
  <2> QED
    BY <1>1, <1>2, <1>3, <1>4, <1>5 DEF PipelineNext
<1> QED
  BY <1>0, <1>6 DEF Ordered, PipelineTyped

LEMMA OrderedInit == PipelineInit => Ordered
<1> SUFFICES ASSUME PipelineInit PROVE Ordered
  OBVIOUS
<1>1. NewRequest \in CachedCall /\ Fresh(NewRequest)
  BY FirstBill DEF NewRequest, CachedCall, Fresh, Ledger
<1>2. SFTyped
  BY InitSFTyped DEF PipelineInit
<1>3. \A g \in Goroutines : stage[g] = "out" /\ flight[g] = "out" /\ request[g] = NewRequest
  BY DEF PipelineInit, SFInit
<1>4. Accounts
  BY <1>1, <1>3 DEF Accounts, InOrder
<1>5. stage \in [Goroutines -> Stages] /\ request \in [Goroutines -> CachedCall]
  BY <1>1 DEF PipelineInit, Stages
<1> QED
  BY <1>2, <1>4, <1>5 DEF Ordered, PipelineTyped

LEMMA AlwaysOrdered == PipelineSpec => []Ordered
  BY OrderedInit, OrderedStep, PTL DEF PipelineSpec

(***************************************************************************)
(* Every reachable state of the pipeline is well typed.                    *)
(***************************************************************************)
THEOREM PipelineTypeSafe == PipelineSpec => []PipelineTypeOK
<1>1. Ordered => PipelineTypeOK
  BY DEF Ordered, PipelineTyped, PipelineTypeOK, SFTyped, Stages
<1> QED
  BY <1>1, AlwaysOrdered, PTL

(***************************************************************************)
(* A call of OptimizeCached is billed once, for its tier if it computed    *)
(* and as a cache hit otherwise, and a call that fails at most once,       *)
(* whichever other calls of the key compute, wait, are invalidated or fail *)
(* beside it, and whatever the ledger does (pipeline/cache.go 151-155,     *)
(* 171-186).                                                               *)
(***************************************************************************)
THEOREM CallsBilledOnce == PipelineSpec => []BilledOnce
<1>1. Ordered => BilledOnce
  BY DEF Ordered, Accounts, InOrder, Settled, BilledOnce
<1> QED
  BY <1>1, AlwaysOrdered, PTL

(***************************************************************************)
(* hit tells the truth about the call it is returned from: a hit neither   *)
(* routed nor executed, an answer that is no hit did both (pipeline/       *)
(* cache.go 107-114).                                                      *)
(***************************************************************************)
THEOREM HitsHonest == PipelineSpec => []HitIsHonest
<1>1. Ordered => HitIsHonest
  BY DEF Ordered, Accounts, InOrder, Settled, HitIsHonest
<1> QED
  BY <1>1, AlwaysOrdered, PTL

(***************************************************************************)
(* Under the pipeline, too, an invalidation during a routing and execution *)
(* keeps the answer out of the cache unless the clock stood still, under   *)
(* the conditions of InvalidationNoticed (singleflight.go 44-52, 188-210). *)
(***************************************************************************)
THEOREM PipelineNotices ==
    ASSUME Setters = {}, TombstoneTTL = 0, OneInvalidator
    PROVE  PipelineSpec => SupersededIsNoticed
<1>1. SFSpec => SupersededIsNoticed
  BY InvalidationNoticed
<1> QED
  BY <1>1, PipelineRunsGuard
=====
