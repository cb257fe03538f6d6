------------------------------ MODULE Dispatch ------------------------------
(***************************************************************************)
(* The registry of tier executors and the dispatch of a request down a     *)
(* chain of tiers (pkg/tier/registry.go, dispatch.go).  Executors are code *)
(* of the consumer and run outside the lock of the registry: meanwhile     *)
(* executors are registered and the context of the request is cancelled.   *)
(***************************************************************************)
EXTENDS Integers, Sequences, SequencesExt

CONSTANTS
    Tiers,          \* the names of tiers
    NoTier,         \* the empty name
    Executors,      \* the executors of the consumer
    Nobody,         \* a nil executor, also a typed nil one
    Heedful,        \* the executors that honour their context
    Payloads,       \* what a request carries
    Nothing,        \* no payload of a response
    Callers,
    MaxOrder        \* bound: the tiers of a chain

ASSUME DispatchAssumption ==
    /\ NoTier \notin Tiers
    /\ Nobody \notin Executors
    /\ Heedful \subseteq Executors
    /\ MaxOrder \in Nat

VARIABLES
    executors,      \* Registry.executors
    calls           \* the call of every caller

dispatchVars == <<executors, calls>>

NoResponse == [tier |-> NoTier, payload |-> Nothing]

(* n is the tier that is tried, exec what was found for it; a cause is the *)
(* tier, the error and who reported it.  History: before are the executors *)
(* that there were when the call began.                                    *)
NoCall == [at |-> "idle", chain |-> FALSE, order |-> <<>>, n |-> 0, payload |-> Nothing,
           exec |-> Nobody, cancelled |-> FALSE, causes |-> <<>>,
           response |-> NoResponse, err |-> "none",
           before |-> [t \in Tiers |-> Nobody]]

DispatchInit ==
    /\ executors = [t \in Tiers |-> Nobody]
    /\ calls = [c \in Callers |-> NoCall]

\* Mutant of Register: a second executor of a tier replaces the first.
RegisterLast(name, exec) ==
    /\ name # NoTier /\ exec # Nobody
    /\ executors' = [executors EXCEPT ![name] = exec]
    /\ UNCHANGED calls

(* A call that is refused changes nothing and is no step.                  *)
Register(name, exec) ==
    /\ name # NoTier /\ exec # Nobody
    /\ executors[name] = Nobody
    /\ executors' = [executors EXCEPT ![name] = exec]
    /\ UNCHANGED calls

(***************************************************************************)
(* Dispatch tries one tier, DispatchChain those of its order.              *)
(***************************************************************************)
Calls(c, chain, order, payload) ==
    calls' = [calls EXCEPT ![c] =
        [NoCall EXCEPT !.at = IF order = <<>> THEN "done" ELSE "lookup",
                       !.err = IF order = <<>> THEN "ErrEmptyChain" ELSE "none",
                       !.chain = chain, !.order = order, !.n = 1,
                       !.payload = payload, !.before = executors]]

Dispatch(c) ==
    /\ calls[c] = NoCall
    /\ \E t \in Tiers, payload \in Payloads : Calls(c, FALSE, <<t>>, payload)
    /\ UNCHANGED executors

DispatchChain(c) ==
    /\ calls[c] = NoCall
    /\ \E k \in 0 .. MaxOrder : \E order \in [1 .. k -> Tiers], payload \in Payloads :
          Calls(c, TRUE, order, payload)
    /\ UNCHANGED executors

TierOf(c) == calls[c].order[calls[c].n]

Cancel(c) ==
    /\ calls[c].at \in {"lookup", "running"}
    /\ ~ calls[c].cancelled
    /\ calls' = [calls EXCEPT ![c].cancelled = TRUE]
    /\ UNCHANGED executors

(* The tier failed: the walk goes on, or is over.                          *)
Fails(c, by, error) ==
    LET causes == Append(calls[c].causes, [tier |-> TierOf(c), by |-> by, error |-> error])
        over == calls[c].n = Len(calls[c].order)
    IN  calls' = [calls EXCEPT
                     ![c].at = IF over THEN "done" ELSE "lookup",
                     ![c].n = IF over THEN @ ELSE @ + 1,
                     ![c].exec = Nobody,
                     ![c].causes = causes,
                     ![c].err = IF ~ over THEN "none"
                                ELSE IF calls[c].chain THEN "ErrChainExhausted" ELSE error]

LookupMissing(c) ==
    /\ calls[c].at = "lookup"
    /\ executors[TierOf(c)] = Nobody
    /\ Fails(c, Nobody, "ErrNoExecutorForTier")
    /\ UNCHANGED executors

LookupFound(c) ==
    /\ calls[c].at = "lookup"
    /\ executors[TierOf(c)] # Nobody
    /\ calls' = [calls EXCEPT ![c].at = "running", ![c].exec = executors[TierOf(c)]]
    /\ UNCHANGED executors

Runs(c, exec) == calls[c].at = "running" /\ calls[c].exec = exec

(* What the executor says of the tier that it served is overwritten.       *)
Succeeds(c, payload) ==
    calls' = [calls EXCEPT ![c].at = "done", ![c].exec = Nobody,
                           ![c].response = [tier |-> TierOf(c), payload |-> payload]]

(* An executor of the consumer is free to fail, for reasons of its own,    *)
(* and one that honours its context does so once that is cancelled.        *)
ExecuteOk(c, exec) ==
    /\ Runs(c, exec)
    /\ calls[c].cancelled => exec \notin Heedful
    /\ Succeeds(c, [by |-> exec, served |-> TierOf(c)])
    /\ UNCHANGED executors

ExecuteFails(c, exec) ==
    /\ Runs(c, exec)
    /\ Fails(c, exec, "backend")
    /\ UNCHANGED executors

Return(c) ==
    /\ calls[c].at = "done"
    /\ calls' = [calls EXCEPT ![c] = NoCall]
    /\ UNCHANGED executors

CallStep(c) == Dispatch(c) \/ DispatchChain(c) \/ Cancel(c) \/ LookupMissing(c)
               \/ LookupFound(c) \/ Return(c)

-----------------------------------------------------------------------------
Answered(k) == k.response # NoResponse

(* Nothing is swallowed and no response is fabricated (dispatch.go:35-41,  *)
(* registry.go:167-175): the tiers of the order are tried one by one, each *)
(* that failed is named by one cause, one that had an executor when the    *)
(* call began is never reported to have none, and the response comes from  *)
(* the executor that is registered for the tier it names.                  *)
ChainHonest ==
    \A c \in Callers :
       LET k == calls[c]
           tried == Len(k.causes)
       IN  /\ \A i \in 1 .. tried :
                 /\ k.causes[i].tier = k.order[i]
                 /\ IF k.causes[i].error = "ErrNoExecutorForTier"
                    THEN k.before[k.order[i]] = Nobody
                    ELSE k.causes[i].by = executors[k.order[i]]
           /\ Answered(k) =>
                 /\ k.err = "none"
                 /\ k.response.tier = k.order[tried + 1]
                 /\ k.response.payload.by = executors[k.response.tier]
                 /\ k.response.payload.served = k.response.tier
           /\ k.at = "done" /\ ~ Answered(k) =>
                 /\ tried = Len(k.order)
                 /\ k.err = IF tried = 0 THEN "ErrEmptyChain"
                            ELSE IF k.chain THEN "ErrChainExhausted" ELSE k.causes[1].error

=============================================================================
