----------------------------- MODULE OneFlight -----------------------------
(***************************************************************************)
(* What the stampede guard of GetOrCompute promises of one cache, without  *)
(* saying how: at most one computation per key is in flight, none starts   *)
(* for a key whose value is cached, and only a computation in flight fills *)
(* the cache (singleflight.go, doc comment of GetOrCompute).               *)
(***************************************************************************)
CONSTANT Slots      \* what is computed at most once at a time: a key of a cache

VARIABLES
    inflight,       \* the slots being computed
    cached          \* the slots with a servable value

flightVars == <<inflight, cached>>

Init ==
    /\ inflight = {}
    /\ cached = {}

Start(k) ==
    /\ k \notin inflight \cup cached
    /\ inflight' = inflight \cup {k}
    /\ UNCHANGED cached

(* Filling again replaces the value: a no-op here.                         *)
Fill(k) ==
    /\ k \in inflight
    /\ cached' = cached \cup {k}
    /\ UNCHANGED inflight

End(k) ==
    /\ k \in inflight
    /\ inflight' = inflight \ {k}
    /\ UNCHANGED cached

Drop(k) ==
    /\ k \in cached
    /\ cached' = cached \ {k}
    /\ UNCHANGED inflight

Next == \E k \in Slots : Start(k) \/ Fill(k) \/ End(k) \/ Drop(k)

Spec == Init /\ [][Next]_flightVars

=============================================================================
