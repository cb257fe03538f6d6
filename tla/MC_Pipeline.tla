---------------------------- MODULE MC_Pipeline ----------------------------
(***************************************************************************)
(* Values for the constants of Pipeline: goroutines a1 .. a3 in one        *)
(* process.  a1 and a2 only ever call OptimizeCached and are alike.        *)
(***************************************************************************)
EXTENDS Pipeline, TLC

CONSTANTS a1, a2, a3, c1, k1

ProcessOf == [g \in Goroutines |-> c1]

Alike == Permutations({a1, a2})

=============================================================================
