------------------------------ MODULE MC_Cache ------------------------------
(***************************************************************************)
(* Values for the constants of Cache: one Cache object over one Store.     *)
(***************************************************************************)
EXTENDS Cache, TLC

CONSTANTS w, i, r1, r2, c1, k1, k2

OneInstance == [g \in Goroutines |-> c1]

Readers == Permutations({r1, r2})

=============================================================================
