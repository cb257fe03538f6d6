-------------------------- MODULE MC_SingleFlight --------------------------
(***************************************************************************)
(* Values for the constants of SingleFlight: goroutines a1 .. a3 in the    *)
(* process c1, b1 in the process c2.                                       *)
(***************************************************************************)
EXTENDS SingleFlight, TLC

CONSTANTS a1, a2, a3, b1, c1, c2, k1

ProcessOf == [g \in Goroutines |-> IF g = b1 THEN c2 ELSE c1]

(***************************************************************************)
(* States that differ in history variables only: the runs that use it as   *)
(* their VIEW check nothing that depends on them.                          *)
(***************************************************************************)
WithoutHistory ==
    <<clock, l1, tombstones, lastPrune, store, pc, epoch,
      [g \in Goroutines |-> [op[g] EXCEPT !.since = 0, !.fetched = NoTime]],
      [g \in Goroutines |-> [job[g] EXCEPT !.overtaken = FALSE]],
      flight, sf, sfMu, xlock, crashes>>

=============================================================================
