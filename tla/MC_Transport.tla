--------------------------- MODULE MC_Transport ----------------------------
(***************************************************************************)
(* Values for the constants of Transport: gzip, identity and zstd.         *)
(***************************************************************************)
EXTENDS Transport

Codings == 1 .. 3

Empty == 0

=============================================================================
