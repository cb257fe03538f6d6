---------------------------- MODULE MC_Telemetry ----------------------------
(***************************************************************************)
(* Values for the constants of Telemetry.  An int64 of four bits ranges    *)
(* from -8 to 7: one record overflows by itself, two of the others         *)
(* together.  A mantissa of two bits does not hold the savings of 5.        *)
(***************************************************************************)
EXTENDS Telemetry

CONSTANTS untagged

Used(t, in, out) == [tag |-> t, first |-> in, second |-> out]

TokenCounts == {Used("haiku", 6, 3), Used("opus", 5, 0), Used("stray", 1, 0),
                Used("haiku", -1, 0)}

=============================================================================
