---------------------------- MODULE MCCalculation ----------------------------
(***************************************************************************)
(* Model-checking instances of Calculation.                                *)
(***************************************************************************)
EXTENDS Calculation

MCCounts == -2 .. 3
MCOperands == {-8, -3, -1, 0, 1, 2, 7}
=============================================================================
