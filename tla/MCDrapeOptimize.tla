-------------------------- MODULE MCDrapeOptimize --------------------------
(***************************************************************************)
(* DrapeOptimize for TLC: two iterations of up to three trials each, so    *)
(* that x_lo is taken, taken again and restored, and forwards of up to two *)
(* steps.                                                                  *)
(***************************************************************************)
EXTENDS DrapeOptimize
=============================================================================
