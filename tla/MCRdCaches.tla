----------------------------- MODULE MCRdCaches -----------------------------
(***************************************************************************)
(* RdCaches for TLC: two buffers bound as a source and a destination, two  *)
(* kernels, graphs of up to two dispatches on a params table that starts   *)
(* at one slot, so that it grows; slots for all of it, the lowest reused   *)
(* first.                                                                  *)
(***************************************************************************)
EXTENDS RdCaches, TLC

MCSymmetry == Permutations(Buffers) \cup Permutations(Kernels)
=============================================================================
