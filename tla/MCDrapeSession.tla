--------------------------- MODULE MCDrapeSession ---------------------------
(***************************************************************************)
(* DrapeSession for TLC: two values of the live pair, fits with a settle   *)
(* and without, operations of up to three steps and ticks of up to two     *)
(* stages, so that a tick may end with a submit, with its cap or with an   *)
(* empty queue.                                                            *)
(***************************************************************************)
EXTENDS DrapeSession
=============================================================================
