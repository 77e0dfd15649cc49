---------------------------- MODULE MCRdCompute ----------------------------
(* RdCompute with its one bound given by the configuration.               *)
EXTENDS RdCompute
=============================================================================
