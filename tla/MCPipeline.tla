----------------------------- MODULE MCPipeline -----------------------------
(***************************************************************************)
(* Pipeline for TLC: runs of both fit modes, with every stage present or   *)
(* missing, and options that allow all, some or no fixtures, force one     *)
(* that is present, and stop early.                                        *)
(***************************************************************************)
EXTENDS Pipeline

MCOpts ==
  [mode : {"avbd", "polyfem"}, allow : {{"infer"}, {"infer", "rig"}, Keys},
   force : {{}, {"fit"}}, stop : {"", "FIT_BEGIN"}]
  \cup [mode : {"bad"}, allow : {{}}, force : {{}}, stop : {""}]
=============================================================================
