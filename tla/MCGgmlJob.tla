----------------------------- MODULE MCGgmlJob -----------------------------
(***************************************************************************)
(* GgmlJob for TLC: a file of five bytes, read and uploaded in chunks of   *)
(* two with three bytes a frame, so that requests end within a chunk, at a *)
(* chunk, at the end of the file and past it, and are carried over frames; *)
(* jobs that submit, wait, and end with a submit in flight in each way.    *)
(***************************************************************************)
EXTENDS GgmlJob

Do(fn) == [fn |-> fn]
Read(off, n) == [fn |-> "read", off |-> off, n |-> n]
Up(off, n, dst) == [fn |-> "upload", off |-> off, n |-> n, dst |-> dst]

MCScripts ==
  { <<Do("graph"), Up(1, 4, 0), Do("graph"), Do("get")>>,
    <<Up(0, 3, 1), Read(1, 3), Do("graph")>>,
    <<Read(0, 0), Do("coop"), Up(2, 1, 3), Read(1, 2)>>,
    <<Do("graph"), Read(1, 0), Do("abort")>>,
    <<Do("graph"), Do("graph"), Do("throw")>>,
    <<Read(4, 3), Up(3, 4, 0)>> }
=============================================================================
