----------------------------- MODULE MCRdGraph -----------------------------
(***************************************************************************)
(* RdGraph on tensors of two buffers: two halves of one word, the word     *)
(* after it, a tensor across both, and one in the other buffer.  Sources   *)
(* and destinations are mixed so that every kind of hazard and a shared    *)
(* word without a shared byte occur.                                       *)
(***************************************************************************)
EXTENDS RdGraph

T(b, o, n) == [buf |-> b, off |-> o, n |-> n]
Low   == T(1, 0, 2)
High  == T(1, 2, 2)
After == T(1, 4, 4)
Both  == T(1, 2, 4)
Other == T(2, 0, 4)

Op(s, d) == [skip |-> FALSE, packs |-> TRUE, src |-> s, dst |-> d]

MCNodes ==
  { Op(<<Low>>, Other), Op(<<Other>>, High), Op(<<Low, After>>, High),
    Op(<<After, Low, Other>>, Low), Op(<<High>>, After), Op(<<Other>>, Both),
    [Op(<<>>, Low) EXCEPT !.skip = TRUE], [Op(<<>>, Low) EXCEPT !.packs = FALSE] }
=============================================================================
