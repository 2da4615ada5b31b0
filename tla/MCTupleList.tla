----------------------------- MODULE MCTupleList -----------------------------
(* Instance of TupleList for TLC: three tuples, and one address more than    *)
(* there can be nodes, so that an address is reused while others are live.   *)
EXTENDS TupleList

CONSTANTS t1, t2, t3, n1, n2, n3, n4

MCTuple == {t1, t2, t3}
MCNode == {n1, n2, n3, n4}
=============================================================================
