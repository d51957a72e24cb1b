----------------------------- MODULE MCMpscQueue -----------------------------
(* Two producers, one consumer and two nodes: values for TLC. *)
EXTENDS MpscQueue

CONSTANTS p1, p2, n1, n2

MCProducers == {p1, p2}
MCNodes     == {n1, n2}
=============================================================================
