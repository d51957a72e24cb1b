----------------------------- MODULE MCEvService -----------------------------
(* Small services for TLC: the cfg gives the numbers of threads and workers. *)
EXTENDS EvService

CONSTANT p1

OnePoster == {p1}
=============================================================================
