----------------------------- MODULE MCMpscCount -----------------------------
(* Two threads race to wake one consumer: values for TLC. *)
EXTENDS MpscCount

CONSTANTS p1, p2

MCProducers == {p1, p2}
=============================================================================
