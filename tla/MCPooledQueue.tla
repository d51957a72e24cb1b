---------------------------- MODULE MCPooledQueue ----------------------------
(* The owner, two other threads, a few nodes and variants: values for TLC. *)
EXTENDS PooledQueue, TLC

CONSTANTS owner, f1, f2, n1, n2, n3, v1, v2

MCThreads  == {owner, f1, f2}
MCNodes    == {n1, n2, n3}
MCVariants == {v1, v2}
MCSymmetry == Permutations({f1, f2}) \cup Permutations(MCNodes) \cup Permutations(MCVariants)
=============================================================================
