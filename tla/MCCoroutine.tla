----------------------------- MODULE MCCoroutine -----------------------------
(* Two threads, two workers, two corctxs: values for TLC. *)
EXTENDS Coroutine

CONSTANTS t1, t2, w1, w2, c1, c2

MCThreads == {t1, t2}
MCWorkers == {w1, w2}
MCCoros   == {c1, c2}
=============================================================================
