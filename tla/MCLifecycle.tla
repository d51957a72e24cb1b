----------------------------- MODULE MCLifecycle -----------------------------
(* One thread outside a service of two threads: values for TLC. *)
EXTENDS Lifecycle

CONSTANT main

MCOutside == {main}
=============================================================================
