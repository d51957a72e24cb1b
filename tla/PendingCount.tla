----------------------------- MODULE PendingCount -----------------------------
(***************************************************************************)
(* What cque::mpsc_count promises its users: every increment is handed to  *)
(* the one consumer exactly once, and the consumer takes all the           *)
(* increments that are pending at one instant.  How increments are made    *)
(* atomic and how the consumer sleeps and is woken is left to MpscCount.   *)
(***************************************************************************)
EXTENDS Naturals

VARIABLES
    pending,  \* increments made and not yet taken
    taken     \* increments handed to the consumer so far

vars == <<pending, taken>>

Init == pending = 0 /\ taken = 0

Incr == pending' = pending + 1 /\ UNCHANGED taken

Take == /\ pending > 0
        /\ taken' = taken + pending
        /\ pending' = 0

Next == Incr \/ Take

(* A pending increment is never left lying: the consumer gets it.          *)
Spec == Init /\ [][Next]_vars /\ WF_vars(Take)
===============================================================================
