----------------------------- MODULE SpawnService -----------------------------
(***************************************************************************)
(* What asev promises those who spawn coroutines: a spawned handler runs,  *)
(* on one thread at a time; it may stop half-way and runs on when it is    *)
(* resumed, be it before or after it has stopped; once it has returned it  *)
(* is never run again.  Contexts, their pools and threads are left to      *)
(* Coroutine.                                                              *)
(***************************************************************************)
CONSTANT Handlers

VARIABLES
    ready,    \* handlers to be run, from the start or from where they stopped
    running,  \* handlers some thread is running
    spawned,  \* handlers spawned so far
    finished  \* handlers that have returned

vars == <<ready, running, spawned, finished>>

Init == ready = {} /\ running = {} /\ spawned = {} /\ finished = {}

Spawn(h) == /\ h \notin spawned
            /\ spawned' = spawned \cup {h}
            /\ ready' = ready \cup {h}
            /\ UNCHANGED <<running, finished>>

Enter(h) == /\ h \in ready \ running
            /\ ready' = ready \ {h}
            /\ running' = running \cup {h}
            /\ UNCHANGED <<spawned, finished>>

Yield(h) == /\ h \in running
            /\ running' = running \ {h}
            /\ UNCHANGED <<ready, spawned, finished>>

Resume(h) == /\ h \in spawned \ (finished \cup ready)
             /\ ready' = ready \cup {h}
             /\ UNCHANGED <<running, spawned, finished>>

Return(h) == /\ h \in running \ ready
             /\ running' = running \ {h}
             /\ finished' = finished \cup {h}
             /\ UNCHANGED <<ready, spawned>>

Next == \E h \in Handlers : Spawn(h) \/ Enter(h) \/ Yield(h) \/ Resume(h) \/ Return(h)

Spec == Init /\ [][Next]_vars
==============================================================================
