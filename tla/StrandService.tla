---------------------------- MODULE StrandService ----------------------------
(***************************************************************************)
(* What asev::ev_service promises the users of its strands: the events     *)
(* posted to one strand run one at a time, in the order they were posted,  *)
(* and each of them runs.  Threads, workers and notifications are left to  *)
(* EvService.                                                              *)
(***************************************************************************)
EXTENDS Naturals, Sequences

CONSTANTS Strands,    \* the strands; each is served by one worker
          MaxEvents   \* bound: events posted in a behaviour

NoEvent == 0          \* events are numbered from 1 in the order they are posted

VARIABLES
    pending,  \* strand -> the events posted to it and not started, in order
    running,  \* strand -> the event running on it, or NoEvent
    posted    \* how many events have been posted

vars == <<pending, running, posted>>

Init == /\ pending = [s \in Strands |-> <<>>]
        /\ running = [s \in Strands |-> NoEvent]
        /\ posted = 0

Post(s) == /\ posted < MaxEvents
           /\ posted' = posted + 1
           /\ pending' = [pending EXCEPT ![s] = Append(@, posted + 1)]
           /\ UNCHANGED running

Start(s) == /\ running[s] = NoEvent
            /\ pending[s] # <<>>
            /\ running' = [running EXCEPT ![s] = Head(pending[s])]
            /\ pending' = [pending EXCEPT ![s] = Tail(@)]
            /\ UNCHANGED posted

Finish(s) == /\ running[s] # NoEvent
             /\ running' = [running EXCEPT ![s] = NoEvent]
             /\ UNCHANGED <<pending, posted>>

Next == \E s \in Strands : Post(s) \/ Start(s) \/ Finish(s)

(* The service may be stopped at any time: then events may stay pending. *)
SafeSpec == Init /\ [][Next]_vars

(* While it runs, every event posted is started and finished. *)
Fairness == \A s \in Strands : WF_vars(Start(s)) /\ WF_vars(Finish(s))

Spec == SafeSpec /\ Fairness
==============================================================================
