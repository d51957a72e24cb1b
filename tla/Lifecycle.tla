------------------------------ MODULE Lifecycle ------------------------------
(***************************************************************************)
(* The life of an asev::ev_service (actorx/asev/ev_service.hpp): handlers  *)
(* registered with tstart, texit and tsegv, run() with its threads, stop,  *)
(* another run(), a crash, the destructor, and the pools all events come   *)
(* from.                                                                   *)
(*                                                                         *)
(* An event is made in a pool of whoever posts it: a thread of the service *)
(* has its pools in its thrctx, any other thread in local pools that the   *)
(* service owns.  Whoever is done with an event releases it to its pool,   *)
(* which must still be there.                                              *)
(*                                                                         *)
(* The scheduler is reduced to what EvService shows of it: a worker's      *)
(* events are handled by one thread at a time, in order, by any thread,    *)
(* and a thread told to stop is not asleep.  Notifications are left out.   *)
(***************************************************************************)
EXTENDS Naturals, Sequences, FiniteSets

CONSTANTS
    ThreadNum,    \* threads of the service
    WorkerNum,    \* workers of the service
    Outside,      \* threads outside the service that call it
    MaxCall,      \* bound: calls of tstart, texit, tsegv and post
    MaxRun        \* bound: calls of run()

Threads == 0 .. ThreadNum - 1
Workers == 0 .. WorkerNum - 1
Callers == Outside \cup Threads

ASSUME NumAssumption     == ThreadNum \in Nat \ {0} /\ WorkerNum \in Nat \ {0}
ASSUME OutsideAssumption == IsFiniteSet(Outside) /\ Outside \cap Threads = {}
ASSUME BoundAssumption   == MaxCall \in Nat /\ MaxRun \in Nat

Kinds == {"tstart", "texit", "tsegv"}

(* An event: a handler for a thread or a post to a worker, numbered, and    *)
(* the thread whose pool it comes from.                                     *)
Events == [kind : Kinds \cup {"post"}, nr : Nat, to : Threads \cup Workers, by : Callers]

NoEvent  == [kind |-> "none"]
NoWorker == WorkerNum
Idle     == [op |-> "idle"]  \* a caller that is in no call

Phases == {"idle", "running", "exited", "aborted",          \* run() and its ends
           "misc", "workers", "pools", "data", "destroyed"} \* the destructor
PCs    == {"start", "loop", "work", "exit", "over", "segv"}

VARIABLES
    phase,     \* what the service is in
    pc,        \* thread -> where it is
    hand,      \* thread -> the event it handles, or NoEvent
    cur,       \* thread -> the worker it runs, or NoWorker
    stop,      \* thread -> stop_
    que,       \* worker -> its queue
    hque,      \* kind -> thread -> tstart_que_, texit_que_ or tsegv_que_
    call,      \* caller -> the call of tstart, texit, tsegv or stop it is in
    cleaned,   \* destructor: the threads it has done in this phase
    dead,      \* callers whose pools have been destroyed
    released,  \* events given back to their pool
    misfreed,  \* events given back to a pool that was gone
    stuck,     \* events whose handler crashed
    handled,   \* history: events whose handler returned
    made,      \* history: events made
    before,    \* history: handlers there were when the run began
    calls,     \* history: calls of tstart, texit, tsegv and post
    runs       \* history: calls of run()

queueVars  == <<que, hque>>
threadVars == <<pc, hand, cur>>
eventVars  == <<released, misfreed, stuck, handled>>
bookVars   == <<made, before, calls, runs>>
vars == <<phase, threadVars, stop, queueVars, call, cleaned, dead, eventVars, bookVars>>

Init == /\ phase = "idle"
        /\ pc = [t \in Threads |-> "over"]
        /\ hand = [t \in Threads |-> NoEvent]
        /\ cur = [t \in Threads |-> NoWorker]
        /\ stop = [t \in Threads |-> FALSE]
        /\ que = [w \in Workers |-> <<>>]
        /\ hque = [k \in Kinds |-> [t \in Threads |-> <<>>]]
        /\ call = [a \in Callers |-> Idle]
        /\ cleaned = 0 /\ dead = {}
        /\ released = {} /\ misfreed = {} /\ stuck = {} /\ handled = {}
        /\ made = {} /\ before = {}
        /\ calls = 0 /\ runs = 0

EventsIn(s) == {s[i] : i \in 1 .. Len(s)}
Goto(t, l)  == pc' = [pc EXCEPT ![t] = l]
Posts       == UNION {EventsIn(que[w]) : w \in Workers}
Handlers    == UNION {EventsIn(hque[k][t]) : k \in Kinds, t \in Threads}
InQueues    == Posts \cup Handlers

(* node_base::release of all events of a set. *)
Release(es) == /\ released' = released \cup {x \in es : x.by \notin dead}
               /\ misfreed' = misfreed \cup {x \in es : x.by \in dead}

-----------------------------------------------------------------------------
(* Calls.  A thread of the service calls from its handlers, others at any   *)
(* time before the destructor.                                              *)

MayCall(a) == /\ call[a] = Idle
              /\ IF a \in Threads
                   THEN phase = "running" /\ hand[a] # NoEvent
                   ELSE phase \in {"idle", "running"}

Working(a) == phase \in {"idle", "running"} /\ (a \in Threads => phase = "running")

(* tstart, texit, tsegv: begins to give every thread an event. *)
Register(a, k) == /\ MayCall(a)
                  /\ calls < MaxCall
                  /\ calls' = calls + 1
                  /\ call' = [call EXCEPT ![a] =
                                 [op |-> "register", kind |-> k, nr |-> calls + 1, thread |-> 0]]
                  /\ UNCHANGED <<phase, threadVars, stop, queueVars, cleaned, dead, eventVars,
                                 made, before, runs>>

(* Mutant: the loop over the threads goes one too far. *)
NextThread_Past(a) ==
    LET t == call[a].thread
    IN call' = [call EXCEPT ![a] = IF t = ThreadNum THEN Idle ELSE [@ EXCEPT !.thread = t + 1]]

(* A call that does its threads one after the other goes on to the next. *)
NextThread(a) ==
    LET t == call[a].thread
    IN call' = [call EXCEPT ![a] = IF t = ThreadNum - 1 THEN Idle
                                   ELSE [@ EXCEPT !.thread = t + 1]]

PushHandler(a) ==
    /\ Working(a) /\ call[a].op = "register"
    /\ LET k == call[a].kind  t == call[a].thread
           x == [kind |-> k, nr |-> call[a].nr, to |-> t, by |-> a]
       IN /\ hque' = [hque EXCEPT ![k][t] = Append(@, x)]
          /\ made' = made \cup {x}
    /\ NextThread(a)
    /\ UNCHANGED <<phase, threadVars, stop, que, cleaned, dead, eventVars,
                   before, calls, runs>>

Post(a, w) == /\ MayCall(a)
              /\ calls < MaxCall
              /\ calls' = calls + 1
              /\ LET x == [kind |-> "post", nr |-> calls + 1, to |-> w, by |-> a]
                 IN /\ que' = [que EXCEPT ![w] = Append(@, x)]
                    /\ made' = made \cup {x}
              /\ UNCHANGED <<phase, threadVars, stop, hque, call, cleaned, dead, eventVars,
                             before, runs>>

CallStop(a) == /\ MayCall(a)
               /\ \E t \in Threads : ~stop[t]
               /\ call' = [call EXCEPT ![a] = [op |-> "stop", thread |-> 0]]
               /\ UNCHANGED <<phase, threadVars, stop, queueVars, cleaned, dead, eventVars,
                              bookVars>>

(* Mutant: stops the first thread only. *)
SetStop_First(a) == /\ Working(a) /\ call[a].op = "stop"
                    /\ stop' = [stop EXCEPT ![call[a].thread] = TRUE]
                    /\ call' = [call EXCEPT ![a] = Idle]
                    /\ UNCHANGED <<phase, threadVars, queueVars, cleaned, dead, eventVars,
                                   bookVars>>

(* Nothing ever clears stop_. *)
SetStop(a) == /\ Working(a) /\ call[a].op = "stop"
              /\ stop' = [stop EXCEPT ![call[a].thread] = TRUE]
              /\ NextThread(a)
              /\ UNCHANGED <<phase, threadVars, queueVars, cleaned, dead, eventVars, bookVars>>

-----------------------------------------------------------------------------
(* run() *)

(* The events of a call that is still going on do not count as registered. *)
Run == /\ phase = "idle"
       /\ runs < MaxRun
       /\ runs' = runs + 1
       /\ phase' = "running"
       /\ pc' = [t \in Threads |-> "start"]
       /\ before' = {x \in InQueues : /\ x.kind # "post"
                                      /\ call[x.by].op = "register" => call[x.by].nr # x.nr}
       /\ UNCHANGED <<hand, cur, stop, queueVars, call, cleaned, dead, eventVars,
                      made, calls>>

(* All threads joined. *)
Join == /\ phase = "running"
        /\ \A t \in Threads : pc[t] = "over"
        /\ phase' = "idle"
        /\ UNCHANGED <<threadVars, stop, queueVars, call, cleaned, dead, eventVars, bookVars>>

-----------------------------------------------------------------------------
(* A thread: trun and worker::work *)

QueueOf(l) == IF l = "start" THEN "tstart" ELSE IF l = "exit" THEN "texit" ELSE "tsegv"

(* The next handler, in the loops at the start, at the exit, after a crash. *)
PopHandler(t) == /\ pc[t] \in {"start", "exit", "segv"}
                 /\ hand[t] = NoEvent
                 /\ LET k == QueueOf(pc[t])
                    IN /\ hque[k][t] # <<>>
                       /\ hand' = [hand EXCEPT ![t] = Head(hque[k][t])]
                       /\ hque' = [hque EXCEPT ![k][t] = Tail(@)]
                 /\ UNCHANGED <<phase, pc, cur, stop, que, call, cleaned, dead, eventVars,
                                bookVars>>

(* Mutant: handles one event of tstart, or texit, where the code loops. *)
NoHandler_One(t) == /\ pc[t] \in {"start", "exit"}
                    /\ hand[t] = NoEvent
                    /\ \/ hque[QueueOf(pc[t])][t] = <<>>
                       \/ \E x \in handled : x.kind = QueueOf(pc[t]) /\ x.to = t
                    /\ Goto(t, IF pc[t] = "start" THEN "loop" ELSE "over")
                    /\ UNCHANGED <<phase, hand, cur, stop, queueVars, call, cleaned, dead,
                                   eventVars, bookVars>>

(* No handler is left: the thread enters its loop, or ends. *)
NoHandler(t) == /\ pc[t] \in {"start", "exit"}
                /\ hand[t] = NoEvent
                /\ hque[QueueOf(pc[t])][t] = <<>>
                /\ Goto(t, IF pc[t] = "start" THEN "loop" ELSE "over")
                /\ UNCHANGED <<phase, hand, cur, stop, queueVars, call, cleaned, dead, eventVars,
                               bookVars>>

(* The stop flag is looked at between rounds; what is left of a round after *)
(* it was set is still worked.  Visits to workers without events are left   *)
(* out.                                                                     *)
Take(t, w) == /\ pc[t] = "loop"
              /\ que[w] # <<>>
              /\ \A s \in Threads : cur[s] # w
              /\ cur' = [cur EXCEPT ![t] = w]
              /\ Goto(t, "work")
              /\ UNCHANGED <<phase, hand, stop, queueVars, call, cleaned, dead, eventVars,
                             bookVars>>

SeeStop(t) == /\ pc[t] = "loop"
              /\ stop[t]
              /\ Goto(t, "exit")
              /\ UNCHANGED <<phase, hand, cur, stop, queueVars, call, cleaned, dead, eventVars,
                             bookVars>>

PopEvent(t) == /\ pc[t] = "work"
               /\ hand[t] = NoEvent
               /\ que[cur[t]] # <<>>
               /\ hand' = [hand EXCEPT ![t] = Head(que[cur[t]])]
               /\ que' = [que EXCEPT ![cur[t]] = Tail(@)]
               /\ UNCHANGED <<phase, pc, cur, stop, hque, call, cleaned, dead, eventVars,
                              bookVars>>

GiveBack(t) == /\ pc[t] = "work"
               /\ hand[t] = NoEvent
               /\ que[cur[t]] = <<>>
               /\ cur' = [cur EXCEPT ![t] = NoWorker]
               /\ Goto(t, "loop")
               /\ UNCHANGED <<phase, hand, stop, queueVars, call, cleaned, dead, eventVars,
                              bookVars>>

(* Mutant: leaves the release of a handler's event to somebody else. *)
EndHandler_KeepEvent(t) ==
    /\ hand[t] # NoEvent /\ call[t] = Idle
    /\ hand' = [hand EXCEPT ![t] = NoEvent]
    /\ handled' = handled \cup {hand[t]}
    /\ IF pc[t] = "work" THEN Release({hand[t]}) ELSE UNCHANGED <<released, misfreed>>
    /\ UNCHANGED <<phase, pc, cur, stop, queueVars, call, cleaned, dead, stuck, bookVars>>

(* A handler returns, all its calls done, and its event is released. *)
EndHandler(t) == /\ hand[t] # NoEvent /\ call[t] = Idle
                 /\ hand' = [hand EXCEPT ![t] = NoEvent]
                 /\ handled' = handled \cup {hand[t]}
                 /\ Release({hand[t]})
                 /\ UNCHANGED <<phase, pc, cur, stop, queueVars, call, cleaned, dead, stuck,
                                bookVars>>

Step(t) == /\ phase = "running"
           /\ \/ PopHandler(t) \/ NoHandler(t) \/ SeeStop(t)
              \/ \E w \in Workers : Take(t, w)
              \/ PopEvent(t) \/ GiveBack(t) \/ EndHandler(t)

-----------------------------------------------------------------------------
(* Crashes *)

(* Mutant: a thread that crashes gives its worker back first. *)
Crash_GiveBack(t) ==
    /\ phase = "running"
    /\ pc[t] \in {"start", "work", "exit"} /\ hand[t] # NoEvent
    /\ Goto(t, "segv")
    /\ stuck' = stuck \cup {hand[t]}
    /\ hand' = [hand EXCEPT ![t] = NoEvent]
    /\ call' = [call EXCEPT ![t] = Idle]
    /\ cur' = [cur EXCEPT ![t] = NoWorker]
    /\ UNCHANGED <<phase, stop, queueVars, cleaned, dead, released, misfreed, handled, bookVars>>

(* A handler runs into SIGSEGV: its thread runs the tsegv handlers, without *)
(* leaving the handler, while the others go on.                             *)
Crash(t) == /\ phase = "running"
            /\ pc[t] \in {"start", "work", "exit"} /\ hand[t] # NoEvent
            /\ Goto(t, "segv")
            /\ stuck' = stuck \cup {hand[t]}
            /\ hand' = [hand EXCEPT ![t] = NoEvent]
            /\ call' = [call EXCEPT ![t] = Idle]
            /\ UNCHANGED <<phase, cur, stop, queueVars, cleaned, dead, released, misfreed,
                           handled, bookVars>>

(* std::exit(102) after the last tsegv handler. *)
Exit(t) == /\ phase = "running"
           /\ pc[t] = "segv" /\ hand[t] = NoEvent
           /\ hque["tsegv"][t] = <<>>
           /\ phase' = "exited"
           /\ UNCHANGED <<threadVars, stop, queueVars, call, cleaned, dead, eventVars, bookVars>>

(* A handler throws, or a tsegv handler crashes: the assertion in the catch *)
(* throws where nothing may be thrown, and the process ends at once.        *)
Throw(t) == /\ phase = "running"
            /\ hand[t] # NoEvent
            /\ phase' = "aborted"
            /\ stuck' = stuck \cup {hand[t]}
            /\ hand' = [hand EXCEPT ![t] = NoEvent]
            /\ UNCHANGED <<pc, cur, stop, queueVars, call, cleaned, dead, released, misfreed,
                           handled, bookVars>>

-----------------------------------------------------------------------------
(* ~ev_service, when nobody is in a call any more *)

Destroy == /\ phase = "idle"
           /\ \A a \in Callers : call[a] = Idle
           /\ phase' = "misc" /\ cleaned' = 0
           /\ UNCHANGED <<threadVars, stop, queueVars, call, dead, eventVars, bookVars>>

(* The loops over thread_data_list_ go on to the next thread. *)
NextCleaned(after) == IF cleaned = ThreadNum - 1
                        THEN phase' = after /\ cleaned' = 0
                        ELSE cleaned' = cleaned + 1 /\ UNCHANGED phase

(* Mutant: the loop destroys the threads' pools too. *)
CleanMisc_Pools == /\ phase = "misc"
                   /\ Release(EventsIn(hque["tstart"][cleaned]) \cup EventsIn(hque["texit"][cleaned]))
                   /\ hque' = [hque EXCEPT !["tstart"][cleaned] = <<>>,
                                           !["texit"][cleaned] = <<>>]
                   /\ dead' = dead \cup {cleaned}
                   /\ NextCleaned("workers")
                   /\ UNCHANGED <<threadVars, stop, que, call, stuck, handled, bookVars>>

(* The tstart and texit events of a thread that never ran. *)
CleanMisc == /\ phase = "misc"
             /\ Release(EventsIn(hque["tstart"][cleaned]) \cup EventsIn(hque["texit"][cleaned]))
             /\ hque' = [hque EXCEPT !["tstart"][cleaned] = <<>>, !["texit"][cleaned] = <<>>]
             /\ NextCleaned("workers")
             /\ UNCHANGED <<threadVars, stop, que, call, dead, stuck, handled, bookVars>>

(* worker_list_.clear(): ~worker releases the events that never ran. *)
CleanWorkers == /\ phase = "workers"
                /\ Release(Posts)
                /\ que' = [w \in Workers |-> <<>>]
                /\ phase' = "pools"
                /\ UNCHANGED <<threadVars, stop, hque, call, cleaned, dead, stuck, handled,
                               bookVars>>

(* The local pools of all threads outside. *)
CleanPools == /\ phase = "pools"
              /\ dead' = dead \cup Outside
              /\ phase' = "data"
              /\ UNCHANGED <<threadVars, stop, queueVars, call, cleaned, eventVars, bookVars>>

(* The members go: a thread_data's queues before the pools in its thrctx. *)
CleanData == /\ phase = "data"
             /\ Release(EventsIn(hque["tsegv"][cleaned]))
             /\ hque' = [hque EXCEPT !["tsegv"][cleaned] = <<>>]
             /\ dead' = dead \cup {cleaned}
             /\ NextCleaned("destroyed")
             /\ UNCHANGED <<threadVars, stop, que, call, stuck, handled, bookVars>>

-----------------------------------------------------------------------------
Calling(a) == \/ \E k \in Kinds : Register(a, k)
              \/ \E w \in Workers : Post(a, w)
              \/ CallStop(a)

GoOn(a) == PushHandler(a) \/ SetStop(a)

Destructor == CleanMisc \/ CleanWorkers \/ CleanPools \/ CleanData

Next == \/ \E a \in Callers : Calling(a) \/ GoOn(a)
        \/ Run \/ Join
        \/ \E t \in Threads : Step(t) \/ Crash(t) \/ Exit(t) \/ Throw(t)
        \/ Destroy \/ Destructor

Spec == Init /\ [][Next]_vars

(* Threads are scheduled, handlers return or crash, calls once begun go on. *)
FairSpec == /\ Spec
            /\ \A t \in Threads : WF_vars(Step(t)) /\ WF_vars(Exit(t))
            /\ \A a \in Callers : WF_vars(GoOn(a))
            /\ WF_vars(Join) /\ WF_vars(Destructor)

-----------------------------------------------------------------------------
(* Correctness *)

TypeOK == /\ phase \in Phases
          /\ pc \in [Threads -> PCs]
          /\ hand \in [Threads -> Events \cup {NoEvent}]
          /\ cur \in [Threads -> Workers \cup {NoWorker}]
          /\ stop \in [Threads -> BOOLEAN]
          /\ que \in [Workers -> Seq(Events)]
          /\ hque \in [Kinds -> [Threads -> Seq(Events)]]
          /\ DOMAIN call = Callers
          /\ \A a \in Callers : call[a] # Idle => call[a].thread \in Threads
          /\ cleaned \in Threads
          /\ dead \subseteq Callers
          /\ released \cup misfreed \cup stuck \cup handled \subseteq made
          /\ made \subseteq Events /\ before \subseteq made
          /\ calls \in Nat /\ runs \in Nat

InHand == {hand[t] : t \in Threads} \ {NoEvent}

(***************************************************************************)
(* Every event made is in one place: queued, in a handler, given back to a *)
(* pool, or stuck in a crash.  None is lost and none given back while      *)
(* somebody still has it; so when the destructor is done, all are back.    *)
(***************************************************************************)
Accounted ==
    /\ made = InQueues \cup InHand \cup released \cup misfreed \cup stuck
    /\ (InQueues \cup InHand) \cap (released \cup misfreed \cup stuck) = {}
    /\ phase = "destroyed" => made = released \cup misfreed

(***************************************************************************)
(* Handlers registered before run() frame it: on each thread those of      *)
(* tstart have run when the thread enters its loop, those of texit run     *)
(* after the loop, and all when the thread has ended.                      *)
(***************************************************************************)
HandlersFramed ==
    \A x \in before :
        phase = "running" =>
            /\ x.kind = "tstart" /\ pc[x.to] \in {"loop", "work", "exit", "over"} => x \in handled
            /\ x.kind = "texit" /\ pc[x.to] = "over" => x \in handled
            /\ x.kind = "texit" /\ pc[x.to] \in {"start", "loop", "work"} => x \notin handled

(***************************************************************************)
(* What is posted to a worker is handled in the order it was posted, over  *)
(* the runs, whichever threads handle it, whatever a run left in the queue *)
(* for the next; and nothing is handled past an event that crashed.        *)
(***************************************************************************)
PostsInOrder ==
    \A y \in handled, x \in made :
        x.kind = "post" /\ y.kind = "post" /\ x.to = y.to /\ x.nr < y.nr => x \in handled

(***************************************************************************)
(* Whatever was posted or registered by whom, and whether it ran or not,   *)
(* an event goes back to a pool that is still there.  The one exception is *)
(* tsegv_que_, which the destructor leaves to the end of thread_data, when *)
(* the pools of outside threads and of earlier threads are gone.           *)
(***************************************************************************)
BackToLivePools == \A x \in misfreed : x.kind = "tsegv"

(***************************************************************************)
(* stop(), called before or during a run, ends it, and so does a crash:    *)
(* run() returns or the process is gone.                                   *)
(***************************************************************************)
RunEnds == phase = "running" /\ (\E t \in Threads : stop[t] \/ pc[t] = "segv")
               ~> phase # "running"
=============================================================================
