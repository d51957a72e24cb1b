------------------------------ MODULE EvService ------------------------------
(***************************************************************************)
(* The scheduler of asev::ev_service (actorx/asev/ev_service.hpp and       *)
(* detail/worker.hpp): ThreadNum threads serve WorkerNum workers, each     *)
(* with a queue of events.  A worker belongs to the thread its index is    *)
(* congruent to, its prior thread, but any thread with nothing to do may   *)
(* run it (work stealing).  To run a worker is to take it out of its       *)
(* workshop slot with an atomic exchange, handle its events until its      *)
(* queue is empty and put it back; that is what makes a strand sequential. *)
(*                                                                         *)
(* A thread sleeps when it expects no event for its workers.  It expects   *)
(* as many as it was notified of, less those it handled itself and those   *)
(* that thieves report in the worker's sworks_; the number is negative     *)
(* while events have been handled ahead of their notification.             *)
(*                                                                         *)
(* One action per access to shared memory.  Two components are used by     *)
(* what they promise: a worker's mpsc_queue is a sequence, a thread's      *)
(* mpsc_count a number whose synchronized_reset waits until it is positive *)
(* (PendingCount; MpscCount shows that the code implements it).            *)
(***************************************************************************)
EXTENDS Integers, Sequences, FiniteSets

CONSTANTS
    ThreadNum,    \* threads of the service
    WorkerNum,    \* workers of the service
    WorkSteal,    \* work_steal_
    Posters,      \* threads outside the service that post events
    MaxEvents,    \* bound: events posted in a behaviour
    Aggressive,   \* polls without a pause before the thread may sleep (100)
    Moderate,     \* polls with a pause before the thread may sleep (500)
    MayStop       \* whether stop() may be called

Threads == 0 .. ThreadNum - 1
Workers == 0 .. WorkerNum - 1

(* Who posts: outside threads, and the service's own from their handlers. *)
Actors == Posters \cup Threads

NoEvent  == 0
NoWorker == -1

(* "Worker num must >= thread_num", which the constructor enforces. *)
ASSUME NumAssumption     == /\ ThreadNum \in Nat \ {0}
                            /\ WorkerNum \in Nat
                            /\ WorkerNum >= ThreadNum
ASSUME PostersAssumption == IsFiniteSet(Posters) /\ Posters \cap Threads = {}
ASSUME BoundAssumption   == /\ MaxEvents \in Nat
                            /\ Aggressive \in Nat \ {0}
                            /\ Moderate \in Nat \ {0}
                            /\ WorkSteal \in BOOLEAN
                            /\ MayStop \in BOOLEAN

(* The thread that is notified of a worker's events. *)
ThreadOf(w) == w % ThreadNum

Priors(t) == {w \in Workers : ThreadOf(w) = t}
Minors(t) == IF WorkSteal THEN Workers \ Priors(t) ELSE {}

PCs == {"loop", "aggressive", "moderate", "peek", "sleep", "do_job",
        "take", "pop", "handle", "report", "give", "tally", "exit"}

VARIABLES
    que,       \* worker -> que_, the events pushed and not popped
    workshop,  \* worker -> whether it is in its workshop_ slot
    sworks,    \* worker -> sworks_, stolen works its prior thread has not seen
    cnt,       \* thread -> cnt_, notifications it has not seen
    stop,      \* thread -> stop_
    pc,        \* thread -> where it is in trun
    polls,     \* thread -> polls done in the polling loop it is in
    expected,  \* thread -> expected_pworks
    pworks,    \* thread -> pworks, events it handled in this round's priors
    level,     \* thread -> work level of the workers it is visiting
    todo,      \* thread -> workers still to visit at this level
    cur,       \* thread -> the worker it is visiting, or NoWorker
    works,     \* thread -> works, events handled in this visit
    ev,        \* thread -> the event it handles, or NoEvent
    note,      \* actor -> worker it pushed an event to and has yet to notify
    posted,    \* how many events have been posted
    halt       \* how far stop() has come

queueVars  == <<que, note, posted>>
threadVars == <<pc, polls, expected, pworks, level, todo, cur, works, ev>>
vars == <<queueVars, threadVars, workshop, sworks, cnt, stop, halt>>

Init == /\ que = [w \in Workers |-> <<>>]
        /\ workshop = [w \in Workers |-> TRUE]
        /\ sworks = [w \in Workers |-> 0]
        /\ cnt = [t \in Threads |-> 0]
        /\ stop = [t \in Threads |-> FALSE]
        /\ pc = [t \in Threads |-> "loop"]
        /\ polls = [t \in Threads |-> 0]
        /\ expected = [t \in Threads |-> 0]
        /\ pworks = [t \in Threads |-> 0]
        /\ level = [t \in Threads |-> "prior"]
        /\ todo = [t \in Threads |-> {}]
        /\ cur = [t \in Threads |-> NoWorker]
        /\ works = [t \in Threads |-> 0]
        /\ ev = [t \in Threads |-> NoEvent]
        /\ note = [a \in Actors |-> NoWorker]
        /\ posted = 0
        /\ halt = 0

Goto(t, l) == pc' = [pc EXCEPT ![t] = l]

-----------------------------------------------------------------------------
(* Posting: pri_async pushes the event, then notifies the worker's thread.  *)
(* A strand keeps the index it was given; which one a strand or a post gets *)
(* depends on a racy round robin, so it may be any.                         *)

Push(a, w) == /\ note[a] = NoWorker
              /\ a \in Threads => pc[a] = "handle"
              /\ posted < MaxEvents
              /\ posted' = posted + 1
              /\ que' = [que EXCEPT ![w] = Append(@, posted + 1)]
              /\ note' = [note EXCEPT ![a] = w]
              /\ UNCHANGED <<threadVars, workshop, sworks, cnt, stop, halt>>

Notify(a) == /\ note[a] # NoWorker
             /\ cnt' = [cnt EXCEPT ![ThreadOf(note[a])] = @ + 1]
             /\ note' = [note EXCEPT ![a] = NoWorker]
             /\ UNCHANGED <<que, posted, threadVars, workshop, sworks, stop, halt>>

-----------------------------------------------------------------------------
(* stop(): sets every thread's flag, then counts up every thread's cnt_. *)

SetStop == /\ MayStop /\ halt < ThreadNum
           /\ stop' = [stop EXCEPT ![halt] = TRUE]
           /\ halt' = halt + 1
           /\ UNCHANGED <<queueVars, threadVars, workshop, sworks, cnt>>

(* Mutant: sets the flags and wakes nobody. *)
WakeToStop_Silent == /\ halt \in ThreadNum .. 2 * ThreadNum - 1
                     /\ halt' = halt + 1
                     /\ UNCHANGED <<queueVars, threadVars, workshop, sworks, cnt, stop>>

WakeToStop == /\ halt \in ThreadNum .. 2 * ThreadNum - 1
              /\ cnt' = [cnt EXCEPT ![halt - ThreadNum] = @ + 1]
              /\ halt' = halt + 1
              /\ UNCHANGED <<queueVars, threadVars, workshop, sworks, stop>>

-----------------------------------------------------------------------------
(* The work loop of a thread: polling and sleeping *)

(* The loop condition, and the short cut past the polls. *)
Loop(t) == /\ pc[t] = "loop"
           /\ Goto(t, IF stop[t] THEN "exit"
                      ELSE IF expected[t] > 0 THEN "do_job" ELSE "aggressive")
           /\ polls' = [polls EXCEPT ![t] = 0]
           /\ UNCHANGED <<queueVars, expected, pworks, level, todo, cur, works, ev,
                          workshop, sworks, cnt, stop, halt>>

(* Mutant: takes one notification instead of exchanging the count with 0. *)
TakeCount_Decrement(t) ==
    /\ expected' = [expected EXCEPT ![t] = @ + 1]
    /\ cnt' = [cnt EXCEPT ![t] = @ - 1]
    /\ UNCHANGED <<queueVars, pworks, level, todo, cur, works, ev,
                   workshop, sworks, stop, halt>>

(* expected_pworks += cnt_.reset() *)
TakeCount(t) == /\ expected' = [expected EXCEPT ![t] = @ + cnt[t]]
                /\ cnt' = [cnt EXCEPT ![t] = 0]
                /\ UNCHANGED <<queueVars, pworks, level, todo, cur, works, ev,
                               workshop, sworks, stop, halt>>

PollAggressively(t) ==
    /\ pc[t] = "aggressive"
    /\ TakeCount(t)
    /\ polls' = [polls EXCEPT ![t] = (@ + 1) % Aggressive]
    /\ Goto(t, IF expected'[t] > 0 THEN "do_job"
               ELSE IF polls'[t] = 0 THEN "moderate" ELSE "aggressive")

(* Between the reset and the next pause the stop flag is looked at. *)
PollModerately(t) ==
    /\ pc[t] = "moderate"
    /\ TakeCount(t)
    /\ Goto(t, IF expected'[t] > 0 THEN "do_job" ELSE "peek")
    /\ UNCHANGED polls

Peek(t) == /\ pc[t] = "peek"
           /\ polls' = [polls EXCEPT ![t] = (@ + 1) % Moderate]
           /\ Goto(t, IF stop[t] THEN "do_job"
                      ELSE IF polls'[t] = 0 THEN "sleep" ELSE "moderate")
           /\ UNCHANGED <<queueVars, expected, pworks, level, todo, cur, works, ev,
                          workshop, sworks, cnt, stop, halt>>

(* synchronized_reset returns only with a positive count. *)
Sleep(t) == /\ pc[t] = "sleep"
            /\ cnt[t] > 0
            /\ TakeCount(t)
            /\ Goto(t, "do_job")
            /\ UNCHANGED polls

(* The label do_job: stop, or begin a round with the prior workers. *)
DoJob(t) == /\ pc[t] = "do_job"
            /\ Goto(t, IF stop[t] THEN "exit" ELSE "take")
            /\ pworks' = [pworks EXCEPT ![t] = 0]
            /\ level' = [level EXCEPT ![t] = "prior"]
            /\ todo' = [todo EXCEPT ![t] = Priors(t)]
            /\ UNCHANGED <<queueVars, polls, expected, cur, works, ev,
                           workshop, sworks, cnt, stop, halt>>

-----------------------------------------------------------------------------
(* The work loop of a thread: do_work and worker::work *)

(* Mutant: loads the slot instead of exchanging it, and so leaves the worker *)
(* for others to take too.                                                   *)
Take_Load(t) == \E n \in todo[t] :
    /\ pc[t] = "take"
    /\ \A m \in todo[t] : n <= m
    /\ todo' = [todo EXCEPT ![t] = @ \ {n}]
    /\ works' = [works EXCEPT ![t] = 0]
    /\ cur' = [cur EXCEPT ![t] = IF ~workshop[n] /\ level[t] = "minor"
                                 THEN NoWorker ELSE n]
    /\ Goto(t, IF workshop[n] THEN "pop"
               ELSE IF level[t] = "prior" THEN "tally" ELSE "take")
    /\ UNCHANGED <<queueVars, polls, expected, pworks, level, ev,
                   workshop, sworks, cnt, stop, halt>>

(* workshop_[n].exchange(nullptr): the worker, or nothing if another thread *)
(* runs it.  Workers are visited in ascending order.                        *)
Take(t) == \E n \in todo[t] :
    /\ pc[t] = "take"
    /\ \A m \in todo[t] : n <= m
    /\ todo' = [todo EXCEPT ![t] = @ \ {n}]
    /\ works' = [works EXCEPT ![t] = 0]
    /\ workshop' = [workshop EXCEPT ![n] = FALSE]
    /\ cur' = [cur EXCEPT ![t] = IF ~workshop[n] /\ level[t] = "minor"
                                 THEN NoWorker ELSE n]
    /\ Goto(t, IF workshop[n] THEN "pop"
               ELSE IF level[t] = "prior" THEN "tally" ELSE "take")
    /\ UNCHANGED <<queueVars, polls, expected, pworks, level, ev,
                   sworks, cnt, stop, halt>>

(* All prior workers visited: the minor ones get a turn only if no prior    *)
(* worker had work.                                                         *)
NextLevel(t) == /\ pc[t] = "take" /\ todo[t] = {}
                /\ IF level[t] = "prior" /\ pworks[t] = 0
                     THEN /\ level' = [level EXCEPT ![t] = "minor"]
                          /\ todo' = [todo EXCEPT ![t] = Minors(t)]
                          /\ UNCHANGED pc
                     ELSE /\ Goto(t, "loop")
                          /\ UNCHANGED <<level, todo>>
                /\ UNCHANGED <<queueVars, polls, expected, pworks, cur, works, ev,
                               workshop, sworks, cnt, stop, halt>>

(* Mutant: pops the newest event, the stack's order without the reversal. *)
PopEvent_Newest(t) == LET w == cur[t] IN
    /\ pc[t] = "pop"
    /\ que[w] # <<>>
    /\ ev' = [ev EXCEPT ![t] = que[w][Len(que[w])]]
    /\ que' = [que EXCEPT ![w] = SubSeq(@, 1, Len(@) - 1)]
    /\ works' = [works EXCEPT ![t] = @ + 1]
    /\ Goto(t, "handle")
    /\ UNCHANGED <<note, posted, polls, expected, pworks, level, todo, cur,
                   workshop, sworks, cnt, stop, halt>>

(* que_.pop() and ++works; the handler starts. *)
PopEvent(t) == LET w == cur[t] IN
    /\ pc[t] = "pop"
    /\ que[w] # <<>>
    /\ ev' = [ev EXCEPT ![t] = Head(que[w])]
    /\ que' = [que EXCEPT ![w] = Tail(@)]
    /\ works' = [works EXCEPT ![t] = @ + 1]
    /\ Goto(t, "handle")
    /\ UNCHANGED <<note, posted, polls, expected, pworks, level, todo, cur,
                   workshop, sworks, cnt, stop, halt>>

(* The handler returns, all it posted notified, and the event is released. *)
EndEvent(t) == /\ pc[t] = "handle"
               /\ note[t] = NoWorker
               /\ ev' = [ev EXCEPT ![t] = NoEvent]
               /\ Goto(t, "pop")
               /\ UNCHANGED <<queueVars, polls, expected, pworks, level, todo, cur,
                              works, workshop, sworks, cnt, stop, halt>>

(* Mutant: reports the works of a prior visit too, which are tallied again. *)
PopNothing_ReportAll(t) ==
    /\ pc[t] = "pop"
    /\ que[cur[t]] = <<>>
    /\ Goto(t, IF works[t] > 0 THEN "report" ELSE "give")
    /\ UNCHANGED <<queueVars, polls, expected, pworks, level, todo, cur,
                   works, ev, workshop, sworks, cnt, stop, halt>>

(* Mutant: never reports stolen works. *)
PopNothing_NoReport(t) ==
    /\ pc[t] = "pop"
    /\ que[cur[t]] = <<>>
    /\ Goto(t, "give")
    /\ UNCHANGED <<queueVars, polls, expected, pworks, level, todo, cur,
                   works, ev, workshop, sworks, cnt, stop, halt>>

(* The queue is empty; a thief with works has to report them. *)
PopNothing(t) == /\ pc[t] = "pop"
                 /\ que[cur[t]] = <<>>
                 /\ Goto(t, IF level[t] = "minor" /\ works[t] > 0
                            THEN "report" ELSE "give")
                 /\ UNCHANGED <<queueVars, polls, expected, pworks, level, todo, cur,
                                works, ev, workshop, sworks, cnt, stop, halt>>

(* sworks_.fetch_add(works) *)
ReportStolen(t) == /\ pc[t] = "report"
                   /\ sworks' = [sworks EXCEPT ![cur[t]] = @ + works[t]]
                   /\ Goto(t, "give")
                   /\ UNCHANGED <<queueVars, polls, expected, pworks, level, todo, cur,
                                  works, ev, workshop, cnt, stop, halt>>

(* workshop_[n].store(wkr), on leaving do_work. *)
GiveBack(t) == /\ pc[t] = "give"
               /\ workshop' = [workshop EXCEPT ![cur[t]] = TRUE]
               /\ IF level[t] = "prior"
                    THEN Goto(t, "tally") /\ UNCHANGED cur
                    ELSE Goto(t, "take") /\ cur' = [cur EXCEPT ![t] = NoWorker]
               /\ UNCHANGED <<queueVars, polls, expected, pworks, level, todo, works, ev,
                              sworks, cnt, stop, halt>>

(* Mutant: reads sworks_ where the code exchanges it with 0. *)
Tally_KeepStolen(t) == LET n == cur[t] IN
    /\ pc[t] = "tally"
    /\ pworks' = [pworks EXCEPT ![t] = @ + works[t]]
    /\ expected' = [expected EXCEPT ![t] = @ - pworks'[t] - sworks[n]]
    /\ cur' = [cur EXCEPT ![t] = NoWorker]
    /\ Goto(t, "take")
    /\ UNCHANGED <<queueVars, polls, level, todo, works, ev, workshop, sworks,
                   cnt, stop, halt>>

(* After each prior worker: pworks += do_work(n), then expected_pworks less *)
(* pworks (the sum so far, as the code has it) and less fetch_sworks().     *)
Tally(t) == LET n == cur[t] IN
    /\ pc[t] = "tally"
    /\ pworks' = [pworks EXCEPT ![t] = @ + works[t]]
    /\ expected' = [expected EXCEPT ![t] = @ - pworks'[t] - sworks[n]]
    /\ sworks' = [sworks EXCEPT ![n] = 0]
    /\ cur' = [cur EXCEPT ![t] = NoWorker]
    /\ Goto(t, "take")
    /\ UNCHANGED <<queueVars, polls, level, todo, works, ev, workshop, cnt, stop, halt>>

-----------------------------------------------------------------------------
Run(t) == \/ Loop(t) \/ PollAggressively(t) \/ PollModerately(t) \/ Peek(t)
          \/ Sleep(t) \/ DoJob(t) \/ Take(t) \/ NextLevel(t)
          \/ PopEvent(t) \/ EndEvent(t) \/ PopNothing(t)
          \/ ReportStolen(t) \/ GiveBack(t) \/ Tally(t)

Next == \/ \E a \in Actors, w \in Workers : Push(a, w)
        \/ \E a \in Actors : Notify(a)
        \/ \E t \in Threads : Run(t)
        \/ SetStop
        \/ WakeToStop

Spec == Init /\ [][Next]_vars

(* Every thread is scheduled, handlers return, and a call of post or stop,  *)
(* once begun, goes on.  Nothing obliges anyone to post or to stop.         *)
FairSpec == /\ Spec
            /\ \A t \in Threads : WF_vars(Run(t))
            /\ \A a \in Actors : WF_vars(Notify(a))
            /\ WF_vars(halt > 0 /\ SetStop) /\ WF_vars(WakeToStop)

-----------------------------------------------------------------------------
(* Correctness *)

TypeOK == /\ que \in [Workers -> Seq(Nat)]
          /\ workshop \in [Workers -> BOOLEAN]
          /\ sworks \in [Workers -> Nat]
          /\ cnt \in [Threads -> Nat]
          /\ stop \in [Threads -> BOOLEAN]
          /\ pc \in [Threads -> PCs]
          /\ polls \in [Threads -> Nat]
          /\ expected \in [Threads -> Int]
          /\ pworks \in [Threads -> Nat]
          /\ level \in [Threads -> {"prior", "minor"}]
          /\ todo \in [Threads -> SUBSET Workers]
          /\ cur \in [Threads -> Workers \cup {NoWorker}]
          /\ works \in [Threads -> Nat]
          /\ ev \in [Threads -> Nat]
          /\ note \in [Actors -> Workers \cup {NoWorker}]
          /\ posted \in Nat
          /\ halt \in 0 .. 2 * ThreadNum

(* Thread t has taken worker w out of the workshop. *)
Holds(t, w) == cur[t] = w /\ pc[t] \in {"pop", "handle", "report", "give"}

(***************************************************************************)
(* At most one thread runs a worker, and the worker is in the workshop     *)
(* exactly when none does: two events of a strand never run at once, and   *)
(* a worker is never lost.                                                 *)
(***************************************************************************)
OneThreadPerWorker ==
    \A w \in Workers :
        /\ \A s, t \in Threads : Holds(s, w) /\ Holds(t, w) => s = t
        /\ workshop[w] <=> ~ \E t \in Threads : Holds(t, w)

(***************************************************************************)
(* A thread that sleeps, or is about to, with no notification to wake it   *)
(* leaves none of its workers with events, unless whoever posted them is   *)
(* on its way to notify it.                                                *)
(***************************************************************************)
NoStrandedEvent ==
    \A w \in Workers :
        LET t == ThreadOf(w) IN
        pc[t] = "sleep" /\ cnt[t] = 0 /\ que[w] # <<>>
            => \E a \in Actors : note[a] # NoWorker /\ ThreadOf(note[a]) = t

(***************************************************************************)
(* Works done on worker w that its prior thread has yet to deduct: by the  *)
(* prior thread itself, until its tally; by thieves, until they report,    *)
(* and then in sworks_.                                                    *)
(***************************************************************************)
Tallying(t, w) == /\ cur[t] = w /\ level[t] = "prior"
                  /\ pc[t] \in {"pop", "handle", "give", "tally"}

PriorWorks(w) == IF Tallying(ThreadOf(w), w) THEN works[ThreadOf(w)] ELSE 0

Stealing(t, w) == /\ cur[t] = w /\ level[t] = "minor"
                  /\ pc[t] \in {"pop", "handle", "report"}

StolenWorks(w) == IF \E t \in Threads : Stealing(t, w)
                  THEN works[CHOOSE t \in Threads : Stealing(t, w)]
                  ELSE 0

Undeducted(w) == PriorWorks(w) + StolenWorks(w) + sworks[w]

(* Events pushed to w whose notification is still to come. *)
Unnotified(w) == Cardinality({a \in Actors : note[a] = w})

(* What w's thread expects or was notified of: stop() counts up cnt_ once   *)
(* without an event.                                                       *)
StopNotes(t) == IF halt > ThreadNum + t THEN 1 ELSE 0

Announced(w) == expected[w] + cnt[w] - StopNotes(w)

(***************************************************************************)
(* The books balance, whatever the order in which events are notified,     *)
(* handled, stolen and tallied: what a thread was told of or will be is    *)
(* what is queued for its worker, or done and not yet deducted.  Stated    *)
(* for one worker per thread, the default.                                 *)
(***************************************************************************)
Balance(w) == Announced(w) + Unnotified(w) = Len(que[w]) + Undeducted(w)

BooksBalance == \A w \in Workers : Balance(w)

(***************************************************************************)
(* The service implements StrandService: per strand, events run one at a   *)
(* time and in the order they were posted.                                 *)
(***************************************************************************)
Handling(t, w) == cur[t] = w /\ pc[t] = "handle"

RunningOn(w) == IF \E t \in Threads : Handling(t, w)
                THEN ev[CHOOSE t \in Threads : Handling(t, w)]
                ELSE NoEvent

Strand == INSTANCE StrandService WITH
              Strands <- Workers, pending <- que,
              running <- [w \in Workers |-> RunningOn(w)]

ImplementsStrands == Strand!SafeSpec

(***************************************************************************)
(* Unless the service is stopped, every event posted is started and ends.  *)
(***************************************************************************)
EventsRun == [](halt = 0) => Strand!Fairness

(***************************************************************************)
(* Once nobody posts any more, every thread goes to sleep for good, if it  *)
(* is not stopped: no thread goes on polling or spinning for events that   *)
(* others have handled.                                                    *)
(***************************************************************************)
Quiesces == [](halt = 0) => <>[](\A t \in Threads : pc[t] = "sleep" /\ cnt[t] = 0)

(***************************************************************************)
(* stop() ends every thread, wherever it is: run() can join them.          *)
(***************************************************************************)
StopEndsThreads == halt > 0 ~> \A t \in Threads : pc[t] = "exit"

(***************************************************************************)
(* What the comment of post() says: "Post a handler into background thread *)
(* pool to run": a worker's queue does not keep an event for ever.         *)
(***************************************************************************)
PostedRuns == \A w \in Workers : que[w] # <<>> ~> que[w] = <<>>
=============================================================================
