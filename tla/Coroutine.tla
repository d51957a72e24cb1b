------------------------------ MODULE Coroutine ------------------------------
(***************************************************************************)
(* The coroutines of asev (actorx/asev/detail/basic_corctx.hpp and         *)
(* spawn_event.hpp, with coctx::context).  A spawn event, when a thread    *)
(* handles it, takes a corctx from that thread's pool, gives it the        *)
(* handler and a context to run it in, and posts the corctx, which is      *)
(* itself an event, to the corctx's strand.  Handling a corctx jumps into  *)
(* its context; the coroutine jumps back when it yields, and to resume it  *)
(* is to post it again.  After its handler has returned it posts itself a  *)
(* last time, to be released to the pool once its stack is left.           *)
(*                                                                         *)
(* Threads and workers are used by what StrandService promises: a worker   *)
(* is run by one thread at a time and handles its events in order; the     *)
(* pools by what NodeStore promises.                                       *)
(***************************************************************************)
EXTENDS Naturals, Sequences, FiniteSets

CONSTANTS
    Threads,    \* threads of the service
    Workers,    \* its workers
    Coros,      \* the corctx objects there may be
    None,       \* a null pointer
    Sizes,      \* stack sizes asked for, numbers
    MaxSpawn,   \* bound: coroutines spawned in a behaviour
    MaxYields   \* bound: yields in a behaviour

ASSUME NoneAssumption  == None \notin Threads \cup Workers \cup Coros
ASSUME BoundAssumption == MaxSpawn \in Nat /\ MaxYields \in Nat /\ Sizes \subseteq Nat \ {0}

Handlers  == 1 .. MaxSpawn   \* numbered in the order they are spawned
NoHandler == 0

(* Events: to spawn a handler, or a corctx to be handled. *)
SpawnEvents == [handler : Handlers, size : Sizes]
Events      == SpawnEvents \cup Coros

ASSUME EventsAssumption == \A c \in Coros \cup {None} : c \notin SpawnEvents

VARIABLES
    que,      \* worker -> the events posted to it and not popped
    at,       \* thread -> the worker it runs, or None
    ev,       \* thread -> the event it handles, or None
    curr,     \* thread -> curr_corctx_ of its thrctx
    run,      \* thread -> the coroutine whose stack it is on, or None
    phase,    \* thread -> what that coroutine's code does next
    stop,     \* corctx -> stop_
    hdr,      \* corctx -> hdr_
    thrctx,   \* corctx -> thrctx_, as the thread it is of
    host,     \* corctx -> host_ctx_, as the thread it is of
    saved,    \* corctx -> where its context goes on when jumped to
    ssize,    \* corctx -> stack size of its context
    strand,   \* corctx -> the worker of its snd_
    home,     \* corctx -> the thread whose pool it comes from, None if not made
    pooled,   \* corctxs in their pools
    owed,     \* corctxs of which somebody has yet to call resume
    spawned,  \* how many handlers have been spawned
    yields,   \* how many times coroutines have yielded
    finished, \* history: handlers that have returned
    aborted   \* whether the process has been aborted

threadVars == <<at, ev, curr, run, phase>>
coroVars   == <<stop, hdr, thrctx, host, saved, ssize, strand, home, pooled>>
history    == <<spawned, yields, finished>>
vars == <<que, threadVars, coroVars, owed, history, aborted>>

Init == /\ que = [w \in Workers |-> <<>>]
        /\ at = [t \in Threads |-> None]
        /\ ev = [t \in Threads |-> None]
        /\ curr = [t \in Threads |-> None]
        /\ run = [t \in Threads |-> None]
        /\ phase = [t \in Threads |-> "code"]
        /\ stop = [c \in Coros |-> FALSE]
        /\ hdr = [c \in Coros |-> NoHandler]
        /\ thrctx = [c \in Coros |-> None]
        /\ host = [c \in Coros |-> None]
        /\ saved = [c \in Coros |-> "none"]
        /\ ssize = [c \in Coros |-> 0]
        /\ strand = [c \in Coros |-> None]
        /\ home = [c \in Coros |-> None]
        /\ pooled = {}
        /\ owed = {}
        /\ spawned = 0
        /\ yields = 0
        /\ finished = {}
        /\ aborted = FALSE

-----------------------------------------------------------------------------
(* Posting *)

Async(w, e) == que' = [que EXCEPT ![w] = Append(@, e)]

(* spawn of the service or of a strand, by anybody. *)
Spawn(w, size) ==
    /\ spawned < MaxSpawn
    /\ Async(w, [handler |-> spawned + 1, size |-> size])
    /\ spawned' = spawned + 1
    /\ UNCHANGED <<threadVars, coroVars, owed, yields, finished, aborted>>

(* Mutant: resume posts to any worker, as ev_service::async would. *)
Resume_AnyWorker(c) ==
    /\ c \in owed
    /\ owed' = owed \ {c}
    /\ \E w \in Workers : Async(w, c)
    /\ UNCHANGED <<threadVars, coroVars, history, aborted>>

(* Mutant: a coroutine that has not yielded yet is not resumed. *)
Resume_IfYielded(c) ==
    /\ c \in owed
    /\ owed' = owed \ {c}
    /\ IF saved[c] = "yield" THEN Async(strand[c], c) ELSE UNCHANGED que
    /\ UNCHANGED <<threadVars, coroVars, history, aborted>>

(* resume, by whoever the coroutine waits for: a timer, I/O, another one. *)
Resume(c) == /\ c \in owed
             /\ owed' = owed \ {c}
             /\ Async(strand[c], c)
             /\ UNCHANGED <<threadVars, coroVars, history, aborted>>

-----------------------------------------------------------------------------
(* Handling events *)

(* A thread takes a worker nobody runs and pops its next event. *)
Take(t, w) == /\ at[t] = None
              /\ \A u \in Threads : at[u] # w
              /\ que[w] # <<>>
              /\ at' = [at EXCEPT ![t] = w]
              /\ ev' = [ev EXCEPT ![t] = Head(que[w])]
              /\ que' = [que EXCEPT ![w] = Tail(@)]
              /\ UNCHANGED <<curr, run, phase, coroVars, owed, history, aborted>>

(* The event has been handled; the worker is free for any thread again. *)
Leave(t) == /\ at' = [at EXCEPT ![t] = None]
            /\ ev' = [ev EXCEPT ![t] = None]

(* cque::get: a corctx of the thread's pool, or a new one on some strand. *)
GetCorctx(t, c) ==
    LET mine == {d \in pooled : home[d] = t}
    IN \/ /\ c \in mine
          /\ pooled' = pooled \ {c}
          /\ UNCHANGED <<home, strand>>
       \/ /\ mine = {}
          /\ home[c] = None
          /\ home' = [home EXCEPT ![c] = t]
          /\ \E w \in Workers : strand' = [strand EXCEPT ![c] = w]
          /\ UNCHANGED pooled

(* A context is used again if its stack is large enough. *)
MakeContext(c, e) ==
    LET anew == saved[c] = "none" \/ ssize[c] < e.size
    IN /\ hdr' = [hdr EXCEPT ![c] = e.handler]
       /\ saved' = [saved EXCEPT ![c] = IF anew THEN "start" ELSE @]
       /\ ssize' = [ssize EXCEPT ![c] = IF anew THEN e.size ELSE @]

(* spawn_event::handle.  The new corctx is this thread's until it is posted. *)
HandleSpawn(t) == /\ ev[t] \in SpawnEvents
                  /\ \E c \in Coros :
                         /\ GetCorctx(t, c)
                         /\ stop' = [stop EXCEPT ![c] = FALSE]
                         /\ MakeContext(c, ev[t])
                         /\ Async(strand'[c], c)
                  /\ Leave(t)
                  /\ UNCHANGED <<curr, run, phase, thrctx, host, owed, history, aborted>>

(* Mutant: keeps the thread context of the first time. *)
SetHost_FirstThread(t, c) == /\ thrctx' = [thrctx EXCEPT ![c] = IF @ = None THEN t ELSE @]
                             /\ host' = [host EXCEPT ![c] = t]
                             /\ curr' = [curr EXCEPT ![t] = c]

SetHost(t, c) == /\ thrctx' = [thrctx EXCEPT ![c] = t]
                 /\ host' = [host EXCEPT ![c] = t]
                 /\ curr' = [curr EXCEPT ![t] = c]

(* Goes on where the context was left.  After the last yield there is       *)
(* nothing left to do but return to init_coctx, which aborts.               *)
Jump(t, c) == IF saved[c] = "end"
                THEN aborted' = TRUE /\ UNCHANGED <<run, phase, saved>>
                ELSE /\ run' = [run EXCEPT ![t] = c]
                     /\ phase' = [phase EXCEPT ![t] = "code"]
                     /\ saved' = [saved EXCEPT ![c] = "running"]
                     /\ UNCHANGED aborted

(* basic_corctx::handle: jumps into the context. *)
HandleCoro(t) == /\ ev[t] \in Coros
                 /\ ~ stop[ev[t]]
                 /\ SetHost(t, ev[t])
                 /\ Jump(t, ev[t])
                 /\ UNCHANGED <<que, at, ev, stop, hdr, ssize, strand, home, pooled, owed,
                                history>>

(* ... or releases a corctx that has ended to the pool it comes from. *)
Release(t) == /\ ev[t] \in Coros
              /\ stop[ev[t]]
              /\ pooled' = pooled \cup {ev[t]}
              /\ hdr' = [hdr EXCEPT ![ev[t]] = NoHandler]
              /\ thrctx' = [thrctx EXCEPT ![ev[t]] = None]
              /\ host' = [host EXCEPT ![ev[t]] = None]
              /\ Leave(t)
              /\ UNCHANGED <<que, curr, run, phase, stop, saved, ssize, strand, home, owed,
                             history, aborted>>

-----------------------------------------------------------------------------
(* On the coroutine's stack *)

(* The handler arranges to be resumed; it will yield next. *)
Arrange(t) == /\ run[t] # None
              /\ phase[t] = "code"
              /\ yields < MaxYields
              /\ yields' = yields + 1
              /\ owed' = owed \cup {run[t]}
              /\ phase' = [phase EXCEPT ![t] = "yield"]
              /\ UNCHANGED <<que, at, ev, curr, run, coroVars, spawned, finished, aborted>>

(* Mutant: releases the corctx at once, on its own stack. *)
Return_Release(t) ==
    /\ run[t] # None
    /\ phase[t] = "code"
    /\ finished' = finished \cup {hdr[run[t]]}
    /\ stop' = [stop EXCEPT ![run[t]] = TRUE]
    /\ pooled' = pooled \cup {run[t]}
    /\ phase' = [phase EXCEPT ![t] = "last yield"]
    /\ UNCHANGED <<que, at, ev, curr, run, hdr, thrctx, host, saved, ssize, strand, home,
                   owed, spawned, yields, aborted>>

(* The handler returns or throws: the coroutine ends and posts itself. *)
Return(t) == /\ run[t] # None
             /\ phase[t] = "code"
             /\ finished' = finished \cup {hdr[run[t]]}
             /\ stop' = [stop EXCEPT ![run[t]] = TRUE]
             /\ Async(strand[run[t]], run[t])
             /\ phase' = [phase EXCEPT ![t] = "last yield"]
             /\ UNCHANGED <<at, ev, curr, run, hdr, thrctx, host, saved, ssize, strand, home,
                            pooled, owed, spawned, yields, aborted>>

(* yield, half-way or at the end: leaves the thread its corctx believes it  *)
(* is on, and jumps to the host context.                                    *)
Yield(t) == /\ run[t] # None
            /\ phase[t] \in {"yield", "last yield"}
            /\ curr' = [curr EXCEPT ![thrctx[run[t]]] = None]
            /\ saved' = [saved EXCEPT ![run[t]] = IF phase[t] = "yield" THEN "yield" ELSE "end"]
            /\ run' = [run EXCEPT ![t] = None]
            /\ Leave(t)
            /\ UNCHANGED <<que, phase, stop, hdr, thrctx, host, ssize, strand, home, pooled,
                           owed, history, aborted>>

-----------------------------------------------------------------------------
Step(t) == \/ \E w \in Workers : Take(t, w)
           \/ run[t] = None /\ (HandleSpawn(t) \/ HandleCoro(t) \/ Release(t))
           \/ Arrange(t) \/ Return(t) \/ Yield(t)

Next == /\ ~ aborted
        /\ \/ \E w \in Workers, size \in Sizes : Spawn(w, size)
           \/ \E c \in Coros : Resume(c)
           \/ \E t \in Threads : Step(t)

Spec == Init /\ [][Next]_vars

(* Threads are scheduled, handlers go on and the resumes arranged are made. *)
FairSpec == /\ Spec
            /\ \A t \in Threads : WF_vars(~ aborted /\ Step(t))
            /\ \A c \in Coros : WF_vars(~ aborted /\ Resume(c))

-----------------------------------------------------------------------------
(* Correctness *)

TypeOK == /\ que \in [Workers -> Seq(Events)]
          /\ at \in [Threads -> Workers \cup {None}]
          /\ ev \in [Threads -> Events \cup {None}]
          /\ curr \in [Threads -> Coros \cup {None}]
          /\ run \in [Threads -> Coros \cup {None}]
          /\ phase \in [Threads -> {"code", "yield", "last yield"}]
          /\ stop \in [Coros -> BOOLEAN]
          /\ hdr \in [Coros -> Handlers \cup {NoHandler}]
          /\ thrctx \in [Coros -> Threads \cup {None}]
          /\ host \in [Coros -> Threads \cup {None}]
          /\ saved \in [Coros -> {"none", "start", "running", "yield", "end"}]
          /\ ssize \in [Coros -> Sizes \cup {0}]
          /\ strand \in [Coros -> Workers \cup {None}]
          /\ home \in [Coros -> Threads \cup {None}]
          /\ pooled \subseteq Coros
          /\ owed \subseteq Coros
          /\ spawned \in 0 .. MaxSpawn
          /\ yields \in 0 .. MaxYields
          /\ finished \subseteq Handlers
          /\ aborted \in BOOLEAN

(***************************************************************************)
(* A thread on a coroutine's stack is the one the coroutine will leave     *)
(* when it yields, and the one whose current coroutine it is: neither      *)
(* pointer is stale after the coroutine has moved to another thread.       *)
(***************************************************************************)
OnHost == \A t \in Threads :
              /\ run[t] # None => /\ host[run[t]] = t
                                  /\ thrctx[run[t]] = t
                                  /\ saved[run[t]] = "running"
              /\ aborted \/ curr[t] = run[t]

(***************************************************************************)
(* A corctx, a list node, is in one list at a time: in one place of one    *)
(* queue, or popped by one thread, or in its pool; and while somebody has  *)
(* yet to resume it, in none but that of the thread it runs on.            *)
(***************************************************************************)
Queued(c) == {p \in Workers \X (1 .. MaxSpawn + Cardinality(Coros)) :
                  p[2] <= Len(que[p[1]]) /\ que[p[1]][p[2]] = c}

OneList ==
    \A c \in Coros :
        /\ Cardinality(Queued(c)) + (IF c \in pooled \cup owed THEN 1 ELSE 0) <= 1
        /\ Cardinality({t \in Threads : ev[t] = c}) <= 1
        /\ c \in pooled => c \notin owed /\ \A t \in Threads : ev[t] # c

(***************************************************************************)
(* The coroutines implement SpawnService: no handler is run by two threads *)
(* at once, resumed out of turn or run after it has returned.              *)
(***************************************************************************)
QueuedEvents == UNION {{que[w][i] : i \in 1 .. Len(que[w])} : w \in Workers}
Entered(t)   == run[t] # None /\ phase[t] # "last yield"
Pending      == QueuedEvents \cup {ev[t] : t \in {u \in Threads : run[u] = None}}

Ready        == {e.handler : e \in Pending \cap SpawnEvents}
                  \cup {hdr[c] : c \in {d \in Pending \cap Coros : ~ stop[d]}}
Running      == {hdr[run[t]] : t \in {u \in Threads : Entered(u)}}

Service == INSTANCE SpawnService WITH
    ready <- Ready, running <- Running, spawned <- 1 .. spawned

ImplementsSpawns == Service!Spec

(***************************************************************************)
(* In the end every handler has returned and every corctx is in its pool,  *)
(* unless the process was aborted: no resume is lost, and none is          *)
(* forgotten because it came before the yield it answers.                  *)
(***************************************************************************)
Winds == <>[](\/ aborted
              \/ /\ finished = 1 .. spawned
                 /\ {c \in Coros : home[c] # None} = pooled)

(***************************************************************************)
(* A spawned coroutine runs its handler to the end.                        *)
(***************************************************************************)
SpawnedRuns == \A h \in Handlers : spawned >= h ~> h \in finished
=============================================================================
