--------------------------- MODULE EvServiceProofs ---------------------------
(***************************************************************************)
(* Safety of the scheduler for any number of threads, workers, posters and *)
(* events: a worker is run by one thread at a time, and therefore every     *)
(* step of the service is a step of StrandService or invisible to it; then, *)
(* with one worker per thread, no event is stranded.                        *)
(***************************************************************************)
EXTENDS EvService, FiniteSetTheorems, TLAPS

(* Pushes an event with a number that is not NoEvent; an event is handled  *)
(* exactly while the thread is in the handler; a visit has a worker.       *)
Events == Nat \ {NoEvent}

VisitsWorker == \A t \in Threads :
    pc[t] \in {"pop", "handle", "report", "give", "tally"} => cur[t] \in Workers

EventInHand == \A t \in Threads : pc[t] = "handle" => ev[t] \in Events

QueuedEvents == que \in [Workers -> Seq(Events)]

ControlInv == TypeOK /\ QueuedEvents /\ VisitsWorker /\ EventInHand /\ OneThreadPerWorker

(* A worker's notifications go to one of the service's threads. *)
LEMMA ThreadOfType == \A w \in Workers : ThreadOf(w) \in Threads
  BY NumAssumption DEF ThreadOf, Workers, Threads

(* The initial state satisfies the invariant. *)
LEMMA InitControlInv == Init => ControlInv
<1> SUFFICES ASSUME Init PROVE ControlInv
  OBVIOUS
<1> USE DEF Init
<1>1. TypeOK
  BY NumAssumption DEF TypeOK, PCs, NoEvent, NoWorker
<1>2. QueuedEvents /\ VisitsWorker /\ EventInHand
  BY DEF QueuedEvents, VisitsWorker, EventInHand
<1>3. OneThreadPerWorker
  BY DEF OneThreadPerWorker, Holds
<1> QED
  BY <1>1, <1>2, <1>3 DEF ControlInv

(* Each step keeps the variables' types. *)
LEMMA StepTypeOK == ControlInv /\ [Next]_vars => TypeOK'
<1> SUFFICES ASSUME ControlInv, [Next]_vars PROVE TypeOK'
  OBVIOUS
<1>0. TypeOK /\ VisitsWorker
  BY DEF ControlInv
<1> USE <1>0 DEF TypeOK, queueVars, threadVars
<1>1. ASSUME NEW a \in Actors, NEW w \in Workers, Push(a, w) PROVE TypeOK'
  BY <1>1, SMTT(30) DEF Push
<1>2. ASSUME NEW a \in Actors, Notify(a) PROVE TypeOK'
  BY <1>2, ThreadOfType, SMTT(30) DEF Notify
<1>3. ASSUME NEW t \in Threads, Run(t) PROVE TypeOK'
  <2>1. CASE Loop(t)
    <3>1. pc' \in [Threads -> PCs]
      BY <2>1 DEF Loop, Goto, PCs
    <3>2. polls' \in [Threads -> Nat]
      BY <2>1 DEF Loop
    <3> QED BY <2>1, <3>1, <3>2 DEF Loop
  <2>2. CASE PollAggressively(t)
    <3>1. pc' \in [Threads -> PCs]
      BY <2>2 DEF PollAggressively, Goto, PCs
    <3>2. (polls[t] + 1) % Aggressive \in Nat
      BY BoundAssumption
    <3>3. polls' \in [Threads -> Nat]
      BY <2>2, <3>2 DEF PollAggressively
    <3>4. cnt' \in [Threads -> Nat] /\ expected' \in [Threads -> Int]
      BY <2>2 DEF PollAggressively, TakeCount
    <3> QED BY <2>2, <3>1, <3>2, <3>3, <3>4 DEF PollAggressively, TakeCount
  <2>3. CASE PollModerately(t)
    <3>1. pc' \in [Threads -> PCs]
      BY <2>3 DEF PollModerately, Goto, PCs
    <3>2. cnt' \in [Threads -> Nat] /\ expected' \in [Threads -> Int]
      BY <2>3 DEF PollModerately, TakeCount
    <3> QED BY <2>3, <3>1, <3>2 DEF PollModerately, TakeCount
  <2>4. CASE Peek(t)
    <3>1. pc' \in [Threads -> PCs]
      BY <2>4 DEF Peek, Goto, PCs
    <3>2. (polls[t] + 1) % Moderate \in Nat
      BY BoundAssumption
    <3>3. polls' \in [Threads -> Nat]
      BY <2>4, <3>2 DEF Peek
    <3> QED BY <2>4, <3>1, <3>2, <3>3 DEF Peek
  <2>5. CASE Sleep(t)
    <3>1. pc' \in [Threads -> PCs]
      BY <2>5 DEF Sleep, Goto, PCs
    <3>2. cnt' \in [Threads -> Nat] /\ expected' \in [Threads -> Int]
      BY <2>5 DEF Sleep, TakeCount
    <3> QED BY <2>5, <3>1, <3>2 DEF Sleep, TakeCount
  <2>6. CASE DoJob(t)
    <3>1. pc' \in [Threads -> PCs]
      BY <2>6 DEF DoJob, Goto, PCs
    <3>2. Priors(t) \in SUBSET Workers
      BY DEF Priors
    <3>3. pworks' \in [Threads -> Nat]
      BY <2>6 DEF DoJob
    <3>4. level' \in [Threads -> {"prior", "minor"}] /\ todo' \in [Threads -> SUBSET Workers]
      BY <2>6, <3>2 DEF DoJob
    <3> QED BY <2>6, <3>1, <3>2, <3>3, <3>4 DEF DoJob
  <2>7. CASE Take(t)
    <3>1. PICK n \in todo[t] : Take(t)!(n)
      BY <2>7 DEF Take
    <3>2. n \in Workers
      BY <3>1
    <3>3. cur' \in [Threads -> Workers \cup {NoWorker}]
      BY <3>1, <3>2
    <3>4. todo' \in [Threads -> SUBSET Workers]
      BY <3>1
    <3>5. works' \in [Threads -> Nat]
      BY <3>1
    <3>6. workshop' \in [Workers -> BOOLEAN]
      BY <3>1, <3>2
    <3>7. pc' \in [Threads -> PCs]
      BY <3>1 DEF Goto, PCs
    <3> QED BY <3>1, <3>3, <3>4, <3>5, <3>6, <3>7
  <2>8. CASE NextLevel(t)
    <3>1. pc' \in [Threads -> PCs]
      BY <2>8 DEF NextLevel, Goto, PCs
    <3>2. Minors(t) \in SUBSET Workers
      BY DEF Minors
    <3>3. level' \in [Threads -> {"prior", "minor"}]
      BY <2>8 DEF NextLevel
    <3>4. todo' \in [Threads -> SUBSET Workers]
      BY <2>8, <3>2 DEF NextLevel
    <3> QED BY <2>8, <3>1, <3>2, <3>3, <3>4 DEF NextLevel
  <2>9. CASE PopEvent(t)
    <3>1. pc' \in [Threads -> PCs]
      BY <2>9 DEF PopEvent, Goto, PCs
    <3>2. cur[t] \in Workers /\ que[cur[t]] \in Seq(Nat) /\ que[cur[t]] # <<>>
      BY <2>9 DEF PopEvent, VisitsWorker
    <3>3. Head(que[cur[t]]) \in Nat /\ Tail(que[cur[t]]) \in Seq(Nat)
      BY <3>2
    <3>4. que' \in [Workers -> Seq(Nat)] /\ ev' \in [Threads -> Nat]
      BY <2>9, <3>2, <3>3 DEF PopEvent
    <3>5. works' \in [Threads -> Nat]
      BY <2>9 DEF PopEvent
    <3> QED BY <2>9, <3>1, <3>2, <3>3, <3>4, <3>5 DEF PopEvent
  <2>10. CASE EndEvent(t)
    <3>1. pc' \in [Threads -> PCs]
      BY <2>10 DEF EndEvent, Goto, PCs
    <3>2. ev' \in [Threads -> Nat]
      BY <2>10 DEF EndEvent, NoEvent
    <3> QED BY <2>10, <3>1, <3>2 DEF EndEvent
  <2>11. CASE PopNothing(t)
    <3>1. pc' \in [Threads -> PCs]
      BY <2>11 DEF PopNothing, Goto, PCs
    <3> QED BY <2>11, <3>1 DEF PopNothing
  <2>12. CASE ReportStolen(t)
    <3>1. pc' \in [Threads -> PCs]
      BY <2>12 DEF ReportStolen, Goto, PCs
    <3>2. cur[t] \in Workers
      BY <2>12 DEF ReportStolen, VisitsWorker
    <3>3. sworks' \in [Workers -> Nat]
      BY <2>12, <3>2 DEF ReportStolen
    <3> QED BY <2>12, <3>1, <3>2, <3>3 DEF ReportStolen
  <2>13. CASE GiveBack(t)
    <3>1. pc' \in [Threads -> PCs]
      BY <2>13 DEF GiveBack, Goto, PCs
    <3>2. workshop' \in [Workers -> BOOLEAN]
      BY <2>13 DEF GiveBack
    <3>3. cur' \in [Threads -> Workers \cup {NoWorker}]
      BY <2>13 DEF GiveBack
    <3> QED BY <2>13, <3>1, <3>2, <3>3 DEF GiveBack
  <2>14. CASE Tally(t)
    <3>1. pc' \in [Threads -> PCs]
      BY <2>14 DEF Tally, Goto, PCs
    <3>2. cur[t] \in Workers
      BY <2>14 DEF Tally, VisitsWorker
    <3>3. pworks' \in [Threads -> Nat]
      BY <2>14 DEF Tally
    <3>4. sworks' \in [Workers -> Nat]
      BY <2>14 DEF Tally
    <3>5. expected' \in [Threads -> Int]
      BY <2>14, <3>2, <3>3 DEF Tally
    <3>6. cur' \in [Threads -> Workers \cup {NoWorker}]
      BY <2>14 DEF Tally
    <3> QED BY <2>14, <3>1, <3>2, <3>3, <3>4, <3>5, <3>6 DEF Tally
  <2> QED BY <1>3, <2>1, <2>2, <2>3, <2>4, <2>5, <2>6, <2>7, <2>8, <2>9, <2>10,
             <2>11, <2>12, <2>13, <2>14 DEF Run
<1>4. CASE SetStop
  <2>1. halt' \in 0 .. 2 * ThreadNum
    BY <1>4, NumAssumption DEF SetStop
  <2>2. stop' \in [Threads -> BOOLEAN]
    BY <1>4 DEF SetStop
  <2> QED BY <1>4, <2>1, <2>2 DEF SetStop
<1>5. CASE WakeToStop
  <2>1. halt' \in 0 .. 2 * ThreadNum /\ halt - ThreadNum \in Threads
    BY <1>5, NumAssumption DEF WakeToStop, Threads
  <2>2. cnt' \in [Threads -> Nat]
    BY <1>5, <2>1 DEF WakeToStop
  <2> QED BY <1>5, <2>1, <2>2 DEF WakeToStop
<1>6. CASE UNCHANGED vars
  BY <1>6 DEF vars
<1> QED
  BY <1>1, <1>2, <1>3, <1>4, <1>5, <1>6 DEF Next

(* Queued events are numbered from 1, and a thread in a handler has one. *)
LEMMA StepEvents == ControlInv /\ [Next]_vars => QueuedEvents' /\ EventInHand'
<1> SUFFICES ASSUME ControlInv, [Next]_vars PROVE QueuedEvents' /\ EventInHand'
  OBVIOUS
<1>0. /\ pc \in [Threads -> PCs] /\ ev \in [Threads -> Nat]
      /\ posted \in Nat /\ VisitsWorker /\ QueuedEvents /\ EventInHand
  BY DEF ControlInv, TypeOK
<1> USE <1>0 DEF QueuedEvents, EventInHand, Events, NoEvent
<1>1. ASSUME NEW a \in Actors, NEW w \in Workers, Push(a, w)
      PROVE  QueuedEvents' /\ EventInHand'
  BY <1>1 DEF Push, threadVars
<1>2. ASSUME NEW t \in Threads, NEW l, l # "handle", Goto(t, l), UNCHANGED que,
             \A s \in Threads : s # t => ev'[s] = ev[s]
      PROVE  QueuedEvents' /\ EventInHand'
  BY <1>2 DEF Goto
<1>3. ASSUME NEW t \in Threads, Run(t) PROVE QueuedEvents' /\ EventInHand'
  <2> USE DEF queueVars
  <2>1. CASE Loop(t)              BY <1>2, <2>1 DEF Loop
  <2>2. CASE PollAggressively(t)  BY <1>2, <2>2 DEF PollAggressively, TakeCount
  <2>3. CASE PollModerately(t)    BY <1>2, <2>3 DEF PollModerately, TakeCount
  <2>4. CASE Peek(t)              BY <1>2, <2>4 DEF Peek
  <2>5. CASE Sleep(t)             BY <1>2, <2>5 DEF Sleep, TakeCount
  <2>6. CASE DoJob(t)             BY <1>2, <2>6 DEF DoJob
  <2>7. CASE Take(t)              BY <1>2, <2>7 DEF Take
  <2>8. CASE NextLevel(t)         BY <1>2, <2>8 DEF NextLevel
  <2>9. CASE PopEvent(t)
    <3>1. cur[t] \in Workers /\ que[cur[t]] \in Seq(Nat \ {0}) /\ que[cur[t]] # <<>>
      BY <2>9 DEF PopEvent, VisitsWorker
    <3>2. Head(que[cur[t]]) \in Nat \ {0} /\ Tail(que[cur[t]]) \in Seq(Nat \ {0})
      BY <3>1
    <3> QED BY <2>9, <3>1, <3>2 DEF PopEvent, Goto
  <2>10. CASE EndEvent(t)         BY <1>2, <2>10 DEF EndEvent
  <2>11. CASE PopNothing(t)       BY <1>2, <2>11 DEF PopNothing
  <2>12. CASE ReportStolen(t)     BY <1>2, <2>12 DEF ReportStolen
  <2>13. CASE GiveBack(t)         BY <1>2, <2>13 DEF GiveBack
  <2>14. CASE Tally(t)            BY <1>2, <2>14 DEF Tally
  <2> QED BY <1>3, <2>1, <2>2, <2>3, <2>4, <2>5, <2>6, <2>7, <2>8, <2>9, <2>10,
             <2>11, <2>12, <2>13, <2>14 DEF Run
<1>4. ASSUME UNCHANGED <<que, pc, ev>> PROVE QueuedEvents' /\ EventInHand'
  BY <1>4
<1> QED
  BY <1>1, <1>3, <1>4 DEF Next, vars, Notify, SetStop, WakeToStop, threadVars, queueVars

(* A thread gets a worker to visit before it visits it. *)
LEMMA StepVisits == ControlInv /\ [Next]_vars => VisitsWorker'
<1> SUFFICES ASSUME ControlInv, [Next]_vars PROVE VisitsWorker'
  OBVIOUS
<1>0. /\ pc \in [Threads -> PCs] /\ VisitsWorker
      /\ cur \in [Threads -> Workers \cup {NoWorker}]
      /\ level \in [Threads -> {"prior", "minor"}]
      /\ todo \in [Threads -> SUBSET Workers]
      /\ workshop \in [Workers -> BOOLEAN]
  BY DEF ControlInv, TypeOK
<1> USE <1>0 DEF VisitsWorker
<1>1. ASSUME UNCHANGED <<pc, cur>> PROVE VisitsWorker'
  BY <1>1
<1>2. ASSUME NEW t \in Threads, NEW l, Goto(t, l),
             l \notin {"pop", "handle", "report", "give", "tally"},
             \A s \in Threads : s # t => cur'[s] = cur[s]
      PROVE  VisitsWorker'
  BY <1>2 DEF Goto
<1>3. ASSUME NEW t \in Threads, NEW l, Goto(t, l), UNCHANGED cur,
             pc[t] \in {"pop", "handle", "report", "give", "tally"}
      PROVE  VisitsWorker'
  BY <1>3 DEF Goto
<1>4. ASSUME NEW t \in Threads, Run(t) PROVE VisitsWorker'
  <2>1. CASE Loop(t)              BY <1>2, <2>1 DEF Loop
  <2>2. CASE PollAggressively(t)  BY <1>2, <2>2 DEF PollAggressively, TakeCount
  <2>3. CASE PollModerately(t)    BY <1>2, <2>3 DEF PollModerately, TakeCount
  <2>4. CASE Peek(t)              BY <1>2, <2>4 DEF Peek
  <2>5. CASE Sleep(t)             BY <1>2, <2>5 DEF Sleep, TakeCount
  <2>6. CASE DoJob(t)             BY <1>2, <2>6 DEF DoJob
  <2>7. CASE Take(t)              BY <2>7 DEF Take, Goto
  <2>8. CASE NextLevel(t)         BY <1>1, <1>2, <2>8 DEF NextLevel
  <2>9. CASE PopEvent(t)          BY <1>3, <2>9 DEF PopEvent
  <2>10. CASE EndEvent(t)         BY <1>3, <2>10 DEF EndEvent
  <2>11. CASE PopNothing(t)       BY <1>3, <2>11 DEF PopNothing
  <2>12. CASE ReportStolen(t)     BY <1>3, <2>12 DEF ReportStolen
  <2>13. CASE GiveBack(t)         BY <1>2, <1>3, <2>13 DEF GiveBack
  <2>14. CASE Tally(t)            BY <1>2, <2>14 DEF Tally
  <2> QED BY <1>4, <2>1, <2>2, <2>3, <2>4, <2>5, <2>6, <2>7, <2>8, <2>9, <2>10,
             <2>11, <2>12, <2>13, <2>14 DEF Run
<1> QED
  BY <1>1, <1>4 DEF Next, vars, Push, Notify, SetStop, WakeToStop, threadVars

(* A step that takes no worker and gives none back disturbs nothing.       *)
LEMMA SameHolders ==
  ASSUME OneThreadPerWorker, workshop' = workshop,
         \A s \in Threads, w \in Workers : Holds(s, w)' <=> Holds(s, w)
  PROVE  OneThreadPerWorker'
  BY DEF OneThreadPerWorker

(* The exchange in Take gives the worker to one thread; only that thread    *)
(* puts it back.                                                            *)
LEMMA StepOneThread == ControlInv /\ [Next]_vars => OneThreadPerWorker'
<1> SUFFICES ASSUME ControlInv, [Next]_vars PROVE OneThreadPerWorker'
  OBVIOUS
<1>0. /\ pc \in [Threads -> PCs] /\ cur \in [Threads -> Workers \cup {NoWorker}]
      /\ workshop \in [Workers -> BOOLEAN]
      /\ todo \in [Threads -> SUBSET Workers]
      /\ VisitsWorker /\ OneThreadPerWorker
  BY DEF ControlInv, TypeOK
<1>1. ASSUME UNCHANGED <<pc, cur, workshop>> PROVE OneThreadPerWorker'
  BY <1>0, <1>1, SameHolders DEF Holds
<1>2. ASSUME NEW t \in Threads, NEW l, UNCHANGED <<cur, workshop>>, Goto(t, l),
             pc[t] \in {"pop", "handle", "report", "give"}
               <=> l \in {"pop", "handle", "report", "give"}
      PROVE  OneThreadPerWorker'
  <2>1. \A s \in Threads, w \in Workers : Holds(s, w)' <=> Holds(s, w)
    BY <1>0, <1>2 DEF Holds, Goto
  <2> QED BY <1>0, <1>2, <2>1, SameHolders
<1>3. ASSUME NEW t \in Threads, Run(t) PROVE OneThreadPerWorker'
  <2>1. CASE Loop(t)              BY <1>2, <2>1 DEF Loop
  <2>2. CASE PollAggressively(t)  BY <1>2, <2>2 DEF PollAggressively, TakeCount
  <2>3. CASE PollModerately(t)    BY <1>2, <2>3 DEF PollModerately, TakeCount
  <2>4. CASE Peek(t)              BY <1>2, <2>4 DEF Peek
  <2>5. CASE Sleep(t)             BY <1>2, <2>5 DEF Sleep, TakeCount
  <2>6. CASE DoJob(t)             BY <1>2, <2>6 DEF DoJob
  <2>7. CASE Take(t)
    <3>1. PICK n \in todo[t] :
            /\ pc[t] = "take"
            /\ workshop' = [workshop EXCEPT ![n] = FALSE]
            /\ cur' = [cur EXCEPT ![t] = IF ~workshop[n] /\ level[t] = "minor"
                                         THEN NoWorker ELSE n]
            /\ Goto(t, IF workshop[n] THEN "pop"
                       ELSE IF level[t] = "prior" THEN "tally" ELSE "take")
      BY <2>7 DEF Take
    <3>2. n \in Workers
      BY <1>0
    <3>3. CASE workshop[n]
      <4>1. \A s \in Threads, w \in Workers :
              Holds(s, w)' <=> Holds(s, w) \/ (s = t /\ w = n)
        BY <1>0, <3>1, <3>2, <3>3 DEF Holds, Goto
      <4>2. \A w \in Workers : workshop'[w] <=> workshop[w] /\ w # n
        BY <1>0, <3>1
      <4>3. \A s \in Threads : ~ Holds(s, n)
        BY <1>0, <3>2, <3>3 DEF OneThreadPerWorker
      <4> QED BY <1>0, <3>2, <4>1, <4>2, <4>3 DEF OneThreadPerWorker
    <3>4. CASE ~ workshop[n]
      <4>1. \A s \in Threads, w \in Workers : Holds(s, w)' <=> Holds(s, w)
        BY <1>0, <3>1, <3>2, <3>4 DEF Holds, Goto
      <4>2. workshop' = workshop
        BY <1>0, <3>1, <3>2, <3>4
      <4> QED BY <1>0, <4>1, <4>2, SameHolders
    <3> QED BY <3>3, <3>4
  <2>8. CASE NextLevel(t)
    BY <1>1, <1>2, <2>8 DEF NextLevel
  <2>9. CASE PopEvent(t)          BY <1>2, <2>9 DEF PopEvent
  <2>10. CASE EndEvent(t)         BY <1>2, <2>10 DEF EndEvent
  <2>11. CASE PopNothing(t)       BY <1>2, <2>11 DEF PopNothing
  <2>12. CASE ReportStolen(t)     BY <1>2, <2>12 DEF ReportStolen
  <2>13. CASE GiveBack(t)
    <3>1. Holds(t, cur[t]) /\ cur[t] \in Workers
      BY <1>0, <2>13 DEF GiveBack, Holds, VisitsWorker
    <3>2. \A s \in Threads, w \in Workers : Holds(s, w)' <=> Holds(s, w) /\ s # t
      BY <1>0, <2>13 DEF GiveBack, Holds, Goto
    <3>3. \A w \in Workers : workshop'[w] <=> workshop[w] \/ w = cur[t]
      BY <1>0, <2>13 DEF GiveBack
    <3>4. \A s \in Threads, w \in Workers : Holds(s, w) /\ s = t => w = cur[t]
      BY DEF Holds
    <3> QED BY <1>0, <3>1, <3>2, <3>3, <3>4 DEF OneThreadPerWorker
  <2>14. CASE Tally(t)
    <3>1. \A s \in Threads, w \in Workers : Holds(s, w)' <=> Holds(s, w)
      BY <1>0, <2>14 DEF Tally, Holds, Goto
    <3> QED BY <1>0, <2>14, <3>1, SameHolders DEF Tally
  <2> QED BY <1>3, <2>1, <2>2, <2>3, <2>4, <2>5, <2>6, <2>7, <2>8, <2>9, <2>10,
             <2>11, <2>12, <2>13, <2>14 DEF Run
<1> QED
  BY <1>1, <1>3 DEF Next, vars, Push, Notify, SetStop, WakeToStop, threadVars

(* ControlInv is an inductive invariant of the service. *)
THEOREM ControlInvariance == Spec => []ControlInv
<1>1. Init => ControlInv
  BY InitControlInv
<1>2. ControlInv /\ [Next]_vars => ControlInv'
  BY StepTypeOK, StepEvents, StepVisits, StepOneThread DEF ControlInv
<1> QED
  BY <1>1, <1>2, PTL DEF Spec

(* Type correctness of the service: every thread is at a place of its loop, *)
(* with a worker or none and an event or none, also while others post, stop *)
(* it and steal from it (ev_service).                                       *)
THEOREM TypeOKHolds == Spec => []TypeOK
  BY ControlInvariance, PTL DEF ControlInv

(* Whatever the numbers of threads and workers, with or without stealing,  *)
(* two threads never run the same worker and no worker is lost.            *)
THEOREM OneThreadPerWorkerHolds == Spec => []OneThreadPerWorker
  BY ControlInvariance, PTL DEF ControlInv
-----------------------------------------------------------------------------
(* stop() *)

(* The flags are set in order; who sleeps has been counted up to wake it if *)
(* stop() has come to it.                                                   *)
StopReaches(t) == /\ stop[t] <=> t < halt
                  /\ pc[t] = "sleep" /\ halt > ThreadNum + t => cnt[t] > 0

StopInv == \A t \in Threads : StopReaches(t)

LEMMA StepStop == ControlInv /\ StopInv /\ [Next]_vars => StopInv'
<1> SUFFICES ASSUME ControlInv, StopInv, [Next]_vars, NEW t \in Threads
             PROVE  StopReaches(t)'
  BY DEF StopInv
<1> USE DEF StopReaches
<1>0. /\ ThreadNum \in Nat \ {0} /\ t \in 0 .. ThreadNum - 1 /\ halt \in 0 .. 2 * ThreadNum
      /\ pc \in [Threads -> PCs] /\ cnt \in [Threads -> Nat] /\ stop \in [Threads -> BOOLEAN]
      /\ StopReaches(t)
  BY NumAssumption DEF ControlInv, TypeOK, StopInv, Threads
<1>1. ASSUME UNCHANGED <<stop, halt>>, pc'[t] = pc[t], cnt'[t] \in Nat, cnt'[t] >= cnt[t]
      PROVE  StopReaches(t)'
  BY <1>0, <1>1
<1>2. ASSUME UNCHANGED <<stop, halt>>, pc'[t] # "sleep" PROVE StopReaches(t)'
  BY <1>0, <1>2
<1>3. ASSUME NEW a \in Actors, Notify(a) PROVE StopReaches(t)'
  <2>1. note[a] \in Workers
    BY <1>3 DEF Notify, ControlInv, TypeOK
  <2>2. cnt'[t] \in Nat /\ cnt'[t] >= cnt[t]
    BY <1>0, <1>3, <2>1, ThreadOfType DEF Notify
  <2> QED
    BY <1>1, <1>3, <2>2 DEF Notify, threadVars
<1>4. CASE SetStop
  BY <1>0, <1>4 DEF SetStop, threadVars, Threads
<1>5. CASE WakeToStop
  <2>1. /\ halt - ThreadNum \in Threads /\ halt' = halt + 1 /\ stop' = stop /\ pc' = pc
        /\ cnt' = [cnt EXCEPT ![halt - ThreadNum] = @ + 1]
    BY <1>0, <1>5 DEF WakeToStop, threadVars, Threads
  <2>2. stop'[t] <=> t < halt'
    BY <1>0, <1>5, <2>1 DEF WakeToStop
  <2>3. CASE halt = ThreadNum + t
    BY <1>0, <2>1, <2>2, <2>3
  <2>4. CASE halt # ThreadNum + t
    BY <1>0, <2>1, <2>2, <2>4
  <2> QED
    BY <2>3, <2>4
<1>6. ASSUME NEW s \in Threads, Run(s), s # t PROVE StopReaches(t)'
  <2>1. pc'[t] = pc[t] /\ cnt'[t] = cnt[t] /\ stop' = stop /\ halt' = halt
    BY <1>0, <1>6 DEF Run, Loop, PollAggressively, PollModerately, Peek, Sleep, DoJob, Take,
       NextLevel, PopEvent, EndEvent, PopNothing, ReportStolen, GiveBack, Tally, TakeCount, Goto
  <2> QED
    BY <1>0, <1>1, <2>1
<1>7. CASE Peek(t)
  BY <1>0, <1>7 DEF Peek, Goto
<1>8. CASE Run(t) /\ ~Peek(t)
  <2>1. pc'[t] # "sleep" /\ stop' = stop /\ halt' = halt
    BY <1>0, <1>8 DEF Run, Loop, PollAggressively, PollModerately, Sleep, DoJob, Take,
       NextLevel, PopEvent, EndEvent, PopNothing, ReportStolen, GiveBack, Tally, TakeCount, Goto
  <2> QED
    BY <1>2, <2>1
<1>9. CASE UNCHANGED <<pc, cnt, stop, halt>>
  BY <1>0, <1>1, <1>9
<1> QED
  BY <1>3, <1>4, <1>5, <1>6, <1>7, <1>8, <1>9 DEF Next, vars, Push, threadVars

(* What StopEndsThreads rests on: a thread that sleeps although it is to    *)
(* stop, with nothing counted up to wake it, is one that stop() has yet to  *)
(* come to.  So no thread goes to sleep behind its wakeup, whatever it did  *)
(* when its flag was set (stop, trun).                                      *)
NoSleepThroughStop ==
    \A t \in Threads : stop[t] /\ pc[t] = "sleep" /\ cnt[t] = 0
                           => halt > t /\ halt <= ThreadNum + t

THEOREM NoSleepThroughStopHolds == Spec => []NoSleepThroughStop
<1>1. Init => StopInv
  BY NumAssumption DEF Init, StopInv, StopReaches, Threads
<1>2. ControlInv /\ StopInv => NoSleepThroughStop
  <2> SUFFICES ASSUME ControlInv, StopInv, NEW t \in Threads,
                      stop[t], pc[t] = "sleep", cnt[t] = 0
               PROVE  halt > t /\ halt <= ThreadNum + t
    BY DEF NoSleepThroughStop
  <2>1. ThreadNum \in Nat /\ t \in Int /\ halt \in Int
    BY NumAssumption DEF ControlInv, TypeOK, Threads
  <2> QED
    BY <2>1 DEF StopInv, StopReaches
<1> QED
  BY <1>1, <1>2, StepStop, ControlInvariance, PTL DEF Spec
-----------------------------------------------------------------------------
(* Refinement of StrandService *)

(* The event a strand runs is the one in the hands of the thread that has  *)
(* its worker.                                                             *)
RunningIsInHand ==
    \A w \in Workers, t \in Threads : Handling(t, w) => RunningOn(w) = ev[t]

LEMMA RunningIs == OneThreadPerWorker => RunningIsInHand
<1> SUFFICES ASSUME OneThreadPerWorker, NEW w \in Workers, NEW t \in Threads,
                    Handling(t, w)
             PROVE  RunningOn(w) = ev[t]
  BY DEF RunningIsInHand
<1> DEFINE s == CHOOSE s \in Threads : Handling(s, w)
<1>1. s \in Threads /\ Handling(s, w)
  OBVIOUS
<1>2. s = t
  BY <1>1 DEF OneThreadPerWorker, Holds, Handling
<1> QED BY <1>1, <1>2 DEF RunningOn

(* The same after a step. *)
LEMMA RunningIsNext == OneThreadPerWorker' => RunningIsInHand'
  BY RunningIs, PTL

(* A step that neither starts nor ends a handler changes no strand's event. *)
LEMMA RunningUnchanged ==
  ASSUME OneThreadPerWorker, OneThreadPerWorker', NEW w \in Workers,
         \A s \in Threads : Handling(s, w)' <=> Handling(s, w),
         \A s \in Threads : Handling(s, w) => ev'[s] = ev[s]
  PROVE  RunningOn(w)' = RunningOn(w)
<1>1. CASE \E t \in Threads : Handling(t, w)
  <2> PICK t \in Threads : Handling(t, w)
    BY <1>1
  <2>1. RunningOn(w) = ev[t] /\ RunningOn(w)' = ev'[t]
    BY RunningIs, RunningIsNext DEF RunningIsInHand
  <2> QED BY <2>1
<1>2. CASE ~ \E t \in Threads : Handling(t, w)
  BY <1>2 DEF RunningOn
<1> QED BY <1>1, <1>2

(* Pushing an event posts it, popping it starts it, and the handler's      *)
(* return finishes it; all else is invisible to the strands.               *)
LEMMA StepRefines ==
  ControlInv /\ ControlInv' /\ [Next]_vars => [Strand!Next]_(Strand!vars)
<1> SUFFICES ASSUME ControlInv, ControlInv', [Next]_vars
             PROVE  [Strand!Next]_(Strand!vars)
  OBVIOUS
<1>0. /\ pc \in [Threads -> PCs] /\ cur \in [Threads -> Workers \cup {NoWorker}]
      /\ ev \in [Threads -> Nat] /\ que \in [Workers -> Seq(Events)]
      /\ VisitsWorker /\ EventInHand /\ OneThreadPerWorker /\ OneThreadPerWorker'
  BY DEF ControlInv, TypeOK, QueuedEvents
<1> DEFINE run == [w \in Workers |-> RunningOn(w)]
<1>a. ASSUME UNCHANGED <<pc, cur, ev>> PROVE run' = run
  BY <1>0, <1>a, RunningUnchanged DEF Handling
<1>b. ASSUME NEW t \in Threads, NEW l, pc[t] # "handle", l # "handle", Goto(t, l),
             UNCHANGED ev, \A s \in Threads : s # t => cur'[s] = cur[s]
      PROVE  run' = run
  <2>1. \A w \in Workers, s \in Threads : Handling(s, w)' <=> Handling(s, w)
    BY <1>0, <1>b DEF Handling, Goto
  <2> QED BY <1>0, <1>b, <2>1, RunningUnchanged
<1>1. ASSUME NEW a \in Actors, NEW w \in Workers, Push(a, w)
      PROVE  [Strand!Next]_(Strand!vars)
  <2>1. run' = run
    BY <1>1, <1>a DEF Push, threadVars
  <2>2. Strand!Post(w)
    BY <1>1, <2>1 DEF Push, Strand!Post
  <2> QED BY <2>2 DEF Strand!Next
<1>2. ASSUME NEW t \in Threads, Run(t) PROVE [Strand!Next]_(Strand!vars)
  <2> USE DEF Strand!vars, queueVars
  <2>1. CASE Loop(t)              BY <1>b, <2>1 DEF Loop
  <2>2. CASE PollAggressively(t)  BY <1>b, <2>2 DEF PollAggressively, TakeCount
  <2>3. CASE PollModerately(t)    BY <1>b, <2>3 DEF PollModerately, TakeCount
  <2>4. CASE Peek(t)              BY <1>b, <2>4 DEF Peek
  <2>5. CASE Sleep(t)             BY <1>b, <2>5 DEF Sleep, TakeCount
  <2>6. CASE DoJob(t)             BY <1>b, <2>6 DEF DoJob
  <2>7. CASE Take(t)
    <3>1. run' = run
      BY <1>0, <1>b, <2>7 DEF Take
    <3> QED BY <2>7, <3>1 DEF Take
  <2>8. CASE NextLevel(t)         BY <1>a, <1>b, <2>8 DEF NextLevel
  <2>9. CASE PopEvent(t)
    <3> PICK w \in Workers : w = cur[t]
      BY <1>0, <2>9 DEF PopEvent, VisitsWorker
    <3>1. pc[t] = "pop" /\ Holds(t, w)
      BY <1>0, <2>9 DEF PopEvent, Holds
    <3>2. \A s \in Threads : ~ Handling(s, w)
      BY <1>0, <3>1 DEF OneThreadPerWorker, Holds, Handling
    <3>3. RunningOn(w) = NoEvent
      BY <3>2 DEF RunningOn
    <3>4. Handling(t, w)' /\ ev'[t] = Head(que[w])
      BY <1>0, <2>9 DEF PopEvent, Handling, Goto
    <3>5. RunningOn(w)' = Head(que[w])
      BY <1>0, <3>1, <3>4, RunningIsNext DEF RunningIsInHand
    <3>6. ASSUME NEW v \in Workers, v # w PROVE RunningOn(v)' = RunningOn(v)
      <4>1. \A s \in Threads : Handling(s, v)' <=> Handling(s, v)
        BY <1>0, <2>9, <3>6 DEF PopEvent, Handling, Goto
      <4>2. \A s \in Threads : Handling(s, v) => ev'[s] = ev[s]
        BY <1>0, <2>9, <3>6 DEF PopEvent, Handling
      <4> QED BY <1>0, <4>1, <4>2, RunningUnchanged
    <3>7. run' = [run EXCEPT ![w] = Head(que[w])]
      BY <3>1, <3>5, <3>6
    <3>8. Strand!Start(w)
      BY <2>9, <3>1, <3>3, <3>7 DEF PopEvent, Strand!Start, Strand!NoEvent, NoEvent
    <3> QED BY <3>1, <3>8 DEF Strand!Next
  <2>10. CASE EndEvent(t)
    <3> PICK w \in Workers : w = cur[t]
      BY <1>0, <2>10 DEF EndEvent, VisitsWorker
    <3>1. pc[t] = "handle" /\ Handling(t, w) /\ Holds(t, w)
      BY <1>0, <2>10 DEF EndEvent, Holds, Handling
    <3>2. RunningOn(w) = ev[t] /\ ev[t] # NoEvent
      BY <1>0, <3>1, RunningIs DEF EventInHand, Events, RunningIsInHand
    <3>3. \A s \in Threads : ~ Handling(s, w)'
      BY <1>0, <2>10, <3>1 DEF EndEvent, Goto, OneThreadPerWorker, Holds, Handling
    <3>4. RunningOn(w)' = NoEvent
      BY <3>3 DEF RunningOn
    <3>5. ASSUME NEW v \in Workers, v # w PROVE RunningOn(v)' = RunningOn(v)
      <4>1. \A s \in Threads : Handling(s, v)' <=> Handling(s, v)
        BY <1>0, <2>10, <3>5 DEF EndEvent, Handling, Goto
      <4>2. \A s \in Threads : Handling(s, v) => ev'[s] = ev[s]
        BY <1>0, <2>10, <3>5 DEF EndEvent, Handling
      <4> QED BY <1>0, <4>1, <4>2, RunningUnchanged
    <3>6. run' = [run EXCEPT ![w] = NoEvent]
      BY <3>1, <3>4, <3>5
    <3>7. Strand!Finish(w)
      BY <2>10, <3>1, <3>2, <3>6 DEF EndEvent, Strand!Finish, Strand!NoEvent, NoEvent
    <3> QED BY <3>1, <3>7 DEF Strand!Next
  <2>11. CASE PopNothing(t)       BY <1>b, <2>11 DEF PopNothing
  <2>12. CASE ReportStolen(t)     BY <1>b, <2>12 DEF ReportStolen
  <2>13. CASE GiveBack(t)
    <3>1. CASE level[t] = "prior"
      BY <1>b, <2>13, <3>1 DEF GiveBack
    <3>2. CASE level[t] # "prior"
      <4>1. run' = run
        BY <1>0, <1>b, <2>13, <3>2 DEF GiveBack
      <4> QED BY <2>13, <4>1 DEF GiveBack
    <3> QED BY <3>1, <3>2
  <2>14. CASE Tally(t)
    <3>1. run' = run
      BY <1>0, <1>b, <2>14 DEF Tally
    <3> QED BY <2>14, <3>1 DEF Tally
  <2> QED BY <1>2, <2>1, <2>2, <2>3, <2>4, <2>5, <2>6, <2>7, <2>8, <2>9, <2>10,
             <2>11, <2>12, <2>13, <2>14 DEF Run
<1>3. ASSUME UNCHANGED <<pc, cur, ev, que, posted>> PROVE [Strand!Next]_(Strand!vars)
  BY <1>a, <1>3 DEF Strand!vars
<1> QED
  BY <1>1, <1>2, <1>3 DEF Next, vars, Notify, SetStop, WakeToStop, threadVars, queueVars

(* Per strand, events run one at a time and in the order they were posted,  *)
(* whatever the numbers of threads, workers and posters: the safety half    *)
(* of StrandService, which is all a service that may be stopped promises.   *)
THEOREM StrandsRefined == Spec => ImplementsStrands
<1>1. Init => Strand!Init
  BY DEF Init, Strand!Init, RunningOn, Handling, Strand!NoEvent, NoEvent
<1> QED
  BY <1>1, StepRefines, ControlInvariance, PTL
  DEF Spec, ImplementsStrands, Strand!SafeSpec

-----------------------------------------------------------------------------
(***************************************************************************)
(* A service with one worker per thread, the default, keeps its books: a   *)
(* thread's expectation, its notifications and its workers' events always  *)
(* balance, and so no event is stranded while its thread sleeps.           *)
(***************************************************************************)

(* Threads and workers correspond. *)
OneWorkerEach == WorkerNum = ThreadNum

(* A thread visits its own worker as prior, the others as minor, and has   *)
(* no worker between visits.                                               *)
Visiting(t) == pc[t] \in {"pop", "handle", "report", "give", "tally"}

VisitLevels == \A t \in Threads :
    /\ Visiting(t) => (level[t] = "prior" <=> cur[t] = t)
    /\ ~ Visiting(t) => cur[t] = NoWorker
    /\ pc[t] = "report" => level[t] = "minor"
    /\ pc[t] = "tally" => level[t] = "prior"

TodoLevels == \A t \in Threads :
    /\ level[t] = "prior" => todo[t] \subseteq {t}
    /\ level[t] = "minor" => t \notin todo[t]

(* pworks, which each tally deducts as it is so far, is 0 before the only  *)
(* tally of a round.                                                       *)
FirstTally == \A t \in Threads :
    /\ level[t] = "prior" /\ Visiting(t) => todo[t] = {} /\ pworks[t] = 0
    /\ level[t] = "prior" /\ pc[t] = "take" /\ todo[t] # {} => pworks[t] = 0

(* A thread polls, and goes to sleep, only if it expects nothing. *)
ExpectsNothing == \A t \in Threads :
    pc[t] \in {"aggressive", "moderate", "peek", "sleep"} => expected[t] <= 0

RoundInv == ControlInv /\ VisitLevels /\ TodoLevels /\ FirstTally /\ ExpectsNothing

IInv == RoundInv /\ BooksBalance

(* With as many workers as threads, the worker of a thread is its namesake. *)
LEMMA Namesakes ==
  OneWorkerEach => /\ Workers = Threads
                   /\ \A w \in Workers : ThreadOf(w) = w
                   /\ \A t \in Threads : Priors(t) = {t} /\ t \notin Minors(t)
<1> SUFFICES ASSUME OneWorkerEach
             PROVE  /\ Workers = Threads
                    /\ \A w \in Workers : ThreadOf(w) = w
                    /\ \A t \in Threads : Priors(t) = {t} /\ t \notin Minors(t)
  OBVIOUS
<1>1. Workers = Threads
  BY DEF OneWorkerEach, Workers, Threads
<1>2. \A w \in Workers : ThreadOf(w) = w
  BY NumAssumption DEF OneWorkerEach, Workers, ThreadOf
<1>3. \A t \in Threads : Priors(t) = {t} /\ t \notin Minors(t)
  BY <1>1, <1>2 DEF Priors, Minors
<1> QED BY <1>1, <1>2, <1>3

(* The initial state satisfies the round invariant. *)
LEMMA InitRoundInv == Init => RoundInv
<1> SUFFICES ASSUME Init PROVE RoundInv
  OBVIOUS
<1>1. ControlInv
  BY InitControlInv
<1>2. VisitLevels /\ TodoLevels /\ FirstTally /\ ExpectsNothing
  BY DEF Init, VisitLevels, TodoLevels, FirstTally, ExpectsNothing, Visiting
<1> QED BY <1>1, <1>2 DEF RoundInv

(* Every step of a thread keeps its round in order; no other step is part  *)
(* of a round.                                                             *)
LEMMA StepRound ==
  OneWorkerEach /\ RoundInv /\ [Next]_vars
    => VisitLevels' /\ TodoLevels' /\ FirstTally' /\ ExpectsNothing'
<1> SUFFICES ASSUME OneWorkerEach, RoundInv, [Next]_vars
             PROVE  VisitLevels' /\ TodoLevels' /\ FirstTally' /\ ExpectsNothing'
  OBVIOUS
<1>0. /\ pc \in [Threads -> PCs] /\ cur \in [Threads -> Workers \cup {NoWorker}]
      /\ level \in [Threads -> {"prior", "minor"}]
      /\ todo \in [Threads -> SUBSET Workers]
      /\ expected \in [Threads -> Int] /\ pworks \in [Threads -> Nat]
      /\ cnt \in [Threads -> Nat] /\ NoWorker \notin Workers
  BY DEF RoundInv, ControlInv, TypeOK, NoWorker, Workers
<1>1. VisitLevels /\ TodoLevels /\ FirstTally /\ ExpectsNothing
  BY DEF RoundInv
<1> USE <1>0, <1>1 DEF VisitLevels, TodoLevels, FirstTally, ExpectsNothing, Visiting
<1>2. ASSUME NEW t \in Threads, Run(t)
      PROVE  VisitLevels' /\ TodoLevels' /\ FirstTally' /\ ExpectsNothing'
  <2> USE DEF Goto
  <2>1. CASE Loop(t)              BY <2>1 DEF Loop
  <2>2. CASE PollAggressively(t)  BY <2>2 DEF PollAggressively, TakeCount
  <2>3. CASE PollModerately(t)    BY <2>3 DEF PollModerately, TakeCount
  <2>4. CASE Peek(t)              BY <2>4 DEF Peek
  <2>5. CASE Sleep(t)             BY <2>5 DEF Sleep, TakeCount
  <2>6. CASE DoJob(t)             BY <2>6, Namesakes DEF DoJob
  <2>7. CASE Take(t)              BY <2>7, Namesakes DEF Take
  <2>8. CASE NextLevel(t)         BY <2>8, Namesakes DEF NextLevel
  <2>9. CASE PopEvent(t)          BY <2>9 DEF PopEvent
  <2>10. CASE EndEvent(t)         BY <2>10 DEF EndEvent
  <2>11. CASE PopNothing(t)       BY <2>11 DEF PopNothing
  <2>12. CASE ReportStolen(t)     BY <2>12 DEF ReportStolen
  <2>13. CASE GiveBack(t)         BY <2>13 DEF GiveBack
  <2>14. CASE Tally(t)            BY <2>14 DEF Tally
  <2> QED BY <1>2, <2>1, <2>2, <2>3, <2>4, <2>5, <2>6, <2>7, <2>8, <2>9, <2>10,
             <2>11, <2>12, <2>13, <2>14 DEF Run
<1>3. ASSUME UNCHANGED threadVars
      PROVE  VisitLevels' /\ TodoLevels' /\ FirstTally' /\ ExpectsNothing'
  BY <1>3 DEF threadVars
<1> QED
  BY <1>2, <1>3 DEF Next, vars, Push, Notify, SetStop, WakeToStop
-----------------------------------------------------------------------------
(* The terms of the balance *)

(* Works in the hands of a thief are those of the one thread that has the  *)
(* worker.                                                                 *)
StolenAreThiefs ==
    \A w \in Workers, t \in Threads : Stealing(t, w) => StolenWorks(w) = works[t]

LEMMA StolenIs == OneThreadPerWorker => StolenAreThiefs
<1> SUFFICES ASSUME OneThreadPerWorker, NEW w \in Workers, NEW t \in Threads,
                    Stealing(t, w)
             PROVE  StolenWorks(w) = works[t]
  BY DEF StolenAreThiefs
<1> DEFINE s == CHOOSE s \in Threads : Stealing(s, w)
<1>1. s \in Threads /\ Stealing(s, w)
  OBVIOUS
<1>2. s = t
  BY <1>1 DEF OneThreadPerWorker, Holds, Stealing
<1> QED BY <1>1, <1>2 DEF StolenWorks

(* The same after a step. *)
LEMMA StolenIsNext == OneThreadPerWorker' => StolenAreThiefs'
  BY StolenIs, PTL

(* A step in which no theft begins, ends or goes on changes no stolen works. *)
LEMMA StolenUnchanged ==
  ASSUME OneThreadPerWorker, OneThreadPerWorker', NEW w \in Workers,
         \A s \in Threads : Stealing(s, w)' <=> Stealing(s, w),
         \A s \in Threads : Stealing(s, w) => works'[s] = works[s]
  PROVE  StolenWorks(w)' = StolenWorks(w)
<1>1. CASE \E t \in Threads : Stealing(t, w)
  <2> PICK t \in Threads : Stealing(t, w)
    BY <1>1
  <2>1. StolenWorks(w) = works[t] /\ StolenWorks(w)' = works'[t]
    BY StolenIs, StolenIsNext DEF StolenAreThiefs
  <2> QED BY <2>1
<1>2. CASE ~ \E t \in Threads : Stealing(t, w)
  BY <1>2 DEF StolenWorks
<1> QED BY <1>1, <1>2

(* There are finitely many actors. *)
LEMMA ActorsFinite == IsFiniteSet(Actors)
<1>1. IsFiniteSet(Threads)
  BY NumAssumption, FS_Interval DEF Threads
<1> QED BY <1>1, PostersAssumption, FS_Union DEF Actors

(* An actor that has yet to notify w counts among w's once. *)
Notifiers(w) == {a \in Actors : note[a] = w}

LEMMA NotifiersFinite ==
  \A w : IsFiniteSet(Notifiers(w)) /\ Unnotified(w) = Cardinality(Notifiers(w))
         /\ Unnotified(w) \in Nat
<1> SUFFICES ASSUME NEW w
             PROVE  IsFiniteSet(Notifiers(w)) /\ Unnotified(w) = Cardinality(Notifiers(w))
                    /\ Unnotified(w) \in Nat
  OBVIOUS
<1>1. IsFiniteSet(Notifiers(w))
  BY ActorsFinite, FS_Subset DEF Notifiers
<1> QED BY <1>1, FS_CardinalityType DEF Notifiers, Unnotified

(* Their number, before and after a step. *)
LEMMA UnnotifiedIs ==
  ASSUME NEW w
  PROVE  /\ Unnotified(w) = Cardinality(Notifiers(w))
         /\ Unnotified(w)' = Cardinality(Notifiers(w)')
  BY DEF Unnotified, Notifiers

(* Every term of the balance is an integer. *)
TermsTyped == \A w \in Workers :
    /\ Announced(w) \in Int /\ Unnotified(w) \in Nat /\ Len(que[w]) \in Nat
    /\ PriorWorks(w) \in Nat /\ StolenWorks(w) \in Nat /\ Undeducted(w) \in Nat

LEMMA TermTypes == OneWorkerEach /\ ControlInv => TermsTyped
<1> SUFFICES ASSUME OneWorkerEach, ControlInv, NEW w \in Workers
             PROVE  /\ Announced(w) \in Int /\ Unnotified(w) \in Nat
                    /\ Len(que[w]) \in Nat
                    /\ PriorWorks(w) \in Nat /\ StolenWorks(w) \in Nat
                    /\ Undeducted(w) \in Nat
  BY DEF TermsTyped
<1>1. Len(que[w]) \in Nat /\ sworks[w] \in Nat
  BY DEF ControlInv, TypeOK
<1>2. works \in [Threads -> Nat]
  BY DEF ControlInv, TypeOK
<1>3. PriorWorks(w) \in Nat
  BY <1>2, ThreadOfType DEF PriorWorks
<1>4. StolenWorks(w) \in Nat
  <2>1. CASE \E t \in Threads : Stealing(t, w)
    BY <1>2, <2>1, StolenIs DEF ControlInv, StolenAreThiefs
  <2>2. CASE ~ \E t \in Threads : Stealing(t, w)
    BY <2>2 DEF StolenWorks
  <2> QED BY <2>1, <2>2
<1>5. Announced(w) \in Int
  <2>1. expected \in [Threads -> Int] /\ cnt \in [Threads -> Nat] /\ w \in Threads
    BY Namesakes DEF ControlInv, TypeOK
  <2>2. StopNotes(w) \in Nat
    BY DEF StopNotes
  <2> QED BY <2>1, <2>2 DEF Announced
<1> QED BY <1>1, <1>3, <1>4, <1>5, NotifiersFinite DEF Undeducted

(* The same after a step. *)
LEMMA TermTypesNext == OneWorkerEach /\ ControlInv' => TermsTyped'
<1>1. OneWorkerEach => OneWorkerEach'
  BY DEF OneWorkerEach
<1> QED BY <1>1, TermTypes, PTL

(* One more work in hand, of either kind, is one more to deduct. *)
LEMMA UndeductedGrows ==
  ASSUME OneWorkerEach, IInv, NEW w \in Workers, sworks'[w] = sworks[w],
         \/ PriorWorks(w)' = PriorWorks(w) + 1 /\ StolenWorks(w)' = StolenWorks(w)
         \/ PriorWorks(w)' = PriorWorks(w) /\ StolenWorks(w)' = StolenWorks(w) + 1
  PROVE  Undeducted(w)' = Undeducted(w) + 1
<1>1. PriorWorks(w) \in Nat /\ StolenWorks(w) \in Nat /\ sworks[w] \in Nat
  BY TermTypes DEF TermsTyped, IInv, RoundInv, ControlInv, TypeOK
<1> QED BY <1>1 DEF Undeducted

(* A thread between visits, before and after a step, owes no works. *)
LEMMA BetweenVisits ==
  ASSUME RoundInv, ControlInv', OneWorkerEach,
         NEW t \in Threads, NEW l, Goto(t, l), UNCHANGED works,
         pc[t] \notin {"pop", "handle", "report", "give", "tally"},
         l \notin {"pop", "handle", "report", "give", "tally"},
         \A s \in Threads : s # t => cur'[s] = cur[s] /\ level'[s] = level[s],
         NEW w \in Workers
  PROVE  PriorWorks(w)' = PriorWorks(w) /\ StolenWorks(w)' = StolenWorks(w)
<1>0. pc \in [Threads -> PCs] /\ OneThreadPerWorker /\ OneThreadPerWorker'
  BY DEF RoundInv, ControlInv, TypeOK
<1>1. \A s \in Threads : Tallying(s, w)' <=> Tallying(s, w)
  BY <1>0 DEF Goto, Tallying
<1>2. \A s \in Threads : Stealing(s, w)' <=> Stealing(s, w)
  BY <1>0 DEF Goto, Stealing
<1>3. PriorWorks(w)' = PriorWorks(w)
  BY <1>1, ThreadOfType DEF PriorWorks
<1>4. StolenWorks(w)' = StolenWorks(w)
  BY <1>0, <1>2, StolenUnchanged
<1> QED BY <1>3, <1>4

-----------------------------------------------------------------------------
(* Every action keeps the books of every worker balanced *)

(* One more on both sides of the balance. *)
LEMMA OneMoreEach ==
  \A a \in Int, u \in Nat, l \in Nat, d \in Nat :
      a + u = l + d => a + (u + 1) = (l + 1) + d
  OBVIOUS

(* A deduction from the first of three terms is one from their sum. *)
LEMMA DeductedFrom ==
  \A x \in Int, y \in Int, z \in Int, m \in Nat, n \in Nat :
      (x - m - n) + y - z = (x + y - z) - (m + n)
  OBVIOUS

(* What a step may assume, with the types its arithmetic needs. *)
LEMMA BalanceFacts ==
  IInv /\ ControlInv' =>
      /\ ControlInv /\ OneThreadPerWorker /\ OneThreadPerWorker'
      /\ VisitLevels /\ FirstTally
      /\ pc \in [Threads -> PCs] /\ cur \in [Threads -> Workers \cup {NoWorker}]
      /\ level \in [Threads -> {"prior", "minor"}] /\ works \in [Threads -> Nat]
      /\ expected \in [Threads -> Int] /\ cnt \in [Threads -> Nat]
      /\ sworks \in [Workers -> Nat] /\ pworks \in [Threads -> Nat]
      /\ note \in [Actors -> Workers \cup {NoWorker}] /\ halt \in Nat
      /\ que \in [Workers -> Seq(Nat)] /\ workshop \in [Workers -> BOOLEAN]
      /\ todo \in [Threads -> SUBSET Workers]
      /\ NoWorker \notin Workers /\ VisitsWorker
      /\ \A w \in Workers : Balance(w)
<1> SUFFICES ASSUME IInv, ControlInv' PROVE
      /\ halt \in Nat /\ NoWorker \notin Workers /\ VisitsWorker
      /\ ControlInv /\ TypeOK /\ OneThreadPerWorker /\ OneThreadPerWorker'
      /\ VisitLevels /\ FirstTally /\ \A w \in Workers : Balance(w)
  BY DEF TypeOK
<1>1. ControlInv /\ VisitLevels /\ FirstTally /\ BooksBalance
  BY DEF IInv, RoundInv
<1>2. TypeOK /\ OneThreadPerWorker /\ VisitsWorker /\ OneThreadPerWorker'
  BY <1>1 DEF ControlInv
<1>3. halt \in Nat
  BY <1>2, NumAssumption DEF TypeOK
<1>4. NoWorker \notin Workers
  BY DEF NoWorker, Workers
<1> QED BY <1>1, <1>2, <1>3, <1>4 DEF BooksBalance

(* Pushing adds an event and an actor that has to notify; notifying takes   *)
(* the actor off and counts up.                                             *)
LEMMA PostingBalances ==
  ASSUME OneWorkerEach, IInv, ControlInv', NEW a \in Actors, NEW w \in Workers,
         Notify(a) \/ \E v \in Workers : Push(a, v)
  PROVE  Balance(w)'
<1> USE BalanceFacts, Namesakes
<1>1. UNCHANGED threadVars /\ UNCHANGED <<sworks, halt>>
  BY DEF Notify, Push
<1>2. Undeducted(w)' = Undeducted(w) /\ StopNotes(w)' = StopNotes(w)
  BY <1>1 DEF threadVars, PriorWorks, Tallying, StolenWorks, Stealing, Undeducted,
              StopNotes
<1>3. Balance(w)
  OBVIOUS
<1>4. CASE Notify(a)
  <2>1. que' = que /\ expected' = expected
    BY <1>4 DEF Notify, threadVars
  <2>2. CASE note[a] = w
    <3>1. Notifiers(w)' = Notifiers(w) \ {a} /\ a \in Notifiers(w)
      BY <1>4, <2>2 DEF Notify, Notifiers
    <3>2. Unnotified(w)' = Unnotified(w) - 1
      <4>1. Cardinality(Notifiers(w) \ {a}) = Cardinality(Notifiers(w)) - 1
        BY <3>1, NotifiersFinite, FS_RemoveElement
      <4> QED BY <3>1, <4>1, UnnotifiedIs
    <3>3. cnt'[w] = cnt[w] + 1
      BY <1>4, <2>2 DEF Notify
    <3>4. Announced(w)' = Announced(w) + 1
      <4>1. Announced(w)' = expected[w] + (cnt[w] + 1) - StopNotes(w)
        BY <1>2, <2>1, <3>3 DEF Announced
      <4>2. expected[w] \in Int /\ cnt[w] \in Int /\ StopNotes(w) \in Int
        BY DEF StopNotes
      <4> QED BY <4>1, <4>2 DEF Announced
    <3> QED BY <1>2, <1>3, <2>1, <3>2, <3>4, TermTypes DEF Balance, TermsTyped
  <2>3. CASE note[a] # w
    <3>1. Unnotified(w)' = Unnotified(w)
      <4>1. Notifiers(w)' = Notifiers(w)
        BY <1>4, <2>3 DEF Notify, Notifiers
      <4> QED BY <4>1, UnnotifiedIs
    <3>2. cnt'[w] = cnt[w]
      BY <1>4, <2>3 DEF Notify
    <3>3. Announced(w)' = Announced(w)
      BY <1>2, <2>1, <3>2 DEF Announced
    <3> QED BY <1>2, <1>3, <2>1, <3>1, <3>3 DEF Balance
  <2> QED BY <2>2, <2>3
<1>5. CASE \E v \in Workers : Push(a, v)
  <2> PICK v \in Workers : Push(a, v)
    BY <1>5
  <2>1. Announced(w)' = Announced(w)
    BY <1>2 DEF Push, threadVars, Announced
  <2>2. CASE v = w
    <3>1. Notifiers(w)' = Notifiers(w) \cup {a} /\ a \notin Notifiers(w)
      BY <2>2 DEF Push, Notifiers
    <3>2. Unnotified(w)' = Unnotified(w) + 1
      <4>1. Cardinality(Notifiers(w) \cup {a}) = Cardinality(Notifiers(w)) + 1
        BY <3>1, NotifiersFinite, FS_AddElement
      <4> QED BY <3>1, <4>1, UnnotifiedIs
    <3>3. Len(que'[w]) = Len(que[w]) + 1
      BY <2>2 DEF Push
    <3>4. /\ Announced(w) \in Int /\ Unnotified(w) \in Nat
          /\ Len(que[w]) \in Nat /\ Undeducted(w) \in Nat
      BY TermTypes DEF TermsTyped
    <3>5. Announced(w) + Unnotified(w) = Len(que[w]) + Undeducted(w)
      BY <1>3 DEF Balance
    <3>6. Announced(w) + (Unnotified(w) + 1) = (Len(que[w]) + 1) + Undeducted(w)
      BY ONLY <3>4, <3>5, OneMoreEach
    <3> QED BY <1>2, <2>1, <3>2, <3>3, <3>6 DEF Balance
  <2>3. CASE v # w
    <3>1. Unnotified(w)' = Unnotified(w)
      <4>1. Notifiers(w)' = Notifiers(w)
        BY <2>3 DEF Push, Notifiers
      <4> QED BY <4>1, UnnotifiedIs
    <3>2. que'[w] = que[w]
      BY <2>3 DEF Push
    <3> QED BY <1>2, <1>3, <2>1, <3>1, <3>2 DEF Balance
  <2> QED BY <2>2, <2>3
<1> QED BY <1>4, <1>5

(* stop() owes each thread one count without an event, and pays it once.    *)
LEMMA StoppingBalances ==
  ASSUME OneWorkerEach, IInv, ControlInv', NEW w \in Workers, SetStop \/ WakeToStop
  PROVE  Balance(w)'
<1> USE BalanceFacts, Namesakes
<1>1. UNCHANGED <<queueVars, threadVars, sworks>>
  BY DEF SetStop, WakeToStop
<1>2. Undeducted(w)' = Undeducted(w) /\ Unnotified(w)' = Unnotified(w)
      /\ que' = que /\ expected' = expected
  BY <1>1 DEF queueVars, threadVars, PriorWorks, Tallying, StolenWorks, Stealing,
              Undeducted, Unnotified
<1>3. w \in Int /\ w >= 0 /\ ThreadNum \in Nat
  BY NumAssumption DEF Workers
<1>4. Announced(w)' = Announced(w)
  <2>1. CASE SetStop
    <3>1. StopNotes(w)' = StopNotes(w) /\ cnt' = cnt
      BY <1>3, <2>1 DEF SetStop, StopNotes
    <3> QED BY <1>2, <3>1 DEF Announced
  <2>2. CASE WakeToStop /\ halt - ThreadNum = w
    <3>1. StopNotes(w) = 0 /\ StopNotes(w)' = 1
      BY <1>3, <2>2 DEF WakeToStop, StopNotes
    <3>2. cnt'[w] = cnt[w] + 1
      BY <2>2 DEF WakeToStop
    <3> QED BY <1>2, <3>1, <3>2 DEF Announced
  <2>3. CASE WakeToStop /\ halt - ThreadNum # w
    <3>1. StopNotes(w)' = StopNotes(w)
      BY <1>3, <2>3 DEF WakeToStop, StopNotes
    <3>2. cnt'[w] = cnt[w]
      BY <2>3 DEF WakeToStop
    <3> QED BY <1>2, <3>1, <3>2 DEF Announced
  <2> QED BY <2>1, <2>2, <2>3
<1> QED BY <1>2, <1>4 DEF Balance

(* Polling, sleeping and beginning a round move counts to the expectation,  *)
(* or nothing at all.                                                       *)
LEMMA PollingBalances ==
  ASSUME OneWorkerEach, IInv, ControlInv', NEW w \in Workers, NEW t \in Threads,
         \/ Loop(t) \/ Peek(t) \/ DoJob(t) \/ NextLevel(t)
         \/ PollAggressively(t) \/ PollModerately(t) \/ Sleep(t)
  PROVE  Balance(w)'
<1> USE BalanceFacts, Namesakes
<1>1. PICK l : /\ pc' = [pc EXCEPT ![t] = l]
               /\ l \notin {"pop", "handle", "report", "give", "tally"}
               /\ pc[t] \notin {"pop", "handle", "report", "give", "tally"}
  <2>1. CASE Loop(t)              BY <2>1 DEF Loop, Goto
  <2>2. CASE PollAggressively(t)  BY <2>2 DEF PollAggressively, Goto
  <2>3. CASE PollModerately(t)    BY <2>3 DEF PollModerately, Goto
  <2>4. CASE Peek(t)              BY <2>4 DEF Peek, Goto
  <2>5. CASE Sleep(t)             BY <2>5 DEF Sleep, Goto
  <2>6. CASE DoJob(t)             BY <2>6 DEF DoJob, Goto
  <2>7. CASE NextLevel(t)
    <3>1. pc' = [pc EXCEPT ![t] = "loop"] \/ pc' = [pc EXCEPT ![t] = "take"]
      BY <2>7 DEF NextLevel, Goto
    <3> QED BY <2>7, <3>1 DEF NextLevel
  <2> QED BY <2>1, <2>2, <2>3, <2>4, <2>5, <2>6, <2>7
<1>2. /\ UNCHANGED <<que, note, works, cur, sworks, halt>>
      /\ \A s \in Threads : s # t => level'[s] = level[s]
  BY DEF Loop, Peek, DoJob, NextLevel, PollAggressively, PollModerately, Sleep,
         TakeCount, queueVars
<1>3. Undeducted(w)' = Undeducted(w)
  BY <1>1, <1>2, BetweenVisits DEF Goto, IInv, Undeducted
<1>4. Unnotified(w)' = Unnotified(w) /\ StopNotes(w)' = StopNotes(w)
  BY <1>2 DEF Unnotified, StopNotes
<1>5. Announced(w)' = Announced(w)
  <2>1. CASE UNCHANGED <<expected, cnt>>
    BY <1>4, <2>1 DEF Announced
  <2>2. CASE TakeCount(t)
    <3>1. CASE t = w
      <4>1. expected'[w] = expected[w] + cnt[w] /\ cnt'[w] = 0
        BY <2>2, <3>1 DEF TakeCount
      <4> QED BY <1>4, <4>1 DEF Announced, StopNotes
    <3>2. CASE t # w
      <4>1. expected'[w] = expected[w] /\ cnt'[w] = cnt[w]
        BY <2>2, <3>2 DEF TakeCount
      <4> QED BY <1>4, <4>1 DEF Announced
    <3> QED BY <3>1, <3>2
  <2> QED BY <2>1, <2>2 DEF Loop, Peek, DoJob, NextLevel, PollAggressively,
                            PollModerately, Sleep
<1> QED BY <1>2, <1>3, <1>4, <1>5 DEF Balance

(* Taking a worker starts a visit with no works; a worker that another     *)
(* thread runs is passed over.                                             *)
LEMMA TakingBalances ==
  ASSUME OneWorkerEach, IInv, ControlInv', NEW w \in Workers, NEW t \in Threads, Take(t)
  PROVE  Balance(w)'
<1>0. /\ OneThreadPerWorker /\ OneThreadPerWorker' /\ Balance(w)
      /\ pc \in [Threads -> PCs] /\ cur \in [Threads -> Workers \cup {NoWorker}]
      /\ works \in [Threads -> Nat] /\ workshop \in [Workers -> BOOLEAN]
      /\ todo \in [Threads -> SUBSET Workers] /\ NoWorker \notin Workers
      /\ Workers = Threads /\ ThreadOf(w) = w
  BY BalanceFacts, Namesakes
<1>1. PICK n \in Workers :
        /\ pc[t] = "take"
        /\ works' = [works EXCEPT ![t] = 0]
        /\ cur' = [cur EXCEPT ![t] = IF ~workshop[n] /\ level[t] = "minor"
                                     THEN NoWorker ELSE n]
        /\ pc' = [pc EXCEPT ![t] = IF workshop[n] THEN "pop"
                                   ELSE IF level[t] = "prior" THEN "tally" ELSE "take"]
  BY <1>0 DEF Take, Goto
<1>2. UNCHANGED <<queueVars, expected, level, sworks, cnt, halt>>
  BY DEF Take
<1>3. PriorWorks(w)' = PriorWorks(w)
  <2>1. CASE w = t
    <3>1. PriorWorks(w) = 0
      BY <1>0, <1>1, <2>1 DEF PriorWorks, Tallying
    <3>2. PriorWorks(w)' = 0
      BY <1>0, <1>1, <2>1 DEF PriorWorks
    <3> QED BY <3>1, <3>2
  <2>2. CASE w # t
    BY <1>0, <1>1, <1>2, <2>2 DEF PriorWorks, Tallying
  <2> QED BY <2>1, <2>2
<1>4. StolenWorks(w)' = StolenWorks(w)
  <2>1. CASE Stealing(t, w)'
    <3>1. workshop[n] /\ n = w
      BY <1>0, <1>1, <1>2, <2>1 DEF Stealing
    <3>2. \A s \in Threads : ~ Stealing(s, w)
      BY <1>0, <3>1 DEF OneThreadPerWorker, Holds, Stealing
    <3>3. StolenWorks(w) = 0
      BY <3>2 DEF StolenWorks
    <3>4. StolenWorks(w)' = works'[t]
      BY <1>0, <2>1, StolenIsNext DEF StolenAreThiefs
    <3> QED BY <1>0, <1>1, <3>3, <3>4
  <2>2. CASE ~ Stealing(t, w)'
    <3>1. \A s \in Threads : Stealing(s, w)' <=> Stealing(s, w)
      BY <1>0, <1>1, <1>2, <2>2 DEF Stealing
    <3>2. \A s \in Threads : Stealing(s, w) => works'[s] = works[s]
      BY <1>0, <1>1 DEF Stealing
    <3> QED BY <1>0, <3>1, <3>2, StolenUnchanged
  <2> QED BY <2>1, <2>2
<1>5. Undeducted(w)' = Undeducted(w)
  BY <1>2, <1>3, <1>4 DEF Undeducted
<1>6. Announced(w)' = Announced(w) /\ Unnotified(w)' = Unnotified(w) /\ que' = que
  BY <1>2 DEF queueVars, Announced, StopNotes, Unnotified
<1> QED BY <1>0, <1>5, <1>6 DEF Balance

(* An event popped is a work done, by the prior thread or by a thief.      *)
LEMMA PoppingBalances ==
  ASSUME OneWorkerEach, IInv, ControlInv', NEW w \in Workers, NEW t \in Threads,
         PopEvent(t)
  PROVE  Balance(w)'
<1>0. /\ OneThreadPerWorker /\ OneThreadPerWorker' /\ Balance(w)
      /\ pc \in [Threads -> PCs] /\ works \in [Threads -> Nat]
      /\ que \in [Workers -> Seq(Nat)] /\ level \in [Threads -> {"prior", "minor"}]
      /\ VisitLevels /\ VisitsWorker /\ Workers = Threads /\ ThreadOf(w) = w
  BY BalanceFacts, Namesakes
<1>1. UNCHANGED <<note, expected, level, cur, sworks, cnt, halt>>
  BY DEF PopEvent
<1>2. /\ pc[t] = "pop" /\ pc' = [pc EXCEPT ![t] = "handle"]
      /\ works' = [works EXCEPT ![t] = @ + 1]
      /\ cur[t] \in Workers /\ que[cur[t]] # <<>>
      /\ que' = [que EXCEPT ![cur[t]] = Tail(@)]
  BY <1>0 DEF PopEvent, Goto, VisitsWorker
<1>3. Announced(w)' = Announced(w) /\ Unnotified(w)' = Unnotified(w)
      /\ sworks'[w] = sworks[w]
  BY <1>1 DEF Announced, StopNotes, Unnotified
<1>4. \A s \in Threads : /\ Tallying(s, w)' <=> Tallying(s, w)
                         /\ Stealing(s, w)' <=> Stealing(s, w)
  BY <1>0, <1>1, <1>2 DEF Tallying, Stealing
<1>5. CASE cur[t] # w
  <2>1. que'[w] = que[w]
    BY <1>0, <1>2, <1>5
  <2>2. PriorWorks(w)' = PriorWorks(w)
    BY <1>0, <1>2, <1>4, <1>5 DEF PriorWorks, Tallying
  <2>3. \A s \in Threads : Stealing(s, w) => works'[s] = works[s]
    BY <1>0, <1>2, <1>5 DEF Stealing
  <2>4. StolenWorks(w)' = StolenWorks(w)
    BY <1>0, <1>4, <2>3, StolenUnchanged
  <2> QED BY <1>0, <1>3, <2>1, <2>2, <2>4 DEF Balance, Undeducted
<1>6. CASE cur[t] = w
  <2>1. que[w] \in Seq(Nat) /\ que[w] # <<>> /\ que'[w] = Tail(que[w])
    BY <1>0, <1>2, <1>6
  <2>2. Len(que'[w]) = Len(que[w]) - 1
    BY <2>1
  <2>3. Undeducted(w)' = Undeducted(w) + 1
    <3>1. CASE level[t] = "prior"
      <4>1. t = w
        BY <1>0, <1>2, <1>6, <3>1 DEF VisitLevels, Visiting
      <4>2. PriorWorks(w) = works[t] /\ PriorWorks(w)' = works[t] + 1
        BY <1>0, <1>1, <1>2, <1>6, <3>1, <4>1 DEF PriorWorks, Tallying
      <4>3. \A s \in Threads : Stealing(s, w) => works'[s] = works[s]
        BY <1>0, <1>2, <3>1 DEF Stealing
      <4>4. StolenWorks(w)' = StolenWorks(w)
        BY <1>0, <1>4, <4>3, StolenUnchanged
      <4>5. PriorWorks(w)' = PriorWorks(w) + 1
        BY <4>2
      <4> QED BY <1>3, <4>4, <4>5, UndeductedGrows
    <3>2. CASE level[t] = "minor"
      <4>1. Stealing(t, w) /\ Stealing(t, w)'
        BY <1>2, <1>4, <1>6, <3>2 DEF Stealing
      <4>2. StolenWorks(w) = works[t] /\ StolenWorks(w)' = works'[t]
        BY <1>0, <4>1, StolenIs, StolenIsNext DEF StolenAreThiefs
      <4>3. StolenWorks(w)' = StolenWorks(w) + 1
        BY <1>0, <1>2, <4>2
      <4>4. PriorWorks(w)' = PriorWorks(w)
        <5>1. Tallying(w, w) => w # t
          BY <3>2 DEF Tallying
        <5> QED BY <1>0, <1>2, <1>4, <5>1 DEF PriorWorks
      <4> QED BY <1>3, <4>3, <4>4, UndeductedGrows
    <3> QED BY <1>0, <3>1, <3>2
  <2>5. /\ Announced(w) \in Int /\ Unnotified(w) \in Nat
        /\ Len(que[w]) \in Nat /\ Undeducted(w) \in Nat
    BY TermTypes DEF TermsTyped, IInv, RoundInv
  <2>6. Announced(w) + Unnotified(w) = Len(que[w]) + Undeducted(w)
    BY <1>0 DEF Balance
  <2>7. Announced(w) + Unnotified(w) = (Len(que[w]) - 1) + (Undeducted(w) + 1)
    BY ONLY <2>5, <2>6
  <2> QED BY <1>3, <2>2, <2>3, <2>7 DEF Balance
<1> QED BY <1>5, <1>6

(* Ending an event, finding no more and giving the worker back neither do   *)
(* nor deduct works: a thief gives its worker back with nothing to report.  *)
LEMMA LeavingBalances ==
  ASSUME OneWorkerEach, IInv, ControlInv', NEW w \in Workers, NEW t \in Threads,
         EndEvent(t) \/ PopNothing(t) \/ GiveBack(t)
  PROVE  Balance(w)'
<1>0. /\ OneThreadPerWorker /\ OneThreadPerWorker' /\ Balance(w)
      /\ pc \in [Threads -> PCs] /\ works \in [Threads -> Nat]
      /\ cur \in [Threads -> Workers \cup {NoWorker}]
      /\ level \in [Threads -> {"prior", "minor"}]
      /\ NoWorker \notin Workers /\ Workers = Threads /\ ThreadOf(w) = w
  BY BalanceFacts, Namesakes
<1>1. UNCHANGED <<que, note, expected, level, works, sworks, cnt, halt>>
  BY DEF EndEvent, PopNothing, GiveBack, queueVars
<1>2. Announced(w)' = Announced(w) /\ Unnotified(w)' = Unnotified(w)
  BY <1>1 DEF Announced, StopNotes, Unnotified
<1>3. \A s \in Threads : Tallying(s, w)' <=> Tallying(s, w)
  BY <1>0, <1>1 DEF EndEvent, PopNothing, GiveBack, Goto, Tallying
<1>4. PriorWorks(w)' = PriorWorks(w)
  BY <1>0, <1>1, <1>3 DEF PriorWorks
<1>5. StolenWorks(w)' = StolenWorks(w)
  <2>1. CASE \A s \in Threads : Stealing(s, w)' <=> Stealing(s, w)
    BY <1>0, <1>1, <2>1, StolenUnchanged
  <2>2. CASE ~ \A s \in Threads : Stealing(s, w)' <=> Stealing(s, w)
    <3>1. /\ Stealing(t, w) /\ works[t] = 0
          /\ \A s \in Threads : Stealing(s, w)' => s # t /\ Stealing(s, w)
      BY <1>0, <1>1, <2>2 DEF EndEvent, PopNothing, GiveBack, Goto, Stealing
    <3>2. StolenWorks(w) = 0
      BY <1>0, <3>1, StolenIs DEF StolenAreThiefs
    <3>3. \A s \in Threads : ~ Stealing(s, w)'
      BY <1>0, <3>1 DEF OneThreadPerWorker, Holds, Stealing
    <3> QED BY <3>2, <3>3 DEF StolenWorks
  <2> QED BY <2>1, <2>2
<1> QED BY <1>0, <1>1, <1>2, <1>4, <1>5 DEF Balance, Undeducted

(* A report moves a thief's works to sworks_.                               *)
LEMMA ReportingBalances ==
  ASSUME OneWorkerEach, IInv, ControlInv', NEW w \in Workers, NEW t \in Threads,
         ReportStolen(t)
  PROVE  Balance(w)'
<1>0. /\ OneThreadPerWorker /\ OneThreadPerWorker' /\ Balance(w)
      /\ pc \in [Threads -> PCs] /\ works \in [Threads -> Nat]
      /\ level \in [Threads -> {"prior", "minor"}] /\ sworks \in [Workers -> Nat]
      /\ VisitLevels /\ Workers = Threads /\ ThreadOf(w) = w
  BY BalanceFacts, Namesakes
<1>1. UNCHANGED <<que, note, expected, level, works, cur, cnt, halt>>
  BY DEF ReportStolen, queueVars
<1>2. /\ pc[t] = "report" /\ level[t] = "minor"
      /\ pc' = [pc EXCEPT ![t] = "give"]
      /\ sworks' = [sworks EXCEPT ![cur[t]] = @ + works[t]]
  BY <1>0 DEF ReportStolen, Goto, VisitLevels
<1>3. Announced(w)' = Announced(w) /\ Unnotified(w)' = Unnotified(w)
  BY <1>1 DEF Announced, StopNotes, Unnotified
<1>4. PriorWorks(w)' = PriorWorks(w)
  <2>1. \A s \in Threads : Tallying(s, w)' <=> Tallying(s, w)
    BY <1>0, <1>1, <1>2 DEF Tallying
  <2> QED BY <1>0, <1>1, <2>1 DEF PriorWorks
<1>5. Undeducted(w)' = Undeducted(w)
  <2>1. CASE cur[t] = w
    <3>1. Stealing(t, w) /\ \A s \in Threads : ~ Stealing(s, w)'
      BY <1>0, <1>1, <1>2, <2>1 DEF OneThreadPerWorker, Holds, Stealing
    <3>2. StolenWorks(w) = works[t]
      BY <1>0, <3>1, StolenIs DEF StolenAreThiefs
    <3>3. StolenWorks(w)' = 0
      BY <3>1 DEF StolenWorks
    <3>4. sworks'[w] = sworks[w] + works[t]
      BY <1>0, <1>2, <2>1
    <3>5. PriorWorks(w) \in Nat /\ works[t] \in Nat /\ sworks[w] \in Nat
      BY <1>0, TermTypes DEF TermsTyped, IInv, RoundInv
    <3> QED BY <1>4, <3>2, <3>3, <3>4, <3>5 DEF Undeducted
  <2>2. CASE cur[t] # w
    <3>1. \A s \in Threads : Stealing(s, w)' <=> Stealing(s, w)
      BY <1>0, <1>1, <1>2, <2>2 DEF Stealing
    <3>2. StolenWorks(w)' = StolenWorks(w)
      BY <1>0, <1>1, <3>1, StolenUnchanged
    <3> QED BY <1>0, <1>2, <1>4, <2>2, <3>2 DEF Undeducted
  <2> QED BY <2>1, <2>2
<1> QED BY <1>0, <1>1, <1>3, <1>5 DEF Balance

(* The only tally of a round deducts the visit's works and the stolen ones. *)
LEMMA TallyingBalances ==
  ASSUME OneWorkerEach, IInv, ControlInv', NEW w \in Workers, NEW t \in Threads, Tally(t)
  PROVE  Balance(w)'
<1>0. /\ OneThreadPerWorker /\ OneThreadPerWorker' /\ Balance(w)
      /\ pc \in [Threads -> PCs] /\ works \in [Threads -> Nat]
      /\ cur \in [Threads -> Workers \cup {NoWorker}]
      /\ level \in [Threads -> {"prior", "minor"}] /\ sworks \in [Workers -> Nat]
      /\ expected \in [Threads -> Int] /\ cnt \in [Threads -> Nat]
      /\ pworks \in [Threads -> Nat] /\ NoWorker \notin Workers
      /\ VisitLevels /\ FirstTally /\ Workers = Threads /\ ThreadOf(w) = w
  BY BalanceFacts, Namesakes
<1>1. UNCHANGED <<que, note, level, works, cnt, halt>>
  BY DEF Tally, queueVars
<1>2. pc[t] = "tally" /\ level[t] = "prior" /\ cur[t] = t /\ pworks[t] = 0
  BY <1>0 DEF Tally, VisitLevels, FirstTally, Visiting
<1>3. /\ pc' = [pc EXCEPT ![t] = "take"] /\ cur' = [cur EXCEPT ![t] = NoWorker]
      /\ sworks' = [sworks EXCEPT ![t] = 0]
      /\ expected' = [expected EXCEPT ![t] = expected[t] - works[t] - sworks[t]]
  <2>1. pworks'[t] = works[t]
    BY <1>0, <1>2 DEF Tally
  <2> QED BY <1>2, <2>1 DEF Tally, Goto
<1>4. Unnotified(w)' = Unnotified(w) /\ StopNotes(w)' = StopNotes(w)
      /\ Len(que'[w]) = Len(que[w])
  BY <1>1 DEF StopNotes, Unnotified
<1>5. \A s \in Threads : Stealing(s, w)' <=> Stealing(s, w)
  BY <1>0, <1>1, <1>2, <1>3 DEF Stealing
<1>6. StolenWorks(w)' = StolenWorks(w)
  BY <1>0, <1>1, <1>5, StolenUnchanged
<1>7. CASE t = w
  <2>1. PriorWorks(w) = works[w] /\ PriorWorks(w)' = 0
    BY <1>0, <1>2, <1>3, <1>7 DEF PriorWorks, Tallying
  <2>2. sworks'[w] = 0 /\ expected'[w] = expected[w] - works[w] - sworks[w]
    BY <1>0, <1>3, <1>7
  <2>3. /\ StolenWorks(w) \in Nat /\ works[w] \in Nat /\ sworks[w] \in Nat
        /\ Announced(w) \in Int /\ Unnotified(w) \in Nat /\ Len(que[w]) \in Nat
    BY <1>0, TermTypes DEF TermsTyped, IInv, RoundInv
  <2>4. Undeducted(w)' = StolenWorks(w)
    BY <1>6, <2>1, <2>2, <2>3 DEF Undeducted
  <2>5. Undeducted(w) = StolenWorks(w) + (works[w] + sworks[w])
    BY <2>1, <2>3 DEF Undeducted
  <2>6. Announced(w)' = Announced(w) - (works[w] + sworks[w])
    <3>1. /\ Announced(w)' = (expected[w] - works[w] - sworks[w]) + cnt[w] - StopNotes(w)
          /\ Announced(w) = expected[w] + cnt[w] - StopNotes(w)
      BY <1>1, <1>4, <2>2 DEF Announced
    <3>2. expected[w] \in Int /\ cnt[w] \in Int /\ StopNotes(w) \in Int
      BY <1>0 DEF StopNotes
    <3> QED BY ONLY <2>3, <3>1, <3>2, DeductedFrom
  <2>7. Announced(w) + Unnotified(w) = Len(que[w]) + Undeducted(w)
    BY <1>0 DEF Balance
  <2>8. Announced(w)' + Unnotified(w) = Len(que[w]) + StolenWorks(w)
    <3> DEFINE k == works[w] + sworks[w]
    <3>1. k \in Nat
      BY <2>3
    <3>2. Announced(w) + Unnotified(w) = Len(que[w]) + (StolenWorks(w) + k)
      BY <2>5, <2>7
    <3>3. Announced(w)' = Announced(w) - k
      BY <2>6
    <3> HIDE DEF k
    <3>4. (Announced(w) - k) + Unnotified(w) = Len(que[w]) + StolenWorks(w)
      <4>1. (Announced(w) - k) + Unnotified(w) = (Announced(w) + Unnotified(w)) - k
        BY ONLY <2>3, <3>1
      <4>2. (Len(que[w]) + (StolenWorks(w) + k)) - k = Len(que[w]) + StolenWorks(w)
        BY ONLY <2>3, <3>1
      <4> QED BY ONLY <3>2, <4>1, <4>2
    <3> QED BY <3>3, <3>4
  <2> QED BY <1>4, <2>4, <2>8 DEF Balance
<1>8. CASE t # w
  <2>1. PriorWorks(w)' = PriorWorks(w)
    BY <1>0, <1>1, <1>3, <1>8 DEF PriorWorks, Tallying
  <2>2. sworks'[w] = sworks[w] /\ expected'[w] = expected[w]
    BY <1>0, <1>3, <1>8
  <2>3. Announced(w)' = Announced(w) /\ Undeducted(w)' = Undeducted(w)
    BY <1>1, <1>4, <1>6, <2>1, <2>2 DEF Announced, Undeducted
  <2> QED BY <1>0, <1>4, <2>3 DEF Balance
<1> QED BY <1>7, <1>8

(* The initial books are empty. *)
LEMMA InitBalance ==
  OneWorkerEach /\ Init => BooksBalance
<1> SUFFICES ASSUME OneWorkerEach, Init, NEW w \in Workers PROVE Balance(w)
  BY DEF BooksBalance
<1>0. Workers = Threads /\ ThreadOf(w) = w /\ w \in Int /\ w >= 0 /\ NoWorker \notin Workers
      /\ ThreadNum \in Nat
  BY Namesakes, NumAssumption DEF Workers, NoWorker
<1>1. Unnotified(w) = 0
  <2>1. Notifiers(w) = {}
    BY <1>0 DEF Init, Notifiers
  <2> QED BY <2>1, NotifiersFinite, FS_EmptySet
<1>2. Announced(w) = 0
  BY <1>0 DEF Init, Announced, StopNotes
<1>3. Undeducted(w) = 0
  BY <1>0 DEF Init, Undeducted, PriorWorks, Tallying, StolenWorks, Stealing
<1>4. Len(que[w]) = 0
  BY DEF Init
<1> QED BY <1>1, <1>2, <1>3, <1>4 DEF Balance

(* Every step keeps the books balanced. *)
LEMMA StepBalance ==
  OneWorkerEach /\ IInv /\ [Next]_vars /\ ControlInv' => BooksBalance'
<1> SUFFICES ASSUME OneWorkerEach, IInv, [Next]_vars, ControlInv', NEW w \in Workers
             PROVE  Balance(w)'
  BY DEF BooksBalance, Workers
<1>1. CASE \E a \in Actors : Notify(a) \/ \E v \in Workers : Push(a, v)
  BY <1>1, PostingBalances
<1>2. CASE SetStop \/ WakeToStop
  BY <1>2, StoppingBalances
<1>3. CASE \E t \in Threads : Run(t)
  <2> PICK t \in Threads : Run(t)
    BY <1>3
  <2>1. CASE \/ Loop(t) \/ Peek(t) \/ DoJob(t) \/ NextLevel(t)
             \/ PollAggressively(t) \/ PollModerately(t) \/ Sleep(t)
    BY <2>1, PollingBalances
  <2>2. CASE Take(t)
    BY <2>2, TakingBalances
  <2>3. CASE PopEvent(t)
    BY <2>3, PoppingBalances
  <2>4. CASE EndEvent(t) \/ PopNothing(t) \/ GiveBack(t)
    BY <2>4, LeavingBalances
  <2>5. CASE ReportStolen(t)
    BY <2>5, ReportingBalances
  <2>6. CASE Tally(t)
    BY <2>6, TallyingBalances
  <2> QED BY <2>1, <2>2, <2>3, <2>4, <2>5, <2>6 DEF Run
<1>4. CASE UNCHANGED vars
  <2>1. Balance(w)
    BY DEF IInv, BooksBalance
  <2> QED BY <1>4, <2>1 DEF vars, queueVars, threadVars, Balance, Announced, StopNotes,
             Unnotified, Undeducted, PriorWorks, Tallying, StolenWorks, Stealing
<1> QED BY <1>1, <1>2, <1>3, <1>4 DEF Next

-----------------------------------------------------------------------------
(* With one worker per thread, the round invariant and the balance hold in  *)
(* every reachable state.                                                   *)
THEOREM BooksInvariance == OneWorkerEach => (Spec => []IInv)
<1> SUFFICES ASSUME OneWorkerEach PROVE Spec => []IInv
  OBVIOUS
<1>1. Init => IInv
  BY InitRoundInv, InitBalance DEF IInv
<1>2. IInv /\ ControlInv' /\ [Next]_vars => IInv'
  BY StepRound, StepBalance DEF IInv, RoundInv
<1>3. Spec => []ControlInv
  BY ControlInvariance
<1> QED BY <1>1, <1>2, <1>3, PTL DEF Spec

(* With one worker per thread, what a thread was told of or will be is what *)
(* is queued for its worker, or done and not yet deducted.                  *)
THEOREM BooksBalanceHolds == OneWorkerEach => (Spec => []BooksBalance)
<1>1. IInv => BooksBalance
  BY DEF IInv
<1> QED BY <1>1, BooksInvariance, PTL

(* With one worker per thread, no thread sleeps over a queued event whose   *)
(* notification is not on its way.                                          *)
THEOREM NoStrandedEventHolds == OneWorkerEach => (Spec => []NoStrandedEvent)
<1> SUFFICES ASSUME OneWorkerEach PROVE Spec => []NoStrandedEvent
  OBVIOUS
<1>1. IInv => NoStrandedEvent
  <2> SUFFICES ASSUME IInv, NEW w \in Workers,
                      pc[w] = "sleep", cnt[w] = 0, que[w] # <<>>
               PROVE  \E a \in Actors : note[a] # NoWorker /\ ThreadOf(note[a]) = w
    BY Namesakes DEF NoStrandedEvent
  <2>1. /\ Balance(w) /\ Workers = Threads /\ ThreadOf(w) = w /\ NoWorker \notin Workers
        /\ expected \in [Threads -> Int] /\ que \in [Workers -> Seq(Nat)]
        /\ expected[w] <= 0
    <3>1. TypeOK /\ ExpectsNothing /\ Balance(w)
      BY DEF IInv, BooksBalance, RoundInv, ControlInv
    <3>2. Workers = Threads /\ ThreadOf(w) = w /\ NoWorker \notin Workers
      BY Namesakes DEF NoWorker, Workers
    <3> QED BY <3>1, <3>2 DEF TypeOK, ExpectsNothing
  <2>2. Announced(w) <= 0
    <3>1. StopNotes(w) \in Nat /\ expected[w] \in Int
      BY <2>1 DEF StopNotes
    <3> QED BY <2>1, <3>1 DEF Announced
  <2>3. Len(que[w]) > 0
    <3>1. que[w] \in Seq(Nat)
      BY <2>1
    <3> QED BY <3>1
  <2>4. /\ Announced(w) \in Int /\ Unnotified(w) \in Nat
        /\ Len(que[w]) \in Nat /\ Undeducted(w) \in Nat
    BY TermTypes DEF TermsTyped, IInv, RoundInv
  <2>5. Announced(w) + Unnotified(w) = Len(que[w]) + Undeducted(w)
    BY <2>1 DEF Balance
  <2>6. Unnotified(w) > 0
    BY ONLY <2>2, <2>3, <2>4, <2>5
  <2>7. Notifiers(w) # {}
    BY <2>6, NotifiersFinite, FS_EmptySet
  <2> QED BY <2>1, <2>7 DEF Notifiers
<1> QED BY <1>1, BooksInvariance, PTL
=============================================================================
