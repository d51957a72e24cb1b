--------------------------- MODULE CoroutineProofs ---------------------------
(***************************************************************************)
(* Safety of Coroutine for any threads, workers and corctxs.  OnHost holds *)
(* because a corctx is in one place, and is popped only by the thread that *)
(* runs its worker: resumed before it has yielded, it waits in the queue   *)
(* of the worker on which it still runs.  From the same invariant, every   *)
(* step is a step of SpawnService or invisible to it.                      *)
(*                                                                         *)
(* Then, in the same way, AffixList, the user data a corctx and a thrctx   *)
(* have in their member affix_list_, for any types, objects and size of    *)
(* the array.  What makes its invariant inductive is OnePlace, that no     *)
(* object is in the array and in the map; the rest is counting.            *)
(***************************************************************************)
EXTENDS Coroutine, AffixList, FiniteSetTheorems, WellFoundedInduction, TLAPS

Types == /\ que \in [Workers -> Seq(Events)]
         /\ at \in [Threads -> Workers \cup {None}]
         /\ ev \in [Threads -> Events \cup {None}]
         /\ curr \in [Threads -> Coros \cup {None}]
         /\ run \in [Threads -> Coros \cup {None}]
         /\ phase \in [Threads -> {"code", "yield", "last yield"}]
         /\ thrctx \in [Coros -> Threads \cup {None}]
         /\ host \in [Coros -> Threads \cup {None}]
         /\ saved \in [Coros -> {"none", "start", "running", "yield", "end"}]
         /\ strand \in [Coros -> Workers \cup {None}]
         /\ home \in [Coros -> Threads \cup {None}]
         /\ pooled \subseteq Coros
         /\ owed \subseteq Coros
         /\ spawned \in Nat

(* A worker is visited by one thread, which has an event of it in hand. *)
Visits == /\ \A t \in Threads : at[t] = None <=> ev[t] = None
          /\ \A t \in Threads : run[t] # None => ev[t] = run[t]
          /\ \A t, u \in Threads : at[t] = at[u] /\ at[t] # None => t = u

(* No thread has c in hand but one that is to leave c's stack next. *)
Leaving(c) == \A t \in Threads : ev[t] = c => run[t] # None /\ phase[t] # "code"

(* c may wait in the queue of w: that is its strand, and it is in no other list. *)
MayWait(c, w) == /\ strand[c] = w
                 /\ c \notin owed /\ c \notin pooled /\ home[c] # None
                 /\ Leaving(c)

Waiting == \A w \in Workers : \A i \in 1 .. Len(que[w]) : \A c \in Coros :
               que[w][i] = c => MayWait(c, w)

Once == \A w \in Workers : \A i, j \in 1 .. Len(que[w]) :
            que[w][i] \in Coros /\ que[w][i] = que[w][j] => i = j

(* A corctx that is not queued is in no other list either. *)
Apart ==
    /\ \A c \in owed : c \notin pooled /\ home[c] # None /\ Leaving(c)
    /\ \A t \in Threads :
           ev[t] \in Coros => /\ ev[t] \notin pooled /\ home[ev[t]] # None
                              /\ at[t] = strand[ev[t]]
    /\ \A c \in pooled : home[c] # None
    /\ \A c \in Coros : home[c] # None => strand[c] # None

IInv == Types /\ Visits /\ Waiting /\ Once /\ Apart /\ OnHost

-----------------------------------------------------------------------------
(* What posting and popping make of the queues. *)

LEMMA AppendSeq ==
  ASSUME NEW S, NEW s \in Seq(S), NEW e \in S
  PROVE  /\ Append(s, e) \in Seq(S)
         /\ \A i \in 1 .. Len(Append(s, e)) :
                \/ i \in 1 .. Len(s) /\ Append(s, e)[i] = s[i]
                \/ i = Len(s) + 1 /\ Append(s, e)[i] = e
<1>1. Append(s, e) \in Seq(S) /\ Len(Append(s, e)) = Len(s) + 1 /\ Len(s) \in Nat
  OBVIOUS
<1> QED
  BY <1>1

LEMMA TailSeq ==
  ASSUME NEW S, NEW s \in Seq(S), s # <<>>
  PROVE  /\ Tail(s) \in Seq(S)
         /\ 1 \in 1 .. Len(s) /\ Head(s) = s[1] /\ Head(s) \in S
         /\ \A i \in 1 .. Len(Tail(s)) :
                i + 1 \in 1 .. Len(s) /\ Tail(s)[i] = s[i + 1] /\ i + 1 # 1
<1>1. Len(s) \in Nat /\ Len(s) # 0
  OBVIOUS
<1>2. Tail(s) \in Seq(S) /\ Head(s) = s[1] /\ Len(Tail(s)) = Len(s) - 1
  BY <1>1
<1>3. 1 \in 1 .. Len(s)
  BY <1>1
<1>4. Head(s) \in S
  BY <1>2, <1>3
<1>5. ASSUME NEW i \in 1 .. Len(Tail(s))
      PROVE  i + 1 \in 1 .. Len(s) /\ Tail(s)[i] = s[i + 1] /\ i + 1 # 1
  BY <1>1, <1>2, <1>5
<1> QED
  BY <1>2, <1>3, <1>4, <1>5

LEMMA AsyncFacts ==
  ASSUME Types, NEW w \in Workers, NEW e \in Events, Async(w, e)
  PROVE  /\ que' \in [Workers -> Seq(Events)]
         /\ \A v \in Workers : \A i \in 1 .. Len(que'[v]) :
                \/ i \in 1 .. Len(que[v]) /\ que'[v][i] = que[v][i]
                \/ v = w /\ i = Len(que[w]) + 1 /\ que'[v][i] = e
         /\ \A v \in Workers : Len(que[v]) \in Nat
<1>0. que \in [Workers -> Seq(Events)]
  BY DEF Types
<1>1. que[w] \in Seq(Events)
  BY <1>0
<1>2. que' = [que EXCEPT ![w] = Append(que[w], e)]
  BY DEF Async
<1>3. Append(que[w], e) \in Seq(Events)
  BY <1>1, AppendSeq
<1>4. que' \in [Workers -> Seq(Events)]
  BY <1>0, <1>2, <1>3
<1>5. ASSUME NEW v \in Workers, NEW i \in 1 .. Len(que'[v])
      PROVE  \/ i \in 1 .. Len(que[v]) /\ que'[v][i] = que[v][i]
             \/ v = w /\ i = Len(que[w]) + 1 /\ que'[v][i] = e
  <2>1. CASE v = w
    <3>1. que'[v] = Append(que[w], e)
      BY <1>0, <1>2, <2>1
    <3> QED
      BY <1>1, <1>5, <2>1, <3>1, AppendSeq
  <2>2. CASE v # w
    <3>1. que'[v] = que[v]
      BY <1>0, <1>2, <2>2
    <3> QED
      BY <1>5, <3>1
  <2> QED
    BY <2>1, <2>2
<1>6. ASSUME NEW v \in Workers PROVE Len(que[v]) \in Nat
  <2>1. que[v] \in Seq(Events)
    BY <1>0
  <2> QED
    BY <2>1
<1> QED
  BY <1>4, <1>5, <1>6

(* An event may be posted if, when it is a corctx, it may wait there. *)
LEMMA AsyncWaits ==
  ASSUME Types, NEW w \in Workers, NEW e \in Events, Async(w, e),
         \A c \in Coros : \A v \in Workers : \A i \in 1 .. Len(que[v]) :
             que[v][i] = c => MayWait(c, v)',
         \A c \in Coros : e = c => MayWait(c, w)'
  PROVE  Waiting'
<1> SUFFICES ASSUME NEW v \in Workers, NEW i \in 1 .. Len(que'[v]), NEW c \in Coros,
                    que'[v][i] = c
             PROVE  MayWait(c, v)'
  BY Zenon DEF Waiting
<1>1. \/ i \in 1 .. Len(que[v]) /\ que'[v][i] = que[v][i]
      \/ v = w /\ que'[v][i] = e
  BY AsyncFacts
<1>2. CASE i \in 1 .. Len(que[v]) /\ que'[v][i] = que[v][i]
  <2>1. que[v][i] = c
    BY <1>2
  <2> QED
    BY <1>2, <2>1
<1>3. CASE v = w /\ que'[v][i] = e
  <2>1. e = c /\ v = w
    BY <1>3
  <2>2. MayWait(c, w)'
    BY <2>1
  <2> QED
    BY <2>1, <2>2
<1> QED
  BY <1>1, <1>2, <1>3

LEMMA AsyncOnce ==
  ASSUME Types, Once, NEW w \in Workers, NEW e \in Events, Async(w, e),
         e \in Coros => \A i \in 1 .. Len(que[w]) : que[w][i] # e
  PROVE  Once'
<1> SUFFICES ASSUME NEW v \in Workers, NEW i \in 1 .. Len(que'[v]),
                    NEW j \in 1 .. Len(que'[v]),
                    que'[v][i] \in Coros, que'[v][i] = que'[v][j]
             PROVE  i = j
  BY DEF Once
<1>1. /\ \/ i \in 1 .. Len(que[v]) /\ que'[v][i] = que[v][i]
         \/ v = w /\ i = Len(que[w]) + 1 /\ que'[v][i] = e
      /\ \/ j \in 1 .. Len(que[v]) /\ que'[v][j] = que[v][j]
         \/ v = w /\ j = Len(que[w]) + 1 /\ que'[v][j] = e
  BY AsyncFacts
<1> QED
  BY <1>1 DEF Once

LEMMA PopFacts ==
  ASSUME Types, NEW w \in Workers, que[w] # <<>>, que' = [que EXCEPT ![w] = Tail(que[w])]
  PROVE  /\ que' \in [Workers -> Seq(Events)]
         /\ 1 \in 1 .. Len(que[w]) /\ Head(que[w]) = que[w][1] /\ Head(que[w]) \in Events
         /\ \A i \in 1 .. Len(que'[w]) :
                i + 1 \in 1 .. Len(que[w]) /\ que'[w][i] = que[w][i + 1] /\ i + 1 # 1
         /\ \A v \in Workers \ {w} : que'[v] = que[v]
<1>0. que \in [Workers -> Seq(Events)]
  BY DEF Types
<1>1. que[w] \in Seq(Events)
  BY <1>0
<1>2. Tail(que[w]) \in Seq(Events)
  BY <1>1, TailSeq
<1>3. que'[w] = Tail(que[w])
  BY <1>0
<1>4. que' \in [Workers -> Seq(Events)] /\ \A v \in Workers \ {w} : que'[v] = que[v]
  BY <1>0, <1>2
<1>5. 1 \in 1 .. Len(que[w]) /\ Head(que[w]) = que[w][1] /\ Head(que[w]) \in Events
  BY <1>1, TailSeq
<1>6. \A i \in 1 .. Len(que'[w]) :
          i + 1 \in 1 .. Len(que[w]) /\ que'[w][i] = que[w][i + 1] /\ i + 1 # 1
  BY <1>1, <1>3, TailSeq
<1> QED
  BY <1>4, <1>5, <1>6

-----------------------------------------------------------------------------
(* Where a corctx cannot be. *)

(* What one thread has in hand no other has. *)
LEMMA OneHand ==
  ASSUME Visits, Apart, NEW t \in Threads, NEW u \in Threads, ev[t] \in Coros, ev[u] = ev[t]
  PROVE  t = u
<1>1. at[t] = strand[ev[t]] /\ at[u] = strand[ev[u]]
  BY DEF Apart
<1>2. ev[t] # None
  BY NoneAssumption
<1> QED
  BY <1>1, <1>2 DEF Visits

(* The stack a thread is on is of the corctx it has in hand. *)
LEMMA OneStack ==
  ASSUME Types, Visits, Apart, NEW t \in Threads, NEW u \in Threads, ev[t] \in Coros, run[u] = ev[t]
  PROVE  u = t
<1>1. run[u] # None
  BY NoneAssumption
<1>2. ev[u] = ev[t]
  BY <1>1 DEF Visits
<1> QED
  BY <1>2, OneHand

(* A corctx in the pool, or not made, is nowhere else. *)
LEMMA Fresh ==
  ASSUME Types, Visits, Waiting, Apart, NEW c \in Coros, c \in pooled \/ home[c] = None
  PROVE  /\ \A t \in Threads : ev[t] # c /\ run[t] # c
         /\ \A v \in Workers : \A i \in 1 .. Len(que[v]) : que[v][i] # c
         /\ c \notin owed
<1>1. \A t \in Threads : ev[t] # c
  BY DEF Apart
<1>2. \A t \in Threads : run[t] # c
  BY <1>1, NoneAssumption DEF Visits
<1>3. \A v \in Workers : \A i \in 1 .. Len(que[v]) : que[v][i] # c
  BY DEF Waiting, MayWait
<1> QED
  BY <1>1, <1>2, <1>3 DEF Apart

(* Nor is one that runs, or is about to, and will not leave yet. *)
LEMMA InHand ==
  ASSUME Waiting, Apart, NEW t \in Threads, ev[t] \in Coros, run[t] = None \/ phase[t] = "code"
  PROVE  /\ \A v \in Workers : \A i \in 1 .. Len(que[v]) : que[v][i] # ev[t]
         /\ ev[t] \notin owed
<1>1. ~ Leaving(ev[t])
  BY DEF Leaving
<1>2. ev[t] \notin owed
  BY <1>1 DEF Apart
<1>3. ASSUME NEW v \in Workers, NEW i \in 1 .. Len(que[v]), que[v][i] = ev[t] PROVE FALSE
  BY <1>1, <1>3 DEF Waiting, MayWait
<1> QED
  BY <1>2, <1>3

-----------------------------------------------------------------------------
(* Steps *)

LEMMA InitHolds == Init => IInv
<1> SUFFICES ASSUME Init PROVE IInv
  OBVIOUS
<1> USE DEF Init
<1>1. Types
  BY <<>> \in Seq(Events) DEF Types
<1>2. Visits /\ OnHost
  BY DEF Visits, OnHost
<1>3. \A w \in Workers : Len(que[w]) = 0
  OBVIOUS
<1>4. Waiting /\ Once
  BY <1>3 DEF Waiting, Once
<1>5. Apart
  BY NoneAssumption DEF Apart
<1> QED
  BY <1>1, <1>2, <1>4, <1>5 DEF IInv

LEMMA SpawnStep ==
  ASSUME IInv, NEW w \in Workers, NEW size \in Sizes, Spawn(w, size)
  PROVE  IInv'
<1> DEFINE e == [handler |-> spawned + 1, size |-> size]
<1>0. spawned \in Nat /\ spawned < MaxSpawn
  BY DEF Spawn, IInv, Types
<1>1. e \in SpawnEvents /\ spawned' \in Nat
  BY <1>0, BoundAssumption DEF Spawn, SpawnEvents, Handlers
<1>2. Async(w, e) /\ UNCHANGED <<threadVars, coroVars, owed, aborted>>
  BY DEF Spawn
<1> HIDE DEF e
<1>3. e \notin Coros /\ e \in Events
  BY <1>1, EventsAssumption DEF Events
<1>4. que' \in [Workers -> Seq(Events)]
  BY <1>2, <1>3, AsyncFacts DEF IInv
<1>5. Types'
  BY <1>1, <1>2, <1>4 DEF IInv, Types, threadVars, coroVars
<1>6. Visits' /\ Apart' /\ OnHost'
  BY <1>2 DEF IInv, Visits, Apart, Leaving, OnHost, threadVars, coroVars
<1>7. \A c \in Coros : \A v \in Workers : \A i \in 1 .. Len(que[v]) :
          que[v][i] = c => MayWait(c, v)'
  BY <1>2 DEF IInv, Waiting, MayWait, Leaving, threadVars, coroVars
<1>8. Waiting'
  BY EventsAssumption, <1>2, <1>3, <1>7, AsyncWaits DEF IInv
<1>9. Once'
  BY <1>2, <1>3, AsyncOnce DEF IInv
<1> QED
  BY <1>5, <1>6, <1>8, <1>9 DEF IInv

LEMMA ResumeStep ==
  ASSUME IInv, NEW c \in Coros, Resume(c)
  PROVE  IInv'
<1>0. Types /\ Visits /\ Waiting /\ Once /\ Apart /\ OnHost
  BY DEF IInv
<1>01. c \in owed /\ strand[c] \in Workers
  BY <1>0 DEF Resume, Apart, Types
<1> PICK w \in Workers : w = strand[c]
  BY <1>01
<1>1. /\ owed' = owed \ {c} /\ Async(w, c)
      /\ UNCHANGED <<threadVars, coroVars, history, aborted>>
  BY DEF Resume
<1>2. home[c] # None /\ c \notin pooled /\ Leaving(c)
  BY <1>0, <1>01 DEF Apart
<1>3. c \in Events
  BY DEF Events
<1>4. \A i \in 1 .. Len(que[w]) : que[w][i] # c
  BY <1>0, <1>01 DEF Waiting, MayWait
<1>5. que' \in [Workers -> Seq(Events)]
  BY <1>0, <1>1, <1>2, <1>3, AsyncFacts
<1>6. Types'
  BY <1>0, <1>1, <1>5 DEF Types, threadVars, coroVars, history
<1>7. Visits' /\ Apart' /\ OnHost'
  BY <1>0, <1>1 DEF Visits, Apart, Leaving, OnHost, threadVars, coroVars
<1>8. \A d \in Coros : \A v \in Workers : \A i \in 1 .. Len(que[v]) :
          que[v][i] = d => MayWait(d, v)'
  BY <1>0, <1>1 DEF Waiting, MayWait, Leaving, threadVars, coroVars
<1>9. \A d \in Coros : c = d => MayWait(d, w)'
  BY <1>1, <1>2 DEF MayWait, Leaving, threadVars, coroVars
<1>10. Waiting'
  BY <1>0, <1>1, <1>2, <1>3, <1>8, <1>9, AsyncWaits
<1>11. Once'
  BY <1>0, <1>1, <1>2, <1>3, <1>4, AsyncOnce
<1> QED
  BY <1>6, <1>7, <1>10, <1>11 DEF IInv

LEMMA TakeStep ==
  ASSUME IInv, NEW t \in Threads, NEW w \in Workers, Take(t, w)
  PROVE  IInv'
<1> DEFINE e == Head(que[w])
<1>0. Types /\ Visits /\ Waiting /\ Once /\ Apart /\ OnHost
  BY DEF IInv
<1>1. /\ at[t] = None /\ (\A u \in Threads : at[u] # w) /\ que[w] # <<>>
      /\ at' = [at EXCEPT ![t] = w] /\ ev' = [ev EXCEPT ![t] = e]
      /\ que' = [que EXCEPT ![w] = Tail(que[w])]
      /\ UNCHANGED <<curr, run, phase, coroVars, owed, history, aborted>>
  BY DEF Take
<1>2. /\ que' \in [Workers -> Seq(Events)]
      /\ 1 \in 1 .. Len(que[w]) /\ e = que[w][1] /\ e \in Events
      /\ \A i \in 1 .. Len(que'[w]) :
             i + 1 \in 1 .. Len(que[w]) /\ que'[w][i] = que[w][i + 1] /\ i + 1 # 1
      /\ \A v \in Workers \ {w} : que'[v] = que[v]
  BY <1>0, <1>1, PopFacts
<1> HIDE DEF e
<1>3. ev[t] = None /\ run[t] = None
  BY <1>0, <1>1 DEF Visits, Types
<1>4. e # None /\ w # None
  BY <1>2, NoneAssumption, EventsAssumption DEF Events
<1>5. e \in Coros => MayWait(e, w)
  BY <1>0, <1>2 DEF Waiting
<1>6. /\ at'[t] = w /\ ev'[t] = e
      /\ \A u \in Threads \ {t} : at'[u] = at[u] /\ ev'[u] = ev[u]
  BY <1>0, <1>1 DEF Types
<1>7. Types'
  BY <1>0, <1>1, <1>2 DEF Types, coroVars, history
<1>8. Visits'
  BY <1>0, <1>1, <1>3, <1>4, <1>6 DEF Visits
<1>9. ASSUME NEW d \in Coros, Leaving(d), d # e PROVE Leaving(d)'
  BY <1>1, <1>3, <1>6, <1>9 DEF Leaving
<1>10. \A v \in Workers : \A i \in 1 .. Len(que'[v]) : \A d \in Coros :
           que'[v][i] = d => d # e /\ MayWait(d, v)
  <2> SUFFICES ASSUME NEW v \in Workers, NEW i \in 1 .. Len(que'[v]), NEW d \in Coros,
                      que'[v][i] = d
               PROVE  d # e /\ MayWait(d, v)
    BY Zenon
  <2>1. CASE v = w
    <3>1. i + 1 \in 1 .. Len(que[w]) /\ que[w][i + 1] = d /\ i + 1 # 1
      BY <1>2, <2>1
    <3>2. d # e
      BY <1>0, <1>2, <3>1 DEF Once
    <3> QED
      BY <1>0, <2>1, <3>1, <3>2 DEF Waiting
  <2>2. CASE v # w
    <3>1. que'[v] = que[v]
      BY <1>2, <2>2
    <3>2. MayWait(d, v)
      BY <1>0, <3>1 DEF Waiting
    <3> QED
      BY <1>5, <2>2, <3>2 DEF MayWait
  <2> QED
    BY <2>1, <2>2
<1>11. Waiting'
  <2> SUFFICES ASSUME NEW v \in Workers, NEW i \in 1 .. Len(que'[v]), NEW d \in Coros,
                      que'[v][i] = d
               PROVE  MayWait(d, v)'
    BY Zenon DEF Waiting
  <2>1. d # e /\ MayWait(d, v)
    BY <1>10
  <2>2. Leaving(d)'
    BY <1>9, <2>1 DEF MayWait
  <2> QED
    BY <1>1, <2>1, <2>2 DEF MayWait, coroVars
<1>12. Once'
  <2> SUFFICES ASSUME NEW v \in Workers, NEW i \in 1 .. Len(que'[v]),
                      NEW j \in 1 .. Len(que'[v]),
                      que'[v][i] \in Coros, que'[v][i] = que'[v][j]
               PROVE  i = j
    BY DEF Once
  <2>1. CASE v = w
    <3>1. /\ i + 1 \in 1 .. Len(que[w]) /\ que'[w][i] = que[w][i + 1]
          /\ j + 1 \in 1 .. Len(que[w]) /\ que'[w][j] = que[w][j + 1]
      BY <1>2, <2>1
    <3>2. i + 1 = j + 1
      BY <1>0, <2>1, <3>1 DEF Once
    <3> QED
      BY <3>2
  <2>2. CASE v # w
    BY <1>0, <1>2, <2>2 DEF Once
  <2> QED
    BY <2>1, <2>2
<1>13. Apart'
  <2>1. \A d \in owed : d # e
    BY <1>5 DEF MayWait, Types, IInv
  <2>2. \A d \in owed' : d \notin pooled' /\ home'[d] # None /\ Leaving(d)'
    BY <1>0, <1>1, <1>9, <2>1 DEF Apart, Types, coroVars
  <2>3. \A u \in Threads : ev'[u] \in Coros =>
            ev'[u] \notin pooled' /\ home'[ev'[u]] # None /\ at'[u] = strand'[ev'[u]]
    <3> SUFFICES ASSUME NEW u \in Threads, ev'[u] \in Coros
                 PROVE  ev'[u] \notin pooled /\ home[ev'[u]] # None /\ at'[u] = strand[ev'[u]]
      BY <1>1 DEF coroVars
    <3>1. CASE u = t
      BY <1>5, <1>6, <3>1 DEF MayWait
    <3>2. CASE u # t
      BY <1>0, <1>6, <3>2 DEF Apart
    <3> QED
      BY <3>1, <3>2
  <2> QED
    BY <1>0, <1>1, <2>2, <2>3 DEF Apart, coroVars
<1>14. OnHost'
  BY <1>0, <1>1 DEF OnHost, coroVars
<1> QED
  BY <1>7, <1>8, <1>11, <1>12, <1>13, <1>14 DEF IInv

(* What leaving its worker changes of what thread t has in hand. *)
LEMMA LeaveFacts ==
  ASSUME Types, NEW t \in Threads, Leave(t)
  PROVE  /\ at' \in [Threads -> Workers \cup {None}] /\ ev' \in [Threads -> Events \cup {None}]
         /\ at'[t] = None /\ ev'[t] = None
         /\ \A u \in Threads \ {t} : at'[u] = at[u] /\ ev'[u] = ev[u]
BY DEF Types, Leave

(* cque::get: the corctx was in no use, and is on a strand. *)
LEMMA GetFacts ==
  ASSUME Types, Apart, NEW t \in Threads, NEW c \in Coros, GetCorctx(t, c)
  PROVE  /\ c \in pooled \/ home[c] = None
         /\ home' \in [Coros -> Threads \cup {None}] /\ strand' \in [Coros -> Workers \cup {None}]
         /\ pooled' = pooled \ {c} /\ home'[c] # None /\ strand'[c] \in Workers
         /\ \A d \in Coros \ {c} : home'[d] = home[d] /\ strand'[d] = strand[d]
<1>1. CASE c \in {d \in pooled : home[d] = t} /\ pooled' = pooled \ {c}
           /\ UNCHANGED <<home, strand>>
  BY <1>1 DEF Types, Apart
<1>2. CASE {d \in pooled : home[d] = t} = {} /\ home[c] = None
           /\ home' = [home EXCEPT ![c] = t]
           /\ (\E w \in Workers : strand' = [strand EXCEPT ![c] = w]) /\ UNCHANGED pooled
  <2>1. PICK w \in Workers : strand' = [strand EXCEPT ![c] = w]
    BY <1>2
  <2>2. c \notin pooled
    BY <1>2 DEF Apart
  <2>3. home' \in [Coros -> Threads \cup {None}] /\ home'[c] = t
        /\ \A d \in Coros \ {c} : home'[d] = home[d]
    BY <1>2 DEF Types
  <2>4. strand' \in [Coros -> Workers \cup {None}] /\ strand'[c] = w
        /\ \A d \in Coros \ {c} : strand'[d] = strand[d]
    BY <2>1 DEF Types
  <2> QED
    BY <1>2, <2>2, <2>3, <2>4, NoneAssumption
<1> QED
  BY <1>1, <1>2 DEF GetCorctx

LEMMA HandleSpawnStep ==
  ASSUME IInv, NEW t \in Threads, run[t] = None, HandleSpawn(t)
  PROVE  IInv'
<1>0. Types /\ Visits /\ Waiting /\ Once /\ Apart /\ OnHost
  BY DEF IInv
<1>1. PICK c \in Coros : /\ GetCorctx(t, c)
                         /\ MakeContext(c, ev[t])
                         /\ Async(strand'[c], c)
  BY DEF HandleSpawn
<1>2. ev[t] \in SpawnEvents /\ Leave(t)
      /\ UNCHANGED <<curr, run, phase, thrctx, host, owed, history, aborted>>
  BY DEF HandleSpawn
<1>3. /\ c \in pooled \/ home[c] = None
      /\ home' \in [Coros -> Threads \cup {None}] /\ strand' \in [Coros -> Workers \cup {None}]
      /\ pooled' = pooled \ {c} /\ home'[c] # None /\ strand'[c] \in Workers
      /\ \A d \in Coros \ {c} : home'[d] = home[d] /\ strand'[d] = strand[d]
  BY <1>0, <1>1, GetFacts
<1>4. /\ \A u \in Threads : ev[u] # c /\ run[u] # c
      /\ \A v \in Workers : \A i \in 1 .. Len(que[v]) : que[v][i] # c
      /\ c \notin owed
  BY <1>0, <1>3, Fresh
<1>5. /\ at' \in [Threads -> Workers \cup {None}] /\ ev' \in [Threads -> Events \cup {None}]
      /\ at'[t] = None /\ ev'[t] = None
      /\ \A u \in Threads \ {t} : at'[u] = at[u] /\ ev'[u] = ev[u]
  BY <1>0, <1>2, LeaveFacts
<1>6. /\ saved' \in [Coros -> {"none", "start", "running", "yield", "end"}]
      /\ \A d \in Coros \ {c} : saved'[d] = saved[d]
  BY <1>0, <1>1 DEF MakeContext, Types
<1> PICK w \in Workers : w = strand'[c]
  BY <1>3
<1>7. Async(w, c) /\ c \in Events
  BY <1>1 DEF Events
<1>8. que' \in [Workers -> Seq(Events)]
  BY <1>0, <1>7, AsyncFacts
<1>9. Types'
  BY <1>0, <1>2, <1>3, <1>5, <1>6, <1>8 DEF Types, history
<1>10. Visits'
  BY <1>0, <1>2, <1>5 DEF Visits
<1>11. ASSUME NEW d \in Coros, Leaving(d) PROVE Leaving(d)'
  BY <1>2, <1>5, <1>11, NoneAssumption DEF Leaving
<1>12. Leaving(c)'
  BY <1>4, <1>5, NoneAssumption DEF Leaving
<1>13. \A d \in Coros : \A v \in Workers : \A i \in 1 .. Len(que[v]) :
           que[v][i] = d => MayWait(d, v)'
  <2> SUFFICES ASSUME NEW d \in Coros, NEW v \in Workers, NEW i \in 1 .. Len(que[v]),
                      que[v][i] = d
               PROVE  MayWait(d, v)'
    OBVIOUS
  <2>1. d # c /\ MayWait(d, v)
    BY <1>0, <1>4 DEF Waiting
  <2>2. Leaving(d)'
    BY <1>11, <2>1 DEF MayWait
  <2> QED
    BY <1>2, <1>3, <2>1, <2>2 DEF MayWait
<1>14. \A d \in Coros : c = d => MayWait(d, w)'
  <2> SUFFICES MayWait(c, w)'
    OBVIOUS
  <2> QED
    BY <1>2, <1>3, <1>4, <1>12 DEF MayWait
<1>15. Waiting'
  BY <1>0, <1>7, <1>13, <1>14, AsyncWaits
<1>16. Once'
  BY <1>0, <1>4, <1>7, AsyncOnce
<1>17. Apart'
  <2>1. \A d \in owed' : d \notin pooled' /\ home'[d] # None /\ Leaving(d)'
    <3> SUFFICES ASSUME NEW d \in owed, d \in Coros
                 PROVE  d \notin pooled' /\ home'[d] # None /\ Leaving(d)'
      BY <1>0, <1>2 DEF Types
    <3>1. d # c /\ d \notin pooled /\ home[d] # None /\ Leaving(d)
      BY <1>0, <1>4 DEF Apart
    <3> QED
      BY <1>3, <1>11, <3>1
  <2>2. \A u \in Threads : ev'[u] \in Coros =>
            ev'[u] \notin pooled' /\ home'[ev'[u]] # None /\ at'[u] = strand'[ev'[u]]
    <3> SUFFICES ASSUME NEW u \in Threads, ev'[u] \in Coros
                 PROVE  ev'[u] \notin pooled' /\ home'[ev'[u]] # None /\ at'[u] = strand'[ev'[u]]
      OBVIOUS
    <3>1. u # t
      BY <1>5, NoneAssumption
    <3>2. at'[u] = at[u] /\ ev'[u] = ev[u] /\ ev[u] # c
      BY <1>4, <1>5, <3>1
    <3>3. ev[u] \notin pooled /\ home[ev[u]] # None /\ at[u] = strand[ev[u]]
      BY <1>0, <3>2 DEF Apart
    <3> QED
      BY <1>3, <3>2, <3>3
  <2>3. (\A d \in pooled' : home'[d] # None)
        /\ \A d \in Coros : home'[d] # None => strand'[d] # None
    <3>1. pooled \subseteq Coros /\ (\A d \in pooled : home[d] # None)
          /\ \A d \in Coros : home[d] # None => strand[d] # None
      BY <1>0 DEF Apart, Types
    <3>2. strand'[c] # None
      BY <1>3, NoneAssumption
    <3> QED
      BY <1>3, <3>1, <3>2
  <2> QED
    BY <2>1, <2>2, <2>3 DEF Apart
<1>18. OnHost'
  <2> SUFFICES ASSUME NEW u \in Threads
               PROVE  /\ run[u] # None => /\ host[run[u]] = u /\ thrctx[run[u]] = u
                                          /\ saved'[run[u]] = "running"
                      /\ aborted \/ curr[u] = run[u]
    BY <1>2 DEF OnHost
  <2>1. run[u] # None => run[u] \in Coros \ {c}
    BY <1>0, <1>4 DEF Types
  <2> QED
    BY <1>0, <1>6, <2>1 DEF OnHost
<1> QED
  BY <1>9, <1>10, <1>15, <1>16, <1>17, <1>18 DEF IInv

LEMMA HandleCoroStep ==
  ASSUME IInv, ~ aborted, NEW t \in Threads, run[t] = None, HandleCoro(t)
  PROVE  IInv'
<1>0. Types /\ Visits /\ Waiting /\ Once /\ Apart /\ OnHost
  BY DEF IInv
<1> PICK c \in Coros : c = ev[t]
  BY DEF HandleCoro
<1>1. /\ thrctx' = [thrctx EXCEPT ![c] = t] /\ host' = [host EXCEPT ![c] = t]
      /\ curr' = [curr EXCEPT ![t] = c] /\ Jump(t, c)
      /\ UNCHANGED <<que, at, ev, strand, home, pooled, owed, spawned>>
  BY DEF HandleCoro, SetHost, history
<1>2. \/ aborted' = TRUE /\ UNCHANGED <<run, phase, saved>>
      \/ /\ run' = [run EXCEPT ![t] = c] /\ phase' = [phase EXCEPT ![t] = "code"]
         /\ saved' = [saved EXCEPT ![c] = "running"] /\ UNCHANGED aborted
  BY <1>1 DEF Jump
<1>3. /\ \A v \in Workers : \A i \in 1 .. Len(que[v]) : que[v][i] # c
      /\ c \notin owed
  BY <1>0, InHand
<1>4. \A u \in Threads : (ev[u] = c => u = t) /\ run[u] # c
  <2> SUFFICES ASSUME NEW u \in Threads PROVE (ev[u] = c => u = t) /\ run[u] # c
    OBVIOUS
  <2>1. ev[u] = c => u = t
    BY <1>0, OneHand
  <2>2. run[u] # c
    BY <1>0, <2>1, NoneAssumption DEF Visits
  <2> QED
    BY <2>1, <2>2
<1>5. Types'
  <2>1. thrctx' \in [Coros -> Threads \cup {None}] /\ host' \in [Coros -> Threads \cup {None}]
        /\ curr' \in [Threads -> Coros \cup {None}]
    BY <1>0, <1>1 DEF Types
  <2>2. /\ run' \in [Threads -> Coros \cup {None}]
        /\ phase' \in [Threads -> {"code", "yield", "last yield"}]
        /\ saved' \in [Coros -> {"none", "start", "running", "yield", "end"}]
    <3>1. /\ run \in [Threads -> Coros \cup {None}]
          /\ phase \in [Threads -> {"code", "yield", "last yield"}]
          /\ saved \in [Coros -> {"none", "start", "running", "yield", "end"}]
      BY <1>0 DEF Types
    <3>2. CASE UNCHANGED <<run, phase, saved>>
      BY <3>1, <3>2
    <3>3. CASE /\ run' = [run EXCEPT ![t] = c] /\ phase' = [phase EXCEPT ![t] = "code"]
               /\ saved' = [saved EXCEPT ![c] = "running"]
      BY <3>1, <3>3
    <3> QED
      BY <1>2, <3>2, <3>3
  <2> QED
    BY <1>0, <1>1, <2>1, <2>2 DEF Types
<1>6. \A u \in Threads \ {t} : run'[u] = run[u] /\ phase'[u] = phase[u]
  BY <1>0, <1>2 DEF Types
<1>7. run'[t] = None \/ run'[t] = c
  BY <1>0, <1>2 DEF Types
<1>8. Visits'
  BY <1>0, <1>1, <1>6, <1>7 DEF Visits
<1>9. ASSUME NEW d \in Coros, Leaving(d), d # c PROVE Leaving(d)'
  BY <1>1, <1>6, <1>9 DEF Leaving
<1>10. Waiting'
  <2> SUFFICES ASSUME NEW v \in Workers, NEW i \in 1 .. Len(que[v]), NEW d \in Coros,
                      que[v][i] = d
               PROVE  MayWait(d, v)'
    BY <1>1, Zenon DEF Waiting
  <2>1. d # c /\ MayWait(d, v)
    BY <1>0, <1>3 DEF Waiting
  <2>2. Leaving(d)'
    BY <1>9, <2>1 DEF MayWait
  <2> QED
    BY <1>1, <2>1, <2>2 DEF MayWait
<1>11. Once'
  BY <1>0, <1>1 DEF Once
<1>12. Apart'
  <2>1. \A d \in owed : d \notin pooled /\ home[d] # None /\ Leaving(d)'
    BY <1>0, <1>3, <1>9 DEF Apart, Types
  <2> QED
    BY <1>0, <1>1, <2>1 DEF Apart
<1>13. OnHost'
  <2>1. /\ thrctx'[c] = t /\ host'[c] = t /\ curr'[t] = c
        /\ \A d \in Coros \ {c} : thrctx'[d] = thrctx[d] /\ host'[d] = host[d]
        /\ \A u \in Threads \ {t} : curr'[u] = curr[u]
    BY <1>0, <1>1 DEF Types
  <2>2. /\ run'[t] = c => saved'[c] = "running"
        /\ \A d \in Coros \ {c} : saved'[d] = saved[d]
    BY <1>0, <1>2, NoneAssumption DEF Types
  <2>3. run'[t] = c \/ aborted' = TRUE
    BY <1>0, <1>2 DEF Types
  <2>4. \A u \in Threads : aborted' \/ curr'[u] = run'[u]
    <3> SUFFICES ASSUME NEW u \in Threads, aborted' # TRUE
                 PROVE  curr'[u] = run'[u]
      OBVIOUS
    <3>1. CASE u = t
      BY <2>1, <2>3, <3>1
    <3>2. CASE u # t
      BY <1>0, <1>6, <2>1, <3>2 DEF OnHost
    <3> QED
      BY <3>1, <3>2
  <2>5. ASSUME NEW u \in Threads, run'[u] # None
        PROVE  host'[run'[u]] = u /\ thrctx'[run'[u]] = u /\ saved'[run'[u]] = "running"
    <3>1. CASE u = t
      BY <1>7, <2>1, <2>2, <2>5, <3>1
    <3>2. CASE u # t
      <4>1. run'[u] = run[u] /\ run[u] \in Coros \ {c}
        BY <1>0, <1>4, <1>6, <2>5, <3>2 DEF Types
      <4> QED
        BY <1>0, <2>1, <2>2, <2>5, <4>1 DEF OnHost
    <3> QED
      BY <3>1, <3>2
  <2> QED
    BY <2>4, <2>5 DEF OnHost
<1> QED
  BY <1>5, <1>8, <1>10, <1>11, <1>12, <1>13 DEF IInv

LEMMA ReleaseStep ==
  ASSUME IInv, NEW t \in Threads, run[t] = None, Release(t)
  PROVE  IInv'
<1>0. Types /\ Visits /\ Waiting /\ Once /\ Apart /\ OnHost
  BY DEF IInv
<1> PICK c \in Coros : c = ev[t]
  BY DEF Release
<1>1. /\ pooled' = pooled \cup {c}
      /\ thrctx' = [thrctx EXCEPT ![c] = None] /\ host' = [host EXCEPT ![c] = None]
      /\ Leave(t)
      /\ UNCHANGED <<que, curr, run, phase, saved, strand, home, owed, spawned, aborted>>
  BY DEF Release, history
<1>2. /\ \A v \in Workers : \A i \in 1 .. Len(que[v]) : que[v][i] # c
      /\ c \notin owed
  BY <1>0, InHand
<1>3. \A u \in Threads : ev[u] = c => u = t
  BY <1>0, OneHand
<1>4. \A u \in Threads : run[u] # c
  BY <1>0, OneStack, NoneAssumption
<1>5. /\ at' \in [Threads -> Workers \cup {None}] /\ ev' \in [Threads -> Events \cup {None}]
      /\ at'[t] = None /\ ev'[t] = None
      /\ \A u \in Threads \ {t} : at'[u] = at[u] /\ ev'[u] = ev[u]
  BY <1>0, <1>1, LeaveFacts
<1>6. /\ thrctx' \in [Coros -> Threads \cup {None}] /\ host' \in [Coros -> Threads \cup {None}]
      /\ \A d \in Coros \ {c} : thrctx'[d] = thrctx[d] /\ host'[d] = host[d]
  BY <1>0, <1>1 DEF Types
<1>7. Types'
  BY <1>0, <1>1, <1>5, <1>6 DEF Types
<1>8. Visits'
  BY <1>0, <1>1, <1>5 DEF Visits
<1>9. ASSUME NEW d \in Coros, Leaving(d) PROVE Leaving(d)'
  BY <1>1, <1>5, <1>9, NoneAssumption DEF Leaving
<1>10. Waiting'
  <2> SUFFICES ASSUME NEW v \in Workers, NEW i \in 1 .. Len(que[v]), NEW d \in Coros,
                      que[v][i] = d
               PROVE  MayWait(d, v)'
    BY <1>1, Zenon DEF Waiting
  <2>1. d # c /\ MayWait(d, v)
    BY <1>0, <1>2 DEF Waiting
  <2>2. Leaving(d)'
    BY <1>9, <2>1 DEF MayWait
  <2> QED
    BY <1>1, <2>1, <2>2 DEF MayWait
<1>11. Once'
  BY <1>0, <1>1 DEF Once
<1>12. Apart'
  <2>1. home[c] # None
    BY <1>0 DEF Apart
  <2>2. \A d \in owed : d \notin pooled' /\ home[d] # None /\ Leaving(d)'
    <3> SUFFICES ASSUME NEW d \in owed, d \in Coros
                 PROVE  d \notin pooled' /\ home[d] # None /\ Leaving(d)'
      BY <1>0 DEF Types
    <3>1. d # c /\ d \notin pooled /\ home[d] # None /\ Leaving(d)
      BY <1>0, <1>2 DEF Apart
    <3> QED
      BY <1>1, <1>9, <3>1
  <2>3. ASSUME NEW u \in Threads, ev'[u] \in Coros
        PROVE  ev'[u] \notin pooled' /\ home[ev'[u]] # None /\ at'[u] = strand[ev'[u]]
    <3>1. u # t
      BY <1>5, <2>3, NoneAssumption
    <3>2. at'[u] = at[u] /\ ev'[u] = ev[u] /\ ev[u] # c
      BY <1>3, <1>5, <3>1
    <3>3. ev[u] \notin pooled /\ home[ev[u]] # None /\ at[u] = strand[ev[u]]
      BY <1>0, <2>3, <3>2 DEF Apart
    <3> QED
      BY <1>1, <3>2, <3>3
  <2> QED
    BY <1>0, <1>1, <2>1, <2>2, <2>3 DEF Apart
<1>13. OnHost'
  <2> SUFFICES ASSUME NEW u \in Threads
               PROVE  /\ run[u] # None => /\ host'[run[u]] = u /\ thrctx'[run[u]] = u
                                          /\ saved[run[u]] = "running"
                      /\ aborted \/ curr[u] = run[u]
    BY <1>1 DEF OnHost
  <2>1. run[u] # None => run[u] \in Coros \ {c}
    BY <1>0, <1>4 DEF Types
  <2> QED
    BY <1>0, <1>6, <2>1 DEF OnHost
<1> QED
  BY <1>7, <1>8, <1>10, <1>11, <1>12, <1>13 DEF IInv

(* A thread on a stack has its corctx in hand, and it is one. *)
LEMMA OnStack ==
  ASSUME Types, Visits, NEW t \in Threads, run[t] # None
  PROVE  ev[t] = run[t] /\ ev[t] \in Coros
BY DEF Types, Visits

LEMMA ArrangeStep ==
  ASSUME IInv, NEW t \in Threads, Arrange(t)
  PROVE  IInv'
<1>0. Types /\ Visits /\ Waiting /\ Once /\ Apart /\ OnHost
  BY DEF IInv
<1>1. run[t] # None /\ phase[t] = "code"
  BY DEF Arrange
<1>2. ev[t] = run[t] /\ ev[t] \in Coros
  BY <1>0, <1>1, OnStack
<1> PICK c \in Coros : c = run[t]
  BY <1>2
<1>3. /\ owed' = owed \cup {c} /\ phase' = [phase EXCEPT ![t] = "yield"]
      /\ UNCHANGED <<que, at, ev, curr, run, thrctx, host, saved, strand, home, pooled,
                     spawned, aborted>>
  BY DEF Arrange, coroVars
<1>4. \A v \in Workers : \A i \in 1 .. Len(que[v]) : que[v][i] # c
  BY <1>0, <1>1, <1>2, InHand
<1>5. phase' \in [Threads -> {"code", "yield", "last yield"}] /\ phase'[t] = "yield"
      /\ \A u \in Threads \ {t} : phase'[u] = phase[u]
  BY <1>0, <1>3 DEF Types
<1>6. Types'
  BY <1>0, <1>3, <1>5 DEF Types
<1>7. Visits' /\ Once' /\ OnHost'
  BY <1>0, <1>3 DEF Visits, Once, OnHost
<1>8. ASSUME NEW d \in Coros, Leaving(d) PROVE Leaving(d)'
  BY <1>3, <1>5, <1>8 DEF Leaving
<1>9. Leaving(c)'
  <2> SUFFICES ASSUME NEW u \in Threads, ev[u] = c PROVE run[u] # None /\ phase'[u] # "code"
    BY <1>3 DEF Leaving
  <2>1. u = t
    BY <1>0, <1>2, OneHand
  <2> QED
    BY <1>1, <1>5, <2>1
<1>10. Waiting'
  <2> SUFFICES ASSUME NEW v \in Workers, NEW i \in 1 .. Len(que[v]), NEW d \in Coros,
                      que[v][i] = d
               PROVE  MayWait(d, v)'
    BY <1>3, Zenon DEF Waiting
  <2>1. d # c /\ MayWait(d, v)
    BY <1>0, <1>4 DEF Waiting
  <2>2. Leaving(d)'
    BY <1>8, <2>1 DEF MayWait
  <2> QED
    BY <1>3, <2>1, <2>2 DEF MayWait
<1>11. Apart'
  <2>1. c \notin pooled /\ home[c] # None
    BY <1>0, <1>2 DEF Apart
  <2>2. \A d \in owed' : d \notin pooled /\ home[d] # None /\ Leaving(d)'
    <3> SUFFICES ASSUME NEW d \in owed, d \in Coros
                 PROVE  d \notin pooled /\ home[d] # None /\ Leaving(d)'
      BY <1>0, <1>3, <1>9, <2>1 DEF Types
    <3>1. d \notin pooled /\ home[d] # None /\ Leaving(d)
      BY <1>0 DEF Apart
    <3> QED
      BY <1>8, <3>1
  <2> QED
    BY <1>0, <1>3, <2>2 DEF Apart
<1> QED
  BY <1>6, <1>7, <1>10, <1>11 DEF IInv

LEMMA ReturnStep ==
  ASSUME IInv, NEW t \in Threads, Return(t)
  PROVE  IInv'
<1>0. Types /\ Visits /\ Waiting /\ Once /\ Apart /\ OnHost
  BY DEF IInv
<1>1. run[t] # None /\ phase[t] = "code"
  BY DEF Return
<1>2. ev[t] = run[t] /\ ev[t] \in Coros
  BY <1>0, <1>1, OnStack
<1> PICK c \in Coros : c = run[t]
  BY <1>2
<1>3. c \notin pooled /\ home[c] # None /\ strand[c] \in Workers
  BY <1>0, <1>2 DEF Apart, Types
<1> PICK w \in Workers : w = strand[c]
  BY <1>3
<1>4. /\ Async(w, c) /\ c \in Events /\ phase' = [phase EXCEPT ![t] = "last yield"]
      /\ UNCHANGED <<at, ev, curr, run, thrctx, host, saved, strand, home, pooled, owed,
                     spawned, aborted>>
  BY DEF Return, Events
<1>5. /\ \A v \in Workers : \A i \in 1 .. Len(que[v]) : que[v][i] # c
      /\ c \notin owed
  BY <1>0, <1>1, <1>2, InHand
<1>6. phase' \in [Threads -> {"code", "yield", "last yield"}] /\ phase'[t] = "last yield"
      /\ \A u \in Threads \ {t} : phase'[u] = phase[u]
  BY <1>0, <1>4 DEF Types
<1>7. que' \in [Workers -> Seq(Events)]
  BY <1>0, <1>4, AsyncFacts
<1>8. Types'
  BY <1>0, <1>4, <1>6, <1>7 DEF Types
<1>9. Visits' /\ OnHost'
  BY <1>0, <1>4 DEF Visits, OnHost
<1>10. ASSUME NEW d \in Coros, Leaving(d) PROVE Leaving(d)'
  BY <1>4, <1>6, <1>10 DEF Leaving
<1>11. Leaving(c)'
  <2> SUFFICES ASSUME NEW u \in Threads, ev[u] = c PROVE run[u] # None /\ phase'[u] # "code"
    BY <1>4 DEF Leaving
  <2>1. u = t
    BY <1>0, <1>2, OneHand
  <2> QED
    BY <1>1, <1>6, <2>1
<1>12. \A d \in Coros : \A v \in Workers : \A i \in 1 .. Len(que[v]) :
           que[v][i] = d => MayWait(d, v)'
  <2> SUFFICES ASSUME NEW d \in Coros, NEW v \in Workers, NEW i \in 1 .. Len(que[v]),
                      que[v][i] = d
               PROVE  MayWait(d, v)'
    OBVIOUS
  <2>1. MayWait(d, v)
    BY <1>0 DEF Waiting
  <2>2. Leaving(d)'
    BY <1>10, <2>1 DEF MayWait
  <2> QED
    BY <1>4, <2>1, <2>2 DEF MayWait
<1>13. \A d \in Coros : c = d => MayWait(d, w)'
  <2> SUFFICES MayWait(c, w)'
    OBVIOUS
  <2> QED
    BY <1>3, <1>4, <1>5, <1>11 DEF MayWait
<1>14. Waiting'
  BY <1>0, <1>4, <1>12, <1>13, AsyncWaits
<1>15. Once'
  BY <1>0, <1>4, <1>5, AsyncOnce
<1>16. Apart'
  <2>1. \A d \in owed : d \notin pooled /\ home[d] # None /\ Leaving(d)'
    <3> SUFFICES ASSUME NEW d \in owed, d \in Coros
                 PROVE  d \notin pooled /\ home[d] # None /\ Leaving(d)'
      BY <1>0 DEF Types
    <3>1. d \notin pooled /\ home[d] # None /\ Leaving(d)
      BY <1>0 DEF Apart
    <3> QED
      BY <1>10, <3>1
  <2> QED
    BY <1>0, <1>4, <2>1 DEF Apart
<1> QED
  BY <1>8, <1>9, <1>14, <1>15, <1>16 DEF IInv

LEMMA YieldStep ==
  ASSUME IInv, NEW t \in Threads, Yield(t)
  PROVE  IInv'
<1>0. Types /\ Visits /\ Waiting /\ Once /\ Apart /\ OnHost
  BY DEF IInv
<1>1. run[t] # None
  BY DEF Yield
<1>2. ev[t] = run[t] /\ ev[t] \in Coros
  BY <1>0, <1>1, OnStack
<1> PICK c \in Coros : c = run[t]
  BY <1>2
<1>3. thrctx[c] = t
  BY <1>0, <1>1 DEF OnHost
<1>4. PICK s \in {"yield", "end"} : saved' = [saved EXCEPT ![c] = s]
  BY DEF Yield
<1>5. /\ curr' = [curr EXCEPT ![t] = None] /\ run' = [run EXCEPT ![t] = None] /\ Leave(t)
      /\ UNCHANGED <<que, phase, thrctx, host, strand, home, pooled, owed, spawned, aborted>>
  BY <1>3 DEF Yield, history
<1>6. /\ at' \in [Threads -> Workers \cup {None}] /\ ev' \in [Threads -> Events \cup {None}]
      /\ at'[t] = None /\ ev'[t] = None
      /\ \A u \in Threads \ {t} : at'[u] = at[u] /\ ev'[u] = ev[u]
  BY <1>0, <1>5, LeaveFacts
<1>7. /\ run' \in [Threads -> Coros \cup {None}] /\ curr' \in [Threads -> Coros \cup {None}]
      /\ run'[t] = None /\ curr'[t] = None
      /\ \A u \in Threads \ {t} : run'[u] = run[u] /\ curr'[u] = curr[u]
  BY <1>0, <1>5 DEF Types
<1>8. /\ saved' \in [Coros -> {"none", "start", "running", "yield", "end"}]
      /\ \A d \in Coros \ {c} : saved'[d] = saved[d]
  BY <1>0, <1>4 DEF Types
<1>9. Types'
  BY <1>0, <1>5, <1>6, <1>7, <1>8 DEF Types
<1>10. Visits'
  BY <1>0, <1>6, <1>7 DEF Visits
<1>11. ASSUME NEW d \in Coros, Leaving(d) PROVE Leaving(d)'
  BY <1>5, <1>6, <1>7, <1>11, NoneAssumption DEF Leaving
<1>12. Waiting'
  <2> SUFFICES ASSUME NEW v \in Workers, NEW i \in 1 .. Len(que[v]), NEW d \in Coros,
                      que[v][i] = d
               PROVE  MayWait(d, v)'
    BY <1>5, Zenon DEF Waiting
  <2>1. MayWait(d, v)
    BY <1>0 DEF Waiting
  <2>2. Leaving(d)'
    BY <1>11, <2>1 DEF MayWait
  <2> QED
    BY <1>5, <2>1, <2>2 DEF MayWait
<1>13. Once'
  BY <1>0, <1>5 DEF Once
<1>14. Apart'
  <2>1. \A d \in owed : d \notin pooled /\ home[d] # None /\ Leaving(d)'
    <3> SUFFICES ASSUME NEW d \in owed, d \in Coros
                 PROVE  d \notin pooled /\ home[d] # None /\ Leaving(d)'
      BY <1>0 DEF Types
    <3>1. d \notin pooled /\ home[d] # None /\ Leaving(d)
      BY <1>0 DEF Apart
    <3> QED
      BY <1>11, <3>1
  <2>2. ASSUME NEW u \in Threads, ev'[u] \in Coros
        PROVE  ev'[u] \notin pooled /\ home[ev'[u]] # None /\ at'[u] = strand[ev'[u]]
    <3>1. u # t
      BY <1>6, <2>2, NoneAssumption
    <3>2. at'[u] = at[u] /\ ev'[u] = ev[u]
      BY <1>6, <3>1
    <3> QED
      BY <1>0, <2>2, <3>2 DEF Apart
  <2> QED
    BY <1>0, <1>5, <2>1, <2>2 DEF Apart
<1>15. OnHost'
  <2> SUFFICES ASSUME NEW u \in Threads
               PROVE  /\ run'[u] # None => /\ host[run'[u]] = u /\ thrctx[run'[u]] = u
                                           /\ saved'[run'[u]] = "running"
                      /\ aborted \/ curr'[u] = run'[u]
    BY <1>5 DEF OnHost
  <2>1. CASE u = t
    BY <1>7, <2>1
  <2>2. CASE u # t
    <3>1. run[u] # c
      BY <1>0, <1>2, <2>2, OneStack
    <3>2. run[u] # None => run[u] \in Coros \ {c}
      BY <1>0, <3>1 DEF Types
    <3> QED
      BY <1>0, <1>7, <1>8, <2>2, <3>2 DEF OnHost
  <2> QED
    BY <2>1, <2>2
<1> QED
  BY <1>9, <1>10, <1>12, <1>13, <1>14, <1>15 DEF IInv

-----------------------------------------------------------------------------
LEMMA NextStep == IInv /\ [Next]_vars => IInv'
<1> SUFFICES ASSUME IInv, [Next]_vars PROVE IInv'
  OBVIOUS
<1>1. ASSUME NEW w \in Workers, NEW size \in Sizes, Spawn(w, size) PROVE IInv'
  BY <1>1, SpawnStep
<1>2. ASSUME NEW c \in Coros, Resume(c) PROVE IInv'
  BY <1>2, ResumeStep
<1>3. ASSUME ~ aborted, NEW t \in Threads, Step(t) PROVE IInv'
  <2>1. ASSUME NEW w \in Workers, Take(t, w) PROVE IInv'
    BY <2>1, TakeStep
  <2>2. CASE run[t] = None /\ HandleSpawn(t)
    BY <2>2, HandleSpawnStep
  <2>3. CASE run[t] = None /\ HandleCoro(t)
    BY <1>3, <2>3, HandleCoroStep
  <2>4. CASE run[t] = None /\ Release(t)
    BY <2>4, ReleaseStep
  <2>5. CASE Arrange(t)
    BY <2>5, ArrangeStep
  <2>6. CASE Return(t)
    BY <2>6, ReturnStep
  <2>7. CASE Yield(t)
    BY <2>7, YieldStep
  <2> QED
    BY <1>3, <2>1, <2>2, <2>3, <2>4, <2>5, <2>6, <2>7 DEF Step
<1>4. CASE UNCHANGED vars
  <2> USE <1>4 DEF vars, threadVars, coroVars, history
  <2>1. Types'
    BY DEF IInv, Types
  <2>2. Visits' /\ Once' /\ OnHost'
    BY DEF IInv, Visits, Once, OnHost
  <2>3. Waiting'
    BY DEF IInv, Waiting, MayWait, Leaving
  <2>4. Apart'
    BY DEF IInv, Apart, Leaving
  <2> QED
    BY <2>1, <2>2, <2>3, <2>4 DEF IInv
<1> QED
  BY <1>1, <1>2, <1>3, <1>4 DEF Next

LEMMA Invariance == Spec => []IInv
BY InitHolds, NextStep, PTL DEF Spec

(***************************************************************************)
(* The thread on a coroutine's stack is the one its corctx points to, and  *)
(* the one whose current coroutine it is, after any number of resumptions  *)
(* by any threads (basic_corctx::set_host and yield).                      *)
(***************************************************************************)
THEOREM OnHostHolds == Spec => []OnHost
<1>1. IInv => OnHost
  BY DEF IInv
<1> QED
  BY Invariance, <1>1, PTL

(* A set any two members of which are one has at most one. *)
LEMMA AtMostOne ==
  ASSUME NEW S, \A x, y \in S : x = y
  PROVE  Cardinality(S) = 0 \/ Cardinality(S) = 1
<1>1. CASE S = {}
  BY <1>1, FS_EmptySet
<1>2. CASE S # {}
  <2>1. PICK x \in S : TRUE
    BY <1>2
  <2>2. S = {x}
    BY <2>1
  <2> QED
    BY <2>2, FS_Singleton
<1> QED
  BY <1>1, <1>2

(***************************************************************************)
(* A corctx, which is its own list node, is in one list at a time: resume, *)
(* the return of the handler and the release to the pool (cque::get, the   *)
(* push of basic_corctx::resume) never link it into two.                   *)
(***************************************************************************)
THEOREM OneListHolds == Spec => []OneList
<1>1. ASSUME IInv PROVE OneList
  <2>0. Types /\ Visits /\ Waiting /\ Once /\ Apart /\ OnHost
    BY <1>1 DEF IInv
  <2> SUFFICES ASSUME NEW c \in Coros
               PROVE  /\ Cardinality(Queued(c)) + (IF c \in pooled \cup owed THEN 1 ELSE 0) <= 1
                      /\ Cardinality({t \in Threads : ev[t] = c}) <= 1
                      /\ c \in pooled => c \notin owed /\ \A t \in Threads : ev[t] # c
    BY DEF OneList
  <2>1. ASSUME NEW p \in Queued(c)
        PROVE  /\ p[1] \in Workers /\ p[2] \in 1 .. Len(que[p[1]]) /\ que[p[1]][p[2]] = c
               /\ p = <<p[1], p[2]>>
    BY <2>1 DEF Queued
  <2>2. ASSUME NEW p \in Queued(c) PROVE strand[c] = p[1] /\ c \notin pooled \cup owed
    BY <2>0, <2>1, <2>2 DEF Waiting, MayWait
  <2>3. ASSUME NEW p \in Queued(c), NEW q \in Queued(c) PROVE p = q
    <3>1. p[1] = q[1]
      BY <2>2, <2>3
    <3>2. p[2] = q[2]
      BY <2>0, <2>1, <2>3, <3>1 DEF Once
    <3> QED
      BY <2>1, <2>3, <3>1, <3>2
  <2>4. Cardinality(Queued(c)) = 0 \/ Cardinality(Queued(c)) = 1
    BY <2>3, AtMostOne
  <2>5. Cardinality(Queued(c)) + (IF c \in pooled \cup owed THEN 1 ELSE 0) <= 1
    <3>1. CASE c \in pooled \cup owed
      <4>1. Queued(c) = {}
        BY <2>2, <3>1
      <4>2. Cardinality(Queued(c)) = 0
        BY <4>1, FS_EmptySet
      <4> QED
        BY <3>1, <4>2
    <3>2. CASE c \notin pooled \cup owed
      BY <2>4, <3>2
    <3> QED
      BY <3>1, <3>2
  <2>6. Cardinality({t \in Threads : ev[t] = c}) <= 1
    <3>1. \A t, u \in {v \in Threads : ev[v] = c} : t = u
      BY <2>0, OneHand
    <3>2. \/ Cardinality({t \in Threads : ev[t] = c}) = 0
          \/ Cardinality({t \in Threads : ev[t] = c}) = 1
      BY <3>1, AtMostOne
    <3> QED
      BY <3>2
  <2>7. c \in pooled => c \notin owed /\ \A t \in Threads : ev[t] # c
    BY <2>0 DEF Apart
  <2> QED
    BY <2>5, <2>6, <2>7
<1>2. IInv => OneList
  BY <1>1
<1> QED
  BY Invariance, <1>2, PTL

-----------------------------------------------------------------------------
(***************************************************************************)
(* The coroutines implement SpawnService for any threads, workers and      *)
(* corctxs.  A handler is in one spawn event, or of one corctx, or has     *)
(* returned; so the thread that enters a corctx is the only one to run its *)
(* handler, and who resumes it the only one to make it ready.              *)
(***************************************************************************)

Numbers == /\ spawned \in 0 .. MaxSpawn
           /\ finished \subseteq 1 .. spawned
           /\ stop \in [Coros -> BOOLEAN]
           /\ hdr \in [Coros -> 0 .. spawned]

(* A corctx that is not pooled has a handler of its own, and has stopped   *)
(* once that has returned; until then it may be resumed.                   *)
Holders == /\ \A c \in Coros : home[c] # None /\ c \notin pooled => hdr[c] # NoHandler
           /\ \A c, d \in Coros : hdr[c] = hdr[d] /\ hdr[c] # NoHandler => c = d
           /\ \A c \in Coros : hdr[c] \in finished => stop[c]
           /\ \A c \in owed : ~ stop[c]
           /\ \A t \in Threads : run[t] # None /\ phase[t] # "last yield" => ~ stop[run[t]]

New(h) == h \in 1 .. spawned /\ h \notin finished /\ \A c \in Coros : hdr[c] # h

(* A handler that waits in a spawn event is nowhere else. *)
UnbornNew ==
    /\ \A w \in Workers : \A i \in 1 .. Len(que[w]) : \A e \in SpawnEvents :
           que[w][i] = e => New(e.handler)
    /\ \A t \in Threads : \A e \in SpawnEvents : ev[t] = e => New(e.handler)

Distinct(v, i, w, j) == \A e, f \in SpawnEvents :
    que[v][i] = e /\ que[w][j] = f /\ e.handler = f.handler => v = w /\ i = j

QueuedOnce ==
    \A v, w \in Workers : \A i \in 1 .. Len(que[v]) : \A j \in 1 .. Len(que[w]) :
        Distinct(v, i, w, j)

NotHeld(w, i, t) == \A e, f \in SpawnEvents :
    que[w][i] = e /\ ev[t] = f => e.handler # f.handler

QueuedOrHeld ==
    \A w \in Workers : \A i \in 1 .. Len(que[w]) : \A t \in Threads : NotHeld(w, i, t)

HeldOnce ==
    \A t, u \in Threads : \A e, f \in SpawnEvents :
        ev[t] = e /\ ev[u] = f /\ e.handler = f.handler => t = u

UnbornOnce == QueuedOnce /\ QueuedOrHeld /\ HeldOnce

HInv == IInv /\ Numbers /\ Holders /\ UnbornNew /\ UnbornOnce

-----------------------------------------------------------------------------
(* The sets of the refinement, member by member. *)

LEMMA QueuedIs ==
  \A x : x \in QueuedEvents <=> \E w \in Workers : \E i \in 1 .. Len(que[w]) : que[w][i] = x
BY DEF QueuedEvents

LEMMA QueuedIsNext ==
  \A x : x \in QueuedEvents' <=> \E w \in Workers : \E i \in 1 .. Len(que'[w]) : que'[w][i] = x
BY DEF QueuedEvents

LEMMA PendingIs ==
  \A x : x \in Pending <=> x \in QueuedEvents \/ \E t \in Threads : run[t] = None /\ ev[t] = x
BY DEF Pending

LEMMA PendingIsNext ==
  \A x : x \in Pending' <=> x \in QueuedEvents' \/ \E t \in Threads : run'[t] = None /\ ev'[t] = x
BY DEF Pending

LEMMA ReadyIs ==
  \A h : h \in Ready <=> \/ \E e \in SpawnEvents : e \in Pending /\ e.handler = h
                         \/ \E c \in Coros : c \in Pending /\ ~ stop[c] /\ hdr[c] = h
BY DEF Ready

LEMMA ReadyIsNext ==
  \A h : h \in Ready' <=> \/ \E e \in SpawnEvents : e \in Pending' /\ e.handler = h
                          \/ \E c \in Coros : c \in Pending' /\ ~ stop'[c] /\ hdr'[c] = h
BY DEF Ready

LEMMA RunningIs ==
  \A h : h \in Running <=>
      \E t \in Threads : run[t] # None /\ phase[t] # "last yield" /\ hdr[run[t]] = h
BY DEF Running, Entered

LEMMA RunningIsNext ==
  \A h : h \in Running' <=>
      \E t \in Threads : run'[t] # None /\ phase'[t] # "last yield" /\ hdr'[run'[t]] = h
BY DEF Running, Entered

LEMMA QueuedAfterAsync ==
  ASSUME Types, NEW w \in Workers, NEW e \in Events, Async(w, e)
  PROVE  \A x : x \in QueuedEvents' <=> x \in QueuedEvents \/ x = e
<1>0. que \in [Workers -> Seq(Events)]
  BY DEF Types
<1>1. que[w] \in Seq(Events)
  BY <1>0
<1>2. que' = [que EXCEPT ![w] = Append(que[w], e)]
  BY DEF Async
<1>3. que'[w] = Append(que[w], e) /\ \A v \in Workers \ {w} : que'[v] = que[v]
  BY <1>0, <1>2
<1>4. /\ Len(que[w]) + 1 \in 1 .. Len(que'[w]) /\ que'[w][Len(que[w]) + 1] = e
      /\ \A i \in 1 .. Len(que[w]) : i \in 1 .. Len(que'[w]) /\ que'[w][i] = que[w][i]
  <2> DEFINE s == que[w]
  <2>1. s \in Seq(Events) /\ que'[w] = Append(s, e)
    BY <1>1, <1>3
  <2> HIDE DEF s
  <2>2. Len(s) \in Nat /\ Len(Append(s, e)) = Len(s) + 1
    BY <2>1
  <2> QED
    BY <2>1, <2>2 DEF s
<1>5. ASSUME NEW x, x \in QueuedEvents \/ x = e PROVE x \in QueuedEvents'
  <2>1. CASE x = e
    BY <1>4, <2>1, QueuedIsNext
  <2>2. CASE x \in QueuedEvents
    <3>1. PICK v \in Workers : \E i \in 1 .. Len(que[v]) : que[v][i] = x
      BY <2>2, QueuedIs
    <3>2. PICK i \in 1 .. Len(que[v]) : que[v][i] = x
      BY <3>1
    <3>3. i \in 1 .. Len(que'[v]) /\ que'[v][i] = x
      BY <1>3, <1>4, <3>2
    <3> QED
      BY <3>3, QueuedIsNext
  <2> QED
    BY <1>5, <2>1, <2>2
<1>6. ASSUME NEW x, x \in QueuedEvents' PROVE x \in QueuedEvents \/ x = e
  <2>1. PICK v \in Workers : \E i \in 1 .. Len(que'[v]) : que'[v][i] = x
    BY <1>6, QueuedIsNext
  <2>2. PICK i \in 1 .. Len(que'[v]) : que'[v][i] = x
    BY <2>1
  <2>3. \/ i \in 1 .. Len(que[v]) /\ que'[v][i] = que[v][i]
        \/ que'[v][i] = e
    BY AsyncFacts
  <2> QED
    BY <2>2, <2>3, QueuedIs
<1> QED
  BY <1>5, <1>6

LEMMA QueuedAfterPop ==
  ASSUME Types, NEW w \in Workers, que[w] # <<>>, que' = [que EXCEPT ![w] = Tail(que[w])]
  PROVE  \A x : x \in QueuedEvents <=> x \in QueuedEvents' \/ x = Head(que[w])
<1>1. /\ 1 \in 1 .. Len(que[w]) /\ Head(que[w]) = que[w][1]
      /\ \A i \in 1 .. Len(que'[w]) :
             i + 1 \in 1 .. Len(que[w]) /\ que'[w][i] = que[w][i + 1] /\ i + 1 # 1
      /\ \A v \in Workers \ {w} : que'[v] = que[v]
  BY PopFacts
<1>2. \A i \in 1 .. Len(que[w]) : i # 1 => i - 1 \in 1 .. Len(que'[w])
  <2> DEFINE s == que[w]
  <2>1. s \in Seq(Events) /\ que'[w] = Tail(s) /\ s # <<>>
    BY DEF Types
  <2> HIDE DEF s
  <2>2. Len(s) \in Nat /\ Len(Tail(s)) = Len(s) - 1
    BY <2>1
  <2> QED
    BY <2>1, <2>2 DEF s
<1>3. ASSUME NEW x, x \in QueuedEvents PROVE x \in QueuedEvents' \/ x = Head(que[w])
  <2>1. PICK v \in Workers : \E i \in 1 .. Len(que[v]) : que[v][i] = x
    BY <1>3, QueuedIs
  <2>2. PICK i \in 1 .. Len(que[v]) : que[v][i] = x
    BY <2>1
  <2>3. CASE v # w
    <3>1. que'[v] = que[v]
      BY <1>1, <2>3
    <3> QED
      BY <2>2, <3>1, QueuedIsNext
  <2>4. CASE v = w /\ i = 1
    BY <1>1, <2>2, <2>4
  <2>5. CASE v = w /\ i # 1
    <3>1. i - 1 \in 1 .. Len(que'[w]) /\ (i - 1) + 1 = i
      BY <1>2, <2>5
    <3>2. que'[w][i - 1] = x
      BY <1>1, <2>2, <2>5, <3>1
    <3> QED
      BY <3>1, <3>2, QueuedIsNext
  <2> QED
    BY <2>3, <2>4, <2>5
<1>4. ASSUME NEW x, x \in QueuedEvents' \/ x = Head(que[w]) PROVE x \in QueuedEvents
  <2>1. CASE x = Head(que[w])
    BY <1>1, <2>1, QueuedIs
  <2>2. CASE x \in QueuedEvents'
    <3>1. PICK v \in Workers : \E i \in 1 .. Len(que'[v]) : que'[v][i] = x
      BY <2>2, QueuedIsNext
    <3>2. PICK i \in 1 .. Len(que'[v]) : que'[v][i] = x
      BY <3>1
    <3>3. \E j \in 1 .. Len(que[v]) : que[v][j] = x
      BY <1>1, <3>2
    <3> QED
      BY <3>3, QueuedIs
  <2> QED
    BY <1>4, <2>1, <2>2
<1> QED
  BY <1>3, <1>4

-----------------------------------------------------------------------------
(* Spawn events stay alone when a corctx is posted, or a new one is. *)

LEMMA AsyncUnborn ==
  ASSUME Types, UnbornNew, UnbornOnce, NEW w \in Workers, NEW x \in Events, Async(w, x),
         \A t \in Threads : \A e \in SpawnEvents : ev'[t] = e => ev[t] = e,
         \A v \in Workers : \A i \in 1 .. Len(que[v]) : \A e \in SpawnEvents :
             que[v][i] = e => New(e.handler)' /\ (x \in SpawnEvents => e.handler # x.handler),
         \A t \in Threads : \A e \in SpawnEvents :
             ev'[t] = e => New(e.handler)' /\ (x \in SpawnEvents => e.handler # x.handler),
         \A e \in SpawnEvents : x = e => New(e.handler)'
  PROVE  UnbornNew' /\ UnbornOnce'
<1>1. \A v \in Workers : \A i \in 1 .. Len(que'[v]) :
          \/ i \in 1 .. Len(que[v]) /\ que'[v][i] = que[v][i]
          \/ v = w /\ i = Len(que[w]) + 1 /\ que'[v][i] = x
  BY AsyncFacts
<1>2. UnbornNew'
  <2>1. ASSUME NEW v \in Workers, NEW i \in 1 .. Len(que'[v]), NEW e \in SpawnEvents,
               que'[v][i] = e
        PROVE  New(e.handler)'
    <3>1. CASE i \in 1 .. Len(que[v]) /\ que'[v][i] = que[v][i]
      <4>1. que[v][i] = e
        BY <2>1, <3>1
      <4> QED
        BY <3>1, <4>1
    <3>2. CASE que'[v][i] = x
      <4>1. x = e
        BY <2>1, <3>2
      <4> QED
        BY <4>1
    <3> QED
      BY <1>1, <3>1, <3>2
  <2> QED
    BY <2>1, Zenon DEF UnbornNew
<1>3. ASSUME NEW u \in Workers, NEW v \in Workers, NEW i \in 1 .. Len(que'[u]),
             NEW j \in 1 .. Len(que'[v])
      PROVE  Distinct(u, i, v, j)'
  <2> SUFFICES ASSUME NEW e \in SpawnEvents, NEW f \in SpawnEvents,
                      que'[u][i] = e, que'[v][j] = f, e.handler = f.handler
               PROVE  u = v /\ i = j
    BY DEF Distinct
  <2>1. \/ i \in 1 .. Len(que[u]) /\ que[u][i] = e
        \/ u = w /\ i = Len(que[w]) + 1 /\ x = e
    BY <1>1, <1>3
  <2>2. \/ j \in 1 .. Len(que[v]) /\ que[v][j] = f
        \/ v = w /\ j = Len(que[w]) + 1 /\ x = f
    BY <1>1, <1>3
  <2>3. CASE i \in 1 .. Len(que[u]) /\ que[u][i] = e /\ j \in 1 .. Len(que[v]) /\ que[v][j] = f
    <3>1. Distinct(u, i, v, j)
      BY <2>3 DEF UnbornOnce, QueuedOnce
    <3> QED
      BY <2>3, <3>1 DEF Distinct
  <2>4. CASE i \in 1 .. Len(que[u]) /\ que[u][i] = e /\ x = f
    BY <1>3, <2>4
  <2>5. CASE x = e /\ j \in 1 .. Len(que[v]) /\ que[v][j] = f
    BY <1>3, <2>5
  <2> QED
    BY <2>1, <2>2, <2>3, <2>4, <2>5
<1>4. ASSUME NEW v \in Workers, NEW i \in 1 .. Len(que'[v]), NEW t \in Threads
      PROVE  NotHeld(v, i, t)'
  <2> SUFFICES ASSUME NEW e \in SpawnEvents, NEW f \in SpawnEvents,
                      que'[v][i] = e, ev'[t] = f
               PROVE  e.handler # f.handler
    BY DEF NotHeld
  <2>1. ev[t] = f /\ (x \in SpawnEvents => f.handler # x.handler)
    BY <1>4
  <2>2. \/ i \in 1 .. Len(que[v]) /\ que[v][i] = e
        \/ x = e
    BY <1>1, <1>4
  <2>3. CASE i \in 1 .. Len(que[v]) /\ que[v][i] = e
    <3>1. NotHeld(v, i, t)
      BY <2>3 DEF UnbornOnce, QueuedOrHeld
    <3> QED
      BY <2>1, <2>3, <3>1 DEF NotHeld
  <2>4. CASE x = e
    BY <2>1, <2>4
  <2> QED
    BY <2>2, <2>3, <2>4
<1>5. ASSUME NEW t \in Threads, NEW u \in Threads, NEW e \in SpawnEvents, NEW f \in SpawnEvents,
             ev'[t] = e, ev'[u] = f, e.handler = f.handler
      PROVE  t = u
  <2>1. ev[t] = e /\ ev[u] = f
    BY <1>5
  <2> QED
    BY <1>5, <2>1 DEF UnbornOnce, HeldOnce
<1>6. QueuedOnce'
  BY <1>3, Zenon DEF QueuedOnce
<1>7. QueuedOrHeld'
  BY <1>4, Zenon DEF QueuedOrHeld
<1>8. HeldOnce'
  BY <1>5 DEF HeldOnce
<1> QED
  BY <1>2, <1>6, <1>7, <1>8 DEF UnbornOnce

(* ... when the queues stay as they are ... *)
LEMMA KeptUnborn ==
  ASSUME UnbornNew, UnbornOnce, que' = que,
         \A t \in Threads : \A e \in SpawnEvents : ev'[t] = e => ev[t] = e,
         \A h : New(h) => New(h)'
  PROVE  UnbornNew' /\ UnbornOnce'
<1>1. UnbornNew'
  <2>1. ASSUME NEW v \in Workers, NEW i \in 1 .. Len(que[v]), NEW e \in SpawnEvents,
               que[v][i] = e
        PROVE  New(e.handler)'
    <3>1. New(e.handler)
      BY <2>1 DEF UnbornNew
    <3> QED
      BY <3>1
  <2>2. ASSUME NEW t \in Threads, NEW e \in SpawnEvents, ev'[t] = e
        PROVE  New(e.handler)'
    <3>1. New(e.handler)
      BY <2>2 DEF UnbornNew
    <3> QED
      BY <3>1
  <2> QED
    BY <2>1, <2>2, Zenon DEF UnbornNew
<1>2. UnbornOnce'
  <2>1. ASSUME NEW u \in Workers, NEW v \in Workers, NEW i \in 1 .. Len(que[u]),
               NEW j \in 1 .. Len(que[v])
        PROVE  Distinct(u, i, v, j)'
    <3> SUFFICES ASSUME NEW e \in SpawnEvents, NEW f \in SpawnEvents,
                        que[u][i] = e, que[v][j] = f, e.handler = f.handler
                 PROVE  u = v /\ i = j
      BY DEF Distinct
    <3>1. Distinct(u, i, v, j)
      BY DEF UnbornOnce, QueuedOnce
    <3> QED
      BY <3>1 DEF Distinct
  <2>2. ASSUME NEW v \in Workers, NEW i \in 1 .. Len(que[v]), NEW t \in Threads
        PROVE  NotHeld(v, i, t)'
    <3> SUFFICES ASSUME NEW e \in SpawnEvents, NEW f \in SpawnEvents,
                        que[v][i] = e, ev'[t] = f
                 PROVE  e.handler # f.handler
      BY DEF NotHeld
    <3>1. NotHeld(v, i, t)
      BY DEF UnbornOnce, QueuedOrHeld
    <3>2. ev[t] = f
      OBVIOUS
    <3> QED
      BY <3>1, <3>2 DEF NotHeld
  <2>3. ASSUME NEW t \in Threads, NEW u \in Threads, NEW e \in SpawnEvents,
               NEW f \in SpawnEvents, ev'[t] = e, ev'[u] = f, e.handler = f.handler
        PROVE  t = u
    <3>1. ev[t] = e /\ ev[u] = f
      BY <2>3
    <3> QED
      BY <2>3, <3>1 DEF UnbornOnce, HeldOnce
  <2>4. QueuedOnce'
    BY <2>1, Zenon DEF QueuedOnce
  <2>5. QueuedOrHeld'
    BY <2>2, Zenon DEF QueuedOrHeld
  <2>6. HeldOnce'
    BY <2>3 DEF HeldOnce
  <2> QED
    BY <2>4, <2>5, <2>6 DEF UnbornOnce
<1> QED
  BY <1>1, <1>2

-----------------------------------------------------------------------------
(* Steps *)

(* What HInv adds to the invariant of CoroutineProofs. *)
Rest == Numbers /\ Holders /\ UnbornNew /\ UnbornOnce

LEMMA HInitHolds == Init => HInv /\ Service!Init
<1> SUFFICES ASSUME Init PROVE HInv /\ Service!Init
  OBVIOUS
<1>1. IInv
  BY InitHolds
<1>2. Numbers /\ Holders
  BY BoundAssumption DEF Init, Numbers, Holders, NoHandler
<1>3. \A w \in Workers : Len(que[w]) = 0
  BY DEF Init
<1>4. \A t \in Threads : \A e \in SpawnEvents : ev[t] # e
  BY EventsAssumption DEF Init
<1>5. UnbornNew /\ UnbornOnce
  BY <1>3, <1>4 DEF UnbornNew, UnbornOnce, QueuedOnce, Distinct, QueuedOrHeld, NotHeld, HeldOnce
<1>6. \A x : x \notin QueuedEvents
  BY <1>3, QueuedIs
<1>7. \A x \in SpawnEvents \cup Coros : x \notin Pending
  BY <1>6, PendingIs, EventsAssumption, NoneAssumption DEF Init
<1>8. Ready = {}
  BY <1>7, ReadyIs
<1>9. Running = {}
  BY RunningIs DEF Init
<1>10. 1 .. spawned = {} /\ finished = {}
  BY DEF Init
<1> QED
  BY <1>1, <1>2, <1>5, <1>8, <1>9, <1>10 DEF HInv, Service!Init

(* Who leaves both sets and the books as they are stutters. *)
LEMMA Stutters ==
  ASSUME \A h : h \in Ready' <=> h \in Ready, \A h : h \in Running' <=> h \in Running,
         spawned' = spawned, finished' = finished
  PROVE  [Service!Next]_(Service!vars)
<1>1. Ready' = Ready /\ Running' = Running
  OBVIOUS
<1> QED
  BY <1>1 DEF Service!vars

LEMMA RunningKept ==
  ASSUME \A u \in Threads : run'[u] # None /\ phase'[u] # "last yield"
                             <=> run[u] # None /\ phase[u] # "last yield",
         \A u \in Threads : phase[u] # "last yield" => hdr'[run'[u]] = hdr[run[u]]
  PROVE  \A g : g \in Running' <=> g \in Running
<1>1. ASSUME NEW g, g \in Running' PROVE g \in Running
  <2>1. PICK u \in Threads : run'[u] # None /\ phase'[u] # "last yield" /\ hdr'[run'[u]] = g
    BY <1>1, RunningIsNext
  <2>2. run[u] # None /\ phase[u] # "last yield" /\ hdr[run[u]] = g
    BY <2>1
  <2> QED
    BY <2>2, RunningIs
<1>2. ASSUME NEW g, g \in Running PROVE g \in Running'
  <2>1. PICK u \in Threads : run[u] # None /\ phase[u] # "last yield" /\ hdr[run[u]] = g
    BY <1>2, RunningIs
  <2>2. run'[u] # None /\ phase'[u] # "last yield" /\ hdr'[run'[u]] = g
    BY <2>1
  <2> QED
    BY <2>2, RunningIsNext
<1> QED
  BY <1>1, <1>2

LEMMA SpawnRefines ==
  ASSUME HInv, NEW w \in Workers, NEW size \in Sizes, Spawn(w, size)
  PROVE  Rest' /\ [Service!Next]_(Service!vars)
<1>0. Types /\ Numbers /\ Holders /\ UnbornNew /\ UnbornOnce
  BY DEF HInv, IInv
<1>1. spawned \in Nat /\ spawned < MaxSpawn /\ spawned + 1 \in Handlers
  BY <1>0, BoundAssumption DEF Spawn, Numbers, Handlers
<1> PICK h \in Handlers : h = spawned + 1
  BY <1>1
<1> PICK e \in SpawnEvents : e = [handler |-> spawned + 1, size |-> size]
  BY <1>1 DEF SpawnEvents
<1>2. e.handler = h
  OBVIOUS
<1>3. /\ Async(w, e) /\ e \in Events /\ spawned' = spawned + 1
      /\ UNCHANGED <<at, ev, curr, run, phase, stop, hdr, home, pooled, owed, finished>>
  BY DEF Spawn, threadVars, coroVars, Events
<1>4. Numbers'
  <2>1. spawned' \in 0 .. MaxSpawn /\ 1 .. spawned \subseteq 1 .. spawned'
        /\ 0 .. spawned \subseteq 0 .. spawned'
    BY <1>1, <1>3, BoundAssumption
  <2> QED
    BY <1>0, <1>3, <2>1 DEF Numbers
<1>5. Holders'
  BY <1>0, <1>3 DEF Holders
<1>6. ASSUME NEW g, New(g) PROVE New(g)' /\ g # h
  BY <1>1, <1>3, <1>6 DEF New
<1>7. New(h)'
  BY <1>0, <1>1, <1>3 DEF New, Numbers
<1>8. ASSUME NEW f \in SpawnEvents,
             \/ \E v \in Workers : \E i \in 1 .. Len(que[v]) : que[v][i] = f
             \/ \E t \in Threads : ev[t] = f
      PROVE  New(f.handler)
  BY <1>0, <1>8 DEF UnbornNew
<1>9. UnbornNew' /\ UnbornOnce'
  <2>1. \A t \in Threads : \A f \in SpawnEvents : ev'[t] = f => ev[t] = f
    BY <1>3
  <2>2. \A v \in Workers : \A i \in 1 .. Len(que[v]) : \A f \in SpawnEvents :
            que[v][i] = f => New(f.handler)' /\ (e \in SpawnEvents => f.handler # e.handler)
    BY <1>2, <1>6, <1>8
  <2>3. \A t \in Threads : \A f \in SpawnEvents :
            ev'[t] = f => New(f.handler)' /\ (e \in SpawnEvents => f.handler # e.handler)
    BY <1>2, <1>3, <1>6, <1>8
  <2>4. \A f \in SpawnEvents : e = f => New(f.handler)'
    BY <1>2, <1>7
  <2> QED
    BY <1>0, <1>3, <2>1, <2>2, <2>3, <2>4, AsyncUnborn
<1>10. Service!Spawn(h)
  <2>1. \A x : x \in Pending' <=> x \in Pending \/ x = e
    BY <1>0, <1>3, QueuedAfterAsync, PendingIs, PendingIsNext
  <2>2. e \notin Coros
    BY EventsAssumption
  <2>3. \A g : g \in Ready' <=> g \in Ready \/ g = h
    BY <1>2, <1>3, <2>1, <2>2, ReadyIs, ReadyIsNext
  <2>4. \A g : g \in Running' <=> g \in Running
    BY <1>3, RunningIs, RunningIsNext
  <2>5. Ready' = Ready \cup {h} /\ Running' = Running
    BY <2>3, <2>4
  <2>6. h \notin 1 .. spawned /\ (1 .. spawned)' = (1 .. spawned) \cup {h}
    BY <1>1, <1>3
  <2> QED
    BY <1>3, <2>5, <2>6 DEF Service!Spawn
<1> QED
  BY <1>4, <1>5, <1>9, <1>10 DEF Rest, Service!Next

(* A corctx in use has a handler, and the books know of it. *)
LEMMA Named ==
  ASSUME HInv, NEW c \in Coros, home[c] # None, c \notin pooled
  PROVE  /\ hdr[c] \in Handlers /\ hdr[c] \in 1 .. spawned
         /\ ~ stop[c] => hdr[c] \notin finished
         /\ \A d \in Coros : hdr[d] = hdr[c] => d = c
         /\ \A e \in SpawnEvents : e \in Pending => e.handler # hdr[c]
<1>0. Types /\ Numbers /\ Holders /\ UnbornNew
  BY DEF HInv, IInv
<1>1. hdr[c] # NoHandler
  BY <1>0 DEF Holders
<1>2. hdr[c] \in 1 .. spawned /\ hdr[c] \in Handlers
  BY <1>0, <1>1, BoundAssumption DEF Numbers, NoHandler, Handlers
<1>3. (~ stop[c] => hdr[c] \notin finished) /\ \A d \in Coros : hdr[d] = hdr[c] => d = c
  BY <1>0, <1>1 DEF Holders
<1>4. ASSUME NEW e \in SpawnEvents, e \in Pending PROVE New(e.handler)
  BY <1>0, <1>4, PendingIs, QueuedIs DEF UnbornNew
<1>5. \A e \in SpawnEvents : e \in Pending => e.handler # hdr[c]
  BY <1>4 DEF New
<1> QED
  BY <1>2, <1>3, <1>5

LEMMA ResumeRefines ==
  ASSUME HInv, NEW c \in Coros, Resume(c)
  PROVE  Rest' /\ [Service!Next]_(Service!vars)
<1>0. Types /\ Visits /\ Waiting /\ Apart /\ Numbers /\ Holders /\ UnbornNew /\ UnbornOnce
  BY DEF HInv, IInv
<1>1. c \in owed /\ home[c] # None /\ c \notin pooled /\ Leaving(c) /\ strand[c] \in Workers
  BY <1>0 DEF Resume, Apart, Types
<1> PICK w \in Workers : w = strand[c]
  BY <1>1
<1>2. /\ Async(w, c) /\ c \in Events /\ owed' = owed \ {c}
      /\ UNCHANGED <<ev, run, phase, stop, hdr, home, pooled, spawned, finished>>
  BY DEF Resume, threadVars, coroVars, history, Events
<1>3. Numbers' /\ Holders'
  BY <1>0, <1>2 DEF Numbers, Holders
<1>4. c \notin SpawnEvents
  BY EventsAssumption
<1>5. UnbornNew' /\ UnbornOnce'
  <2>1. \A t \in Threads : \A f \in SpawnEvents : ev'[t] = f => ev[t] = f
    BY <1>2
  <2>2. \A g : New(g) => New(g)'
    BY <1>2 DEF New
  <2>3. \A v \in Workers : \A i \in 1 .. Len(que[v]) : \A f \in SpawnEvents :
            que[v][i] = f => New(f.handler)' /\ (c \in SpawnEvents => f.handler # c.handler)
    BY <1>0, <1>4, <2>2 DEF UnbornNew
  <2>4. \A t \in Threads : \A f \in SpawnEvents :
            ev'[t] = f => New(f.handler)' /\ (c \in SpawnEvents => f.handler # c.handler)
    BY <1>0, <1>4, <2>1, <2>2 DEF UnbornNew
  <2>5. \A f \in SpawnEvents : c = f => New(f.handler)'
    BY <1>4
  <2> QED
    BY <1>0, <1>2, <2>1, <2>3, <2>4, <2>5, AsyncUnborn
<1>6. /\ hdr[c] \in Handlers /\ hdr[c] \in 1 .. spawned
      /\ ~ stop[c] => hdr[c] \notin finished
      /\ \A d \in Coros : hdr[d] = hdr[c] => d = c
      /\ \A e \in SpawnEvents : e \in Pending => e.handler # hdr[c]
  BY <1>1, Named
<1> PICK h \in Handlers : h = hdr[c]
  BY <1>6
<1>7. ~ stop[c]
  BY <1>0, <1>1 DEF Holders
<1>8. c \notin Pending
  <2>1. c \notin QueuedEvents
    BY <1>0, <1>1, QueuedIs DEF Waiting, MayWait
  <2>2. \A t \in Threads : ev[t] = c => run[t] # None
    BY <1>1 DEF Leaving
  <2> QED
    BY <2>1, <2>2, PendingIs
<1>9. h \notin Ready
  BY <1>6, <1>8, ReadyIs
<1>10. \A x : x \in Pending' <=> x \in Pending \/ x = c
  BY <1>0, <1>2, QueuedAfterAsync, PendingIs, PendingIsNext
<1>11. \A g : g \in Ready' <=> g \in Ready \/ g = h
  BY <1>2, <1>4, <1>7, <1>10, ReadyIs, ReadyIsNext
<1>12. \A g : g \in Running' <=> g \in Running
  BY <1>2, RunningIs, RunningIsNext
<1>13. Ready' = Ready \cup {h} /\ Running' = Running
  BY <1>11, <1>12
<1>14. Service!Resume(h)
  BY <1>2, <1>6, <1>7, <1>9, <1>13 DEF Service!Resume
<1> QED
  BY <1>3, <1>5, <1>14 DEF Rest, Service!Next

LEMMA TakeRefines ==
  ASSUME HInv, NEW t \in Threads, NEW w \in Workers, Take(t, w)
  PROVE  Rest' /\ [Service!Next]_(Service!vars)
<1>0. Types /\ Visits /\ Numbers /\ Holders /\ UnbornNew /\ UnbornOnce
  BY DEF HInv, IInv
<1>1. /\ at[t] = None /\ que[w] # <<>>
      /\ ev' = [ev EXCEPT ![t] = Head(que[w])]
      /\ que' = [que EXCEPT ![w] = Tail(que[w])]
      /\ UNCHANGED <<run, phase, stop, hdr, home, pooled, owed, spawned, finished>>
  BY DEF Take, coroVars, history
<1>2. /\ 1 \in 1 .. Len(que[w]) /\ Head(que[w]) = que[w][1] /\ Head(que[w]) \in Events
      /\ \A i \in 1 .. Len(que'[w]) :
             i + 1 \in 1 .. Len(que[w]) /\ que'[w][i] = que[w][i + 1] /\ i + 1 # 1
      /\ \A v \in Workers \ {w} : que'[v] = que[v]
  BY <1>0, <1>1, PopFacts
<1> PICK x \in Events : x = Head(que[w])
  BY <1>2
<1>3. ev[t] = None /\ run[t] = None
  BY <1>0, <1>1 DEF Visits, Types
<1>4. ev'[t] = x /\ \A u \in Threads \ {t} : ev'[u] = ev[u]
  BY <1>0, <1>1 DEF Types
<1>5. Numbers' /\ Holders'
  BY <1>0, <1>1 DEF Numbers, Holders
<1>6. \A g : New(g) => New(g)'
  BY <1>1 DEF New
(* Each place of a queue was one before, and not the one that was popped. *)
<1>7. \A v \in Workers : \A i \in 1 .. Len(que'[v]) : \E k \in 1 .. Len(que[v]) :
          /\ k = (IF v = w THEN i + 1 ELSE i)
          /\ que'[v][i] = que[v][k] /\ ~ (v = w /\ k = 1)
  <2> SUFFICES ASSUME NEW v \in Workers, NEW i \in 1 .. Len(que'[v])
               PROVE  \E k \in 1 .. Len(que[v]) :
                          /\ k = (IF v = w THEN i + 1 ELSE i)
                          /\ que'[v][i] = que[v][k] /\ ~ (v = w /\ k = 1)
    OBVIOUS
  <2>1. CASE v = w
    BY <1>2, <2>1
  <2>2. CASE v # w
    <3>1. que'[v] = que[v]
      BY <1>2, <2>2
    <3> QED
      BY <2>2, <3>1
  <2> QED
    BY <2>1, <2>2
<1>8. UnbornNew'
  <2>1. ASSUME NEW v \in Workers, NEW i \in 1 .. Len(que'[v]), NEW e \in SpawnEvents,
               que'[v][i] = e
        PROVE  New(e.handler)'
    <3>1. PICK k \in 1 .. Len(que[v]) : que'[v][i] = que[v][k]
      BY <1>7
    <3>2. New(e.handler)
      BY <1>0, <2>1, <3>1 DEF UnbornNew
    <3> QED
      BY <1>6, <3>2
  <2>2. ASSUME NEW u \in Threads, NEW e \in SpawnEvents, ev'[u] = e
        PROVE  New(e.handler)'
    <3>1. CASE u = t
      <4>1. que[w][1] = e
        BY <1>2, <1>4, <2>2, <3>1
      <4> QED
        BY <1>0, <1>2, <1>6, <4>1 DEF UnbornNew
    <3>2. CASE u # t
      BY <1>0, <1>4, <1>6, <2>2, <3>2 DEF UnbornNew
    <3> QED
      BY <3>1, <3>2
  <2> QED
    BY <2>1, <2>2, Zenon DEF UnbornNew
<1>9. ASSUME NEW u \in Workers, NEW v \in Workers, NEW i \in 1 .. Len(que'[u]),
             NEW j \in 1 .. Len(que'[v])
      PROVE  Distinct(u, i, v, j)'
  <2> SUFFICES ASSUME NEW e \in SpawnEvents, NEW f \in SpawnEvents,
                      que'[u][i] = e, que'[v][j] = f, e.handler = f.handler
               PROVE  u = v /\ i = j
    BY DEF Distinct
  <2>1. PICK k \in 1 .. Len(que[u]) : k = (IF u = w THEN i + 1 ELSE i) /\ que'[u][i] = que[u][k]
    BY <1>7
  <2>2. PICK l \in 1 .. Len(que[v]) : l = (IF v = w THEN j + 1 ELSE j) /\ que'[v][j] = que[v][l]
    BY <1>7
  <2>3. que[u][k] = e /\ que[v][l] = f
    BY <1>9, <2>1, <2>2
  <2>4. Distinct(u, k, v, l)
    BY <1>0 DEF UnbornOnce, QueuedOnce
  <2>5. u = v /\ k = l
    BY <2>3, <2>4 DEF Distinct
  <2> QED
    BY <2>1, <2>2, <2>5
<1>10. ASSUME NEW v \in Workers, NEW i \in 1 .. Len(que'[v]), NEW u \in Threads
      PROVE  NotHeld(v, i, u)'
  <2> SUFFICES ASSUME NEW e \in SpawnEvents, NEW f \in SpawnEvents,
                      que'[v][i] = e, ev'[u] = f
               PROVE  e.handler # f.handler
    BY DEF NotHeld
  <2>1. PICK k \in 1 .. Len(que[v]) : que'[v][i] = que[v][k] /\ ~ (v = w /\ k = 1)
    BY <1>7
  <2>2. que[v][k] = e
    BY <1>10, <2>1
  <2>3. CASE u = t
    <3>1. que[w][1] = f
      BY <1>2, <1>4, <1>10, <2>3
    <3>2. Distinct(v, k, w, 1)
      BY <1>0, <1>2 DEF UnbornOnce, QueuedOnce
    <3> QED
      BY <2>1, <2>2, <3>1, <3>2 DEF Distinct
  <2>4. CASE u # t
    <3>1. ev[u] = f
      BY <1>4, <1>10, <2>4
    <3>2. NotHeld(v, k, u)
      BY <1>0 DEF UnbornOnce, QueuedOrHeld
    <3> QED
      BY <2>2, <3>1, <3>2 DEF NotHeld
  <2> QED
    BY <2>3, <2>4
<1>11. ASSUME NEW u \in Threads, NEW v \in Threads, NEW e \in SpawnEvents, NEW f \in SpawnEvents,
              ev'[u] = e, ev'[v] = f, e.handler = f.handler
       PROVE  u = v
  <2>1. u = t => que[w][1] = e
    BY <1>2, <1>4, <1>11
  <2>2. v = t => que[w][1] = f
    BY <1>2, <1>4, <1>11
  <2>3. CASE u # t /\ v # t
    <3>1. ev[u] = e /\ ev[v] = f
      BY <1>4, <1>11, <2>3
    <3> QED
      BY <1>0, <1>11, <3>1 DEF UnbornOnce, HeldOnce
  <2>4. CASE u = t /\ v # t
    <3>1. ev[v] = f
      BY <1>4, <1>11, <2>4
    <3>2. NotHeld(w, 1, v)
      BY <1>0, <1>2 DEF UnbornOnce, QueuedOrHeld
    <3> QED
      BY <1>11, <2>1, <2>4, <3>1, <3>2 DEF NotHeld
  <2>5. CASE u # t /\ v = t
    <3>1. ev[u] = e
      BY <1>4, <1>11, <2>5
    <3>2. NotHeld(w, 1, u)
      BY <1>0, <1>2 DEF UnbornOnce, QueuedOrHeld
    <3> QED
      BY <1>11, <2>2, <2>5, <3>1, <3>2 DEF NotHeld
  <2> QED
    BY <2>3, <2>4, <2>5
<1>12. QueuedOnce' /\ QueuedOrHeld' /\ HeldOnce'
  <2>1. QueuedOnce'
    BY <1>9, Zenon DEF QueuedOnce
  <2>2. QueuedOrHeld'
    BY <1>10, Zenon DEF QueuedOrHeld
  <2>3. HeldOnce'
    BY <1>11 DEF HeldOnce
  <2> QED
    BY <2>1, <2>2, <2>3
<1>13. \A y \in SpawnEvents \cup Coros : y \in Pending' <=> y \in Pending
  <2>1. \A y : y \in QueuedEvents <=> y \in QueuedEvents' \/ y = x
    BY <1>0, <1>1, QueuedAfterPop
  <2>2. \A y \in SpawnEvents \cup Coros : y # None
    BY EventsAssumption, NoneAssumption
  <2> QED
    BY <1>1, <1>3, <1>4, <2>1, <2>2, PendingIs, PendingIsNext
<1>14. \A g : g \in Ready' <=> g \in Ready
  BY <1>1, <1>13, ReadyIs, ReadyIsNext
<1>15. \A g : g \in Running' <=> g \in Running
  BY <1>1, RunningIs, RunningIsNext
<1>16. [Service!Next]_(Service!vars)
  BY <1>1, <1>14, <1>15, Stutters
<1> QED
  BY <1>5, <1>8, <1>12, <1>16 DEF Rest, UnbornOnce

LEMMA ArrangeRefines ==
  ASSUME HInv, NEW t \in Threads, Arrange(t)
  PROVE  Rest' /\ [Service!Next]_(Service!vars)
<1>0. Types /\ Visits /\ Numbers /\ Holders /\ UnbornNew /\ UnbornOnce
  BY DEF HInv, IInv
<1>1. /\ run[t] # None /\ phase[t] = "code" /\ run[t] \in Coros
      /\ owed' = owed \cup {run[t]} /\ phase' = [phase EXCEPT ![t] = "yield"]
      /\ UNCHANGED <<que, ev, run, stop, hdr, home, pooled, spawned, finished>>
  BY <1>0 DEF Arrange, coroVars, Types
<1>2. phase'[t] = "yield" /\ \A u \in Threads \ {t} : phase'[u] = phase[u]
  BY <1>0, <1>1 DEF Types
<1>3. \A u \in Threads : phase'[u] # "last yield" <=> phase[u] # "last yield"
  BY <1>1, <1>2
<1>4. ~ stop[run[t]]
  BY <1>0, <1>1 DEF Holders
<1>5. Numbers' /\ Holders'
  <2>1. Numbers'
    BY <1>0, <1>1 DEF Numbers
  <2>2. Holders'
    BY <1>0, <1>1, <1>3, <1>4 DEF Holders
  <2> QED
    BY <2>1, <2>2
<1>6. \A g : New(g) => New(g)'
  BY <1>1 DEF New
<1>7. UnbornNew' /\ UnbornOnce'
  BY <1>0, <1>1, <1>6, KeptUnborn
<1>8. \A x : x \in Pending' <=> x \in Pending
  BY <1>1, PendingIs, PendingIsNext, QueuedIs, QueuedIsNext
<1>9. \A g : g \in Ready' <=> g \in Ready
  BY <1>1, <1>8, ReadyIs, ReadyIsNext
<1>10. \A g : g \in Running' <=> g \in Running
  BY <1>1, <1>3, RunningIs, RunningIsNext
<1>11. [Service!Next]_(Service!vars)
  BY <1>1, <1>9, <1>10, Stutters
<1> QED
  BY <1>5, <1>7, <1>11 DEF Rest

LEMMA YieldRefines ==
  ASSUME HInv, NEW t \in Threads, Yield(t)
  PROVE  Rest' /\ [Service!Next]_(Service!vars)
<1>0. Types /\ Visits /\ Apart /\ Numbers /\ Holders /\ UnbornNew /\ UnbornOnce
  BY DEF HInv, IInv
<1>1. /\ run[t] # None /\ phase[t] \in {"yield", "last yield"}
      /\ run' = [run EXCEPT ![t] = None] /\ Leave(t)
      /\ UNCHANGED <<que, phase, stop, hdr, home, pooled, owed, spawned, finished>>
  BY DEF Yield, history
<1>2. ev[t] = run[t] /\ ev[t] \in Coros
  BY <1>0, <1>1, OnStack
<1> PICK c \in Coros : c = run[t]
  BY <1>2
<1>3. ev'[t] = None /\ \A u \in Threads \ {t} : ev'[u] = ev[u]
  BY <1>0, <1>1, LeaveFacts
<1>4. run'[t] = None /\ \A u \in Threads \ {t} : run'[u] = run[u]
  BY <1>0, <1>1 DEF Types
<1>5. Numbers' /\ Holders'
  <2>1. Numbers'
    BY <1>0, <1>1 DEF Numbers
  <2>2. \A u \in Threads : run'[u] # None => run'[u] = run[u]
    BY <1>4
  <2>3. Holders'
    BY <1>0, <1>1, <2>2 DEF Holders
  <2> QED
    BY <2>1, <2>3
<1>6. \A g : New(g) => New(g)'
  BY <1>1 DEF New
<1>7. \A u \in Threads : \A e \in SpawnEvents : ev'[u] = e => ev[u] = e
  BY <1>3, EventsAssumption
<1>8. UnbornNew' /\ UnbornOnce'
  BY <1>0, <1>1, <1>6, <1>7, KeptUnborn
<1>9. \A y \in SpawnEvents \cup Coros : y \in Pending' <=> y \in Pending
  <2>1. \A y \in SpawnEvents \cup Coros : y # None
    BY EventsAssumption, NoneAssumption
  <2>2. \A y : y \in QueuedEvents' <=> y \in QueuedEvents
    BY <1>1, QueuedIs, QueuedIsNext
  <2>3. \A y \in SpawnEvents \cup Coros : \A u \in Threads :
            run'[u] = None /\ ev'[u] = y <=> run[u] = None /\ ev[u] = y
    <3> SUFFICES ASSUME NEW y \in SpawnEvents \cup Coros, NEW u \in Threads
                 PROVE  run'[u] = None /\ ev'[u] = y <=> run[u] = None /\ ev[u] = y
      OBVIOUS
    <3>1. CASE u = t
      BY <1>1, <1>3, <2>1, <3>1
    <3>2. CASE u # t
      BY <1>3, <1>4, <3>2
    <3> QED
      BY <3>1, <3>2
  <2> QED
    BY <2>2, <2>3, PendingIs, PendingIsNext
<1>10. \A g : g \in Ready' <=> g \in Ready
  BY <1>1, <1>9, ReadyIs, ReadyIsNext
<1>11. CASE phase[t] = "last yield"
  <2>1. \A g : g \in Running' <=> g \in Running
    <3>1. \A u \in Threads : run'[u] # None /\ phase[u] # "last yield"
                               <=> run[u] # None /\ phase[u] # "last yield"
      BY <1>4, <1>11
    <3>2. \A u \in Threads : phase[u] # "last yield" => run'[u] = run[u]
      BY <1>4, <1>11
    <3>3. \A u \in Threads : phase[u] # "last yield" => hdr'[run'[u]] = hdr[run[u]]
      BY <1>1, <3>2
    <3> QED
      BY <1>1, <3>1, <3>3, RunningKept
  <2>2. [Service!Next]_(Service!vars)
    BY <1>1, <1>10, <2>1, Stutters
  <2> QED
    BY <1>5, <1>8, <2>2 DEF Rest
<1>12. CASE phase[t] = "yield"
  <2>1. home[c] # None /\ c \notin pooled
    BY <1>0, <1>2 DEF Apart
  <2>2. hdr[c] \in Handlers /\ \A d \in Coros : hdr[d] = hdr[c] => d = c
    BY <2>1, Named
  <2> PICK h \in Handlers : h = hdr[c]
    BY <2>2
  <2>3. h \in Running
    BY <1>1, <1>12, RunningIs
  <2>4. \A u \in Threads \ {t} : run[u] # c
    BY <1>0, <1>2, OneStack
  <2>5. \A u \in Threads : run[u] = None \/ run[u] \in Coros
    BY <1>0 DEF Types
  <2>6. \A g : g \in Running' <=> g \in Running /\ g # h
    <3>1. ASSUME NEW g, g \in Running' PROVE g \in Running /\ g # h
      <4>1. PICK u \in Threads : run'[u] # None /\ phase[u] # "last yield" /\ hdr[run'[u]] = g
        BY <1>1, <3>1, RunningIsNext
      <4>2. u # t /\ run'[u] = run[u]
        BY <1>4, <4>1
      <4>3. run[u] \in Coros /\ run[u] # c
        BY <2>4, <2>5, <4>1, <4>2
      <4> QED
        BY <2>2, <4>1, <4>2, <4>3, RunningIs
    <3>2. ASSUME NEW g, g \in Running, g # h PROVE g \in Running'
      <4>1. PICK u \in Threads : run[u] # None /\ phase[u] # "last yield" /\ hdr[run[u]] = g
        BY <3>2, RunningIs
      <4>2. u # t
        BY <3>2, <4>1
      <4>3. run'[u] = run[u]
        BY <1>4, <4>2
      <4> QED
        BY <1>1, <4>1, <4>3, RunningIsNext
    <3> QED
      BY <3>1, <3>2
  <2>7. Running' = Running \ {h} /\ Ready' = Ready
    BY <1>10, <2>6
  <2>8. Service!Yield(h)
    BY <1>1, <2>3, <2>7 DEF Service!Yield
  <2> QED
    BY <1>5, <1>8, <2>8 DEF Rest, Service!Next
<1> QED
  BY <1>1, <1>11, <1>12

LEMMA HandleSpawnRefines ==
  ASSUME HInv, NEW t \in Threads, run[t] = None, HandleSpawn(t)
  PROVE  Rest' /\ [Service!Next]_(Service!vars)
<1>0. Types /\ Visits /\ Waiting /\ Apart /\ Numbers /\ Holders /\ UnbornNew /\ UnbornOnce
  BY DEF HInv, IInv
<1>1. PICK c \in Coros : /\ GetCorctx(t, c)
                         /\ stop' = [stop EXCEPT ![c] = FALSE]
                         /\ hdr' = [hdr EXCEPT ![c] = ev[t].handler]
                         /\ Async(strand'[c], c)
  BY DEF HandleSpawn, MakeContext
<1>2. /\ ev[t] \in SpawnEvents /\ Leave(t)
      /\ UNCHANGED <<run, phase, owed, spawned, finished>>
  BY DEF HandleSpawn, history
<1> PICK e \in SpawnEvents : e = ev[t]
  BY <1>2
<1>3. /\ c \in pooled \/ home[c] = None
      /\ pooled' = pooled \ {c} /\ strand'[c] \in Workers
      /\ \A d \in Coros \ {c} : home'[d] = home[d]
  BY <1>0, <1>1, GetFacts
<1>4. /\ \A u \in Threads : ev[u] # c /\ run[u] # c
      /\ \A v \in Workers : \A i \in 1 .. Len(que[v]) : que[v][i] # c
      /\ c \notin owed
  BY <1>0, <1>3, Fresh
<1>5. ev'[t] = None /\ \A u \in Threads \ {t} : ev'[u] = ev[u]
  BY <1>0, <1>2, LeaveFacts
<1> PICK w \in Workers : w = strand'[c]
  BY <1>3
<1>6. Async(w, c) /\ c \in Events /\ c \notin SpawnEvents /\ e \notin Coros
  BY <1>1, EventsAssumption DEF Events
<1>7. New(e.handler)
  BY <1>0 DEF UnbornNew
<1>8. /\ hdr'[c] = e.handler /\ stop'[c] = FALSE
      /\ \A d \in Coros \ {c} : hdr'[d] = hdr[d] /\ stop'[d] = stop[d]
  BY <1>0, <1>1 DEF Numbers
<1>9. Numbers'
  BY <1>0, <1>1, <1>2, <1>7 DEF Numbers, New
<1>10. Holders'
  <2>1. \A d \in Coros : home'[d] # None /\ d \notin pooled' => hdr'[d] # NoHandler
    <3> SUFFICES ASSUME NEW d \in Coros, home'[d] # None, d \notin pooled'
                 PROVE  hdr'[d] # NoHandler
      OBVIOUS
    <3>1. CASE d = c
      BY <1>7, <1>8, <3>1 DEF New, NoHandler
    <3>2. CASE d # c
      BY <1>0, <1>3, <1>8, <3>2 DEF Holders
    <3> QED
      BY <3>1, <3>2
  <2>2. \A d, f \in Coros : hdr'[d] = hdr'[f] /\ hdr'[d] # NoHandler => d = f
    <3> SUFFICES ASSUME NEW d \in Coros, NEW f \in Coros, hdr'[d] = hdr'[f],
                        hdr'[d] # NoHandler
                 PROVE  d = f
      OBVIOUS
    <3>1. \A x \in Coros : hdr[x] # e.handler
      BY <1>7 DEF New
    <3>2. CASE d # c /\ f # c
      BY <1>0, <1>8, <3>2 DEF Holders
    <3>3. CASE (d = c) # (f = c)
      BY <1>8, <3>1, <3>3
    <3> QED
      BY <3>2, <3>3
  <2>3. \A d \in Coros : hdr'[d] \in finished => stop'[d]
    BY <1>0, <1>7, <1>8 DEF Holders, New
  <2>4. \A d \in owed : ~ stop'[d]
    BY <1>0, <1>4, <1>8 DEF Holders, Types
  <2>5. \A u \in Threads : run[u] # None /\ phase[u] # "last yield" => ~ stop'[run[u]]
    <3> SUFFICES ASSUME NEW u \in Threads, run[u] # None, phase[u] # "last yield"
                 PROVE  ~ stop'[run[u]]
      OBVIOUS
    <3>1. run[u] \in Coros \ {c}
      BY <1>0, <1>4 DEF Types
    <3> QED
      BY <1>0, <1>8, <3>1 DEF Holders
  <2> QED
    BY <1>2, <2>1, <2>2, <2>3, <2>4, <2>5 DEF Holders
<1>11. ASSUME NEW g, New(g), g # e.handler PROVE New(g)'
  BY <1>2, <1>8, <1>11 DEF New
<1>12. \A v \in Workers : \A i \in 1 .. Len(que[v]) : \A f \in SpawnEvents :
           que[v][i] = f => f.handler # e.handler
  BY <1>0 DEF UnbornOnce, QueuedOrHeld, NotHeld
<1>13. \A u \in Threads \ {t} : \A f \in SpawnEvents : ev[u] = f => f.handler # e.handler
  BY <1>0 DEF UnbornOnce, HeldOnce
<1>14. \A u \in Threads : \A f \in SpawnEvents : ev'[u] = f => u # t /\ ev[u] = f
  BY <1>5, EventsAssumption
<1>15. UnbornNew' /\ UnbornOnce'
  <2>1. \A u \in Threads : \A f \in SpawnEvents : ev'[u] = f => ev[u] = f
    BY <1>14
  <2>2. \A v \in Workers : \A i \in 1 .. Len(que[v]) : \A f \in SpawnEvents :
            que[v][i] = f => New(f.handler)' /\ (c \in SpawnEvents => f.handler # c.handler)
    BY <1>0, <1>6, <1>11, <1>12 DEF UnbornNew
  <2>3. \A u \in Threads : \A f \in SpawnEvents :
            ev'[u] = f => New(f.handler)' /\ (c \in SpawnEvents => f.handler # c.handler)
    BY <1>0, <1>6, <1>11, <1>13, <1>14 DEF UnbornNew
  <2>4. \A f \in SpawnEvents : c = f => New(f.handler)'
    BY <1>6
  <2> QED
    BY <1>0, <1>6, <2>1, <2>2, <2>3, <2>4, AsyncUnborn
<1>16. \A x : x \in QueuedEvents' <=> x \in QueuedEvents \/ x = c
  BY <1>0, <1>6, QueuedAfterAsync
<1>17. e \in Pending /\ c \in Pending' /\ c \notin Pending
  BY <1>4, <1>16, PendingIs, PendingIsNext, QueuedIs
<1>18. \A x \in SpawnEvents \cup Coros : x # e /\ x # c => (x \in Pending' <=> x \in Pending)
  <2>1. \A x \in SpawnEvents \cup Coros : x # None
    BY EventsAssumption, NoneAssumption
  <2>2. \A x \in SpawnEvents \cup Coros : \A u \in Threads :
            x # e => (run'[u] = None /\ ev'[u] = x <=> run[u] = None /\ ev[u] = x)
    <3> SUFFICES ASSUME NEW x \in SpawnEvents \cup Coros, NEW u \in Threads, x # e
                 PROVE  run'[u] = None /\ ev'[u] = x <=> run[u] = None /\ ev[u] = x
      OBVIOUS
    <3>1. CASE u = t
      BY <1>5, <2>1, <3>1
    <3>2. CASE u # t
      BY <1>2, <1>5, <3>2
    <3> QED
      BY <3>1, <3>2
  <2> QED
    BY <1>16, <2>2, PendingIs, PendingIsNext
<1>19. \A f \in SpawnEvents : f \in Pending' => f \in Pending
  BY <1>6, <1>17, <1>18
<1>20. \A g : g \in Ready' <=> g \in Ready
  <2>1. ASSUME NEW g, g \in Ready' PROVE g \in Ready
    <3>1. CASE \E f \in SpawnEvents : f \in Pending' /\ f.handler = g
      BY <1>19, <3>1, ReadyIs
    <3>2. CASE \E d \in Coros : d \in Pending' /\ ~ stop'[d] /\ hdr'[d] = g
      <4>1. PICK d \in Coros : d \in Pending' /\ ~ stop'[d] /\ hdr'[d] = g
        BY <3>2
      <4>2. CASE d = c
        BY <1>8, <1>17, <4>1, <4>2, ReadyIs
      <4>3. CASE d # c
        BY <1>6, <1>8, <1>18, <4>1, <4>3, ReadyIs
      <4> QED
        BY <4>2, <4>3
    <3> QED
      BY <2>1, <3>1, <3>2, ReadyIsNext
  <2>2. ASSUME NEW g, g \in Ready PROVE g \in Ready'
    <3>1. CASE \E f \in SpawnEvents : f \in Pending /\ f.handler = g
      <4>1. PICK f \in SpawnEvents : f \in Pending /\ f.handler = g
        BY <3>1
      <4>2. CASE f = e
        BY <1>8, <1>17, <4>1, <4>2, ReadyIsNext
      <4>3. CASE f # e
        BY <1>6, <1>18, <4>1, <4>3, ReadyIsNext
      <4> QED
        BY <4>2, <4>3
    <3>2. CASE \E d \in Coros : d \in Pending /\ ~ stop[d] /\ hdr[d] = g
      <4>1. PICK d \in Coros : d \in Pending /\ ~ stop[d] /\ hdr[d] = g
        BY <3>2
      <4>2. d # c /\ d # e
        BY <1>6, <1>17, <4>1
      <4> QED
        BY <1>8, <1>18, <4>1, <4>2, ReadyIsNext
    <3> QED
      BY <2>2, <3>1, <3>2, ReadyIs
  <2> QED
    BY <2>1, <2>2
<1>21. \A g : g \in Running' <=> g \in Running
  <2>1. \A u \in Threads : run[u] # None => run[u] \in Coros \ {c}
    BY <1>0, <1>4 DEF Types
  <2>2. ASSUME NEW g, g \in Running' PROVE g \in Running
    <3>1. PICK u \in Threads : run[u] # None /\ phase[u] # "last yield" /\ hdr'[run[u]] = g
      BY <1>2, <2>2, RunningIsNext
    <3> QED
      BY <1>8, <2>1, <3>1, RunningIs
  <2>3. ASSUME NEW g, g \in Running PROVE g \in Running'
    <3>1. PICK u \in Threads : run[u] # None /\ phase[u] # "last yield" /\ hdr[run[u]] = g
      BY <2>3, RunningIs
    <3> QED
      BY <1>2, <1>8, <2>1, <3>1, RunningIsNext
  <2> QED
    BY <2>2, <2>3
<1>22. [Service!Next]_(Service!vars)
  BY <1>2, <1>20, <1>21, Stutters
<1> QED
  BY <1>9, <1>10, <1>15, <1>22 DEF Rest

LEMMA HandleCoroRefines ==
  ASSUME HInv, NEW t \in Threads, run[t] = None, HandleCoro(t)
  PROVE  Rest' /\ [Service!Next]_(Service!vars)
<1>0. Types /\ Visits /\ Waiting /\ Apart /\ Numbers /\ Holders /\ UnbornNew /\ UnbornOnce
  BY DEF HInv, IInv
<1> PICK c \in Coros : c = ev[t]
  BY DEF HandleCoro
<1>1. /\ ~ stop[c] /\ Jump(t, c)
      /\ UNCHANGED <<que, ev, stop, hdr, home, pooled, owed, spawned, finished>>
  BY DEF HandleCoro, history
<1>2. \/ UNCHANGED <<run, phase>>
      \/ run' = [run EXCEPT ![t] = c] /\ phase' = [phase EXCEPT ![t] = "code"]
  BY <1>1 DEF Jump
<1>3. /\ \A v \in Workers : \A i \in 1 .. Len(que[v]) : que[v][i] # c
      /\ home[c] # None /\ c \notin pooled
  BY <1>0, InHand DEF Apart
<1>4. \A u \in Threads \ {t} : ev[u] # c
  BY <1>0, OneHand
<1>5. c # None
  BY NoneAssumption
<1>6. \A u \in Threads \ {t} : run'[u] = run[u] /\ phase'[u] = phase[u]
  BY <1>0, <1>2 DEF Types
<1>7. \/ run'[t] = None
      \/ run'[t] = c /\ phase'[t] = "code"
  BY <1>0, <1>2 DEF Types
<1>8. Numbers'
  BY <1>0, <1>1 DEF Numbers
<1>9. Holders'
  <2>1. \A u \in Threads : run'[u] # None /\ phase'[u] # "last yield" => ~ stop[run'[u]]
    <3> SUFFICES ASSUME NEW u \in Threads, run'[u] # None, phase'[u] # "last yield"
                 PROVE  ~ stop[run'[u]]
      OBVIOUS
    <3>1. CASE u = t
      BY <1>1, <1>7, <3>1
    <3>2. CASE u # t
      BY <1>0, <1>6, <3>2 DEF Holders
    <3> QED
      BY <3>1, <3>2
  <2> QED
    BY <1>0, <1>1, <2>1 DEF Holders
<1>10. UnbornNew' /\ UnbornOnce'
  <2>1. \A g : New(g) => New(g)'
    BY <1>1 DEF New
  <2> QED
    BY <1>0, <1>1, <2>1, KeptUnborn
<1>11. CASE UNCHANGED <<run, phase>>
  <2>1. \A x : x \in Pending' <=> x \in Pending
    BY <1>1, <1>11, PendingIs, PendingIsNext, QueuedIs, QueuedIsNext
  <2>2. \A g : g \in Ready' <=> g \in Ready
    BY <1>1, <2>1, ReadyIs, ReadyIsNext
  <2>3. \A g : g \in Running' <=> g \in Running
    BY <1>1, <1>11, RunningKept
  <2>4. [Service!Next]_(Service!vars)
    BY <1>1, <2>2, <2>3, Stutters
  <2> QED
    BY <1>8, <1>9, <1>10, <2>4 DEF Rest
<1>12. CASE run' = [run EXCEPT ![t] = c] /\ phase' = [phase EXCEPT ![t] = "code"]
  <2>1. run'[t] = c /\ phase'[t] = "code"
    BY <1>0, <1>12 DEF Types
  <2>2. /\ hdr[c] \in Handlers
        /\ \A d \in Coros : hdr[d] = hdr[c] => d = c
        /\ \A e \in SpawnEvents : e \in Pending => e.handler # hdr[c]
    BY <1>3, Named
  <2> PICK h \in Handlers : h = hdr[c]
    BY <2>2
  <2>3. c \in Pending /\ c \notin Pending'
    <3>1. c \in Pending
      BY PendingIs
    <3>2. c \notin QueuedEvents'
      BY <1>1, <1>3, QueuedIsNext
    <3>3. \A u \in Threads : ~ (run'[u] = None /\ ev'[u] = c)
      BY <1>1, <1>4, <1>5, <2>1
    <3> QED
      BY <3>1, <3>2, <3>3, PendingIsNext
  <2>4. \A x : x # c => (x \in Pending' <=> x \in Pending)
    <3>1. \A x : x \in QueuedEvents' <=> x \in QueuedEvents
      BY <1>1, QueuedIs, QueuedIsNext
    <3>2. \A x : \A u \in Threads : x # c => (run'[u] = None /\ ev'[u] = x <=> run[u] = None /\ ev[u] = x)
      <4> SUFFICES ASSUME NEW x, NEW u \in Threads, x # c
                   PROVE  run'[u] = None /\ ev'[u] = x <=> run[u] = None /\ ev[u] = x
        OBVIOUS
      <4>1. CASE u = t
        BY <1>1, <4>1
      <4>2. CASE u # t
        BY <1>1, <1>6, <4>2
      <4> QED
        BY <4>1, <4>2
    <3> QED
      BY <3>1, <3>2, PendingIs, PendingIsNext
  <2>5. c \notin SpawnEvents
    BY EventsAssumption
  <2>6. h \in Ready /\ h \notin Ready'
    <3>1. h \in Ready
      BY <1>1, <2>3, ReadyIs
    <3>2. ASSUME NEW e \in SpawnEvents, e \in Pending' PROVE e.handler # h
      BY <2>2, <2>4, <2>5, <3>2
    <3>3. ASSUME NEW d \in Coros, d \in Pending', hdr'[d] = h PROVE FALSE
      BY <1>1, <2>2, <2>3, <3>3
    <3> QED
      BY <3>1, <3>2, <3>3, ReadyIsNext
  <2>7. ASSUME NEW g, g # h PROVE g \in Ready' <=> g \in Ready
    BY <1>1, <2>4, <2>5, <2>7, ReadyIs, ReadyIsNext
  <2>8. Ready' = Ready \ {h}
    BY <2>6, <2>7
  <2>9. h \notin Running
    <3> SUFFICES ASSUME NEW u \in Threads, run[u] # None, hdr[run[u]] = h
                 PROVE  FALSE
      BY RunningIs
    <3>1. run[u] \in Coros /\ run[u] = c
      BY <1>0, <2>2 DEF Types
    <3>2. u = t
      BY <1>0, <3>1, OneStack
    <3> QED
      BY <3>2
  <2>10. h \in Running'
    BY <1>1, <1>5, <2>1, RunningIsNext
  <2>11. ASSUME NEW g, g # h PROVE g \in Running' <=> g \in Running
    <3>1. ASSUME g \in Running' PROVE g \in Running
      <4>1. PICK u \in Threads : run'[u] # None /\ phase'[u] # "last yield" /\ hdr[run'[u]] = g
        BY <1>1, <3>1, RunningIsNext
      <4>2. u # t
        BY <2>1, <2>11, <4>1
      <4> QED
        BY <1>6, <4>1, <4>2, RunningIs
    <3>2. ASSUME g \in Running PROVE g \in Running'
      <4>1. PICK u \in Threads : run[u] # None /\ phase[u] # "last yield" /\ hdr[run[u]] = g
        BY <3>2, RunningIs
      <4> QED
        BY <1>1, <1>6, <4>1, RunningIsNext
    <3> QED
      BY <3>1, <3>2
  <2>12. Running' = Running \cup {h}
    BY <2>10, <2>11
  <2>13. Service!Enter(h)
    BY <1>1, <2>6, <2>8, <2>9, <2>12 DEF Service!Enter
  <2> QED
    BY <1>8, <1>9, <1>10, <2>13 DEF Rest, Service!Next
<1> QED
  BY <1>2, <1>11, <1>12

LEMMA ReleaseRefines ==
  ASSUME HInv, NEW t \in Threads, run[t] = None, Release(t)
  PROVE  Rest' /\ [Service!Next]_(Service!vars)
<1>0. Types /\ Visits /\ Waiting /\ Apart /\ Numbers /\ Holders /\ UnbornNew /\ UnbornOnce
  BY DEF HInv, IInv
<1> PICK c \in Coros : c = ev[t]
  BY DEF Release
<1>1. /\ stop[c] /\ pooled' = pooled \cup {c} /\ hdr' = [hdr EXCEPT ![c] = NoHandler]
      /\ Leave(t)
      /\ UNCHANGED <<que, run, phase, stop, home, owed, spawned, finished>>
  BY DEF Release, history
<1>2. hdr'[c] = NoHandler /\ \A d \in Coros \ {c} : hdr'[d] = hdr[d]
  BY <1>0, <1>1 DEF Numbers
<1>3. ev'[t] = None /\ \A u \in Threads \ {t} : ev'[u] = ev[u]
  BY <1>0, <1>1, LeaveFacts
<1>4. Numbers'
  <2>1. NoHandler \in 0 .. spawned
    BY <1>0, BoundAssumption DEF Numbers, NoHandler
  <2> QED
    BY <1>0, <1>1, <2>1 DEF Numbers
<1>5. Holders'
  <2>1. \A d \in Coros : home[d] # None /\ d \notin pooled' => hdr'[d] # NoHandler
    BY <1>0, <1>1, <1>2 DEF Holders
  <2>2. \A d, f \in Coros : hdr'[d] = hdr'[f] /\ hdr'[d] # NoHandler => d = f
    BY <1>0, <1>2 DEF Holders
  <2>3. \A d \in Coros : hdr'[d] \in finished => stop[d]
    BY <1>0, <1>1, <1>2 DEF Holders
  <2>4. /\ \A d \in owed : ~ stop[d]
        /\ \A u \in Threads : run[u] # None /\ phase[u] # "last yield" => ~ stop[run[u]]
    BY <1>0 DEF Holders
  <2> QED
    BY <1>1, <2>1, <2>2, <2>3, <2>4 DEF Holders
<1>6. ASSUME NEW g, New(g) PROVE New(g)'
  <2>1. g # NoHandler
    BY <1>0, <1>6 DEF New, Numbers, NoHandler
  <2> QED
    BY <1>1, <1>2, <1>6, <2>1 DEF New
<1>7. \A u \in Threads : \A e \in SpawnEvents : ev'[u] = e => ev[u] = e
  BY <1>3, EventsAssumption
<1>8. UnbornNew' /\ UnbornOnce'
  BY <1>0, <1>1, <1>6, <1>7, KeptUnborn
<1>9. ASSUME NEW y \in SpawnEvents \cup Coros, y # c PROVE y \in Pending' <=> y \in Pending
  <2>1. y # None
    BY EventsAssumption, NoneAssumption
  <2>2. y \in QueuedEvents' <=> y \in QueuedEvents
    BY <1>1, QueuedIs, QueuedIsNext
  <2>3. \A u \in Threads : run'[u] = None /\ ev'[u] = y <=> run[u] = None /\ ev[u] = y
    BY <1>1, <1>3, <1>9, <2>1
  <2> QED
    BY <2>2, <2>3, PendingIs, PendingIsNext
<1>10. c \notin SpawnEvents
  BY EventsAssumption
<1>11. \A g : g \in Ready' <=> g \in Ready
  <2>1. \A e \in SpawnEvents : e \in Pending' <=> e \in Pending
    BY <1>9, <1>10
  <2>2. \A d \in Coros : /\ ~ stop[d] => (d \in Pending' <=> d \in Pending)
                         /\ ~ stop[d] => hdr'[d] = hdr[d]
    BY <1>1, <1>2, <1>9
  <2> QED
    BY <1>1, <2>1, <2>2, ReadyIs, ReadyIsNext
<1>12. \A u \in Threads : run[u] # None => run[u] \in Coros \ {c}
  BY <1>0, OneStack DEF Types
<1>13. \A g : g \in Running' <=> g \in Running
  <2>1. ASSUME NEW g, g \in Running' PROVE g \in Running
    <3>1. PICK u \in Threads : run[u] # None /\ phase[u] # "last yield" /\ hdr'[run[u]] = g
      BY <1>1, <2>1, RunningIsNext
    <3> QED
      BY <1>2, <1>12, <3>1, RunningIs
  <2>2. ASSUME NEW g, g \in Running PROVE g \in Running'
    <3>1. PICK u \in Threads : run[u] # None /\ phase[u] # "last yield" /\ hdr[run[u]] = g
      BY <2>2, RunningIs
    <3> QED
      BY <1>1, <1>2, <1>12, <3>1, RunningIsNext
  <2> QED
    BY <2>1, <2>2
<1>14. [Service!Next]_(Service!vars)
  BY <1>1, <1>11, <1>13, Stutters
<1> QED
  BY <1>4, <1>5, <1>8, <1>14 DEF Rest

LEMMA ReturnRefines ==
  ASSUME HInv, NEW t \in Threads, Return(t)
  PROVE  Rest' /\ [Service!Next]_(Service!vars)
<1>0. Types /\ Visits /\ Waiting /\ Apart /\ Numbers /\ Holders /\ UnbornNew /\ UnbornOnce
  BY DEF HInv, IInv
<1>1. run[t] # None /\ phase[t] = "code"
  BY DEF Return
<1>2. ev[t] = run[t] /\ ev[t] \in Coros
  BY <1>0, <1>1, OnStack
<1> PICK c \in Coros : c = run[t]
  BY <1>2
<1>3. home[c] # None /\ c \notin pooled /\ c \notin owed /\ strand[c] \in Workers
  BY <1>0, <1>1, <1>2, InHand DEF Apart, Types
<1> PICK w \in Workers : w = strand[c]
  BY <1>3
<1>4. /\ Async(w, c) /\ c \in Events
      /\ finished' = finished \cup {hdr[c]} /\ stop' = [stop EXCEPT ![c] = TRUE]
      /\ phase' = [phase EXCEPT ![t] = "last yield"]
      /\ UNCHANGED <<ev, run, hdr, home, pooled, owed, spawned>>
  BY DEF Return, Events
<1>5. /\ stop'[c] /\ \A d \in Coros \ {c} : stop'[d] = stop[d]
      /\ phase'[t] = "last yield" /\ \A u \in Threads \ {t} : phase'[u] = phase[u]
  BY <1>0, <1>4 DEF Numbers, Types
<1>6. /\ hdr[c] \in Handlers /\ hdr[c] \in 1 .. spawned
      /\ \A d \in Coros : hdr[d] = hdr[c] => d = c
      /\ \A e \in SpawnEvents : e \in Pending => e.handler # hdr[c]
  BY <1>3, Named
<1> PICK h \in Handlers : h = hdr[c]
  BY <1>6
<1>7. \A u \in Threads \ {t} : run[u] # None => run[u] \in Coros \ {c}
  BY <1>0, <1>2, OneStack DEF Types
<1>8. Numbers'
  BY <1>0, <1>4, <1>6 DEF Numbers
<1>9. Holders'
  <2>1. \A d \in Coros : hdr[d] \in finished' => stop'[d]
    BY <1>0, <1>4, <1>5, <1>6 DEF Holders
  <2>2. \A d \in owed : ~ stop'[d]
    BY <1>0, <1>3, <1>5 DEF Holders, Types
  <2>3. \A u \in Threads : run[u] # None /\ phase'[u] # "last yield" => ~ stop'[run[u]]
    BY <1>0, <1>5, <1>7 DEF Holders
  <2> QED
    BY <1>0, <1>4, <2>1, <2>2, <2>3 DEF Holders
<1>10. \A g : New(g) => New(g)'
  BY <1>4 DEF New
<1>11. c \notin SpawnEvents
  BY EventsAssumption
<1>12. UnbornNew' /\ UnbornOnce'
  <2>1. \A u \in Threads : \A f \in SpawnEvents : ev'[u] = f => ev[u] = f
    BY <1>4
  <2>2. \A v \in Workers : \A i \in 1 .. Len(que[v]) : \A f \in SpawnEvents :
            que[v][i] = f => New(f.handler)' /\ (c \in SpawnEvents => f.handler # c.handler)
    BY <1>0, <1>10, <1>11 DEF UnbornNew
  <2>3. \A u \in Threads : \A f \in SpawnEvents :
            ev'[u] = f => New(f.handler)' /\ (c \in SpawnEvents => f.handler # c.handler)
    BY <1>0, <1>10, <1>11, <2>1 DEF UnbornNew
  <2>4. \A f \in SpawnEvents : c = f => New(f.handler)'
    BY <1>11
  <2>5. Async(w, c) /\ c \in Events
    BY <1>4
  <2> QED
    BY <1>0, <2>1, <2>2, <2>3, <2>4, <2>5, AsyncUnborn
<1>13. \A x : x # c => (x \in Pending' <=> x \in Pending)
  BY <1>0, <1>4, QueuedAfterAsync, PendingIs, PendingIsNext
<1>14. c \notin Pending
  <2>1. c \notin QueuedEvents
    BY <1>0, <1>1, <1>2, InHand, QueuedIs
  <2>2. \A u \in Threads : ev[u] = c => run[u] # None
    BY <1>0, <1>1, <1>2, OneHand
  <2> QED
    BY <2>1, <2>2, PendingIs
<1>15. \A g : g \in Ready' <=> g \in Ready
  <2>1. \A e \in SpawnEvents : e \in Pending' <=> e \in Pending
    BY <1>11, <1>13
  <2>2. \A d \in Coros : d \in Pending' /\ ~ stop'[d] <=> d \in Pending /\ ~ stop[d]
    BY <1>5, <1>13, <1>14
  <2> QED
    BY <1>4, <2>1, <2>2, ReadyIs, ReadyIsNext
<1>16. h \in Running /\ h \notin Ready
  <2>1. h \in Running
    BY <1>1, RunningIs
  <2>2. \A d \in Coros : d \in Pending => hdr[d] # h
    BY <1>6, <1>14
  <2> QED
    BY <1>6, <2>1, <2>2, ReadyIs
<1>17. \A g : g \in Running' <=> g \in Running /\ g # h
  <2>1. ASSUME NEW g, g \in Running' PROVE g \in Running /\ g # h
    <3>1. PICK u \in Threads : run[u] # None /\ phase'[u] # "last yield" /\ hdr[run[u]] = g
      BY <1>4, <2>1, RunningIsNext
    <3>2. u # t
      BY <1>5, <3>1
    <3>3. g # h
      BY <1>6, <1>7, <3>1, <3>2
    <3>4. g \in Running
      BY <1>5, <3>1, <3>2, RunningIs
    <3> QED
      BY <3>3, <3>4
  <2>2. ASSUME NEW g, g \in Running, g # h PROVE g \in Running'
    <3>1. PICK u \in Threads : run[u] # None /\ phase[u] # "last yield" /\ hdr[run[u]] = g
      BY <2>2, RunningIs
    <3>2. u # t
      BY <2>2, <3>1
    <3> QED
      BY <1>4, <1>5, <3>1, <3>2, RunningIsNext
  <2> QED
    BY <2>1, <2>2
<1>18. Running' = Running \ {h} /\ Ready' = Ready
  BY <1>15, <1>17
<1>19. Service!Return(h)
  BY <1>4, <1>16, <1>18 DEF Service!Return
<1> QED
  BY <1>8, <1>9, <1>12, <1>19 DEF Rest, Service!Next

LEMMA UnchangedRefines ==
  ASSUME HInv, UNCHANGED vars
  PROVE  Rest' /\ [Service!Next]_(Service!vars)
<1>0. Numbers /\ Holders /\ UnbornNew /\ UnbornOnce
  BY DEF HInv
<1>1. UNCHANGED <<que, ev, run, phase, stop, hdr, home, pooled, owed, spawned, finished>>
  BY DEF vars, threadVars, coroVars, history
<1>2. Numbers' /\ Holders'
  BY <1>0, <1>1 DEF Numbers, Holders
<1>3. \A g : New(g) => New(g)'
  BY <1>1 DEF New
<1>4. UnbornNew' /\ UnbornOnce'
  BY <1>0, <1>1, <1>3, KeptUnborn
<1>5. \A x : x \in Pending' <=> x \in Pending
  BY <1>1, PendingIs, PendingIsNext, QueuedIs, QueuedIsNext
<1>6. \A g : g \in Ready' <=> g \in Ready
  BY <1>1, <1>5, ReadyIs, ReadyIsNext
<1>7. \A g : g \in Running' <=> g \in Running
  BY <1>1, RunningIs, RunningIsNext
<1>8. [Service!Next]_(Service!vars)
  BY <1>1, <1>6, <1>7, Stutters
<1> QED
  BY <1>2, <1>4, <1>8 DEF Rest

LEMMA NextRefines == HInv /\ [Next]_vars => HInv' /\ [Service!Next]_(Service!vars)
<1> SUFFICES ASSUME HInv, [Next]_vars PROVE HInv' /\ [Service!Next]_(Service!vars)
  OBVIOUS
<1>1. IInv'
  BY NextStep DEF HInv
<1>2. ASSUME NEW t \in Threads, Step(t) PROVE Rest' /\ [Service!Next]_(Service!vars)
  <2>1. ASSUME NEW w \in Workers, Take(t, w)
        PROVE  Rest' /\ [Service!Next]_(Service!vars)
    BY <2>1, TakeRefines
  <2>2. ASSUME run[t] = None, HandleSpawn(t) \/ HandleCoro(t) \/ Release(t)
        PROVE  Rest' /\ [Service!Next]_(Service!vars)
    BY <2>2, HandleSpawnRefines, HandleCoroRefines, ReleaseRefines
  <2>3. ASSUME Arrange(t) \/ Return(t) \/ Yield(t)
        PROVE  Rest' /\ [Service!Next]_(Service!vars)
    BY <2>3, ArrangeRefines, ReturnRefines, YieldRefines
  <2> QED
    BY <1>2, <2>1, <2>2, <2>3 DEF Step
<1>3. Rest' /\ [Service!Next]_(Service!vars)
  BY <1>2, SpawnRefines, ResumeRefines, UnchangedRefines DEF Next
<1> QED
  BY <1>1, <1>3 DEF HInv, Rest

(***************************************************************************)
(* The coroutines implement SpawnService: however they are posted, popped, *)
(* resumed early or late, moved between threads and their corctxs used     *)
(* again, no handler is run by two threads at once, resumed out of turn or *)
(* run after it has returned (spawn_event::handle, basic_corctx::handle,   *)
(* resume, yield and run).                                                 *)
(***************************************************************************)
THEOREM SpawnsRefined == Spec => ImplementsSpawns
<1>1. Init => HInv /\ Service!Init
  BY HInitHolds
<1>2. HInv /\ [Next]_vars => HInv' /\ [Service!Next]_(Service!vars)
  BY NextRefines
<1> QED
  BY <1>1, <1>2, PTL DEF Spec, ImplementsSpawns, Service!Spec

-----------------------------------------------------------------------------
(* The affix list of a context *)

(* An object is in the array or in the map, not in both. *)
OnePlace == \A i \in Slots, T \in UserTypes : vec[i] # Null => map[T] # vec[i]

ListInv == ListTypeOK /\ SizeCounts /\ NothingLost /\ OnePerType /\ OnePlace

Entries == {i \in Slots : vec[i] # Null}

(* Slots are finitely many, and as many as Division says. *)
LEMMA SlotsFinite == IsFiniteSet(Slots) /\ Cardinality(Slots) = Division
  BY DivisionAssumption, FS_Interval, Division - 1 \in Int, 0 \in Int DEF Slots

(* A set of slots has a first one. *)
LEMMA FirstIn ==
  ASSUME NEW S \in SUBSET Slots, S # {}
  PROVE  First(S) \in S /\ \A j \in S : First(S) <= j
<1> DEFINE Below == {0 .. i : i \in S}
<1>1. S \subseteq Nat
  BY DivisionAssumption DEF Slots
<1>2. \A i \in S : 0 .. i \in FiniteSubsetsOf(Nat)
  BY <1>1, FS_Interval DEF FiniteSubsetsOf
<1>3. PICK least \in Below :
            \A b \in Below : ~ (<<b, least>> \in StrictSubsetOrdering(Nat))
  <2>1. Below \subseteq FiniteSubsetsOf(Nat) /\ Below # {}
    BY <1>2
  <2> HIDE DEF Below
  <2> QED
    BY <2>1, WFMin, FS_StrictSubsetOrderingWellFounded
<1>4. PICK n \in S : least = 0 .. n
  OBVIOUS
<1>5. ASSUME NEW j \in S, j < n PROVE FALSE
  <2>1. n \in Nat /\ j \in Nat
    BY <1>1
  <2>2. 0 .. j \subseteq 0 .. n /\ n \in 0 .. n /\ n \notin 0 .. j
    BY <1>5, <2>1
  <2>3. 0 .. j \in SUBSET Nat /\ 0 .. n \in SUBSET Nat
    BY <2>1
  <2>4. <<0 .. j, least>> \in StrictSubsetOrdering(Nat)
    BY <1>4, <2>2, <2>3 DEF StrictSubsetOrdering
  <2> QED
    BY <1>3, <2>4
<1>6. \A j \in S : n <= j
  <2> HIDE DEF Below
  <2>1. \A j \in S : j \in Nat /\ n \in Nat
    BY <1>1
  <2> QED
    BY <1>5, <2>1
<1> QED
  BY <1>6 DEF First

(* The slots with entries are finitely many. *)
LEMMA EntriesFinite == /\ IsFiniteSet(Entries)
                       /\ Entries = Slots \ Holes
                       /\ Cardinality(Entries) \in Nat
                       /\ Cardinality(Entries) <= Division
<1>1. Entries \in SUBSET Slots /\ Entries = Slots \ Holes
  BY DEF Entries, Holes
<1> QED
  BY <1>1, SlotsFinite, FS_Subset, FS_CardinalityType

(* While the count is below Division, there is a hole. *)
LEMMA HoleLeft ==
  ASSUME SizeCounts, vecSize < Division
  PROVE  Holes # {}
<1> SUFFICES ASSUME Holes = {} PROVE FALSE
  OBVIOUS
<1>1. Entries = Slots
  BY EntriesFinite
<1> QED
  BY <1>1, SlotsFinite, EntriesFinite, DivisionAssumption DEF SizeCounts

(* add comes to every entry: it has not passed all of them before the last. *)
LEMMA EntriesScanned ==
  ASSUME ListTypeOK, SizeCounts, NEW i \in Entries
  PROVE  Scanned(i)
<1> SUFFICES ASSUME NEW j \in 0 .. i - 1, Passed(j) >= vecSize
             PROVE  FALSE
  BY DEF Scanned
<1> DEFINE P == {k \in 0 .. j : vec[k] # Null}
<1>1. i \in 0 .. Division - 1 /\ j \in Nat /\ j < i
  BY DivisionAssumption DEF Entries, Slots
<1>2. P \in SUBSET (Entries \ {i})
  BY <1>1, DivisionAssumption DEF Entries, Slots
<1>3. /\ IsFiniteSet(Entries \ {i})
      /\ Cardinality(Entries \ {i}) = Cardinality(Entries) - 1
  BY EntriesFinite, FS_RemoveElement
<1>4. Cardinality(P) <= Cardinality(Entries \ {i}) /\ Cardinality(P) \in Nat
  BY <1>2, <1>3, FS_Subset, FS_CardinalityType
<1>5. Cardinality(P) >= Cardinality(Entries)
  BY EntriesFinite DEF Passed, SizeCounts
<1> QED
  BY <1>3, <1>4, <1>5, EntriesFinite

-----------------------------------------------------------------------------
(* The steps.  A slot, a map entry and the count change together; each is   *)
(* shown to keep the whole invariant.                                       *)

(* What the slots and the count become when slot i gets an object, or loses *)
(* the one it has.                                                          *)
LEMMA CountFilled ==
  ASSUME ListTypeOK, SizeCounts, NEW i \in Slots, vec[i] = Null, NEW a \in Affixes,
         vec' = [vec EXCEPT ![i] = a], vecSize' = vecSize + 1
  PROVE  SizeCounts' /\ vecSize' \in 0 .. Division
<1>1. (Slots \ Holes)' = Entries \cup {i} /\ i \notin Entries
  BY NullAssumption DEF Entries, Holes, ListTypeOK
<1>2. Cardinality((Slots \ Holes)') = Cardinality(Entries) + 1
  BY <1>1, EntriesFinite, FS_AddElement
<1>3. (Slots \ Holes)' \in SUBSET Slots
  BY DEF Slots
<1>4. Cardinality((Slots \ Holes)') <= Division
  BY <1>3, SlotsFinite, FS_Subset
<1> QED
  BY <1>2, <1>4, EntriesFinite, DivisionAssumption DEF SizeCounts

LEMMA CountEmptied ==
  ASSUME ListTypeOK, SizeCounts, NEW i \in Slots, vec[i] # Null,
         vec' = [vec EXCEPT ![i] = Null], vecSize' = vecSize - 1
  PROVE  SizeCounts' /\ vecSize' \in 0 .. Division
<1>1. (Slots \ Holes)' = Entries \ {i} /\ i \in Entries
  BY DEF Entries, Holes, ListTypeOK
<1>2. /\ Cardinality((Slots \ Holes)') = Cardinality(Entries) - 1
      /\ Cardinality((Slots \ Holes)') \in Nat
  BY <1>1, EntriesFinite, FS_RemoveElement, FS_CardinalityType
<1> QED
  BY <1>2, EntriesFinite, DivisionAssumption DEF SizeCounts, ListTypeOK

LEMMA CountSame ==
  ASSUME ListTypeOK, SizeCounts, NEW i \in Slots, vec[i] # Null, NEW a \in Affixes,
         vec' = [vec EXCEPT ![i] = a], vecSize' = vecSize
  PROVE  SizeCounts' /\ vecSize' \in 0 .. Division
<1>1. (Slots \ Holes)' = Slots \ Holes
  BY NullAssumption DEF Holes, ListTypeOK
<1> QED
  BY <1>1 DEF SizeCounts, ListTypeOK

(* Calls that leave array and count alone. *)
LEMMA CountUntouched ==
  ASSUME ListTypeOK, SizeCounts, UNCHANGED <<vec, vecSize>>
  PROVE  SizeCounts' /\ vecSize' \in 0 .. Division
  BY DEF SizeCounts, Holes, ListTypeOK

(* add, into the array or into the map. *)
LEMMA AddKeeps ==
  ASSUME ListInv, NEW a \in Affixes, Add(a)
  PROVE  ListInv'
<1> USE DEF ListInv, ListTypeOK, OnePerType, OnePlace, NothingLost, Inside
<1> USE NullAssumption, TypeAssumption
<1> DEFINE same == {i \in Slots : Scanned(i) /\ Is(i, TypeOf(a))}
<1>0. /\ a \notin given /\ a # Null
      /\ \A i \in Slots : vec[i] # a
      /\ \A T \in UserTypes : map[T] # a
  BY DEF Add
<1>1. CASE vecSize < Division /\ same # {}
  <2>1. PICK i \in Slots : /\ i = First(same)
                           /\ Is(i, TypeOf(a))
                           /\ vec' = [vec EXCEPT ![i] = a]
                           /\ out' = {vec[i]}
                           /\ UNCHANGED <<vecSize, map, hung>>
                           /\ given' = (given \cup {a}) \ {vec[i]}
    <3>1. same \in SUBSET Slots
      OBVIOUS
    <3>2. First(same) \in same
      BY <1>1, <3>1, FirstIn
    <3> QED
      BY <1>1, <3>2 DEF Add, AddInVec
  <2>2. vec[i] # Null /\ TypeOf(vec[i]) = TypeOf(a) /\ vec[i] \in Affixes
    BY <2>1 DEF Is
  <2>3. SizeCounts' /\ vecSize' \in 0 .. Division
    BY <2>1, <2>2, CountSame
  <2>4. ListTypeOK'
    BY <1>0, <2>1, <2>2, <2>3
  <2>5. OnePerType' /\ OnePlace'
    BY <1>0, <2>1, <2>2
  <2>6. NothingLost'
    <3>1. \A j \in Slots : vec'[j] = IF j = i THEN a ELSE vec[j]
      BY <2>1
    <3>2. \A j \in Slots \ {i} : vec[j] # vec[i]
      BY <2>2
    <3>3. \A T \in UserTypes : map'[T] = map[T] /\ map[T] # vec[i]
      BY <2>1, <2>2
    <3> QED
      BY <1>0, <2>1, <2>2, <3>1, <3>2, <3>3
  <2> QED
    BY <2>3, <2>4, <2>5, <2>6
<1>2. CASE vecSize < Division /\ same = {}
  <2>1. PICK i \in Slots : /\ vec[i] = Null
                           /\ vec' = [vec EXCEPT ![i] = a]
                           /\ vecSize' = vecSize + 1
                           /\ out' = {}
                           /\ UNCHANGED <<map, hung>>
                           /\ given' = given \cup {a}
    <3>1. Holes \in SUBSET Slots /\ Holes # {}
      BY <1>2, HoleLeft DEF Holes
    <3>2. First(Holes) \in Holes
      BY <3>1, FirstIn
    <3> QED
      BY <1>2, <3>2 DEF Add, AddInVec, Holes
  <2>2. \A j \in Slots : vec[j] # Null => TypeOf(vec[j]) # TypeOf(a)
    <3> SUFFICES ASSUME NEW j \in Slots, vec[j] # Null, TypeOf(vec[j]) = TypeOf(a)
                 PROVE  FALSE
      OBVIOUS
    <3>1. j \in Entries
      BY DEF Entries
    <3>2. Scanned(j)
      BY <3>1, EntriesScanned
    <3> QED
      BY <1>2, <3>2 DEF Is
  <2>3. SizeCounts' /\ vecSize' \in 0 .. Division
    BY <2>1, CountFilled
  <2>4. ListTypeOK'
    BY <2>1, <2>3
  <2>5. OnePerType' /\ OnePlace'
    BY <1>0, <2>1, <2>2
  <2>6. NothingLost'
    <3>1. \A j \in Slots : vec'[j] = IF j = i THEN a ELSE vec[j]
      BY <2>1
    <3> QED
      BY <1>0, <2>1, <3>1
  <2> QED
    BY <2>3, <2>4, <2>5, <2>6
<1>3. CASE ~ (vecSize < Division)
  <2>1. /\ map' = [map EXCEPT ![TypeOf(a)] = a]
        /\ out' = {map[TypeOf(a)]} \ {Null}
        /\ UNCHANGED <<vec, vecSize, hung>>
        /\ given' = (given \cup {a}) \ out'
    BY <1>3 DEF Add, AddInMap
  <2>2. SizeCounts' /\ vecSize' \in 0 .. Division
    BY <2>1, CountUntouched
  <2>3. ListTypeOK'
    BY <2>1, <2>2
  <2>4. OnePerType' /\ OnePlace'
    BY <1>0, <2>1
  <2>5. NothingLost'
    <3>1. \A T \in UserTypes : map'[T] = IF T = TypeOf(a) THEN a ELSE map[T]
      BY <2>1
    <3>2. \A T \in UserTypes \ {TypeOf(a)} : map[T] # Null => map[T] # map[TypeOf(a)]
      BY TypeAssumption
    <3>3. \A j \in Slots : vec[j] # Null => vec[j] # map[TypeOf(a)]
      BY TypeAssumption
    <3> QED
      BY <1>0, <2>1, <3>1, <3>2, <3>3
  <2> QED
    BY <2>2, <2>3, <2>4, <2>5
<1> QED
  BY <1>1, <1>2, <1>3

(* get changes nothing but what it returns. *)
LEMMA GetKeeps ==
  ASSUME ListInv, NEW T \in UserTypes, Get(T)
  PROVE  ListInv'
<1> USE DEF ListInv
<1>1. UNCHANGED <<vec, vecSize, map, given>>
  BY DEF Get
<1>2. SizeCounts' /\ vecSize' \in 0 .. Division
  BY <1>1, CountUntouched
<1>3. out' \subseteq Affixes /\ hung' \in BOOLEAN
  <2>1. FoundAt(T) \in SUBSET Slots
    BY DEF FoundAt
  <2>2. FoundAt(T) # {} => First(FoundAt(T)) \in FoundAt(T)
    BY <2>1, FirstIn
  <2>3. \A i \in FoundAt(T) : vec[i] \in Affixes
    BY DEF FoundAt, Is, ListTypeOK
  <2>4. map[T] \in Affixes \cup {Null}
    BY DEF ListTypeOK
  <2> QED
    BY <2>2, <2>3, <2>4 DEF Get, Hangs
<1>4. ListTypeOK'
  BY <1>1, <1>2, <1>3 DEF ListTypeOK
<1>5. NothingLost' /\ OnePerType' /\ OnePlace'
  BY <1>1 DEF NothingLost, Inside, OnePerType, OnePlace
<1> QED
  BY <1>2, <1>4, <1>5

(* rmv takes an entry out of the array or out of the map, or nothing. *)
LEMMA RmvKeeps ==
  ASSUME ListInv, NEW T \in UserTypes, Rmv(T)
  PROVE  ListInv'
<1> USE DEF ListInv, ListTypeOK, OnePerType, OnePlace, NothingLost, Inside
<1> USE NullAssumption, TypeAssumption
<1>0. hung' \in BOOLEAN
  BY DEF Rmv, Hangs
<1>1. CASE Hangs(T)
  <2>1. UNCHANGED <<vec, vecSize, map, given>> /\ out' = {}
    BY <1>1 DEF Rmv
  <2>2. SizeCounts' /\ vecSize' \in 0 .. Division
    BY <2>1, CountUntouched
  <2> QED
    BY <1>0, <2>1, <2>2
<1>2. CASE ~ Hangs(T) /\ FoundAt(T) # {}
  <2>1. PICK i \in Slots : /\ vec[i] # Null
                           /\ vec' = [vec EXCEPT ![i] = Null]
                           /\ vecSize' = vecSize - 1
                           /\ out' = {vec[i]}
                           /\ UNCHANGED map
                           /\ given' = given \ {vec[i]}
    <3>1. FoundAt(T) \in SUBSET Slots
      BY DEF FoundAt
    <3>2. First(FoundAt(T)) \in FoundAt(T)
      BY <1>2, <3>1, FirstIn
    <3> QED
      BY <1>2, <3>2 DEF Rmv, RmvFromVec, FoundAt, Is
  <2>2. SizeCounts' /\ vecSize' \in 0 .. Division
    BY <2>1, CountEmptied
  <2>3. ListTypeOK'
    BY <1>0, <2>1, <2>2
  <2>4. OnePerType' /\ OnePlace'
    BY <2>1
  <2>5. NothingLost'
    <3>1. \A j \in Slots : vec'[j] = IF j = i THEN Null ELSE vec[j]
      BY <2>1
    <3>2. \A j \in Slots \ {i} : vec[j] # vec[i]
      BY <2>1
    <3>3. \A U \in UserTypes : map'[U] = map[U] /\ map[U] # vec[i]
      BY <2>1
    <3> QED
      BY <2>1, <3>1, <3>2, <3>3
  <2> QED
    BY <2>2, <2>3, <2>4, <2>5
<1>3. CASE ~ Hangs(T) /\ FoundAt(T) = {}
  <2>1. /\ map' = [map EXCEPT ![T] = Null]
        /\ out' = {map[T]} \ {Null}
        /\ UNCHANGED <<vec, vecSize>>
        /\ given' = given \ out'
    BY <1>3 DEF Rmv, RmvFromMap
  <2>2. SizeCounts' /\ vecSize' \in 0 .. Division
    BY <2>1, CountUntouched
  <2>3. ListTypeOK'
    BY <1>0, <2>1, <2>2
  <2>4. OnePerType' /\ OnePlace'
    BY <2>1
  <2>5. NothingLost'
    <3>1. \A U \in UserTypes : map'[U] = IF U = T THEN Null ELSE map[U]
      BY <2>1
    <3>2. \A U \in UserTypes \ {T} : map[U] # Null => map[U] # map[T]
      OBVIOUS
    <3>3. \A j \in Slots : vec[j] # Null => vec[j] # map[T]
      OBVIOUS
    <3> QED
      BY <2>1, <3>1, <3>2, <3>3
  <2> QED
    BY <2>2, <2>3, <2>4, <2>5
<1> QED
  BY <1>1, <1>2, <1>3

(* clear returns everything. *)
LEMMA ClearKeeps ==
  ASSUME ListInv, Clear
  PROVE  ListInv'
<1> USE DEF ListInv, ListTypeOK, NothingLost, Inside
<1>1. /\ vec' = [i \in Slots |-> Null] /\ vecSize' = 0
      /\ map' = [T \in UserTypes |-> Null] /\ hung' = hung
      /\ out' \subseteq Affixes /\ given \subseteq out' /\ given' = {}
  BY NullAssumption DEF Clear
<1>2. (Slots \ Holes)' = {}
  BY <1>1 DEF Holes
<1>3. SizeCounts'
  BY <1>1, <1>2, FS_EmptySet DEF SizeCounts
<1>4. ListTypeOK'
  BY <1>1, DivisionAssumption
<1>5. NothingLost' /\ OnePerType' /\ OnePlace'
  BY <1>1 DEF OnePerType, OnePlace
<1> QED
  BY <1>3, <1>4, <1>5

(* The empty list. *)
LEMMA InitListInv == ListInit => ListInv
<1> SUFFICES ASSUME ListInit PROVE ListInv
  OBVIOUS
<1> USE DEF ListInit
<1>1. Slots \ Holes = {}
  BY DEF Holes
<1>2. SizeCounts
  BY <1>1, FS_EmptySet DEF SizeCounts
<1>3. ListTypeOK
  <2>1. /\ vec \in [Slots -> Affixes \cup {Null}] /\ map \in [UserTypes -> Affixes \cup {Null}]
        /\ vecSize \in 0 .. Division
    BY DivisionAssumption
  <2>2. hung \in BOOLEAN
    OBVIOUS
  <2>3. out \subseteq Affixes /\ given \subseteq Affixes
    OBVIOUS
  <2> QED
    BY <2>1, <2>2, <2>3 DEF ListTypeOK
<1>4. NothingLost /\ OnePerType /\ OnePlace
  BY DEF NothingLost, Inside, OnePerType, OnePlace
<1> QED
  BY <1>2, <1>3, <1>4 DEF ListInv

(* Every call keeps the invariant. *)
LEMMA StepListInv == ListInv /\ [ListNext]_listVars => ListInv'
<1> SUFFICES ASSUME ListInv, [ListNext]_listVars PROVE ListInv'
  OBVIOUS
<1>1. CASE UNCHANGED listVars
  BY <1>1 DEF ListInv, listVars, ListTypeOK, SizeCounts, Holes, NothingLost, Inside, OnePerType, OnePlace
<1> QED
  BY <1>1, AddKeeps, GetKeeps, RmvKeeps, ClearKeeps DEF ListNext

(* The invariant holds in every state. *)
THEOREM ListInvariance == ListSpec => []ListInv
<1> QED
  BY InitListInv, StepListInv, PTL DEF ListSpec

(* vec_size_ counts the entries of the array, whatever holes there are. *)
THEOREM SizeCountsHolds == ListSpec => []SizeCounts
<1>1. ListInv => SizeCounts
  BY DEF ListInv
<1> QED
  BY <1>1, ListInvariance, PTL

(* No object is leaked by the list or kept after it was returned. *)
THEOREM NothingLostHolds == ListSpec => []NothingLost
<1>1. ListInv => NothingLost
  BY DEF ListInv
<1> QED
  BY <1>1, ListInvariance, PTL

(* No two entries of the array are of one type, nor is the map's key wrong. *)
THEOREM OnePerTypeHolds == ListSpec => []OnePerType
<1>1. ListInv => OnePerType
  BY DEF ListInv
<1> QED
  BY <1>1, ListInvariance, PTL
=============================================================================
