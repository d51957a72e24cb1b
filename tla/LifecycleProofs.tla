--------------------------- MODULE LifecycleProofs ---------------------------
(***************************************************************************)
(* Safety of Lifecycle for any numbers of threads, workers and callers and *)
(* any bounds.  What makes the invariant inductive: the numbers of the     *)
(* calls make every event a new one; an event is only queued where its     *)
(* kind and its receiver say; a thread that crashed keeps its worker; and  *)
(* what the destructor has been through stays empty.                       *)
(***************************************************************************)
EXTENDS Lifecycle, SequenceTheorems, TLAPS

Callings == {Idle} \cup [op : {"register"}, kind : Kinds, nr : Nat, thread : Threads]
                   \cup [op : {"stop"}, thread : Threads]

Types == /\ phase \in Phases
         /\ pc \in [Threads -> PCs]
         /\ hand \in [Threads -> Events \cup {NoEvent}]
         /\ cur \in [Threads -> Workers \cup {NoWorker}]
         /\ stop \in [Threads -> BOOLEAN]
         /\ call \in [Callers -> Callings]
         /\ cleaned \in Threads
         /\ dead \subseteq Callers
         /\ released \subseteq made /\ misfreed \subseteq made
         /\ stuck \subseteq made /\ handled \subseteq made
         /\ made \subseteq Events /\ before \subseteq made
         /\ calls \in Nat /\ runs \in Nat

(* s has events of kind k for thread or worker d, each once. *)
Fit(s, k, d) == /\ s \in Seq(Events)
                /\ \A i, j \in 1 .. Len(s) : s[i] = s[j] => i = j
                /\ \A x \in EventsIn(s) : x.kind = k /\ x.to = d

(* An event is in the queue of its kind and of whom it is for. *)
Queues == /\ que \in [Workers -> Seq(Events)]
          /\ hque \in [Kinds -> [Threads -> Seq(Events)]]
          /\ \A w \in Workers : Fit(que[w], "post", w)
          /\ \A k \in Kinds, t \in Threads : Fit(hque[k][t], k, t)

KindAt(l) == IF l = "work" THEN "post" ELSE QueueOf(l)

(* What a thread has in hand it got where it is, and a worker is run by one. *)
Hands == /\ \A t \in Threads :
               /\ hand[t] # NoEvent => /\ pc[t] \in {"start", "work", "exit", "segv"}
                                       /\ hand[t].kind = KindAt(pc[t])
                                       /\ hand[t].to = IF pc[t] = "work" THEN cur[t] ELSE t
               /\ pc[t] = "work" => cur[t] \in Workers
         /\ \A t, u \in Threads : cur[t] = cur[u] /\ cur[t] # NoWorker => t = u

(* Events are numbered by the calls that make them, those of a call that   *)
(* goes on are for the threads it has done.                                *)
Registering(a) == call[a].op = "register"

Numbered ==
    /\ \A x \in made : x.nr <= calls
    /\ \A a \in Callers : Registering(a) =>
           /\ call[a].nr <= calls
           /\ \A x \in made : x.nr = call[a].nr => x.to < call[a].thread
           /\ \A b \in Callers : Registering(b) /\ call[b].nr = call[a].nr => a = b

Given  == released \cup misfreed

Placed == /\ made = InQueues \cup InHand \cup Given \cup stuck
          /\ (InQueues \cup InHand) \cap (Given \cup stuck) = {}
          /\ InQueues \cap InHand = {}

(* Posts leave the queue of a worker in the order they were made. *)
Older(x, y) == x.kind = "post" /\ y.kind = "post" /\ x.to = y.to /\ x.nr < y.nr

Sorted(s) == \A i, j \in 1 .. Len(s) : i < j => s[i].nr < s[j].nr

InOrder == /\ \A w \in Workers : Sorted(que[w])
           /\ \A x \in made \ InQueues, y \in InQueues : ~Older(y, x)
           /\ PostsInOrder

(* Threads that ended, and those that crashed and stay at their handlers,  *)
(* and at their workers.                                                   *)
Ended   == phase \notin {"running", "exited", "aborted"} => \A t \in Threads : pc[t] = "over"
Crashed == phase \notin {"exited", "aborted"} =>
               \A x \in stuck : \E t \in Threads :
                   pc[t] = "segv" /\ x.to = IF x.kind = "post" THEN cur[t] ELSE t

HandledOnly == phase \in {"idle", "running"} => handled = Given

(* How far the destructor has come. *)
Empty(k, t) == hque[k][t] = <<>>

MiscDone(t) == \/ phase = "misc" /\ t < cleaned
               \/ phase \in {"workers", "pools", "data", "destroyed"}
DataDone(t) == \/ phase = "data" /\ t < cleaned
               \/ phase = "destroyed"

Cleaning ==
    /\ phase \in {"workers", "pools"} => cleaned = 0
    /\ \A t \in Threads : /\ MiscDone(t) => Empty("tstart", t) /\ Empty("texit", t)
                          /\ DataDone(t) => Empty("tsegv", t)
    /\ phase \in {"pools", "data", "destroyed"} => \A w \in Workers : que[w] = <<>>

Dying == phase \notin {"data", "destroyed"} => dead = {}

(* Of a handler there was when the run began: its time is over, or has not *)
(* come yet.                                                               *)
Over(x)   == \/ x.kind = "tstart" /\ pc[x.to] \in {"loop", "work", "exit", "over"}
             \/ x.kind = "texit" /\ pc[x.to] = "over"
Before(x) == x.kind = "texit" /\ pc[x.to] \in {"start", "loop", "work"}

Framing == phase = "running" =>
               \A x \in before : /\ x.kind # "post"
                                 /\ Over(x) => x \notin InQueues
                                 /\ Before(x) => x \in InQueues

IInv == /\ Types /\ Queues /\ Hands /\ Numbered /\ Placed
        /\ Ended /\ Crashed /\ HandledOnly /\ Cleaning /\ Dying /\ Framing
        /\ InOrder /\ BackToLivePools

-----------------------------------------------------------------------------
(* Queues of events *)

LEMMA EventsInIs ==
  ASSUME NEW s \in Seq(Events)
  PROVE  /\ Len(s) \in Nat /\ EventsIn(s) \subseteq Events
         /\ \A i \in 1 .. Len(s) : s[i] \in EventsIn(s)
         /\ EventsIn(s) = {} <=> s = <<>>
<1>1. Len(s) \in Nat /\ \A i \in 1 .. Len(s) : s[i] \in Events
  BY ElementOfSeq
<1>2. s # <<>> => 1 \in 1 .. Len(s)
  BY <1>1, EmptySeq
<1>3. s = <<>> => Len(s) = 0
  BY EmptySeq
<1>4. EventsIn(s) \subseteq Events /\ \A i \in 1 .. Len(s) : s[i] \in EventsIn(s)
  BY <1>1 DEF EventsIn
<1>5. s # <<>> => EventsIn(s) # {}
  BY <1>2, <1>4
<1>6. s = <<>> => EventsIn(s) = {}
  <2>1. ASSUME s = <<>>, NEW x \in EventsIn(s) PROVE FALSE
    <3>1. PICK i \in 1 .. Len(s) : x = s[i]
      BY DEF EventsIn
    <3> QED
      BY <1>3, <2>1, <3>1
  <2> QED
    BY <2>1
<1> QED
  BY <1>1, <1>4, <1>5, <1>6

LEMMA FitEmpty ==
  \A k, d : Fit(<<>>, k, d)
BY EmptySeq DEF Fit, EventsIn

LEMMA FitAppend ==
  ASSUME NEW k, NEW d, NEW s, Fit(s, k, d),
         NEW x \in Events, x.kind = k, x.to = d, x \notin EventsIn(s)
  PROVE  Fit(Append(s, x), k, d) /\ EventsIn(Append(s, x)) = EventsIn(s) \cup {x}
<1> DEFINE r == Append(s, x)
<1>1. /\ s \in Seq(Events) /\ \A i, j \in 1 .. Len(s) : s[i] = s[j] => i = j
      /\ \A y \in EventsIn(s) : y.kind = k /\ y.to = d
  BY DEF Fit
<1>2. /\ r \in Seq(Events) /\ Len(s) \in Nat /\ Len(r) = Len(s) + 1 /\ r[Len(s) + 1] = x
      /\ \A i \in 1 .. Len(s) : r[i] = s[i]
  BY <1>1, AppendProperties
<1> HIDE DEF r
<1>3. \A i \in 1 .. Len(r) : i = Len(s) + 1 \/ i \in 1 .. Len(s)
  BY <1>2
<1>4. \A i \in 1 .. Len(s) : i \in 1 .. Len(r)
  BY <1>2
<1>5. Len(s) + 1 \in 1 .. Len(r)
  BY <1>2
<1>6. \A i \in 1 .. Len(s) : s[i] # x
  BY DEF EventsIn
<1>7. EventsIn(r) = EventsIn(s) \cup {x}
  <2>1. ASSUME NEW y, y \in EventsIn(r) PROVE y \in EventsIn(s) \cup {x}
    <3>1. PICK i \in 1 .. Len(r) : y = r[i]
      BY <2>1 DEF EventsIn
    <3> QED
      BY <1>2, <1>3, <3>1 DEF EventsIn
  <2>2. x \in EventsIn(r)
    BY <1>2, <1>5 DEF EventsIn
  <2>3. ASSUME NEW y, y \in EventsIn(s) PROVE y \in EventsIn(r)
    <3>1. PICK i \in 1 .. Len(s) : y = s[i]
      BY <2>3 DEF EventsIn
    <3> QED
      BY <1>2, <1>4, <3>1 DEF EventsIn
  <2> QED
    BY <2>1, <2>2, <2>3
<1>8. \A i, j \in 1 .. Len(r) : r[i] = r[j] => i = j
  BY <1>1, <1>2, <1>3, <1>6
<1>9. Fit(r, k, d)
  BY <1>1, <1>2, <1>7, <1>8 DEF Fit
<1> QED
  BY <1>7, <1>9 DEF r

LEMMA FitPop ==
  ASSUME NEW k, NEW d, NEW s, Fit(s, k, d), s # <<>>
  PROVE  /\ Head(s) \in Events /\ Head(s) \in EventsIn(s)
         /\ Head(s).kind = k /\ Head(s).to = d
         /\ Fit(Tail(s), k, d) /\ EventsIn(Tail(s)) = EventsIn(s) \ {Head(s)}
<1> DEFINE r == Tail(s)
           h == Head(s)
<1>1. /\ s \in Seq(Events) /\ \A i, j \in 1 .. Len(s) : s[i] = s[j] => i = j
      /\ \A y \in EventsIn(s) : y.kind = k /\ y.to = d
  BY DEF Fit
<1>2. /\ r \in Seq(Events) /\ Len(s) \in Nat /\ Len(r) = Len(s) - 1 /\ h = s[1]
      /\ \A i \in 1 .. Len(r) : r[i] = s[i + 1]
  BY <1>1, HeadTailProperties
<1> HIDE DEF r, h
<1>3. Len(s) # 0 /\ 1 \in 1 .. Len(s)
  BY <1>1, <1>2, EmptySeq
<1>4. \A i \in 1 .. Len(r) : i + 1 \in 1 .. Len(s) /\ i + 1 # 1
  BY <1>2, <1>3
<1>5. \A i \in 1 .. Len(s) : i # 1 => i - 1 \in 1 .. Len(r) /\ r[i - 1] = s[i]
  <2> SUFFICES ASSUME NEW i \in 1 .. Len(s), i # 1
               PROVE  i - 1 \in 1 .. Len(r) /\ r[i - 1] = s[i]
    OBVIOUS
  <2>1. i - 1 \in 1 .. Len(r) /\ (i - 1) + 1 = i
    BY <1>2
  <2>2. r[i - 1] = s[(i - 1) + 1]
    BY <1>2, <2>1
  <2> QED
    BY <2>1, <2>2
<1>6. h \in EventsIn(s) /\ h \in Events
  BY <1>1, <1>2, <1>3, EventsInIs
<1>7. EventsIn(r) = EventsIn(s) \ {h}
  <2>1. ASSUME NEW y, y \in EventsIn(r) PROVE y \in EventsIn(s) \ {h}
    <3>1. PICK i \in 1 .. Len(r) : y = r[i]
      BY <2>1 DEF EventsIn
    <3>2. y = s[i + 1] /\ i + 1 \in 1 .. Len(s) /\ i + 1 # 1
      BY <1>2, <1>4, <3>1
    <3>3. y # h
      BY <1>1, <1>2, <1>3, <3>2
    <3> QED
      BY <3>2, <3>3 DEF EventsIn
  <2>2. ASSUME NEW y, y \in EventsIn(s) \ {h} PROVE y \in EventsIn(r)
    <3>1. PICK i \in 1 .. Len(s) : y = s[i]
      BY <2>2 DEF EventsIn
    <3>2. i # 1
      BY <1>2, <2>2, <3>1
    <3> QED
      BY <1>5, <3>1, <3>2 DEF EventsIn
  <2> QED
    BY <2>1, <2>2
<1>8. ASSUME NEW i \in 1 .. Len(r), NEW j \in 1 .. Len(r), r[i] = r[j] PROVE i = j
  <2>1. s[i + 1] = s[j + 1] /\ i + 1 \in 1 .. Len(s) /\ j + 1 \in 1 .. Len(s)
    BY <1>2, <1>4, <1>8
  <2>2. i + 1 = j + 1 /\ i \in Nat /\ j \in Nat
    BY <1>1, <2>1
  <2> QED
    BY <2>2
<1>9. Fit(r, k, d)
  BY <1>1, <1>2, <1>7, <1>8 DEF Fit
<1> QED
  BY <1>1, <1>6, <1>7, <1>9 DEF r, h

LEMMA SortedEmpty == Sorted(<<>>)
BY EmptySeq DEF Sorted

LEMMA SortedAppend ==
  ASSUME NEW s \in Seq(Events), Sorted(s), NEW x \in Events,
         \A y \in EventsIn(s) : y.nr < x.nr
  PROVE  Sorted(Append(s, x))
<1> DEFINE r == Append(s, x)
<1>1. /\ Len(s) \in Nat /\ Len(r) = Len(s) + 1 /\ r[Len(s) + 1] = x
      /\ \A i \in 1 .. Len(s) : r[i] = s[i]
  BY AppendProperties
<1> HIDE DEF r
<1>2. SUFFICES ASSUME NEW i \in 1 .. Len(r), NEW j \in 1 .. Len(r), i < j
               PROVE  r[i].nr < r[j].nr
  BY DEF Sorted, r
<1>3. i \in 1 .. Len(s) /\ (j = Len(s) + 1 \/ j \in 1 .. Len(s))
  BY <1>1, <1>2
<1>4. CASE j = Len(s) + 1
  <2>1. s[i] \in EventsIn(s)
    BY <1>3 DEF EventsIn
  <2> QED
    BY <1>1, <1>3, <1>4, <2>1
<1>5. CASE j \in 1 .. Len(s)
  BY <1>1, <1>2, <1>3, <1>5 DEF Sorted
<1> QED
  BY <1>3, <1>4, <1>5

LEMMA SortedPop ==
  ASSUME NEW s \in Seq(Events), Sorted(s), s # <<>>
  PROVE  Sorted(Tail(s)) /\ \A y \in EventsIn(Tail(s)) : Head(s).nr < y.nr
<1> DEFINE r == Tail(s)
           h == Head(s)
<1>1. /\ Len(s) \in Nat /\ Len(r) = Len(s) - 1 /\ h = s[1]
      /\ \A i \in 1 .. Len(r) : r[i] = s[i + 1]
  BY HeadTailProperties
<1> HIDE DEF r, h
<1>2. ASSUME NEW i \in 1 .. Len(r), NEW j \in 1 .. Len(r), i < j PROVE r[i].nr < r[j].nr
  <2>1. i + 1 \in 1 .. Len(s) /\ j + 1 \in 1 .. Len(s) /\ i + 1 < j + 1
    BY <1>1, <1>2
  <2> QED
    BY <1>1, <2>1 DEF Sorted
<1>3. ASSUME NEW y \in EventsIn(r) PROVE h.nr < y.nr
  <2>1. PICK i \in 1 .. Len(r) : y = r[i]
    BY DEF EventsIn
  <2>2. 1 \in 1 .. Len(s) /\ i + 1 \in 1 .. Len(s) /\ 1 < i + 1 /\ y = s[i + 1]
    BY <1>1, <2>1
  <2> QED
    BY <1>1, <2>2 DEF Sorted
<1>4. Sorted(r)
  BY <1>2 DEF Sorted
<1> QED
  BY <1>3, <1>4 DEF r, h

-----------------------------------------------------------------------------
(* What is in the queues of the service *)

LEMMA PostsAre == \A x : x \in Posts <=> \E w \in Workers : x \in EventsIn(que[w])
<1> DEFINE Sets == {EventsIn(que[w]) : w \in Workers}
<1>1. Posts = UNION Sets
  BY DEF Posts
<1>2. \A y : y \in Sets <=> \E w \in Workers : y = EventsIn(que[w])
  OBVIOUS
<1> HIDE DEF Sets
<1> QED
  BY <1>1, <1>2

LEMMA HandlersAre ==
  \A x : x \in Handlers <=> \E k \in Kinds, t \in Threads : x \in EventsIn(hque[k][t])
<1> DEFINE Sets == {EventsIn(hque[k][t]) : k \in Kinds, t \in Threads}
<1>1. Handlers = UNION Sets
  BY DEF Handlers
<1>2. \A k \in Kinds, t \in Threads : EventsIn(hque[k][t]) \in Sets
  OBVIOUS
<1>3. ASSUME NEW y \in Sets
      PROVE  \E k \in Kinds, t \in Threads : y = EventsIn(hque[k][t])
  OBVIOUS
<1> HIDE DEF Sets
<1> QED
  BY <1>1, <1>2, <1>3

QueuedIff == \A x : x \in InQueues <=>
                        \/ \E w \in Workers : x \in EventsIn(que[w])
                        \/ \E k \in Kinds, t \in Threads : x \in EventsIn(hque[k][t])

LEMMA Queued == QueuedIff
BY PostsAre, HandlersAre DEF InQueues, QueuedIff

LEMMA QueuedNext == QueuedIff'
BY Queued, PTL

(* An event is queued where it belongs or not at all. *)
QueuedRight ==
    /\ InQueues \subseteq Events
    /\ \A w \in Workers : \A x : x \in EventsIn(que[w]) <=>
           x \in InQueues /\ x.kind = "post" /\ x.to = w
    /\ \A k \in Kinds, t \in Threads : \A x : x \in EventsIn(hque[k][t]) <=>
           x \in InQueues /\ x.kind = k /\ x.to = t
    /\ \A x \in InQueues : \/ x.kind = "post" /\ x.to \in Workers
                           \/ x.kind \in Kinds /\ x.to \in Threads

LEMMA QueuedIs == Queues => QueuedRight
<1> SUFFICES ASSUME Queues PROVE QueuedRight
  OBVIOUS
<1>1. \A w \in Workers : /\ que[w] \in Seq(Events)
                         /\ \A x \in EventsIn(que[w]) : x.kind = "post" /\ x.to = w
  BY DEF Queues, Fit
<1>2. \A k \in Kinds, t \in Threads : /\ hque[k][t] \in Seq(Events)
                                      /\ \A x \in EventsIn(hque[k][t]) : x.kind = k /\ x.to = t
  BY DEF Queues, Fit
<1>3. "post" \notin Kinds
  BY DEF Kinds
<1>4. \A x \in InQueues : x \in Events
  BY <1>1, <1>2, Queued, EventsInIs DEF QueuedIff
<1>5. ASSUME NEW w \in Workers, NEW x, x \in InQueues, x.kind = "post", x.to = w
      PROVE  x \in EventsIn(que[w])
  BY <1>1, <1>2, <1>3, <1>5, Queued DEF QueuedIff
<1>6. ASSUME NEW k \in Kinds, NEW t \in Threads, NEW x, x \in InQueues, x.kind = k, x.to = t
      PROVE  x \in EventsIn(hque[k][t])
  BY <1>1, <1>2, <1>3, <1>6, Queued DEF QueuedIff
<1>7. \A x \in InQueues : \/ x.kind = "post" /\ x.to \in Workers
                          \/ x.kind \in Kinds /\ x.to \in Threads
  BY <1>1, <1>2, Queued DEF QueuedIff
<1>8. ASSUME NEW w \in Workers, NEW x, x \in EventsIn(que[w])
      PROVE  x \in InQueues /\ x.kind = "post" /\ x.to = w
  BY <1>1, <1>8, Queued DEF QueuedIff
<1>9. ASSUME NEW k \in Kinds, NEW t \in Threads, NEW x, x \in EventsIn(hque[k][t])
      PROVE  x \in InQueues /\ x.kind = k /\ x.to = t
  BY <1>2, <1>9, Queued DEF QueuedIff
<1> QED
  BY <1>4, <1>5, <1>6, <1>7, <1>8, <1>9 DEF QueuedRight

LEMMA QueuedIsNext == Queues' => QueuedRight'
BY QueuedIs, PTL

LEMMA PostsChange ==
  ASSUME Queues, NEW w \in Workers, NEW s, Fit(s, "post", w),
         que' = [que EXCEPT ![w] = s], hque' = hque
  PROVE  /\ Queues'
         /\ \A x : x \in InQueues' <=> IF x.kind = "post" /\ x.to = w
                                         THEN x \in EventsIn(s) ELSE x \in InQueues
<1>1. /\ que \in [Workers -> Seq(Events)]
      /\ hque \in [Kinds -> [Threads -> Seq(Events)]]
      /\ s \in Seq(Events)
      /\ \A x \in EventsIn(s) : x.kind = "post" /\ x.to = w
  BY DEF Queues, Fit
<1>2. /\ que' \in [Workers -> Seq(Events)] /\ que'[w] = s
      /\ \A v \in Workers : v # w => que'[v] = que[v]
  BY <1>1
<1>3. \A v \in Workers : Fit(que'[v], "post", v)
  BY <1>2 DEF Queues
<1>4. \A k \in Kinds, t \in Threads : Fit(hque'[k][t], k, t)
  BY DEF Queues
<1>5. Queues'
  BY <1>1, <1>2, <1>3, <1>4 DEF Queues
<1>6. QueuedRight /\ QueuedRight'
  BY <1>5, QueuedIs, QueuedIsNext
<1>7. \A v \in Workers : \A x : x \in EventsIn(que'[v]) <=>
           x \in InQueues' /\ x.kind = "post" /\ x.to = v
  BY <1>6 DEF QueuedRight
<1>8. "post" \notin Kinds
  BY DEF Kinds
<1>9. ASSUME NEW x, x.kind = "post", x.to = w PROVE x \in InQueues' <=> x \in EventsIn(s)
  BY <1>2, <1>7, <1>9
<1>10. ASSUME NEW x, ~(x.kind = "post" /\ x.to = w) PROVE x \in InQueues' <=> x \in InQueues
  <2>1. \A v \in Workers : \A y : y \in EventsIn(que[v]) <=>
             y \in InQueues /\ y.kind = "post" /\ y.to = v
    BY <1>6 DEF QueuedRight
  <2>2. \A k \in Kinds, t \in Threads : \A y : y \in EventsIn(hque[k][t]) <=>
             y \in InQueues /\ y.kind = k /\ y.to = t
    BY <1>6 DEF QueuedRight
  <2>3. \A k \in Kinds, t \in Threads : \A y : y \in EventsIn(hque[k][t]) <=>
             y \in InQueues' /\ y.kind = k /\ y.to = t
    BY <1>6 DEF QueuedRight
  <2>4. /\ \A y \in InQueues : \/ y.kind = "post" /\ y.to \in Workers
                               \/ y.kind \in Kinds /\ y.to \in Threads
        /\ \A y \in InQueues' : \/ y.kind = "post" /\ y.to \in Workers
                                \/ y.kind \in Kinds /\ y.to \in Threads
    BY <1>6 DEF QueuedRight
  <2>5. CASE x.kind = "post"
    BY <1>2, <1>7, <1>8, <1>10, <2>1, <2>4, <2>5
  <2>6. CASE x.kind # "post"
    BY <2>2, <2>3, <2>4, <2>6
  <2> QED
    BY <2>5, <2>6
<1> QED
  BY <1>5, <1>9, <1>10

LEMMA HandlersChange ==
  ASSUME Queues, NEW k \in Kinds, NEW t \in Threads, NEW s, Fit(s, k, t),
         hque' = [hque EXCEPT ![k][t] = s], que' = que
  PROVE  /\ Queues'
         /\ \A x : x \in InQueues' <=> IF x.kind = k /\ x.to = t
                                         THEN x \in EventsIn(s) ELSE x \in InQueues
<1>1. /\ que \in [Workers -> Seq(Events)]
      /\ hque \in [Kinds -> [Threads -> Seq(Events)]]
      /\ s \in Seq(Events)
      /\ \A x \in EventsIn(s) : x.kind = k /\ x.to = t
  BY DEF Queues, Fit
<1>2. /\ hque' \in [Kinds -> [Threads -> Seq(Events)]] /\ hque'[k][t] = s
      /\ \A l \in Kinds, u \in Threads : ~(l = k /\ u = t) => hque'[l][u] = hque[l][u]
  BY <1>1
<1>3. \A w \in Workers : Fit(que'[w], "post", w)
  BY DEF Queues
<1>4. \A l \in Kinds, u \in Threads : Fit(hque'[l][u], l, u)
  BY <1>2 DEF Queues
<1>5. Queues'
  BY <1>1, <1>2, <1>3, <1>4 DEF Queues
<1>6. QueuedRight /\ QueuedRight'
  BY <1>5, QueuedIs, QueuedIsNext
<1>7. \A l \in Kinds, u \in Threads : \A x : x \in EventsIn(hque'[l][u]) <=>
           x \in InQueues' /\ x.kind = l /\ x.to = u
  BY <1>6 DEF QueuedRight
<1>8. "post" \notin Kinds
  BY DEF Kinds
<1>9. ASSUME NEW x, x.kind = k, x.to = t PROVE x \in InQueues' <=> x \in EventsIn(s)
  BY <1>2, <1>7, <1>9
<1>10. ASSUME NEW x, ~(x.kind = k /\ x.to = t) PROVE x \in InQueues' <=> x \in InQueues
  <2>1. \A l \in Kinds, u \in Threads : \A y : y \in EventsIn(hque[l][u]) <=>
             y \in InQueues /\ y.kind = l /\ y.to = u
    BY <1>6 DEF QueuedRight
  <2>2. \A w \in Workers : \A y : y \in EventsIn(que[w]) <=>
             y \in InQueues /\ y.kind = "post" /\ y.to = w
    BY <1>6 DEF QueuedRight
  <2>3. \A w \in Workers : \A y : y \in EventsIn(que[w]) <=>
             y \in InQueues' /\ y.kind = "post" /\ y.to = w
    BY <1>6 DEF QueuedRight
  <2>4. /\ \A y \in InQueues : \/ y.kind = "post" /\ y.to \in Workers
                               \/ y.kind \in Kinds /\ y.to \in Threads
        /\ \A y \in InQueues' : \/ y.kind = "post" /\ y.to \in Workers
                                \/ y.kind \in Kinds /\ y.to \in Threads
    BY <1>6 DEF QueuedRight
  <2>5. CASE x.kind # "post"
    BY <1>2, <1>7, <1>10, <2>1, <2>4, <2>5
  <2>6. CASE x.kind = "post"
    BY <1>8, <2>2, <2>3, <2>4, <2>6
  <2> QED
    BY <2>5, <2>6
<1> QED
  BY <1>5, <1>9, <1>10

(* The queues of some kinds of a thread are cleared. *)
LEMMA HandlersCleared ==
  ASSUME Queues, NEW K \in SUBSET Kinds, NEW t \in Threads, que' = que,
         hque' \in [Kinds -> [Threads -> Seq(Events)]],
         \A k \in Kinds, u \in Threads :
             hque'[k][u] = IF k \in K /\ u = t THEN <<>> ELSE hque[k][u]
  PROVE  /\ Queues'
         /\ \A x : x \in InQueues' <=> x \in InQueues /\ ~(x.kind \in K /\ x.to = t)
<1>1. \A w \in Workers : Fit(que'[w], "post", w)
  BY DEF Queues
<1>2. \A k \in Kinds, u \in Threads : Fit(hque'[k][u], k, u)
  BY FitEmpty DEF Queues
<1>3. Queues'
  BY <1>1, <1>2 DEF Queues
<1>4. QueuedRight /\ QueuedRight'
  BY <1>3, QueuedIs, QueuedIsNext
<1>5. \A y : y \notin EventsIn(<<>>)
  BY FitEmpty, EventsInIs DEF Fit
<1>6. /\ \A y \in InQueues : \/ y.kind = "post" /\ y.to \in Workers
                             \/ y.kind \in Kinds /\ y.to \in Threads
      /\ \A y \in InQueues' : \/ y.kind = "post" /\ y.to \in Workers
                              \/ y.kind \in Kinds /\ y.to \in Threads
  BY <1>4 DEF QueuedRight
<1>7. ASSUME NEW x, NEW w \in Workers, x.kind = "post", x.to = w
      PROVE  x \in InQueues' <=> x \in InQueues
  <2>1. x \in EventsIn(que[w]) <=> x \in InQueues
    BY <1>4, <1>7 DEF QueuedRight
  <2>2. x \in EventsIn(que[w]) <=> x \in InQueues'
    BY <1>4, <1>7 DEF QueuedRight
  <2> QED
    BY <2>1, <2>2
<1>8. ASSUME NEW x, NEW k \in Kinds, NEW u \in Threads, x.kind = k, x.to = u
      PROVE  x \in InQueues' <=> x \in InQueues /\ ~(k \in K /\ u = t)
  <2>1. x \in EventsIn(hque[k][u]) <=> x \in InQueues
    BY <1>4, <1>8 DEF QueuedRight
  <2>2. x \in EventsIn(hque'[k][u]) <=> x \in InQueues'
    BY <1>4, <1>8 DEF QueuedRight
  <2> QED
    BY <1>5, <2>1, <2>2
<1>9. "post" \notin K
  BY DEF Kinds
<1> QED
  BY <1>3, <1>6, <1>7, <1>8, <1>9

LEMMA PostsCleared ==
  ASSUME Queues, que' = [w \in Workers |-> <<>>], hque' = hque
  PROVE  Queues' /\ \A x : x \in InQueues' <=> x \in InQueues /\ x.kind # "post"
<1>1. \A w \in Workers : que'[w] = <<>> /\ Fit(que'[w], "post", w)
  BY FitEmpty
<1>2. \A k \in Kinds, u \in Threads : Fit(hque'[k][u], k, u)
  BY DEF Queues
<1>3. que' \in [Workers -> Seq(Events)] /\ hque' \in [Kinds -> [Threads -> Seq(Events)]]
  BY EmptySeq DEF Queues
<1>4. Queues'
  BY <1>1, <1>2, <1>3 DEF Queues
<1>5. QueuedRight /\ QueuedRight'
  BY <1>4, QueuedIs, QueuedIsNext
<1>6. \A y : y \notin EventsIn(<<>>)
  BY FitEmpty, EventsInIs DEF Fit
<1>7. /\ \A y \in InQueues : \/ y.kind = "post" /\ y.to \in Workers
                             \/ y.kind \in Kinds /\ y.to \in Threads
      /\ \A y \in InQueues' : \/ y.kind = "post" /\ y.to \in Workers
                              \/ y.kind \in Kinds /\ y.to \in Threads
  BY <1>5 DEF QueuedRight
<1>8. \A w \in Workers : \A x : x.kind = "post" /\ x.to = w => x \notin InQueues'
  BY <1>1, <1>5, <1>6 DEF QueuedRight
<1>9. ASSUME NEW x, NEW k \in Kinds, NEW u \in Threads, x.kind = k, x.to = u
      PROVE  x \in InQueues' <=> x \in InQueues
  <2>1. x \in EventsIn(hque[k][u]) <=> x \in InQueues
    BY <1>5, <1>9 DEF QueuedRight
  <2>2. x \in EventsIn(hque[k][u]) <=> x \in InQueues'
    BY <1>5, <1>9 DEF QueuedRight
  <2> QED
    BY <2>1, <2>2
<1>10. "post" \notin Kinds
  BY DEF Kinds
<1> QED
  BY <1>4, <1>7, <1>8, <1>9, <1>10

LEMMA QueuesSame ==
  ASSUME que' = que, hque' = hque
  PROVE  InQueues' = InQueues /\ (Queues => Queues')
BY DEF InQueues, Posts, Handlers, Queues

-----------------------------------------------------------------------------
(* Threads, calls and hands *)

LEMMA Numbers ==
  /\ ThreadNum \in Nat \ {0} /\ WorkerNum \in Nat \ {0}
  /\ 0 \in Threads /\ \A t \in Threads : t \in Nat /\ t <= ThreadNum - 1
  /\ \A t \in Threads : t # ThreadNum - 1 => t + 1 \in Threads
  /\ NoWorker \notin Workers
BY NumAssumption DEF Threads, Workers, NoWorker

LEMMA NoEventIs == NoEvent \notin Events
<1>1. NoEvent.kind = "none" /\ \A x \in Events : x.kind # "none"
  BY DEF NoEvent, Events, Kinds
<1> QED
  BY <1>1

LEMMA CallingsAre ==
  /\ Idle \in Callings /\ Idle.op = "idle"
  /\ \A c \in Callings :
        \/ c = Idle
        \/ c.op = "register" /\ c.kind \in Kinds /\ c.nr \in Nat /\ c.thread \in Threads
        \/ c.op = "stop" /\ c.thread \in Threads
BY DEF Callings, Idle

LEMMA NextThreadIs ==
  ASSUME call \in [Callers -> Callings], NEW a \in Callers,
         call[a].op \in {"register", "stop"}, NextThread(a)
  PROVE  /\ call' \in [Callers -> Callings]
         /\ \A b \in Callers : b # a => call'[b] = call[b]
         /\ \/ call'[a] = Idle
            \/ /\ call'[a].op = call[a].op /\ call'[a].thread = call[a].thread + 1
               /\ call[a].op = "register" => call'[a].nr = call[a].nr
<1> DEFINE c == call[a]
           d == [c EXCEPT !.thread = c.thread + 1]
<1>1. c \in Callings /\ call' = [call EXCEPT ![a] = IF c.thread = ThreadNum - 1 THEN Idle ELSE d]
  BY DEF NextThread
<1>2. CASE c.thread = ThreadNum - 1
  BY <1>1, <1>2, CallingsAre
<1>3. CASE c.thread # ThreadNum - 1 /\ c.op = "register"
  <2>1. c \in [op : {"register"}, kind : Kinds, nr : Nat, thread : Threads]
    BY <1>1, <1>3, CallingsAre DEF Callings, Idle
  <2>2. c.thread + 1 \in Threads
    BY <1>3, <2>1, Numbers
  <2>3. /\ d \in [op : {"register"}, kind : Kinds, nr : Nat, thread : Threads]
        /\ d.op = c.op /\ d.nr = c.nr /\ d.thread = c.thread + 1
    BY <2>1, <2>2
  <2> QED
    BY <1>1, <1>3, <2>3 DEF Callings
<1>4. CASE c.thread # ThreadNum - 1 /\ c.op = "stop"
  <2>1. c \in [op : {"stop"}, thread : Threads]
    BY <1>1, <1>4, CallingsAre DEF Callings, Idle
  <2>2. c.thread + 1 \in Threads
    BY <1>4, <2>1, Numbers
  <2>3. /\ d \in [op : {"stop"}, thread : Threads]
        /\ d.op = c.op /\ d.thread = c.thread + 1
    BY <2>1, <2>2
  <2> QED
    BY <1>1, <1>4, <2>3 DEF Callings
<1> QED
  BY <1>2, <1>3, <1>4

LEMMA KindAtIs ==
  /\ KindAt("work") = "post" /\ KindAt("start") = "tstart"
  /\ KindAt("exit") = "texit" /\ KindAt("segv") = "tsegv"
  /\ \A l : l # "work" => KindAt(l) = QueueOf(l) /\ KindAt(l) \in Kinds /\ KindAt(l) # "post"
BY DEF KindAt, QueueOf, Kinds

(* No event is in two hands. *)
LEMMA HandsApart ==
  ASSUME Types, Hands, NEW t \in Threads, NEW u \in Threads,
         hand[t] # NoEvent, hand[u] = hand[t]
  PROVE  t = u
<1>1. /\ hand[t].kind = KindAt(pc[t]) /\ hand[t].kind = KindAt(pc[u])
      /\ hand[t].to = (IF pc[t] = "work" THEN cur[t] ELSE t)
      /\ hand[t].to = (IF pc[u] = "work" THEN cur[u] ELSE u)
  BY DEF Hands
<1>2. CASE pc[t] = "work"
  <2>1. pc[u] = "work"
    BY <1>1, <1>2, KindAtIs
  <2>2. cur[t] = cur[u] /\ cur[t] \in Workers
    BY <1>1, <1>2, <2>1 DEF Hands
  <2> QED
    BY <2>2, Numbers DEF Hands
<1>3. CASE pc[t] # "work"
  <2>1. pc[u] # "work"
    BY <1>1, <1>3, KindAtIs
  <2> QED
    BY <1>1, <1>3, <2>1
<1> QED
  BY <1>2, <1>3

LEMMA HandFilled ==
  ASSUME Types, NEW t \in Threads, NEW x \in Events, hand[t] = NoEvent,
         hand' = [hand EXCEPT ![t] = x]
  PROVE  InHand' = InHand \cup {x}
<1>1. hand'[t] = x /\ \A u \in Threads : u # t => hand'[u] = hand[u]
  BY DEF Types
<1>2. x # NoEvent
  BY NoEventIs
<1> QED
  BY <1>1, <1>2 DEF InHand

LEMMA HandEmptied ==
  ASSUME Types, Hands, NEW t \in Threads, hand[t] # NoEvent,
         hand' = [hand EXCEPT ![t] = NoEvent]
  PROVE  InHand' = InHand \ {hand[t]}
<1>1. hand'[t] = NoEvent /\ \A u \in Threads : u # t => hand'[u] = hand[u]
  BY DEF Types
<1>2. \A u \in Threads : u # t => hand[u] # hand[t]
  BY HandsApart
<1> QED
  BY <1>1, <1>2 DEF InHand

LEMMA ReleaseIs ==
  ASSUME NEW es, Release(es)
  PROVE  /\ Given' = Given \cup es
         /\ \A m : released \subseteq m /\ misfreed \subseteq m /\ es \subseteq m
                       => released' \subseteq m /\ misfreed' \subseteq m
         /\ BackToLivePools /\ (dead = {} \/ \A x \in es : x.kind = "tsegv")
                => BackToLivePools'
BY DEF Release, Given, BackToLivePools

-----------------------------------------------------------------------------
(* What a step keeps *)

LEMMA InitHolds == Init => IInv
<1> SUFFICES ASSUME Init PROVE IInv
  OBVIOUS
<1>1. Types
  BY Numbers, CallingsAre DEF Init, Types, Phases, PCs, Callers
<1>2. Queues
  BY FitEmpty, EmptySeq DEF Init, Queues
<1>3. \A x : x \notin InQueues
  <2>1. \A y : y \notin EventsIn(<<>>)
    BY FitEmpty, EventsInIs DEF Fit
  <2> QED
    BY <2>1, Queued DEF Init, QueuedIff
<1>4. InHand = {}
  BY DEF Init, InHand
<1>5. Hands
  BY Numbers DEF Init, Hands
<1>6. Numbered
  BY CallingsAre DEF Init, Numbered, Registering
<1>7. Placed
  BY <1>3, <1>4 DEF Init, Placed, Given
<1>8. Ended /\ Crashed /\ HandledOnly /\ Dying /\ Framing /\ BackToLivePools
  BY DEF Init, Ended, Crashed, HandledOnly, Given, Dying, Framing, BackToLivePools
<1>9. Cleaning
  BY DEF Init, Cleaning, MiscDone, DataDone
<1>10. InOrder
  BY <1>3, SortedEmpty DEF Init, InOrder, PostsInOrder
<1> QED
  BY <1>1, <1>2, <1>5, <1>6, <1>7, <1>8, <1>9, <1>10 DEF IInv

LEMMA NumberedKept ==
  ASSUME Numbered, made' = made, calls' = calls,
         \A b \in Callers : Registering(b)' => call'[b] = call[b]
  PROVE  Numbered'
<1>1. \A b \in Callers : Registering(b)' => Registering(b) /\ call'[b] = call[b]
  BY DEF Registering
<1> QED
  BY <1>1 DEF Numbered

LEMMA HandsKept == Hands /\ UNCHANGED threadVars => Hands'
BY DEF Hands, threadVars

LEMMA PlacedKept ==
  ASSUME Placed, UNCHANGED <<queueVars, hand, made, released, misfreed, stuck>>
  PROVE  Placed'
<1>1. InQueues' = InQueues
  BY QueuesSame DEF queueVars
<1>2. InHand' = InHand
  BY DEF InHand
<1> QED
  BY <1>1, <1>2 DEF Placed, Given

(* Nothing is handled, and what leaves the queues is older than what stays. *)
LEMMA OrderKept ==
  ASSUME InOrder, made' = made, handled' = handled,
         \A w \in Workers : Sorted(que'[w]),
         \A x \in made, y \in InQueues' :
             x \notin InQueues' /\ Older(y, x) => x \notin InQueues /\ y \in InQueues
  PROVE  InOrder'
<1>1. PostsInOrder'
  BY DEF InOrder, PostsInOrder
<1>2. \A x \in made' \ InQueues', y \in InQueues' : ~Older(y, x)
  BY DEF InOrder
<1> QED
  BY <1>1, <1>2 DEF InOrder, Older

LEMMA OrderSame ==
  ASSUME InOrder, UNCHANGED <<queueVars, made, handled>>
  PROVE  InOrder'
<1>1. InQueues' = InQueues /\ que' = que
  BY QueuesSame DEF queueVars
<1>2. \A w \in Workers : Sorted(que'[w])
  BY <1>1 DEF InOrder
<1> QED
  BY <1>1, <1>2, OrderKept

(* In a run nothing changes for the destructor. *)
LEMMA RunKeeps ==
  ASSUME phase = "running", phase' \in {"running", "exited", "aborted"}, dead' = dead,
         Dying
  PROVE  Ended' /\ Cleaning' /\ Dying'
BY DEF Ended, Cleaning, MiscDone, DataDone, Dying

LEMMA CallKeeps ==
  ASSUME phase \in {"idle", "running"}, UNCHANGED <<phase, pc, cur, dead, eventVars>>,
         Ended, Dying, Crashed, HandledOnly, BackToLivePools
  PROVE  Ended' /\ Cleaning' /\ Dying' /\ Crashed' /\ HandledOnly' /\ BackToLivePools'
<1>1. phase' = phase /\ pc' = pc /\ cur' = cur /\ dead' = dead /\ stuck' = stuck
      /\ released' = released /\ misfreed' = misfreed /\ handled' = handled
  BY DEF eventVars
<1>2. Ended' /\ Dying'
  BY <1>1 DEF Ended, Dying
<1>3. Cleaning'
  BY <1>1 DEF Cleaning, MiscDone, DataDone
<1>4. Crashed'
  BY <1>1 DEF Crashed
<1>5. HandledOnly' /\ BackToLivePools'
  BY <1>1 DEF HandledOnly, Given, BackToLivePools
<1> QED
  BY <1>2, <1>3, <1>4, <1>5

LEMMA FramingKept ==
  ASSUME Framing, UNCHANGED <<phase, pc, before>>,
         \A x \in before : x \in InQueues' <=> x \in InQueues
  PROVE  Framing'
BY DEF Framing, Over, Before

(* A call that makes no event. *)
LEMMA CallOnly ==
  ASSUME IInv, Types', Numbered', phase \in {"idle", "running"},
         UNCHANGED <<phase, threadVars, queueVars, dead, eventVars, made, before>>
  PROVE  IInv'
<1>1. pc' = pc /\ hand' = hand /\ cur' = cur /\ que' = que /\ hque' = hque
      /\ released' = released /\ misfreed' = misfreed /\ stuck' = stuck /\ handled' = handled
  BY DEF threadVars, queueVars, eventVars
<1>2. Queues' /\ InQueues' = InQueues
  BY <1>1, QueuesSame DEF IInv
<1>3. Hands'
  BY HandsKept DEF IInv
<1>4. Placed'
  BY <1>1, PlacedKept DEF IInv
<1>5. Framing'
  BY <1>1, <1>2, FramingKept DEF IInv
<1>6. Ended' /\ Cleaning' /\ Dying' /\ Crashed' /\ HandledOnly' /\ BackToLivePools'
  BY <1>1, CallKeeps DEF IInv
<1>7. InOrder'
  BY <1>1, OrderSame DEF IInv
<1> QED
  BY <1>2, <1>3, <1>4, <1>5, <1>6, <1>7 DEF IInv

(* A call makes an event. *)
LEMMA EventMade ==
  ASSUME IInv, Types', Queues', Numbered', phase \in {"idle", "running"},
         NEW x, x \notin made, made' = made \cup {x}, \A w \in Workers : Sorted(que'[w]),
         x.kind = "post" => \A y \in made : y.nr < x.nr,
         \A y : y \in InQueues' <=> y \in InQueues \/ y = x,
         UNCHANGED <<phase, threadVars, dead, eventVars, before>>
  PROVE  IInv'
<1>1. pc' = pc /\ hand' = hand /\ cur' = cur
      /\ released' = released /\ misfreed' = misfreed /\ stuck' = stuck /\ handled' = handled
  BY DEF threadVars, eventVars
<1>2. Hands'
  BY HandsKept DEF IInv
<1>3. Placed'
  <2>1. InHand' = InHand /\ Given' = Given
    BY <1>1 DEF InHand, Given
  <2>2. Placed
    BY DEF IInv
  <2> QED
    BY <1>1, <2>1, <2>2 DEF Placed
<1>4. Framing'
  <2>1. x \notin before
    BY DEF IInv, Types
  <2> QED
    BY <1>1, <2>1, FramingKept DEF IInv
<1>5. Ended' /\ Cleaning' /\ Dying' /\ Crashed' /\ HandledOnly' /\ BackToLivePools'
  BY <1>1, CallKeeps DEF IInv
<1>6. InOrder'
  <2>1. \A y \in made : y.nr \in Nat /\ (x.kind = "post" => x.nr \in Nat)
    BY DEF IInv, Types, Events
  <2>2. \A y \in made : ~Older(x, y)
    BY <2>1 DEF Older
  <2>3. \A u \in made' \ InQueues', y \in InQueues' : ~Older(y, u)
    BY <2>2 DEF IInv, InOrder
  <2>4. handled \subseteq made
    BY DEF IInv, Types
  <2>5. \A y \in handled : ~Older(x, y)
    BY <2>2, <2>4
  <2>6. PostsInOrder'
    BY <1>1, <2>5 DEF IInv, InOrder, PostsInOrder, Older
  <2> QED
    BY <2>3, <2>6 DEF InOrder, Older
<1> QED
  BY <1>2, <1>3, <1>4, <1>5, <1>6 DEF IInv

-----------------------------------------------------------------------------
(* Calls *)

LEMMA CallerIs ==
  ASSUME NEW a \in Callers
  PROVE  /\ MayCall(a) => phase \in {"idle", "running"}
         /\ Working(a) => phase \in {"idle", "running"}
BY DEF MayCall, Working

LEMMA RegisterStep ==
  ASSUME IInv, NEW a \in Callers, NEW k \in Kinds, Register(a, k)
  PROVE  IInv'
<1> DEFINE c == [op |-> "register", kind |-> k, nr |-> calls + 1, thread |-> 0]
<1>1. /\ Types /\ Numbered /\ MayCall(a)
      /\ calls' = calls + 1 /\ call' = [call EXCEPT ![a] = c]
      /\ UNCHANGED <<phase, threadVars, stop, queueVars, cleaned, dead, eventVars,
                     made, before, runs>>
  BY DEF Register, IInv
<1>2. calls \in Nat /\ call \in [Callers -> Callings]
  BY <1>1 DEF Types
<1>3. c \in Callings /\ c.op = "register" /\ c.nr = calls + 1
  BY <1>2, Numbers DEF Callings
<1> HIDE DEF c
<1>4. call' \in [Callers -> Callings] /\ call'[a] = c
      /\ \A b \in Callers : b # a => call'[b] = call[b]
  BY <1>1, <1>2, <1>3
<1>5. Types'
  BY <1>1, <1>2, <1>4 DEF Types, threadVars, eventVars
<1>6. Numbered'
  <2>1. \A x \in made : x.nr <= calls /\ x.nr \in Nat
    BY <1>1 DEF Numbered, Types, Events
  <2>2. \A b \in Callers : Registering(b) => call[b].nr <= calls /\ call[b].nr \in Nat
    BY <1>1, <1>2, CallingsAre DEF Numbered, Registering
  <2>3. \A x \in made' : x.nr <= calls'
    BY <1>1, <1>2, <2>1
  <2>4. ASSUME NEW b \in Callers, Registering(b)'
        PROVE  /\ call'[b].nr <= calls'
               /\ \A x \in made' : x.nr = call'[b].nr => x.to < call'[b].thread
               /\ \A d \in Callers : Registering(d)' /\ call'[d].nr = call'[b].nr => b = d
    <3>1. CASE b = a
      BY <1>1, <1>2, <1>3, <1>4, <2>1, <2>2, <3>1 DEF Registering
    <3>2. CASE b # a
      <4>1. Registering(b) /\ call'[b] = call[b]
        BY <1>4, <2>4, <3>2 DEF Registering
      <4>2. call'[b].nr <= calls /\ call'[b].nr \in Nat
        BY <2>2, <4>1
      <4>3. \A d \in Callers : Registering(d)' /\ call'[d].nr = call'[b].nr => b = d
        BY <1>1, <1>2, <1>3, <1>4, <4>1, <4>2 DEF Numbered, Registering
      <4> QED
        BY <1>1, <1>2, <4>1, <4>2, <4>3 DEF Numbered
    <3> QED
      BY <3>1, <3>2
  <2> QED
    BY <2>3, <2>4 DEF Numbered
<1> QED
  BY <1>1, <1>5, <1>6, CallerIs, CallOnly

LEMMA PushHandlerStep ==
  ASSUME IInv, NEW a \in Callers, PushHandler(a)
  PROVE  IInv'
<1> DEFINE k == call[a].kind
           t == call[a].thread
           x == [kind |-> k, nr |-> call[a].nr, to |-> t, by |-> a]
<1>1. /\ Types /\ Queues /\ Numbered /\ Placed /\ Working(a) /\ call[a].op = "register"
      /\ hque' = [hque EXCEPT ![k][t] = Append(@, x)] /\ made' = made \cup {x}
      /\ NextThread(a)
      /\ UNCHANGED <<phase, threadVars, stop, que, cleaned, dead, eventVars,
                     before, calls, runs>>
  BY DEF PushHandler, IInv
<1>2. calls \in Nat /\ call \in [Callers -> Callings] /\ hque \in [Kinds -> [Threads -> Seq(Events)]]
  BY <1>1 DEF Types, Queues
<1>3. k \in Kinds /\ t \in Threads /\ t \in Nat /\ call[a].nr \in Nat /\ call[a].nr <= calls
  BY <1>1, <1>2, CallingsAre, Numbers DEF Numbered, Registering
<1>4. x \in Events /\ x.kind = k /\ x.to = t /\ x.nr = call[a].nr
  BY <1>3 DEF Events
<1>5. /\ call' \in [Callers -> Callings] /\ \A b \in Callers : b # a => call'[b] = call[b]
      /\ \/ call'[a] = Idle
         \/ call'[a].op = "register" /\ call'[a].thread = t + 1 /\ call'[a].nr = call[a].nr
  BY <1>1, <1>2, NextThreadIs
<1> HIDE DEF k, t, x
<1>6. x \notin made
  <2>1. \A y \in made : y.nr = call[a].nr => y.to < t
    BY <1>1 DEF Numbered, Registering, t
  <2> QED
    BY <1>3, <1>4, <2>1
<1>7. Types'
  BY <1>1, <1>4, <1>5 DEF Types, threadVars, eventVars
<1>8. Queues' /\ \A y : y \in InQueues' <=> y \in InQueues \/ y = x
  <2> DEFINE s == Append(hque[k][t], x)
  <2>1. Fit(hque[k][t], k, t) /\ QueuedRight
    BY <1>1, <1>3, QueuedIs DEF Queues
  <2>2. \A y : y \in EventsIn(hque[k][t]) <=> y \in InQueues /\ y.kind = k /\ y.to = t
    BY <1>3, <2>1 DEF QueuedRight
  <2>3. x \notin InQueues
    BY <1>1, <1>6 DEF Placed
  <2>4. Fit(s, k, t) /\ EventsIn(s) = EventsIn(hque[k][t]) \cup {x}
    BY <1>4, <2>1, <2>2, <2>3, FitAppend
  <2>5. hque' = [hque EXCEPT ![k][t] = s] /\ que' = que
    BY <1>1
  <2> HIDE DEF s
  <2>6. /\ Queues'
        /\ \A y : y \in InQueues' <=> IF y.kind = k /\ y.to = t
                                        THEN y \in EventsIn(s) ELSE y \in InQueues
    BY <1>1, <1>3, <2>4, <2>5, HandlersChange
  <2> QED
    BY <1>4, <2>2, <2>4, <2>6
<1>9. Numbered'
  <2>1. /\ made' = made \cup {x} /\ calls' = calls
        /\ x.nr = call[a].nr /\ x.to = t /\ x.nr <= calls
    BY <1>1, <1>3, <1>4
  <2>2. ASSUME NEW b \in Callers, Registering(b)'
        PROVE  Registering(b) /\ call'[b].nr = call[b].nr
               /\ call'[b].thread = IF b = a THEN t + 1 ELSE call[b].thread
    BY <1>1, <1>5, <2>2, CallingsAre DEF Registering
  <2>3. \A y \in made' : y.nr <= calls'
    BY <1>1, <2>1 DEF Numbered
  <2>4. ASSUME NEW b \in Callers, Registering(b)'
        PROVE  /\ call'[b].nr <= calls'
               /\ \A y \in made' : y.nr = call'[b].nr => y.to < call'[b].thread
               /\ \A d \in Callers : Registering(d)' /\ call'[d].nr = call'[b].nr => b = d
    <3>1. \A d \in Callers : Registering(d)' /\ call'[d].nr = call'[b].nr => b = d
      BY <1>1, <2>2, <2>4 DEF Numbered
    <3>2. call'[b].nr <= calls'
      BY <1>1, <2>1, <2>2, <2>4 DEF Numbered
    <3>3. CASE b = a
      <4>1. \A y \in made : y.nr = call[a].nr => y.to < t
        BY <1>1 DEF Numbered, Registering, t
      <4>2. \A y \in made : y.nr = call[a].nr => y.to \in Int
        <5> SUFFICES ASSUME NEW y \in made PROVE y.to \in Int
          OBVIOUS
        <5>1. y \in Events
          BY <1>1 DEF Types
        <5> QED
          BY <5>1 DEF Events, Threads, Workers
      <4> QED
        BY <1>3, <2>1, <2>2, <2>4, <3>1, <3>2, <3>3, <4>1, <4>2
    <3>4. CASE b # a
      <4>1. Registering(b) /\ Registering(a) /\ call[b].nr # call[a].nr
        BY <1>1, <2>2, <2>4, <3>4 DEF Numbered, Registering
      <4> QED
        BY <1>1, <2>1, <2>2, <2>4, <3>1, <3>2, <3>4, <4>1 DEF Numbered
    <3> QED
      BY <3>3, <3>4
  <2> QED
    BY <2>3, <2>4 DEF Numbered
<1>10. (\A w \in Workers : Sorted(que'[w])) /\ x.kind # "post"
  BY <1>1, <1>3, <1>4 DEF IInv, InOrder, Kinds
<1> QED
  BY <1>1, <1>6, <1>7, <1>8, <1>9, <1>10, CallerIs, EventMade

LEMMA PostStep ==
  ASSUME IInv, NEW a \in Callers, NEW w \in Workers, Post(a, w)
  PROVE  IInv'
<1> DEFINE x == [kind |-> "post", nr |-> calls + 1, to |-> w, by |-> a]
<1>1. /\ Types /\ Queues /\ Numbered /\ Placed /\ MayCall(a)
      /\ calls' = calls + 1
      /\ que' = [que EXCEPT ![w] = Append(@, x)] /\ made' = made \cup {x}
      /\ UNCHANGED <<phase, threadVars, stop, hque, call, cleaned, dead, eventVars,
                     before, runs>>
  BY DEF Post, IInv
<1>2. calls \in Nat /\ call \in [Callers -> Callings] /\ que \in [Workers -> Seq(Events)]
  BY <1>1 DEF Types, Queues
<1>3. x \in Events /\ x.kind = "post" /\ x.to = w /\ x.nr = calls + 1
  BY <1>2 DEF Events
<1> HIDE DEF x
<1>4. \A y \in made : y.nr \in Nat /\ y.nr <= calls
  BY <1>1 DEF Numbered, Types, Events
<1>5. x \notin made
  BY <1>2, <1>3, <1>4
<1>6. Types'
  BY <1>1, <1>2, <1>3 DEF Types, threadVars, eventVars
<1>7. Queues' /\ \A y : y \in InQueues' <=> y \in InQueues \/ y = x
  <2> DEFINE s == Append(que[w], x)
  <2>1. Fit(que[w], "post", w) /\ QueuedRight
    BY <1>1, QueuedIs DEF Queues
  <2>2. \A y : y \in EventsIn(que[w]) <=> y \in InQueues /\ y.kind = "post" /\ y.to = w
    BY <2>1 DEF QueuedRight
  <2>3. x \notin InQueues
    BY <1>1, <1>5 DEF Placed
  <2>4. Fit(s, "post", w) /\ EventsIn(s) = EventsIn(que[w]) \cup {x}
    BY <1>3, <2>1, <2>2, <2>3, FitAppend
  <2>5. que' = [que EXCEPT ![w] = s] /\ hque' = hque
    BY <1>1
  <2> HIDE DEF s
  <2>6. /\ Queues'
        /\ \A y : y \in InQueues' <=> IF y.kind = "post" /\ y.to = w
                                        THEN y \in EventsIn(s) ELSE y \in InQueues
    BY <1>1, <2>4, <2>5, PostsChange
  <2> QED
    BY <1>3, <2>2, <2>4, <2>6
<1>8. Numbered'
  <2>1. \A b \in Callers : /\ Registering(b)' <=> Registering(b)
                           /\ call'[b] = call[b]
    BY <1>1 DEF Registering
  <2>2. \A y \in made' : y.nr <= calls'
    BY <1>1, <1>2, <1>3, <1>4
  <2>3. \A b \in Callers : Registering(b) => call[b].nr \in Nat /\ call[b].nr <= calls
    BY <1>1, <1>2, CallingsAre DEF Numbered, Registering
  <2>4. \A b \in Callers : Registering(b) => call[b].nr <= calls' /\ call[b].nr # x.nr
    BY <1>1, <1>2, <1>3, <2>3
  <2> QED
    BY <1>1, <2>1, <2>2, <2>4 DEF Numbered
<1>9. \A y \in made : y.nr < x.nr
  BY <1>2, <1>3, <1>4
<1>10. ASSUME NEW v \in Workers PROVE Sorted(que'[v])
  <2>1. Sorted(que[v]) /\ que[v] \in Seq(Events)
    BY <1>2 DEF IInv, InOrder
  <2>2. CASE v = w
    <3>1. \A y \in EventsIn(que[w]) : y \in made
      BY <1>1, QueuedIs DEF QueuedRight, Placed
    <3>2. Sorted(Append(que[w], x))
      BY <1>3, <1>9, <2>1, <2>2, <3>1, SortedAppend
    <3> QED
      BY <1>1, <1>2, <2>2, <3>2
  <2>3. CASE v # w
    BY <1>1, <1>2, <2>1, <2>3
  <2> QED
    BY <2>2, <2>3
<1> QED
  BY <1>1, <1>5, <1>6, <1>7, <1>8, <1>9, <1>10, CallerIs, EventMade

LEMMA CallStopStep ==
  ASSUME IInv, NEW a \in Callers, CallStop(a)
  PROVE  IInv'
<1> DEFINE c == [op |-> "stop", thread |-> 0]
<1>1. /\ Types /\ Numbered /\ MayCall(a) /\ call' = [call EXCEPT ![a] = c]
      /\ UNCHANGED <<phase, threadVars, stop, queueVars, cleaned, dead, eventVars, bookVars>>
  BY DEF CallStop, IInv
<1>2. call \in [Callers -> Callings]
  BY <1>1 DEF Types
<1>3. c \in Callings /\ c.op # "register"
  BY Numbers DEF Callings
<1> HIDE DEF c
<1>4. call' \in [Callers -> Callings] /\ call'[a] = c
      /\ \A b \in Callers : b # a => call'[b] = call[b]
  BY <1>1, <1>2, <1>3
<1>5. Types'
  BY <1>1, <1>4 DEF Types, threadVars, eventVars, bookVars
<1>6. Numbered'
  BY <1>1, <1>3, <1>4, NumberedKept DEF Registering, bookVars
<1> QED
  BY <1>1, <1>5, <1>6, CallerIs, CallOnly DEF bookVars

LEMMA SetStopStep ==
  ASSUME IInv, NEW a \in Callers, SetStop(a)
  PROVE  IInv'
<1>1. /\ Types /\ Numbered /\ Working(a) /\ call[a].op = "stop"
      /\ stop' = [stop EXCEPT ![call[a].thread] = TRUE] /\ NextThread(a)
      /\ UNCHANGED <<phase, threadVars, queueVars, cleaned, dead, eventVars, bookVars>>
  BY DEF SetStop, IInv
<1>2. /\ call' \in [Callers -> Callings]
      /\ \A b \in Callers : b # a => call'[b] = call[b]
      /\ call'[a] = Idle \/ call'[a].op = "stop"
  BY <1>1, NextThreadIs DEF Types
<1>3. stop' \in [Threads -> BOOLEAN]
  BY <1>1 DEF Types
<1>4. Types'
  BY <1>1, <1>2, <1>3 DEF Types, threadVars, eventVars, bookVars
<1>5. Numbered'
  BY <1>1, <1>2, CallingsAre, NumberedKept DEF Registering, bookVars
<1> QED
  BY <1>1, <1>4, <1>5, CallerIs, CallOnly DEF bookVars

-----------------------------------------------------------------------------
(* run() and its threads *)

LEMMA NoneAtWork ==
  ASSUME IInv, phase \notin {"running", "exited", "aborted"}
  PROVE  /\ \A t \in Threads : pc[t] = "over" /\ hand[t] = NoEvent
         /\ InHand = {} /\ stuck = {}
<1>1. \A t \in Threads : pc[t] = "over"
  BY DEF IInv, Ended
<1>2. \A t \in Threads : hand[t] = NoEvent
  BY <1>1 DEF IInv, Hands
<1>3. stuck = {}
  BY <1>1 DEF IInv, Crashed
<1> QED
  BY <1>1, <1>2, <1>3 DEF InHand

LEMMA RunStep ==
  ASSUME IInv, Run
  PROVE  IInv'
<1>1. /\ phase = "idle" /\ runs' = runs + 1 /\ phase' = "running"
      /\ pc' = [t \in Threads |-> "start"]
      /\ before' \subseteq InQueues /\ \A x \in before' : x.kind # "post"
      /\ UNCHANGED <<hand, cur, stop, queueVars, call, cleaned, dead, eventVars, made, calls>>
  BY DEF Run
<1>2. \A t \in Threads : pc[t] = "over" /\ hand[t] = NoEvent
  BY <1>1, NoneAtWork
<1>3. stuck = {}
  BY <1>1, NoneAtWork
<1>4. Types'
  BY <1>1 DEF IInv, Types, Placed, Phases, PCs, eventVars
<1>5. Queues' /\ InQueues' = InQueues
  BY <1>1, QueuesSame DEF IInv, queueVars
<1>6. Hands'
  BY <1>1, <1>2 DEF IInv, Hands
<1>7. Numbered'
  BY <1>1, NumberedKept DEF IInv
<1>8. Placed'
  BY <1>1, PlacedKept DEF IInv, eventVars
<1>9. Crashed'
  BY <1>1, <1>3 DEF Crashed, eventVars
<1>10. HandledOnly' /\ BackToLivePools'
  BY <1>1 DEF IInv, HandledOnly, Given, BackToLivePools, eventVars
<1>11. Ended' /\ Cleaning' /\ Dying'
  BY <1>1 DEF IInv, Ended, Cleaning, MiscDone, DataDone, Dying
<1>12. Framing'
  <2>1. ASSUME NEW x \in before' PROVE ~Over(x)'
    <3>1. x.kind # "post" /\ x \in InQueues
      BY <1>1
    <3>2. x.to \in Threads
      BY <3>1, QueuedIs DEF IInv, QueuedRight
    <3> QED
      BY <1>1, <3>2 DEF Over
  <2> QED
    BY <1>1, <1>5, <2>1 DEF Framing
<1>13. InOrder'
  BY <1>1, OrderSame DEF IInv, eventVars
<1> QED
  BY <1>4, <1>5, <1>6, <1>7, <1>8, <1>9, <1>10, <1>11, <1>12, <1>13 DEF IInv

LEMMA JoinStep ==
  ASSUME IInv, Join
  PROVE  IInv'
<1>1. /\ phase = "running" /\ phase' = "idle" /\ \A t \in Threads : pc[t] = "over"
      /\ UNCHANGED <<threadVars, stop, queueVars, call, cleaned, dead, eventVars, bookVars>>
  BY DEF Join
<1>2. pc' = pc /\ hand' = hand /\ cur' = cur /\ stuck' = stuck /\ released' = released
      /\ misfreed' = misfreed /\ handled' = handled
      /\ made' = made /\ before' = before /\ calls' = calls /\ runs' = runs
  BY <1>1 DEF threadVars, eventVars, bookVars
<1>3. Types'
  BY <1>1, <1>2 DEF IInv, Types, Phases
<1>4. Queues' /\ InQueues' = InQueues
  BY <1>1, QueuesSame DEF IInv, queueVars
<1>5. Hands'
  BY <1>1, HandsKept DEF IInv
<1>6. Numbered'
  BY <1>1, <1>2, NumberedKept DEF IInv
<1>7. Placed'
  BY <1>1, <1>2, PlacedKept DEF IInv
<1>8. Crashed'
  BY <1>1, <1>2 DEF IInv, Crashed
<1>9. HandledOnly' /\ BackToLivePools'
  BY <1>1, <1>2 DEF IInv, HandledOnly, Given, BackToLivePools
<1>10. Ended' /\ Cleaning' /\ Dying' /\ Framing'
  BY <1>1, <1>2 DEF IInv, Ended, Cleaning, MiscDone, DataDone, Dying, Framing
<1>11. InOrder'
  BY <1>1, <1>2, OrderSame DEF IInv
<1> QED
  BY <1>3, <1>4, <1>5, <1>6, <1>7, <1>8, <1>9, <1>10, <1>11 DEF IInv

(* A thread takes an event to handle. *)
LEMMA EventTaken ==
  ASSUME IInv, phase = "running", Queues', NEW t \in Threads, NEW x \in Events,
         x \in InQueues, \A y : y \in InQueues' <=> y \in InQueues /\ y # x,
         \A w \in Workers : Sorted(que'[w]), \A y \in InQueues' : ~Older(y, x),
         pc[t] \in {"start", "work", "exit", "segv"}, x.kind = KindAt(pc[t]),
         x.to = (IF pc[t] = "work" THEN cur[t] ELSE t),
         hand[t] = NoEvent, hand' = [hand EXCEPT ![t] = x],
         UNCHANGED <<phase, pc, cur, stop, call, cleaned, dead, eventVars, bookVars>>
  PROVE  IInv'
<1>1. stuck' = stuck /\ released' = released /\ misfreed' = misfreed /\ handled' = handled
      /\ made' = made /\ before' = before /\ calls' = calls /\ runs' = runs
  BY DEF eventVars, bookVars
<1>2. hand \in [Threads -> Events \cup {NoEvent}]
  BY DEF IInv, Types
<1>3. hand'[t] = x /\ \A u \in Threads : u # t => hand'[u] = hand[u]
  BY <1>2
<1>4. Types'
  <2>1. hand' \in [Threads -> Events \cup {NoEvent}]
    BY <1>2
  <2> QED
    BY <1>1, <2>1 DEF IInv, Types
<1>5. Hands'
  BY <1>3 DEF IInv, Hands
<1>6. Numbered'
  BY <1>1, NumberedKept DEF IInv
<1>7. Placed'
  <2>1. InHand' = InHand \cup {x}
    BY HandFilled DEF IInv
  <2> QED
    BY <1>1, <2>1 DEF IInv, Placed, Given
<1>8. Ended' /\ Cleaning' /\ Dying' /\ Crashed' /\ HandledOnly' /\ BackToLivePools'
  BY <1>1, CallKeeps DEF IInv
<1>9. Framing'
  <2>1. ASSUME Before(x) PROVE FALSE
    BY <2>1, KindAtIs DEF Before
  <2> QED
    BY <1>1, <2>1 DEF IInv, Framing, Over, Before
<1>10. InOrder'
  BY <1>1, OrderKept DEF IInv
<1> QED
  BY <1>4, <1>5, <1>6, <1>7, <1>8, <1>9, <1>10 DEF IInv

LEMMA PopHandlerStep ==
  ASSUME IInv, phase = "running", NEW t \in Threads, PopHandler(t)
  PROVE  IInv'
<1> DEFINE k == QueueOf(pc[t])
           s == hque[k][t]
<1>1. /\ pc[t] \in {"start", "exit", "segv"} /\ hand[t] = NoEvent /\ s # <<>>
      /\ hand' = [hand EXCEPT ![t] = Head(s)]
      /\ hque' = [hque EXCEPT ![k][t] = Tail(@)]
      /\ UNCHANGED <<phase, pc, cur, stop, que, call, cleaned, dead, eventVars, bookVars>>
  BY DEF PopHandler
<1>2. k \in Kinds /\ KindAt(pc[t]) = k /\ pc[t] # "work"
  BY <1>1, KindAtIs
<1>3. Queues /\ QueuedRight /\ Fit(s, k, t)
  BY <1>2, QueuedIs DEF IInv, Queues
<1>4. hque' = [hque EXCEPT ![k][t] = Tail(s)]
  BY <1>1
<1>5. \A y : y \in EventsIn(s) <=> y \in InQueues /\ y.kind = k /\ y.to = t
  BY <1>2, <1>3 DEF QueuedRight
<1> HIDE DEF k, s
<1>6. /\ Head(s) \in Events /\ Head(s) \in EventsIn(s) /\ Head(s).kind = k /\ Head(s).to = t
      /\ Fit(Tail(s), k, t) /\ EventsIn(Tail(s)) = EventsIn(s) \ {Head(s)}
  BY <1>1, <1>3, FitPop
<1>7. /\ Queues'
      /\ \A y : y \in InQueues' <=> IF y.kind = k /\ y.to = t
                                      THEN y \in EventsIn(Tail(s)) ELSE y \in InQueues
  <2> DEFINE r == Tail(s)
  <2>1. Fit(r, k, t) /\ hque' = [hque EXCEPT ![k][t] = r] /\ que' = que
    BY <1>1, <1>4, <1>6
  <2> HIDE DEF r
  <2>2. /\ Queues'
        /\ \A y : y \in InQueues' <=> IF y.kind = k /\ y.to = t
                                        THEN y \in EventsIn(r) ELSE y \in InQueues
    BY <1>2, <1>3, <2>1, HandlersChange
  <2> QED
    BY <2>2 DEF r
<1>8. \A y : y \in InQueues' <=> y \in InQueues /\ y # Head(s)
  BY <1>5, <1>6, <1>7
<1>9. Head(s) \in InQueues
  BY <1>5, <1>6
<1>10. (\A w \in Workers : Sorted(que'[w])) /\ \A y : ~Older(y, Head(s))
  BY <1>1, <1>2, <1>6 DEF IInv, InOrder, Older, Kinds
<1> QED
  BY <1>1, <1>2, <1>6, <1>7, <1>8, <1>9, <1>10, EventTaken

LEMMA PopEventStep ==
  ASSUME IInv, phase = "running", NEW t \in Threads, PopEvent(t)
  PROVE  IInv'
<1> DEFINE w == cur[t]
           s == que[w]
<1>1. /\ pc[t] = "work" /\ hand[t] = NoEvent /\ s # <<>>
      /\ hand' = [hand EXCEPT ![t] = Head(s)]
      /\ que' = [que EXCEPT ![w] = Tail(@)]
      /\ UNCHANGED <<phase, pc, cur, stop, hque, call, cleaned, dead, eventVars, bookVars>>
  BY DEF PopEvent
<1>2. w \in Workers
  BY <1>1 DEF IInv, Hands
<1>3. Queues /\ QueuedRight /\ Fit(s, "post", w)
  BY <1>2, QueuedIs DEF IInv, Queues
<1>4. que' = [que EXCEPT ![w] = Tail(s)]
  BY <1>1
<1>5. \A y : y \in EventsIn(s) <=> y \in InQueues /\ y.kind = "post" /\ y.to = w
  BY <1>2, <1>3 DEF QueuedRight
<1> HIDE DEF s
<1>6. /\ Head(s) \in Events /\ Head(s) \in EventsIn(s)
      /\ Head(s).kind = "post" /\ Head(s).to = w
      /\ Fit(Tail(s), "post", w) /\ EventsIn(Tail(s)) = EventsIn(s) \ {Head(s)}
  BY <1>1, <1>3, FitPop
<1>7. /\ Queues'
      /\ \A y : y \in InQueues' <=> IF y.kind = "post" /\ y.to = w
                                      THEN y \in EventsIn(Tail(s)) ELSE y \in InQueues
  <2> DEFINE r == Tail(s)
  <2>1. Fit(r, "post", w) /\ que' = [que EXCEPT ![w] = r] /\ hque' = hque
    BY <1>1, <1>4, <1>6
  <2> HIDE DEF r
  <2>2. /\ Queues'
        /\ \A y : y \in InQueues' <=> IF y.kind = "post" /\ y.to = w
                                        THEN y \in EventsIn(r) ELSE y \in InQueues
    BY <1>2, <1>3, <2>1, PostsChange
  <2> QED
    BY <2>2 DEF r
<1>8. \A y : y \in InQueues' <=> y \in InQueues /\ y # Head(s)
  BY <1>5, <1>6, <1>7
<1>9. Head(s) \in InQueues
  BY <1>5, <1>6
<1>10. KindAt(pc[t]) = "post"
  BY <1>1, KindAtIs
<1>11. s \in Seq(Events) /\ Sorted(s)
  BY <1>2, <1>3 DEF Fit, IInv, InOrder, s
<1>12. Sorted(Tail(s)) /\ \A y \in EventsIn(Tail(s)) : Head(s).nr < y.nr
  BY <1>1, <1>11, SortedPop
<1>13. ASSUME NEW v \in Workers PROVE Sorted(que'[v])
  BY <1>2, <1>3, <1>4, <1>12, <1>13 DEF IInv, InOrder, Queues
<1>14. ASSUME NEW y \in InQueues', Older(y, Head(s)) PROVE FALSE
  <2>1. y \in EventsIn(Tail(s))
    BY <1>6, <1>7, <1>14 DEF Older
  <2>2. Head(s).nr < y.nr /\ y.nr < Head(s).nr
    BY <1>12, <1>14, <2>1 DEF Older
  <2>3. y \in Events
    BY <1>6, <2>1, EventsInIs DEF Fit
  <2>4. y.nr \in Nat /\ Head(s).nr \in Nat
    BY <1>6, <2>3 DEF Events
  <2> QED
    BY <2>2, <2>4
<1> QED
  BY <1>1, <1>6, <1>7, <1>8, <1>9, <1>10, <1>13, <1>14, EventTaken

(* A thread goes on to another place, with nothing in hand. *)
LEMMA ThreadMoves ==
  ASSUME IInv, phase = "running", NEW t \in Threads, NEW l \in PCs, NEW w,
         pc[t] # "segv", l # "segv", hand[t] = NoEvent,
         pc' = [pc EXCEPT ![t] = l], cur' = [cur EXCEPT ![t] = w],
         IF l = "work" THEN w \in Workers /\ \A s \in Threads : cur[s] # w
                       ELSE w \in {cur[t], NoWorker},
         \A x \in before : x.to = t =>
             /\ Over(x)' => Over(x) \/ x \notin InQueues
             /\ Before(x)' => Before(x),
         UNCHANGED <<phase, hand, stop, queueVars, call, cleaned, dead, eventVars, bookVars>>
  PROVE  IInv'
<1>1. stuck' = stuck /\ released' = released /\ misfreed' = misfreed /\ handled' = handled
      /\ made' = made /\ before' = before /\ calls' = calls /\ runs' = runs
      /\ que' = que /\ hque' = hque /\ phase' = phase
  BY DEF eventVars, bookVars, queueVars
<1>2. /\ pc \in [Threads -> PCs] /\ cur \in [Threads -> Workers \cup {NoWorker}]
      /\ pc'[t] = l /\ \A u \in Threads : u # t => pc'[u] = pc[u]
      /\ cur'[t] = w /\ \A u \in Threads : u # t => cur'[u] = cur[u]
  BY DEF IInv, Types
<1>3. Types'
  <2>1. w \in Workers \cup {NoWorker}
    BY <1>2
  <2>2. pc' \in [Threads -> PCs] /\ cur' \in [Threads -> Workers \cup {NoWorker}]
    BY <1>2, <2>1
  <2> QED
    BY <1>1, <2>2 DEF IInv, Types
<1>4. Queues' /\ InQueues' = InQueues
  BY <1>1, QueuesSame DEF IInv
<1>5. Hands'
  <2>1. ASSUME NEW u \in Threads
        PROVE  /\ hand'[u] # NoEvent => /\ pc'[u] \in {"start", "work", "exit", "segv"}
                                        /\ hand'[u].kind = KindAt(pc'[u])
                                        /\ hand'[u].to = IF pc'[u] = "work" THEN cur'[u] ELSE u
               /\ pc'[u] = "work" => cur'[u] \in Workers
    BY <1>2, <2>1 DEF IInv, Hands
  <2>2. ASSUME NEW u \in Threads, NEW v \in Threads, cur'[u] = cur'[v], cur'[u] # NoWorker
        PROVE  u = v
    BY <1>2, <2>2 DEF IInv, Hands
  <2> QED
    BY <2>1, <2>2 DEF Hands
<1>6. Numbered'
  BY <1>1, NumberedKept DEF IInv
<1>7. Placed'
  BY <1>1, PlacedKept DEF IInv, queueVars
<1>8. Ended' /\ Cleaning' /\ Dying'
  BY <1>1, RunKeeps DEF IInv
<1>9. Crashed'
  BY <1>1, <1>2 DEF IInv, Crashed
<1>10. HandledOnly' /\ BackToLivePools'
  BY <1>1 DEF IInv, HandledOnly, Given, BackToLivePools
<1>11. Framing'
  <2> SUFFICES ASSUME NEW x \in before
               PROVE  /\ x.kind # "post"
                      /\ Over(x)' => x \notin InQueues
                      /\ Before(x)' => x \in InQueues
    BY <1>1, <1>4 DEF Framing
  <2>1. /\ x.kind # "post"
        /\ Over(x) => x \notin InQueues
        /\ Before(x) => x \in InQueues
    BY DEF IInv, Framing
  <2>2. CASE x.to = t
    BY <2>1, <2>2
  <2>3. CASE x.to # t
    <3>1. x.to \in Threads \/ pc'[x.to] = pc[x.to]
      BY <2>3 DEF IInv, Types
    <3> QED
      BY <1>2, <2>1, <2>3, <3>1 DEF Over, Before
  <2> QED
    BY <2>2, <2>3
<1>12. InOrder'
  BY <1>1, OrderSame DEF IInv, queueVars
<1> QED
  BY <1>3, <1>4, <1>5, <1>6, <1>7, <1>8, <1>9, <1>10, <1>11, <1>12 DEF IInv

LEMMA NotQueued ==
  ASSUME IInv, NEW k \in Kinds, NEW t \in Threads, hque[k][t] = <<>>,
         NEW x, x.kind = k, x.to = t
  PROVE  x \notin InQueues
<1>1. \A y : y \notin EventsIn(<<>>)
  BY FitEmpty, EventsInIs DEF Fit
<1> QED
  BY <1>1, QueuedIs DEF IInv, QueuedRight

LEMMA NoHandlerStep ==
  ASSUME IInv, phase = "running", NEW t \in Threads, NoHandler(t)
  PROVE  IInv'
<1> DEFINE l == IF pc[t] = "start" THEN "loop" ELSE "over"
<1>1. /\ pc[t] \in {"start", "exit"} /\ hand[t] = NoEvent
      /\ hque[QueueOf(pc[t])][t] = <<>> /\ pc' = [pc EXCEPT ![t] = l]
      /\ UNCHANGED <<phase, hand, cur, stop, queueVars, call, cleaned, dead, eventVars,
                     bookVars>>
  BY DEF NoHandler, Goto
<1>2. l \in PCs /\ l # "segv" /\ l # "work"
  BY DEF PCs
<1>3. cur' = [cur EXCEPT ![t] = cur[t]] /\ pc'[t] = l
  BY <1>1 DEF IInv, Types
<1>4. ASSUME NEW x, x.to = t
      PROVE  /\ Over(x)' => Over(x) \/ x \notin InQueues
             /\ Before(x)' => Before(x)
  <2>1. CASE pc[t] = "start"
    <3>1. x.kind = "tstart" => x \notin InQueues
      BY <1>1, <1>4, <2>1, NotQueued DEF QueueOf, Kinds
    <3> QED
      BY <1>3, <1>4, <2>1, <3>1 DEF Over, Before
  <2>2. CASE pc[t] = "exit"
    <3>1. x.kind = "texit" => x \notin InQueues
      BY <1>1, <1>4, <2>2, NotQueued DEF QueueOf, Kinds
    <3> QED
      BY <1>3, <1>4, <2>2, <3>1 DEF Over, Before
  <2> QED
    BY <1>1, <2>1, <2>2
<1> HIDE DEF l
<1> QED
  BY <1>1, <1>2, <1>3, <1>4, ThreadMoves

LEMMA TakeStep ==
  ASSUME IInv, phase = "running", NEW t \in Threads, NEW w \in Workers, Take(t, w)
  PROVE  IInv'
<1>1. /\ pc[t] = "loop" /\ \A s \in Threads : cur[s] # w
      /\ cur' = [cur EXCEPT ![t] = w] /\ pc' = [pc EXCEPT ![t] = "work"]
      /\ UNCHANGED <<phase, hand, stop, queueVars, call, cleaned, dead, eventVars, bookVars>>
  BY DEF Take, Goto
<1>2. hand[t] = NoEvent /\ pc'[t] = "work"
  BY <1>1 DEF IInv, Hands, Types
<1>3. \A x : x.to = t => (Over(x)' => Over(x)) /\ (Before(x)' => Before(x))
  BY <1>1, <1>2 DEF Over, Before
<1>4. "work" \in PCs
  BY DEF PCs
<1> QED
  BY <1>1, <1>2, <1>3, <1>4, ThreadMoves

LEMMA SeeStopStep ==
  ASSUME IInv, phase = "running", NEW t \in Threads, SeeStop(t)
  PROVE  IInv'
<1>1. /\ pc[t] = "loop" /\ pc' = [pc EXCEPT ![t] = "exit"]
      /\ UNCHANGED <<phase, hand, cur, stop, queueVars, call, cleaned, dead, eventVars,
                     bookVars>>
  BY DEF SeeStop, Goto
<1>2. hand[t] = NoEvent /\ pc'[t] = "exit" /\ cur' = [cur EXCEPT ![t] = cur[t]]
  BY <1>1 DEF IInv, Hands, Types
<1>3. \A x : x.to = t => (Over(x)' => Over(x)) /\ (Before(x)' => Before(x))
  BY <1>1, <1>2 DEF Over, Before
<1>4. "exit" \in PCs
  BY DEF PCs
<1> QED
  BY <1>1, <1>2, <1>3, <1>4, ThreadMoves

LEMMA GiveBackStep ==
  ASSUME IInv, phase = "running", NEW t \in Threads, GiveBack(t)
  PROVE  IInv'
<1>1. /\ pc[t] = "work" /\ hand[t] = NoEvent
      /\ cur' = [cur EXCEPT ![t] = NoWorker] /\ pc' = [pc EXCEPT ![t] = "loop"]
      /\ UNCHANGED <<phase, hand, stop, queueVars, call, cleaned, dead, eventVars, bookVars>>
  BY DEF GiveBack, Goto
<1>2. pc'[t] = "loop"
  BY <1>1 DEF IInv, Types
<1>3. \A x : x.to = t => (Over(x)' => Over(x)) /\ (Before(x)' => Before(x))
  BY <1>1, <1>2 DEF Over, Before
<1>4. "loop" \in PCs
  BY DEF PCs
<1> QED
  BY <1>1, <1>2, <1>3, <1>4, ThreadMoves

(* When a post is handled, those before it have been. *)
LEMMA OlderGone ==
  ASSUME IInv, phase = "running", NEW t \in Threads, hand[t] # NoEvent,
         NEW z \in made, Older(z, hand[t])
  PROVE  z \in Given
<1>1. /\ hand[t].kind = "post" /\ z.kind = "post" /\ z.to = hand[t].to /\ z.nr < hand[t].nr
      /\ pc[t] = "work" /\ hand[t].to = cur[t] /\ cur[t] # NoWorker
  BY KindAtIs, Numbers DEF IInv, Hands, Older
<1>2. hand[t] \in InHand /\ hand[t] \in made /\ hand[t] \notin InQueues
  BY DEF IInv, Placed, InHand
<1>3. z \notin InQueues
  BY <1>2 DEF IInv, InOrder
<1>4. \A u \in Threads : cur[u] = cur[t] => u = t
  BY <1>1 DEF IInv, Hands
<1>5. z \notin InHand
  <2> SUFFICES ASSUME NEW u \in Threads, hand[u] = z, z # NoEvent PROVE FALSE
    BY DEF InHand
  <2>1. cur[u] = z.to
    BY <1>1, KindAtIs DEF IInv, Hands
  <2>2. u = t /\ z.nr \in Nat
    BY <1>1, <1>4, <2>1 DEF IInv, Types, Events
  <2> QED
    BY <1>1, <2>2
<1>6. z \notin stuck
  BY <1>1, <1>4 DEF IInv, Crashed
<1> QED
  BY <1>3, <1>5, <1>6 DEF IInv, Placed

LEMMA EndHandlerStep ==
  ASSUME IInv, phase = "running", NEW t \in Threads, EndHandler(t)
  PROVE  IInv'
<1> DEFINE x == hand[t]
<1>1. /\ x # NoEvent /\ hand' = [hand EXCEPT ![t] = NoEvent]
      /\ handled' = handled \cup {x} /\ Release({x})
      /\ UNCHANGED <<phase, pc, cur, stop, queueVars, call, cleaned, dead, stuck, bookVars>>
  BY DEF EndHandler
<1>2. x \in InHand /\ InHand' = InHand \ {x}
  BY <1>1, HandEmptied DEF IInv, InHand
<1>3. x \in made
  BY <1>2 DEF IInv, Placed
<1>4. Given' = Given \cup {x} /\ released' \subseteq made /\ misfreed' \subseteq made
      /\ BackToLivePools'
  BY <1>1, <1>3, ReleaseIs DEF IInv, Types, Dying
<1> HIDE DEF x
<1>5. Types'
  BY <1>1, <1>3, <1>4 DEF IInv, Types, bookVars
<1>6. Queues' /\ InQueues' = InQueues
  BY <1>1, QueuesSame DEF IInv, queueVars
<1>7. Hands'
  <2>1. hand'[t] = NoEvent /\ \A u \in Threads : u # t => hand'[u] = hand[u]
    BY <1>1 DEF IInv, Types
  <2> QED
    BY <1>1, <2>1 DEF IInv, Hands
<1>8. Numbered'
  BY <1>1, NumberedKept DEF IInv, bookVars
<1>9. Placed'
  <2>1. made' = made /\ stuck' = stuck
    BY <1>1 DEF bookVars
  <2> QED
    BY <1>2, <1>4, <1>6, <2>1 DEF IInv, Placed
<1>10. Ended' /\ Cleaning' /\ Dying'
  BY <1>1, RunKeeps DEF IInv
<1>11. Crashed' /\ HandledOnly'
  BY <1>1, <1>4 DEF IInv, Crashed, HandledOnly
<1>12. Framing'
  BY <1>1, <1>6, FramingKept DEF IInv, bookVars
<1>13. InOrder'
  <2>1. made' = made /\ que' = que /\ handled = Given
    BY <1>1 DEF IInv, HandledOnly, queueVars, bookVars
  <2>2. \A z \in made : Older(z, x) => z \in handled
    BY <1>1, <2>1, OlderGone DEF x
  <2>3. PostsInOrder'
    BY <1>1, <2>1, <2>2 DEF IInv, InOrder, PostsInOrder, Older
  <2> QED
    BY <1>6, <2>1, <2>3 DEF IInv, InOrder, Older
<1> QED
  BY <1>4, <1>5, <1>6, <1>7, <1>8, <1>9, <1>10, <1>11, <1>12, <1>13 DEF IInv

-----------------------------------------------------------------------------
(* Crashes *)

LEMMA CrashStep ==
  ASSUME IInv, NEW t \in Threads, Crash(t)
  PROVE  IInv'
<1> DEFINE x == hand[t]
<1>1. /\ phase = "running" /\ pc[t] \in {"start", "work", "exit"} /\ x # NoEvent
      /\ pc' = [pc EXCEPT ![t] = "segv"] /\ stuck' = stuck \cup {x}
      /\ hand' = [hand EXCEPT ![t] = NoEvent]
      /\ call' = [call EXCEPT ![t] = Idle]
      /\ UNCHANGED <<phase, cur, stop, queueVars, cleaned, dead, released, misfreed,
                     handled, bookVars>>
  BY DEF Crash, Goto
<1>2. x \in InHand /\ InHand' = InHand \ {x}
  BY <1>1, HandEmptied DEF IInv, InHand
<1>3. x \in made /\ x.to = IF x.kind = "post" THEN cur[t] ELSE t
  BY <1>1, <1>2, KindAtIs DEF IInv, Placed, Hands
<1> HIDE DEF x
<1>4. /\ pc'[t] = "segv" /\ \A u \in Threads : u # t => pc'[u] = pc[u]
      /\ hand'[t] = NoEvent /\ \A u \in Threads : u # t => hand'[u] = hand[u]
      /\ pc' \in [Threads -> PCs] /\ hand' \in [Threads -> Events \cup {NoEvent}]
  BY <1>1 DEF IInv, Types, PCs
<1>5. /\ call' \in [Callers -> Callings]
      /\ \A b \in Callers : call'[b] = call[b] \/ call'[b] = Idle
  BY <1>1, CallingsAre DEF IInv, Types
<1>6. made' = made /\ before' = before /\ calls' = calls /\ runs' = runs
  BY <1>1 DEF bookVars
<1>7. Types'
  BY <1>1, <1>3, <1>4, <1>5, <1>6 DEF IInv, Types
<1>8. Queues' /\ InQueues' = InQueues
  BY <1>1, QueuesSame DEF IInv, queueVars
<1>9. Hands'
  BY <1>1, <1>4 DEF IInv, Hands
<1>10. Numbered'
  BY <1>5, <1>6, CallingsAre, NumberedKept DEF IInv, Registering
<1>11. Placed'
  BY <1>1, <1>2, <1>6, <1>8 DEF IInv, Placed, Given
<1>12. Ended' /\ Cleaning' /\ Dying'
  BY <1>1, RunKeeps DEF IInv
<1>13. Crashed'
  <2>1. \A y \in stuck : \E u \in Threads :
            pc[u] = "segv" /\ y.to = IF y.kind = "post" THEN cur[u] ELSE u
    BY <1>1 DEF IInv, Crashed
  <2>2. \A u \in Threads : pc[u] = "segv" => pc'[u] = "segv"
    BY <1>1, <1>4
  <2> QED
    BY <1>1, <1>3, <1>4, <2>1, <2>2 DEF Crashed
<1>14. HandledOnly' /\ BackToLivePools'
  BY <1>1 DEF IInv, HandledOnly, Given, BackToLivePools
<1>15. Framing'
  <2> SUFFICES ASSUME NEW y \in before
               PROVE  /\ y.kind # "post"
                      /\ Over(y)' => y \notin InQueues
                      /\ Before(y)' => y \in InQueues
    BY <1>1, <1>6, <1>8 DEF Framing
  <2>1. /\ y.kind # "post"
        /\ Over(y) => y \notin InQueues
        /\ Before(y) => y \in InQueues
    BY <1>1 DEF IInv, Framing
  <2>2. y.to = t \/ pc'[y.to] = pc[y.to]
    BY <1>1 DEF IInv, Types
  <2> QED
    BY <1>4, <2>1, <2>2 DEF Over, Before
<1>16. InOrder'
  BY <1>1, <1>6, OrderSame DEF IInv
<1> QED
  BY <1>7, <1>8, <1>9, <1>10, <1>11, <1>12, <1>13, <1>14, <1>15, <1>16 DEF IInv

LEMMA ExitStep ==
  ASSUME IInv, NEW t \in Threads, Exit(t)
  PROVE  IInv'
<1>1. /\ phase = "running" /\ phase' = "exited"
      /\ UNCHANGED <<threadVars, stop, queueVars, call, cleaned, dead, eventVars, bookVars>>
  BY DEF Exit
<1>2. pc' = pc /\ hand' = hand /\ cur' = cur /\ stuck' = stuck /\ released' = released
      /\ misfreed' = misfreed /\ handled' = handled
      /\ made' = made /\ before' = before /\ calls' = calls /\ runs' = runs
  BY <1>1 DEF threadVars, eventVars, bookVars
<1>3. Types'
  BY <1>1, <1>2 DEF IInv, Types, Phases
<1>4. Queues' /\ InQueues' = InQueues
  BY <1>1, QueuesSame DEF IInv, queueVars
<1>5. Hands' /\ Numbered' /\ Placed'
  BY <1>1, <1>2, HandsKept, NumberedKept, PlacedKept DEF IInv
<1>6. Ended' /\ Cleaning' /\ Dying'
  BY <1>1, RunKeeps DEF IInv
<1>7. Crashed' /\ HandledOnly' /\ Framing' /\ BackToLivePools'
  BY <1>1, <1>2 DEF IInv, Crashed, HandledOnly, Framing, BackToLivePools
<1>8. InOrder'
  BY <1>1, <1>2, OrderSame DEF IInv
<1> QED
  BY <1>3, <1>4, <1>5, <1>6, <1>7, <1>8 DEF IInv

LEMMA ThrowStep ==
  ASSUME IInv, NEW t \in Threads, Throw(t)
  PROVE  IInv'
<1> DEFINE x == hand[t]
<1>1. /\ phase = "running" /\ x # NoEvent /\ phase' = "aborted"
      /\ stuck' = stuck \cup {x} /\ hand' = [hand EXCEPT ![t] = NoEvent]
      /\ UNCHANGED <<pc, cur, stop, queueVars, call, cleaned, dead, released, misfreed,
                     handled, bookVars>>
  BY DEF Throw
<1>2. x \in InHand /\ InHand' = InHand \ {x}
  BY <1>1, HandEmptied DEF IInv, InHand
<1>3. x \in made
  BY <1>2 DEF IInv, Placed
<1> HIDE DEF x
<1>4. /\ hand'[t] = NoEvent /\ \A u \in Threads : u # t => hand'[u] = hand[u]
      /\ hand' \in [Threads -> Events \cup {NoEvent}]
  BY <1>1 DEF IInv, Types
<1>5. made' = made /\ before' = before /\ calls' = calls /\ runs' = runs
  BY <1>1 DEF bookVars
<1>6. Types'
  BY <1>1, <1>3, <1>4, <1>5 DEF IInv, Types, Phases
<1>7. Queues' /\ InQueues' = InQueues
  BY <1>1, QueuesSame DEF IInv, queueVars
<1>8. Hands'
  BY <1>1, <1>4 DEF IInv, Hands
<1>9. Numbered'
  BY <1>1, <1>5, NumberedKept DEF IInv
<1>10. Placed'
  BY <1>1, <1>2, <1>5, <1>7 DEF IInv, Placed, Given
<1>11. Ended' /\ Cleaning' /\ Dying'
  BY <1>1, RunKeeps DEF IInv
<1>12. Crashed' /\ HandledOnly' /\ Framing' /\ BackToLivePools'
  BY <1>1 DEF IInv, Crashed, HandledOnly, Framing, BackToLivePools
<1>13. InOrder'
  BY <1>1, <1>5, OrderSame DEF IInv
<1> QED
  BY <1>6, <1>7, <1>8, <1>9, <1>10, <1>11, <1>12, <1>13 DEF IInv

-----------------------------------------------------------------------------
(* The destructor *)

Destroying == {"misc", "workers", "pools", "data", "destroyed"}

(* A step of the destructor gives events back that are queued. *)
LEMMA EventsBack ==
  ASSUME IInv, phase \in {"idle"} \cup Destroying, phase' \in Destroying,
         cleaned' \in Threads, dead' \subseteq Callers,
         Queues', Cleaning', Dying',
         NEW es, es \subseteq InQueues, Release(es),
         \A y : y \in InQueues' <=> y \in InQueues /\ y \notin es,
         dead = {} \/ \A x \in es : x.kind = "tsegv",
         \A w \in Workers : Sorted(que'[w]),
         \A x \in es, y \in InQueues' : x.kind # "post" \/ y.kind # "post",
         UNCHANGED <<threadVars, stop, call, stuck, handled, bookVars>>
  PROVE  IInv'
<1>1. pc' = pc /\ hand' = hand /\ cur' = cur
      /\ made' = made /\ before' = before /\ calls' = calls /\ runs' = runs
  BY DEF threadVars, bookVars
<1>2. es \subseteq made
  BY DEF IInv, Placed
<1>3. released' \subseteq made /\ misfreed' \subseteq made
      /\ Given' = Given \cup es /\ BackToLivePools'
  BY <1>2, ReleaseIs DEF IInv, Types
<1>4. Types'
  BY <1>1, <1>3 DEF IInv, Types, Phases, Destroying
<1>5. Hands' /\ Numbered'
  BY <1>1, HandsKept, NumberedKept DEF IInv
<1>6. Placed'
  <2>1. InHand' = InHand
    BY <1>1 DEF InHand
  <2>2. stuck' = stuck /\ Placed
    BY DEF IInv
  <2> QED
    BY <1>1, <1>3, <2>1, <2>2 DEF Placed
<1>7. Ended' /\ Crashed'
  BY <1>1 DEF IInv, Ended, Crashed, Destroying
<1>8. HandledOnly' /\ Framing'
  BY DEF HandledOnly, Framing, Destroying
<1>9. InOrder'
  <2>1. ASSUME NEW x \in made, NEW y \in InQueues', x \notin InQueues', Older(y, x)
        PROVE  x \notin InQueues /\ y \in InQueues
    BY <2>1 DEF Older
  <2> QED
    BY <1>1, <2>1, OrderKept DEF IInv
<1> QED
  BY <1>3, <1>4, <1>5, <1>6, <1>7, <1>8, <1>9 DEF IInv

LEMMA ReleaseNone == UNCHANGED <<dead, released, misfreed>> => Release({})
BY DEF Release

LEMMA DestroyStep ==
  ASSUME IInv, Destroy
  PROVE  IInv'
<1>1. /\ phase = "idle" /\ phase' = "misc" /\ cleaned' = 0
      /\ UNCHANGED <<threadVars, stop, queueVars, call, dead, eventVars, bookVars>>
  BY DEF Destroy
<1>2. dead' = dead /\ released' = released /\ misfreed' = misfreed /\ stuck' = stuck
      /\ handled' = handled
  BY <1>1 DEF eventVars
<1>3. Queues' /\ InQueues' = InQueues
  BY <1>1, QueuesSame DEF IInv, queueVars
<1>4. \A t \in Threads : ~(t < 0)
  BY Numbers
<1>5. Cleaning' /\ Dying'
  BY <1>1, <1>2, <1>4 DEF IInv, Cleaning, MiscDone, DataDone, Dying
<1>6. \A w \in Workers : Sorted(que'[w])
  BY <1>1 DEF IInv, InOrder, queueVars
<1> QED
  BY <1>1, <1>2, <1>3, <1>5, <1>6, Numbers, ReleaseNone, EventsBack DEF IInv, Types, Destroying

LEMMA NextCleanedIs ==
  ASSUME cleaned \in Threads, NEW after, NextCleaned(after)
  PROVE  /\ cleaned' \in Threads
         /\ \/ phase' = phase /\ \A t \in Threads : t < cleaned' => t < cleaned \/ t = cleaned
            \/ /\ phase' = after /\ cleaned' = 0
               /\ \A t \in Threads : t < cleaned \/ t = cleaned
BY Numbers DEF NextCleaned

LEMMA CleanMiscStep ==
  ASSUME IInv, CleanMisc
  PROVE  IInv'
<1> DEFINE d == cleaned
           es == EventsIn(hque["tstart"][d]) \cup EventsIn(hque["texit"][d])
<1>1. /\ phase = "misc" /\ Release(es)
      /\ hque' = [hque EXCEPT !["tstart"][d] = <<>>, !["texit"][d] = <<>>]
      /\ NextCleaned("workers")
      /\ UNCHANGED <<threadVars, stop, que, call, dead, stuck, handled, bookVars>>
  BY DEF CleanMisc
<1>2. /\ d \in Threads /\ Queues /\ QueuedRight
      /\ "tstart" \in Kinds /\ "texit" \in Kinds
      /\ hque \in [Kinds -> [Threads -> Seq(Events)]] /\ <<>> \in Seq(Events)
  BY QueuedIs, EmptySeq DEF IInv, Types, Queues, Kinds
<1>3. \A y : y \in es <=> y \in InQueues /\ y.kind \in {"tstart", "texit"} /\ y.to = d
  BY <1>2 DEF QueuedRight
<1>4. cleaned' \in Threads
      /\ \/ phase' = phase /\ \A t \in Threads : t < cleaned' => t < d \/ t = d
         \/ /\ phase' = "workers" /\ cleaned' = 0
            /\ \A t \in Threads : t < d \/ t = d
  BY <1>1, <1>2, NextCleanedIs
<1> HIDE DEF d, es
<1>5. /\ hque' \in [Kinds -> [Threads -> Seq(Events)]]
      /\ \A k \in Kinds, t \in Threads :
             hque'[k][t] = IF k \in {"tstart", "texit"} /\ t = d THEN <<>> ELSE hque[k][t]
  BY <1>1, <1>2
<1>6. /\ Queues'
      /\ \A y : y \in InQueues' <=> y \in InQueues /\ ~(y.kind \in {"tstart", "texit"} /\ y.to = d)
  <2>1. {"tstart", "texit"} \in SUBSET Kinds
    BY DEF Kinds
  <2> QED
    BY <1>1, <1>2, <1>5, <2>1, HandlersCleared
<1>7. Cleaning'
  <2>1. \A t \in Threads : t < d => Empty("tstart", t) /\ Empty("texit", t)
    BY <1>1 DEF IInv, Cleaning, MiscDone, d
  <2>2. \A t \in Threads : MiscDone(t)' => Empty("tstart", t)' /\ Empty("texit", t)'
    BY <1>1, <1>2, <1>4, <1>5, <2>1 DEF MiscDone, Empty
  <2> QED
    BY <1>1, <1>4, <2>2 DEF Cleaning, DataDone
<1>8. dead = {} /\ Dying'
  BY <1>1, <1>4 DEF IInv, Dying
<1>9. phase' \in Destroying /\ dead' \subseteq Callers
  BY <1>1, <1>4, <1>8 DEF Destroying
<1>10. es \subseteq InQueues /\ \A y : y \in InQueues' <=> y \in InQueues /\ y \notin es
  BY <1>3, <1>6
<1>11. (\A w \in Workers : Sorted(que'[w])) /\ \A x \in es : x.kind # "post"
  BY <1>1, <1>3 DEF IInv, InOrder
<1> QED
  BY <1>1, <1>4, <1>6, <1>7, <1>8, <1>9, <1>10, <1>11, EventsBack DEF Destroying

LEMMA CleanWorkersStep ==
  ASSUME IInv, CleanWorkers
  PROVE  IInv'
<1>1. /\ phase = "workers" /\ Release(Posts)
      /\ que' = [w \in Workers |-> <<>>] /\ phase' = "pools"
      /\ UNCHANGED <<threadVars, stop, hque, call, cleaned, dead, stuck, handled, bookVars>>
  BY DEF CleanWorkers
<1>2. \A y : y \in Posts <=> y \in InQueues /\ y.kind = "post"
  <2>1. \A y : y \in Posts <=> \E w \in Workers : y \in EventsIn(que[w])
    BY PostsAre
  <2> QED
    BY <2>1, QueuedIs DEF IInv, QueuedRight, Kinds
<1>3. Queues' /\ \A y : y \in InQueues' <=> y \in InQueues /\ y.kind # "post"
  BY <1>1, PostsCleared DEF IInv
<1>4. Cleaning'
  BY <1>1 DEF IInv, Cleaning, MiscDone, DataDone, Empty
<1>5. dead = {} /\ Dying'
  BY <1>1 DEF IInv, Dying
<1>6. Posts \subseteq InQueues /\ \A y : y \in InQueues' <=> y \in InQueues /\ y \notin Posts
  BY <1>2, <1>3
<1>7. (\A w \in Workers : Sorted(que'[w])) /\ \A y \in InQueues' : y.kind # "post"
  BY <1>1, <1>3, SortedEmpty
<1> QED
  BY <1>1, <1>3, <1>4, <1>5, <1>6, <1>7, EventsBack DEF IInv, Types, Destroying

LEMMA CleanPoolsStep ==
  ASSUME IInv, CleanPools
  PROVE  IInv'
<1>1. /\ phase = "pools" /\ dead' = dead \cup Outside /\ phase' = "data"
      /\ UNCHANGED <<threadVars, stop, queueVars, call, cleaned, eventVars, bookVars>>
  BY DEF CleanPools
<1>2. released' = released /\ misfreed' = misfreed /\ stuck' = stuck /\ handled' = handled
      /\ hque' = hque /\ que' = que
  BY <1>1 DEF eventVars, queueVars
<1>3. Queues' /\ InQueues' = InQueues
  BY <1>1, <1>2, QueuesSame DEF IInv
<1>4. cleaned = 0 /\ \A t \in Threads : ~(t < 0)
  BY <1>1, Numbers DEF IInv, Cleaning
<1>5. Cleaning' /\ Dying'
  BY <1>1, <1>2, <1>4 DEF IInv, Cleaning, MiscDone, DataDone, Empty, Dying
<1>6. Release({})
  BY <1>2 DEF Release
<1>7. \A w \in Workers : Sorted(que'[w])
  BY <1>2 DEF IInv, InOrder
<1> QED
  BY <1>1, <1>2, <1>3, <1>5, <1>6, <1>7, EventsBack DEF IInv, Types, Destroying, Callers

LEMMA CleanDataStep ==
  ASSUME IInv, CleanData
  PROVE  IInv'
<1> DEFINE d == cleaned
           es == EventsIn(hque["tsegv"][d])
<1>1. /\ phase = "data" /\ Release(es)
      /\ hque' = [hque EXCEPT !["tsegv"][d] = <<>>]
      /\ dead' = dead \cup {d} /\ NextCleaned("destroyed")
      /\ UNCHANGED <<threadVars, stop, que, call, stuck, handled, bookVars>>
  BY DEF CleanData
<1>2. /\ d \in Threads /\ Queues /\ QueuedRight /\ "tsegv" \in Kinds
      /\ hque \in [Kinds -> [Threads -> Seq(Events)]] /\ <<>> \in Seq(Events)
  BY QueuedIs, EmptySeq DEF IInv, Types, Queues, Kinds
<1>3. \A y : y \in es <=> y \in InQueues /\ y.kind = "tsegv" /\ y.to = d
  BY <1>2 DEF QueuedRight
<1>4. cleaned' \in Threads
      /\ \/ phase' = phase /\ \A t \in Threads : t < cleaned' => t < d \/ t = d
         \/ /\ phase' = "destroyed" /\ cleaned' = 0
            /\ \A t \in Threads : t < d \/ t = d
  BY <1>1, <1>2, NextCleanedIs
<1> HIDE DEF d, es
<1>5. /\ hque' \in [Kinds -> [Threads -> Seq(Events)]]
      /\ \A k \in Kinds, t \in Threads :
             hque'[k][t] = IF k \in {"tsegv"} /\ t = d THEN <<>> ELSE hque[k][t]
  BY <1>1, <1>2
<1>6. /\ Queues'
      /\ \A y : y \in InQueues' <=> y \in InQueues /\ ~(y.kind \in {"tsegv"} /\ y.to = d)
  <2>1. {"tsegv"} \in SUBSET Kinds
    BY <1>2
  <2> QED
    BY <1>1, <1>2, <1>5, <2>1, HandlersCleared
<1>7. Cleaning'
  <2>1. /\ \A t \in Threads : t < d => Empty("tsegv", t)
        /\ \A t \in Threads : Empty("tstart", t) /\ Empty("texit", t)
        /\ \A w \in Workers : que[w] = <<>>
    BY <1>1 DEF IInv, Cleaning, MiscDone, DataDone, d
  <2>2. \A t \in Threads : DataDone(t)' => Empty("tsegv", t)'
    BY <1>1, <1>2, <1>4, <1>5, <2>1 DEF DataDone, Empty
  <2>3. \A t \in Threads : Empty("tstart", t)' /\ Empty("texit", t)'
    BY <1>5, <2>1 DEF Empty, Kinds
  <2> QED
    BY <1>1, <1>4, <2>1, <2>2, <2>3 DEF Cleaning
<1>8. Dying'
  BY <1>1, <1>4 DEF Dying
<1>9. phase' \in Destroying /\ dead' \subseteq Callers
  BY <1>1, <1>2, <1>4 DEF IInv, Types, Destroying, Callers
<1>10. es \subseteq InQueues /\ \A y : y \in InQueues' <=> y \in InQueues /\ y \notin es
  BY <1>3, <1>6
<1>11. (\A w \in Workers : Sorted(que'[w])) /\ \A x \in es : x.kind # "post"
  BY <1>1, <1>3 DEF IInv, InOrder
<1> QED
  BY <1>1, <1>3, <1>4, <1>6, <1>7, <1>8, <1>9, <1>10, <1>11, EventsBack DEF Destroying

-----------------------------------------------------------------------------

LEMMA UnchangedStep == IInv /\ UNCHANGED vars => IInv'
<1> SUFFICES ASSUME IInv, UNCHANGED vars PROVE IInv'
  OBVIOUS
<1>1. /\ phase' = phase /\ pc' = pc /\ hand' = hand /\ cur' = cur /\ stop' = stop
      /\ que' = que /\ hque' = hque /\ call' = call /\ cleaned' = cleaned /\ dead' = dead
      /\ released' = released /\ misfreed' = misfreed /\ stuck' = stuck /\ handled' = handled
      /\ made' = made /\ before' = before /\ calls' = calls /\ runs' = runs
  BY DEF vars, threadVars, queueVars, eventVars, bookVars
<1>2. Types' /\ Hands'
  BY <1>1 DEF IInv, Types, Hands
<1>3. Queues' /\ InQueues' = InQueues
  BY <1>1, QueuesSame DEF IInv
<1>4. Numbered'
  BY <1>1, NumberedKept DEF IInv
<1>5. Placed'
  BY <1>1, PlacedKept DEF IInv, queueVars
<1>6. Ended' /\ Crashed' /\ HandledOnly' /\ Dying' /\ BackToLivePools'
  BY <1>1 DEF IInv, Ended, Crashed, HandledOnly, Given, Dying, BackToLivePools
<1>7. Cleaning'
  BY <1>1 DEF IInv, Cleaning, MiscDone, DataDone, Empty
<1>8. Framing'
  BY <1>1, <1>3, FramingKept DEF IInv
<1>9. InOrder'
  BY <1>1, OrderSame DEF IInv, queueVars
<1> QED
  BY <1>2, <1>3, <1>4, <1>5, <1>6, <1>7, <1>8, <1>9 DEF IInv

LEMMA NextStep == IInv /\ [Next]_vars => IInv'
<1> SUFFICES ASSUME IInv, [Next]_vars PROVE IInv'
  OBVIOUS
<1>1. ASSUME NEW a \in Callers, Calling(a) \/ GoOn(a) PROVE IInv'
  BY <1>1, RegisterStep, PostStep, CallStopStep, PushHandlerStep, SetStopStep
     DEF Calling, GoOn
<1>2. ASSUME NEW t \in Threads, Step(t) PROVE IInv'
  BY <1>2, PopHandlerStep, NoHandlerStep, SeeStopStep, TakeStep, PopEventStep, GiveBackStep,
     EndHandlerStep DEF Step
<1>3. ASSUME Destructor PROVE IInv'
  BY <1>3, CleanMiscStep, CleanWorkersStep, CleanPoolsStep, CleanDataStep DEF Destructor
<1> QED
  BY <1>1, <1>2, <1>3, RunStep, JoinStep, CrashStep, ExitStep, ThrowStep, DestroyStep,
     UnchangedStep DEF Next

LEMMA Invariance == Spec => []IInv
BY InitHolds, NextStep, PTL DEF Spec

-----------------------------------------------------------------------------
(***************************************************************************)
(* Every variable keeps its type, in every life of a service.              *)
(***************************************************************************)
THEOREM TypeOKHolds == Spec => []TypeOK
<1>1. IInv => TypeOK
  BY CallingsAre DEF IInv, Types, Queues, TypeOK
<1> QED
  BY <1>1, Invariance, PTL

(***************************************************************************)
(* Every event of tstart, texit, tsegv and post is queued, in a handler,   *)
(* given back or stuck in a crash, in one of these places only; after      *)
(* ~ev_service every one has been given back.                              *)
(***************************************************************************)
THEOREM AccountedHolds == Spec => []Accounted
<1>1. IInv => Accounted
  <2> SUFFICES ASSUME IInv PROVE Accounted
    OBVIOUS
  <2>1. ASSUME phase = "destroyed" PROVE made = released \cup misfreed
    <3>1. InHand = {} /\ stuck = {}
      BY <2>1, NoneAtWork
    <3>2. /\ \A t \in Threads, k \in Kinds : hque[k][t] = <<>>
          /\ \A w \in Workers : que[w] = <<>>
      BY <2>1 DEF IInv, Cleaning, MiscDone, DataDone, Empty, Kinds
    <3>3. \A y : y \notin EventsIn(<<>>)
      BY FitEmpty, EventsInIs DEF Fit
    <3>4. \A y : y \notin InQueues
      BY <3>2, <3>3, Queued DEF QueuedIff
    <3> QED
      BY <3>1, <3>4 DEF IInv, Placed, Given
  <2> QED
    BY <2>1 DEF IInv, Placed, Given, Accounted
<1> QED
  BY <1>1, Invariance, PTL

(***************************************************************************)
(* An event goes back to a pool that is still there, whoever posted it and *)
(* whether it ran or not; only those of tsegv the destructor may give back *)
(* too late.                                                               *)
(***************************************************************************)
THEOREM BackToLivePoolsHolds == Spec => []BackToLivePools
<1>1. IInv => BackToLivePools
  BY DEF IInv
<1> QED
  BY <1>1, Invariance, PTL

(***************************************************************************)
(* The posts of a worker are handled in the order they were posted, over   *)
(* the runs, whichever threads handle them, and none past one that crashed *)
(* (worker::work, post).                                                   *)
(***************************************************************************)
THEOREM PostsInOrderHolds == Spec => []PostsInOrder
<1>1. IInv => PostsInOrder
  BY DEF IInv, InOrder
<1> QED
  BY <1>1, Invariance, PTL

(***************************************************************************)
(* trun: handlers registered before run() frame it on every thread, those  *)
(* of tstart before its loop and those of texit after it, none left out.   *)
(***************************************************************************)
THEOREM HandlersFramedHolds == Spec => []HandlersFramed
<1>1. IInv => HandlersFramed
  <2> SUFFICES ASSUME IInv, NEW x \in before, phase = "running"
               PROVE  (Over(x) => x \in handled) /\ (Before(x) => x \notin handled)
    BY DEF HandlersFramed, Over, Before
  <2>1. handled = Given /\ x \in made
    BY DEF IInv, HandledOnly, Types
  <2>2. /\ Over(x) => x \notin InQueues
        /\ Before(x) => x \in InQueues
    BY DEF IInv, Framing
  <2>3. ASSUME Over(x) PROVE x \notin InHand
    <3> SUFFICES ASSUME NEW t \in Threads, hand[t] # NoEvent, hand[t] = x PROVE FALSE
      BY DEF InHand
    <3>1. /\ pc[t] \in {"start", "work", "exit", "segv"} /\ x.kind = KindAt(pc[t])
          /\ x.to = IF pc[t] = "work" THEN cur[t] ELSE t
      BY DEF IInv, Hands
    <3>2. CASE x.kind = "tstart"
      BY <2>3, <3>1, <3>2, KindAtIs DEF Over
    <3>3. CASE x.kind = "texit"
      BY <2>3, <3>1, <3>3, KindAtIs DEF Over
    <3> QED
      BY <2>3, <3>2, <3>3 DEF Over
  <2>4. ASSUME Over(x) PROVE x \notin stuck
    BY <2>4 DEF IInv, Crashed, Over
  <2> QED
    BY <2>1, <2>2, <2>3, <2>4 DEF IInv, Placed
<1> QED
  BY <1>1, Invariance, PTL
==============================================================================
