-------------------------- MODULE PooledQueueProofs --------------------------
(***************************************************************************)
(* Safety of MpscPool for any nodes, threads and owner: the two lists of   *)
(* the pool are sound, and the pool implements NodeStore.  A thread        *)
(* between its load and its compare-and-swap has linked its node to the    *)
(* head it saw; if that is the head again, whatever happened in between,   *)
(* the node is linked to the stack there is.                               *)
(*                                                                         *)
(* Then safety of PooledQueue for any variant_ptrs: its steps are steps    *)
(* that the pool allows, the queue keeps its order, and nodes are owned.   *)
(* A node that the program has a pointer to is with the owner, not being   *)
(* released; outside the queue its link is null, so push may link to it.   *)
(***************************************************************************)
EXTENDS PooledQueue, NodeListProofs


(* What a state has in addition to what TypeOK says. *)
Freeing == \A t \in Threads :
    /\ pc[t] = "cas" => elem[t] \in Nodes /\ holder[elem[t]] = t /\ next[elem[t]] = stale[t]
    /\ pc[t] = "closing" => t = Owner /\ \A n \in Nodes : holder[n] \in {Pool, Unmade}

(* s and l are the lists of the pool and hold what is in it. *)
Apart(s, l) == /\ Distinct(s) /\ Distinct(l)
               /\ NodesOf(s) \cap NodesOf(l) = {}
               /\ NodesOf(s) \cup NodesOf(l) = {n \in Nodes : holder[n] = Pool}

Lists == \E s, l \in Seq(Nodes) :
             IsChain(next, s, head) /\ IsChain(next, l, cache) /\ Apart(s, l)

IInv == TypeOK /\ Freeing /\ Lists

-----------------------------------------------------------------------------
(* The lists under the steps of the pool. *)

(* A node that is not in the pool may be linked anywhere. *)
LEMMA ListsKept ==
  ASSUME TypeOK, Lists, UNCHANGED <<head, cache>>,
         NEW n \in Nodes, holder[n] # Pool, NEW m, next' = [next EXCEPT ![n] = m],
         \A k \in Nodes : holder'[k] = Pool <=> holder[k] = Pool
  PROVE  Lists'
<1>1. PICK s \in Seq(Nodes), l \in Seq(Nodes) :
          IsChain(next, s, head) /\ IsChain(next, l, cache) /\ Apart(s, l)
  BY DEF Lists
<1>2. n \notin NodesOf(s) /\ n \notin NodesOf(l)
  BY <1>1 DEF Apart
<1>3. next \in [Nodes -> Links]
  BY DEF TypeOK
<1>4. IsChain(next', s, head') /\ IsChain(next', l, cache')
  BY <1>1, <1>2, <1>3, ChainKept
<1>5. Apart(s, l)'
  BY <1>1 DEF Apart
<1> QED
  BY <1>4, <1>5 DEF Lists

(* The node that pri_get takes leaves the pool. *)
LEMMA ListsPopped ==
  ASSUME TypeOK, Lists, NEW n \in Nodes, FromCache(n) \/ FromStack(n),
         next' = [next EXCEPT ![n] = Null],
         NEW x, x # Pool, holder' = [holder EXCEPT ![n] = x]
  PROVE  Lists' /\ holder[n] = Pool /\ head' \in Links /\ cache' \in Links
<1>1. PICK s \in Seq(Nodes), l \in Seq(Nodes) :
          IsChain(next, s, head) /\ IsChain(next, l, cache) /\ Apart(s, l)
  BY DEF Lists
<1>2. next \in [Nodes -> Links] /\ next[n] \in Links /\ Null \in Links /\ head \in Links
  BY DEF TypeOK, Links
<1>3. /\ holder'[n] = x /\ \A k \in Nodes \ {n} : holder'[k] = holder[k]
  BY DEF TypeOK
<1>4. Distinct(s) /\ Distinct(l)
  BY <1>1 DEF Apart
<1>5. CASE FromCache(n)
  <2>1. n = cache /\ cache' = next[n] /\ head' = head
    BY <1>5 DEF FromCache
  <2>2. /\ Tail(l) \in Seq(Nodes) /\ IsChain(next, Tail(l), next[n]) /\ Distinct(Tail(l))
        /\ NodesOf(Tail(l)) = NodesOf(l) \ {n} /\ n \in NodesOf(l)
    BY <1>1, <1>4, <2>1, ChainHead
  <2>3. n \notin NodesOf(s) /\ n \notin NodesOf(Tail(l)) /\ holder[n] = Pool
    BY <1>1, <2>2 DEF Apart
  <2>4. IsChain(next', s, head') /\ IsChain(next', Tail(l), cache')
    BY <1>1, <1>2, <2>1, <2>2, <2>3, ChainKept
  <2>5. Apart(s, Tail(l))'
    BY <1>1, <1>3, <2>2, <2>3 DEF Apart
  <2> QED
    BY <1>2, <2>1, <2>2, <2>3, <2>4, <2>5 DEF Lists
<1>6. CASE FromStack(n)
  <2>1. n = head /\ cache = Null /\ head' = Null /\ cache' = next[n]
    BY <1>6 DEF FromStack
  <2>2. /\ Tail(s) \in Seq(Nodes) /\ IsChain(next, Tail(s), next[n]) /\ Distinct(Tail(s))
        /\ NodesOf(Tail(s)) = NodesOf(s) \ {n} /\ n \in NodesOf(s)
    BY <1>1, <1>4, <2>1, ChainHead
  <2>3. NodesOf(l) = {} /\ l = <<>>
    BY <1>1, <2>1, EmptyChain
  <2>4. n \notin NodesOf(Tail(s)) /\ holder[n] = Pool
    BY <1>1, <2>2 DEF Apart
  <2>5. IsChain(next', l, head') /\ IsChain(next', Tail(s), cache')
    BY <1>2, <2>1, <2>2, <2>3, <2>4, ChainKept, EmptyIsChain
  <2>6. Apart(l, Tail(s))'
    BY <1>1, <1>3, <2>2, <2>3, <2>4 DEF Apart
  <2> QED
    BY <1>2, <2>1, <2>2, <2>4, <2>5, <2>6 DEF Lists
<1> QED
  BY <1>5, <1>6

-----------------------------------------------------------------------------
(* Steps *)

LEMMA InitHolds == Init => IInv
<1> SUFFICES ASSUME Init PROVE IInv
  OBVIOUS
<1>1. TypeOK /\ Freeing
  BY DEF Init, TypeOK, Freeing, Links
<1>2. IsChain(next, <<>>, Null) /\ <<>> \in Seq(Nodes) /\ NodesOf(<<>>) = {} /\ Distinct(<<>>)
  BY EmptyIsChain
<1>3. {n \in Nodes : holder[n] = Pool} = {}
  BY DEF Init, Pool, Unmade
<1>4. Apart(<<>>, <<>>)
  BY <1>2, <1>3 DEF Apart
<1>5. Lists
  BY <1>2, <1>4 DEF Init, Lists
<1> QED
  BY <1>1, <1>5 DEF IInv

LEMMA GetPooledStep ==
  ASSUME IInv, NEW n \in Nodes, GetPooled(n)
  PROVE  IInv' /\ holder[n] = Pool
<1>0. TypeOK /\ Freeing /\ Lists
  BY DEF IInv
<1>1. PICK t \in Threads : holder' = [holder EXCEPT ![n] = t]
  BY DEF GetPooled, HandOut
<1>2. /\ FromCache(n) \/ FromStack(n)
      /\ next' = [next EXCEPT ![n] = Null] /\ pc[Owner] = "idle"
      /\ UNCHANGED <<pc, elem, stale>>
  BY DEF GetPooled, HandOut, freeVars
<1>3. t # Pool
  BY ThreadsAssumption
<1>4. Lists' /\ holder[n] = Pool /\ head' \in Links /\ cache' \in Links
  BY <1>0, <1>1, <1>2, <1>3, ListsPopped
<1>5. TypeOK'
  BY <1>0, <1>1, <1>2, <1>4 DEF TypeOK, Links
<1>6. Freeing'
  <2>1. \A u \in Threads : pc[u] # "closing"
    BY <1>0, <1>2 DEF Freeing
  <2>2. ASSUME NEW u \in Threads, pc[u] = "cas"
        PROVE  elem[u] \in Nodes /\ holder'[elem[u]] = u /\ next'[elem[u]] = stale[u]
    <3>1. elem[u] \in Nodes /\ holder[elem[u]] = u /\ next[elem[u]] = stale[u]
      BY <1>0, <2>2 DEF Freeing
    <3>2. elem[u] # n
      BY <1>4, <3>1, ThreadsAssumption
    <3> QED
      BY <1>0, <1>1, <1>2, <3>1, <3>2 DEF TypeOK
  <2> QED
    BY <1>2, <2>1, <2>2 DEF Freeing
<1> QED
  BY <1>4, <1>5, <1>6 DEF IInv

LEMMA GetNewStep ==
  ASSUME IInv, NEW n \in Nodes, GetNew(n)
  PROVE  IInv'
<1>0. TypeOK /\ Freeing /\ Lists
  BY DEF IInv
<1>1. PICK t \in Threads : holder' = [holder EXCEPT ![n] = t]
  BY DEF GetNew, HandOut
<1>2. /\ holder[n] = Unmade /\ next' = [next EXCEPT ![n] = Null] /\ pc[Owner] = "idle"
      /\ UNCHANGED <<head, cache, pc, elem, stale>>
  BY DEF GetNew, HandOut, freeVars
<1>3. t # Pool /\ holder[n] # Pool
  BY <1>2, ThreadsAssumption DEF Pool, Unmade
<1>4. /\ holder'[n] = t /\ \A k \in Nodes \ {n} : holder'[k] = holder[k] /\ next'[k] = next[k]
  BY <1>0, <1>1, <1>2 DEF TypeOK
<1>5. Lists'
  BY <1>0, <1>2, <1>3, <1>4, ListsKept
<1>6. TypeOK'
  BY <1>0, <1>1, <1>2 DEF TypeOK, Links
<1>7. Freeing'
  <2>1. \A u \in Threads : pc[u] # "closing"
    BY <1>0, <1>2 DEF Freeing
  <2>2. ASSUME NEW u \in Threads, pc[u] = "cas"
        PROVE  elem[u] \in Nodes /\ holder'[elem[u]] = u /\ next'[elem[u]] = stale[u]
    <3>1. elem[u] \in Nodes /\ holder[elem[u]] = u /\ next[elem[u]] = stale[u]
      BY <1>0, <2>2 DEF Freeing
    <3>2. elem[u] # n
      BY <1>2, <3>1, ThreadsAssumption
    <3> QED
      BY <1>4, <3>1, <3>2
  <2> QED
    BY <1>2, <2>1, <2>2 DEF Freeing
<1> QED
  BY <1>5, <1>6, <1>7 DEF IInv

LEMMA FreeLoadStep ==
  ASSUME IInv, NEW t \in Threads, NEW n \in Nodes, FreeLoad(t, n)
  PROVE  IInv'
<1>0. TypeOK /\ Freeing /\ Lists
  BY DEF IInv
<1>1. /\ pc[t] = "idle" /\ holder[n] = t
      /\ elem' = [elem EXCEPT ![t] = n] /\ next' = [next EXCEPT ![n] = head]
      /\ stale' = [stale EXCEPT ![t] = head] /\ pc' = [pc EXCEPT ![t] = "cas"]
      /\ UNCHANGED <<head, cache, holder>>
  BY DEF FreeLoad
<1>2. holder[n] # Pool /\ holder[n] # Unmade
  BY <1>1, ThreadsAssumption
<1>3. Lists'
  BY <1>0, <1>1, <1>2, ListsKept
<1>4. TypeOK'
  BY <1>0, <1>1 DEF TypeOK, Links
<1>5. Freeing'
  <2>1. \A u \in Threads : pc[u] # "closing"
    BY <1>0, <1>2 DEF Freeing
  <2>2. ASSUME NEW u \in Threads, pc'[u] = "cas"
        PROVE  elem'[u] \in Nodes /\ holder[elem'[u]] = u /\ next'[elem'[u]] = stale'[u]
    <3>1. CASE u = t
      BY <1>0, <1>1, <3>1 DEF TypeOK
    <3>2. CASE u # t
      <4>1. pc[u] = "cas" /\ elem'[u] = elem[u] /\ stale'[u] = stale[u]
        BY <1>0, <1>1, <2>2, <3>2 DEF TypeOK
      <4>2. elem[u] \in Nodes /\ holder[elem[u]] = u /\ next[elem[u]] = stale[u]
        BY <1>0, <4>1 DEF Freeing
      <4> QED
        BY <1>0, <1>1, <3>2, <4>1, <4>2 DEF TypeOK
    <3> QED
      BY <3>1, <3>2
  <2>3. \A u \in Threads : pc'[u] # "closing"
    BY <1>0, <1>1, <2>1 DEF TypeOK
  <2> QED
    BY <1>1, <2>2, <2>3 DEF Freeing
<1> QED
  BY <1>3, <1>4, <1>5 DEF IInv

(* The head is what the node was linked to, be it the one that was loaded   *)
(* or one that has been taken and given back since.                         *)
LEMMA CasSucceedsStep ==
  ASSUME IInv, NEW t \in Threads, CasSucceeds(t)
  PROVE  IInv' /\ elem[t] \in Nodes /\ holder[elem[t]] = t
<1>0. TypeOK /\ Freeing /\ Lists
  BY DEF IInv
<1>1. /\ pc[t] = "cas" /\ head = stale[t] /\ head' = elem[t]
      /\ holder' = [holder EXCEPT ![elem[t]] = Pool]
      /\ pc' = [pc EXCEPT ![t] = "idle"] /\ elem' = [elem EXCEPT ![t] = Null]
      /\ stale' = [stale EXCEPT ![t] = Null]
      /\ UNCHANGED <<cache, next>>
  BY DEF CasSucceeds, FreeEnds
<1>2. elem[t] \in Nodes /\ holder[elem[t]] = t /\ next[elem[t]] = head
  BY <1>0, <1>1 DEF Freeing
<1> PICK n \in Nodes : n = elem[t]
  BY <1>2
<1>3. holder[n] # Pool /\ holder[n] # Unmade
  BY <1>2, ThreadsAssumption
<1>4. holder'[n] = Pool /\ \A k \in Nodes \ {n} : holder'[k] = holder[k]
  BY <1>0, <1>1 DEF TypeOK
<1>5. Lists'
  <2>1. PICK s \in Seq(Nodes), l \in Seq(Nodes) :
            IsChain(next, s, head) /\ IsChain(next, l, cache) /\ Apart(s, l)
    BY <1>0 DEF Lists
  <2>2. /\ n \notin NodesOf(s) /\ n \notin NodesOf(l) /\ Distinct(s)
        /\ IsChain(next, s, head)
    BY <1>3, <2>1 DEF Apart
  <2>3. PICK r \in Seq(Nodes) : /\ r = <<n>> \o s
                                /\ IsChain(next, r, n) /\ Distinct(r)
                                /\ NodesOf(r) = NodesOf(s) \cup {n}
    BY <1>2, <2>2, ChainPush
  <2>4. IsChain(next', r, head') /\ IsChain(next', l, cache')
    BY <1>1, <2>1, <2>3
  <2>5. Apart(r, l)'
    BY <1>4, <2>1, <2>2, <2>3 DEF Apart
  <2> QED
    BY <2>4, <2>5 DEF Lists
<1>6. TypeOK'
  BY <1>0, <1>1, <1>2 DEF TypeOK, Links
<1>7. Freeing'
  <2>1. \A u \in Threads : pc'[u] # "closing"
    BY <1>0, <1>1, <1>3 DEF Freeing, TypeOK
  <2>2. ASSUME NEW u \in Threads, pc'[u] = "cas"
        PROVE  elem'[u] \in Nodes /\ holder'[elem'[u]] = u /\ next[elem'[u]] = stale'[u]
    <3>1. u # t /\ pc[u] = "cas" /\ elem'[u] = elem[u] /\ stale'[u] = stale[u]
      BY <1>0, <1>1, <2>2 DEF TypeOK
    <3>2. elem[u] \in Nodes /\ holder[elem[u]] = u /\ next[elem[u]] = stale[u]
      BY <1>0, <3>1 DEF Freeing
    <3>3. elem[u] # n
      BY <1>2, <3>1, <3>2
    <3> QED
      BY <1>4, <3>1, <3>2, <3>3
  <2> QED
    BY <1>1, <2>1, <2>2 DEF Freeing
<1> QED
  BY <1>2, <1>5, <1>6, <1>7 DEF IInv

LEMMA CasFailsStep ==
  ASSUME IInv, NEW t \in Threads, CasFails(t)
  PROVE  IInv'
<1>0. TypeOK /\ Freeing /\ Lists
  BY DEF IInv
<1>1. /\ pc[t] = "cas"
      /\ stale' = [stale EXCEPT ![t] = head] /\ next' = [next EXCEPT ![elem[t]] = head]
      /\ UNCHANGED <<head, cache, holder, pc, elem>>
  BY DEF CasFails
<1>2. elem[t] \in Nodes /\ holder[elem[t]] = t
  BY <1>0, <1>1 DEF Freeing
<1>3. holder[elem[t]] # Pool
  BY <1>2, ThreadsAssumption
<1>4. Lists'
  BY <1>0, <1>1, <1>2, <1>3, ListsKept
<1>5. TypeOK'
  BY <1>0, <1>1, <1>2 DEF TypeOK
<1>6. Freeing'
  <2>1. ASSUME NEW u \in Threads, pc[u] = "cas"
        PROVE  elem[u] \in Nodes /\ holder[elem[u]] = u /\ next'[elem[u]] = stale'[u]
    <3>1. elem[u] \in Nodes /\ holder[elem[u]] = u /\ next[elem[u]] = stale[u]
      BY <1>0, <2>1 DEF Freeing
    <3>2. CASE u = t
      BY <1>0, <1>1, <3>1, <3>2 DEF TypeOK
    <3>3. CASE u # t
      <4>1. elem[u] # elem[t]
        BY <1>2, <3>1, <3>3
      <4> QED
        BY <1>0, <1>1, <3>1, <3>3, <4>1 DEF TypeOK
    <3> QED
      BY <3>2, <3>3
  <2>2. \A u \in Threads :
            pc[u] = "closing" => u = Owner /\ \A n \in Nodes : holder[n] \in {Pool, Unmade}
    BY <1>0 DEF Freeing
  <2> QED
    BY <1>1, <2>1, <2>2 DEF Freeing
<1> QED
  BY <1>4, <1>5, <1>6 DEF IInv

LEMMA CloseStep ==
  ASSUME IInv, Close \/ Closed
  PROVE  IInv'
<1>0. TypeOK /\ Freeing /\ Lists
  BY DEF IInv
<1>1. UNCHANGED <<head, cache, next, holder, elem, stale>>
  BY DEF Close, Closed
<1>2. Lists'
  BY <1>0, <1>1 DEF Lists, Apart
<1>3. /\ pc[Owner] # "cas" /\ \A n \in Nodes : holder[n] \in {Pool, Unmade}
      /\ pc' = [pc EXCEPT ![Owner] = "closing"] \/ pc' = [pc EXCEPT ![Owner] = "idle"]
  BY <1>0, OwnerAssumption DEF Close, Closed, Freeing
<1>4. TypeOK'
  BY <1>0, <1>1, <1>3 DEF TypeOK
<1>5. Freeing'
  <2>1. \A u \in Threads \ {Owner} : pc'[u] = pc[u]
    BY <1>0, <1>3 DEF TypeOK
  <2>2. pc'[Owner] # "cas"
    BY <1>0, <1>3, OwnerAssumption DEF TypeOK
  <2> QED
    BY <1>0, <1>1, <1>3, <2>1, <2>2 DEF Freeing
<1> QED
  BY <1>2, <1>4, <1>5 DEF IInv

LEMMA DisposeStep ==
  ASSUME IInv, NEW n \in Nodes, Dispose(n)
  PROVE  IInv' /\ holder[n] = Pool
<1>0. TypeOK /\ Freeing /\ Lists
  BY DEF IInv
<1>1. /\ pc[Owner] = "closing" /\ (FromCache(n) \/ FromStack(n))
      /\ holder' = [holder EXCEPT ![n] = Unmade] /\ next' = [next EXCEPT ![n] = Null]
      /\ UNCHANGED <<pc, elem, stale>>
  BY DEF Dispose, freeVars
<1>2. Unmade # Pool
  BY DEF Unmade, Pool
<1>3. Lists' /\ holder[n] = Pool /\ head' \in Links /\ cache' \in Links
  BY <1>0, <1>1, <1>2, ListsPopped
<1>4. TypeOK'
  BY <1>0, <1>1, <1>3 DEF TypeOK, Links
<1>5. \A k \in Nodes : holder[k] \in {Pool, Unmade} /\ holder'[k] \in {Pool, Unmade}
  BY <1>0, <1>1, OwnerAssumption DEF Freeing, TypeOK
<1>6. \A u \in Threads : pc[u] # "cas"
  BY <1>0, <1>5, ThreadsAssumption DEF Freeing
<1>7. Freeing'
  BY <1>0, <1>1, <1>5, <1>6 DEF Freeing
<1> QED
  BY <1>3, <1>4, <1>7 DEF IInv

LEMMA LinkStep ==
  ASSUME IInv, NEW n \in Nodes, Link(n)
  PROVE  IInv'
<1>0. TypeOK /\ Freeing /\ Lists
  BY DEF IInv
<1>1. PICK m \in Links : next' = [next EXCEPT ![n] = m]
  BY DEF Link
<1>2. /\ holder[n] \in Threads /\ \A t \in Threads : elem[t] # n
      /\ UNCHANGED <<head, cache, holder, pc, elem, stale>>
  BY DEF Link, freeVars
<1>3. holder[n] # Pool
  BY <1>2, ThreadsAssumption
<1>4. Lists'
  BY <1>0, <1>1, <1>2, <1>3, ListsKept
<1>5. TypeOK'
  BY <1>0, <1>1, <1>2 DEF TypeOK
<1>6. \A k \in Nodes \ {n} : next'[k] = next[k]
  BY <1>0, <1>1 DEF TypeOK
<1>7. Freeing'
  BY <1>0, <1>2, <1>6 DEF Freeing
<1> QED
  BY <1>4, <1>5, <1>7 DEF IInv

LEMMA UnchangedStep == IInv /\ UNCHANGED vars => IInv'
<1> SUFFICES ASSUME IInv, UNCHANGED vars PROVE IInv'
  OBVIOUS
<1>1. UNCHANGED <<head, cache, next, holder, pc, elem, stale>>
  BY DEF vars
<1>2. TypeOK'
  BY <1>1 DEF IInv, TypeOK
<1>3. Freeing'
  BY <1>1 DEF IInv, Freeing
<1>4. Lists'
  BY <1>1 DEF IInv, Lists, Apart
<1> QED
  BY <1>2, <1>3, <1>4 DEF IInv

LEMMA NextStep == IInv /\ [Next]_vars => IInv'
BY GetPooledStep, GetNewStep, FreeLoadStep, CasSucceedsStep, CasFailsStep, CloseStep, DisposeStep,
   LinkStep, UnchangedStep DEF Next, PoolStep

LEMMA Invariance == Spec => []IInv
BY InitHolds, NextStep, PTL DEF Spec

(***************************************************************************)
(* Type correctness of the pool: a link leads to a node or to none, and a   *)
(* node is the pool's, a thread's or not made (mpsc_pool, node_base).      *)
(***************************************************************************)
THEOREM TypeOKHolds == Spec => []TypeOK
<1>1. IInv => TypeOK
  BY DEF IInv
<1> QED
  BY Invariance, <1>1, PTL

(***************************************************************************)
(* The stack and the cache end, have no node in common and hold the pool's *)
(* nodes, whatever the interleaving of get, release and the destructor     *)
(* (mpsc_pool::pri_get and free, ~mpsc_pool).                              *)
(***************************************************************************)
THEOREM SoundListsHolds == Spec => []SoundLists
<1>1. ASSUME IInv PROVE SoundLists
  <2>1. PICK s \in Seq(Nodes), l \in Seq(Nodes) :
            IsChain(next, s, head) /\ IsChain(next, l, cache) /\ Apart(s, l)
    BY <1>1 DEF IInv, Lists
  <2>2. s \in NodeSeqs /\ l \in NodeSeqs
    BY <2>1, DistinctFits DEF Apart
  <2>3. Distinct(s \o l) /\ NodesOf(s \o l) = NodesOf(s) \cup NodesOf(l)
    BY <2>1, Concatenated DEF Apart
  <2> QED
    BY <2>1, <2>2, <2>3 DEF SoundLists, Apart
<1> QED
  BY Invariance, <1>1, PTL

-----------------------------------------------------------------------------
(* Refinement *)

LEMMA ListedIs ==
  ASSUME IInv PROVE Listed = {n \in Nodes : holder[n] = Pool}
<1>1. PICK s \in Seq(Nodes), l \in Seq(Nodes) :
          IsChain(next, s, head) /\ IsChain(next, l, cache) /\ Apart(s, l)
  BY DEF IInv, Lists
<1>2. Chain(next, head) = s /\ Chain(next, cache) = l
  BY <1>1, ChainIs DEF Apart
<1> QED
  BY <1>1, <1>2 DEF Listed, Apart

LEMMA ListedIsNext ==
  ASSUME IInv' PROVE Listed' = {n \in Nodes : holder'[n] = Pool}
<1>1. PICK s \in Seq(Nodes), l \in Seq(Nodes) :
          IsChain(next', s, head') /\ IsChain(next', l, cache') /\ Apart(s, l)'
  BY DEF IInv, Lists
<1>2. Chain(next', head') = s /\ Chain(next', cache') = l
  BY <1>1, ChainIs DEF Apart
<1> QED
  BY <1>1, <1>2 DEF Listed, Apart

Used == {n \in Nodes : holder[n] \in Threads}

LEMMA NextRefines == IInv /\ [Next]_vars => [Store!Next]_(Store!vars)
<1> SUFFICES ASSUME IInv, [Next]_vars PROVE [Store!Next]_(Store!vars)
  OBVIOUS
<1> DEFINE InPool == {n \in Nodes : holder[n] = Pool}
<1>0. IInv' /\ TypeOK /\ Freeing
  BY NextStep DEF IInv
<1>1. Listed = InPool /\ Listed' = InPool'
  BY <1>0, ListedIs, ListedIsNext
<1>2. UNCHANGED holder => [Store!Next]_(Store!vars)
  BY <1>1 DEF Store!vars
<1>3. ASSUME NEW n \in Nodes, GetPooled(n) PROVE Store!Get(n)
  <2>1. PICK t \in Threads : holder' = [holder EXCEPT ![n] = t]
    BY <1>3 DEF GetPooled, HandOut
  <2>2. holder[n] = Pool
    BY <1>3, GetPooledStep
  <2>3. InPool' = InPool \ {n} /\ Used' = Used \cup {n} /\ n \in InPool
    BY <1>0, <2>1, <2>2, ThreadsAssumption DEF TypeOK, Used
  <2> QED
    BY <1>1, <2>3 DEF Store!Get, Used
<1>4. ASSUME NEW n \in Nodes, GetNew(n) PROVE Store!Get(n)
  <2>1. PICK t \in Threads : holder' = [holder EXCEPT ![n] = t]
    BY <1>4 DEF GetNew, HandOut
  <2>2. holder[n] = Unmade /\ cache = Null /\ head = Null
    BY <1>4 DEF GetNew
  <2>3. InPool = {}
    <3>1. PICK s \in Seq(Nodes), l \in Seq(Nodes) :
              IsChain(next, s, head) /\ IsChain(next, l, cache) /\ Apart(s, l)
      BY DEF IInv, Lists
    <3>2. NodesOf(s) = {} /\ NodesOf(l) = {}
      BY <2>2, <3>1, EmptyChain
    <3> QED
      BY <3>1, <3>2 DEF Apart
  <2>4. InPool' = InPool \ {n} /\ Used' = Used \cup {n} /\ n \notin Used
    BY <1>0, <2>1, <2>2, <2>3, ThreadsAssumption DEF TypeOK, Used
  <2> QED
    BY <1>1, <2>3, <2>4 DEF Store!Get, Used
<1>5. ASSUME NEW t \in Threads, CasSucceeds(t) PROVE \E n \in Nodes : Store!GiveBack(n)
  <2>1. elem[t] \in Nodes /\ holder[elem[t]] = t
    BY <1>5, CasSucceedsStep
  <2> PICK n \in Nodes : n = elem[t]
    BY <2>1
  <2>2. holder' = [holder EXCEPT ![n] = Pool]
    BY <1>5 DEF CasSucceeds
  <2>3. InPool' = InPool \cup {n} /\ Used' = Used \ {n} /\ n \in Used
    BY <1>0, <2>1, <2>2, ThreadsAssumption DEF TypeOK, Used
  <2>4. Store!GiveBack(n)
    BY <1>1, <2>3 DEF Store!GiveBack, Used
  <2> QED
    BY <2>4
<1>6. ASSUME NEW n \in Nodes, Dispose(n) PROVE Store!Dispose(n)
  <2>1. holder[n] = Pool /\ holder' = [holder EXCEPT ![n] = Unmade]
    BY <1>6, DisposeStep DEF Dispose
  <2>2. \A k \in Nodes : holder[k] \in {Pool, Unmade}
    BY <1>0, <1>6, OwnerAssumption DEF Dispose, Freeing
  <2>3. Used = {}
    BY <2>2, ThreadsAssumption DEF Used
  <2>4. InPool' = InPool \ {n} /\ Used' = Used /\ n \in InPool
    BY <1>0, <2>1, <2>3, ThreadsAssumption DEF TypeOK, Used, Pool, Unmade
  <2> QED
    BY <1>1, <2>3, <2>4 DEF Store!Dispose, Used
<1>7. ASSUME NEW t \in Threads, NEW n \in Nodes, FreeLoad(t, n) PROVE UNCHANGED holder
  BY <1>7 DEF FreeLoad
<1>8. ASSUME NEW t \in Threads, CasFails(t) PROVE UNCHANGED holder
  BY <1>8 DEF CasFails
<1>9. Close \/ Closed \/ UNCHANGED vars => UNCHANGED holder
  BY DEF Close, Closed, vars
<1>10. ASSUME NEW n \in Nodes, Link(n) PROVE UNCHANGED holder
  BY <1>10 DEF Link
<1> QED
  BY <1>2, <1>3, <1>4, <1>5, <1>6, <1>7, <1>8, <1>9, <1>10 DEF Next, PoolStep, Store!Next

(***************************************************************************)
(* The pool implements NodeStore: a node got is nobody else's, any thread  *)
(* may give it back, a new one is made only when none is pooled, and none  *)
(* is deleted while one is in use (mpsc_pool::get, node_base::release,     *)
(* ~mpsc_pool).                                                            *)
(***************************************************************************)
THEOREM StoreRefined == Spec => ImplementsStore
<1>1. ASSUME Init PROVE Store!Init
  <2>1. Listed = {n \in Nodes : holder[n] = Pool}
    BY <1>1, InitHolds, ListedIs
  <2>2. \A n \in Nodes : holder[n] = Unmade
    BY <1>1 DEF Init
  <2> QED
    BY <2>1, <2>2, ThreadsAssumption DEF Store!Init, Pool, Unmade
<1> QED
  BY <1>1, NextRefines, Invariance, PTL DEF Spec, ImplementsStore, Store!Spec

-----------------------------------------------------------------------------
(* The nodes of the history line. *)
Where(ln) == [i \in 1 .. Len(ln) |-> ln[i].node]

Entries == [node : Nodes, kind : Kinds]

QTypes == /\ qhead \in Links /\ qtail \in Links
          /\ unique \in [Nodes -> BOOLEAN] /\ self \in [Nodes -> BOOLEAN]
          /\ kind \in [Nodes -> Kinds]
          /\ owners \in [Nodes -> SUBSET ({User, Queue} \cup Variants)]
          /\ variant \in [Variants -> [kind : Kinds, node : Links]]
          /\ line \in Seq(Entries)
          /\ dropped \subseteq Nodes

(* A thread has a node to free only between the load and the swap. *)
Idle == \A t \in Threads : pc[t] # "cas" => elem[t] = Null

(* What is known of a node that the owner's program has ...                 *)
Fine(n) ==
    /\ owners[n] # {} => holder[n] = Owner /\ elem[Owner] # n
    /\ holder[n] = Owner /\ owners[n] = {} => n \in dropped \/ elem[Owner] = n
    /\ kind[n] # "shared" => \A a, b \in owners[n] : a = b
    /\ owners[n] # {} /\ Queue \notin owners[n] => next[n] = Null
    /\ Queue \notin owners[n] => ~unique[n] /\ ~self[n]
    /\ Queue \in owners[n] => /\ self[n] <=> kind[n] = "shared"
                              /\ unique[n] <=> kind[n] = "unique"

(* ... of a variant_ptr ... *)
Holding(v) == /\ variant[v].node = Null => variant[v] = NoOwner
              /\ \A n \in Nodes : v \in owners[n] <=> variant[v].node = n

InQueue == {n \in Nodes : Queue \in owners[n]}

(* ... and of the queue. *)
Line == /\ IsChain(next, Where(line), qhead) /\ Distinct(Where(line))
        /\ NodesOf(Where(line)) = InQueue
        /\ qtail = IF line = <<>> THEN Null ELSE line[Len(line)].node
        /\ \A i \in 1 .. Len(line) : line[i].kind = kind[line[i].node]

QInv == /\ QTypes /\ Idle /\ Line
        /\ \A n \in Nodes : Fine(n)
        /\ \A v \in Variants : Holding(v)

LEMMA WhereIs ==
  ASSUME NEW ln \in Seq(Entries)
  PROVE  /\ Where(ln) \in Seq(Nodes) /\ Len(Where(ln)) = Len(ln) /\ Len(ln) \in Nat
         /\ \A i \in 1 .. Len(ln) : Where(ln)[i] = ln[i].node /\ ln[i] \in Entries
         /\ Where(ln) = <<>> <=> ln = <<>>
<1>1. Len(ln) \in Nat /\ \A i \in 1 .. Len(ln) : ln[i] \in Entries
  BY ElementOfSeq
<1>2. Where(ln) \in [1 .. Len(ln) -> Nodes]
  BY <1>1 DEF Where, Entries
<1>3. Where(ln) \in Seq(Nodes)
  BY <1>1, <1>2, SeqDef
<1>4. Len(Where(ln)) = Len(ln)
  BY <1>1, <1>2, <1>3
<1>5. Where(ln) = <<>> <=> ln = <<>>
  BY <1>1, <1>3, <1>4, EmptySeq
<1>6. \A i \in 1 .. Len(ln) : Where(ln)[i] = ln[i].node
  BY DEF Where
<1> QED
  BY <1>1, <1>3, <1>4, <1>5, <1>6

LEMMA WhereAppend ==
  ASSUME NEW ln \in Seq(Entries), NEW x \in Entries
  PROVE  Append(ln, x) \in Seq(Entries) /\ Where(Append(ln, x)) = Append(Where(ln), x.node)
<1> DEFINE a == Append(ln, x)
           b == Append(Where(ln), x.node)
<1>1. x.node \in Nodes
  BY DEF Entries
<1>2. /\ Where(ln) \in Seq(Nodes) /\ Len(Where(ln)) = Len(ln) /\ Len(ln) \in Nat
      /\ \A i \in 1 .. Len(ln) : Where(ln)[i] = ln[i].node
  BY WhereIs
<1>3. /\ a \in Seq(Entries) /\ Len(a) = Len(ln) + 1 /\ a[Len(ln) + 1] = x
      /\ \A i \in 1 .. Len(ln) : a[i] = ln[i]
  BY AppendProperties
<1>4. /\ b \in Seq(Nodes) /\ Len(b) = Len(ln) + 1 /\ b[Len(ln) + 1] = x.node
      /\ \A i \in 1 .. Len(ln) : b[i] = ln[i].node
  BY <1>1, <1>2, AppendProperties
<1> HIDE DEF a, b
<1>5. /\ Where(a) \in Seq(Nodes) /\ Len(Where(a)) = Len(a)
      /\ \A i \in 1 .. Len(a) : Where(a)[i] = a[i].node
  BY <1>3, WhereIs
<1>6. ASSUME NEW i \in 1 .. Len(Where(a)) PROVE Where(a)[i] = b[i]
  <2>1. i = Len(ln) + 1 \/ i \in 1 .. Len(ln)
    BY <1>2, <1>3, <1>5
  <2> QED
    BY <1>3, <1>4, <1>5, <2>1
<1>7. Where(a) = b
  BY <1>3, <1>4, <1>5, <1>6, SeqEqual
<1> QED
  BY <1>3, <1>7 DEF a, b

LEMMA WhereTail ==
  ASSUME NEW ln \in Seq(Entries), ln # <<>>
  PROVE  Tail(ln) \in Seq(Entries) /\ Where(Tail(ln)) = Tail(Where(ln))
<1> DEFINE a == Tail(ln)
           b == Tail(Where(ln))
<1>1. /\ Where(ln) \in Seq(Nodes) /\ Len(Where(ln)) = Len(ln) /\ Len(ln) \in Nat
      /\ \A i \in 1 .. Len(ln) : Where(ln)[i] = ln[i].node
      /\ Where(ln) # <<>> /\ Len(ln) # 0
  BY WhereIs, EmptySeq
<1>2. /\ a \in Seq(Entries) /\ Len(a) = Len(ln) - 1
      /\ \A i \in 1 .. Len(a) : a[i] = ln[i + 1]
  BY HeadTailProperties
<1>3. /\ b \in Seq(Nodes) /\ Len(b) = Len(ln) - 1
      /\ \A i \in 1 .. Len(b) : b[i] = Where(ln)[i + 1]
  BY <1>1, HeadTailProperties
<1> HIDE DEF a, b
<1>4. /\ Where(a) \in Seq(Nodes) /\ Len(Where(a)) = Len(a)
      /\ \A i \in 1 .. Len(a) : Where(a)[i] = a[i].node
  BY <1>2, WhereIs
<1>5. ASSUME NEW i \in 1 .. Len(Where(a)) PROVE Where(a)[i] = b[i]
  <2>1. i \in 1 .. Len(a) /\ i \in 1 .. Len(b) /\ i + 1 \in 1 .. Len(ln)
    BY <1>1, <1>2, <1>3, <1>4
  <2> QED
    BY <1>1, <1>2, <1>3, <1>4, <2>1
<1>6. Where(a) = b
  BY <1>2, <1>3, <1>4, <1>5, SeqEqual
<1> QED
  BY <1>2, <1>6 DEF a, b

-----------------------------------------------------------------------------
(* The queue under the steps of the owner's program. *)

LEMMA LineKept ==
  ASSUME QTypes, Line, UNCHANGED <<qhead, qtail, line>>, InQueue' = InQueue,
         \A k \in InQueue : next'[k] = next[k] /\ kind'[k] = kind[k]
  PROVE  Line'
<1>1. /\ Where(line) \in Seq(Nodes) /\ Len(Where(line)) = Len(line)
      /\ \A i \in 1 .. Len(line) : Where(line)[i] = line[i].node
  BY WhereIs DEF QTypes
<1>2. IsChain(next', Where(line), qhead)
  BY <1>1, ChainSame DEF Line
<1>3. \A i \in 1 .. Len(line) : line[i].node \in InQueue
  BY <1>1 DEF Line, NodesOf
<1>4. \A i \in 1 .. Len(line) : line[i].kind = kind'[line[i].node]
  BY <1>3 DEF Line
<1>5. Where(line') = Where(line)
  OBVIOUS
<1> QED
  BY <1>2, <1>4, <1>5 DEF Line

(* What head_ leads to. *)
LEMMA QueueHead ==
  ASSUME QTypes, Line, qhead # Null
  PROVE  /\ qhead \in Nodes /\ qhead \in InQueue /\ line # <<>> /\ qhead = Where(line)[1]
         /\ Where(line) \in Seq(Nodes)
         /\ next[qhead] \in Links /\ (next[qhead] = Null <=> Len(line) = 1)
<1>1. qhead \in Nodes
  BY DEF QTypes, Links
<1>2. /\ Where(line) \in Seq(Nodes) /\ Len(Where(line)) = Len(line) /\ Len(line) \in Nat
      /\ (Where(line) = <<>> <=> line = <<>>)
  BY WhereIs DEF QTypes
<1>3. Where(line) # <<>> /\ qhead = Where(line)[1]
  BY DEF Line, IsChain
<1>4. Len(line) # 0 /\ 1 \in 1 .. Len(line)
  BY <1>2, <1>3, EmptySeq
<1>5. qhead \in InQueue
  BY <1>2, <1>3, <1>4 DEF Line, NodesOf
<1>6. next[qhead] = IF Len(line) = 1 THEN Null ELSE Where(line)[1 + 1]
  BY <1>2, <1>3, <1>4 DEF Line, IsChain
<1>7. Len(line) # 1 => 1 + 1 \in 1 .. Len(line)
  BY <1>2, <1>4
<1>8. Len(line) # 1 => Where(line)[1 + 1] \in Nodes
  BY <1>2, <1>7, ElementOfSeq
<1>9. next[qhead] \in Links /\ (next[qhead] = Null <=> Len(line) = 1)
  BY <1>6, <1>8, NodesAssumption DEF Links
<1> QED
  BY <1>1, <1>2, <1>3, <1>5, <1>9

LEMMA LinePopped ==
  ASSUME QTypes, Line, qhead # Null,
         qhead' = next[qhead], qtail' = IF next[qhead] = Null THEN Null ELSE qtail,
         line' = Tail(line), InQueue' = InQueue \ {qhead},
         \A k \in InQueue \ {qhead} : next'[k] = next[k] /\ kind'[k] = kind[k]
  PROVE  Line' /\ qhead' \in Links /\ qtail' \in Links /\ line' \in Seq(Entries)
<1>1. /\ qhead \in Nodes /\ line # <<>> /\ Where(line) \in Seq(Nodes)
      /\ next[qhead] \in Links /\ (next[qhead] = Null <=> Len(line) = 1)
  BY QueueHead
<1>2. line' \in Seq(Entries) /\ Where(line') = Tail(Where(line))
  BY <1>1, WhereTail DEF QTypes
<1> DEFINE r == Tail(Where(line))
<1>3. /\ r \in Seq(Nodes) /\ IsChain(next, r, next[qhead]) /\ Distinct(r)
      /\ NodesOf(r) = InQueue \ {qhead}
  <2>1. IsChain(next, Where(line), qhead) /\ Distinct(Where(line))
        /\ NodesOf(Where(line)) = InQueue
    BY DEF Line
  <2> QED
    BY <1>1, <2>1, ChainHead
<1> HIDE DEF r
<1>4. IsChain(next', r, qhead')
  BY <1>3, ChainSame
<1>5. /\ Len(line) \in Nat /\ Len(line') = Len(line) - 1 /\ Len(line) # 0
      /\ \A i \in 1 .. Len(line') : line'[i] = line[i + 1] /\ i + 1 \in 1 .. Len(line)
  BY <1>1, HeadTailProperties, EmptySeq DEF QTypes
<1>6. line' = <<>> <=> Len(line) = 1
  <2>1. line' = <<>> => Len(line') = 0
    BY EmptySeq
  <2>2. line' # <<>> => Len(line') # 0
    BY <1>2, EmptySeq
  <2> QED
    BY <1>5, <2>1, <2>2
<1>7. qtail' = IF line' = <<>> THEN Null ELSE line'[Len(line')].node
  <2>1. CASE Len(line) = 1
    BY <1>1, <1>6, <2>1
  <2>2. CASE Len(line) # 1
    <3>1. Len(line') \in 1 .. Len(line') /\ Len(line') + 1 = Len(line)
      BY <1>5, <2>2
    <3>2. line'[Len(line')] = line[Len(line)]
      BY <1>5, <3>1
    <3> QED
      BY <1>1, <1>6, <2>2, <3>2 DEF Line
  <2> QED
    BY <2>1, <2>2
<1>8. ASSUME NEW i \in 1 .. Len(line') PROVE line'[i].kind = kind'[line'[i].node]
  <2>1. line'[i].kind = kind[line'[i].node]
    BY <1>5 DEF Line
  <2>2. Where(line')[i] = line'[i].node /\ Len(Where(line')) = Len(line')
    BY <1>2, WhereIs
  <2>3. line'[i].node \in NodesOf(r)
    BY <1>2, <2>2 DEF NodesOf, r
  <2> QED
    BY <1>3, <2>1, <2>3
<1>9. qhead' \in Links /\ qtail' \in Links
  BY <1>1 DEF QTypes, Links
<1> QED
  BY <1>2, <1>3, <1>4, <1>7, <1>8, <1>9 DEF Line, r

LEMMA LinePushed ==
  ASSUME TypeOK, QTypes, Line, NEW n \in Nodes, n \notin InQueue, LinkLast(n),
         InQueue' = InQueue \cup {n}, UNCHANGED kind
  PROVE  /\ Line' /\ qhead' \in Links /\ qtail' \in Links /\ line' \in Seq(Entries)
         /\ \A k \in Nodes \ InQueue' : next'[k] = next[k]
<1>1. /\ next' = IF qtail = Null THEN [next EXCEPT ![n] = Null]
                                 ELSE [next EXCEPT ![n] = Null, ![qtail] = n]
      /\ qhead' = IF qtail = Null THEN n ELSE qhead
      /\ qtail' = n /\ line' = Append(line, [node |-> n, kind |-> kind[n]])
  BY DEF LinkLast
<1>2. [node |-> n, kind |-> kind[n]] \in Entries
  BY DEF QTypes, Entries
<1>3. /\ line \in Seq(Entries) /\ line' \in Seq(Entries)
      /\ Where(line') = Append(Where(line), n)
  BY <1>1, <1>2, WhereAppend DEF QTypes
<1>4. /\ Where(line) \in Seq(Nodes) /\ Len(Where(line)) = Len(line) /\ Len(line) \in Nat
      /\ \A i \in 1 .. Len(line) : Where(line)[i] = line[i].node
      /\ (Where(line) = <<>> <=> line = <<>>)
  BY <1>3, WhereIs
<1> DEFINE s == Where(line)
<1>5. IsChain(next, s, qhead) /\ Distinct(s) /\ NodesOf(s) = InQueue
  BY DEF Line
<1> HIDE DEF s
<1>6. s \in Seq(Nodes) /\ n \notin NodesOf(s) /\ Len(s) = Len(line)
  BY <1>4, <1>5 DEF s
<1>7. (s = <<>> <=> qtail = Null) /\ (s # <<>> => qtail = s[Len(s)])
  <2>1. CASE line = <<>>
    BY <1>4, <2>1 DEF Line, s
  <2>2. CASE line # <<>>
    <3>1. Len(line) \in 1 .. Len(line)
      BY <1>3, <1>4, <2>2, EmptySeq
    <3>2. qtail = s[Len(s)] /\ s[Len(s)] \in Nodes
      BY <1>4, <1>6, <2>2, <3>1, ElementOfSeq DEF Line, s
    <3> QED
      BY <1>4, <2>2, <3>2, NodesAssumption DEF s
  <2> QED
    BY <2>1, <2>2
<1>8. next \in [Nodes -> Links] /\ \A i \in 1 .. Len(s) : s[i] \in Nodes /\ s[i] # n
  BY <1>6 DEF TypeOK, NodesOf
<1>9. next'[n] = Null /\ \A i \in 1 .. Len(s) : next'[s[i]] = IF i = Len(s) THEN n ELSE next[s[i]]
  <2>1. CASE s = <<>>
    BY <1>1, <1>7, <1>8, <2>1
  <2>2. CASE s # <<>>
    <3>1. Len(s) \in 1 .. Len(s) /\ qtail = s[Len(s)] /\ qtail # n /\ qtail \in Nodes
      BY <1>6, <1>7, <1>8, <2>2, EmptySeq
    <3>2. next' = [next EXCEPT ![n] = Null, ![qtail] = n]
      BY <1>1, <1>7, <2>2
    <3>3. \A i \in 1 .. Len(s) : s[i] = qtail <=> i = Len(s)
      BY <1>5, <3>1 DEF Distinct
    <3> QED
      BY <1>8, <3>1, <3>2, <3>3
  <2> QED
    BY <2>1, <2>2
<1>10. /\ IsChain(next', Append(s, n), IF s = <<>> THEN n ELSE qhead)
       /\ Distinct(Append(s, n)) /\ NodesOf(Append(s, n)) = NodesOf(s) \cup {n}
  BY <1>5, <1>6, <1>9, ChainAppend
<1>11. qhead' = IF s = <<>> THEN n ELSE qhead
  BY <1>1, <1>7
<1>12. /\ line' # <<>> /\ Len(line') = Len(line) + 1
       /\ line'[Len(line) + 1] = [node |-> n, kind |-> kind[n]]
       /\ \A i \in 1 .. Len(line) : line'[i] = line[i]
  BY <1>1, <1>2, <1>3, AppendProperties
<1>13. ASSUME NEW i \in 1 .. Len(line') PROVE line'[i].kind = kind'[line'[i].node]
  <2>1. i = Len(line) + 1 \/ i \in 1 .. Len(line)
    BY <1>4, <1>12
  <2> QED
    BY <1>12, <2>1 DEF Line
<1>14. \A k \in Nodes \ InQueue' : next'[k] = next[k]
  <2>1. qtail # Null => qtail \in InQueue
    <3>1. qtail # Null => Len(s) \in 1 .. Len(s) /\ qtail = s[Len(s)]
      BY <1>6, <1>7, EmptySeq
    <3> QED
      BY <1>5, <3>1 DEF NodesOf
  <2> QED
    BY <1>1, <1>8, <2>1
<1>15. IsChain(next', Where(line'), qhead') /\ Distinct(Where(line'))
  BY <1>3, <1>10, <1>11 DEF s
<1>16. NodesOf(Where(line')) = InQueue'
  BY <1>3, <1>5, <1>10 DEF s
<1>17. qtail' = line'[Len(line')].node
  BY <1>1, <1>12
<1>18. Line'
  BY <1>12, <1>13, <1>15, <1>16, <1>17 DEF Line
<1>19. qhead' \in Links /\ qtail' \in Links
  BY <1>1 DEF QTypes, Links
<1> QED
  BY <1>3, <1>14, <1>18, <1>19

-----------------------------------------------------------------------------
(* Steps *)

LEMMA Names ==
  /\ Owner \in Threads /\ Owner # Pool /\ Owner # Unmade
  /\ User # Queue /\ \A v \in Variants : v # User /\ v # Queue
  /\ NoOwner.node = Null /\ NoOwner.kind = "raw" /\ Null \notin Nodes
BY OwnerAssumption, ThreadsAssumption, VariantsAssumption, NodesAssumption DEF User, Queue, NoOwner

(* A node that a step does not touch. *)
LEMMA FineKept ==
  ASSUME NEW n \in Nodes, Fine(n),
         owners'[n] = owners[n], holder'[n] = holder[n], kind'[n] = kind[n],
         unique'[n] = unique[n], self'[n] = self[n],
         owners[n] # {} /\ Queue \notin owners[n] => next'[n] = next[n],
         elem'[Owner] = n <=> elem[Owner] = n, dropped \subseteq dropped'
  PROVE  Fine(n)'
BY DEF Fine

(* The owner's program runs: nothing is being released. *)
LEMMA AtRest ==
  ASSUME QInv, pc[Owner] = "idle"
  PROVE  elem[Owner] = Null /\ \A n \in Nodes : elem[Owner] # n
BY Names DEF QInv, Idle

(* The owner starts to release n. *)
LEMMA Released ==
  ASSUME TypeOK, QInv, NEW n \in Nodes, FreeLoad(Owner, n)
  PROVE  /\ pc[Owner] = "idle" /\ elem'[Owner] = n /\ Idle' /\ UNCHANGED holder
         /\ \A k \in Nodes \ {n} : /\ next'[k] = next[k]
                                   /\ elem'[Owner] # k /\ elem[Owner] # k
<1>1. /\ pc[Owner] = "idle" /\ holder' = holder
      /\ elem' = [elem EXCEPT ![Owner] = n] /\ next' = [next EXCEPT ![n] = head]
      /\ pc' = [pc EXCEPT ![Owner] = "cas"]
  BY DEF FreeLoad
<1>2. elem'[Owner] = n /\ \A k \in Nodes \ {n} : next'[k] = next[k]
  BY <1>1, Names DEF TypeOK
<1>3. Idle'
  BY <1>1, Names DEF QInv, Idle, TypeOK
<1> QED
  BY <1>1, <1>2, <1>3, AtRest

LEMMA ObtainStep ==
  ASSUME IInv, QInv, NEW n \in Nodes, Obtain(n)
  PROVE  QInv'
<1>0. TypeOK /\ QTypes /\ Idle /\ Line /\ (\A k \in Nodes : Fine(k)) /\ (\A v \in Variants : Holding(v))
  BY DEF IInv, QInv
<1>1. /\ pc[Owner] = "idle" /\ (GetPooled(n) \/ GetNew(n))
      /\ IF holder'[n] = Owner
           THEN /\ \E k \in Kinds : kind' = [kind EXCEPT ![n] = k]
                /\ owners' = [owners EXCEPT ![n] = {User}]
           ELSE UNCHANGED <<kind, owners>>
      /\ UNCHANGED <<qhead, qtail, unique, self, line, variant, dropped>>
  BY DEF Obtain, Running, queueVars
<1>2. holder[n] \in {Pool, Unmade}
  BY <1>1, GetPooledStep DEF GetNew
<1>3. PICK t \in Threads : /\ holder' = [holder EXCEPT ![n] = t]
                           /\ next' = [next EXCEPT ![n] = Null]
                           /\ UNCHANGED <<pc, elem>>
  BY <1>1 DEF GetPooled, GetNew, HandOut, freeVars
<1>4. owners[n] = {} /\ holder'[n] = t
  BY <1>0, <1>2, <1>3, Names DEF Fine, TypeOK
<1>5. /\ owners'[n] = IF t = Owner THEN {User} ELSE {}
      /\ \A k \in Nodes \ {n} : /\ owners'[k] = owners[k] /\ kind'[k] = kind[k]
                                /\ holder'[k] = holder[k] /\ next'[k] = next[k]
  BY <1>0, <1>1, <1>3, <1>4 DEF QTypes, TypeOK
<1>6. QTypes'
  BY <1>0, <1>1 DEF QTypes, Kinds
<1>7. Idle'
  BY <1>0, <1>3 DEF Idle
<1>8. InQueue' = InQueue /\ n \notin InQueue
  BY <1>4, <1>5, Names DEF InQueue
<1>9. Line'
  <2>1. \A k \in InQueue : next'[k] = next[k] /\ kind'[k] = kind[k]
    BY <1>5, <1>8 DEF InQueue
  <2> QED
    BY <1>0, <1>1, <1>8, <2>1, LineKept
<1>10. ASSUME NEW k \in Nodes PROVE Fine(k)'
  <2>1. CASE k # n
    BY <1>0, <1>1, <1>3, <1>5, <2>1, FineKept
  <2>2. CASE k = n
    <3>1. elem'[Owner] # n /\ next'[n] = Null
      BY <1>0, <1>1, <1>3, AtRest DEF TypeOK
    <3>2. Queue \notin owners[n] /\ Queue \notin owners'[n]
      BY <1>4, <1>5, Names
    <3>3. ~unique'[n] /\ ~self'[n]
      BY <1>0, <1>1, <3>2 DEF Fine
    <3>4. (owners'[n] # {} => holder'[n] = Owner) /\ (owners'[n] = {} => holder'[n] # Owner)
      BY <1>4, <1>5
    <3>5. \A a, b \in owners'[n] : a = b
      BY <1>5
    <3> QED
      BY <2>2, <3>1, <3>2, <3>3, <3>4, <3>5 DEF Fine
  <2> QED
    BY <2>1, <2>2
<1>11. ASSUME NEW v \in Variants PROVE Holding(v)'
  <2>1. \A k \in Nodes : v \in owners'[k] <=> v \in owners[k]
    BY <1>4, <1>5, Names
  <2> QED
    BY <1>0, <1>1, <2>1 DEF Holding
<1> QED
  BY <1>6, <1>7, <1>9, <1>10, <1>11 DEF QInv

(* A pointer o of the program goes. *)
LEMMA DropStep ==
  ASSUME IInv, QInv, pc[Owner] = "idle", NEW n \in Nodes, NEW o, o \in owners[n], o # Queue,
         Drop(n, o), UNCHANGED <<qhead, qtail, unique, self, line, dropped>>
  PROVE  /\ Idle' /\ Line' /\ \A k \in Nodes : Fine(k)'
         /\ owners' = [owners EXCEPT ![n] = @ \ {o}]
         /\ kind' \in [Nodes -> Kinds]
<1>0. TypeOK /\ QTypes /\ Idle /\ Line /\ (\A k \in Nodes : Fine(k))
  BY DEF IInv, QInv
<1>1. owners' = [owners EXCEPT ![n] = @ \ {o}]
  BY DEF Drop
<1>2. owners'[n] = owners[n] \ {o} /\ \A k \in Nodes \ {n} : owners'[k] = owners[k]
  BY <1>0, <1>1 DEF QTypes
<1>3. InQueue' = InQueue
  BY <1>2 DEF InQueue
<1>4. CASE owners[n] = {o}
  <2>1. FreeLoad(Owner, n) /\ kind' = [kind EXCEPT ![n] = "raw"]
    BY <1>4 DEF Drop
  <2>2. /\ elem'[Owner] = n /\ Idle' /\ UNCHANGED holder
        /\ \A k \in Nodes \ {n} : next'[k] = next[k] /\ elem'[Owner] # k /\ elem[Owner] # k
    BY <1>0, <2>1, Released
  <2>3. n \notin InQueue
    BY <1>4 DEF InQueue
  <2>4. \A k \in Nodes \ {n} : kind'[k] = kind[k]
    BY <1>0, <2>1 DEF QTypes
  <2>5. \A k \in InQueue : next'[k] = next[k] /\ kind'[k] = kind[k]
    BY <2>2, <2>3, <2>4 DEF InQueue
  <2>6. Line'
    BY <1>0, <1>3, <2>5, LineKept
  <2>7. ASSUME NEW k \in Nodes PROVE Fine(k)'
    <3>1. CASE k # n
      BY <1>0, <1>2, <2>2, <2>4, <3>1, FineKept
    <3>2. CASE k = n
      <4>1. owners'[n] = {} /\ Queue \notin owners[n]
        BY <1>2, <1>4
      <4> QED
        BY <1>0, <2>2, <3>2, <4>1 DEF Fine
    <3> QED
      BY <3>1, <3>2
  <2>8. kind' \in [Nodes -> Kinds]
    BY <1>0, <2>1 DEF QTypes, Kinds
  <2> QED
    BY <1>1, <2>2, <2>6, <2>7, <2>8
<1>5. CASE owners[n] # {o}
  <2>1. UNCHANGED <<poolVars, kind>>
    BY <1>5 DEF Drop
  <2>2. UNCHANGED <<head, cache, next, holder, pc, elem, stale, kind>>
    BY <2>1 DEF poolVars, vars
  <2>3. Line'
    BY <1>0, <1>3, <2>2, LineKept
  <2>4. ASSUME NEW k \in Nodes PROVE Fine(k)'
    <3>1. CASE k # n
      BY <1>0, <1>2, <2>2, <3>1, FineKept
    <3>2. CASE k = n
      <4>1. /\ owners'[n] # {} /\ owners[n] # {} /\ owners'[n] \subseteq owners[n]
            /\ (Queue \in owners'[n] <=> Queue \in owners[n])
        BY <1>2, <1>5
      <4> QED
        BY <1>0, <2>2, <3>2, <4>1 DEF Fine
    <3> QED
      BY <3>1, <3>2
  <2>5. Idle' /\ kind' \in [Nodes -> Kinds]
    BY <1>0, <2>2 DEF Idle, QTypes
  <2> QED
    BY <1>1, <2>3, <2>4, <2>5
<1> QED
  BY <1>4, <1>5

LEMMA LetGoStep ==
  ASSUME IInv, QInv, NEW n \in Nodes, LetGo(n)
  PROVE  QInv'
<1>0. QTypes /\ \A v \in Variants : Holding(v)
  BY DEF QInv
<1>1. /\ pc[Owner] = "idle" /\ User \in owners[n] /\ Drop(n, User)
      /\ UNCHANGED <<qhead, qtail, unique, self, line, variant, dropped>>
  BY DEF LetGo, Running, queueVars
<1>2. /\ Idle' /\ Line' /\ (\A k \in Nodes : Fine(k)')
      /\ owners' = [owners EXCEPT ![n] = @ \ {User}] /\ kind' \in [Nodes -> Kinds]
  BY <1>1, DropStep, Names
<1>3. QTypes'
  BY <1>0, <1>1, <1>2 DEF QTypes
<1>4. ASSUME NEW v \in Variants PROVE Holding(v)'
  <2>1. \A k \in Nodes : v \in owners'[k] <=> v \in owners[k]
    BY <1>0, <1>2, Names DEF QTypes
  <2> QED
    BY <1>0, <1>1, <2>1 DEF Holding
<1> QED
  BY <1>2, <1>3, <1>4 DEF QInv

LEMMA ClearStep ==
  ASSUME IInv, QInv, NEW v \in Variants, Clear(v)
  PROVE  QInv'
<1>0. QTypes /\ \A u \in Variants : Holding(u)
  BY DEF QInv
<1>1. /\ pc[Owner] = "idle" /\ variant[v].node # Null /\ Drop(variant[v].node, v)
      /\ variant' = [variant EXCEPT ![v] = NoOwner]
      /\ UNCHANGED <<qhead, qtail, unique, self, line, dropped>>
  BY DEF Clear, Running, queueVars
<1>2. variant[v].node \in Nodes
  BY <1>0, <1>1 DEF QTypes, Links
<1> PICK n \in Nodes : n = variant[v].node
  BY <1>2
<1>3. v \in owners[n]
  BY <1>0 DEF Holding
<1>4. /\ Idle' /\ Line' /\ (\A k \in Nodes : Fine(k)')
      /\ owners' = [owners EXCEPT ![n] = @ \ {v}] /\ kind' \in [Nodes -> Kinds]
  BY <1>1, <1>3, DropStep, Names
<1>5. QTypes'
  <2>1. NoOwner \in [kind : Kinds, node : Links]
    BY DEF NoOwner, Kinds, Links
  <2> QED
    BY <1>0, <1>1, <1>4, <2>1 DEF QTypes
<1>6. ASSUME NEW u \in Variants PROVE Holding(u)'
  <2>1. CASE u = v
    <3>1. variant'[v] = NoOwner
      BY <1>0, <1>1 DEF QTypes
    <3>2. \A k \in Nodes : v \notin owners'[k]
      BY <1>0, <1>4 DEF QTypes, Holding
    <3> QED
      BY <2>1, <3>1, <3>2, Names DEF Holding
  <2>2. CASE u # v
    <3>1. variant'[u] = variant[u] /\ \A k \in Nodes : u \in owners'[k] <=> u \in owners[k]
      BY <1>0, <1>1, <1>4, <2>2 DEF QTypes
    <3> QED
      BY <1>0, <3>1 DEF Holding
  <2> QED
    BY <2>1, <2>2
<1> QED
  BY <1>4, <1>5, <1>6 DEF QInv

LEMMA PushStep ==
  ASSUME IInv, QInv, NEW n \in Nodes, Push(n)
  PROVE  QInv'
<1>0. TypeOK /\ QTypes /\ Idle /\ Line /\ (\A k \in Nodes : Fine(k)) /\ (\A v \in Variants : Holding(v))
  BY DEF IInv, QInv
<1>1. /\ User \in owners[n] /\ Queue \notin owners[n]
      /\ unique' = [unique EXCEPT ![n] = @ \/ kind[n] = "unique"]
      /\ self' = [self EXCEPT ![n] = kind[n] = "shared"]
      /\ LinkLast(n)
      /\ UNCHANGED <<kind, variant, dropped, holder, pc, elem>>
  BY DEF Push, LinkLast, freeVars
<1>2. \/ owners' = [owners EXCEPT ![n] = {Queue} \cup (@ \ {User})]
      \/ kind[n] = "shared" /\ owners' = [owners EXCEPT ![n] = @ \cup {Queue}]
  BY DEF Push
<1>3. /\ Queue \in owners'[n] /\ \A k \in Nodes \ {n} : owners'[k] = owners[k]
      /\ \A x : x # User /\ x # Queue => (x \in owners'[n] <=> x \in owners[n])
  BY <1>0, <1>2 DEF QTypes
<1>4. n \notin InQueue /\ InQueue' = InQueue \cup {n}
  BY <1>1, <1>3 DEF InQueue
<1>5. /\ Line' /\ qhead' \in Links /\ qtail' \in Links /\ line' \in Seq(Entries)
      /\ \A k \in Nodes \ InQueue' : next'[k] = next[k]
  BY <1>0, <1>1, <1>4, LinePushed
<1>6. QTypes'
  <2>1. owners' \in [Nodes -> SUBSET ({User, Queue} \cup Variants)]
    BY <1>0, <1>2 DEF QTypes
  <2>2. unique' \in [Nodes -> BOOLEAN] /\ self' \in [Nodes -> BOOLEAN]
    BY <1>0, <1>1 DEF QTypes
  <2> QED
    BY <1>0, <1>1, <1>5, <2>1, <2>2 DEF QTypes
<1>7. Idle'
  BY <1>0, <1>1 DEF Idle
<1>8. ASSUME NEW k \in Nodes PROVE Fine(k)'
  <2>1. CASE k # n
    <3>1. Queue \notin owners[k] => k \notin InQueue'
      BY <1>3, <2>1 DEF InQueue
    <3>2. unique'[k] = unique[k] /\ self'[k] = self[k]
      BY <1>0, <1>1, <2>1 DEF QTypes
    <3> QED
      BY <1>0, <1>1, <1>3, <1>5, <2>1, <3>1, <3>2, FineKept
  <2>2. CASE k = n
    <3>1. ~unique[n]
      BY <1>0, <1>1 DEF Fine
    <3>2. (self'[n] <=> kind[n] = "shared") /\ (unique'[n] <=> kind[n] = "unique")
      BY <1>0, <1>1, <3>1 DEF QTypes
    <3>3. kind[n] # "shared" => owners'[n] = {Queue}
      <4>1. kind[n] # "shared" => owners[n] = {User}
        BY <1>0, <1>1 DEF Fine
      <4> QED
        BY <1>0, <1>2, <4>1 DEF QTypes
    <3>4. holder[n] = Owner /\ elem[Owner] # n
      BY <1>0, <1>1 DEF Fine
    <3> QED
      BY <1>1, <1>3, <2>2, <3>2, <3>3, <3>4 DEF Fine
  <2> QED
    BY <2>1, <2>2
<1>9. ASSUME NEW v \in Variants PROVE Holding(v)'
  <2>1. \A k \in Nodes : v \in owners'[k] <=> v \in owners[k]
    BY <1>3, Names
  <2> QED
    BY <1>0, <1>1, <2>1 DEF Holding
<1> QED
  BY <1>5, <1>6, <1>7, <1>8, <1>9 DEF QInv

(* The first node of the queue passes to a pointer o of the program. *)
LEMMA PopStep ==
  ASSUME IInv, QInv, Unlink, UNCHANGED <<pc, elem, dropped>>,
         NEW o, o \in {User} \cup Variants, PassOn(qhead, o),
         kind' \in [Nodes -> Kinds], unique' \in [Nodes -> BOOLEAN], self' \in [Nodes -> BOOLEAN],
         \A k \in Nodes \ {qhead} :
             kind'[k] = kind[k] /\ unique'[k] = unique[k] /\ self'[k] = self[k],
         kind'[qhead] # "shared" => kind[qhead] # "shared",
         ~unique'[qhead], ~self'[qhead]
  PROVE  /\ Idle' /\ Line' /\ (\A k \in Nodes : Fine(k)')
         /\ qhead \in Nodes /\ Queue \in owners[qhead]
         /\ qhead' \in Links /\ qtail' \in Links /\ line' \in Seq(Entries)
         /\ owners' = [owners EXCEPT ![qhead] = (@ \ {Queue}) \cup {o}]
<1>0. TypeOK /\ QTypes /\ Idle /\ Line /\ (\A k \in Nodes : Fine(k))
  BY DEF IInv, QInv
<1>1. /\ qhead # Null /\ qhead' = next[qhead]
      /\ qtail' = IF next[qhead] = Null THEN Null ELSE qtail
      /\ next' = [next EXCEPT ![qhead] = Null] /\ line' = Tail(line)
      /\ holder' = holder
  BY DEF Unlink
<1>2. qhead \in Nodes /\ qhead \in InQueue
  BY <1>0, <1>1, QueueHead
<1> PICK n \in Nodes : n = qhead
  BY <1>2
<1>3. Queue \in owners[n] /\ o # Queue
  BY <1>2, Names DEF InQueue
<1>4. owners' = [owners EXCEPT ![n] = (@ \ {Queue}) \cup {o}]
  BY DEF PassOn
<1>5. /\ owners'[n] = (owners[n] \ {Queue}) \cup {o}
      /\ \A k \in Nodes \ {n} : owners'[k] = owners[k]
  BY <1>0, <1>4 DEF QTypes
<1>6. InQueue' = InQueue \ {n}
  BY <1>3, <1>5 DEF InQueue
<1>7. next'[n] = Null /\ \A k \in Nodes \ {n} : next'[k] = next[k]
  BY <1>0, <1>1 DEF TypeOK
<1>8. Line' /\ qhead' \in Links /\ qtail' \in Links /\ line' \in Seq(Entries)
  <2>1. \A k \in InQueue \ {qhead} : next'[k] = next[k] /\ kind'[k] = kind[k]
    BY <1>7 DEF InQueue
  <2>2. InQueue' = InQueue \ {qhead}
    BY <1>6
  <2> QED
    BY <1>0, <1>1, <2>1, <2>2, LinePopped
<1>9. ASSUME NEW k \in Nodes PROVE Fine(k)'
  <2>1. CASE k # n
    BY <1>0, <1>1, <1>5, <1>7, <2>1, FineKept
  <2>2. CASE k = n
    <3>1. holder'[n] = Owner /\ elem'[Owner] # n
      BY <1>0, <1>1, <1>3 DEF Fine
    <3>2. kind'[n] # "shared" => owners[n] = {Queue}
      BY <1>0, <1>3 DEF Fine
    <3>3. kind'[n] # "shared" => owners'[n] = {o}
      BY <1>3, <1>5, <3>2
    <3>4. Queue \notin owners'[n] /\ owners'[n] # {}
      BY <1>3, <1>5
    <3> QED
      BY <1>7, <2>2, <3>1, <3>3, <3>4 DEF Fine
  <2> QED
    BY <2>1, <2>2
<1>10. Idle'
  BY <1>0 DEF Idle
<1> QED
  BY <1>3, <1>4, <1>8, <1>9, <1>10

LEMMA PopPlainStep ==
  ASSUME IInv, QInv, PopOwned \/ PopShared
  PROVE  QInv'
<1>0. TypeOK /\ QTypes /\ Line /\ (\A k \in Nodes : Fine(k)) /\ (\A v \in Variants : Holding(v))
  BY DEF IInv, QInv
<1>1. /\ Unlink /\ PassOn(qhead, User) /\ UNCHANGED <<pc, elem, dropped, variant>>
  BY DEF PopOwned, PopShared, freeVars
<1>2. qhead \in Nodes /\ Queue \in owners[qhead]
  BY <1>0, <1>1, QueueHead DEF Unlink, InQueue
<1> PICK n \in Nodes : n = qhead
  BY <1>2
<1>3. (self[n] <=> kind[n] = "shared") /\ (unique[n] <=> kind[n] = "unique")
  BY <1>0, <1>2 DEF Fine
<1>4. /\ kind' \in [Nodes -> Kinds] /\ unique' \in [Nodes -> BOOLEAN] /\ self' \in [Nodes -> BOOLEAN]
      /\ \A k \in Nodes \ {n} : kind'[k] = kind[k] /\ unique'[k] = unique[k] /\ self'[k] = self[k]
      /\ kind'[n] # "shared" => kind[n] # "shared"
      /\ ~unique'[n] /\ ~self'[n]
  <2>1. CASE PopOwned
    <3>1. PICK k \in {"raw", "unique"} : kind' = [kind EXCEPT ![n] = k]
      BY <2>1 DEF PopOwned
    <3>2. ~self[n] /\ unique' = [unique EXCEPT ![n] = FALSE] /\ self' = self
      BY <2>1 DEF PopOwned
    <3> QED
      BY <1>0, <1>3, <3>1, <3>2 DEF QTypes, Kinds
  <2>2. CASE PopShared
    <3>1. self[n] /\ self' = [self EXCEPT ![n] = FALSE] /\ unique' = unique /\ kind' = kind
      BY <2>2 DEF PopShared
    <3> QED
      BY <1>0, <1>3, <3>1 DEF QTypes
  <2> QED
    BY <2>1, <2>2
<1>5. /\ Idle' /\ Line' /\ (\A k \in Nodes : Fine(k)')
      /\ qhead' \in Links /\ qtail' \in Links /\ line' \in Seq(Entries)
      /\ owners' = [owners EXCEPT ![n] = (@ \ {Queue}) \cup {User}]
  BY <1>1, <1>4, PopStep
<1>6. QTypes'
  BY <1>0, <1>1, <1>4, <1>5 DEF QTypes
<1>7. ASSUME NEW v \in Variants PROVE Holding(v)'
  <2>1. \A k \in Nodes : v \in owners'[k] <=> v \in owners[k]
    BY <1>0, <1>5, Names DEF QTypes
  <2> QED
    BY <1>0, <1>1, <2>1 DEF Holding
<1> QED
  BY <1>5, <1>6, <1>7 DEF QInv

LEMMA PopVariantStep ==
  ASSUME IInv, QInv, NEW v \in Variants, PopVariant(v)
  PROVE  QInv'
<1>0. TypeOK /\ QTypes /\ Line /\ (\A k \in Nodes : Fine(k)) /\ (\A u \in Variants : Holding(u))
  BY DEF IInv, QInv
<1>1. /\ Unlink /\ PassOn(qhead, v) /\ UNCHANGED <<pc, elem, dropped>>
      /\ variant[v] = NoOwner
      /\ kind' = [kind EXCEPT ![qhead] = variant'[v].kind]
      /\ self' = [self EXCEPT ![qhead] = FALSE] /\ unique' = [unique EXCEPT ![qhead] = FALSE]
  BY DEF PopVariant, freeVars
<1>2. qhead \in Nodes /\ Queue \in owners[qhead]
  BY <1>0, <1>1, QueueHead DEF Unlink, InQueue
<1> PICK n \in Nodes : n = qhead
  BY <1>2
<1> DEFINE x == IF self[n] THEN "shared" ELSE IF unique[n] THEN "unique" ELSE "raw"
<1>3. variant' = [variant EXCEPT ![v] = [kind |-> x, node |-> n]]
  BY DEF PopVariant
<1>4. self[n] <=> kind[n] = "shared"
  BY <1>0, <1>2 DEF Fine
<1>5. x \in Kinds /\ (x # "shared" => ~self[n])
  BY DEF Kinds
<1> HIDE DEF x
<1>6. variant'[v] = [kind |-> x, node |-> n] /\ \A u \in Variants \ {v} : variant'[u] = variant[u]
  BY <1>0, <1>3 DEF QTypes
<1>7. kind' = [kind EXCEPT ![n] = x]
  BY <1>1, <1>6
<1>8. /\ kind' \in [Nodes -> Kinds] /\ unique' \in [Nodes -> BOOLEAN] /\ self' \in [Nodes -> BOOLEAN]
      /\ \A k \in Nodes \ {n} : kind'[k] = kind[k] /\ unique'[k] = unique[k] /\ self'[k] = self[k]
      /\ kind'[n] # "shared" => kind[n] # "shared"
      /\ ~unique'[n] /\ ~self'[n]
  BY <1>0, <1>1, <1>4, <1>5, <1>7 DEF QTypes
<1>9. /\ Idle' /\ Line' /\ (\A k \in Nodes : Fine(k)')
      /\ qhead' \in Links /\ qtail' \in Links /\ line' \in Seq(Entries)
      /\ owners' = [owners EXCEPT ![n] = (@ \ {Queue}) \cup {v}]
  BY <1>1, <1>8, PopStep
<1>10. QTypes'
  <2>1. variant' \in [Variants -> [kind : Kinds, node : Links]]
    BY <1>0, <1>3, <1>5 DEF QTypes, Links
  <2> QED
    BY <1>0, <1>1, <1>8, <1>9, <2>1 DEF QTypes
<1>11. ASSUME NEW u \in Variants PROVE Holding(u)'
  <2>1. CASE u = v
    <3>1. \A k \in Nodes : v \notin owners[k]
      BY <1>0, <1>1, Names DEF Holding
    <3>2. \A k \in Nodes : v \in owners'[k] <=> k = n
      BY <1>0, <1>9, <3>1 DEF QTypes
    <3> QED
      BY <1>6, <2>1, <3>2, Names DEF Holding
  <2>2. CASE u # v
    <3>1. \A k \in Nodes : u \in owners'[k] <=> u \in owners[k]
      BY <1>0, <1>9, <2>2, Names DEF QTypes
    <3> QED
      BY <1>0, <1>6, <2>2, <3>1 DEF Holding
  <2> QED
    BY <2>1, <2>2
<1> QED
  BY <1>9, <1>10, <1>11 DEF QInv

LEMMA DestroyNodeStep ==
  ASSUME IInv, QInv, DestroyNode
  PROVE  QInv'
<1>0. TypeOK /\ QTypes /\ Idle /\ Line /\ (\A k \in Nodes : Fine(k)) /\ (\A v \in Variants : Holding(v))
  BY DEF IInv, QInv
<1>1. /\ qhead # Null /\ qhead' = next[qhead] /\ pc[Owner] = "idle"
      /\ qtail' = IF next[qhead] = Null THEN Null ELSE qtail
      /\ line' = Tail(line)
      /\ owners' = [owners EXCEPT ![qhead] = @ \ {Queue}]
      /\ self' = [self EXCEPT ![qhead] = FALSE] /\ unique' = [unique EXCEPT ![qhead] = FALSE]
      /\ UNCHANGED <<kind, variant, dropped>>
  BY DEF DestroyNode
<1>2. qhead \in Nodes /\ Queue \in owners[qhead]
  BY <1>0, <1>1, QueueHead DEF InQueue
<1> PICK n \in Nodes : n = qhead
  BY <1>2
<1>3. /\ owners'[n] = owners[n] \ {Queue} /\ \A k \in Nodes \ {n} : owners'[k] = owners[k]
      /\ ~self'[n] /\ ~unique'[n]
      /\ \A k \in Nodes \ {n} : self'[k] = self[k] /\ unique'[k] = unique[k]
  BY <1>0, <1>1 DEF QTypes
<1>4. /\ Idle' /\ UNCHANGED holder
      /\ \A k \in Nodes \ {n} : next'[k] = next[k] /\ (elem'[Owner] = k <=> elem[Owner] = k)
      /\ IF owners[n] = {Queue} THEN elem'[Owner] = n ELSE next'[n] = Null /\ elem' = elem
  <2>1. CASE owners[n] = {Queue}
    <3>1. FreeLoad(Owner, n)
      BY <2>1 DEF DestroyNode
    <3> QED
      BY <1>0, <2>1, <3>1, Released
  <2>2. CASE owners[n] # {Queue}
    <3>1. next' = [next EXCEPT ![n] = Null] /\ UNCHANGED <<holder, pc, elem>>
      BY <2>2 DEF DestroyNode, freeVars
    <3> QED
      BY <1>0, <2>2, <3>1 DEF Idle, TypeOK
  <2> QED
    BY <2>1, <2>2
<1>5. InQueue' = InQueue \ {n}
  BY <1>3 DEF InQueue
<1>6. Line' /\ qhead' \in Links /\ qtail' \in Links /\ line' \in Seq(Entries)
  <2>1. \A k \in InQueue \ {qhead} : next'[k] = next[k] /\ kind'[k] = kind[k]
    BY <1>1, <1>4 DEF InQueue
  <2>2. InQueue' = InQueue \ {qhead}
    BY <1>5
  <2> QED
    BY <1>0, <1>1, <2>1, <2>2, LinePopped
<1>7. QTypes'
  BY <1>0, <1>1, <1>6 DEF QTypes
<1>8. ASSUME NEW k \in Nodes PROVE Fine(k)'
  <2>1. CASE k # n
    BY <1>0, <1>1, <1>3, <1>4, <2>1, FineKept
  <2>2. CASE k = n
    <3>1. holder'[n] = Owner /\ elem[Owner] # n /\ Queue \notin owners'[n]
      BY <1>0, <1>2, <1>3, <1>4 DEF Fine
    <3>2. kind'[n] # "shared" => \A a, b \in owners'[n] : a = b
      BY <1>0, <1>1, <1>3 DEF Fine
    <3>3. CASE owners[n] = {Queue}
      <4>1. owners'[n] = {} /\ elem'[Owner] = n
        BY <1>3, <1>4, <3>3
      <4> QED
        BY <1>3, <2>2, <3>1, <4>1 DEF Fine
    <3>4. CASE owners[n] # {Queue}
      <4>1. owners'[n] # {} /\ next'[n] = Null /\ elem'[Owner] # n
        BY <1>2, <1>3, <1>4, <3>1, <3>4
      <4> QED
        BY <1>3, <2>2, <3>1, <3>2, <4>1 DEF Fine
    <3> QED
      BY <3>3, <3>4
  <2> QED
    BY <2>1, <2>2
<1>9. ASSUME NEW v \in Variants PROVE Holding(v)'
  <2>1. \A k \in Nodes : v \in owners'[k] <=> v \in owners[k]
    BY <1>3, Names
  <2> QED
    BY <1>0, <1>1, <2>1 DEF Holding
<1> QED
  BY <1>4, <1>6, <1>7, <1>8, <1>9 DEF QInv

LEMMA EndingStep ==
  ASSUME QInv, EndQueue \/ QueueEnded
  PROVE  QInv'
<1>1. /\ UNCHANGED <<pc, elem, next, holder>>
      /\ UNCHANGED <<qhead, qtail, unique, self, line, kind, owners, variant, dropped>>
  BY DEF EndQueue, QueueEnded, poolVars, vars, ownerVars
<1>2. InQueue' = InQueue
  BY <1>1 DEF InQueue
<1> QED
  BY <1>1, <1>2 DEF QInv, QTypes, Idle, Line, Fine, Holding

(* A pointer a of the program passes the node to a pointer b. *)
LEMMA HandedOn ==
  ASSUME IInv, QInv, NEW n \in Nodes, NEW a, NEW b, a \in owners[n], a # Queue, b # Queue,
         \/ owners' = [owners EXCEPT ![n] = (@ \ {a}) \cup {b}]
         \/ kind[n] = "shared" /\ owners' = [owners EXCEPT ![n] = @ \cup {b}],
         UNCHANGED <<pc, elem, next, holder, qhead, qtail, unique, self, line, kind, dropped>>
  PROVE  Idle' /\ Line' /\ \A k \in Nodes : Fine(k)'
<1>0. TypeOK /\ QTypes /\ Idle /\ Line /\ (\A k \in Nodes : Fine(k))
  BY DEF IInv, QInv
<1>1. /\ \/ owners'[n] = (owners[n] \ {a}) \cup {b}
         \/ kind[n] = "shared" /\ owners'[n] = owners[n] \cup {b}
      /\ \A k \in Nodes \ {n} : owners'[k] = owners[k]
  BY <1>0 DEF QTypes
<1>2. InQueue' = InQueue
  BY <1>1 DEF InQueue
<1>3. Line'
  BY <1>0, <1>2, LineKept
<1>4. ASSUME NEW k \in Nodes PROVE Fine(k)'
  <2>1. CASE k # n
    BY <1>0, <1>1, <2>1, FineKept
  <2>2. CASE k = n
    <3>1. kind[n] # "shared" => owners'[n] = {b}
      BY <1>0, <1>1 DEF Fine
    <3>2. owners'[n] # {} /\ owners[n] # {} /\ (Queue \in owners'[n] <=> Queue \in owners[n])
      BY <1>1
    <3> QED
      BY <1>0, <2>2, <3>1, <3>2 DEF Fine
  <2> QED
    BY <2>1, <2>2
<1>5. Idle'
  BY <1>0 DEF Idle
<1> QED
  BY <1>3, <1>4, <1>5

LEMMA WrapStep ==
  ASSUME IInv, QInv, NEW v \in Variants, NEW n \in Nodes, Wrap(v, n)
  PROVE  QInv'
<1>0. QTypes /\ \A u \in Variants : Holding(u)
  BY DEF QInv
<1>1. /\ User \in owners[n] /\ variant[v] = NoOwner
      /\ variant' = [variant EXCEPT ![v] = [kind |-> kind[n], node |-> n]]
      /\ \/ owners' = [owners EXCEPT ![n] = (@ \ {User}) \cup {v}]
         \/ kind[n] = "shared" /\ owners' = [owners EXCEPT ![n] = @ \cup {v}]
      /\ UNCHANGED <<pc, elem, next, holder, qhead, qtail, unique, self, line, kind, dropped>>
  BY DEF Wrap, poolVars, vars, queueVars
<1>2. Idle' /\ Line' /\ \A k \in Nodes : Fine(k)'
  BY <1>1, HandedOn, Names
<1>3. QTypes'
  <2>1. variant' \in [Variants -> [kind : Kinds, node : Links]]
    BY <1>0, <1>1 DEF QTypes, Links
  <2> QED
    BY <1>0, <1>1, <2>1 DEF QTypes
<1>4. ASSUME NEW u \in Variants PROVE Holding(u)'
  <2>1. CASE u = v
    <3>1. \A k \in Nodes : v \notin owners[k]
      BY <1>0, <1>1, Names DEF Holding
    <3>2. \A k \in Nodes : v \in owners'[k] <=> k = n
      <4>1. /\ v \in owners'[n]
            /\ \A k \in Nodes \ {n} : owners'[k] = owners[k]
        BY <1>0, <1>1 DEF QTypes
      <4> QED
        BY <3>1, <4>1
    <3>3. variant'[v] = [kind |-> kind[n], node |-> n]
      BY <1>0, <1>1 DEF QTypes
    <3> QED
      BY <2>1, <3>2, <3>3, Names DEF Holding
  <2>2. CASE u # v
    <3>1. variant'[u] = variant[u]
      BY <1>0, <1>1, <2>2 DEF QTypes
    <3>2. ASSUME NEW k \in Nodes PROVE u \in owners'[k] <=> u \in owners[k]
      <4>1. u # v /\ u # User
        BY <2>2, Names
      <4>2. \/ owners'[k] = owners[k]
            \/ owners'[k] = (owners[k] \ {User}) \cup {v}
            \/ owners'[k] = owners[k] \cup {v}
        BY <1>0, <1>1 DEF QTypes
      <4> QED
        BY <4>1, <4>2
    <3> QED
      BY <1>0, <3>1, <3>2 DEF Holding
  <2> QED
    BY <2>1, <2>2
<1> QED
  BY <1>2, <1>3, <1>4 DEF QInv

LEMMA UnwrapStep ==
  ASSUME IInv, QInv, NEW v \in Variants, Unwrap(v)
  PROVE  QInv'
<1>0. QTypes /\ \A u \in Variants : Holding(u)
  BY DEF QInv
<1>1. variant[v].node \in Nodes
  BY <1>0 DEF Unwrap, QTypes, Links
<1> PICK n \in Nodes : n = variant[v].node
  BY <1>1
<1>2. /\ variant' = [variant EXCEPT ![v] = NoOwner]
      /\ owners' = [owners EXCEPT ![n] = (@ \ {v}) \cup {User}]
      /\ UNCHANGED <<pc, elem, next, holder, qhead, qtail, unique, self, line, kind, dropped>>
  BY DEF Unwrap, poolVars, vars, queueVars
<1>3. v \in owners[n]
  BY <1>0 DEF Holding
<1>4. Idle' /\ Line' /\ \A k \in Nodes : Fine(k)'
  BY <1>2, <1>3, HandedOn, Names
<1>5. QTypes'
  <2>1. NoOwner \in [kind : Kinds, node : Links]
    BY DEF NoOwner, Kinds, Links
  <2> QED
    BY <1>0, <1>2, <2>1 DEF QTypes
<1>6. ASSUME NEW u \in Variants PROVE Holding(u)'
  <2>1. CASE u = v
    <3>1. variant'[v] = NoOwner
      BY <1>0, <1>2 DEF QTypes
    <3>2. \A k \in Nodes : v \notin owners'[k]
      BY <1>0, <1>2, Names DEF QTypes, Holding
    <3> QED
      BY <2>1, <3>1, <3>2, Names DEF Holding
  <2>2. CASE u # v
    <3>1. variant'[u] = variant[u] /\ \A k \in Nodes : u \in owners'[k] <=> u \in owners[k]
      BY <1>0, <1>2, <2>2, Names DEF QTypes
    <3> QED
      BY <1>0, <3>1 DEF Holding
  <2> QED
    BY <2>1, <2>2
<1> QED
  BY <1>4, <1>5, <1>6 DEF QInv

(* Who owns what after v = std::move(w). *)
LEMMA Moved ==
  ASSUME QInv, NEW v \in Variants, NEW w \in Variants, Move(v, w)
  PROVE  /\ v # w
         /\ \A n \in Nodes : owners'[n] = IF n = variant[w].node THEN (owners[n] \ {w}) \cup {v}
                                          ELSE owners[n] \ {v}
         /\ \/ /\ variant[v].node \in Nodes /\ owners'[variant[v].node] = {}
               /\ FreeLoad(Owner, variant[v].node) /\ dropped' = dropped
            \/ /\ UNCHANGED poolVars
               /\ dropped \subseteq dropped' /\ dropped' \subseteq Nodes
               /\ variant[v].node \in Nodes /\ owners'[variant[v].node] = {}
                      => variant[v].node \in dropped'
<1> DEFINE old == variant[v]
           moved == [n \in Nodes |-> IF n = variant[w].node THEN (owners[n] \ {w}) \cup {v}
                                     ELSE owners[n] \ {v}]
<1>1. /\ v # w /\ owners' = moved
      /\ IF old.kind # "raw" /\ moved[old.node] = {}
           THEN FreeLoad(Owner, old.node) ELSE UNCHANGED poolVars
      /\ dropped' = IF old.kind = "raw" THEN dropped \cup ({old.node} \ {Null}) ELSE dropped
  BY DEF Move
<1>2. old.node \in Nodes \/ old.node = Null
  BY DEF QInv, QTypes, Links
<1>3. old.kind # "raw" => old.node \in Nodes
  BY <1>2, Names DEF QInv, Holding
<1>4. dropped \subseteq Nodes
  BY DEF QInv, QTypes
<1>5. CASE old.kind # "raw" /\ moved[old.node] = {}
  BY <1>1, <1>3, <1>5
<1>6. CASE ~ (old.kind # "raw" /\ moved[old.node] = {})
  <2>1. UNCHANGED poolVars
    BY <1>1, <1>6
  <2>2. dropped \subseteq dropped' /\ dropped' \subseteq Nodes
    BY <1>1, <1>2, <1>4
  <2>3. old.node \in Nodes /\ owners'[old.node] = {} => old.node \in dropped'
    BY <1>1, <1>6, NodesAssumption
  <2> QED
    BY <1>1, <2>1, <2>2, <2>3
<1> QED
  BY <1>1, <1>5, <1>6

LEMMA MoveStep ==
  ASSUME IInv, QInv, NEW v \in Variants, NEW w \in Variants, Move(v, w)
  PROVE  QInv'
<1>0. TypeOK /\ QTypes /\ Idle /\ Line /\ (\A k \in Nodes : Fine(k)) /\ (\A u \in Variants : Holding(u))
  BY DEF IInv, QInv
<1> DEFINE old == variant[v].node
           new == variant[w].node
<1>1. /\ v # w
      /\ \A n \in Nodes : owners'[n] = IF n = new THEN (owners[n] \ {w}) \cup {v}
                                       ELSE owners[n] \ {v}
      /\ \/ old \in Nodes /\ owners'[old] = {} /\ FreeLoad(Owner, old) /\ dropped' = dropped
         \/ /\ UNCHANGED poolVars /\ dropped \subseteq dropped' /\ dropped' \subseteq Nodes
            /\ old \in Nodes /\ owners'[old] = {} => old \in dropped'
  BY Moved
<1>2. /\ variant' = [variant EXCEPT ![v] = variant[w], ![w] = NoOwner]
      /\ UNCHANGED <<qhead, qtail, unique, self, line, kind>>
      /\ owners' = [n \in Nodes |-> IF n = new THEN (owners[n] \ {w}) \cup {v}
                                    ELSE owners[n] \ {v}]
  BY DEF Move, queueVars
<1>3. \A u \in Variants, k \in Nodes : u \in owners[k] <=> variant[u].node = k
  BY <1>0 DEF Holding
<1> HIDE DEF old, new
<1>4. (\A k \in Nodes : v \in owners[k] <=> old = k) /\ (\A k \in Nodes : w \in owners[k] <=> new = k)
  BY <1>3 DEF old, new
<1>5. \A k \in Nodes : Queue \in owners'[k] <=> Queue \in owners[k]
  BY <1>1, Names
<1>6. InQueue' = InQueue
  BY <1>5 DEF InQueue
<1>7. /\ Idle' /\ UNCHANGED holder
      /\ \A k \in Nodes : owners'[k] # {} \/ k # old => next'[k] = next[k]
                                                       /\ (elem'[Owner] = k <=> elem[Owner] = k)
      /\ old \in Nodes /\ owners'[old] = {} => elem'[Owner] = old \/ old \in dropped'
      /\ dropped \subseteq dropped' /\ dropped' \subseteq Nodes
  <2>1. CASE old \in Nodes /\ owners'[old] = {} /\ FreeLoad(Owner, old) /\ dropped' = dropped
    <3>1. elem'[Owner] = old /\ Idle' /\ UNCHANGED holder
          /\ \A k \in Nodes \ {old} : next'[k] = next[k] /\ elem'[Owner] # k /\ elem[Owner] # k
      BY <1>0, <2>1, Released
    <3> QED
      BY <1>0, <2>1, <3>1 DEF QTypes
  <2>2. CASE /\ UNCHANGED poolVars /\ dropped \subseteq dropped' /\ dropped' \subseteq Nodes
             /\ old \in Nodes /\ owners'[old] = {} => old \in dropped'
    <3>1. UNCHANGED <<head, cache, next, holder, pc, elem, stale>>
      BY <2>2 DEF poolVars, vars
    <3> QED
      BY <1>0, <2>2, <3>1 DEF Idle
  <2> QED
    BY <1>1, <2>1, <2>2
<1>8. Line'
  <2>1. \A k \in InQueue : next'[k] = next[k] /\ kind'[k] = kind[k]
    BY <1>2, <1>5, <1>7 DEF InQueue
  <2> QED
    BY <1>0, <1>2, <1>6, <2>1, LineKept
<1>9. QTypes'
  <2>1. variant' \in [Variants -> [kind : Kinds, node : Links]]
    <3>1. NoOwner \in [kind : Kinds, node : Links]
      BY DEF NoOwner, Kinds, Links
    <3> QED
      BY <1>0, <1>2, <3>1 DEF QTypes
  <2>2. owners' \in [Nodes -> SUBSET ({User, Queue} \cup Variants)]
    BY <1>0, <1>2 DEF QTypes
  <2> QED
    BY <1>0, <1>2, <1>7, <2>1, <2>2 DEF QTypes
<1>10. ASSUME NEW k \in Nodes PROVE Fine(k)'
  <2>1. CASE k = new
    <3>1. w \in owners[k] /\ owners'[k] = (owners[k] \ {w}) \cup {v}
      BY <1>1, <1>4, <2>1
    <3>2. kind[k] # "shared" => owners'[k] = {v}
      BY <1>0, <3>1 DEF Fine
    <3>3. owners'[k] # {} /\ owners[k] # {}
      BY <3>1
    <3> QED
      BY <1>0, <1>2, <1>5, <1>7, <3>2, <3>3 DEF Fine
  <2>2. CASE k # new /\ k # old
    <3>1. owners'[k] = owners[k]
      BY <1>1, <1>4, <2>2
    <3> QED
      BY <1>0, <1>2, <1>7, <2>2, <3>1, FineKept
  <2>3. CASE k # new /\ k = old
    <3>1. v \in owners[k] /\ owners'[k] = owners[k] \ {v}
      BY <1>1, <1>4, <2>3
    <3>2. CASE owners'[k] = {}
      <4>1. Queue \notin owners[k]
        BY <1>5, <3>2
      <4>2. elem'[Owner] = k \/ k \in dropped'
        BY <1>7, <2>3, <3>2
      <4> QED
        BY <1>0, <1>2, <3>2, <4>1, <4>2 DEF Fine
    <3>3. CASE owners'[k] # {}
      <4>1. owners'[k] \subseteq owners[k] /\ owners[k] # {}
        BY <3>1
      <4> QED
        BY <1>0, <1>2, <1>5, <1>7, <3>3, <4>1 DEF Fine
    <3> QED
      BY <3>2, <3>3
  <2> QED
    BY <2>1, <2>2, <2>3
<1>11. ASSUME NEW u \in Variants PROVE Holding(u)'
  <2>1. CASE u = v
    <3>1. variant'[v] = variant[w]
      BY <1>0, <1>1, <1>2 DEF QTypes
    <3>2. \A k \in Nodes : v \in owners'[k] <=> new = k
      BY <1>1
    <3> QED
      BY <1>0, <2>1, <3>1, <3>2 DEF Holding, new
  <2>2. CASE u = w
    <3>1. variant'[w] = NoOwner
      BY <1>0, <1>2 DEF QTypes
    <3>2. \A k \in Nodes : w \notin owners'[k]
      BY <1>1, <1>4
    <3> QED
      BY <2>2, <3>1, <3>2, Names DEF Holding
  <2>3. CASE u # v /\ u # w
    <3>1. variant'[u] = variant[u] /\ \A k \in Nodes : u \in owners'[k] <=> u \in owners[k]
      BY <1>0, <1>1, <1>2, <2>3 DEF QTypes
    <3> QED
      BY <1>0, <3>1 DEF Holding
  <2> QED
    BY <2>1, <2>2, <2>3
<1> QED
  BY <1>7, <1>8, <1>9, <1>10, <1>11 DEF QInv

(* The pool and other threads touch only nodes that the program has no      *)
(* pointer to.                                                              *)
LEMMA Elsewhere ==
  ASSUME QInv, NEW T \in SUBSET Nodes,
         UNCHANGED <<qhead, qtail, unique, self, line, kind, owners, variant, dropped>>,
         \A n \in T : /\ owners[n] = {}
                      /\ holder'[n] = Owner => n \in dropped \/ elem'[Owner] = n,
         \A k \in Nodes \ T : /\ next'[k] = next[k] /\ holder'[k] = holder[k]
                              /\ elem'[Owner] = k <=> elem[Owner] = k,
         Idle'
  PROVE  QInv'
<1>0. QTypes /\ Line /\ (\A k \in Nodes : Fine(k)) /\ (\A u \in Variants : Holding(u))
  BY DEF QInv
<1>1. InQueue' = InQueue /\ \A n \in T : n \notin InQueue
  BY DEF InQueue
<1>2. Line'
  <2>1. \A k \in InQueue : next'[k] = next[k] /\ kind'[k] = kind[k]
    BY <1>1 DEF InQueue
  <2> QED
    BY <1>0, <1>1, <2>1, LineKept
<1>3. ASSUME NEW k \in Nodes PROVE Fine(k)'
  <2>1. CASE k \notin T
    BY <1>0, <2>1, FineKept
  <2>2. CASE k \in T
    BY <1>0, <2>2 DEF Fine
  <2> QED
    BY <2>1, <2>2
<1>4. QTypes' /\ \A u \in Variants : Holding(u)'
  BY <1>0 DEF QTypes, Holding
<1> QED
  BY <1>2, <1>3, <1>4 DEF QInv

LEMMA ElsewhereAt ==
  ASSUME QInv, NEW n \in Nodes, owners[n] = {}, Idle',
         UNCHANGED <<qhead, qtail, unique, self, line, kind, owners, variant, dropped>>,
         holder'[n] = Owner => n \in dropped \/ elem'[Owner] = n,
         \A k \in Nodes \ {n} : /\ next'[k] = next[k] /\ holder'[k] = holder[k]
                                /\ elem'[Owner] = k <=> elem[Owner] = k
  PROVE  QInv'
<1> PICK T \in SUBSET Nodes : T = {n}
  OBVIOUS
<1>1. \A k \in T : owners[k] = {} /\ (holder'[k] = Owner => k \in dropped \/ elem'[Owner] = k)
  OBVIOUS
<1>2. \A k \in Nodes \ T : /\ next'[k] = next[k] /\ holder'[k] = holder[k]
                           /\ elem'[Owner] = k <=> elem[Owner] = k
  OBVIOUS
<1> QED
  BY <1>1, <1>2, Elsewhere

LEMMA PoolOnlyStep ==
  ASSUME IInv, QInv, PoolOnly
  PROVE  QInv'
<1>0. TypeOK /\ Freeing /\ QTypes /\ Idle /\ (\A k \in Nodes : Fine(k))
  BY DEF IInv, QInv
<1>1. UNCHANGED <<qhead, qtail, unique, self, line, kind, owners, variant, dropped>>
  BY DEF PoolOnly, queueVars, ownerVars
<1>2. ASSUME NEW t \in Threads \ {Owner}, NEW n \in Nodes, FreeLoad(t, n) PROVE QInv'
  <2>1. /\ holder[n] = t /\ holder' = holder
        /\ elem' = [elem EXCEPT ![t] = n] /\ next' = [next EXCEPT ![n] = head]
        /\ pc' = [pc EXCEPT ![t] = "cas"]
    BY <1>2 DEF FreeLoad
  <2>2. owners[n] = {} /\ holder'[n] # Owner
    BY <1>0, <2>1 DEF Fine
  <2>3. elem'[Owner] = elem[Owner] /\ \A k \in Nodes \ {n} : next'[k] = next[k]
    BY <1>0, <2>1, Names DEF TypeOK
  <2>4. Idle'
    BY <1>0, <2>1 DEF Idle, TypeOK
  <2> QED
    BY <1>1, <2>1, <2>2, <2>3, <2>4, ElsewhereAt
<1>3. ASSUME NEW t \in Threads, CasSucceeds(t) \/ CasFails(t) PROVE QInv'
  <2>1. pc[t] = "cas" /\ elem[t] \in Nodes /\ holder[elem[t]] = t
    BY <1>0, <1>3 DEF Freeing, CasSucceeds, CasFails
  <2> PICK n \in Nodes : n = elem[t]
    BY <2>1
  <2>2. owners[n] = {}
    BY <1>0, <2>1 DEF Fine
  <2>3. CASE CasSucceeds(t)
    <3>1. /\ holder' = [holder EXCEPT ![n] = Pool] /\ next' = next
          /\ pc' = [pc EXCEPT ![t] = "idle"] /\ elem' = [elem EXCEPT ![t] = Null]
      BY <2>3 DEF CasSucceeds, FreeEnds
    <3>2. holder'[n] # Owner /\ \A k \in Nodes \ {n} : holder'[k] = holder[k]
      BY <1>0, <3>1, Names DEF TypeOK
    <3>3. Idle'
      BY <1>0, <3>1 DEF Idle, TypeOK
    <3>4. \A k \in Nodes \ {n} : elem'[Owner] = k <=> elem[Owner] = k
      BY <1>0, <3>1, Names DEF TypeOK
    <3> QED
      BY <1>1, <2>2, <3>1, <3>2, <3>3, <3>4, ElsewhereAt
  <2>4. CASE CasFails(t)
    <3>1. /\ next' = [next EXCEPT ![n] = head] /\ UNCHANGED <<holder, pc, elem>>
      BY <2>4 DEF CasFails
    <3>2. \A k \in Nodes \ {n} : next'[k] = next[k]
      BY <1>0, <3>1 DEF TypeOK
    <3>3. holder'[n] = Owner => n \in dropped \/ elem'[Owner] = n
      BY <1>0, <2>2, <3>1 DEF Fine
    <3>4. Idle'
      BY <1>0, <3>1 DEF Idle
    <3> QED
      BY <1>1, <2>2, <3>1, <3>2, <3>3, <3>4, ElsewhereAt
  <2> QED
    BY <1>3, <2>3, <2>4
<1>4. ASSUME Close \/ Closed PROVE QInv'
  <2>1. UNCHANGED <<next, holder, elem>>
    BY <1>4 DEF Close, Closed
  <2>2. Idle'
    <3>1. elem[Owner] = Null /\ \A t \in Threads \ {Owner} : pc'[t] = pc[t]
      BY <1>0, <1>4, Names DEF Close, Closed, Idle, TypeOK
    <3> QED
      BY <1>0, <2>1, <3>1 DEF Idle
  <2>3. {} \in SUBSET Nodes
    OBVIOUS
  <2> QED
    BY <1>1, <2>1, <2>2, <2>3, Elsewhere
<1>5. ASSUME NEW n \in Nodes, Dispose(n) PROVE QInv'
  <2>1. /\ holder' = [holder EXCEPT ![n] = Unmade] /\ next' = [next EXCEPT ![n] = Null]
        /\ UNCHANGED <<pc, elem>>
    BY <1>5 DEF Dispose, freeVars
  <2>2. holder[n] = Pool
    BY <1>5, DisposeStep
  <2>3. owners[n] = {}
    BY <1>0, <2>2, Names DEF Fine
  <2>4. holder'[n] # Owner /\ \A k \in Nodes \ {n} : holder'[k] = holder[k] /\ next'[k] = next[k]
    BY <1>0, <2>1, Names DEF TypeOK
  <2>5. Idle'
    BY <1>0, <2>1 DEF Idle
  <2> QED
    BY <1>1, <2>1, <2>3, <2>4, <2>5, ElsewhereAt
<1> QED
  BY <1>2, <1>3, <1>4, <1>5 DEF PoolOnly

LEMMA QUnchangedStep ==
  ASSUME QInv, UNCHANGED qvars
  PROVE  QInv'
<1>1. /\ UNCHANGED <<pc, elem, next, holder>>
      /\ UNCHANGED <<qhead, qtail, unique, self, line, kind, owners, variant, dropped>>
  BY DEF qvars, poolVars, vars, queueVars, ownerVars
<1>2. InQueue' = InQueue
  BY <1>1 DEF InQueue
<1> QED
  BY <1>1, <1>2 DEF QInv, QTypes, Idle, Line, Fine, Holding

LEMMA QNextStep == IInv /\ QInv /\ [QNext]_qvars => QInv'
BY ObtainStep, LetGoStep, PushStep, PopPlainStep, EndingStep, DestroyNodeStep, PopVariantStep,
   UnwrapStep, ClearStep, WrapStep, MoveStep, PoolOnlyStep, QUnchangedStep DEF QNext, Program

LEMMA QInitHolds == QInit => QInv
<1> SUFFICES ASSUME QInit PROVE QInv
  OBVIOUS
<1>1. QTypes
  BY DEF QInit, QTypes, Links, Kinds, NoOwner
<1>2. Idle /\ (\A n \in Nodes : Fine(n)) /\ (\A v \in Variants : Holding(v))
  BY Names DEF QInit, Init, Idle, Fine, Holding, Unmade
<1>3. Line
  <2>1. line = <<>> /\ Where(line) = <<>>
    <3>1. line = <<>> /\ line \in Seq(Entries)
      BY <1>1 DEF QInit, QTypes
    <3>2. Where(line) = <<>>
      BY <3>1, WhereIs
    <3> QED
      BY <3>1, <3>2
  <2>2. InQueue = {}
    BY DEF QInit, InQueue
  <2>3. IsChain(next, <<>>, qhead) /\ Distinct(<<>>) /\ NodesOf(<<>>) = {}
    BY EmptyIsChain DEF QInit
  <2>4. Len(line) = 0
    BY <2>1
  <2> QED
    BY <2>1, <2>2, <2>3, <2>4 DEF Line, QInit
<1> QED
  BY <1>1, <1>2, <1>3 DEF QInv

-----------------------------------------------------------------------------
(* Every step is one that the pool allows. *)

(* A node that the program has a pointer to may be linked. *)
LEMMA MayLink ==
  ASSUME IInv, QInv, NEW n \in Nodes, owners[n] # {}, NEW m \in Links,
         next' = [next EXCEPT ![n] = m], UNCHANGED <<head, cache, holder, pc, elem, stale>>
  PROVE  Next
<1>1. holder[n] = Owner /\ elem[Owner] # n
  BY DEF QInv, Fine
<1>2. ASSUME NEW t \in Threads PROVE elem[t] # n
  <2>1. CASE pc[t] = "cas"
    <3>1. holder[elem[t]] = t
      BY <2>1 DEF IInv, Freeing
    <3> QED
      BY <1>1, <3>1
  <2>2. CASE pc[t] # "cas"
    BY <2>2, NodesAssumption DEF QInv, Idle
  <2> QED
    BY <2>1, <2>2
<1>3. Link(n)
  BY <1>1, <1>2, Names DEF Link, freeVars
<1> QED
  BY <1>3 DEF Next

LEMMA UnlinkAllowed ==
  ASSUME IInv, QInv, qhead # Null, next' = [next EXCEPT ![qhead] = Null],
         UNCHANGED <<head, cache, holder, pc, elem, stale>>
  PROVE  Next
<1>1. qhead \in Nodes /\ owners[qhead] # {}
  BY QueueHead DEF QInv, InQueue
<1> QED
  BY <1>1, MayLink DEF Links

LEMMA PushAllowed ==
  ASSUME IInv, QInv, NEW n \in Nodes, Push(n)
  PROVE  Next
<1>0. TypeOK /\ QTypes /\ Line /\ (\A k \in Nodes : Fine(k))
  BY DEF IInv, QInv
<1>1. /\ owners[n] # {} /\ Queue \notin owners[n]
      /\ next' = IF qtail = Null THEN [next EXCEPT ![n] = Null]
                                 ELSE [next EXCEPT ![n] = Null, ![qtail] = n]
      /\ UNCHANGED <<head, cache, holder, pc, elem, stale>>
  BY DEF Push, LinkLast, freeVars
<1>2. next[n] = Null
  BY <1>0, <1>1 DEF Fine
<1>3. CASE qtail = Null
  BY <1>1, <1>3, MayLink DEF Links
<1>4. CASE qtail # Null
  <2>1. qtail \in Nodes /\ line # <<>> /\ qtail = line[Len(line)].node
    BY <1>0, <1>4 DEF QTypes, Links, Line
  <2>2. /\ Len(Where(line)) = Len(line) /\ Len(line) \in Nat
        /\ \A i \in 1 .. Len(line) : Where(line)[i] = line[i].node
    BY <1>0, WhereIs DEF QTypes
  <2>3. Len(line) \in 1 .. Len(line)
    BY <1>0, <2>1, <2>2, EmptySeq DEF QTypes
  <2>4. qtail \in InQueue
    BY <1>0, <2>1, <2>2, <2>3 DEF Line, NodesOf
  <2>5. owners[qtail] # {}
    BY <2>4 DEF InQueue
  <2>6. next' = [next EXCEPT ![qtail] = n]
    BY <1>0, <1>1, <1>2, <1>4, <2>1 DEF TypeOK
  <2>7. n \in Links
    BY DEF Links
  <2> QED
    BY <1>1, <2>1, <2>5, <2>6, <2>7, MayLink
<1> QED
  BY <1>3, <1>4

LEMMA Respects == IInv /\ QInv /\ [QNext]_qvars => [Next]_vars
<1> SUFFICES ASSUME IInv, QInv, [QNext]_qvars PROVE [Next]_vars
  OBVIOUS
<1>1. ASSUME NEW n \in Nodes, Obtain(n) PROVE [Next]_vars
  BY <1>1 DEF Obtain, Next, PoolStep
<1>2. ASSUME NEW n \in Nodes, FreeLoad(Owner, n) PROVE [Next]_vars
  BY <1>2, Names DEF Next, PoolStep
<1>3. ASSUME NEW n \in Nodes, LetGo(n) PROVE [Next]_vars
  BY <1>2, <1>3 DEF LetGo, Drop, poolVars
<1>4. ASSUME NEW n \in Nodes, Push(n) PROVE [Next]_vars
  BY <1>4, PushAllowed
<1>5. ASSUME PopOwned \/ PopShared \/ \E v \in Variants : PopVariant(v) PROVE [Next]_vars
  <2>1. qhead # Null /\ next' = [next EXCEPT ![qhead] = Null]
        /\ UNCHANGED <<head, cache, holder, pc, elem, stale>>
    BY <1>5 DEF PopOwned, PopShared, PopVariant, Unlink, freeVars
  <2> QED
    BY <2>1, UnlinkAllowed
<1>6. ASSUME EndQueue \/ QueueEnded PROVE [Next]_vars
  BY <1>6 DEF EndQueue, QueueEnded, poolVars
<1>7. ASSUME DestroyNode PROVE [Next]_vars
  <2>1. qhead # Null /\ qhead \in Nodes
    BY <1>7, QueueHead DEF QInv, DestroyNode
  <2>2. CASE owners[qhead] = {Queue}
    <3>1. FreeLoad(Owner, qhead)
      BY <1>7, <2>2 DEF DestroyNode
    <3> QED
      BY <1>2, <2>1, <3>1
  <2>3. CASE owners[qhead] # {Queue}
    <3>1. next' = [next EXCEPT ![qhead] = Null] /\ UNCHANGED <<head, cache, holder, pc, elem, stale>>
      BY <1>7, <2>3 DEF DestroyNode, freeVars
    <3> QED
      BY <2>1, <3>1, UnlinkAllowed
  <2> QED
    BY <2>2, <2>3
<1>8. ASSUME NEW v \in Variants, Unwrap(v) \/ \E n \in Nodes : Wrap(v, n) PROVE [Next]_vars
  BY <1>8 DEF Unwrap, Wrap, poolVars
<1>9. ASSUME NEW v \in Variants, Clear(v) PROVE [Next]_vars
  <2>1. variant[v].node \in Nodes /\ Drop(variant[v].node, v)
    BY <1>9 DEF Clear, QInv, QTypes, Links
  <2> QED
    BY <1>2, <2>1 DEF Drop, poolVars
<1>10. ASSUME NEW v \in Variants, NEW w \in Variants, Move(v, w) PROVE [Next]_vars
  BY <1>2, <1>10, Moved DEF poolVars
<1>11. ASSUME PoolOnly PROVE [Next]_vars
  BY <1>11 DEF PoolOnly, Next, PoolStep
<1>12. ASSUME UNCHANGED qvars PROVE [Next]_vars
  BY <1>12 DEF qvars, poolVars
<1> QED
  BY <1>1, <1>3, <1>4, <1>5, <1>6, <1>7, <1>8, <1>9, <1>10, <1>11, <1>12 DEF QNext, Program

LEMMA QInvariance == QSpec => [](IInv /\ QInv)
<1>1. QInit => IInv /\ QInv
  BY InitHolds, QInitHolds DEF QInit
<1>2. IInv /\ QInv /\ [QNext]_qvars => (IInv /\ QInv)'
  BY NextStep, QNextStep, Respects
<1> QED
  BY <1>1, <1>2, PTL DEF QSpec

(***************************************************************************)
(* Queue and variant_ptrs keep to what the pool allows its users, so all    *)
(* that is proved of the pool holds with them.                              *)
(***************************************************************************)
THEOREM RespectsPoolHolds == QSpec => RespectsPool
<1>1. QInit => Init
  BY DEF QInit
<1> QED
  BY <1>1, QInvariance, Respects, PTL DEF QSpec, RespectsPool, Spec

(***************************************************************************)
(* The queue holds what was pushed and not popped, in order, and each       *)
(* node's flags say how it was pushed: pop_variant returns it that way.     *)
(***************************************************************************)
THEOREM InLineHolds == QSpec => []InLine
<1>1. ASSUME QInv PROVE InLine
  <2>0. QTypes /\ Line /\ \A k \in Nodes : Fine(k)
    BY <1>1 DEF QInv
  <2>1. IsChain(next, [i \in 1 .. Len(line) |-> line[i].node], qhead)
    BY <2>0 DEF Line, Where
  <2>2. ASSUME NEW i \in 1 .. Len(line)
        PROVE  /\ self[line[i].node] <=> line[i].kind = "shared"
               /\ unique[line[i].node] <=> line[i].kind = "unique"
    <3>1. /\ Len(Where(line)) = Len(line) /\ Where(line)[i] = line[i].node
          /\ line[i].node \in Nodes
      BY <2>0, WhereIs DEF QTypes, Entries
    <3>2. line[i].node \in InQueue /\ line[i].kind = kind[line[i].node]
      BY <2>0, <3>1 DEF Line, NodesOf
    <3> QED
      BY <2>0, <3>1, <3>2 DEF InQueue, Fine
  <2> QED
    BY <2>0, <2>1, <2>2 DEF InLine, Line
<1> QED
  BY <1>1, QInvariance, PTL

(***************************************************************************)
(* A node in the hands of the owner's program has a pointer to it, only     *)
(* one unless it is shared, is being released, or was a raw pointer that    *)
(* an assignment overwrote.                                                 *)
(***************************************************************************)
THEOREM OwnedHolds == QSpec => []Owned
<1>1. ASSUME QInv PROVE Owned
  <2> SUFFICES ASSUME NEW n \in Nodes
               PROVE  /\ holder[n] = Owner /\ owners[n] = {}
                             => n \in dropped \/ elem[Owner] = n
                      /\ owners[n] # {} => holder[n] = Owner
                      /\ kind[n] # "shared" => Cardinality(owners[n]) <= 1
    BY DEF Owned
  <2>1. Fine(n)
    BY <1>1 DEF QInv
  <2>2. ASSUME kind[n] # "shared" PROVE Cardinality(owners[n]) <= 1
    <3>1. CASE owners[n] = {}
      BY <3>1, FS_EmptySet
    <3>2. CASE owners[n] # {}
      <4>1. PICK a \in owners[n] : TRUE
        BY <3>2
      <4>2. owners[n] = {a}
        BY <2>1, <2>2 DEF Fine
      <4>3. Cardinality({a}) = 1
        BY FS_Singleton
      <4> QED
        BY <4>2, <4>3
    <3> QED
      BY <3>1, <3>2
  <2> QED
    BY <2>1, <2>2 DEF Fine
<1> QED
  BY <1>1, QInvariance, PTL

==============================================================================
