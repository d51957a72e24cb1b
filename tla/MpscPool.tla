------------------------------- MODULE MpscPool -------------------------------
(***************************************************************************)
(* cque::mpsc_pool (actorx/cque/mpsc_pool.hpp): the owner thread gets      *)
(* nodes, any thread gives them back with node_base::release.  Freed nodes *)
(* are pushed on a lock-free stack, head_; the owner takes the whole stack *)
(* when its own list, cache_, is empty, and makes a new node when both     *)
(* are.  Each thread of asev::ev_service makes its events in such pools    *)
(* and whichever thread handled an event releases it.                      *)
(*                                                                         *)
(* While a node is in use its link is the user's: cque's queues keep their *)
(* nodes by it.  The pool must not depend on what it holds then.           *)
(*                                                                         *)
(* One action per access to shared memory, sequentially consistent as in   *)
(* MpscCount.                                                              *)
(***************************************************************************)
EXTENDS NodeLists

CONSTANTS
    Owner,   \* the thread that may call get
    Threads  \* the threads that may be handed nodes and release them

ASSUME OwnerAssumption == Owner \in Threads

Pool   == "pool"    \* holder of a node in the pool
Unmade == "unmade"  \* holder of a node not made yet

ASSUME ThreadsAssumption == Threads \cap {Pool, Unmade} = {}

VARIABLES
    head,    \* head_, the node freed last
    cache,   \* cache_, the next node the owner will get
    next,    \* node -> next_
    holder,  \* node -> the thread that uses it, Pool or Unmade
    pc,      \* thread -> where it is in free or, the owner, in ~mpsc_pool
    elem,    \* thread -> the node it frees, or Null
    stale    \* thread -> its stale_head

vars == <<head, cache, next, holder, pc, elem, stale>>

freeVars == <<pc, elem, stale>>

(* Mutant: the constructor of a node leaves next_ as it finds it. *)
Init_NextUnset == /\ head = Null /\ cache = Null
                  /\ next = [n \in Nodes |-> "uninitialized"]
                  /\ holder = [n \in Nodes |-> Unmade]
                  /\ pc = [t \in Threads |-> "idle"]
                  /\ elem = [t \in Threads |-> Null]
                  /\ stale = [t \in Threads |-> Null]

Init == /\ head = Null /\ cache = Null
        /\ next = [n \in Nodes |-> Null]
        /\ holder = [n \in Nodes |-> Unmade]
        /\ pc = [t \in Threads |-> "idle"]
        /\ elem = [t \in Threads |-> Null]
        /\ stale = [t \in Threads |-> Null]

-----------------------------------------------------------------------------
(* pri_get: the next node of the list, or the first of the whole stack,     *)
(* which is exchanged with null and whose other nodes become the list.      *)

FromCache(n) == /\ n = cache /\ n # Null
                /\ cache' = next[n]
                /\ UNCHANGED head

(* Mutant: takes the first node of the stack and forgets the others. *)
FromStack_ForgetRest(n) == /\ n = head /\ n # Null
                           /\ cache = Null
                           /\ head' = Null
                           /\ UNCHANGED cache

FromStack(n) == /\ n = head /\ n # Null
                /\ cache = Null
                /\ head' = Null
                /\ cache' = next[n]

-----------------------------------------------------------------------------
(* get(), by the owner *)

(* on_get clears the link; the user may pass the node on to any thread. *)
HandOut(n) == /\ pc[Owner] = "idle"
              /\ \E t \in Threads : holder' = [holder EXCEPT ![n] = t]
              /\ next' = [next EXCEPT ![n] = Null]
              /\ UNCHANGED freeVars

GetPooled(n) == (FromCache(n) \/ FromStack(n)) /\ HandOut(n)

(* Neither list has a node: a new one is made. *)
GetNew(n) == /\ holder[n] = Unmade
             /\ cache = Null /\ head = Null
             /\ HandOut(n)
             /\ UNCHANGED <<head, cache>>

-----------------------------------------------------------------------------
(* release() and so free(n), by any thread *)

(* on_free clears the link; free loads the head it will try to replace. *)
FreeLoad(t, n) == /\ pc[t] = "idle"
                  /\ holder[n] = t
                  /\ elem' = [elem EXCEPT ![t] = n]
                  /\ next' = [next EXCEPT ![n] = head]
                  /\ stale' = [stale EXCEPT ![t] = head]
                  /\ pc' = [pc EXCEPT ![t] = "cas"]
                  /\ UNCHANGED <<head, cache, holder>>

FreeEnds(t) == /\ pc' = [pc EXCEPT ![t] = "idle"]
               /\ elem' = [elem EXCEPT ![t] = Null]
               /\ stale' = [stale EXCEPT ![t] = Null]

(* Mutant: stores the node without comparing. *)
CasSucceeds_Store(t) == /\ pc[t] = "cas"
                        /\ head' = elem[t]
                        /\ holder' = [holder EXCEPT ![elem[t]] = Pool]
                        /\ FreeEnds(t)
                        /\ UNCHANGED <<cache, next>>

CasSucceeds(t) == /\ pc[t] = "cas"
                  /\ head = stale[t]
                  /\ head' = elem[t]
                  /\ holder' = [holder EXCEPT ![elem[t]] = Pool]
                  /\ FreeEnds(t)
                  /\ UNCHANGED <<cache, next>>

CasFails(t) == /\ pc[t] = "cas"
               /\ head # stale[t]
               /\ stale' = [stale EXCEPT ![t] = head]
               /\ next' = [next EXCEPT ![elem[t]] = head]
               /\ UNCHANGED <<head, cache, holder, pc, elem>>

-----------------------------------------------------------------------------
(* ~mpsc_pool, by the owner *)

(* Whoever destroys a pool must know that no node of it is in use. *)
Close == /\ pc[Owner] = "idle"
         /\ \A n \in Nodes : holder[n] \in {Pool, Unmade}
         /\ pc' = [pc EXCEPT ![Owner] = "closing"]
         /\ UNCHANGED <<head, cache, next, holder, elem, stale>>

(* on_get(nullptr) and release: the node has no freer and is deleted. *)
Dispose(n) == /\ pc[Owner] = "closing"
              /\ FromCache(n) \/ FromStack(n)
              /\ holder' = [holder EXCEPT ![n] = Unmade]
              /\ next' = [next EXCEPT ![n] = Null]
              /\ UNCHANGED freeVars

(* Another pool may be made in its place. *)
Closed == /\ pc[Owner] = "closing"
          /\ cache = Null /\ head = Null
          /\ pc' = [pc EXCEPT ![Owner] = "idle"]
          /\ UNCHANGED <<head, cache, next, holder, elem, stale>>

-----------------------------------------------------------------------------
(* The user of a node links it to another. *)
Link(n) == /\ holder[n] \in Threads
           /\ \A t \in Threads : elem[t] # n
           /\ \E m \in Links : next' = [next EXCEPT ![n] = m]
           /\ UNCHANGED <<head, cache, holder, freeVars>>

PoolStep == \/ \E n \in Nodes : GetPooled(n) \/ GetNew(n)
            \/ \E t \in Threads, n \in Nodes : FreeLoad(t, n)
            \/ \E t \in Threads : CasSucceeds(t) \/ CasFails(t)
            \/ Close
            \/ \E n \in Nodes : Dispose(n)
            \/ Closed

Next == PoolStep \/ \E n \in Nodes : Link(n)

Spec == Init /\ [][Next]_vars

-----------------------------------------------------------------------------
(* Correctness *)

TypeOK == /\ head \in Links /\ cache \in Links
          /\ next \in [Nodes -> Links]
          /\ holder \in [Nodes -> Threads \cup {Pool, Unmade}]
          /\ pc \in [Threads -> {"idle", "cas", "closing"}]
          /\ elem \in [Threads -> Links]
          /\ stale \in [Threads -> Links]

(***************************************************************************)
(* The two lists end, have no node in common and hold exactly the nodes in *)
(* the pool: no node leaks, and none in use can be handed out again.       *)
(***************************************************************************)
SoundLists ==
    \E s \in NodeSeqs :
        /\ IsChain(next, s, head)
        /\ \E l \in NodeSeqs :
               /\ IsChain(next, l, cache)
               /\ Distinct(s \o l)
               /\ NodesOf(s \o l) = {n \in Nodes : holder[n] = Pool}

(***************************************************************************)
(* The pool implements NodeStore, its contents what the two lists hold:    *)
(* get never hands out a node in use and makes a new one only if every     *)
(* node given back has been handed out again.                              *)
(***************************************************************************)
Listed == NodesOf(Chain(next, head)) \cup NodesOf(Chain(next, cache))

Store == INSTANCE NodeStore WITH
             pooled <- Listed,
             used <- {n \in Nodes : holder[n] \in Threads}

ImplementsStore == Store!Spec
=============================================================================
