------------------------------ MODULE MpscQueue ------------------------------
(***************************************************************************)
(* cque::mpsc_queue (actorx/cque/mpsc_queue.hpp) and the ownership of the  *)
(* nodes in it (node_base.hpp): producers push nodes on a lock-free stack, *)
(* head_; the consumer takes the whole stack at once, reverses it into its *)
(* own list, cache_, and pops from that.  The nodes are the elements: they *)
(* carry the link, and are recycled as soon as nobody owns them.           *)
(*                                                                         *)
(* A raw pointer or a unique_ptr passes from hand to hand.  A shared_ptr   *)
(* is copied into the node (retain), and push drops its own copy only      *)
(* after the node is in the queue, when the consumer may have popped and   *)
(* dropped the other.                                                      *)
(*                                                                         *)
(* One action per access to shared memory, as in MpscCount, on the same    *)
(* assumption of sequential consistency.                                   *)
(***************************************************************************)
EXTENDS NodeLists

CONSTANTS
    Producers,  \* threads that push
    MaxPush     \* bound: pushes begun in a behaviour

Consumer == "consumer"   \* the thread that pops
Queue    == "queue"      \* the queue, or the node's self_, as an owner
Free     == "free"

ASSUME ProducersAssumption == Producers \cap {Consumer, Queue, Free} = {}
ASSUME MaxPushAssumption   == MaxPush \in Nat

(* How an element is handed over: moved (raw or unique) or shared. *)
Forms == {"move", "share"}

(* How the consumer asks: pop(), or synchronized_pop without or with a timeout. *)
Modes == {"poll", "wait", "timed"}

ProducerPC == {"idle", "cas", "drop", "check", "lock", "notify"}
ConsumerPC == {"idle", "first", "lock", "block", "pop",
               "wait", "waiting", "woken", "unblock", "unlock", "use"}

VARIABLES
    head,     \* head_, the node pushed last
    cache,    \* cache_, the next node of the consumer's list
    next,     \* node -> next_
    owners,   \* node -> who owns it: whose pointer keeps it from being released
    blocked,  \* blocked_
    mutex,    \* who holds the mutex both sides were given
    ppc,      \* producer: where it is in synchronized_push
    elem,     \* producer: the node it pushes, or pushed last
    form,     \* producer: how it hands the node over
    stale,    \* producer: its stale_head
    cpc,      \* consumer: where it is in pop or synchronized_pop
    mode,     \* consumer: how it called
    due,      \* consumer: its time is up, it will not wait again
    e,        \* consumer: the node popped, or Null
    begun     \* history: pushes begun

vars == <<head, cache, next, owners, blocked, mutex, ppc, elem, form, stale,
          cpc, mode, due, e, begun>>

listVars     == <<head, cache, next>>
producerVars == <<ppc, elem, form, stale, begun>>
callVars     == <<cpc, mode, due>>

(* Mutant: the constructor of a node leaves next_ as it finds it. *)
Init_NextUnset == /\ head = Null /\ cache = Null
                  /\ next = [n \in Nodes |-> "uninitialized"]
                  /\ owners = [n \in Nodes |-> {}]
                  /\ blocked = FALSE /\ mutex = Free
                  /\ ppc = [p \in Producers |-> "idle"]
                  /\ elem = [p \in Producers |-> Null]
                  /\ form = [p \in Producers |-> "move"]
                  /\ stale = [p \in Producers |-> Null]
                  /\ cpc = "idle" /\ mode = "poll" /\ due = FALSE /\ e = Null
                  /\ begun = 0

Init == /\ head = Null /\ cache = Null
        /\ next = [n \in Nodes |-> Null]
        /\ owners = [n \in Nodes |-> {}]
        /\ blocked = FALSE /\ mutex = Free
        /\ ppc = [p \in Producers |-> "idle"]
        /\ elem = [p \in Producers |-> Null]
        /\ form = [p \in Producers |-> "move"]
        /\ stale = [p \in Producers |-> Null]
        /\ cpc = "idle" /\ mode = "poll" /\ due = FALSE /\ e = Null
        /\ begun = 0

-----------------------------------------------------------------------------
(* Producers: synchronized_push(mtx, cv, e) *)

(* Gets a node nobody owns and loads the head it will try to replace. *)
PushLoad(p) == /\ ppc[p] = "idle"
               /\ begun < MaxPush
               /\ \E n \in Nodes, f \in Forms :
                      /\ owners[n] = {}
                      /\ owners' = [owners EXCEPT ![n] = {p}]
                      /\ next' = [next EXCEPT ![n] = head]
                      /\ elem' = [elem EXCEPT ![p] = n]
                      /\ form' = [form EXCEPT ![p] = f]
               /\ stale' = [stale EXCEPT ![p] = head]
               /\ ppc' = [ppc EXCEPT ![p] = "cas"]
               /\ begun' = begun + 1
               /\ UNCHANGED <<head, cache, blocked, mutex, callVars, e>>

(* Mutant: stores the node without comparing. *)
CasSucceeds_Store(p) ==
    /\ ppc[p] = "cas"
    /\ head' = elem[p]
    /\ owners' = [owners EXCEPT ![elem[p]] =
                     IF form[p] = "move" THEN {Queue} ELSE {p, Queue}]
    /\ ppc' = [ppc EXCEPT ![p] = IF form[p] = "move" THEN "check" ELSE "drop"]
    /\ UNCHANGED <<cache, next, blocked, mutex, elem, form, stale, begun, callVars, e>>

(* compare_exchange_weak puts the node on the stack: a moved node is now    *)
(* the queue's, a shared one its own and, until push returns, the producer's. *)
CasSucceeds(p) == /\ ppc[p] = "cas"
                  /\ head = stale[p]
                  /\ head' = elem[p]
                  /\ owners' = [owners EXCEPT ![elem[p]] =
                                   IF form[p] = "move" THEN {Queue} ELSE {p, Queue}]
                  /\ ppc' = [ppc EXCEPT ![p] =
                                IF form[p] = "move" THEN "check" ELSE "drop"]
                  /\ UNCHANGED <<cache, next, blocked, mutex, elem, form, stale, begun,
                                 callVars, e>>

(* Mutant: links the node once, before the loop. *)
CasFails_NoRelink(p) ==
    /\ ppc[p] = "cas"
    /\ head # stale[p]
    /\ stale' = [stale EXCEPT ![p] = head]
    /\ UNCHANGED <<listVars, owners, blocked, mutex, ppc, elem, form, begun, callVars, e>>

(* The head has moved: link to the new one and try again. *)
CasFails(p) == /\ ppc[p] = "cas"
               /\ head # stale[p]
               /\ stale' = [stale EXCEPT ![p] = head]
               /\ next' = [next EXCEPT ![elem[p]] = head]
               /\ UNCHANGED <<head, cache, owners, blocked, mutex, ppc, elem, form, begun,
                              callVars, e>>

(* Mutant: the end of push releases the node, whoever else shares it. *)
DropReference_Release(p) ==
    /\ ppc[p] = "drop"
    /\ owners' = [owners EXCEPT ![elem[p]] = {}]
    /\ ppc' = [ppc EXCEPT ![p] = "check"]
    /\ UNCHANGED <<listVars, blocked, mutex, elem, form, stale, begun, callVars, e>>

(* The shared_ptr parameter of push ends: the node is released here if the  *)
(* consumer is already done with it.                                        *)
DropReference(p) == /\ ppc[p] = "drop"
                    /\ owners' = [owners EXCEPT ![elem[p]] = @ \ {p}]
                    /\ ppc' = [ppc EXCEPT ![p] = "check"]
                    /\ UNCHANGED <<listVars, blocked, mutex, elem, form, stale, begun,
                                   callVars, e>>

CheckBlocked(p) == /\ ppc[p] = "check"
                   /\ ppc' = [ppc EXCEPT ![p] = IF blocked THEN "lock" ELSE "idle"]
                   /\ UNCHANGED <<listVars, owners, blocked, mutex, elem, form, stale, begun,
                                  callVars, e>>

LockToNotify(p) == /\ ppc[p] = "lock"
                   /\ mutex = Free
                   /\ mutex' = p
                   /\ ppc' = [ppc EXCEPT ![p] = "notify"]
                   /\ UNCHANGED <<listVars, owners, blocked, elem, form, stale, begun,
                                  callVars, e>>

(* notify_one under the lock; see MpscCount. *)
NotifyAndUnlock(p) == /\ ppc[p] = "notify"
                      /\ IF cpc = "waiting"
                           THEN /\ cpc' = "woken"
                                /\ due' \in {FALSE, mode = "timed"}
                           ELSE UNCHANGED <<cpc, due>>
                      /\ mutex' = Free
                      /\ ppc' = [ppc EXCEPT ![p] = "idle"]
                      /\ UNCHANGED <<listVars, owners, blocked, elem, form, stale, begun,
                                     mode, e>>

-----------------------------------------------------------------------------
(* Consumer: pri_pop *)

(* The node passes from the queue, whose mark or self_ it was, to the       *)
(* consumer.                                                                *)
HandOver(n) == /\ e' = n
               /\ owners' = [owners EXCEPT ![n] = (@ \ {Queue}) \cup {Consumer}]

(* get_cache: the next node of the consumer's own list. *)
PopCached == /\ cache # Null
             /\ HandOver(cache)
             /\ cache' = next[cache]
             /\ next' = [next EXCEPT ![cache] = Null]
             /\ UNCHANGED head

(* Mutant: keeps the stack's order. *)
PopStack_NoReverse ==
    /\ cache = Null
    /\ head' = Null
    /\ IF head = Null
         THEN e' = Null /\ UNCHANGED <<cache, next, owners>>
         ELSE /\ HandOver(head)
              /\ cache' = next[head]
              /\ next' = [next EXCEPT ![head] = Null]

(* Takes the whole stack.  Its nodes are nobody else's from the exchange    *)
(* on, so reversing them is part of the step: the oldest is popped, and the *)
(* others, in the order they were pushed, become the consumer's list.       *)
PopStack ==
    /\ cache = Null
    /\ head' = Null
    /\ \E s \in NodeSeqs :
           /\ IsChain(next, s, head)
           /\ LET k == Len(s)
              IN IF k = 0
                   THEN e' = Null /\ UNCHANGED <<cache, next, owners>>
                   ELSE /\ HandOver(s[k])
                        /\ cache' = IF k = 1 THEN Null ELSE s[k - 1]
                        /\ next' = [LinkBack(next, s) EXCEPT ![s[k]] = Null]

PopNode == PopCached \/ PopStack

-----------------------------------------------------------------------------
(* Consumer: pop() and synchronized_pop(mtx, cv[, timeout]) *)

Call(m) == /\ cpc = "idle"
           /\ cpc' = "first"
           /\ mode' = m
           /\ due' = FALSE
           /\ UNCHANGED <<listVars, owners, blocked, mutex, producerVars, e>>

(* Every call tries once without the lock. *)
FirstPop == /\ cpc = "first"
            /\ PopNode
            /\ cpc' = IF e' = Null /\ mode # "poll" THEN "lock" ELSE "unlock"
            /\ UNCHANGED <<blocked, mutex, mode, due, producerVars>>

Lock == /\ cpc = "lock"
        /\ mutex = Free
        /\ mutex' = Consumer
        /\ cpc' = "block"
        /\ UNCHANGED <<listVars, owners, blocked, mode, due, producerVars, e>>

(* Mutant: waits without a second pop after setting blocked_. *)
Block_NoRecheck == /\ cpc = "block"
                   /\ blocked' = TRUE
                   /\ cpc' = "wait"
                   /\ UNCHANGED <<listVars, owners, mutex, mode, due, producerVars, e>>

Block == /\ cpc = "block"
         /\ blocked' = TRUE
         /\ cpc' = "pop"
         /\ UNCHANGED <<listVars, owners, mutex, mode, due, producerVars, e>>

(* The pop after block(), and the one after each wait. *)
PopAgain == /\ cpc = "pop"
            /\ PopNode
            /\ cpc' = IF e' = Null /\ ~due THEN "wait" ELSE "unblock"
            /\ UNCHANGED <<blocked, mutex, mode, due, producerVars>>

(* cv.wait or cv.wait_for: starts waiting and releases the mutex at once. *)
Wait == /\ cpc = "wait"
        /\ mutex' = Free
        /\ cpc' = "waiting"
        /\ UNCHANGED <<listVars, owners, blocked, mode, due, producerVars, e>>

SpuriousWakeup == /\ cpc = "waiting"
                  /\ cpc' = "woken"
                  /\ due' \in {FALSE, mode = "timed"}
                  /\ UNCHANGED <<listVars, owners, blocked, mutex, mode, producerVars, e>>

Timeout == /\ cpc = "waiting" /\ mode = "timed"
           /\ cpc' = "woken"
           /\ due' = TRUE
           /\ UNCHANGED <<listVars, owners, blocked, mutex, mode, producerVars, e>>

Relock == /\ cpc = "woken"
          /\ mutex = Free
          /\ mutex' = Consumer
          /\ cpc' = "pop"
          /\ UNCHANGED <<listVars, owners, blocked, mode, due, producerVars, e>>

(* The finally object runs before the guard releases the mutex. *)
Unblock == /\ cpc = "unblock"
           /\ blocked' = FALSE
           /\ cpc' = "unlock"
           /\ UNCHANGED <<listVars, owners, mutex, mode, due, producerVars, e>>

Return == /\ cpc = "unlock"
          /\ mutex' = IF mutex = Consumer THEN Free ELSE mutex
          /\ cpc' = IF e = Null THEN "idle" ELSE "use"
          /\ UNCHANGED <<listVars, owners, blocked, mode, due, producerVars, e>>

(* The user is done with the element. *)
LetGo == /\ cpc = "use"
         /\ owners' = [owners EXCEPT ![e] = @ \ {Consumer}]
         /\ e' = Null
         /\ cpc' = "idle"
         /\ UNCHANGED <<listVars, blocked, mutex, mode, due, producerVars>>

-----------------------------------------------------------------------------
Push(p) == \/ PushLoad(p) \/ CasSucceeds(p) \/ CasFails(p) \/ DropReference(p)
           \/ CheckBlocked(p) \/ LockToNotify(p) \/ NotifyAndUnlock(p)

(* The steps the consumer takes by itself, a wait's end not among them. *)
Pop == \/ \E m \in Modes : Call(m)
       \/ FirstPop \/ Lock \/ Block \/ PopAgain \/ Wait
       \/ Relock \/ Unblock \/ Return \/ LetGo

Next == \/ \E p \in Producers : Push(p)
        \/ Pop
        \/ SpuriousWakeup
        \/ Timeout

Spec == Init /\ [][Next]_vars

(* As in MpscCount: threads are scheduled, the consumer keeps calling, and  *)
(* nothing is assumed of spurious wakeups and timeouts.                     *)
FairSpec == /\ Spec
            /\ \A p \in Producers : WF_vars(Push(p))
            /\ WF_vars(Pop)

-----------------------------------------------------------------------------
(* Correctness *)

TypeOK == /\ head \in Links /\ cache \in Links
          /\ next \in [Nodes -> Links]
          /\ owners \in [Nodes -> SUBSET (Producers \cup {Consumer, Queue})]
          /\ blocked \in BOOLEAN
          /\ mutex \in Producers \cup {Consumer, Free}
          /\ ppc \in [Producers -> ProducerPC]
          /\ elem \in [Producers -> Links]
          /\ form \in [Producers -> Forms]
          /\ stale \in [Producers -> Links]
          /\ cpc \in ConsumerPC /\ mode \in Modes /\ due \in BOOLEAN
          /\ e \in Links
          /\ begun \in Nat

(***************************************************************************)
(* The two lists end, have no node in common and hold exactly the nodes    *)
(* the queue owns: none is lost, none is in the queue twice, and no link   *)
(* leads to a node that was recycled.                                      *)
(***************************************************************************)
SoundLists ==
    \E s \in NodeSeqs :
        /\ IsChain(next, s, head)
        /\ \E l \in NodeSeqs :
               /\ IsChain(next, l, cache)
               /\ Distinct(s \o l)
               /\ NodesOf(s \o l) = {n \in Nodes : Queue \in owners[n]}

(***************************************************************************)
(* Nobody uses a node that may be released under it: a producer owns the   *)
(* node it links and, until it drops its reference, the one it shared; the *)
(* consumer owns the node it popped; and nobody else owns a moved one.     *)
(***************************************************************************)
NoUseAfterRelease ==
    /\ \A p \in Producers : /\ ppc[p] = "cas"  => owners[elem[p]] = {p}
                            /\ ppc[p] = "drop" => p \in owners[elem[p]]
    /\ e # Null => Consumer \in owners[e]
    /\ \A n \in Nodes : ~ {Queue, Consumer} \subseteq owners[n]

(***************************************************************************)
(* A consumer that is about to wait, or waits, with nodes on the stack has *)
(* a producer on its way to wake it, and its own list is empty.            *)
(***************************************************************************)
NoLostWakeup ==
    cpc \in {"wait", "waiting"}
        => /\ cache = Null
           /\ head # Null => \E p \in Producers : ppc[p] \in {"drop", "check", "lock", "notify"}

(***************************************************************************)
(* The queue implements FifoQueue: the stack upside down behind the        *)
(* consumer's list is one queue, in the order of the successful            *)
(* compare-and-swaps; and under FairSpec every element comes out.          *)
(***************************************************************************)
Fifo == INSTANCE FifoQueue WITH
            Elements <- Nodes, None <- Null,
            items <- Chain(next, cache) \o Reversed(Chain(next, head)), held <- e

ImplementsFifo == Fifo!Spec
=============================================================================
