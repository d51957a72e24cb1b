----------------------------- MODULE PooledQueue -----------------------------
(***************************************************************************)
(* cque::queue (actorx/cque/queue.hpp) and cque::variant_ptr               *)
(* (actorx/cque/variant_ptr.hpp) on nodes of an mpsc_pool, as the tests    *)
(* use them: the owner of the pool gets nodes, keeps them in a queue or in *)
(* variant_ptrs, and releases them, while other threads release theirs.    *)
(*                                                                         *)
(* The queue and the pool link nodes by the same next_.  A node is pushed  *)
(* raw, unique or shared; the queue remembers which in the node (unique_,  *)
(* self_) and pop_variant returns it the same way.  A release is the steps *)
(* of MpscPool: the owner's program waits for it.                          *)
(***************************************************************************)
EXTENDS MpscPool

CONSTANT Variants  \* the variant_ptrs of the owner's program

User  == "user"   \* the program's own pointer, as an owner of a node
Queue == "queue"  \* the queue, as an owner of a node

ASSUME VariantsAssumption == Variants \cap {User, Queue} = {}

Kinds   == {"raw", "unique", "shared"}
NoOwner == [kind |-> "raw", node |-> Null]  \* a variant_ptr that holds nothing

VARIABLES
    qhead,    \* head_ of the queue
    qtail,    \* tail_ of the queue
    unique,   \* node -> unique_
    self,     \* node -> whether self_ is set
    kind,     \* node -> what kind of pointer owns it
    owners,   \* node -> which pointers of the owner's program own it
    variant,  \* variant_ptr -> the kind of its one pointer, and the node
    ending,   \* ~queue has begun
    line,     \* history: what was pushed and not popped: the node, and how
    dropped   \* history: nodes whose raw pointer was overwritten

poolVars  == vars
queueVars == <<qhead, qtail, unique, self, ending, line>>
ownerVars == <<kind, owners, variant, dropped>>
qvars     == <<poolVars, queueVars, ownerVars>>

QInit == /\ Init
         /\ qhead = Null /\ qtail = Null
         /\ unique = [n \in Nodes |-> FALSE]
         /\ self = [n \in Nodes |-> FALSE]
         /\ kind = [n \in Nodes |-> "raw"]
         /\ owners = [n \in Nodes |-> {}]
         /\ variant = [v \in Variants |-> NoOwner]
         /\ ending = FALSE
         /\ line = <<>>
         /\ dropped = {}

(* The owner's program runs: it is not in the middle of a release. *)
Running == pc[Owner] = "idle" /\ ~ending

-----------------------------------------------------------------------------
(* The pool: get, get_unique, get_shared; on_get clears the flags. *)

Obtain(n) == /\ Running
             /\ GetPooled(n) \/ GetNew(n)
             /\ IF holder'[n] = Owner
                  THEN /\ \E k \in Kinds : kind' = [kind EXCEPT ![n] = k]
                       /\ owners' = [owners EXCEPT ![n] = {User}]
                  ELSE UNCHANGED <<kind, owners>>
             /\ UNCHANGED <<queueVars, variant, dropped>>

(* A pointer to n goes; with the last one n is released. *)
Drop(n, o) == /\ owners' = [owners EXCEPT ![n] = @ \ {o}]
              /\ IF owners[n] = {o}
                   THEN FreeLoad(Owner, n) /\ kind' = [kind EXCEPT ![n] = "raw"]
                   ELSE UNCHANGED <<poolVars, kind>>

(* The program lets go of its pointer. *)
LetGo(n) == /\ Running
            /\ User \in owners[n]
            /\ Drop(n, User)
            /\ UNCHANGED <<queueVars, variant, dropped>>

-----------------------------------------------------------------------------
(* queue::push *)

(* pri_push: the node goes behind the last. *)
LinkLast(n) == /\ next' = IF qtail = Null
                          THEN [next EXCEPT ![n] = Null]
                          ELSE [next EXCEPT ![n] = Null, ![qtail] = n]
               /\ qhead' = IF qtail = Null THEN n ELSE qhead
               /\ qtail' = n
               /\ line' = Append(line, [node |-> n, kind |-> kind[n]])
               /\ UNCHANGED <<head, cache, holder, freeVars, ending>>

(* Raw and unique pointers are handed over; of a shared one the caller may *)
(* have another copy.                                                      *)
Push(n) == /\ Running
           /\ User \in owners[n] /\ Queue \notin owners[n]
           /\ \/ owners' = [owners EXCEPT ![n] = {Queue} \cup (@ \ {User})]
              \/ kind[n] = "shared" /\ owners' = [owners EXCEPT ![n] = @ \cup {Queue}]
           /\ unique' = [unique EXCEPT ![n] = @ \/ kind[n] = "unique"]
           /\ self' = [self EXCEPT ![n] = kind[n] = "shared"]
           /\ LinkLast(n)
           /\ UNCHANGED <<kind, variant, dropped>>

-----------------------------------------------------------------------------
(* queue::pop, pop_unique, pop_shared and pop_variant *)

(* Mutant: leaves tail_ on the last node popped. *)
Unlink_KeepTail == /\ qhead # Null
                   /\ qhead' = next[qhead]
                   /\ next' = [next EXCEPT ![qhead] = Null]
                   /\ line' = Tail(line)
                   /\ UNCHANGED <<qtail, head, cache, holder>>

(* pri_pop *)
Unlink == /\ qhead # Null
          /\ qhead' = next[qhead]
          /\ qtail' = IF next[qhead] = Null THEN Null ELSE qtail
          /\ next' = [next EXCEPT ![qhead] = Null]
          /\ line' = Tail(line)
          /\ UNCHANGED <<head, cache, holder>>

(* The queue's ownership of n passes to o. *)
PassOn(n, o) == owners' = [owners EXCEPT ![n] = (@ \ {Queue}) \cup {o}]

(* pop and pop_unique, which a shared node must not meet. *)
PopOwned == /\ Running
            /\ Unlink
            /\ ~self[qhead]
            /\ PassOn(qhead, User)
            /\ \E k \in {"raw", "unique"} : kind' = [kind EXCEPT ![qhead] = k]
            /\ unique' = [unique EXCEPT ![qhead] = FALSE]
            /\ UNCHANGED <<freeVars, self, ending, variant, dropped>>

PopShared == /\ Running
             /\ Unlink
             /\ self[qhead]
             /\ PassOn(qhead, User)
             /\ self' = [self EXCEPT ![qhead] = FALSE]
             /\ UNCHANGED <<freeVars, unique, ending, kind, variant, dropped>>

(* Mutant: leaves unique_ set. *)
PopVariant_KeepUnique(v) ==
    /\ Running
    /\ Unlink
    /\ variant[v] = NoOwner
    /\ variant' = [variant EXCEPT ![v] =
                      [kind |-> IF self[qhead] THEN "shared"
                                ELSE IF unique[qhead] THEN "unique" ELSE "raw",
                       node |-> qhead]]
    /\ kind' = [kind EXCEPT ![qhead] = variant'[v].kind]
    /\ PassOn(qhead, v)
    /\ self' = [self EXCEPT ![qhead] = FALSE]
    /\ UNCHANGED <<freeVars, unique, ending, dropped>>

(* auto v = pop_variant(): the node's flags say which pointer to make. *)
PopVariant(v) ==
    /\ Running
    /\ Unlink
    /\ variant[v] = NoOwner
    /\ variant' = [variant EXCEPT ![v] =
                      [kind |-> IF self[qhead] THEN "shared"
                                ELSE IF unique[qhead] THEN "unique" ELSE "raw",
                       node |-> qhead]]
    /\ kind' = [kind EXCEPT ![qhead] = variant'[v].kind]
    /\ PassOn(qhead, v)
    /\ self' = [self EXCEPT ![qhead] = FALSE]
    /\ unique' = [unique EXCEPT ![qhead] = FALSE]
    /\ UNCHANGED <<freeVars, ending, dropped>>

-----------------------------------------------------------------------------
(* ~queue: pops and destroys a node at a time *)

EndQueue == /\ Running
            /\ ending' = TRUE
            /\ UNCHANGED <<poolVars, qhead, qtail, unique, self, line, ownerVars>>

(* destory: drops self_, or releases the node. *)
DestroyNode ==
    /\ ending /\ pc[Owner] = "idle"
    /\ qhead # Null
    /\ qhead' = next[qhead]
    /\ qtail' = IF next[qhead] = Null THEN Null ELSE qtail
    /\ line' = Tail(line)
    /\ owners' = [owners EXCEPT ![qhead] = @ \ {Queue}]
    /\ IF owners[qhead] = {Queue}
         THEN FreeLoad(Owner, qhead)
         ELSE /\ next' = [next EXCEPT ![qhead] = Null]
              /\ UNCHANGED <<head, cache, holder, freeVars>>
    /\ self' = [self EXCEPT ![qhead] = FALSE]
    /\ unique' = [unique EXCEPT ![qhead] = FALSE]
    /\ UNCHANGED <<ending, kind, variant, dropped>>

(* Another queue may be made in its place. *)
QueueEnded == /\ ending /\ pc[Owner] = "idle"
              /\ qhead = Null
              /\ ending' = FALSE
              /\ UNCHANGED <<poolVars, qhead, qtail, unique, self, line, ownerVars>>

-----------------------------------------------------------------------------
(* variant_ptr *)

(* make_variant, or a constructor, from a pointer of the program: a raw or  *)
(* unique one is taken; a shared one is copied, even from an rvalue, so it  *)
(* stays with the program unless that has moved it into make_variant.       *)
Wrap(v, n) == /\ Running
              /\ User \in owners[n] /\ variant[v] = NoOwner
              /\ variant' = [variant EXCEPT ![v] = [kind |-> kind[n], node |-> n]]
              /\ \/ owners' = [owners EXCEPT ![n] = (@ \ {User}) \cup {v}]
                 \/ kind[n] = "shared" /\ owners' = [owners EXCEPT ![n] = @ \cup {v}]
              /\ UNCHANGED <<poolVars, queueVars, kind, dropped>>

(* free_shared, free_unique or free_raw, whichever it holds. *)
Unwrap(v) == LET n == variant[v].node IN
             /\ Running
             /\ n # Null
             /\ variant' = [variant EXCEPT ![v] = NoOwner]
             /\ owners' = [owners EXCEPT ![n] = (@ \ {v}) \cup {User}]
             /\ UNCHANGED <<poolVars, queueVars, kind, dropped>>

(* v = std::move(w): a shared or unique pointer of v is dropped, a raw one  *)
(* overwritten.                                                            *)
Move(v, w) ==
    LET old == variant[v]  new == variant[w].node
        moved == [n \in Nodes |-> IF n = new THEN (owners[n] \ {w}) \cup {v}
                                  ELSE owners[n] \ {v}]
    IN /\ Running
       /\ v # w /\ <<old, variant[w]>> # <<NoOwner, NoOwner>>
       /\ variant' = [variant EXCEPT ![v] = variant[w], ![w] = NoOwner]
       /\ owners' = moved
       /\ IF old.kind # "raw" /\ moved[old.node] = {}
            THEN FreeLoad(Owner, old.node)
            ELSE UNCHANGED poolVars
       /\ dropped' = IF old.kind = "raw" THEN dropped \cup ({old.node} \ {Null}) ELSE dropped
       /\ UNCHANGED <<queueVars, kind>>

(* Mutant: clear forgets the raw pointer without deleting. *)
Clear_KeepRaw(v) == LET n == variant[v].node IN
                    /\ Running
                    /\ n # Null
                    /\ variant' = [variant EXCEPT ![v] = NoOwner]
                    /\ owners' = [owners EXCEPT ![n] = @ \ {v}]
                    /\ IF kind[n] # "raw" /\ owners[n] = {v}
                         THEN FreeLoad(Owner, n) ELSE UNCHANGED poolVars
                    /\ UNCHANGED <<queueVars, kind, dropped>>

(* clear, and the destructor. *)
Clear(v) == LET n == variant[v].node IN
            /\ Running
            /\ n # Null
            /\ variant' = [variant EXCEPT ![v] = NoOwner]
            /\ Drop(n, v)
            /\ UNCHANGED <<queueVars, dropped>>

-----------------------------------------------------------------------------
Program == \/ \E n \in Nodes : Obtain(n) \/ LetGo(n) \/ Push(n)
           \/ PopOwned \/ PopShared
           \/ EndQueue \/ DestroyNode \/ QueueEnded
           \/ \E v \in Variants : PopVariant(v) \/ Unwrap(v) \/ Clear(v)
           \/ \E v \in Variants, n \in Nodes : Wrap(v, n)
           \/ \E v, w \in Variants : Move(v, w)

(* Releases go on and other threads release theirs; ~mpsc_pool runs with no *)
(* queue being destroyed.                                                   *)
PoolOnly == /\ \/ \E t \in Threads \ {Owner}, n \in Nodes : FreeLoad(t, n)
               \/ \E t \in Threads : CasSucceeds(t) \/ CasFails(t)
               \/ ~ending /\ Close
               \/ \E n \in Nodes : Dispose(n)
               \/ Closed
            /\ UNCHANGED <<queueVars, ownerVars>>

QNext == Program \/ PoolOnly

QSpec == QInit /\ [][QNext]_qvars

-----------------------------------------------------------------------------
(* Correctness *)

(***************************************************************************)
(* The queue holds what was pushed and not popped, in that order, from     *)
(* head_ to tail_; and each node's flags say how it was pushed, so that    *)
(* pop_variant returns it the same way.                                    *)
(***************************************************************************)
InLine ==
    /\ IsChain(next, [i \in 1 .. Len(line) |-> line[i].node], qhead)
    /\ qtail = IF line = <<>> THEN Null ELSE line[Len(line)].node
    /\ \A i \in 1 .. Len(line) :
           LET n == line[i].node IN
           /\ self[n]   <=> line[i].kind = "shared"
           /\ unique[n] <=> line[i].kind = "unique"

(***************************************************************************)
(* A node in the hands of the owner's program has a pointer to it, only    *)
(* one unless it is shared, or is being released.  The one exception is    *)
(* what variant_ptr's assignment makes of a raw pointer it overwrites.     *)
(***************************************************************************)
Owned ==
    \A n \in Nodes :
        /\ holder[n] = Owner /\ owners[n] = {}
               => n \in dropped \/ elem[Owner] = n
        /\ owners[n] # {} => holder[n] = Owner
        /\ kind[n] # "shared" => Cardinality(owners[n]) <= 1

(***************************************************************************)
(* Queue and variant_ptrs keep to what the pool allows its users: they     *)
(* write the links of nodes they hold and of no others.                    *)
(***************************************************************************)
RespectsPool == Spec
=============================================================================
