--------------------------- MODULE MpscQueueProofs ---------------------------
(***************************************************************************)
(* Safety of MpscQueue for any nodes, any producers and any number of      *)
(* pushes: its lists are sound, nobody uses a node that may be released    *)
(* under it, no wakeup is lost, and every step is one of FifoQueue or a    *)
(* stutter.                                                                *)
(***************************************************************************)
EXTENDS MpscQueue, NodeListProofs

(* Who holds the mutex, when blocked_ is set and when the consumer has a    *)
(* node follow from where the threads are, as in MpscCountProofs.           *)
Control ==
    /\ \A p \in Producers : ppc[p] = "notify" <=> mutex = p
    /\ cpc \in {"block", "pop", "wait", "unblock"} => mutex = Consumer
    /\ mutex = Consumer => cpc \in {"block", "pop", "wait", "unblock", "unlock"}
    /\ blocked <=> cpc \in {"pop", "wait", "waiting", "woken", "unblock"}
    /\ e # Null => cpc \in {"unblock", "unlock", "use"}
    /\ cpc = "use" => e # Null

(* Who owns the nodes in hand.  What a producer links is its own, linked to *)
(* the head it saw: if that is the head again, whatever was popped and      *)
(* pushed in between, the node is linked to the stack there is.             *)
Owning ==
    /\ \A p \in Producers :
           ppc[p] = "cas" => /\ elem[p] \in Nodes
                             /\ owners[elem[p]] = {p}
                             /\ next[elem[p]] = stale[p]
    /\ \A p \in Producers :
           ppc[p] = "drop" => elem[p] \in Nodes /\ p \in owners[elem[p]]
    /\ e # Null => Consumer \in owners[e]
    /\ \A n \in Nodes : Queue \notin owners[n] \/ Consumer \notin owners[n]

Queued == {n \in Nodes : Queue \in owners[n]}

(* s is the stack and l the consumer's list; they hold what is queued. *)
InLists(s, l) == /\ IsChain(next, s, head) /\ Distinct(s)
                 /\ IsChain(next, l, cache) /\ Distinct(l)
                 /\ NodesOf(s) \cap NodesOf(l) = {}
                 /\ NodesOf(s) \cup NodesOf(l) = Queued

Lists == \E s, l \in Seq(Nodes) : InLists(s, l)

IInv == TypeOK /\ Control /\ Owning /\ Lists /\ NoLostWakeup

-----------------------------------------------------------------------------
(* The lists under the steps of both sides. *)

LEMMA LinksAre == Null \in Links /\ (\A n \in Nodes : n \in Links /\ n # Null)
                  /\ (\A x \in Links : x # Null => x \in Nodes)
BY NodesAssumption DEF Links

(* A node that is not queued may be linked anywhere. *)
LEMMA ListsKept ==
  ASSUME TypeOK, Lists, UNCHANGED <<head, cache>>,
         NEW n \in Nodes, n \notin Queued, NEW m, next' = [next EXCEPT ![n] = m],
         Queued' = Queued
  PROVE  Lists'
<1>1. PICK s \in Seq(Nodes), l \in Seq(Nodes) : InLists(s, l)
  BY DEF Lists
<1>2. n \notin NodesOf(s) /\ n \notin NodesOf(l)
  BY <1>1 DEF InLists
<1>3. next \in [Nodes -> Links]
  BY DEF TypeOK
<1>4. IsChain(next', s, head') /\ IsChain(next', l, cache')
  BY <1>1, <1>2, <1>3, ChainKept DEF InLists
<1>5. InLists(s, l)'
  BY <1>1, <1>4 DEF InLists
<1> QED
  BY <1>5 DEF Lists

LEMMA ListsSame ==
  ASSUME Lists, UNCHANGED <<head, cache, next>>, Queued' = Queued
  PROVE  Lists'
BY DEF Lists, InLists

(* The successful compare-and-swap puts its node on the stack. *)
LEMMA Pushed ==
  ASSUME TypeOK, Owning, NEW p \in Producers, CasSucceeds(p),
         NEW s \in Seq(Nodes), NEW l \in Seq(Nodes), InLists(s, l)
  PROVE  /\ elem[p] \in Nodes
         /\ \E r \in Seq(Nodes) : r = <<elem[p]>> \o s /\ InLists(r, l)'
<1>1. /\ ppc[p] = "cas" /\ head = stale[p] /\ head' = elem[p]
      /\ owners' = [owners EXCEPT ![elem[p]] =
                        IF form[p] = "move" THEN {Queue} ELSE {p, Queue}]
      /\ UNCHANGED <<cache, next>>
  BY DEF CasSucceeds
<1>2. elem[p] \in Nodes /\ owners[elem[p]] = {p} /\ next[elem[p]] = head
  BY <1>1 DEF Owning
<1> PICK n \in Nodes : n = elem[p]
  BY <1>2
<1>3. n \notin Queued
  BY <1>2, ProducersAssumption DEF Queued
<1>4. Queue \in owners'[n] /\ \A k \in Nodes \ {n} : owners'[k] = owners[k]
  BY <1>1 DEF TypeOK
<1>5. Queued' = Queued \cup {n}
  BY <1>4 DEF Queued
<1>6. IsChain(next, s, head) /\ Distinct(s) /\ n \notin NodesOf(s) /\ n \notin NodesOf(l)
  BY <1>3 DEF InLists
<1>7. PICK r \in Seq(Nodes) : /\ r = <<n>> \o s
                              /\ IsChain(next, r, n) /\ Distinct(r)
                              /\ NodesOf(r) = NodesOf(s) \cup {n}
  BY <1>2, <1>6, ChainPush
<1>8. InLists(r, l)'
  BY <1>1, <1>5, <1>6, <1>7 DEF InLists
<1> QED
  BY <1>2, <1>7, <1>8

(* The consumer takes the first of its own list ... *)
LEMMA CachedPopped ==
  ASSUME TypeOK, PopCached,
         NEW s \in Seq(Nodes), NEW l \in Seq(Nodes), InLists(s, l)
  PROVE  /\ e' \in Nodes /\ e' \in Queued /\ l # <<>> /\ e' = l[1]
         /\ owners' = [owners EXCEPT ![e'] = (@ \ {Queue}) \cup {Consumer}]
         /\ \A k \in Nodes \ Queued : next'[k] = next[k]
         /\ next' \in [Nodes -> Links] /\ head' \in Links /\ cache' \in Links
         /\ Tail(l) \in Seq(Nodes) /\ InLists(s, Tail(l))'
<1>1. /\ cache # Null /\ e' = cache /\ cache' = next[cache] /\ head' = head
      /\ owners' = [owners EXCEPT ![cache] = (@ \ {Queue}) \cup {Consumer}]
      /\ next' = [next EXCEPT ![cache] = Null]
  BY DEF PopCached, HandOver
<1>2. cache \in Nodes
  BY <1>1, LinksAre DEF TypeOK
<1> PICK n \in Nodes : n = cache
  BY <1>2
<1>3. /\ Tail(l) \in Seq(Nodes) /\ IsChain(next, Tail(l), next[n]) /\ Distinct(Tail(l))
      /\ NodesOf(Tail(l)) = NodesOf(l) \ {n} /\ n \in NodesOf(l)
  BY ChainHead DEF InLists
<1>4. l # <<>> /\ n = l[1]
  BY <1>1 DEF InLists, IsChain
<1>5. n \in Queued /\ n \notin NodesOf(s) /\ n \notin NodesOf(Tail(l))
  BY <1>3 DEF InLists
<1>6. Queue \notin owners'[n] /\ \A k \in Nodes \ {n} : owners'[k] = owners[k]
  BY <1>1 DEF TypeOK, Queue, Consumer
<1>7. Queued' = Queued \ {n}
  BY <1>6 DEF Queued
<1>8. next \in [Nodes -> Links] /\ head \in Links
  BY DEF TypeOK
<1>9. IsChain(next', s, head') /\ IsChain(next', Tail(l), cache')
  BY <1>1, <1>3, <1>5, <1>8, ChainKept DEF InLists
<1>10. InLists(s, Tail(l))'
  BY <1>3, <1>5, <1>7, <1>9 DEF InLists
<1>11. next' \in [Nodes -> Links] /\ cache' \in Links
  BY <1>1, <1>8, LinksAre
<1>12. \A k \in Nodes \ Queued : next'[k] = next[k]
  BY <1>1, <1>5, <1>8
<1> QED
  BY <1>1, <1>3, <1>4, <1>5, <1>8, <1>10, <1>11, <1>12

(* ... or, when that is empty, the oldest on the stack, whose others become *)
(* its list ...                                                             *)
LEMMA StackPopped ==
  ASSUME TypeOK, PopStack,
         NEW s \in Seq(Nodes), NEW l \in Seq(Nodes), InLists(s, l), s # <<>>
  PROVE  /\ e' \in Nodes /\ e' \in Queued /\ l = <<>>
         /\ owners' = [owners EXCEPT ![e'] = (@ \ {Queue}) \cup {Consumer}]
         /\ \A k \in Nodes \ Queued : next'[k] = next[k]
         /\ next' \in [Nodes -> Links] /\ head' \in Links /\ cache' \in Links
         /\ \E r \in Seq(Nodes) : Reversed(s) = <<e'>> \o r /\ InLists(<<>>, r)'
<1>1. cache = Null /\ head' = Null
  BY DEF PopStack
<1>2. l = <<>> /\ NodesOf(l) = {}
  BY <1>1, EmptyChain DEF InLists
<1>3. Len(s) \in Nat /\ Len(s) # 0 /\ \A i \in 1 .. Len(s) : s[i] \in Nodes
  BY EmptySeq, ElementOfSeq
<1>4. /\ e' = s[Len(s)]
      /\ owners' = [owners EXCEPT ![s[Len(s)]] = (@ \ {Queue}) \cup {Consumer}]
      /\ cache' = IF Len(s) = 1 THEN Null ELSE s[Len(s) - 1]
      /\ next' = [LinkBack(next, s) EXCEPT ![s[Len(s)]] = Null]
  <2>1. PICK q \in NodeSeqs :
            /\ IsChain(next, q, head)
            /\ IF Len(q) = 0
                 THEN e' = Null /\ UNCHANGED <<cache, next, owners>>
                 ELSE /\ HandOver(q[Len(q)])
                      /\ cache' = IF Len(q) = 1 THEN Null ELSE q[Len(q) - 1]
                      /\ next' = [LinkBack(next, q) EXCEPT ![q[Len(q)]] = Null]
    BY DEF PopStack
  <2>2. q \in Seq(Nodes)
    BY NodeSeqsAre
  <2>3. q = s
    BY <2>1, <2>2, OneChain DEF InLists
  <2> QED
    BY <1>3, <2>1, <2>3 DEF HandOver
<1> PICK n \in Nodes : n = s[Len(s)]
  BY <1>3
<1>5. n \in NodesOf(s) /\ n \in Queued
  <2>1. Len(s) \in 1 .. Len(s)
    BY <1>3
  <2> QED
    BY <2>1 DEF NodesOf, InLists
<1>6. next \in [Nodes -> Links]
  BY DEF TypeOK
<1>7. PICK r \in Seq(Nodes) : /\ Reversed(s) = <<n>> \o r
                              /\ IsChain(next', r, cache') /\ Distinct(r)
                              /\ NodesOf(r) = NodesOf(s) \ {n}
  <2>1. Distinct(s)
    BY DEF InLists
  <2> QED
    BY <1>4, <1>6, <2>1, ChainBack
<1>8. Queue \notin owners'[n] /\ \A k \in Nodes \ {n} : owners'[k] = owners[k]
  BY <1>4 DEF TypeOK, Queue, Consumer
<1>9. Queued' = Queued \ {n}
  BY <1>8 DEF Queued
<1>10. NodesOf(s) = Queued
  BY <1>2 DEF InLists
<1>11. InLists(<<>>, r)'
  BY <1>1, <1>7, <1>9, <1>10, EmptyIsChain DEF InLists
<1>12. cache' \in Links
  <2>1. \A k \in Nat : k # 0 /\ k # 1 => k - 1 \in 1 .. k
    OBVIOUS
  <2> QED
    BY <1>3, <1>4, <2>1, LinksAre
<1>13. \A k \in Nodes : LinkBack(next, s)[k] \in Links
  <2> SUFFICES ASSUME NEW k \in Nodes PROVE LinkBack(next, s)[k] \in Links
    OBVIOUS
  <2> DEFINE at == {i \in 1 .. Len(s) : s[i] = k}
  <2>1. LinkBack(next, s)[k] = IF at = {} THEN next[k]
                               ELSE IF 1 \in at THEN Null
                               ELSE s[(CHOOSE i \in at : TRUE) - 1]
    BY DEF LinkBack
  <2>2. at # {} => (CHOOSE i \in at : TRUE) \in at
    OBVIOUS
  <2>3. \A i \in at : 1 \notin at => i - 1 \in 1 .. Len(s)
    BY <1>3
  <2> QED
    BY <1>3, <1>6, <2>1, <2>2, <2>3, LinksAre
<1>14. \A k \in Nodes \ Queued : LinkBack(next, s)[k] = next[k]
  <2> SUFFICES ASSUME NEW k \in Nodes \ Queued PROVE LinkBack(next, s)[k] = next[k]
    OBVIOUS
  <2>1. {i \in 1 .. Len(s) : s[i] = k} = {}
    BY <1>10 DEF NodesOf
  <2> QED
    BY <2>1 DEF LinkBack
<1>15. LinkBack(next, s) = [k \in Nodes |-> LinkBack(next, s)[k]]
  BY DEF LinkBack
<1>16. next' \in [Nodes -> Links] /\ \A k \in Nodes \ Queued : next'[k] = next[k]
  BY <1>4, <1>5, <1>13, <1>14, <1>15, LinksAre
<1> QED
  BY <1>1, <1>2, <1>4, <1>5, <1>7, <1>11, <1>12, <1>16, LinksAre

(* ... or nothing, when that is empty too. *)
LEMMA NonePopped ==
  ASSUME PopStack, NEW s \in Seq(Nodes), NEW l \in Seq(Nodes), InLists(s, l), s = <<>>
  PROVE  /\ e' = Null /\ cache = Null /\ head = Null
         /\ UNCHANGED <<head, cache, next, owners>>
<1>1. cache = Null /\ head' = Null
  BY DEF PopStack
<1>2. head = Null /\ Len(s) = 0
  BY EmptySeq DEF InLists, IsChain
<1>3. PICK q \in NodeSeqs :
          /\ IsChain(next, q, head)
          /\ Len(q) = 0 => e' = Null /\ UNCHANGED <<cache, next, owners>>
  BY DEF PopStack
<1>4. q = s
  BY <1>3, NodeSeqsAre, OneChain DEF InLists
<1> QED
  BY <1>1, <1>2, <1>3, <1>4

-----------------------------------------------------------------------------
(* Steps *)

(* What a step of the consumer that pops does to what it knows nothing of. *)
Popped ==
    /\ next' \in [Nodes -> Links] /\ head' \in Links /\ cache' \in Links /\ e' \in Links
    /\ \A k \in Nodes \ Queued : next'[k] = next[k]
    /\ \/ /\ e' \in Queued
          /\ owners' = [owners EXCEPT ![e'] = (@ \ {Queue}) \cup {Consumer}]
       \/ /\ e' = Null /\ cache' = Null /\ head' = Null /\ UNCHANGED owners

LEMMA PopStep ==
  ASSUME TypeOK, Lists, PopNode
  PROVE  Lists' /\ Popped
<1>1. PICK s \in Seq(Nodes), l \in Seq(Nodes) : InLists(s, l)
  BY DEF Lists
<1>2. CASE PopCached
  BY <1>1, <1>2, CachedPopped, LinksAre DEF Lists, Popped
<1>3. CASE PopStack /\ s # <<>>
  <2>1. <<>> \in Seq(Nodes)
    BY EmptySeq
  <2> QED
    BY <1>1, <1>3, <2>1, StackPopped, LinksAre DEF Lists, Popped
<1>4. CASE PopStack /\ s = <<>>
  <2>1. /\ e' = Null /\ cache = Null /\ head = Null
        /\ UNCHANGED <<head, cache, next, owners>>
    BY <1>1, <1>4, NonePopped
  <2>2. Queued' = Queued
    BY <2>1 DEF Queued
  <2> QED
    BY <2>1, <2>2, ListsSame, LinksAre DEF Popped, TypeOK
<1> QED
  BY <1>2, <1>3, <1>4 DEF PopNode

LEMMA InitHolds == Init => IInv
<1> SUFFICES ASSUME Init PROVE IInv
  OBVIOUS
<1>1. TypeOK /\ Control /\ Owning /\ NoLostWakeup
  BY ProducersAssumption, LinksAre
     DEF Init, TypeOK, Control, Owning, NoLostWakeup, ProducerPC, ConsumerPC, Modes, Forms,
         Free, Consumer
<1>2. Lists
  <2>1. Queued = {}
    BY DEF Init, Queued
  <2>2. IsChain(next, <<>>, Null) /\ <<>> \in Seq(Nodes) /\ NodesOf(<<>>) = {} /\ Distinct(<<>>)
    BY EmptyIsChain
  <2> QED
    BY <2>1, <2>2 DEF Init, Lists, InLists
<1> QED
  BY <1>1, <1>2 DEF IInv

(* The types of the variables. *)
LEMMA StepTypeOK == IInv /\ [Next]_vars => TypeOK'
<1> SUFFICES ASSUME IInv, [Next]_vars PROVE TypeOK'
  OBVIOUS
<1> USE LinksAre DEF TypeOK, ProducerPC, ConsumerPC, Modes, Forms, listVars, producerVars, callVars
<1>0. TypeOK /\ Owning /\ Lists
  BY DEF IInv
<1>1. ASSUME NEW p \in Producers, Push(p) PROVE TypeOK'
  <2>1. CASE PushLoad(p)
    <3>1. PICK n \in Nodes, f \in Forms :
              /\ owners' = [owners EXCEPT ![n] = {p}]
              /\ next' = [next EXCEPT ![n] = head]
              /\ elem' = [elem EXCEPT ![p] = n]
              /\ form' = [form EXCEPT ![p] = f]
      BY <2>1 DEF PushLoad
    <3> QED
      BY <1>0, <2>1, <3>1 DEF PushLoad
  <2>2. CASE CasSucceeds(p)
    <3>1. elem[p] \in Nodes
      BY <1>0, <2>2 DEF CasSucceeds, Owning
    <3> QED
      BY <1>0, <2>2, <3>1 DEF CasSucceeds
  <2>3. CASE CasFails(p)
    BY <1>0, <2>3 DEF CasFails
  <2>4. CASE DropReference(p)
    BY <1>0, <2>4 DEF DropReference
  <2>5. CASE CheckBlocked(p) \/ LockToNotify(p)
    BY <1>0, <2>5 DEF CheckBlocked, LockToNotify
  <2>6. CASE NotifyAndUnlock(p)
    BY <1>0, <2>6 DEF NotifyAndUnlock
  <2> QED
    BY <1>1, <2>1, <2>2, <2>3, <2>4, <2>5, <2>6 DEF Push
<1>2. ASSUME PopNode PROVE /\ next' \in [Nodes -> Links] /\ head' \in Links /\ cache' \in Links
                           /\ e' \in Links
                           /\ owners' \in [Nodes -> SUBSET (Producers \cup {Consumer, Queue})]
  <2>1. Popped
    BY <1>0, <1>2, PopStep
  <2> QED
    BY <1>0, <2>1 DEF Popped, Queued
<1>3. CASE FirstPop
  BY <1>0, <1>2, <1>3 DEF FirstPop
<1>4. CASE PopAgain
  BY <1>0, <1>2, <1>4 DEF PopAgain
<1>5. CASE LetGo
  BY <1>0, <1>5 DEF LetGo
<1>6. CASE Pop /\ ~ (FirstPop \/ PopAgain \/ LetGo)
  BY <1>0, <1>6 DEF Pop, Call, Lock, Block, Wait, Relock, Unblock, Return
<1>7. CASE SpuriousWakeup \/ Timeout
  BY <1>0, <1>7 DEF SpuriousWakeup, Timeout
<1>8. CASE UNCHANGED vars
  BY <1>0, <1>8 DEF vars
<1> QED
  BY <1>1, <1>3, <1>4, <1>5, <1>6, <1>7, <1>8 DEF Next

(* Mutual exclusion, blocked_ and the consumer's hand. *)
LEMMA StepControl == IInv /\ [Next]_vars => Control'
<1> SUFFICES ASSUME IInv, [Next]_vars PROVE Control'
  OBVIOUS
<1> USE ProducersAssumption
    DEF TypeOK, ProducerPC, ConsumerPC, Control, producerVars, callVars, Consumer, Free
<1>0. TypeOK /\ Control
  BY DEF IInv
<1>1. ASSUME NEW p \in Producers, Push(p) PROVE Control'
  <2>1. CASE PushLoad(p)
    BY <1>0, <2>1 DEF PushLoad
  <2>2. CASE CasSucceeds(p) \/ CasFails(p)
    BY <1>0, <2>2 DEF CasSucceeds, CasFails
  <2>3. CASE DropReference(p) \/ CheckBlocked(p)
    BY <1>0, <2>3 DEF DropReference, CheckBlocked
  <2>4. CASE LockToNotify(p)
    BY <1>0, <2>4 DEF LockToNotify
  <2>5. CASE NotifyAndUnlock(p)
    BY <1>0, <2>5 DEF NotifyAndUnlock
  <2> QED
    BY <1>1, <2>1, <2>2, <2>3, <2>4, <2>5 DEF Push
<1>2. CASE FirstPop \/ PopAgain
  BY <1>0, <1>2 DEF FirstPop, PopAgain
<1>3. CASE LetGo \/ Return
  BY <1>0, <1>3 DEF LetGo, Return
<1>4. CASE Pop /\ ~ (FirstPop \/ PopAgain \/ LetGo \/ Return)
  BY <1>0, <1>4 DEF Pop, Call, Lock, Block, Wait, Relock, Unblock
<1>5. CASE SpuriousWakeup \/ Timeout
  BY <1>0, <1>5 DEF SpuriousWakeup, Timeout
<1>6. CASE UNCHANGED vars
  BY <1>0, <1>6 DEF vars
<1> QED
  BY <1>1, <1>2, <1>3, <1>4, <1>5, <1>6 DEF Next

(* Who has a node in hand owns it, and nobody links a node but its owner.   *)
LEMMA StepOwning == IInv /\ [Next]_vars => Owning'
<1> SUFFICES ASSUME IInv, [Next]_vars PROVE Owning'
  OBVIOUS
<1>0. TypeOK /\ Control /\ Owning /\ Lists
  BY DEF IInv
<1> DEFINE Cas(p)  == elem[p] \in Nodes /\ owners[elem[p]] = {p} /\ next[elem[p]] = stale[p]
           Drop(p) == elem[p] \in Nodes /\ p \in owners[elem[p]]
<1>1. /\ \A p \in Producers : ppc[p] = "cas" => Cas(p)
      /\ \A p \in Producers : ppc[p] = "drop" => Drop(p)
      /\ e # Null => e \in Nodes /\ Consumer \in owners[e]
      /\ \A n \in Nodes : Queue \notin owners[n] \/ Consumer \notin owners[n]
  BY <1>0, LinksAre DEF Owning, TypeOK
<1>2. \A p \in Producers : p # Queue /\ p # Consumer
  BY ProducersAssumption
<1>3. Queue # Consumer
  BY DEF Queue, Consumer
<1> HIDE DEF Cas, Drop
<1>4. ASSUME NEW p \in Producers, PushLoad(p) PROVE Owning'
  <2>1. PICK n \in Nodes :
            /\ owners[n] = {}
            /\ owners' = [owners EXCEPT ![n] = {p}]
            /\ next' = [next EXCEPT ![n] = head]
            /\ elem' = [elem EXCEPT ![p] = n]
    BY <1>4 DEF PushLoad
  <2>2. /\ ppc[p] = "idle" /\ stale' = [stale EXCEPT ![p] = head]
        /\ ppc' = [ppc EXCEPT ![p] = "cas"] /\ e' = e
    BY <1>4 DEF PushLoad
  <2>3. ASSUME NEW q \in Producers, ppc'[q] = "cas" PROVE Cas(q)'
    <3>1. CASE q = p
      BY <1>0, <2>1, <2>2, <3>1 DEF TypeOK, Cas
    <3>2. CASE q # p
      <4>1. /\ elem'[q] = elem[q] /\ stale'[q] = stale[q] /\ Cas(q)
        BY <1>0, <1>1, <2>1, <2>2, <2>3, <3>2 DEF TypeOK
      <4>2. elem[q] # n
        BY <2>1, <4>1 DEF Cas
      <4> QED
        BY <1>0, <2>1, <4>1, <4>2 DEF TypeOK, Cas
    <3> QED
      BY <3>1, <3>2
  <2>4. ASSUME NEW q \in Producers, ppc'[q] = "drop" PROVE Drop(q)'
    <3>1. /\ q # p /\ elem'[q] = elem[q] /\ Drop(q)
      BY <1>0, <1>1, <2>1, <2>2, <2>4 DEF TypeOK
    <3>2. elem[q] # n
      BY <2>1, <3>1 DEF Drop
    <3> QED
      BY <1>0, <2>1, <3>1, <3>2 DEF TypeOK, Drop
  <2>5. e # Null => e # n
    BY <1>1, <2>1
  <2>6. \A k \in Nodes : Queue \notin owners'[k] \/ Consumer \notin owners'[k]
    BY <1>0, <1>1, <1>2, <2>1 DEF TypeOK
  <2>7. e' # Null => Consumer \in owners'[e']
    BY <1>0, <1>1, <2>1, <2>2, <2>5 DEF TypeOK
  <2> QED
    BY <2>3, <2>4, <2>6, <2>7 DEF Owning, Cas, Drop
<1>5. ASSUME NEW p \in Producers, CasSucceeds(p) PROVE Owning'
  <2>1. /\ ppc[p] = "cas"
        /\ owners' = [owners EXCEPT ![elem[p]] =
                          IF form[p] = "move" THEN {Queue} ELSE {p, Queue}]
        /\ ppc' = [ppc EXCEPT ![p] = IF form[p] = "move" THEN "check" ELSE "drop"]
        /\ UNCHANGED <<next, elem, stale, e>>
    BY <1>5 DEF CasSucceeds
  <2>2. Cas(p)
    BY <1>1, <2>1
  <2> PICK n \in Nodes : n = elem[p]
    BY <2>2 DEF Cas
  <2>3. owners[n] = {p}
    BY <2>2 DEF Cas
  <2>4. /\ owners'[n] = IF form[p] = "move" THEN {Queue} ELSE {p, Queue}
        /\ \A k \in Nodes \ {n} : owners'[k] = owners[k]
    BY <1>0, <2>1 DEF TypeOK
  <2>5. ASSUME NEW q \in Producers, ppc'[q] = "cas" PROVE Cas(q)'
    <3>1. q # p /\ Cas(q)
      BY <1>0, <1>1, <2>1, <2>5 DEF TypeOK
    <3>2. elem[q] # n
      BY <2>3, <3>1 DEF Cas
    <3> QED
      BY <2>1, <2>4, <3>1, <3>2 DEF Cas
  <2>6. ASSUME NEW q \in Producers, ppc'[q] = "drop" PROVE Drop(q)'
    <3>1. CASE q = p
      <4>1. form[p] # "move"
        BY <1>0, <2>1, <2>6, <3>1 DEF TypeOK
      <4> QED
        BY <2>1, <2>4, <3>1, <4>1 DEF Drop
    <3>2. CASE q # p
      <4>1. Drop(q)
        BY <1>0, <1>1, <2>1, <2>6, <3>2 DEF TypeOK
      <4>2. elem[q] # n
        BY <2>3, <3>2, <4>1 DEF Drop
      <4> QED
        BY <2>1, <2>4, <4>1, <4>2 DEF Drop
    <3> QED
      BY <3>1, <3>2
  <2>7. e # Null => e # n
    BY <1>1, <1>2, <2>3
  <2>8. \A k \in Nodes : Queue \notin owners'[k] \/ Consumer \notin owners'[k]
    BY <1>1, <1>2, <1>3, <2>4
  <2>9. e' # Null => Consumer \in owners'[e']
    BY <1>1, <2>1, <2>4, <2>7
  <2> QED
    BY <2>5, <2>6, <2>8, <2>9 DEF Owning, Cas, Drop
<1>6. ASSUME NEW p \in Producers, CasFails(p) PROVE Owning'
  <2>1. /\ ppc[p] = "cas" /\ stale' = [stale EXCEPT ![p] = head]
        /\ next' = [next EXCEPT ![elem[p]] = head]
        /\ UNCHANGED <<owners, ppc, elem, e>>
    BY <1>6 DEF CasFails
  <2>2. Cas(p)
    BY <1>1, <2>1
  <2>3. ASSUME NEW q \in Producers, ppc[q] = "cas" PROVE Cas(q)'
    <3>1. CASE q = p
      BY <1>0, <2>1, <2>2, <3>1 DEF TypeOK, Cas
    <3>2. CASE q # p
      <4>1. Cas(q) /\ elem[q] # elem[p]
        BY <1>1, <2>2, <2>3, <3>2 DEF Cas
      <4> QED
        BY <1>0, <2>1, <3>2, <4>1 DEF TypeOK, Cas
    <3> QED
      BY <3>1, <3>2
  <2>4. \A q \in Producers : ppc[q] = "drop" => Drop(q)'
    BY <1>1, <2>1 DEF Drop
  <2> QED
    BY <1>1, <2>1, <2>3, <2>4 DEF Owning, Cas, Drop
<1>7. ASSUME NEW p \in Producers, DropReference(p) PROVE Owning'
  <2>1. /\ ppc[p] = "drop" /\ owners' = [owners EXCEPT ![elem[p]] = @ \ {p}]
        /\ ppc' = [ppc EXCEPT ![p] = "check"] /\ UNCHANGED <<next, elem, stale, e>>
    BY <1>7 DEF DropReference, listVars
  <2>2. \A k \in Nodes : /\ \A x \in {Queue, Consumer} : x \in owners'[k] <=> x \in owners[k]
                         /\ \A q \in Producers : q # p => (q \in owners'[k] <=> q \in owners[k])
    BY <1>0, <1>2, <2>1 DEF TypeOK
  <2>3. Drop(p)
    BY <1>1, <2>1
  <2>4. ASSUME NEW q \in Producers, ppc'[q] = "cas" PROVE Cas(q)'
    <3>1. q # p /\ Cas(q)
      BY <1>0, <1>1, <2>1, <2>4 DEF TypeOK
    <3>2. elem[q] # elem[p]
      BY <2>3, <3>1 DEF Cas, Drop
    <3> QED
      BY <1>0, <2>1, <2>3, <3>1, <3>2 DEF Cas, Drop, TypeOK
  <2>5. ASSUME NEW q \in Producers, ppc'[q] = "drop" PROVE Drop(q)'
    <3>1. q # p /\ Drop(q)
      BY <1>0, <1>1, <2>1, <2>5 DEF TypeOK
    <3> QED
      BY <2>1, <2>2, <3>1 DEF Drop
  <2>6. e' # Null => Consumer \in owners'[e']
    BY <1>1, <2>1, <2>2
  <2>7. \A k \in Nodes : Queue \notin owners'[k] \/ Consumer \notin owners'[k]
    BY <1>1, <2>2
  <2> QED
    BY <2>4, <2>5, <2>6, <2>7 DEF Owning, Cas, Drop
<1>8. ASSUME NEW p \in Producers, CheckBlocked(p) \/ LockToNotify(p) \/ NotifyAndUnlock(p)
      PROVE  Owning'
  <2>1. /\ \E x \in {"lock", "idle", "notify"} : ppc' = [ppc EXCEPT ![p] = x]
        /\ UNCHANGED <<next, owners, elem, stale, e>>
    BY <1>8 DEF CheckBlocked, LockToNotify, NotifyAndUnlock, listVars
  <2>2. \A q \in Producers : ppc'[q] \in {"cas", "drop"} => ppc'[q] = ppc[q]
    BY <1>0, <2>1 DEF TypeOK
  <2> QED
    BY <1>0, <2>1, <2>2 DEF Owning
<1>9. CASE FirstPop \/ PopAgain
  <2>1. PopNode /\ e = Null /\ UNCHANGED <<ppc, elem, stale>>
    BY <1>0, <1>9 DEF FirstPop, PopAgain, Control, producerVars
  <2>2. Popped
    BY <1>0, <2>1, PopStep
  <2>3. CASE e' \in Queued /\ owners' = [owners EXCEPT ![e'] = (@ \ {Queue}) \cup {Consumer}]
    <3>1. e' \in Nodes /\ Queue \in owners[e']
      BY <2>3 DEF Queued
    <3> PICK n \in Nodes : n = e'
      BY <3>1
    <3>2. /\ owners'[n] = (owners[n] \ {Queue}) \cup {Consumer}
          /\ \A k \in Nodes \ {n} : owners'[k] = owners[k]
      BY <1>0, <2>3 DEF TypeOK
    <3>3. ASSUME NEW q \in Producers, ppc[q] = "cas" PROVE Cas(q)'
      <4>1. Cas(q)
        BY <1>1, <3>3
      <4>2. elem[q] # n /\ elem[q] \in Nodes \ Queued
        BY <1>2, <3>1, <4>1 DEF Cas, Queued
      <4> QED
        BY <2>1, <2>2, <3>2, <4>1, <4>2 DEF Cas, Popped
    <3>4. ASSUME NEW q \in Producers, ppc[q] = "drop" PROVE Drop(q)'
      <4>1. Drop(q)
        BY <1>1, <3>4
      <4> QED
        BY <1>2, <2>1, <3>2, <4>1 DEF Drop
    <3>5. Consumer \in owners'[n] /\ Queue \notin owners'[n]
      BY <1>3, <3>2
    <3> QED
      BY <1>1, <2>1, <3>2, <3>3, <3>4, <3>5 DEF Owning, Cas, Drop
  <2>4. CASE e' = Null /\ UNCHANGED owners
    <3>1. ASSUME NEW q \in Producers, ppc[q] = "cas" PROVE Cas(q)'
      <4>1. Cas(q)
        BY <1>1, <3>1
      <4>2. elem[q] \in Nodes \ Queued
        BY <1>2, <4>1 DEF Cas, Queued
      <4> QED
        BY <2>1, <2>2, <2>4, <4>1, <4>2 DEF Cas, Popped
    <3>2. \A q \in Producers : ppc[q] = "drop" => Drop(q)'
      BY <1>1, <2>1, <2>4 DEF Drop
    <3> QED
      BY <1>1, <2>1, <2>4, <3>1, <3>2 DEF Owning, Cas, Drop
  <2> QED
    BY <2>2, <2>3, <2>4 DEF Popped
<1>10. CASE LetGo
  <2>1. /\ cpc = "use" /\ owners' = [owners EXCEPT ![e] = @ \ {Consumer}] /\ e' = Null
        /\ UNCHANGED <<next, ppc, elem, stale>>
    BY <1>10 DEF LetGo, listVars, producerVars
  <2>2. e \in Nodes /\ Consumer \in owners[e]
    BY <1>0, <1>1, <2>1 DEF Control
  <2>3. \A k \in Nodes : /\ \A x \in Producers \cup {Queue} : x \in owners'[k] <=> x \in owners[k]
                         /\ Consumer \in owners'[k] => Consumer \in owners[k]
    BY <1>0, <1>2, <1>3, <2>1 DEF TypeOK
  <2>4. ASSUME NEW q \in Producers, ppc[q] = "cas" PROVE Cas(q)'
    <3>1. Cas(q) /\ elem[q] # e
      BY <1>1, <1>2, <2>2, <2>4 DEF Cas
    <3> QED
      BY <1>0, <2>1, <2>2, <3>1 DEF Cas, TypeOK
  <2>5. ASSUME NEW q \in Producers, ppc[q] = "drop" PROVE Drop(q)'
    <3>1. Drop(q)
      BY <1>1, <2>5
    <3> QED
      BY <2>1, <2>3, <3>1 DEF Drop
  <2> QED
    BY <1>1, <2>1, <2>3, <2>4, <2>5 DEF Owning, Cas, Drop
<1>11. CASE Pop /\ ~ (FirstPop \/ PopAgain \/ LetGo)
  <2>1. UNCHANGED <<next, owners, ppc, elem, stale, e>>
    BY <1>11 DEF Pop, Call, Lock, Block, Wait, Relock, Unblock, Return, listVars, producerVars
  <2> QED
    BY <1>0, <2>1 DEF Owning
<1>12. CASE SpuriousWakeup \/ Timeout \/ UNCHANGED vars
  <2>1. UNCHANGED <<next, owners, ppc, elem, stale, e>>
    BY <1>12 DEF SpuriousWakeup, Timeout, vars, listVars, producerVars
  <2> QED
    BY <1>0, <2>1 DEF Owning
<1> QED
  BY <1>4, <1>5, <1>6, <1>7, <1>8, <1>9, <1>10, <1>11, <1>12 DEF Next, Push

(* The lists stay sound: only the successful compare-and-swap and the       *)
(* exchange change what is queued.                                          *)
LEMMA StepLists == IInv /\ [Next]_vars => Lists'
<1> SUFFICES ASSUME IInv, [Next]_vars PROVE Lists'
  OBVIOUS
<1>0. TypeOK /\ Control /\ Owning /\ Lists
  BY DEF IInv
<1>1. \A p \in Producers : p # Queue
  BY ProducersAssumption
<1>2. ASSUME NEW p \in Producers, PushLoad(p) PROVE Lists'
  <2>1. PICK n \in Nodes :
            /\ owners[n] = {}
            /\ owners' = [owners EXCEPT ![n] = {p}]
            /\ next' = [next EXCEPT ![n] = head]
    BY <1>2 DEF PushLoad
  <2>2. UNCHANGED <<head, cache>>
    BY <1>2 DEF PushLoad
  <2>3. n \notin Queued /\ Queued' = Queued
    BY <1>0, <1>1, <2>1 DEF Queued, TypeOK
  <2> QED
    BY <1>0, <2>1, <2>2, <2>3, ListsKept
<1>3. ASSUME NEW p \in Producers, CasSucceeds(p) PROVE Lists'
  <2>1. PICK s \in Seq(Nodes), l \in Seq(Nodes) : InLists(s, l)
    BY <1>0 DEF Lists
  <2> QED
    BY <1>0, <1>3, <2>1, Pushed DEF Lists
<1>4. ASSUME NEW p \in Producers, CasFails(p) PROVE Lists'
  <2>1. /\ ppc[p] = "cas" /\ next' = [next EXCEPT ![elem[p]] = head]
        /\ UNCHANGED <<head, cache, owners>>
    BY <1>4 DEF CasFails
  <2>2. elem[p] \in Nodes /\ elem[p] \notin Queued /\ Queued' = Queued
    BY <1>0, <1>1, <2>1 DEF Owning, Queued
  <2> QED
    BY <1>0, <2>1, <2>2, ListsKept
<1>5. ASSUME NEW p \in Producers, DropReference(p) PROVE Lists'
  <2>1. owners' = [owners EXCEPT ![elem[p]] = @ \ {p}] /\ UNCHANGED <<head, cache, next>>
    BY <1>5 DEF DropReference, listVars
  <2>2. Queued' = Queued
    BY <1>0, <1>1, <2>1 DEF Queued, TypeOK
  <2> QED
    BY <1>0, <2>1, <2>2, ListsSame
<1>6. CASE FirstPop \/ PopAgain
  BY <1>0, <1>6, PopStep DEF FirstPop, PopAgain
<1>7. CASE LetGo
  <2>1. owners' = [owners EXCEPT ![e] = @ \ {Consumer}] /\ UNCHANGED <<head, cache, next>>
    BY <1>7 DEF LetGo, listVars
  <2>2. Queued' = Queued
    BY <1>0, <2>1 DEF Queued, TypeOK, Queue, Consumer
  <2> QED
    BY <1>0, <2>1, <2>2, ListsSame
<1>8. ASSUME UNCHANGED <<head, cache, next, owners>> PROVE Lists'
  BY <1>0, <1>8, ListsSame DEF Queued
<1>9. ASSUME NEW p \in Producers, CheckBlocked(p) \/ LockToNotify(p) \/ NotifyAndUnlock(p)
      PROVE  Lists'
  BY <1>8, <1>9 DEF CheckBlocked, LockToNotify, NotifyAndUnlock, listVars
<1>10. CASE Pop /\ ~ (FirstPop \/ PopAgain \/ LetGo)
  BY <1>8, <1>10 DEF Pop, Call, Lock, Block, Wait, Relock, Unblock, Return, listVars
<1>11. CASE SpuriousWakeup \/ Timeout \/ UNCHANGED vars
  BY <1>8, <1>11 DEF SpuriousWakeup, Timeout, vars, listVars
<1> QED
  BY <1>2, <1>3, <1>4, <1>5, <1>6, <1>7, <1>9, <1>10, <1>11 DEF Next, Push

(* A node comes on the stack with a producer that will look at blocked_,   *)
(* and one that saw it set keeps the wakeup in its hands until the          *)
(* consumer, which cannot hold the mutex meanwhile, waits.                  *)
LEMMA StepNoLostWakeup == IInv /\ [Next]_vars => NoLostWakeup'
<1> SUFFICES ASSUME IInv, [Next]_vars PROVE NoLostWakeup'
  OBVIOUS
<1> USE DEF NoLostWakeup
<1>0. TypeOK /\ Control /\ Owning /\ Lists /\ NoLostWakeup
  BY DEF IInv
<1>1. ASSUME NEW p \in Producers, PushLoad(p) PROVE NoLostWakeup'
  <2>1. ppc[p] = "idle" /\ ppc' = [ppc EXCEPT ![p] = "cas"] /\ UNCHANGED <<head, cache, cpc>>
    BY <1>1 DEF PushLoad, callVars
  <2> QED
    BY <1>0, <2>1 DEF TypeOK
<1>2. ASSUME NEW p \in Producers, CasSucceeds(p) PROVE NoLostWakeup'
  <2>1. /\ ppc' = [ppc EXCEPT ![p] = IF form[p] = "move" THEN "check" ELSE "drop"]
        /\ UNCHANGED <<cache, cpc>>
    BY <1>2 DEF CasSucceeds, callVars
  <2> QED
    BY <1>0, <2>1 DEF TypeOK
<1>3. ASSUME NEW p \in Producers, CasFails(p) PROVE NoLostWakeup'
  BY <1>0, <1>3 DEF CasFails, callVars
<1>4. ASSUME NEW p \in Producers, DropReference(p) PROVE NoLostWakeup'
  <2>1. ppc' = [ppc EXCEPT ![p] = "check"] /\ UNCHANGED <<head, cache, cpc>>
    BY <1>4 DEF DropReference, callVars, listVars
  <2> QED
    BY <1>0, <2>1 DEF TypeOK
<1>5. ASSUME NEW p \in Producers, CheckBlocked(p) PROVE NoLostWakeup'
  <2>1. /\ ppc[p] = "check" /\ ppc' = [ppc EXCEPT ![p] = IF blocked THEN "lock" ELSE "idle"]
        /\ UNCHANGED <<head, cache, cpc>>
    BY <1>5 DEF CheckBlocked, callVars, listVars
  <2>2. cpc \in {"wait", "waiting"} => blocked
    BY <1>0 DEF Control
  <2> QED
    BY <1>0, <2>1, <2>2 DEF TypeOK
<1>6. ASSUME NEW p \in Producers, LockToNotify(p) PROVE NoLostWakeup'
  <2>1. ppc' = [ppc EXCEPT ![p] = "notify"] /\ UNCHANGED <<head, cache, cpc>>
    BY <1>6 DEF LockToNotify, callVars, listVars
  <2> QED
    BY <1>0, <2>1 DEF TypeOK
<1>7. ASSUME NEW p \in Producers, NotifyAndUnlock(p) PROVE NoLostWakeup'
  <2>1. mutex = p /\ p # Consumer
    BY <1>0, <1>7, ProducersAssumption DEF NotifyAndUnlock, Control
  <2>2. cpc # "wait"
    BY <1>0, <2>1 DEF Control
  <2>3. cpc' \notin {"wait", "waiting"}
    BY <1>7, <2>2 DEF NotifyAndUnlock
  <2> QED
    BY <2>3
<1>8. CASE FirstPop
  BY <1>8 DEF FirstPop
<1>9. CASE PopAgain
  <2>1. Popped /\ (cpc' \in {"wait", "waiting"} => e' = Null)
    BY <1>0, <1>9, PopStep DEF PopAgain
  <2>2. e' = Null => cache' = Null /\ head' = Null
    BY <2>1, NodesAssumption DEF Popped, Queued
  <2> QED
    BY <2>1, <2>2
<1>10. CASE Pop /\ ~ (FirstPop \/ PopAgain)
  BY <1>0, <1>10 DEF Pop, Call, Lock, Block, Wait, Relock, Unblock, Return, LetGo,
                     listVars, producerVars
<1>11. CASE SpuriousWakeup \/ Timeout \/ UNCHANGED vars
  BY <1>0, <1>11 DEF SpuriousWakeup, Timeout, vars, listVars, producerVars
<1> QED
  BY <1>1, <1>2, <1>3, <1>4, <1>5, <1>6, <1>7, <1>8, <1>9, <1>10, <1>11 DEF Next, Push

LEMMA NextStep == IInv /\ [Next]_vars => IInv'
BY StepTypeOK, StepControl, StepOwning, StepLists, StepNoLostWakeup DEF IInv

LEMMA Invariance == Spec => []IInv
BY InitHolds, NextStep, PTL DEF Spec

(***************************************************************************)
(* Type correctness of the queue: a link leads to a node or to none, and a *)
(* node is queued, in somebody's hands or free (mpsc_queue, node_base).    *)
(***************************************************************************)
THEOREM TypeOKHolds == Spec => []TypeOK
<1>1. IInv => TypeOK
  BY DEF IInv
<1> QED
  BY Invariance, <1>1, PTL

(***************************************************************************)
(* The stack and the consumer's list end, share no node and hold what is   *)
(* in the queue, whatever the interleaving of push and pop and however     *)
(* often nodes come back (mpsc_queue::push, pop and get_cache).            *)
(***************************************************************************)
THEOREM SoundListsHolds == Spec => []SoundLists
<1>1. ASSUME IInv PROVE SoundLists
  <2>1. PICK s \in Seq(Nodes), l \in Seq(Nodes) : InLists(s, l)
    BY <1>1 DEF IInv, Lists
  <2>2. s \in NodeSeqs /\ l \in NodeSeqs
    BY <2>1, DistinctFits DEF InLists
  <2>3. Distinct(s \o l) /\ NodesOf(s \o l) = NodesOf(s) \cup NodesOf(l)
    BY <2>1, Concatenated DEF InLists
  <2> QED
    BY <2>1, <2>2, <2>3 DEF SoundLists, InLists, Queued
<1> QED
  BY Invariance, <1>1, PTL

(***************************************************************************)
(* Nobody uses a node that another thread may release, though push drops   *)
(* the reference of a shared one after the consumer may have got it        *)
(* (mpsc_queue::push, node_base::retain and release).                      *)
(***************************************************************************)
THEOREM NoUseAfterReleaseHolds == Spec => []NoUseAfterRelease
<1>1. IInv => NoUseAfterRelease
  BY DEF IInv, Owning, NoUseAfterRelease
<1> QED
  BY Invariance, <1>1, PTL

(***************************************************************************)
(* A consumer that waits, or is about to, has a producer on its way to     *)
(* wake it if there are nodes on the stack (synchronized_push and          *)
(* synchronized_pop).                                                      *)
(***************************************************************************)
THEOREM NoLostWakeupHolds == Spec => []NoLostWakeup
<1>1. IInv => NoLostWakeup
  BY DEF IInv
<1> QED
  BY Invariance, <1>1, PTL

-----------------------------------------------------------------------------
(* Refinement *)

Items == Chain(next, cache) \o Reversed(Chain(next, head))

LEMMA ItemsAre ==
  ASSUME NEW s \in Seq(Nodes), NEW l \in Seq(Nodes), InLists(s, l)
  PROVE  Items = l \o Reversed(s)
BY ChainIs DEF Items, InLists

LEMMA ItemsAreNext ==
  ASSUME NEW s \in Seq(Nodes), NEW l \in Seq(Nodes), InLists(s, l)'
  PROVE  Items' = l \o Reversed(s)
BY ChainIs DEF Items, InLists

(* The node comes last ... *)
LEMMA PushRefines ==
  ASSUME TypeOK, Owning, Lists, NEW p \in Producers, CasSucceeds(p)
  PROVE  elem[p] \in Nodes /\ Items' = Append(Items, elem[p]) /\ e' = e
<1>1. PICK s \in Seq(Nodes), l \in Seq(Nodes) : InLists(s, l)
  BY DEF Lists
<1>2. elem[p] \in Nodes /\ \E r \in Seq(Nodes) : r = <<elem[p]>> \o s /\ InLists(r, l)'
  BY <1>1, Pushed
<1> PICK n \in Nodes : n = elem[p]
  BY <1>2
<1>3. PICK r \in Seq(Nodes) : r = <<n>> \o s /\ InLists(r, l)'
  BY <1>2
<1>4. Reversed(s) \in Seq(Nodes) /\ Reversed(r) = Append(Reversed(s), n)
  BY <1>3, ReversedIs, ReversedPush
<1>5. l \o Reversed(s) \in Seq(Nodes) /\ <<n>> \in Seq(Nodes)
  BY <1>4, ConcatProperties
<1>6. /\ Append(Reversed(s), n) = Reversed(s) \o <<n>>
      /\ Append(l \o Reversed(s), n) = (l \o Reversed(s)) \o <<n>>
  BY <1>4, <1>5, AppendIsConcat
<1>7. (l \o Reversed(s)) \o <<n>> = l \o (Reversed(s) \o <<n>>)
  BY <1>4, <1>5, ConcatAssociative
<1>8. Items = l \o Reversed(s) /\ Items' = l \o Reversed(r)
  BY <1>1, <1>3, ItemsAre, ItemsAreNext
<1>9. e' = e
  BY DEF CasSucceeds
<1> QED
  BY <1>4, <1>6, <1>7, <1>8, <1>9

(* ... and the consumer gets the first. *)
LEMMA PopRefines ==
  ASSUME TypeOK, Lists, PopNode
  PROVE  \/ Items # <<>> /\ e' = Head(Items) /\ Items' = Tail(Items) /\ e' # Null
         \/ UNCHANGED Items /\ e' = Null
<1>1. PICK s \in Seq(Nodes), l \in Seq(Nodes) : InLists(s, l)
  BY DEF Lists
<1>2. Items = l \o Reversed(s) /\ Reversed(s) \in Seq(Nodes)
  BY <1>1, ItemsAre, ReversedIs
<1>3. CASE PopCached
  <2>1. e' \in Nodes /\ l # <<>> /\ e' = l[1] /\ Tail(l) \in Seq(Nodes) /\ InLists(s, Tail(l))'
    BY <1>1, <1>3, CachedPopped
  <2>2. Items' = Tail(l) \o Reversed(s)
    BY <2>1, ItemsAreNext
  <2>3. /\ l \o Reversed(s) # <<>> /\ Head(l \o Reversed(s)) = l[1]
        /\ Tail(l \o Reversed(s)) = Tail(l) \o Reversed(s)
    BY <1>2, <2>1, ConcatHead
  <2> QED
    BY <1>2, <2>1, <2>2, <2>3, NodesAssumption
<1>4. CASE PopStack /\ s # <<>>
  <2>1. e' \in Nodes /\ l = <<>>
        /\ \E r \in Seq(Nodes) : Reversed(s) = <<e'>> \o r /\ InLists(<<>>, r)'
    BY <1>1, <1>4, StackPopped
  <2> PICK n \in Nodes : n = e'
    BY <2>1
  <2>2. PICK r \in Seq(Nodes) : Reversed(s) = <<n>> \o r /\ InLists(<<>>, r)'
    BY <2>1
  <2>3. Items' = r \o Reversed(<<>>) /\ Reversed(<<>>) = <<>>
    BY <2>2, EmptySeq, ItemsAreNext, ReversedEmpty
  <2>4. Items' = r
    BY <2>3, ConcatEmptySeq
  <2>5. Items = <<n>> \o r
    BY <1>2, <2>1, <2>2, ConcatEmptySeq
  <2> QED
    BY <2>4, <2>5, SingleFirst, NodesAssumption
<1>5. CASE PopStack /\ s = <<>>
  BY <1>1, <1>5, NonePopped DEF Items
<1> QED
  BY <1>3, <1>4, <1>5 DEF PopNode

LEMMA NextRefines == IInv /\ [Next]_vars => [Fifo!Next]_(Fifo!vars)
<1> SUFFICES ASSUME IInv, [Next]_vars PROVE [Fifo!Next]_(Fifo!vars)
  OBVIOUS
<1>0. TypeOK /\ Control /\ Owning /\ Lists /\ Lists'
  BY NextStep DEF IInv
<1>1. ASSUME UNCHANGED <<Items, e>> PROVE [Fifo!Next]_(Fifo!vars)
  BY <1>1 DEF Fifo!vars, Items
<1>2. ASSUME UNCHANGED <<head, cache, next, e>> PROVE [Fifo!Next]_(Fifo!vars)
  BY <1>1, <1>2 DEF Items
<1>3. ASSUME NEW n \in Nodes, NEW m, UNCHANGED <<head, cache, e>>, n \notin Queued,
             next' = [next EXCEPT ![n] = m]
      PROVE  [Fifo!Next]_(Fifo!vars)
  <2>1. PICK s \in Seq(Nodes), l \in Seq(Nodes) : InLists(s, l)
    BY <1>0 DEF Lists
  <2>2. n \notin NodesOf(s) /\ n \notin NodesOf(l) /\ next \in [Nodes -> Links]
    BY <1>0, <1>3, <2>1 DEF InLists, TypeOK
  <2>3. IsChain(next', s, head') /\ IsChain(next', l, cache')
    BY <1>3, <2>1, <2>2, ChainKept DEF InLists
  <2>4. Chain(next', head') = s /\ Chain(next', cache') = l
    BY <2>1, <2>3, ChainIs DEF InLists
  <2>5. Items' = Items
    BY <2>1, <2>4, ItemsAre DEF Items
  <2> QED
    BY <1>1, <1>3, <2>5
<1>4. ASSUME NEW p \in Producers, PushLoad(p) PROVE [Fifo!Next]_(Fifo!vars)
  <2>1. PICK n \in Nodes : owners[n] = {} /\ next' = [next EXCEPT ![n] = head]
    BY <1>4 DEF PushLoad
  <2>2. UNCHANGED <<head, cache, e>> /\ n \notin Queued
    BY <1>4, <2>1 DEF PushLoad, Queued
  <2> QED
    BY <1>3, <2>1, <2>2
<1>5. ASSUME NEW p \in Producers, CasSucceeds(p) PROVE [Fifo!Next]_(Fifo!vars)
  <2>1. elem[p] \in Nodes /\ Items' = Append(Items, elem[p]) /\ e' = e
    BY <1>0, <1>5, PushRefines
  <2>2. Fifo!Push(elem[p])
    BY <2>1 DEF Fifo!Push, Items
  <2> QED
    BY <2>1, <2>2 DEF Fifo!Next
<1>6. ASSUME NEW p \in Producers, CasFails(p) PROVE [Fifo!Next]_(Fifo!vars)
  <2>1. /\ ppc[p] = "cas" /\ next' = [next EXCEPT ![elem[p]] = head]
        /\ UNCHANGED <<head, cache, e>>
    BY <1>6 DEF CasFails
  <2>2. elem[p] \in Nodes /\ elem[p] \notin Queued
    BY <1>0, <2>1, ProducersAssumption DEF Owning, Queued
  <2> QED
    BY <1>3, <2>1, <2>2
<1>7. ASSUME NEW p \in Producers,
             DropReference(p) \/ CheckBlocked(p) \/ LockToNotify(p) \/ NotifyAndUnlock(p)
      PROVE  [Fifo!Next]_(Fifo!vars)
  BY <1>2, <1>7 DEF DropReference, CheckBlocked, LockToNotify, NotifyAndUnlock, listVars
<1>8. CASE FirstPop \/ PopAgain
  <2>1. PopNode /\ e = Null
    BY <1>0, <1>8 DEF FirstPop, PopAgain, Control
  <2>2. CASE Items # <<>> /\ e' = Head(Items) /\ Items' = Tail(Items)
    BY <2>1, <2>2 DEF Fifo!Next, Fifo!Pop, Items
  <2>3. CASE UNCHANGED Items /\ e' = Null
    BY <1>1, <2>1, <2>3
  <2> QED
    BY <1>0, <2>1, <2>2, <2>3, PopRefines
<1>9. CASE LetGo
  <2>1. e # Null /\ e' = Null /\ UNCHANGED <<head, cache, next>>
    BY <1>0, <1>9 DEF LetGo, Control, listVars
  <2> QED
    BY <2>1 DEF Fifo!Next, Fifo!LetGo
<1>10. CASE Pop /\ ~ (FirstPop \/ PopAgain \/ LetGo)
  BY <1>2, <1>10 DEF Pop, Call, Lock, Block, Wait, Relock, Unblock, Return, listVars
<1>11. CASE SpuriousWakeup \/ Timeout \/ UNCHANGED vars
  BY <1>2, <1>11 DEF SpuriousWakeup, Timeout, vars, listVars
<1> QED
  BY <1>4, <1>5, <1>6, <1>7, <1>8, <1>9, <1>10, <1>11 DEF Next, Push

(***************************************************************************)
(* Elements come out in the order of the successful compare-and-swaps,     *)
(* each once, one in the consumer's hand at a time: the safety half of     *)
(* ImplementsFifo (mpsc_queue::push and pop).                              *)
(***************************************************************************)
THEOREM FifoRefined == Spec => Fifo!SafeSpec
<1>1. ASSUME Init PROVE Fifo!Init
  <2>1. IsChain(next, <<>>, Null) /\ <<>> \in Seq(Nodes) /\ Distinct(<<>>)
    BY EmptyIsChain
  <2>2. Chain(next, head) = <<>> /\ Chain(next, cache) = <<>>
    BY <1>1, <2>1, ChainIs DEF Init
  <2>3. <<>> \o Reversed(<<>>) = <<>>
    BY <2>1, ReversedEmpty, ConcatEmptySeq
  <2> QED
    BY <1>1, <2>2, <2>3 DEF Fifo!Init, Init
<1> QED
  BY <1>1, NextRefines, Invariance, PTL DEF Spec, Fifo!SafeSpec
=============================================================================
