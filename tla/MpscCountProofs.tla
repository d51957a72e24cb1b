--------------------------- MODULE MpscCountProofs ---------------------------
(***************************************************************************)
(* Safety of MpscCount for any set of producers and any number of          *)
(* increments.  The heart is the strengthening IInv: who holds the mutex,  *)
(* and when blocked_ is set, follow from where the threads are.            *)
(***************************************************************************)
EXTENDS MpscCount, TLAPS

(* The mutex is held by whom the program counters say. *)
MutexFollowsPC ==
    /\ \A p \in Producers : ppc[p] = "notify" <=> mutex = p
    /\ cpc \in {"block", "reset", "wait", "unblock"} => mutex = Consumer
    /\ mutex = Consumer => cpc \in {"block", "reset", "wait", "unblock", "unlock"}

(* blocked_ is set exactly between block() and unblock(): the assertion    *)
(* !blocked() that opens every synchronized_reset holds.                   *)
BlockedFollowsPC ==
    blocked <=> cpc \in {"reset", "wait", "waiting", "woken", "unblock"}

(* Nothing the consumer took is overwritten before it is returned. *)
CountInHand == c > 0 => cpc \in {"unblock", "unlock"}

IInv == TypeOK /\ MutexFollowsPC /\ BlockedFollowsPC /\ CountInHand
        /\ NoLostWakeup /\ Conservation

USE ProducersAssumption, MaxIncrAssumption DEF Consumer, Free

(* The initial state of the counter satisfies the invariant. *)
LEMMA InitIInv == Init => IInv
<1> SUFFICES ASSUME Init PROVE IInv
  OBVIOUS
<1> USE DEF Init
<1>1. TypeOK
  BY DEF TypeOK, ProducerPC, ConsumerPC, Modes
<1>2. MutexFollowsPC
  BY DEF MutexFollowsPC
<1>3. BlockedFollowsPC /\ CountInHand /\ NoLostWakeup /\ Conservation
  BY DEF BlockedFollowsPC, CountInHand, NoLostWakeup, Conservation
<1> QED
  BY <1>1, <1>2, <1>3 DEF IInv

(* Every access of a thread to the counter keeps the variables' types. *)
LEMMA StepTypeOK == IInv /\ [Next]_vars => TypeOK'
<1> SUFFICES ASSUME IInv, [Next]_vars PROVE TypeOK'
  OBVIOUS
<1> USE DEF IInv, TypeOK, ProducerPC, ConsumerPC, Modes, producerVars, consumerVars
<1>1. ASSUME NEW p \in Producers, Produce(p) PROVE TypeOK'
  <2>1. CASE IncrLoad(p)         BY <2>1 DEF IncrLoad
  <2>2. CASE CasSucceeds(p)      BY <2>2 DEF CasSucceeds
  <2>3. CASE CasFails(p)         BY <2>3 DEF CasFails
  <2>4. CASE CheckBlocked(p)     BY <2>4 DEF CheckBlocked
  <2>5. CASE LockToNotify(p)     BY <2>5 DEF LockToNotify
  <2>6. CASE NotifyAndUnlock(p)  BY <2>6 DEF NotifyAndUnlock
  <2> QED BY <1>1, <2>1, <2>2, <2>3, <2>4, <2>5, <2>6 DEF Produce
<1>2. CASE ConsumerStep
  <2>1. CASE \E m \in Modes : Call(m)  BY <2>1 DEF Call
  <2>2. CASE FirstReset               BY <2>2 DEF FirstReset
  <2>3. CASE Lock \/ Block            BY <2>3 DEF Lock, Block
  <2>4. CASE ResetAgain               BY <2>4 DEF ResetAgain
  <2>5. CASE Wait \/ Relock           BY <2>5 DEF Wait, Relock
  <2>6. CASE Unblock                  BY <2>6 DEF Unblock
  <2>7. CASE Return                   BY <2>7 DEF Return
  <2> QED BY <1>2, <2>1, <2>2, <2>3, <2>4, <2>5, <2>6, <2>7 DEF ConsumerStep
<1>3. CASE SpuriousWakeup \/ Timeout
  BY <1>3 DEF SpuriousWakeup, Timeout
<1>4. CASE UNCHANGED vars
  BY <1>4 DEF vars
<1> QED
  BY <1>1, <1>2, <1>3, <1>4 DEF Next

(* Mutual exclusion, the blocked_ flag and the count in hand. *)
LEMMA StepControl ==
  IInv /\ [Next]_vars => MutexFollowsPC' /\ BlockedFollowsPC' /\ CountInHand'
<1> SUFFICES ASSUME IInv, [Next]_vars
             PROVE  MutexFollowsPC' /\ BlockedFollowsPC' /\ CountInHand'
  OBVIOUS
<1> USE DEF IInv, TypeOK, ProducerPC, ConsumerPC, Modes, producerVars, consumerVars,
            MutexFollowsPC, BlockedFollowsPC, CountInHand
<1>1. ASSUME NEW p \in Producers, Produce(p)
      PROVE  MutexFollowsPC' /\ BlockedFollowsPC' /\ CountInHand'
  <2>1. CASE IncrLoad(p)         BY <2>1 DEF IncrLoad
  <2>2. CASE CasSucceeds(p)      BY <2>2 DEF CasSucceeds
  <2>3. CASE CasFails(p)         BY <2>3 DEF CasFails
  <2>4. CASE CheckBlocked(p)     BY <2>4 DEF CheckBlocked
  <2>5. CASE LockToNotify(p)     BY <2>5 DEF LockToNotify
  <2>6. CASE NotifyAndUnlock(p)  BY <2>6 DEF NotifyAndUnlock
  <2> QED BY <1>1, <2>1, <2>2, <2>3, <2>4, <2>5, <2>6 DEF Produce
<1>2. CASE ConsumerStep
  BY <1>2 DEF ConsumerStep, Call, FirstReset, Lock, Block, ResetAgain, Wait,
              Relock, Unblock, Return
<1>3. CASE SpuriousWakeup \/ Timeout
  BY <1>3 DEF SpuriousWakeup, Timeout
<1>4. CASE UNCHANGED vars
  BY <1>4 DEF vars
<1> QED
  BY <1>1, <1>2, <1>3, <1>4 DEF Next

(* An increment always comes with a producer that will look at blocked_,   *)
(* and one that saw it set keeps the consumer's wakeup in its hands until  *)
(* the consumer, which cannot hold the mutex meanwhile, waits.             *)
LEMMA StepNoLostWakeup == IInv /\ [Next]_vars => NoLostWakeup'
<1> SUFFICES ASSUME IInv, [Next]_vars PROVE NoLostWakeup'
  OBVIOUS
<1> USE DEF IInv, TypeOK, ProducerPC, ConsumerPC, Modes, producerVars, consumerVars,
            NoLostWakeup
<1>1. ASSUME NEW p \in Producers, Produce(p) PROVE NoLostWakeup'
  <2>1. CASE IncrLoad(p)         BY <2>1 DEF IncrLoad
  <2>2. CASE CasSucceeds(p)      BY <2>2 DEF CasSucceeds
  <2>3. CASE CasFails(p)         BY <2>3 DEF CasFails
  <2>4. CASE CheckBlocked(p)     BY <2>4 DEF CheckBlocked, BlockedFollowsPC
  <2>5. CASE LockToNotify(p)     BY <2>5 DEF LockToNotify
  <2>6. CASE NotifyAndUnlock(p)
    <3>1. cpc # "wait"
      BY <2>6 DEF NotifyAndUnlock, MutexFollowsPC
    <3> QED BY <2>6, <3>1 DEF NotifyAndUnlock
  <2> QED BY <1>1, <2>1, <2>2, <2>3, <2>4, <2>5, <2>6 DEF Produce
<1>2. CASE ConsumerStep
  BY <1>2 DEF ConsumerStep, Call, FirstReset, Lock, Block, ResetAgain, Wait,
              Relock, Unblock, Return
<1>3. CASE SpuriousWakeup \/ Timeout
  BY <1>3 DEF SpuriousWakeup, Timeout
<1>4. CASE UNCHANGED vars
  BY <1>4 DEF vars
<1> QED
  BY <1>1, <1>2, <1>3, <1>4 DEF Next

(* A compare-and-swap adds exactly one, an exchange moves everything. *)
LEMMA StepConservation == IInv /\ [Next]_vars => Conservation'
<1> SUFFICES ASSUME IInv, [Next]_vars PROVE Conservation'
  OBVIOUS
<1> USE DEF IInv, TypeOK, producerVars, consumerVars, Conservation, CountInHand
<1>1. ASSUME NEW p \in Producers, Produce(p) PROVE Conservation'
  <2>1. CASE IncrLoad(p)         BY <2>1 DEF IncrLoad
  <2>2. CASE CasSucceeds(p)      BY <2>2 DEF CasSucceeds
  <2>3. CASE CasFails(p)         BY <2>3 DEF CasFails
  <2>4. CASE CheckBlocked(p)     BY <2>4 DEF CheckBlocked
  <2>5. CASE LockToNotify(p)     BY <2>5 DEF LockToNotify
  <2>6. CASE NotifyAndUnlock(p)  BY <2>6 DEF NotifyAndUnlock
  <2> QED BY <1>1, <2>1, <2>2, <2>3, <2>4, <2>5, <2>6 DEF Produce
<1>2. CASE ConsumerStep
  <2>1. CASE \E m \in Modes : Call(m)  BY <2>1 DEF Call
  <2>2. CASE FirstReset               BY <2>2 DEF FirstReset
  <2>3. CASE Lock \/ Block            BY <2>3 DEF Lock, Block
  <2>4. CASE ResetAgain               BY <2>4 DEF ResetAgain
  <2>5. CASE Wait \/ Relock           BY <2>5 DEF Wait, Relock
  <2>6. CASE Unblock                  BY <2>6 DEF Unblock
  <2>7. CASE Return                   BY <2>7 DEF Return
  <2> QED BY <1>2, <2>1, <2>2, <2>3, <2>4, <2>5, <2>6, <2>7 DEF ConsumerStep
<1>3. CASE SpuriousWakeup \/ Timeout
  BY <1>3 DEF SpuriousWakeup, Timeout
<1>4. CASE UNCHANGED vars
  BY <1>4 DEF vars
<1> QED
  BY <1>1, <1>2, <1>3, <1>4 DEF Next

(* IInv is an inductive invariant of the counter. *)
THEOREM Invariance == Spec => []IInv
<1>1. Init => IInv
  BY InitIInv
<1>2. IInv /\ [Next]_vars => IInv'
  BY StepTypeOK, StepControl, StepNoLostWakeup, StepConservation DEF IInv
<1> QED
  BY <1>1, <1>2, PTL DEF Spec

(* Whatever the number of threads posting to it, a consumer never sleeps   *)
(* on pending increments without a producer on its way to wake it.         *)
THEOREM NoLostWakeupHolds == Spec => []NoLostWakeup
  BY Invariance, PTL DEF IInv

(* Each variable of the counter has its type, whatever the producers and   *)
(* the consumer do between one another's steps (mpsc_count).               *)
THEOREM TypeOKHolds == Spec => []TypeOK
  BY Invariance, PTL DEF IInv

(* No increment is ever lost or counted twice. *)
THEOREM ConservationHolds == Spec => []Conservation
  BY Invariance, PTL DEF IInv

(* Every step of the counter is a step of PendingCount or invisible to it: *)
(* the safety half of ImplementsPendingCount.                              *)
THEOREM RefinesPendingCount ==
  Spec => Pending!Init /\ [][Pending!Next]_(Pending!vars)
<1>1. Init => Pending!Init
  BY DEF Init, Pending!Init
<1>2. IInv /\ [Next]_vars => [Pending!Next]_(Pending!vars)
  <2> SUFFICES ASSUME IInv, [Next]_vars PROVE [Pending!Next]_(Pending!vars)
    OBVIOUS
  <2> USE DEF IInv, TypeOK, CountInHand, producerVars, consumerVars,
              Pending!Next, Pending!vars, Pending!Incr, Pending!Take
  <2>1. ASSUME NEW p \in Producers, Produce(p) PROVE [Pending!Next]_(Pending!vars)
    BY <2>1 DEF Produce, IncrLoad, CasSucceeds, CasFails, CheckBlocked,
                LockToNotify, NotifyAndUnlock
  <2>2. CASE ConsumerStep
    BY <2>2 DEF ConsumerStep, Call, FirstReset, Lock, Block, ResetAgain, Wait,
                Relock, Unblock, Return
  <2>3. CASE SpuriousWakeup \/ Timeout
    BY <2>3 DEF SpuriousWakeup, Timeout
  <2>4. CASE UNCHANGED vars
    BY <2>4 DEF vars
  <2> QED
    BY <2>1, <2>2, <2>3, <2>4 DEF Next
<1> QED
  BY <1>1, <1>2, Invariance, PTL DEF Spec
=============================================================================
