------------------------------ MODULE MpscCount ------------------------------
(***************************************************************************)
(* cque::mpsc_count (actorx/cque/mpsc_count.hpp): a counter incremented by *)
(* any number of threads and reset to zero by one consumer, which may      *)
(* block on a mutex and a condition variable while the count is zero.      *)
(* asev::ev_service puts its threads to sleep on it.                       *)
(*                                                                         *)
(* One action per access to shared memory: an atomic load, a compare-and-  *)
(* swap, an exchange, a store, or an operation on the mutex or condition   *)
(* variable.  Memory is sequentially consistent: the read-modify-writes    *)
(* the protocol relies on are full barriers on the x86 processors the      *)
(* repository builds for.                                                  *)
(***************************************************************************)
EXTENDS Naturals, FiniteSets

CONSTANTS
    Producers,  \* threads that call synchronized_incr
    MaxIncr     \* bound: increments begun in a behaviour

Consumer == "consumer"
Free     == "free"

ASSUME ProducersAssumption == Consumer \notin Producers /\ Free \notin Producers
ASSUME MaxIncrAssumption   == MaxIncr \in Nat

(***************************************************************************)
(* The ways the consumer asks for the count: reset() and a timeout that is *)
(* not positive only poll; no timeout, or the largest one, waits for ever; *)
(* any other timeout waits for a while.                                    *)
(***************************************************************************)
Modes == {"poll", "wait", "timed"}

ProducerPC == {"idle", "cas", "check", "lock", "notify"}
ConsumerPC == {"idle", "first", "lock", "block", "reset",
               "wait", "waiting", "woken", "unblock", "unlock"}

VARIABLES
    count,     \* count_
    blocked,   \* blocked_
    mutex,     \* who holds the mutex both sides were given
    ppc,       \* producer: where it is in synchronized_incr
    stale,     \* producer: its stale_count
    cpc,       \* consumer: where it is in reset or synchronized_reset
    mode,      \* consumer: how it called
    due,       \* consumer: its time is up, it will not wait again
    c,         \* consumer: the count it is going to return
    begun,     \* history: increments begun
    issued,    \* history: increments that took effect
    returned   \* history: what the consumer's finished calls returned, summed

vars == <<count, blocked, mutex, ppc, stale, cpc, mode, due, c,
          begun, issued, returned>>

producerVars == <<ppc, stale, begun, issued>>
consumerVars == <<cpc, mode, due, c, returned>>

Init == /\ count = 0 /\ blocked = FALSE /\ mutex = Free
        /\ ppc = [p \in Producers |-> "idle"]
        /\ stale = [p \in Producers |-> 0]
        /\ cpc = "idle" /\ mode = "poll" /\ due = FALSE /\ c = 0
        /\ begun = 0 /\ issued = 0 /\ returned = 0

-----------------------------------------------------------------------------
(* Producers: synchronized_incr(mtx, cv) *)

(* pri_incr loads the count it will try to replace. *)
IncrLoad(p) == /\ ppc[p] = "idle"
               /\ begun < MaxIncr
               /\ stale' = [stale EXCEPT ![p] = count]
               /\ ppc' = [ppc EXCEPT ![p] = "cas"]
               /\ begun' = begun + 1
               /\ UNCHANGED <<count, blocked, mutex, issued, consumerVars>>

(* Mutant: stores stale_count + 1 without comparing. *)
CasSucceeds_Store(p) == /\ ppc[p] = "cas"
                        /\ count' = stale[p] + 1
                        /\ issued' = issued + 1
                        /\ ppc' = [ppc EXCEPT ![p] = "check"]
                        /\ UNCHANGED <<blocked, mutex, stale, begun, consumerVars>>

(* compare_exchange_weak installs stale_count + 1 ... *)
CasSucceeds(p) == /\ ppc[p] = "cas"
                  /\ count = stale[p]
                  /\ count' = stale[p] + 1
                  /\ issued' = issued + 1
                  /\ ppc' = [ppc EXCEPT ![p] = "check"]
                  /\ UNCHANGED <<blocked, mutex, stale, begun, consumerVars>>

(* ... or fails, because the count has moved, and loads it again.  (It may *)
(* also fail for no reason; it then reloads the value it had: a stutter.)  *)
CasFails(p) == /\ ppc[p] = "cas"
               /\ count # stale[p]
               /\ stale' = [stale EXCEPT ![p] = count]
               /\ UNCHANGED <<count, blocked, mutex, ppc, begun, issued, consumerVars>>

(* Mutant: a plain incr(), which never looks at blocked_. *)
CheckBlocked_Plain(p) == /\ ppc[p] = "check"
                         /\ ppc' = [ppc EXCEPT ![p] = "idle"]
                         /\ UNCHANGED <<count, blocked, mutex, stale, begun, issued,
                                        consumerVars>>

(* Only a blocked consumer costs the producer a lock and a notification. *)
CheckBlocked(p) == /\ ppc[p] = "check"
                   /\ ppc' = [ppc EXCEPT ![p] = IF blocked THEN "lock" ELSE "idle"]
                   /\ UNCHANGED <<count, blocked, mutex, stale, begun, issued, consumerVars>>

LockToNotify(p) == /\ ppc[p] = "lock"
                   /\ mutex = Free
                   /\ mutex' = p
                   /\ ppc' = [ppc EXCEPT ![p] = "notify"]
                   /\ UNCHANGED <<count, blocked, stale, begun, issued, consumerVars>>

(* notify_one under the lock, which the guard then releases: it wakes the  *)
(* consumer if it is waiting and is lost otherwise.  The lapse of a timed  *)
(* wait may be found used up on waking (eclipse >= curr_timeout).          *)
NotifyAndUnlock(p) == /\ ppc[p] = "notify"
                      /\ IF cpc = "waiting"
                           THEN /\ cpc' = "woken"
                                /\ due' \in {FALSE, mode = "timed"}
                           ELSE UNCHANGED <<cpc, due>>
                      /\ mutex' = Free
                      /\ ppc' = [ppc EXCEPT ![p] = "idle"]
                      /\ UNCHANGED <<count, blocked, stale, begun, issued, mode, c, returned>>

-----------------------------------------------------------------------------
(* Consumer: reset() and synchronized_reset(mtx, cv[, timeout]) *)

Call(m) == /\ cpc = "idle"
           /\ cpc' = "first"
           /\ mode' = m
           /\ due' = FALSE
           /\ UNCHANGED <<count, blocked, mutex, c, returned, producerVars>>

(* Mutant: decrements the count, unsigned and perhaps 0, instead of resetting. *)
FirstReset_Decrement == /\ cpc = "first"
                        /\ c' = count
                        /\ count' = count - 1
                        /\ cpc' = IF count = 0 /\ mode # "poll" THEN "lock" ELSE "unlock"
                        /\ UNCHANGED <<blocked, mutex, mode, due, returned, producerVars>>

(* Every call tries once without the lock; only an empty count blocks. *)
FirstReset == /\ cpc = "first"
              /\ c' = count
              /\ count' = 0
              /\ cpc' = IF count = 0 /\ mode # "poll" THEN "lock" ELSE "unlock"
              /\ UNCHANGED <<blocked, mutex, mode, due, returned, producerVars>>

Lock == /\ cpc = "lock"
        /\ mutex = Free
        /\ mutex' = Consumer
        /\ cpc' = "block"
        /\ UNCHANGED <<count, blocked, mode, due, c, returned, producerVars>>

(* Mutant: waits without a second reset after setting blocked_. *)
Block_NoRecheck == /\ cpc = "block"
                   /\ blocked' = TRUE
                   /\ cpc' = "wait"
                   /\ UNCHANGED <<count, mutex, mode, due, c, returned, producerVars>>

Block == /\ cpc = "block"
         /\ blocked' = TRUE
         /\ cpc' = "reset"
         /\ UNCHANGED <<count, mutex, mode, due, c, returned, producerVars>>

(* The reset after block(), and the one after each wait. *)
ResetAgain == /\ cpc = "reset"
              /\ c' = count
              /\ count' = 0
              /\ cpc' = IF count = 0 /\ ~due THEN "wait" ELSE "unblock"
              /\ UNCHANGED <<blocked, mutex, mode, due, returned, producerVars>>

(* cv.wait or cv.wait_for: starts waiting and releases the mutex at once. *)
Wait == /\ cpc = "wait"
        /\ mutex' = Free
        /\ cpc' = "waiting"
        /\ UNCHANGED <<count, blocked, mode, due, c, returned, producerVars>>

SpuriousWakeup == /\ cpc = "waiting"
                  /\ cpc' = "woken"
                  /\ due' \in {FALSE, mode = "timed"}
                  /\ UNCHANGED <<count, blocked, mutex, mode, c, returned, producerVars>>

Timeout == /\ cpc = "waiting" /\ mode = "timed"
           /\ cpc' = "woken"
           /\ due' = TRUE
           /\ UNCHANGED <<count, blocked, mutex, mode, c, returned, producerVars>>

(* A wait returns only with the mutex held again. *)
Relock == /\ cpc = "woken"
          /\ mutex = Free
          /\ mutex' = Consumer
          /\ cpc' = "reset"
          /\ UNCHANGED <<count, blocked, mode, due, c, returned, producerVars>>

(* The finally object runs before the guard releases the mutex. *)
Unblock == /\ cpc = "unblock"
           /\ blocked' = FALSE
           /\ cpc' = "unlock"
           /\ UNCHANGED <<count, mutex, mode, due, c, returned, producerVars>>

(* Leaves the call, releasing the mutex if it took it. *)
Return == /\ cpc = "unlock"
          /\ mutex' = IF mutex = Consumer THEN Free ELSE mutex
          /\ returned' = returned + c
          /\ c' = 0
          /\ cpc' = "idle"
          /\ UNCHANGED <<count, blocked, mode, due, producerVars>>

-----------------------------------------------------------------------------
Produce(p) == \/ IncrLoad(p) \/ CasSucceeds(p) \/ CasFails(p)
              \/ CheckBlocked(p) \/ LockToNotify(p) \/ NotifyAndUnlock(p)

(* The steps the consumer takes by itself, a wait's end not among them. *)
ConsumerStep == \/ \E m \in Modes : Call(m)
                \/ FirstReset \/ Lock \/ Block \/ ResetAgain \/ Wait
                \/ Relock \/ Unblock \/ Return

Next == \/ \E p \in Producers : Produce(p)
        \/ ConsumerStep
        \/ SpuriousWakeup
        \/ Timeout

Spec == Init /\ [][Next]_vars

(* Threads are scheduled and the consumer keeps calling, as ev_service's   *)
(* loop does.  Nothing is assumed of spurious wakeups and timeouts: no     *)
(* wakeup may be owed to luck.                                             *)
FairSpec == /\ Spec
            /\ \A p \in Producers : WF_vars(Produce(p))
            /\ WF_vars(ConsumerStep)

-----------------------------------------------------------------------------
(* Correctness *)

TypeOK == /\ count \in Nat /\ blocked \in BOOLEAN
          /\ mutex \in Producers \cup {Consumer, Free}
          /\ ppc \in [Producers -> ProducerPC]
          /\ stale \in [Producers -> Nat]
          /\ cpc \in ConsumerPC /\ mode \in Modes /\ due \in BOOLEAN
          /\ c \in Nat
          /\ begun \in Nat /\ issued \in Nat /\ returned \in Nat

(***************************************************************************)
(* A consumer that is about to wait, or waits, with increments pending has *)
(* a producer on its way to wake it: the store of blocked_ before the      *)
(* second reset, and the producer's check of blocked_ after its increment, *)
(* leave no gap a wakeup could be lost in.                                 *)
(***************************************************************************)
NoLostWakeup == cpc \in {"wait", "waiting"} /\ count > 0
                   => \E p \in Producers : ppc[p] \in {"check", "lock", "notify"}

(***************************************************************************)
(* No increment is lost and none is counted twice: those that took effect  *)
(* are in the counter, in the consumer's hands, or were returned to it.    *)
(***************************************************************************)
Conservation == issued = count + c + returned

(***************************************************************************)
(* The counter implements PendingCount: an exchange hands every pending    *)
(* increment over at once, and under FairSpec none stays behind.           *)
(***************************************************************************)
Pending == INSTANCE PendingCount WITH pending <- count, taken <- c + returned
ImplementsPendingCount == Pending!Spec
=============================================================================
