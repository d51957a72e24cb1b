------------------------------ MODULE FifoQueue ------------------------------
(***************************************************************************)
(* What cque::mpsc_queue promises its users: elements come out in the      *)
(* order they went in, each to the one consumer, exactly once, and none    *)
(* stays inside for ever.  Lists, atomics and waiting are left to          *)
(* MpscQueue.                                                              *)
(***************************************************************************)
EXTENDS Sequences

CONSTANTS Elements, None

VARIABLES
    items,  \* the elements inside, in the order they were pushed
    held    \* the element the consumer was given last and still has, or None

vars == <<items, held>>

Init == items = <<>> /\ held = None

Push(x) == items' = Append(items, x) /\ UNCHANGED held

Pop == /\ items # <<>>
       /\ held = None
       /\ held' = Head(items)
       /\ items' = Tail(items)

LetGo == held # None /\ held' = None /\ UNCHANGED items

Next == (\E x \in Elements : Push(x)) \/ Pop \/ LetGo

SafeSpec == Init /\ [][Next]_vars

(* A consumer that keeps calling gets every element.                       *)
Spec == SafeSpec /\ WF_vars(Pop) /\ WF_vars(LetGo)
==============================================================================
