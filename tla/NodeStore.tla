------------------------------ MODULE NodeStore ------------------------------
(***************************************************************************)
(* What cque::mpsc_pool promises its users: a node got from it is nobody   *)
(* else's until it is given back, any thread may give it back, and a new   *)
(* node is made only when none is pooled.  How nodes are given back        *)
(* without a lock is left to MpscPool.                                     *)
(***************************************************************************)
CONSTANT Nodes

VARIABLES
    pooled,  \* nodes in the pool
    used     \* nodes handed out and not given back

vars == <<pooled, used>>

Init == pooled = {} /\ used = {}

Get(n) == /\ IF pooled # {} THEN n \in pooled ELSE n \notin used
          /\ pooled' = pooled \ {n}
          /\ used' = used \cup {n}

GiveBack(n) == /\ n \in used
               /\ used' = used \ {n}
               /\ pooled' = pooled \cup {n}

(* The store ends, a node at a time, when none is in use. *)
Dispose(n) == /\ n \in pooled
              /\ used = {}
              /\ pooled' = pooled \ {n}
              /\ UNCHANGED used

Next == \E n \in Nodes : Get(n) \/ GiveBack(n) \/ Dispose(n)

Spec == Init /\ [][Next]_vars
==============================================================================
