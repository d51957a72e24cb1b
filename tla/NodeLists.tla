------------------------------ MODULE NodeLists ------------------------------
(***************************************************************************)
(* Lists linked through next_ of cque::node_base (actorx/cque/             *)
(* node_base.hpp).  mpsc_queue and mpsc_pool keep their nodes in them.     *)
(***************************************************************************)
EXTENDS Naturals, Sequences, FiniteSets

CONSTANTS
    Nodes,  \* the nodes there are
    Null    \* nullptr

ASSUME NodesAssumption == IsFiniteSet(Nodes) /\ Null \notin Nodes

Links == Nodes \cup {Null}

(* s lists the nodes from h along the links to the end. *)
IsChain(next, s, h) ==
    /\ h = (IF s = <<>> THEN Null ELSE s[1])
    /\ \A i \in 1 .. Len(s) : next[s[i]] = IF i = Len(s) THEN Null ELSE s[i + 1]

NodeSeqs == UNION {[1 .. k -> Nodes] : k \in 0 .. Cardinality(Nodes)}

Chain(next, h) == CHOOSE s \in NodeSeqs : IsChain(next, s, h)

(* The nodes of a sequence, and whether each is in it once. *)
NodesOf(s)  == {s[i] : i \in 1 .. Len(s)}
Distinct(s) == \A i, j \in 1 .. Len(s) : s[i] = s[j] => i = j

(* The links after those of the nodes of s have been reversed. *)
LinkBack(next, s) ==
    [n \in Nodes |->
        LET at == {i \in 1 .. Len(s) : s[i] = n}
        IN IF at = {} THEN next[n]
           ELSE IF 1 \in at THEN Null
           ELSE s[(CHOOSE i \in at : TRUE) - 1]]

Reversed(s) == [i \in 1 .. Len(s) |-> s[Len(s) + 1 - i]]
==============================================================================
