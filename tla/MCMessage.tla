------------------------------ MODULE MCMessage ------------------------------
(* Sizes scaled down: one byte is small, the pool's buffers hold 6 bytes,  *)
(* names have 2 characters of 5.                                           *)
EXTENDS Message, Atoms, TLC

CONSTANTS x, y, b1, b2

MCHandles == {x, y}
MCBuffers == {b1, b2}
MCSymmetry == Permutations(MCHandles) \cup Permutations(MCBuffers)

(* Checked for all names at once, before the first state. *)
ASSUME NamesAssumption == AtomsReadBack

(* The bytes of so many objects can be in one message. *)
MCObjects == 4

(* Followed are the states with no more objects, up to the first copy that *)
(* does not fit: from there on the properties but TypeOK claim nothing.    *)
MCFollowed == /\ CopiesFit
              /\ \A h \in MCHandles :
                     Cardinality({i \in DOMAIN objs[h] : objs[h][i] # Null}) <= MCObjects
=============================================================================
