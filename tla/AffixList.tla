------------------------------ MODULE AffixList ------------------------------
(***************************************************************************)
(* detail::affix_list (actorx/asev/affix_base.hpp), the user data attached *)
(* to a thread's or a coroutine's context: at most one entry per type, the *)
(* first of them in an array, vec_, the others in a map.  The list is used *)
(* by one thread at a time; each call is one step.                         *)
(*                                                                         *)
(* get and rmv count the entries they have passed and so do not step over  *)
(* a hole that rmv left before the last entry: they loop for ever.         *)
(***************************************************************************)
EXTENDS Naturals, FiniteSets

CONSTANTS
    UserTypes, \* types of user data
    Affixes,   \* the objects there are
    Null,      \* nullptr
    TypeOf(_), \* object -> its tyidx_
    Division   \* ASEV_MAX_AFFIX_LIST_DIVISION

ASSUME DivisionAssumption == Division \in Nat \ {0}
ASSUME NullAssumption     == Null \notin Affixes
ASSUME TypeAssumption     == \A a \in Affixes : TypeOf(a) \in UserTypes

Slots == 0 .. Division - 1

VARIABLES
    vec,       \* slot -> vec_
    vecSize,   \* vec_size_
    map,       \* type -> map_, Null where it has no entry
    out,       \* what the last call returned
    hung,      \* whether it never returned
    given      \* history: the objects inside or not returned yet

listVars == <<vec, vecSize, map, out, hung, given>>

ListInit == /\ vec = [i \in Slots |-> Null]
            /\ vecSize = 0
            /\ map = [T \in UserTypes |-> Null]
            /\ out = {}
            /\ hung = FALSE
            /\ given = {}

-----------------------------------------------------------------------------
(* Slots a loop over vec_ comes to, and where it finds type T there *)

Is(i, T) == vec[i] # Null /\ TypeOf(vec[i]) = T

(* How many entries are in the slots up to i. *)
Passed(i) == Cardinality({j \in 0 .. i : vec[j] # Null})

(* Mutant: add goes no further than the first hole. *)
Scanned_ToHole(i) == \A j \in 0 .. i - 1 : vec[j] # Null

(* add goes through the slots until it has passed all entries and a hole. *)
Scanned(i) == \A j \in 0 .. i - 1 :
                  ~ (Passed(j) >= vecSize /\ \E k \in 0 .. j : vec[k] = Null)

Holes == {i \in Slots : vec[i] = Null}
First(S) == CHOOSE i \in S : \A j \in S : i <= j

(* get and rmv stay at a slot until they have passed an entry there. *)
Reached(i) == i < vecSize /\ \A j \in 0 .. i - 1 : vec[j] # Null

FoundAt(T) == {i \in Slots : Reached(i) /\ Is(i, T) /\ \A j \in 0 .. i - 1 : ~ Is(j, T)}
Hangs(T)   == \E i \in Slots : /\ Reached(i)
                               /\ vec[i] = Null
                               /\ \A j \in 0 .. i - 1 : ~ Is(j, T)

-----------------------------------------------------------------------------
(* The calls *)

(* Mutant: puts a new entry behind the others, where rmv may have left one. *)
AddInVec_Append(a) ==
    LET same == {i \in Slots : Scanned(i) /\ Is(i, TypeOf(a))}
    IN IF same # {}
         THEN /\ vec' = [vec EXCEPT ![First(same)] = a]
              /\ out' = {vec[First(same)]}
              /\ UNCHANGED vecSize
         ELSE /\ vec' = [vec EXCEPT ![vecSize] = a]
              /\ vecSize' = vecSize + 1
              /\ out' = {}

AddInVec(a) ==
    LET same == {i \in Slots : Scanned(i) /\ Is(i, TypeOf(a))}
    IN IF same # {}
         THEN /\ vec' = [vec EXCEPT ![First(same)] = a]
              /\ out' = {vec[First(same)]}
              /\ UNCHANGED vecSize
         ELSE /\ vec' = [vec EXCEPT ![First(Holes)] = a]
              /\ vecSize' = vecSize + 1
              /\ out' = {}

AddInMap(a) == /\ map' = [map EXCEPT ![TypeOf(a)] = a]
               /\ out' = {map[TypeOf(a)]} \ {Null}

Add(a) == /\ a \notin given
          /\ IF vecSize < Division
               THEN AddInVec(a) /\ UNCHANGED map
               ELSE AddInMap(a) /\ UNCHANGED <<vec, vecSize>>
          /\ given' = (given \cup {a}) \ out'
          /\ UNCHANGED hung

Get(T) == /\ hung' = Hangs(T)
          /\ out' = IF Hangs(T) THEN {}
                    ELSE IF FoundAt(T) # {} THEN {vec[First(FoundAt(T))]}
                    ELSE {map[T]} \ {Null}
          /\ UNCHANGED <<vec, vecSize, map, given>>

(* Mutant: leaves vec_size_ alone. *)
RmvFromVec_KeepSize(T) == /\ vec' = [vec EXCEPT ![First(FoundAt(T))] = Null]
                          /\ out' = {vec[First(FoundAt(T))]}
                          /\ UNCHANGED vecSize

RmvFromVec(T) == /\ vec' = [vec EXCEPT ![First(FoundAt(T))] = Null]
                 /\ vecSize' = vecSize - 1
                 /\ out' = {vec[First(FoundAt(T))]}

RmvFromMap(T) == /\ map' = [map EXCEPT ![T] = Null]
                 /\ out' = {map[T]} \ {Null}
                 /\ UNCHANGED vecSize

Rmv(T) == /\ hung' = Hangs(T)
          /\ IF Hangs(T)
               THEN out' = {} /\ UNCHANGED <<vec, vecSize, map>>
               ELSE IF FoundAt(T) # {}
                      THEN RmvFromVec(T) /\ UNCHANGED map
                      ELSE RmvFromMap(T) /\ UNCHANGED vec
          /\ given' = given \ out'

Clear == /\ out' = {a \in Affixes : (\E i \in Slots : vec[i] = a) \/ (\E T \in UserTypes : map[T] = a)}
         /\ vec' = [i \in Slots |-> Null]
         /\ vecSize' = 0
         /\ map' = [T \in UserTypes |-> Null]
         /\ given' = given \ out'
         /\ UNCHANGED hung

ListNext == /\ ~ hung
            /\ \/ \E a \in Affixes : Add(a)
               \/ \E T \in UserTypes : Get(T) \/ Rmv(T)
               \/ Clear

ListSpec == ListInit /\ [][ListNext]_listVars

-----------------------------------------------------------------------------
(* Correctness *)

Inside == {vec[i] : i \in Slots} \cup {map[T] : T \in UserTypes}

ListTypeOK == /\ vec \in [Slots -> Affixes \cup {Null}]
              /\ vecSize \in 0 .. Division
              /\ map \in [UserTypes -> Affixes \cup {Null}]
              /\ out \subseteq Affixes
              /\ hung \in BOOLEAN
              /\ given \subseteq Affixes

(***************************************************************************)
(* vec_size_ is the number of entries in vec_, whatever holes there are:   *)
(* add relies on it to find a free slot.                                   *)
(***************************************************************************)
SizeCounts == vecSize = Cardinality(Slots \ Holes)

(***************************************************************************)
(* Every object that went in and was not returned by a later call is still *)
(* inside, and only those: none is forgotten, which would leak it, and     *)
(* none is kept after it was returned, which would leave it dangling.      *)
(***************************************************************************)
NothingLost == Inside \ {Null} = given

(***************************************************************************)
(* No two entries of the array, and none under a wrong key of the map, are *)
(* of one type.                                                            *)
(***************************************************************************)
OnePerType ==
    /\ \A i, j \in Slots : vec[i] # Null /\ vec[j] # Null /\ i # j
                               => TypeOf(vec[i]) # TypeOf(vec[j])
    /\ \A T \in UserTypes : map[T] # Null => TypeOf(map[T]) = T

(***************************************************************************)
(* Every get and rmv returns: "Get affix if any, or nullptr".              *)
(***************************************************************************)
CallsReturn == ~ hung
=============================================================================
