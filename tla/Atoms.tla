-------------------------------- MODULE Atoms --------------------------------
(***************************************************************************)
(* Atoms (actorx/atom.hpp, actorx/detail/atom_val.hpp): a short name as a  *)
(* number, the types of messages among them.  A character is its code in   *)
(* encoding_table: 0 for all that are not letters, digits or underscores,  *)
(* which is read back as a blank.                                          *)
(***************************************************************************)
EXTENDS Naturals, Sequences
LOCAL INSTANCE SequencesExt

CONSTANTS
    Base,        \* 64, number of codes
    NameLength,  \* 10, "only 10 characters are allowed"
    WordLimit    \* 2^63, what an atom_t must be less than

ASSUME AtomAssumption == /\ Base \in Nat \ {0, 1} /\ NameLength \in Nat
                         /\ WordLimit \in Nat /\ WordLimit >= 2 * Base ^ NameLength

Codes == 0 .. Base - 1

(* The names dynatom accepts: one character more than it says. *)
Names == UNION {[1 .. n -> Codes] : n \in 0 .. NameLength + 1}

NextInterim(current, code) == current * Base + code

AtomVal(s) == FoldLeft(NextInterim, 0, s)
Tag        == Base ^ NameLength  \* 1LL << 60
Atom(s)    == AtomVal(s) + Tag

(* The text of an atom_val, from its last character to its first. *)
ValText[v \in Nat] == IF v = 0 THEN <<>> ELSE Append(ValText[v \div Base], v % Base)

AtomText(a) == ValText[a - Tag]

(* A name without the blanks it begins with, whose code is a leading 0. *)
Significant(s) ==
    LET blank == {i \in 0 .. Len(s) : \A j \in 1 .. i : s[j] = 0}
    IN CHOOSE t \in {SubSeq(s, i + 1, Len(s)) : i \in blank} :
           \A i \in blank : Len(t) <= Len(s) - i

(* Computed without overflow. *)
Fits(s) == Atom(s) < WordLimit

(***************************************************************************)
(* An atom is read back as the name it was made of, so that names of       *)
(* letters, digits and underscores have atoms of their own: all of the     *)
(* length that is allowed, and those of the one more that dynatom accepts  *)
(* which fit into an atom_t.  Characters without a code are lost in front  *)
(* of a name.                                                              *)
(***************************************************************************)
AtomsReadBack == \A s \in Names : /\ Len(s) <= NameLength => Fits(s)
                                  /\ Fits(s) => AtomText(Atom(s)) = Significant(s)
=============================================================================
