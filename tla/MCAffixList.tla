----------------------------- MODULE MCAffixList -----------------------------
(* Three types with two objects each, two slots: values for TLC. *)
EXTENDS AffixList

MCTypes     == 1 .. 3
MCAffixes   == MCTypes \X {1, 2}
MCTypeOf(a) == a[1]
=============================================================================
