---------------------------- MODULE MCPrivateEth ----------------------------
(* Small instances of PrivateEth for TLC. *)
EXTENDS PrivateEth, TLC

CONSTANTS s1, s2

TwoSlots == {s1, s2}
AnySlot  == [a \in Accounts |-> Slots]
OneColumn == [s \in Slots |-> Slots]
SlotSymmetry == Permutations(Slots)
=============================================================================
