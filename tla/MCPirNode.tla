------------------------------ MODULE MCPirNode ------------------------------
(* Small instances of PirNode for TLC. *)
EXTENDS PirNode, TLC

CONSTANTS s1, s2

TwoSlots == {s1, s2}
AnySlot  == [a \in Accounts |-> Slots]
SlotSymmetry == Permutations(Slots)
=============================================================================
