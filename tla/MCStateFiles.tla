---------------------------- MODULE MCStateFiles ----------------------------
(* Small instances of StateFiles for TLC. *)
EXTENDS StateFiles, TLC

CONSTANTS l1, l2

TwoLayouts == {l1, l2}
=============================================================================
