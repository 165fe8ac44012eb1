----------------------------- MODULE MCFollowLoop -----------------------------
(* Small instances, for TLC and in one run, of what goes on around the     *)
(* follow loop: the corrections that it lets ride on blocks, and the files *)
(* that it saves and journals to.  The two share no state: a behavior is   *)
(* about one of them, `part`, while the other stays in one initial state.  *)
(* At the first block an account's balance is of FirstBalances.            *)
EXTENDS HardRefresh, StateFiles, TLC

CONSTANTS a1, a2, l1, l2, FirstBalances

VARIABLE part

vars == <<part, refreshVars, fileVars>>

TwoLayouts == {l1, l2}
Symmetry   == Permutations({a1, a2}) \cup Permutations(TwoLayouts)

Init ==
    /\ part \in {"refresh", "files"}
    /\ RefreshInit
    /\ Ledger(1) \in [Accounts -> FirstBalances]
    /\ part = "refresh" \/ (store = Ledger(1) /\ store = [a \in Accounts |-> 0])
    /\ FilesInit
    /\ part = "files" \/ dirSyncs

Next ==
    /\ UNCHANGED part
    /\ \/ part = "refresh" /\ RefreshNext /\ UNCHANGED fileVars
       \/ part = "files"   /\ FilesNext   /\ UNCHANGED refreshVars

Spec == Init /\ [][Next]_vars
=============================================================================
