----------------------------- MODULE BalanceMap ------------------------------
(***************************************************************************)
(* What the balance store promises to the code that writes it: a map from  *)
(* accounts to balances.  The writes of a block are carried out one by     *)
(* one, each on the one account it names and on no other; one that cannot  *)
(* be carried out changes nothing and ends the block and all writing.      *)
(***************************************************************************)
EXTENDS Integers, Sequences

CONSTANTS Accounts, Deliverable

VARIABLES balances,   \* the balance of every account, 0 for one not stored
          todo,       \* the writes of the block in hand that are still to be done
          refused     \* a write was refused

mapVars == <<balances, todo, refused>>

MapInit ==
    /\ balances = [a \in Accounts |-> 0]
    /\ todo = <<>>
    /\ refused = FALSE

Outcome(w) ==
    IF w.kind = "set" THEN w.amount ELSE balances[w.account] + w.amount

Receive ==
    /\ ~refused /\ todo = <<>>
    /\ todo' \in Deliverable
    /\ UNCHANGED <<balances, refused>>

CarryOut ==
    /\ todo # <<>>
    /\ balances' = [balances EXCEPT ![Head(todo).account] = Outcome(Head(todo))]
    /\ todo' = Tail(todo)
    /\ UNCHANGED refused

Refuse ==
    /\ todo # <<>>
    /\ refused' = TRUE
    /\ todo' = <<>>
    /\ UNCHANGED balances

MapSpec == MapInit /\ [][Receive \/ CarryOut \/ Refuse]_mapVars
=============================================================================
