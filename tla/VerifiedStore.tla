---------------------------- MODULE VerifiedStore ----------------------------
(***************************************************************************)
(* The key-addressed writes of the cuckoo store and the verified scan that *)
(* guards them.  A slot keeps its account's fingerprint and, inside the    *)
(* value, a key tag; both are functions of the account, so a slot is       *)
(* modelled by the account that it was written for.  The store's own       *)
(* update and delete act on the first slot of the account's candidate      *)
(* buckets with the account's fingerprint, whosever it is; an insert may   *)
(* kick records to other slots of their candidate buckets.                 *)
(***************************************************************************)
EXTENDS Integers, Sequences, FiniteSets

CONSTANTS Accounts,
          Slots,
          Probes,       \* for each account, its candidate slots in probe order
          Fingerprint,  \* the 32-bit fingerprint of each account
          KeyTag,       \* the key tag of each account
          MaxBalance,   \* largest balance that the value codec can encode
          Amounts,      \* amounts that the feed may report
          Deliverable,  \* the blocks that the feed may deliver
          Nobody        \* marks an empty slot

(* Two accounts that agree on all 64 bits have no slot in common: the      *)
(* repository accepts such an accident, of probability 2^-60, as it is.    *)
ASSUME StoreAssumption ==
    /\ Nobody \notin Accounts
    /\ Probes \in [Accounts -> Seq(Slots)]
    /\ \A a \in Accounts : \A i, j \in DOMAIN Probes[a] :
          Probes[a][i] = Probes[a][j] => i = j
    /\ \A a, b \in Accounts :
          /\ a # b
          /\ \E i \in DOMAIN Probes[a], j \in DOMAIN Probes[b] : Probes[a][i] = Probes[b][j]
          => Fingerprint[a] # Fingerprint[b] \/ KeyTag[a] # KeyTag[b]
    /\ MaxBalance \in Nat
    /\ Amounts \subseteq Nat
    /\ Deliverable \subseteq Seq([kind : {"set", "credit"}, account : Accounts, amount : Amounts])

VARIABLES table,     \* the record in each slot
          todo,      \* changes, then credits, of the block that are still to be applied
          refused    \* a write failed: the block is rejected and the follow loop stops

storeVars == <<table, todo, refused>>

Empty   == [account |-> Nobody, balance |-> 0]
Records == [account : Accounts, balance : 1 .. MaxBalance]
Garbled == -1

-----------------------------------------------------------------------------
(* The verified scan.                                                      *)

SlotsOf(a) == {Probes[a][i] : i \in DOMAIN Probes[a]}

FpMatches(T, a) ==
    {i \in DOMAIN Probes[a] :
        /\ T[Probes[a][i]] # Empty
        /\ Fingerprint[T[Probes[a][i]].account] = Fingerprint[a]}

Tagged(T, a) == {i \in FpMatches(T, a) : KeyTag[T[Probes[a][i]].account] = KeyTag[a]}

(* Mutant of Located: where the account's entry stands among the           *)
(* fingerprint matches is not looked at.                                   *)
LocatedAnywhere(T, a) ==
    IF Tagged(T, a) = {} THEN "Absent"
    ELSE IF \E i, j \in Tagged(T, a) : i # j THEN "DuplicateTag"
    ELSE "Own"

Located(T, a) ==
    IF Tagged(T, a) = {} THEN "Absent"
    ELSE IF \E i, j \in Tagged(T, a) : i # j THEN "DuplicateTag"
    ELSE IF \E i \in Tagged(T, a), j \in FpMatches(T, a) : j < i THEN "Shadowed"
    ELSE "Own"

(* The verified read, which does not care for the order of the slots.      *)
BalanceOf(T, a) ==
    IF Tagged(T, a) = {} THEN 0 ELSE T[Probes[a][CHOOSE i \in Tagged(T, a) : TRUE]].balance

(* Mutant of Looked: the fingerprint alone selects, as if the tag were     *)
(* looked at afterwards.                                                   *)
LookedByFingerprint(T, a) ==
    IF FpMatches(T, a) = {} THEN 0
    ELSE IF \E i, j \in FpMatches(T, a) : i # j THEN Garbled
    ELSE IF Tagged(T, a) = {} THEN 0
    ELSE BalanceOf(T, a)

(* What the client makes of the account's candidate slots: it ORs together *)
(* the values of all slots that match both fingerprint and tag.            *)
Looked(T, a) ==
    IF Tagged(T, a) = {} THEN 0
    ELSE IF \E i, j \in Tagged(T, a) : i # j THEN Garbled
    ELSE BalanceOf(T, a)

-----------------------------------------------------------------------------
(* The store's own operations.                                             *)

FirstFpMatch(T, a) == CHOOSE i \in FpMatches(T, a) : \A j \in FpMatches(T, a) : i <= j

Deleted(T, a)    == [T EXCEPT ![Probes[a][FirstFpMatch(T, a)]] = Empty]
Updated(T, a, v) == [T EXCEPT ![Probes[a][FirstFpMatch(T, a)]] = [account |-> a, balance |-> v]]

Occupied(T) == {s \in Slots : T[s] # Empty}

(* Where the records may be after room was made for a new one in slot s:   *)
(* each keeps to the candidate slots of its account.                       *)
Relocations(T, s) ==
    {to \in [Occupied(T) -> Slots \ {s}] :
        /\ \A x \in Occupied(T) : to[x] \in SlotsOf(T[x].account)
        /\ \A x, y \in Occupied(T) : to[x] = to[y] => x = y}

Placed(T, to, s, record) ==
    [x \in Slots |->
        IF x = s THEN record
        ELSE IF \E y \in Occupied(T) : to[y] = x
        THEN T[CHOOSE y \in Occupied(T) : to[y] = x]
        ELSE Empty]

Inserted(T, a, v) ==
    UNION {{Placed(T, to, s, [account |-> a, balance |-> v]) : to \in Relocations(T, s)} :
              s \in SlotsOf(a)}

-----------------------------------------------------------------------------
(* One block: Receive, then one Apply for every change and credit, or a    *)
(* Reject that ends it.                                                    *)

StoreInit ==
    /\ table = [s \in Slots |-> Empty]
    /\ todo = <<>>
    /\ refused = FALSE

Receive ==
    /\ ~refused /\ todo = <<>>
    /\ todo' \in Deliverable
    /\ UNCHANGED <<table, refused>>

(* The tables that a write of balance v to account a may leave; none when  *)
(* it is refused.                                                          *)
Written(a, v) ==
    CASE v = 0 /\ Located(table, a) = "Own"                    -> {Deleted(table, a)}
      [] v = 0 /\ Located(table, a) = "Absent"                 -> {table}
      [] v \in 1 .. MaxBalance /\ Located(table, a) = "Own"    -> {Updated(table, a, v)}
      [] v \in 1 .. MaxBalance /\ Located(table, a) = "Absent" -> Inserted(table, a, v)
      [] OTHER                                                -> {}

Wanted(w) == IF w.kind = "set" THEN w.amount ELSE BalanceOf(table, w.account) + w.amount

Apply ==
    /\ todo # <<>>
    /\ table' \in Written(Head(todo).account, Wanted(Head(todo)))
    /\ todo' = Tail(todo)
    /\ UNCHANGED refused

(* An insert also gives up when its kick budget is spent; it then puts the *)
(* records that it moved back.                                             *)
Reject ==
    /\ todo # <<>>
    /\ LET a == Head(todo).account
           v == Wanted(Head(todo))
       IN  Written(a, v) = {} \/ (v > 0 /\ Located(table, a) = "Absent")
    /\ refused' = TRUE
    /\ todo' = <<>>
    /\ UNCHANGED table

StoreNext == Receive \/ Apply \/ Reject

StoreSpec == StoreInit /\ [][StoreNext]_storeVars

-----------------------------------------------------------------------------

(* Every slot is empty or holds a record that is not zero; what is still   *)
(* to be done is the rest of a block.                                      *)
StoreTypeOK ==
    /\ table \in [Slots -> Records \cup {Empty}]
    /\ todo \in Seq([kind : {"set", "credit"}, account : Accounts, amount : Amounts])
    /\ refused \in BOOLEAN

(* The client's scan over the candidate slots (finish_observed) and the    *)
(* server's (verified::get) find the same balance, also while foreign      *)
(* records collide on the fingerprint or stand before the account's own.   *)
ScansAgree == \A a \in Accounts : Looked(table, a) = BalanceOf(table, a)

(* Through every collision, kick and refused block, the balances that      *)
(* clients can look up change exactly as the block's writes say: no write  *)
(* destroys, duplicates or misreads another account's record.              *)
Map == INSTANCE BalanceMap WITH balances <- [a \in Accounts |-> Looked(table, a)]
ImplementsMap == Map!MapSpec
=============================================================================
