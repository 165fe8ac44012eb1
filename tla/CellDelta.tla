------------------------------ MODULE CellDelta ------------------------------
(***************************************************************************)
(* The cell array of the PIR database and the deltas between two of its    *)
(* states.  A slot of the cuckoo table stands for the cells of one stored  *)
(* record; it is modelled as one number per account, the balance of the    *)
(* account the slot holds and 0 for the others.  A delta is the cell-wise  *)
(* difference of two states, so deltas add up exactly as the sparse row    *)
(* deltas of the code do, and adding one to the wrong state gives garbage. *)
(***************************************************************************)
EXTENDS Integers, Sequences

CONSTANTS Accounts,     \* addresses, numbered from 1 in address order
          Slots,        \* slots of the cuckoo table
          Candidates    \* for each account, the slots of its candidate buckets

ASSUME CellsAssumption ==
    /\ Accounts \subseteq Nat \ {0}
    /\ Candidates \in [Accounts -> SUBSET Slots]

Cells    == Slots \X Accounts
DeltaMap == [Cells -> Int]
Ledger   == [Accounts -> Int]

NoChange    == [x \in Cells |-> 0]
Plus(d, e)  == [x \in Cells |-> d[x] + e[x]]
Minus(d, e) == [x \in Cells |-> d[x] - e[x]]

-----------------------------------------------------------------------------
(* Reading and rewriting the table.                                        *)

(* What the fingerprint scan over an account's candidate slots finds: the  *)
(* balance of its record, 0 when it has none.                              *)
BalanceIn(D, a) ==
    IF \E s \in Candidates[a] : D[<<s, a>>] # 0
    THEN D[<<CHOOSE s \in Candidates[a] : D[<<s, a>>] # 0, a>>]
    ELSE 0

Holding(bal) == {a \in Accounts : bal[a] # 0}

Laid(bal, p) ==
    [x \in Cells |-> IF x[2] \in DOMAIN p /\ p[x[2]] = x[1] THEN bal[x[2]] ELSE 0]

(* A placement of the accounts that hold a balance, one slot each.         *)
Placements(bal) ==
    {p \in [Holding(bal) -> Slots] :
        /\ \A a \in Holding(bal) : p[a] \in Candidates[a]
        /\ \A a, b \in Holding(bal) : p[a] = p[b] => a = b}

(* The states the table can be in once it holds the balances bal.  Updates *)
(* and deletes work in place; an insert starts from a random bucket and    *)
(* may kick other records to their other candidates (rand::rng() in the    *)
(* store), so it may leave any valid placement.                            *)
Rewrites(D, bal) ==
    {Laid(bal, p) : p \in {q \in Placements(bal) :
        \/ \E a \in Holding(bal) : BalanceIn(D, a) = 0
        \/ \A a \in Holding(bal) : D[<<q[a], a>>] # 0}}

-----------------------------------------------------------------------------
(* Sequences of per-block deltas: the delta ring and the journal.          *)

DeltaRecord == [block : Nat, cells : DeltaMap]

Push(ring, capacity, d) ==
    Append(IF Len(ring) = capacity THEN Tail(ring) ELSE ring, d)

Picked(ring, from, to) ==
    {i \in 1 .. Len(ring) : from < ring[i].block /\ ring[i].block <= to}

(* Mutant of Coalesced: a cell that changed twice keeps its last change    *)
(* only.                                                                   *)
CoalescedOverwriting(ring, picked) ==
    LET last[i \in 0 .. Len(ring)] ==
          IF i = 0 THEN NoChange
          ELSE [x \in Cells |-> IF i \in picked /\ ring[i].cells[x] # 0
                               THEN ring[i].cells[x] ELSE last[i - 1][x]]
    IN  last[Len(ring)]

(* The sum of the picked deltas.                                           *)
Coalesced(ring, picked) ==
    LET sum[i \in 0 .. Len(ring)] ==
          IF i = 0 THEN NoChange
          ELSE IF i \in picked THEN Plus(sum[i - 1], ring[i].cells)
          ELSE sum[i - 1]
    IN  sum[Len(ring)]

Contiguous(ring, picked) ==
    \A i, j \in picked : j = i + 1 => ring[j].block = ring[i].block + 1

(* The newest deltas a ring of the given capacity retains.                 *)
Newest(deltas, capacity) ==
    SubSeq(deltas, IF Len(deltas) > capacity THEN Len(deltas) - capacity + 1 ELSE 1, Len(deltas))
=============================================================================
