----------------------------- MODULE FollowLoop ------------------------------
(***************************************************************************)
(* The mainnet follow loop: it polls the finalized head, applies one       *)
(* finalized block after the other, filters withdrawal credits on a        *)
(* partial deployment, lets queued hard-refresh corrections ride a block,  *)
(* and asks for a reconcile checkpoint every so many blocks.  The store is *)
(* the map of balances that VerifiedStore implements; a balance of zero is *)
(* an account that is not stored.                                          *)
(***************************************************************************)
EXTENDS Integers, Sequences

CONSTANTS Accounts,
          Balances,        \* balances an account may have in these runs
          Amounts,         \* amounts a withdrawal may credit
          Modes,           \* TRUE: complete deployment, FALSE: --partial
          BootstrapDrifts, \* the snapshot may be wrong about some accounts
          MaxCorrections,  \* corrections that may ride one block
          ReconcileEvery,  \* blocks from one checkpoint to the next, 0 for never
          BlocksMayFail,   \* a block may be rejected half-applied
          MaxBlock         \* bound on the chain's length

ASSUME FollowAssumption ==
    /\ Balances \subseteq Nat /\ 0 \in Balances
    /\ Amounts \subseteq Nat /\ 0 \in Amounts
    /\ Modes \subseteq BOOLEAN /\ Modes # {}
    /\ MaxCorrections \in Nat \ {0} /\ ReconcileEvery \in Nat /\ MaxBlock \in Nat \ {0}
    /\ {BootstrapDrifts, BlocksMayFail} \subseteq BOOLEAN

VARIABLES
    chain,      \* each finalized block: the accounts its transactions touch, the
                \* balances after them, and what its withdrawals then credit
    finalized,  \* the head the feed last reported
    complete,   \* the deployment holds every account with a balance
    last,       \* the block applied last
    store,      \* balance stored for each account, 0 for none
    corrections,\* hard-refresh corrections waiting to ride a block
    due,        \* a checkpoint is due before the next block
    following   \* FALSE once the loop has stopped for good

followVars == <<chain, finalized, complete, last, store, corrections, due, following>>

Block      == [touched : SUBSET Accounts,
               spent : [Accounts -> Balances], credit : [Accounts -> Amounts]]
Correction == [account : Accounts, balance : Nat, baseline : Nat]

(* The finalized balances after block n.                                   *)
Ledger(n) == [a \in Accounts |-> chain[n].spent[a] + chain[n].credit[a]]

(* What the feed says of block n: the accounts whose balance one of its    *)
(* transactions changed, be it back in the end, with their balance after   *)
(* the last; and the accounts that its withdrawals credit.                 *)
Changed(n)  == chain[n].touched
Credited(n) == {a \in Accounts : chain[n].credit[a] > 0}

FollowInit ==
    /\ chain \in {<<b>> : b \in [touched : {{}}, spent : [Accounts -> Balances],
                                 credit : {[a \in Accounts |-> 0]}]}
    /\ finalized = 1
    /\ complete \in Modes
    /\ last = 1
    /\ store \in CASE ~complete                  -> {[a \in Accounts |-> 0]}
                   [] complete /\ BootstrapDrifts -> [Accounts -> Balances]
                   [] OTHER                       -> {Ledger(1)}
    /\ corrections = <<>>
    /\ due = FALSE
    /\ following = TRUE

-----------------------------------------------------------------------------

(* The chain finalizes a block.  A finalized block never changes.          *)
Finalize ==
    /\ Len(chain) < MaxBlock
    /\ \E b \in Block :
          /\ \A a \in Accounts : b.spent[a] + b.credit[a] \in Balances
          /\ \A a \in Accounts \ b.touched : b.spent[a] = Ledger(Len(chain))[a]
          /\ chain' = Append(chain, b)
    /\ UNCHANGED <<finalized, complete, last, store, corrections, due, following>>

(* The feed may answer from an endpoint that lags behind an earlier one.   *)
Poll ==
    /\ following /\ ~due /\ last >= finalized
    /\ finalized' \in 1 .. Len(chain)
    /\ UNCHANGED <<chain, complete, last, store, corrections, due, following>>

(* A partial deployment drops the credits of accounts that it does not     *)
(* track, neither in the store nor among this block's changes.             *)
KeptCredits(n) ==
    {a \in Credited(n) : complete \/ a \in Changed(n) \/ store[a] # 0}

Drained   == {i \in DOMAIN corrections : i <= MaxCorrections}
Remaining == SubSeq(corrections, MaxCorrections + 1, Len(corrections))

(* Mutant of StillValid: a drained correction is not checked again.        *)
StillValidAlways(i) == TRUE

(* The account still holds what it held when the correction was decided.   *)
StillValid(i) == store[corrections[i].account] = corrections[i].baseline

(* The surviving corrections of account a, the last of which is kept.      *)
Riding(a) == {i \in Drained : StillValid(i) /\ corrections[i].account = a}

Corrected(a) ==
    IF Riding(a) = {} THEN store[a]
    ELSE corrections[CHOOSE i \in Riding(a) : \A j \in Riding(a) : j <= i].balance

(* Mutant of Applied: corrections are put behind the block's own changes.  *)
AppliedCorrectionsLast(n) ==
    [a \in Accounts |->
        (IF Riding(a) # {} THEN Corrected(a)
         ELSE IF a \in Changed(n) THEN chain[n].spent[a] ELSE store[a])
        + (IF a \in KeptCredits(n) THEN chain[n].credit[a] ELSE 0)]

(* Mutant of Applied: a correction takes the place of the credit as well.  *)
AppliedWithoutCredits(n) ==
    [a \in Accounts |->
        IF a \in Changed(n)
        THEN chain[n].spent[a] + (IF a \in KeptCredits(n) THEN chain[n].credit[a] ELSE 0)
        ELSE IF Riding(a) # {} THEN Corrected(a)
        ELSE store[a] + (IF a \in KeptCredits(n) THEN chain[n].credit[a] ELSE 0)]

(* Corrections first, then the block's changes, then its credits.          *)
Applied(n) ==
    [a \in Accounts |->
        (IF a \in Changed(n) THEN chain[n].spent[a] ELSE Corrected(a))
        + (IF a \in KeptCredits(n) THEN chain[n].credit[a] ELSE 0)]

(* One pass of the loop's body, up to its checkpoint.                      *)
ApplyBlock ==
    /\ following /\ ~due /\ last < finalized
    /\ store' = Applied(last + 1)
    /\ corrections' = Remaining
    /\ last' = last + 1
    /\ due' = (ReconcileEvery > 0 /\ last' % ReconcileEvery = 0)
    /\ UNCHANGED <<chain, finalized, complete, following>>

(* The server refuses the block: some of its writes are done, and the loop *)
(* returns.                                                                *)
RejectBlock ==
    /\ BlocksMayFail
    /\ following /\ ~due /\ last < finalized
    /\ \E done \in SUBSET Accounts, fixed \in SUBSET Accounts :
          store' = [a \in Accounts |-> IF a \in done THEN Applied(last + 1)[a]
                                      ELSE IF a \in fixed THEN Corrected(a)
                                      ELSE store[a]]
    /\ corrections' = Remaining
    /\ following' = FALSE
    /\ UNCHANGED <<chain, finalized, complete, last, due>>

LoopStep == Finalize \/ Poll \/ ApplyBlock \/ RejectBlock

-----------------------------------------------------------------------------

FollowTypeOK ==
    /\ chain \in Seq(Block) /\ Len(chain) \in 1 .. MaxBlock
    /\ finalized \in 1 .. Len(chain) /\ last \in 1 .. Len(chain)
    /\ complete \in Modes /\ due \in BOOLEAN /\ following \in BOOLEAN
    /\ store \in [Accounts -> Nat]
    /\ corrections \in Seq(Correction)

(* The balance that a lookup answers for account a is the chain's at the   *)
(* applied block; a partial deployment answers only for accounts it holds. *)
AnswersRight(a) == store[a] = Ledger(last)[a] \/ (~complete /\ store[a] = 0)
=============================================================================
