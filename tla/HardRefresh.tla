----------------------------- MODULE HardRefresh -----------------------------
(***************************************************************************)
(* --hard-refresh beside the follow loop: a background task that reads the *)
(* listed accounts from several reference providers at one height, and     *)
(* queues a correction where all of them agree on a balance other than the *)
(* stored one.  The follow loop lets the corrections ride its blocks.      *)
(***************************************************************************)
EXTENDS FollowLoop, FiniteSets

CONSTANTS Providers,          \* the distinct --refresh-url endpoints
          Honest,             \* those that answer with the chain's balance, or fail
          Listed              \* accounts of the address file

ASSUME RefreshAssumption ==
    /\ Cardinality(Providers) >= 2
    /\ Honest \subseteq Providers /\ Honest # {}
    /\ Listed \subseteq Accounts

VARIABLES
    height,     \* the height of every read of the run, 0 before it starts
    unchecked   \* listed accounts whose check has not been decided

refreshVars == <<followVars, height, unchecked>>

Failed == -1
Silent == -2

-----------------------------------------------------------------------------

(* What the providers may answer for account a: an error, or a balance,    *)
(* which an honest one reads off the chain.                                *)
Answers(a) ==
    {r \in [Providers -> Balances \cup {Failed}] :
        \A p \in Honest : r[p] \in {Failed, Ledger(height)[a]}}

(* Mutant of Quorum: failed fetches are left out of the count.             *)
QuorumOfTheRest(r) ==
    IF \E v \in Balances : /\ \E p \in Providers : r[p] = v
                           /\ \A p \in Providers : r[p] \in {v, Failed}
    THEN CHOOSE v \in Balances : \E p \in Providers : r[p] = v
    ELSE Silent

(* The balance that every provider agrees on; Silent when one failed or    *)
(* two disagree.                                                           *)
Quorum(r) ==
    IF \E v \in Balances : \A p \in Providers : r[p] = v
    THEN CHOOSE v \in Balances : \A p \in Providers : r[p] = v
    ELSE Silent

RefreshInit == FollowInit /\ height = 0 /\ unchecked = Listed

StartRefresh ==
    /\ height = 0
    /\ height' = last
    /\ UNCHANGED <<followVars, unchecked>>

(* A check completes: the store is read only now, whatever was applied     *)
(* since the run's height.                                                 *)
Decide(a) ==
    /\ height # 0 /\ a \in unchecked
    /\ unchecked' = unchecked \ {a}
    /\ \E agreed \in {Quorum(r) : r \in Answers(a)} :
          corrections' =
             IF agreed \in {Silent, store[a]} THEN corrections
             ELSE Append(corrections, [account |-> a, balance |-> agreed,
                                       baseline |-> store[a]])
    /\ UNCHANGED <<chain, finalized, complete, last, store, due, following, height>>

Loop == LoopStep /\ UNCHANGED <<height, unchecked>>

RefreshNext == Loop \/ StartRefresh \/ \E a \in Accounts : Decide(a)

RefreshSpec == RefreshInit /\ [][RefreshNext]_refreshVars

-----------------------------------------------------------------------------

(* A correction is only ever what the chain held at the run's height, as   *)
(* long as one provider is honest: errors and disagreement never become a  *)
(* correction.                                                             *)
CorrectionsAreTrue ==
    \A i \in DOMAIN corrections :
        corrections[i].balance = Ledger(height)[corrections[i].account]

(* In the block that carries it, a correction never beats the feed: after  *)
(* every block, the accounts that the block's transactions change answer   *)
(* with the chain's balance, whatever was wrong with them before.          *)
FeedAlwaysWins ==
    [][last' = last + 1 =>
          \A a \in Changed(last') : store'[a] = Ledger(last')[a]]_refreshVars

(* A correction that rides a block of a complete deployment and whose      *)
(* account has on the chain still the balance of the run's height leaves   *)
(* that account right, credits of the same block included.                 *)
CorrectionsHeal ==
    [][last' = last + 1 /\ complete =>
          \A a \in Accounts : Riding(a) # {} /\ Ledger(last)[a] = Ledger(height)[a]
             => store'[a] = Ledger(last')[a]]_refreshVars

(* A block never turns a right answer wrong, unless a correction that is   *)
(* queued for the account was decided when the store held just this        *)
(* balance: a correction that the feed has overtaken is dropped.           *)
OvertakenCorrectionsAreDropped ==
    [][last' = last + 1 =>
          \A a \in Accounts :
             AnswersRight(a) /\ (\A i \in DOMAIN corrections :
                                   corrections[i].account = a => corrections[i].baseline # store[a])
             => AnswersRight(a)']_refreshVars

(* Without corrections in their way, right answers stay right: what a      *)
(* deployment answers at the applied block is the chain's balance.         *)
StaysRight == following => \A a \in Accounts : AnswersRight(a)
=============================================================================
