--------------------------- MODULE FollowLoop_proofs ---------------------------
(***************************************************************************)
(* What rides beside the follow loop, for any accounts, providers, chain   *)
(* and queue sizes: the hard-refresh corrections, and the reconcile        *)
(* checkpoints.                                                            *)
(*                                                                         *)
(* The argument about corrections.  A correction's balance is the chain's  *)
(* at the run's height, because one honest provider is enough to veto any  *)
(* other value (AgreedIsTrue).  An account that a block's transactions do  *)
(* not touch has after them the balance of the block before (ChainOK).     *)
(* From these two facts, what a block does to an account follows by cases: *)
(* touched, ridden by a correction, or neither.                            *)
(*                                                                         *)
(* The argument about checkpoints.  While the loop follows, no comparison  *)
(* has failed and the reservoir, never over its capacity, holds all that   *)
(* is owed (QueueOK): insert_many drops nothing that is queued, and after  *)
(* a pop there is room to requeue what was popped.  The deferred           *)
(* checkpoints that the health record counts are the last ones of the      *)
(* streak, and the one before them failed (HealthOK).                      *)
(***************************************************************************)
EXTENDS HardRefresh, Reconcile, NaturalLemmas, FiniteSetTheorems, TLAPS

-----------------------------------------------------------------------------
(* Hard refresh.                                                           *)

ChainOK ==
    \A n \in 2 .. Len(chain) : \A a \in Accounts \ chain[n].touched :
        chain[n].spent[a] = Ledger(n - 1)[a]

RefreshTypeOK ==
    /\ FollowTypeOK
    /\ height \in 0 .. Len(chain)
    /\ corrections # <<>> => height # 0

RefreshInv == RefreshTypeOK /\ ChainOK /\ CorrectionsAreTrue

-----------------------------------------------------------------------------
(* One block.                                                              *)

(* A block's balances and credits are numbers, and so is the ledger.       *)
LEMMA LedgerTyped ==
    ASSUME FollowTypeOK, NEW n \in 1 .. Len(chain), NEW a \in Accounts
    PROVE  /\ chain[n].spent[a] \in Nat
           /\ chain[n].credit[a] \in Nat
           /\ Ledger(n)[a] = chain[n].spent[a] + chain[n].credit[a]
<1>1. chain[n] \in Block
  BY DEF FollowTypeOK
<1>2. chain[n].spent \in [Accounts -> Balances] /\ chain[n].credit \in [Accounts -> Amounts]
  BY <1>1 DEF Block
<1>3. chain[n].spent[a] \in Balances /\ chain[n].credit[a] \in Amounts
  BY <1>2
<1>4. Balances \subseteq Nat /\ Amounts \subseteq Nat
  BY FollowAssumption
<1> QED  BY <1>3, <1>4 DEF Ledger

(* The correction that an account gets is one of those that ride for it.   *)
LEMMA CorrectedByOne ==
    ASSUME FollowTypeOK, NEW a \in Accounts, Riding(a) # {}
    PROVE  \E i \in DOMAIN corrections :
              /\ corrections[i].account = a
              /\ Corrected(a) = corrections[i].balance
<1>1. /\ Riding(a) \subseteq DOMAIN corrections
      /\ \A i \in Riding(a) : i <= MaxCorrections /\ corrections[i].account = a
  BY DEF Riding, Drained
<1>2. corrections \in Seq(Correction) /\ MaxCorrections \in Nat
  BY FollowAssumption DEF FollowTypeOK
<1>3. Riding(a) \in SUBSET Nat
  BY <1>1, <1>2
<1>4. \E m \in Riding(a) : \A k \in Riding(a) : k <= m
  BY <1>1, <1>2, <1>3, GreatestNat
<1> DEFINE i == CHOOSE m \in Riding(a) : \A k \in Riding(a) : k <= m
<1>5. i \in Riding(a)
  BY <1>4
<1>6. Corrected(a) = corrections[i].balance
  BY DEF Corrected
<1> QED  BY <1>1, <1>5, <1>6

(* An account without a riding correction keeps what is stored for it.     *)
LEMMA CorrectedByNone ==
    ASSUME NEW a \in Accounts, Riding(a) = {}
    PROVE  Corrected(a) = store[a]
BY DEF Corrected

(* Corrections only ever write numbers.                                    *)
LEMMA CorrectedTyped ==
    ASSUME FollowTypeOK, NEW a \in Accounts
    PROVE  Corrected(a) \in Nat
<1>1. CASE Riding(a) = {}
  BY <1>1, CorrectedByNone DEF FollowTypeOK
<1>2. CASE Riding(a) # {}
  <2>1. PICK i \in DOMAIN corrections : Corrected(a) = corrections[i].balance
    BY <1>2, CorrectedByOne
  <2>2. corrections[i] \in Correction
    BY DEF FollowTypeOK
  <2> QED  BY <2>1, <2>2 DEF Correction
<1> QED  BY <1>1, <1>2

(* A block leaves a store of numbers.                                      *)
LEMMA AppliedTyped ==
    ASSUME FollowTypeOK, NEW n \in 1 .. Len(chain)
    PROVE  Applied(n) \in [Accounts -> Nat]
<1>1. ASSUME NEW a \in Accounts
      PROVE  (IF a \in Changed(n) THEN chain[n].spent[a] ELSE Corrected(a))
             + (IF a \in KeptCredits(n) THEN chain[n].credit[a] ELSE 0) \in Nat
  BY LedgerTyped, CorrectedTyped
<1> QED  BY <1>1 DEF Applied

(* The accounts that the block touches are right after it.                 *)
LEMMA TouchedIsRight ==
    ASSUME FollowTypeOK, NEW n \in 1 .. Len(chain), NEW a \in Changed(n), a \in Accounts
    PROVE  Applied(n)[a] = Ledger(n)[a]
<1>1. /\ chain[n].spent[a] \in Nat /\ chain[n].credit[a] \in Nat
      /\ Ledger(n)[a] = chain[n].spent[a] + chain[n].credit[a]
  BY LedgerTyped
<1>2. a \in KeptCredits(n) <=> chain[n].credit[a] > 0
  BY DEF KeptCredits, Credited
<1> QED  BY <1>1, <1>2 DEF Applied

(* What is left of the account in its other cases, by what is dropped.     *)
LEMMA UntouchedIsCredited ==
    ASSUME FollowTypeOK, ChainOK, NEW n \in 2 .. Len(chain),
           NEW a \in Accounts, a \notin Changed(n)
    PROVE  /\ Ledger(n)[a] = Ledger(n - 1)[a] + chain[n].credit[a]
           /\ a \in KeptCredits(n) => Applied(n)[a] = Corrected(a) + chain[n].credit[a]
           /\ a \notin KeptCredits(n) => Applied(n)[a] = Corrected(a)
           /\ (complete \/ store[a] # 0) /\ a \notin KeptCredits(n) => chain[n].credit[a] = 0
<1>1. /\ chain[n].spent[a] \in Nat /\ chain[n].credit[a] \in Nat
      /\ Ledger(n)[a] = chain[n].spent[a] + chain[n].credit[a]
  BY LedgerTyped
<1>2. chain[n].spent[a] = Ledger(n - 1)[a]
  BY DEF ChainOK, Changed
<1>3. Corrected(a) \in Nat
  BY CorrectedTyped
<1>4. (complete \/ store[a] # 0) /\ a \notin KeptCredits(n) => ~(chain[n].credit[a] > 0)
  BY DEF KeptCredits, Credited
<1> QED  BY <1>1, <1>2, <1>3, <1>4 DEF Applied

-----------------------------------------------------------------------------
(* Corrections.                                                            *)

(* One honest provider vetoes every balance but the chain's.               *)
LEMMA AgreedIsTrue ==
    ASSUME NEW a \in Accounts, NEW r \in Answers(a), Quorum(r) # Silent
    PROVE  Quorum(r) = Ledger(height)[a] /\ Quorum(r) \in Balances
<1>1. PICK p \in Honest : p \in Providers
  BY RefreshAssumption
<1>2. r[p] \in {Failed, Ledger(height)[a]}
  BY <1>1 DEF Answers
<1>3. \E v \in Balances : \A q \in Providers : r[q] = v
  BY DEF Quorum
<1>4. Quorum(r) \in Balances /\ \A q \in Providers : r[q] = Quorum(r)
  BY <1>3 DEF Quorum
<1>5. r[p] # Failed
  BY <1>1, <1>4, FollowAssumption DEF Failed
<1> QED  BY <1>1, <1>2, <1>4, <1>5

(* Dropping the drained corrections keeps the rest as they are.            *)
LEMMA RemainingIsSuffix ==
    ASSUME FollowTypeOK
    PROVE  /\ Remaining \in Seq(Correction)
           /\ corrections = <<>> => Remaining = <<>>
           /\ \A i \in DOMAIN Remaining : \E j \in DOMAIN corrections :
                 Remaining[i] = corrections[j]
<1>1. corrections \in Seq(Correction) /\ MaxCorrections \in Nat
  BY FollowAssumption DEF FollowTypeOK
<1>2. CASE Len(corrections) <= MaxCorrections
  <2>1. Remaining = <<>>
    BY <1>1, <1>2 DEF Remaining
  <2>2. Remaining \in Seq(Correction)
    BY <2>1
  <2>3. DOMAIN Remaining = {}
    BY <2>1
  <2> QED  BY <2>1, <2>2, <2>3
<1>3. CASE Len(corrections) > MaxCorrections
  <2>1. /\ Remaining \in Seq(Correction)
        /\ Len(Remaining) = Len(corrections) - MaxCorrections
        /\ \A i \in 1 .. Len(Remaining) : Remaining[i] = corrections[MaxCorrections + i]
    BY <1>1, <1>3 DEF Remaining
  <2>2. ASSUME NEW i \in DOMAIN Remaining
        PROVE  \E j \in DOMAIN corrections : Remaining[i] = corrections[j]
    <3>1. i \in 1 .. Len(Remaining)
      BY <2>1
    <3>2. MaxCorrections + i \in DOMAIN corrections
      BY <1>1, <1>3, <2>1, <3>1
    <3> QED  BY <2>1, <3>1, <3>2
  <2>3. corrections # <<>>
    BY <1>1, <1>3
  <2> QED  BY <2>1, <2>2, <2>3
<1> QED  BY <1>1, <1>2, <1>3

(* What is queued is a correction.                                         *)
LEMMA DecideTyped ==
    ASSUME FollowTypeOK, NEW a \in Accounts, NEW r \in Answers(a),
           Quorum(r) \notin {Silent, store[a]}
    PROVE  [account |-> a, balance |-> Quorum(r), baseline |-> store[a]] \in Correction
<1>1. Quorum(r) \in Nat
  BY AgreedIsTrue, FollowAssumption
<1>2. store[a] \in Nat
  BY DEF FollowTypeOK
<1> QED  BY <1>1, <1>2 DEF Correction

-----------------------------------------------------------------------------
(* The invariant.                                                          *)

(* It holds at the start.                                                  *)
LEMMA InitInv == RefreshInit => RefreshInv
<1> SUFFICES ASSUME RefreshInit PROVE RefreshInv
  OBVIOUS
<1>1. PICK b \in [touched : {{}}, spent : [Accounts -> Balances],
                  credit : {[a \in Accounts |-> 0]}] : chain = <<b>>
  BY DEF RefreshInit, FollowInit
<1>2. b \in Block
  <2>1. [a \in Accounts |-> 0] \in [Accounts -> Amounts]
    BY FollowAssumption
  <2> QED  BY <2>1 DEF Block
<1>3. chain \in Seq(Block) /\ Len(chain) = 1 /\ chain[1] = b
  BY <1>1, <1>2
<1>4. store \in [Accounts -> Nat]
  <2> USE DEF RefreshInit, FollowInit
  <2>1. CASE store = [a \in Accounts |-> 0]
    BY <2>1
  <2>2. CASE store \in [Accounts -> Balances]
    BY <2>2, FollowAssumption
  <2>3. CASE store = Ledger(1)
    <3>1. ASSUME NEW a \in Accounts PROVE b.spent[a] + b.credit[a] \in Nat
      <4>1. b.spent[a] \in Balances /\ b.credit[a] \in Amounts
        BY <1>2 DEF Block
      <4> QED  BY <4>1, FollowAssumption
    <3> QED  BY <2>3, <1>3, <3>1 DEF Ledger
  <2> QED  BY <2>1, <2>2, <2>3
<1>5. corrections = <<>> /\ corrections \in Seq(Correction) /\ DOMAIN corrections = {}
  BY DEF RefreshInit, FollowInit
<1>6. finalized = 1 /\ last = 1 /\ complete \in Modes /\ due = FALSE /\ following = TRUE
      /\ height = 0
  BY DEF RefreshInit, FollowInit
<1>7. Len(chain) \in 1 .. MaxBlock /\ finalized \in 1 .. Len(chain) /\ last \in 1 .. Len(chain)
  BY <1>3, <1>6, FollowAssumption
<1>8. FollowTypeOK
  BY <1>3, <1>4, <1>5, <1>6, <1>7 DEF FollowTypeOK
<1>9. height \in 0 .. Len(chain)
  BY <1>3, <1>6
<1> QED  BY <1>3, <1>5, <1>8, <1>9 DEF RefreshInv, RefreshTypeOK, ChainOK, CorrectionsAreTrue

(* A chain that only grows keeps the ledgers it has.                       *)
LEMMA LedgerKept ==
    ASSUME NEW b, chain \in Seq(Block), chain' = Append(chain, b), b \in Block,
           NEW n \in 1 .. Len(chain)
    PROVE  chain'[n] = chain[n] /\ Ledger(n)' = Ledger(n)
<1>1. chain'[n] = chain[n]
  OBVIOUS
<1> QED  BY <1>1 DEF Ledger

(* Finalizing a block keeps the invariant.                                 *)
LEMMA FinalizeInv ==
    ASSUME RefreshInv, Finalize, UNCHANGED <<height, unchecked>> PROVE RefreshInv'
<1> USE DEF RefreshInv, RefreshTypeOK, FollowTypeOK
<1>1. PICK b \in Block :
         /\ \A a \in Accounts \ b.touched : b.spent[a] = Ledger(Len(chain))[a]
         /\ chain' = Append(chain, b)
  BY DEF Finalize
<1>2. /\ Len(chain) < MaxBlock
      /\ UNCHANGED <<finalized, complete, last, store, corrections, due, following>>
  BY DEF Finalize
<1>3. /\ chain' \in Seq(Block) /\ Len(chain') = Len(chain) + 1
      /\ chain'[Len(chain) + 1] = b
  BY <1>1
<1>4. FollowTypeOK'
  <2>1. MaxBlock \in Nat
    BY FollowAssumption
  <2>2. Len(chain') \in 1 .. MaxBlock /\ finalized' \in 1 .. Len(chain') /\ last' \in 1 .. Len(chain')
    BY <1>2, <1>3, <2>1
  <2> QED  BY <1>2, <1>3, <2>2
<1>5. RefreshTypeOK'
  <2>1. height' \in 0 .. Len(chain') /\ (corrections' # <<>> => height' # 0)
    BY <1>2, <1>3
  <2> QED  BY <1>4, <2>1
<1>6. ChainOK'
  <2>1. ASSUME NEW n \in 2 .. Len(chain'), NEW a \in Accounts \ chain'[n].touched
        PROVE  chain'[n].spent[a] = Ledger(n - 1)'[a]
    <3>1. CASE n = Len(chain) + 1
      <4>1. n - 1 = Len(chain) /\ n - 1 \in 1 .. Len(chain)
        BY <3>1
      <4>2. Ledger(n - 1)' = Ledger(n - 1)
        BY <1>1, <4>1, LedgerKept
      <4> QED  BY <1>1, <1>3, <3>1, <4>1, <4>2
    <3>2. CASE n # Len(chain) + 1
      <4>1. n \in 2 .. Len(chain) /\ n \in 1 .. Len(chain) /\ n - 1 \in 1 .. Len(chain)
        BY <1>3, <3>2
      <4>2. Ledger(n - 1)' = Ledger(n - 1) /\ chain'[n] = chain[n]
        BY <1>1, <4>1, LedgerKept
      <4>3. a \in Accounts \ chain[n].touched
        BY <4>2
      <4> QED  BY <4>1, <4>2, <4>3 DEF ChainOK
    <3> QED  BY <3>1, <3>2
  <2> QED  BY <2>1 DEF ChainOK
<1>7. CorrectionsAreTrue'
  <2>1. CASE corrections = <<>>
    BY <1>2, <2>1 DEF CorrectionsAreTrue
  <2>2. CASE corrections # <<>>
    <3>1. height' = height /\ height \in 1 .. Len(chain)
      BY <2>2
    <3>2. Ledger(height)' = Ledger(height)
      <4>1. \A n \in 1 .. Len(chain) : Ledger(n)' = Ledger(n)
        BY <1>1, LedgerKept
      <4> QED  BY <1>1, <3>1, <4>1 DEF Ledger
    <3> QED  BY <1>2, <3>2 DEF CorrectionsAreTrue
  <2> QED  BY <2>1, <2>2
<1> QED  BY <1>5, <1>6, <1>7

(* A step that leaves the chain, the queue's front aside, and the run.     *)
LEMMA SameChain ==
    ASSUME RefreshInv, UNCHANGED <<chain, height>>
    PROVE  ChainOK' /\ \A n : Ledger(n)' = Ledger(n)
BY DEF RefreshInv, ChainOK, Ledger

(* Taking a block, in full or in part, keeps the invariant.                *)
LEMMA BlockInv ==
    ASSUME RefreshInv, ApplyBlock \/ RejectBlock, UNCHANGED <<height, unchecked>>
    PROVE  RefreshInv'
<1> USE DEF RefreshInv, RefreshTypeOK
<1>1. /\ last < finalized /\ corrections' = Remaining
      /\ UNCHANGED <<chain, finalized, complete>>
  BY DEF ApplyBlock, RejectBlock
<1>2. last + 1 \in 1 .. Len(chain)
  BY <1>1 DEF FollowTypeOK
<1>3. Applied(last + 1) \in [Accounts -> Nat]
  BY <1>2, AppliedTyped
<1>4. store' \in [Accounts -> Nat]
  <2>1. CASE ApplyBlock
    BY <1>3, <2>1 DEF ApplyBlock
  <2>2. CASE RejectBlock
    <3>1. PICK done \in SUBSET Accounts :
             \E fixed \in SUBSET Accounts :
                store' = [a \in Accounts |-> IF a \in done THEN Applied(last + 1)[a]
                                             ELSE IF a \in fixed THEN Corrected(a)
                                             ELSE store[a]]
      BY <2>2 DEF RejectBlock
    <3>2. PICK fixed \in SUBSET Accounts :
             store' = [a \in Accounts |-> IF a \in done THEN Applied(last + 1)[a]
                                          ELSE IF a \in fixed THEN Corrected(a)
                                          ELSE store[a]]
      BY <3>1
    <3>3. ASSUME NEW a \in Accounts
          PROVE  (IF a \in done THEN Applied(last + 1)[a]
                  ELSE IF a \in fixed THEN Corrected(a) ELSE store[a]) \in Nat
      BY <1>3, CorrectedTyped DEF FollowTypeOK
    <3> QED  BY <3>2, <3>3
  <2> QED  BY <2>1, <2>2
<1>5. /\ last' \in 1 .. Len(chain') /\ due' \in BOOLEAN /\ following' \in BOOLEAN
  <2>1. CASE ApplyBlock
    BY <1>1, <1>2, <2>1 DEF ApplyBlock, FollowTypeOK
  <2>2. CASE RejectBlock
    BY <1>1, <1>2, <2>2 DEF RejectBlock, FollowTypeOK
  <2> QED  BY <2>1, <2>2
<1>6. corrections' \in Seq(Correction)
  BY <1>1, RemainingIsSuffix
<1>7. FollowTypeOK'
  BY <1>1, <1>4, <1>5, <1>6 DEF FollowTypeOK
<1>8. RefreshTypeOK'
  BY <1>1, <1>7, RemainingIsSuffix
<1>9. CorrectionsAreTrue'
  <2>1. ASSUME NEW i \in DOMAIN Remaining
        PROVE  Remaining[i].balance = Ledger(height)[Remaining[i].account]
    BY RemainingIsSuffix DEF CorrectionsAreTrue
  <2>2. Ledger(height)' = Ledger(height)
    BY <1>1 DEF Ledger
  <2> QED  BY <1>1, <2>1, <2>2 DEF CorrectionsAreTrue
<1> QED  BY <1>1, <1>8, <1>9, SameChain

(* A poll moves only the head.                                             *)
LEMMA PollInv ==
    ASSUME RefreshInv, Poll, UNCHANGED <<height, unchecked>> PROVE RefreshInv'
<1>1. /\ finalized' \in 1 .. Len(chain)
      /\ UNCHANGED <<chain, complete, last, store, corrections, due, following, height>>
  BY DEF Poll
<1>2. FollowTypeOK'
  BY <1>1 DEF RefreshInv, RefreshTypeOK, FollowTypeOK
<1>3. CorrectionsAreTrue'
  BY <1>1 DEF RefreshInv, CorrectionsAreTrue, Ledger
<1> QED  BY <1>1, <1>2, <1>3, SameChain DEF RefreshInv, RefreshTypeOK

(* The run reads at the block that is applied when it starts.              *)
LEMMA StartRefreshInv == ASSUME RefreshInv, StartRefresh PROVE RefreshInv'
<1>1. /\ height = 0 /\ height' = last
      /\ UNCHANGED <<chain, finalized, complete, last, store, corrections, due, following>>
  BY DEF StartRefresh, followVars
<1>2. corrections = <<>> /\ last \in 1 .. Len(chain)
  BY <1>1 DEF RefreshInv, RefreshTypeOK, FollowTypeOK
<1>3. FollowTypeOK'
  BY <1>1 DEF RefreshInv, RefreshTypeOK, FollowTypeOK
<1>4. ChainOK'
  BY <1>1 DEF RefreshInv, ChainOK, Ledger
<1>5. CorrectionsAreTrue'
  BY <1>1, <1>2 DEF CorrectionsAreTrue
<1>6. height' \in 0 .. Len(chain')
  BY <1>1, <1>2
<1> QED  BY <1>1, <1>2, <1>3, <1>4, <1>5, <1>6 DEF RefreshInv, RefreshTypeOK

(* A decided check queues nothing, or a true correction.                   *)
LEMMA DecideInv == ASSUME RefreshInv, NEW a \in Accounts, Decide(a) PROVE RefreshInv'
<1> USE DEF RefreshInv, RefreshTypeOK
<1>1. /\ height # 0
      /\ UNCHANGED <<chain, finalized, complete, last, store, due, following, height>>
  BY DEF Decide
<1>2. PICK r \in Answers(a) :
         corrections' = IF Quorum(r) \in {Silent, store[a]} THEN corrections
                        ELSE Append(corrections, [account |-> a, balance |-> Quorum(r),
                                                  baseline |-> store[a]])
  BY DEF Decide
<1> DEFINE c == [account |-> a, balance |-> Quorum(r), baseline |-> store[a]]
<1>3. CASE corrections' = corrections
  <2>1. FollowTypeOK'
    BY <1>1, <1>3 DEF FollowTypeOK
  <2>2. CorrectionsAreTrue'
    BY <1>1, <1>3 DEF CorrectionsAreTrue, Ledger
  <2> QED  BY <1>1, <1>3, <2>1, <2>2, SameChain
<1>4. CASE Quorum(r) \notin {Silent, store[a]}
  <2>1. c \in Correction
    BY <1>4, DecideTyped
  <2>2. corrections' = Append(corrections, c)
    BY <1>2, <1>4
  <2>3. corrections \in Seq(Correction)
    BY DEF FollowTypeOK
  <2>4. c.account = a /\ c.balance = Ledger(height)[a]
    BY <1>4, AgreedIsTrue
  <2> HIDE DEF c
  <2>5. corrections' \in Seq(Correction)
    BY <2>1, <2>2, <2>3
  <2>6. FollowTypeOK'
    BY <1>1, <2>5 DEF FollowTypeOK
  <2>7. ASSUME NEW i \in DOMAIN corrections'
        PROVE  corrections'[i].balance = Ledger(height)[corrections'[i].account]
    <3>1. CASE i = Len(corrections) + 1
      BY <2>1, <2>2, <2>3, <2>4, <3>1
    <3>2. CASE i # Len(corrections) + 1
      <4>1. i \in DOMAIN corrections /\ corrections'[i] = corrections[i]
        BY <2>1, <2>2, <2>3, <3>2
      <4> QED  BY <4>1 DEF CorrectionsAreTrue
    <3> QED  BY <3>1, <3>2
  <2>8. Ledger(height)' = Ledger(height)
    BY <1>1 DEF Ledger
  <2>9. CorrectionsAreTrue'
    BY <2>7, <2>8 DEF CorrectionsAreTrue
  <2> QED  BY <1>1, <2>6, <2>9, SameChain
<1> QED  BY <1>2, <1>3, <1>4

(* Every step keeps the invariant.                                         *)
LEMMA NextInv == RefreshInv /\ [RefreshNext]_refreshVars => RefreshInv'
<1> SUFFICES ASSUME RefreshInv, [RefreshNext]_refreshVars PROVE RefreshInv'
  OBVIOUS
<1>1. CASE Loop
  BY <1>1, FinalizeInv, PollInv, BlockInv DEF Loop, LoopStep
<1>2. CASE StartRefresh
  BY <1>2, StartRefreshInv
<1>3. CASE \E a \in Accounts : Decide(a)
  BY <1>3, DecideInv
<1>4. CASE UNCHANGED refreshVars
  <2>1. /\ UNCHANGED <<chain, finalized, complete, last, store, corrections, due, following>>
        /\ UNCHANGED <<height, unchecked>>
    BY <1>4 DEF refreshVars, followVars
  <2>2. FollowTypeOK' /\ CorrectionsAreTrue'
    BY <2>1 DEF RefreshInv, RefreshTypeOK, FollowTypeOK, CorrectionsAreTrue, Ledger
  <2> QED  BY <2>1, <2>2, SameChain DEF RefreshInv, RefreshTypeOK
<1> QED  BY <1>1, <1>2, <1>3, <1>4 DEF RefreshNext

(* The invariant holds in every reachable state.                           *)
THEOREM RefreshSafe == RefreshSpec => []RefreshInv
BY InitInv, NextInv, PTL DEF RefreshSpec

(* Type correctness of the loop and the refresh.                           *)
THEOREM FollowTypeCorrect == RefreshSpec => []FollowTypeOK
<1>1. RefreshInv => FollowTypeOK
  BY DEF RefreshInv, RefreshTypeOK
<1> QED  BY <1>1, RefreshSafe, PTL

(* Every queued correction is what the chain held at the run's height,     *)
(* whatever the other providers answer.                                    *)
THEOREM CorrectionsAreAlwaysTrue == RefreshSpec => []CorrectionsAreTrue
<1>1. RefreshInv => CorrectionsAreTrue
  BY DEF RefreshInv
<1> QED  BY <1>1, RefreshSafe, PTL

-----------------------------------------------------------------------------
(* What a block does.                                                      *)

(* The loop moves on only by applying a block in full.                     *)
LEMMA OnlyApplyBlock ==
    ASSUME RefreshInv, [RefreshNext]_refreshVars, last' = last + 1
    PROVE  /\ store' = Applied(last + 1)
           /\ UNCHANGED <<chain, complete, height>>
           /\ last \in 1 .. Len(chain)
           /\ last + 1 \in 2 .. Len(chain)
           /\ last + 1 \in 1 .. Len(chain)
<1>1. FollowTypeOK /\ last \in Int
  BY DEF RefreshInv, RefreshTypeOK, FollowTypeOK
<1>2. last' # last
  BY <1>1
<1>3. ~UNCHANGED refreshVars
  BY <1>2 DEF refreshVars, followVars
<1>4. ApplyBlock /\ UNCHANGED <<height, unchecked>>
  <2>1. ASSUME NEW a \in Accounts, Decide(a) PROVE FALSE
    BY <1>2, <2>1 DEF Decide
  <2>2. CASE StartRefresh
    BY <1>2, <2>2 DEF StartRefresh, followVars
  <2>3. CASE Loop
    BY <1>2, <2>3 DEF Loop, LoopStep, Finalize, Poll, RejectBlock
  <2> QED  BY <1>3, <2>1, <2>2, <2>3 DEF RefreshNext
<1>5. last < finalized /\ store' = Applied(last + 1) /\ UNCHANGED <<chain, complete>>
  BY <1>4 DEF ApplyBlock
<1>6. last \in 1 .. Len(chain) /\ finalized \in 1 .. Len(chain)
  BY <1>1 DEF FollowTypeOK
<1> QED  BY <1>4, <1>5, <1>6

(* The accounts that a block's transactions touch are right after it, with *)
(* or without corrections for them.                                        *)
THEOREM FeedWins == RefreshSpec => FeedAlwaysWins
<1>1. ASSUME RefreshInv, [RefreshNext]_refreshVars
      PROVE  last' = last + 1 => \A a \in Changed(last') : store'[a] = Ledger(last')[a]
  <2>1. SUFFICES ASSUME last' = last + 1, NEW a \in Changed(last + 1)
                 PROVE  store'[a] = Ledger(last + 1)[a]
    OBVIOUS
  <2>2. store' = Applied(last + 1) /\ last + 1 \in 1 .. Len(chain)
    BY <1>1, <2>1, OnlyApplyBlock
  <2>3. a \in Accounts
    <3>1. chain[last + 1] \in Block
      BY <1>1, <2>2 DEF RefreshInv, RefreshTypeOK, FollowTypeOK
    <3> QED  BY <2>1, <3>1 DEF Block, Changed
  <2> QED
    BY <1>1, <2>2, <2>3, TouchedIsRight DEF RefreshInv, RefreshTypeOK
<1>2. RefreshInv /\ [RefreshNext]_refreshVars
      => [last' = last + 1 => \A a \in Changed(last') : store'[a] = Ledger(last')[a]]_refreshVars
  BY <1>1
<1> QED  BY <1>2, RefreshSafe, PTL DEF RefreshSpec, FeedAlwaysWins

(* A riding correction leaves an account right when the chain still has    *)
(* the balance of the run's height there.                                  *)
THEOREM RefreshHeals == RefreshSpec => CorrectionsHeal
<1>1. ASSUME RefreshInv, [RefreshNext]_refreshVars, last' = last + 1, complete,
             NEW a \in Accounts, Riding(a) # {}, Ledger(last)[a] = Ledger(height)[a]
      PROVE  store'[a] = Ledger(last')[a]
  <2> DEFINE n == last + 1
  <2>1. /\ store' = Applied(n) /\ n \in 2 .. Len(chain) /\ n \in 1 .. Len(chain)
        /\ n - 1 = last /\ last \in 1 .. Len(chain)
    <3>1. /\ store' = Applied(last + 1) /\ last + 1 \in 2 .. Len(chain)
          /\ last + 1 \in 1 .. Len(chain) /\ last \in 1 .. Len(chain)
      BY <1>1, OnlyApplyBlock
    <3>2. last + 1 - 1 = last
      BY <3>1
    <3> QED  BY <3>1, <3>2
  <2>2. FollowTypeOK /\ ChainOK /\ CorrectionsAreTrue
    BY <1>1 DEF RefreshInv, RefreshTypeOK
  <2>3. CASE a \in Changed(n)
    BY <1>1, <2>1, <2>2, <2>3, TouchedIsRight
  <2>4. CASE a \notin Changed(n)
    <3>1. Corrected(a) = Ledger(last)[a]
      <4>1. PICK i \in DOMAIN corrections :
               corrections[i].account = a /\ Corrected(a) = corrections[i].balance
        BY <1>1, <2>2, CorrectedByOne
      <4> QED  BY <1>1, <2>2, <4>1 DEF CorrectionsAreTrue
    <3>2. /\ Ledger(n)[a] = Ledger(last)[a] + chain[n].credit[a]
          /\ a \in KeptCredits(n) => Applied(n)[a] = Corrected(a) + chain[n].credit[a]
          /\ a \notin KeptCredits(n) => Applied(n)[a] = Corrected(a)
          /\ a \notin KeptCredits(n) => chain[n].credit[a] = 0
      BY <1>1, <2>1, <2>2, <2>4, UntouchedIsCredited
    <3>3. Corrected(a) \in Nat
      BY <2>2, CorrectedTyped
    <3> QED  BY <1>1, <2>1, <3>1, <3>2, <3>3
  <2> QED  BY <2>3, <2>4
<1>2. RefreshInv /\ [RefreshNext]_refreshVars
      => [last' = last + 1 /\ complete =>
            \A a \in Accounts : Riding(a) # {} /\ Ledger(last)[a] = Ledger(height)[a]
               => store'[a] = Ledger(last')[a]]_refreshVars
  BY <1>1
<1> QED  BY <1>2, RefreshSafe, PTL DEF RefreshSpec, CorrectionsHeal

(* An account that no riding correction is for, and that is answered       *)
(* rightly before a block, is answered rightly after it.                   *)
LEMMA UncorrectedStaysRight ==
    ASSUME RefreshInv, [RefreshNext]_refreshVars, last' = last + 1,
           NEW a \in Accounts, AnswersRight(a), Riding(a) = {}
    PROVE  AnswersRight(a)'
<1> DEFINE n == last + 1
<1>1. /\ store' = Applied(n) /\ n \in 2 .. Len(chain) /\ n \in 1 .. Len(chain) /\ n - 1 = last
      /\ UNCHANGED <<chain, complete>> /\ last \in 1 .. Len(chain)
  BY OnlyApplyBlock
<1>2. FollowTypeOK /\ ChainOK
  BY DEF RefreshInv, RefreshTypeOK
<1>3. AnswersRight(a)' <=> store'[a] = Ledger(n)[a] \/ (~complete /\ store'[a] = 0)
  BY <1>1 DEF AnswersRight, Ledger
<1>4. CASE a \in Changed(n)
  BY <1>1, <1>2, <1>3, <1>4, TouchedIsRight
<1>5. CASE a \notin Changed(n)
  <2>1. Corrected(a) = store[a] /\ store[a] \in Nat
    BY <1>2, CorrectedByNone DEF FollowTypeOK
  <2>2. /\ Ledger(n)[a] = Ledger(last)[a] + chain[n].credit[a]
        /\ a \in KeptCredits(n) => Applied(n)[a] = Corrected(a) + chain[n].credit[a]
        /\ a \notin KeptCredits(n) => Applied(n)[a] = Corrected(a)
        /\ (complete \/ store[a] # 0) /\ a \notin KeptCredits(n) => chain[n].credit[a] = 0
    BY <1>1, <1>2, <1>5, UntouchedIsCredited
  <2>3. a \in KeptCredits(n) => complete \/ store[a] # 0
    BY <1>5 DEF KeptCredits
  <2> QED  BY <1>1, <1>3, <2>1, <2>2, <2>3 DEF AnswersRight
<1> QED  BY <1>4, <1>5

(* A correction that the feed has overtaken never undoes a right answer.   *)
THEOREM OvertakenAreDropped == RefreshSpec => OvertakenCorrectionsAreDropped
<1>1. ASSUME RefreshInv, [RefreshNext]_refreshVars, last' = last + 1, NEW a \in Accounts,
             AnswersRight(a),
             \A i \in DOMAIN corrections :
                corrections[i].account = a => corrections[i].baseline # store[a]
      PROVE  AnswersRight(a)'
  <2>1. Riding(a) = {}
    BY <1>1 DEF Riding, StillValid, Drained
  <2> QED  BY <1>1, <2>1, UncorrectedStaysRight
<1>2. RefreshInv /\ [RefreshNext]_refreshVars
      => [last' = last + 1 =>
            \A a \in Accounts :
               AnswersRight(a) /\ (\A i \in DOMAIN corrections :
                                     corrections[i].account = a => corrections[i].baseline # store[a])
               => AnswersRight(a)']_refreshVars
  BY <1>1
<1> QED  BY <1>2, RefreshSafe, PTL DEF RefreshSpec, OvertakenCorrectionsAreDropped

-----------------------------------------------------------------------------
(* The loop without --hard-refresh, from an exact snapshot.                *)

PlainInv ==
    /\ RefreshInv
    /\ corrections = <<>> /\ unchecked = {}
    /\ StaysRight

(* A step other than a block's does not change what is right.              *)
LEMMA OtherStepsKeepRight ==
    ASSUME PlainInv, RefreshInv', NEW a \in Accounts, following,
           Finalize \/ Poll \/ StartRefresh \/ UNCHANGED followVars
    PROVE  AnswersRight(a)'
<1>1. AnswersRight(a) /\ chain \in Seq(Block) /\ last \in 1 .. Len(chain)
  BY DEF PlainInv, StaysRight, RefreshInv, RefreshTypeOK, FollowTypeOK
<1>2. UNCHANGED <<last, store, complete>>
  BY DEF Finalize, Poll, StartRefresh, followVars
<1>3. Ledger(last)' = Ledger(last)
  <2>1. CASE Finalize
    <3>1. PICK b \in Block : chain' = Append(chain, b)
      BY <2>1 DEF Finalize
    <3>2. \A n \in 1 .. Len(chain) : chain'[n] = chain[n]
      BY <1>1, <3>1
    <3> QED  BY <1>1, <1>2, <3>2 DEF Ledger
  <2>2. CASE Poll \/ StartRefresh \/ UNCHANGED followVars
    BY <1>2, <2>2 DEF Poll, StartRefresh, followVars, Ledger
  <2> QED  BY <2>1, <2>2
<1> QED  BY <1>1, <1>2, <1>3 DEF AnswersRight

(* Followed from an exact snapshot, or from an empty partial deployment,   *)
(* without listed accounts, every answer is the chain's at the applied     *)
(* block for as long as the loop follows.                                  *)
THEOREM FollowingStaysRight ==
    ASSUME ~BootstrapDrifts, Listed = {} PROVE RefreshSpec => []StaysRight
<1>1. RefreshInit => PlainInv
  <2> SUFFICES ASSUME RefreshInit PROVE PlainInv
    OBVIOUS
  <2>1. RefreshInv /\ corrections = <<>> /\ unchecked = {} /\ last = 1
    BY InitInv DEF RefreshInit, FollowInit
  <2>2. CASE complete
    <3>1. store = Ledger(1)
      BY <2>2 DEF RefreshInit, FollowInit
    <3> QED  BY <2>1, <3>1 DEF PlainInv, StaysRight, AnswersRight
  <2>3. CASE ~complete
    <3>1. store = [a \in Accounts |-> 0]
      BY <2>3 DEF RefreshInit, FollowInit
    <3> QED  BY <2>1, <2>3, <3>1 DEF PlainInv, StaysRight, AnswersRight
  <2> QED  BY <2>2, <2>3
<1>2. PlainInv /\ [RefreshNext]_refreshVars => PlainInv'
  <2> SUFFICES ASSUME PlainInv, [RefreshNext]_refreshVars PROVE PlainInv'
    OBVIOUS
  <2>1. RefreshInv /\ RefreshInv'
    BY NextInv DEF PlainInv
  <2>2. ~\E a \in Accounts : Decide(a)
    BY DEF PlainInv, Decide
  <2>3. corrections' = <<>> /\ unchecked' = {}
    <3>1. CASE Loop
      <4>1. Remaining = <<>>
        BY <2>1, RemainingIsSuffix DEF PlainInv, RefreshInv, RefreshTypeOK
      <4> QED  BY <3>1, <4>1 DEF PlainInv, Loop, LoopStep, Finalize, Poll, ApplyBlock, RejectBlock
    <3>2. CASE StartRefresh \/ UNCHANGED refreshVars
      BY <3>2 DEF PlainInv, StartRefresh, refreshVars, followVars
    <3> QED  BY <2>2, <3>1, <3>2 DEF RefreshNext
  <2>4. StaysRight'
    <3>1. SUFFICES ASSUME following', NEW a \in Accounts PROVE AnswersRight(a)'
      BY DEF StaysRight
    <3>2. CASE Loop /\ ApplyBlock
      <4>1. last' = last + 1 /\ following
        BY <3>2 DEF ApplyBlock
      <4>2. AnswersRight(a) /\ Riding(a) = {}
        BY <4>1 DEF PlainInv, StaysRight, Riding, Drained
      <4> QED  BY <2>1, <4>1, <4>2, UncorrectedStaysRight
    <3>3. CASE Finalize \/ Poll \/ StartRefresh \/ UNCHANGED followVars
      <4>1. following
        BY <3>1, <3>3 DEF Finalize, Poll, StartRefresh, followVars
      <4> QED  BY <2>1, <3>3, <4>1, OtherStepsKeepRight
    <3>4. CASE RejectBlock
      BY <3>1, <3>4 DEF RejectBlock
    <3> QED  BY <2>2, <3>2, <3>3, <3>4 DEF RefreshNext, Loop, LoopStep, refreshVars
  <2> QED  BY <2>1, <2>3, <2>4 DEF PlainInv
<1>3. PlainInv => StaysRight
  BY DEF PlainInv
<1> QED  BY <1>1, <1>2, <1>3, PTL DEF RefreshSpec

-----------------------------------------------------------------------------
(* The reconcile checkpoint: the deferred reservoir.                       *)

(* What insert_many does with one address.                                 *)
Insert(q, a) == IF Len(q) >= ReservoirCap \/ a \in ElementsOf(q) THEN q ELSE Append(q, a)

(* An address goes in behind the others.                                   *)
LEMMA AppendKeeps ==
    ASSUME NEW q \in Seq(Accounts), NEW a \in Accounts
    PROVE  /\ Append(q, a) \in Seq(Accounts)
           /\ Len(Append(q, a)) = Len(q) + 1
           /\ ElementsOf(Append(q, a)) = ElementsOf(q) \cup {a}
<1>1. PICK r : r = Append(q, a)
  OBVIOUS
<1>2. /\ r \in Seq(Accounts) /\ Len(r) = Len(q) + 1
      /\ DOMAIN r = 1 .. Len(q) + 1 /\ DOMAIN q = 1 .. Len(q) /\ Len(q) \in Nat
      /\ \A i \in 1 .. Len(q) : r[i] = q[i]
      /\ r[Len(q) + 1] = a
  BY <1>1
<1>3. ElementsOf(r) = ElementsOf(q) \cup {a}
  <2>1. ElementsOf(r) \subseteq ElementsOf(q) \cup {a}
    <3> SUFFICES ASSUME NEW i \in DOMAIN r PROVE r[i] \in ElementsOf(q) \cup {a}
      BY DEF ElementsOf
    <3>1. i \in 1 .. Len(q) \/ i = Len(q) + 1
      BY <1>2
    <3> QED  BY <1>2, <3>1 DEF ElementsOf
  <2>2. a \in ElementsOf(r)
    <3>1. Len(q) + 1 \in DOMAIN r
      BY <1>2
    <3> QED  BY <1>2, <3>1 DEF ElementsOf
  <2>3. ElementsOf(q) \subseteq ElementsOf(r)
    <3> SUFFICES ASSUME NEW i \in DOMAIN q PROVE q[i] \in ElementsOf(r)
      BY DEF ElementsOf
    <3>1. i \in DOMAIN r /\ r[i] = q[i]
      BY <1>2
    <3> QED  BY <3>1 DEF ElementsOf
  <2> QED  BY <2>1, <2>2, <2>3
<1> QED  BY <1>1, <1>2, <1>3

(* The queues that hold at least the addresses of E and no more than the   *)
(* reservoir's capacity.                                                   *)
Holding(E) == {q \in Seq(Accounts) : Len(q) <= ReservoirCap /\ E \subseteq ElementsOf(q)}

(* A queue's addresses stay when others are put off.                       *)
LEMMA InsertManyKeeps ==
    ASSUME NEW queue \in Seq(Accounts), Len(queue) <= ReservoirCap, NEW s \in Seq(Accounts)
    PROVE  InsertMany(queue, s) \in Holding(ElementsOf(queue))
<1> DEFINE V == Holding(ElementsOf(queue))
           n == Len(s)
           g == [i \in 1 .. n |-> [q \in V |-> Insert(q, s[i])]]
           Body(h, i) == IF i = 0 THEN queue
                         ELSE IF Len(h[i - 1]) >= ReservoirCap \/ s[i] \in ElementsOf(h[i - 1])
                              THEN h[i - 1]
                              ELSE Append(h[i - 1], s[i])
           f == CHOOSE h : h = [i \in 0 .. n |-> Body(h, i)]
<1>1. queue \in V
  BY DEF Holding
<1>2. n \in Nat /\ \A i \in 1 .. n : s[i] \in Accounts
  OBVIOUS
<1>3. ASSUME NEW i \in 1 .. n, NEW q \in V PROVE Insert(q, s[i]) \in V
  <2>1. q \in Seq(Accounts) /\ Len(q) <= ReservoirCap /\ ElementsOf(queue) \subseteq ElementsOf(q)
    BY DEF Holding
  <2>2. CASE Len(q) >= ReservoirCap \/ s[i] \in ElementsOf(q)
    BY <2>2 DEF Insert
  <2>3. CASE ~(Len(q) >= ReservoirCap \/ s[i] \in ElementsOf(q))
    <3>1. /\ Append(q, s[i]) \in Seq(Accounts) /\ Len(Append(q, s[i])) = Len(q) + 1
          /\ ElementsOf(Append(q, s[i])) = ElementsOf(q) \cup {s[i]}
      BY <1>2, <2>1, AppendKeeps
    <3>2. Len(q) \in Nat /\ ReservoirCap \in Nat
      BY <2>1, ReconcileAssumption
    <3>3. Len(Append(q, s[i])) <= ReservoirCap
      BY <2>3, <3>1, <3>2
    <3>4. Append(q, s[i]) \in V
      BY <2>1, <3>1, <3>3 DEF Holding
    <3> QED  BY <2>3, <3>4 DEF Insert
  <2> QED  BY <2>2, <2>3
<1>4. g \in [1 .. n -> [V -> V]]
  BY <1>3
<1>5. PICK h \in Passes(n, V, queue, g) : TRUE
  <2>1. n \in Nat /\ g \in Rounds(n, V)
    BY <1>2, <1>4 DEF Rounds
  <2> HIDE DEF V, n, g
  <2> QED  BY <1>1, <2>1, RecursionUpToNat
<1>13. h \in [0 .. n -> V] /\ h[0] = queue /\ \A i \in 1 .. n : h[i] = g[i][h[i - 1]]
  BY DEF Passes
<1>6. h = [i \in 0 .. n |-> Body(h, i)]
  <2>1. ASSUME NEW i \in 0 .. n PROVE h[i] = Body(h, i)
    <3>1. CASE i = 0
      BY <3>1, <1>13
    <3>2. CASE i # 0
      <4>1. i \in 1 .. n /\ i - 1 \in 0 .. n
        BY <1>2, <3>2
      <4>2. h[i - 1] \in V
        BY <4>1, <1>13
      <4>3. h[i] = Insert(h[i - 1], s[i])
        BY <4>1, <4>2, <1>13
      <4> QED  BY <3>2, <4>3 DEF Insert
    <3> QED  BY <3>1, <3>2
  <2> HIDE DEF Body, V
  <2> QED  BY <2>1, <1>13
<1>7. f = [i \in 0 .. n |-> Body(f, i)]
  <2> HIDE DEF Body
  <2> QED  BY <1>6
<1>8. ASSUME NEW i \in 0 .. n PROVE f[i] = Body(f, i)
  <2> HIDE DEF Body, f
  <2> QED  BY <1>7
<1>9. f[0] = queue
  <2> HIDE DEF f
  <2> QED  BY <1>8, <1>2
<1>10. ASSUME NEW i \in 1 .. n, f[i - 1] \in V PROVE f[i] \in V
  <2>1. f[i] = Body(f, i) /\ i # 0
    <3>1. i \in 0 .. n /\ i # 0
      BY <1>2
    <3> HIDE DEF f, Body
    <3> QED  BY <1>8, <3>1
  <2>2. f[i] = Insert(f[i - 1], s[i])
    <3> HIDE DEF f
    <3> QED  BY <2>1 DEF Insert
  <2> HIDE DEF f, V
  <2> QED  BY <1>10, <1>3, <2>2
<1>11. \A i \in 0 .. n : f[i] \in V
  <2> DEFINE W == [i \in 0 .. n |-> V]
  <2>1. f[0] \in W[0]
    <3> HIDE DEF f, V
    <3> QED  BY <1>1, <1>2, <1>9
  <2>2. ASSUME NEW i \in 1 .. n, f[i - 1] \in W[i - 1] PROVE f[i] \in W[i]
    <3>1. i - 1 \in 0 .. n /\ i \in 0 .. n
      BY <1>2
    <3> HIDE DEF f, V
    <3> QED  BY <1>10, <2>2, <3>1
  <2>3. \A i \in 0 .. n : f[i] \in W[i]
    <3> HIDE DEF f, W, n
    <3> QED  BY <1>2, <2>1, <2>2, UpToNat
  <2> HIDE DEF f, V
  <2> QED  BY <2>3
<1>12. InsertMany(queue, s) = f[n]
  BY DEF InsertMany
<1> HIDE DEF f, V
<1>14. f[n] \in V
  BY <1>11, <1>2
<1> QED  BY <1>12, <1>14 DEF V

(* What becomes of the i-th address popped, which requeue may put back.    *)
Requeue(q, popped, answered, i) ==
    IF i \in answered \/ Len(q) >= ReservoirCap THEN q ELSE Append(q, popped[i])

(* The queues that follow from queue when the first i of popped have been  *)
(* dealt with.                                                             *)
Returned(queue, popped, answered, i) ==
    {q \in Seq(Accounts) :
        /\ Len(q) <= Len(queue) + i
        /\ ElementsOf(queue) \subseteq ElementsOf(q)
        /\ \A j \in (1 .. i) \ answered : popped[j] \in ElementsOf(q)}

(* No address is lost when those whose fetch failed are put back: there is *)
(* room for all of them.                                                   *)
LEMMA RequeuedKeeps ==
    ASSUME NEW queue \in Seq(Accounts), NEW popped \in Seq(Accounts),
           Len(queue) + Len(popped) <= ReservoirCap, NEW answered
    PROVE  Requeued(queue, popped, answered) \in Returned(queue, popped, answered, Len(popped))
<1> DEFINE V == Seq(Accounts)
           n == Len(popped)
           After(i) == Returned(queue, popped, answered, i)
           g == [i \in 1 .. n |-> [q \in V |-> Requeue(q, popped, answered, i)]]
           Body(h, i) == IF i = 0 THEN queue
                         ELSE IF i \in answered \/ Len(h[i - 1]) >= ReservoirCap THEN h[i - 1]
                              ELSE Append(h[i - 1], popped[i])
           f == CHOOSE h : h = [i \in 0 .. n |-> Body(h, i)]
<1>1. n \in Nat /\ \A i \in 1 .. n : popped[i] \in Accounts
  OBVIOUS
<1>2. ASSUME NEW i \in 1 .. n, NEW q \in V PROVE Requeue(q, popped, answered, i) \in V
  <2>1. Append(q, popped[i]) \in Seq(Accounts)
    BY <1>1, AppendKeeps
  <2> QED  BY <2>1 DEF Requeue
<1>3. g \in Rounds(n, V)
  BY <1>2 DEF Rounds
<1>4. PICK h \in Passes(n, V, queue, g) : TRUE
  <2>1. n \in Nat /\ queue \in V
    BY <1>1
  <2> HIDE DEF V, n, g
  <2> QED  BY <1>3, <2>1, RecursionUpToNat
<1>5. h \in [0 .. n -> V] /\ h[0] = queue /\ \A i \in 1 .. n : h[i] = g[i][h[i - 1]]
  <2> HIDE DEF V, g
  <2> QED  BY DEF Passes
<1>6. h = [i \in 0 .. n |-> Body(h, i)]
  <2>1. ASSUME NEW i \in 0 .. n PROVE h[i] = Body(h, i)
    <3> HIDE DEF V
    <3>1. CASE i = 0
      BY <3>1, <1>5
    <3>2. CASE i # 0
      <4>1. i \in 1 .. n /\ i - 1 \in 0 .. n
        BY <1>1, <3>2
      <4>2. h[i - 1] \in V
        BY <4>1, <1>5
      <4>3. h[i] = Requeue(h[i - 1], popped, answered, i)
        BY <4>1, <4>2, <1>5
      <4> QED  BY <3>2, <4>3 DEF Requeue
    <3> QED  BY <3>1, <3>2
  <2> HIDE DEF Body, V
  <2> QED  BY <2>1, <1>5
<1>7. f = [i \in 0 .. n |-> Body(f, i)]
  <2> HIDE DEF Body
  <2> QED  BY <1>6
<1>8. ASSUME NEW i \in 0 .. n PROVE f[i] = Body(f, i)
  <2> HIDE DEF Body, f
  <2> QED  BY <1>7
<1>9. f[0] \in After(0)
  <2>1. f[0] = queue
    <3> HIDE DEF f
    <3> QED  BY <1>8, <1>1
  <2>2. queue \in After(0)
    BY DEF Returned
  <2> HIDE DEF f, After
  <2> QED  BY <2>1, <2>2
<1>10. ASSUME NEW i \in 1 .. n, f[i - 1] \in After(i - 1) PROVE f[i] \in After(i)
  <2>1. i \in 0 .. n /\ i # 0 /\ i \in Nat
    BY <1>1
  <2>2. f[i] = Body(f, i)
    <3> HIDE DEF f, Body
    <3> QED  BY <1>8, <2>1
  <2> DEFINE q == f[i - 1]
  <2>3. f[i] = Requeue(q, popped, answered, i)
    <3> HIDE DEF f
    <3> QED  BY <2>1, <2>2 DEF Requeue
  <2>4. /\ q \in Seq(Accounts) /\ Len(q) <= Len(queue) + (i - 1)
        /\ ElementsOf(queue) \subseteq ElementsOf(q)
        /\ \A j \in (1 .. i - 1) \ answered : popped[j] \in ElementsOf(q)
    <3> HIDE DEF f
    <3> QED  BY <1>10 DEF Returned
  <2>5. Len(q) \in Nat /\ Len(queue) \in Nat /\ ReservoirCap \in Nat /\ Len(popped) \in Nat
    <3> HIDE DEF q
    <3> QED  BY <2>4, ReconcileAssumption
  <2> HIDE DEF f, q
  <2>6. CASE i \in answered
    <3>1. f[i] = q
      BY <2>3, <2>6 DEF Requeue
    <3>2. Len(q) <= Len(queue) + i
      BY <2>4, <2>5, <2>1
    <3>3. \A j \in (1 .. i) \ answered : popped[j] \in ElementsOf(q)
      BY <2>4, <2>6, <2>1
    <3> QED  BY <2>4, <3>1, <3>2, <3>3 DEF Returned
  <2>7. CASE i \notin answered
    <3>1. Len(q) < ReservoirCap
      BY <2>4, <2>5, <2>1
    <3>2. f[i] = Append(q, popped[i])
      BY <2>3, <2>7, <3>1, <2>5 DEF Requeue
    <3>3. /\ f[i] \in Seq(Accounts) /\ Len(f[i]) = Len(q) + 1
          /\ ElementsOf(f[i]) = ElementsOf(q) \cup {popped[i]}
      BY <3>2, <2>4, <1>1, AppendKeeps
    <3>4. Len(f[i]) <= Len(queue) + i
      BY <2>4, <2>5, <2>1, <3>3
    <3>5. \A j \in (1 .. i) \ answered : popped[j] \in ElementsOf(f[i])
      BY <2>4, <2>1, <3>3
    <3> QED  BY <2>4, <3>3, <3>4, <3>5 DEF Returned
  <2> QED  BY <2>6, <2>7
<1>11. \A i \in 0 .. n : f[i] \in After(i)
  <2> DEFINE W == [i \in 0 .. n |-> After(i)]
  <2>1. f[0] \in W[0]
    <3> HIDE DEF f, After
    <3> QED  BY <1>1, <1>9
  <2>2. ASSUME NEW i \in 1 .. n, f[i - 1] \in W[i - 1] PROVE f[i] \in W[i]
    <3>1. i - 1 \in 0 .. n /\ i \in 0 .. n
      BY <1>1
    <3> HIDE DEF f, After
    <3> QED  BY <1>10, <2>2, <3>1
  <2>3. \A i \in 0 .. n : f[i] \in W[i]
    <3> HIDE DEF f, W, n
    <3> QED  BY <1>1, <2>1, <2>2, UpToNat
  <2> HIDE DEF f, After
  <2> QED  BY <2>3
<1>12. Requeued(queue, popped, answered) = f[n]
  BY DEF Requeued
<1> HIDE DEF f, After
<1>13. f[n] \in After(n)
  BY <1>11, <1>1
<1> QED  BY <1>12, <1>13 DEF After

(* What a checkpoint pops and what it leaves make up the queue.            *)
LEMMA PoppedAndRest ==
    ASSUME NEW q \in Seq(Accounts)
    PROVE  /\ Popped(q) \in Seq(Accounts) /\ Rest(q) \in Seq(Accounts)
           /\ Len(Rest(q)) + Len(Popped(q)) = Len(q)
           /\ \A a \in ElementsOf(q) :
                 a \in ElementsOf(Rest(q)) \/ \E j \in 1 .. Len(Popped(q)) : a = Popped(q)[j]
<1>1. DrainPer \in Nat /\ Len(q) \in Nat
  BY ReconcileAssumption
<1>2. PICK k : k = PoppedLen(q)
  OBVIOUS
<1>3. k \in 0 .. Len(q)
  BY <1>1, <1>2 DEF PoppedLen
<1>4. PICK p : p = SubSeq(q, 1, k)
  OBVIOUS
<1>5. PICK r : r = SubSeq(q, k + 1, Len(q))
  OBVIOUS
<1>6. p = Popped(q) /\ r = Rest(q)
  BY <1>2, <1>4, <1>5 DEF Popped, Rest
<1>7. p \in Seq(Accounts) /\ Len(p) = k /\ \A i \in 1 .. k : p[i] = q[i]
  <2>1. CASE k = 0
    <3>1. p = <<>>
      BY <1>4, <2>1
    <3> QED  BY <2>1, <3>1
  <2>2. CASE k # 0
    BY <1>1, <1>3, <1>4, <2>2
  <2> QED  BY <2>1, <2>2
<1>8. r \in Seq(Accounts) /\ Len(r) = Len(q) - k /\ \A i \in 1 .. Len(q) - k : r[i] = q[k + i]
  <2>1. CASE k = Len(q)
    <3>1. r = <<>>
      BY <1>1, <1>5, <2>1
    <3> QED  BY <1>1, <2>1, <3>1
  <2>2. CASE k # Len(q)
    BY <1>1, <1>3, <1>5, <2>2
  <2> QED  BY <2>1, <2>2
<1>9. ASSUME NEW a \in ElementsOf(q)
      PROVE  a \in ElementsOf(r) \/ \E j \in 1 .. Len(p) : a = p[j]
  <2>1. PICK i \in 1 .. Len(q) : a = q[i]
    BY DEF ElementsOf
  <2>2. CASE i <= k
    BY <1>3, <1>7, <2>1, <2>2
  <2>3. CASE i > k
    <3>1. i - k \in 1 .. Len(r) /\ r[i - k] = a
      BY <1>1, <1>3, <1>8, <2>1, <2>3
    <3>2. i - k \in DOMAIN r
      BY <1>8, <3>1
    <3> QED  BY <3>1, <3>2 DEF ElementsOf
  <2> QED  BY <1>1, <1>3, <2>1, <2>2, <2>3
<1>10. Len(r) + Len(p) = Len(q)
  BY <1>1, <1>3, <1>7, <1>8
<1> QED  BY <1>6, <1>7, <1>8, <1>9, <1>10

-----------------------------------------------------------------------------
(* The candidates and their comparison.                                    *)

FollowOK ==
    /\ chain \in Seq(Block)
    /\ last \in 1 .. Len(chain) /\ finalized \in 1 .. Len(chain)

(* Some of the accounts, listed, are a sequence of accounts.               *)
LEMMA ListTyped ==
    ASSUME NEW S \in SUBSET Accounts, NEW extra \in {0, 1},
           NEW s \in [1 .. Cardinality(S) + extra -> S]
    PROVE  s \in Seq(Accounts)
<1>1. IsFiniteSet(S)
  BY ReconcileAssumption, FS_Subset
<1>2. Cardinality(S) \in Nat
  BY <1>1, FS_CardinalityType
<1>3. PICK n : n = Cardinality(S) + extra
  OBVIOUS
<1>4. n \in Nat /\ s \in [1 .. n -> Accounts]
  BY <1>2, <1>3
<1> QED  BY <1>4

(* Two lists of accounts chained are one.                                  *)
LEMMA ChainedTyped ==
    ASSUME NEW c \in Seq(Accounts), NEW d \in Seq(Accounts)
    PROVE  Chained(c, d) \in Seq(Accounts)
<1>1. c \o d \in Seq(Accounts)
  OBVIOUS
<1>2. d # <<>> => c \o Tail(d) \in Seq(Accounts)
  OBVIOUS
<1> QED  BY <1>1, <1>2 DEF Chained

(* The candidates of a checkpoint are accounts.                            *)
LEMMA CandidatesTyped ==
    ASSUME FollowOK, NEW list \in Candidates
    PROVE  list \in Seq(Accounts)
<1>1. PICK c \in SortedChanges(last), d \in IF complete THEN CreditedLists(last) ELSE {<<>>} :
         list = Chained(c, d)
  <2> DEFINE D == IF complete THEN CreditedLists(last) ELSE {<<>>}
  <2>1. list \in {Chained(c, d) : c \in SortedChanges(last), d \in D}
    BY DEF Candidates
  <2> HIDE DEF D
  <2>2. \E c \in SortedChanges(last), d \in D : list = Chained(c, d)
    BY ONLY <2>1
  <2> QED  BY Zenon, <2>2 DEF D
<1>2. Changed(last) \in SUBSET Accounts
  <2>1. chain[last] \in Block
    BY DEF FollowOK
  <2> QED  BY <2>1 DEF Changed, Block
<1>3. c \in Seq(Accounts)
  <2>1. c \in [1 .. Cardinality(Changed(last)) + 0 -> Changed(last)]
    <3>1. IsFiniteSet(Changed(last))
      BY <1>2, ReconcileAssumption, FS_Subset
    <3>2. Cardinality(Changed(last)) \in Nat
      BY <3>1, FS_CardinalityType
    <3> QED  BY <3>2 DEF SortedChanges
  <2> QED  BY <1>2, <2>1, ListTyped
<1>4. d \in Seq(Accounts)
  <2>1. CASE d = <<>>
    BY <2>1
  <2>2. CASE d \in CreditedLists(last)
    <3>1. Credited(last) \in SUBSET Accounts
      BY DEF Credited
    <3>2. IsFiniteSet(Credited(last))
      BY <3>1, ReconcileAssumption, FS_Subset
    <3>3. Cardinality(Credited(last)) \in Nat
      BY <3>2, FS_CardinalityType
    <3>4. \E extra \in {0, 1} : d \in [1 .. Cardinality(Credited(last)) + extra -> Credited(last)]
      BY <2>2, <3>3 DEF CreditedLists
    <3> QED  BY <3>1, <3>4, ListTyped
  <2> QED  BY <1>1, <2>1, <2>2
<1> QED  BY <1>1, <1>3, <1>4, ChainedTyped

(* The first mismatch is one of the comparisons made, with the account     *)
(* that does not match.                                                    *)
LEMMA FirstMismatchIsOne ==
    ASSUME NEW s, NEW answered \in SUBSET (Nat \ {0}), FirstMismatch(s, answered) # 0
    PROVE  FirstMismatch(s, answered) \in answered /\ Mismatch(s[FirstMismatch(s, answered)])
<1> DEFINE bad == {i \in answered : Mismatch(s[i])}
<1>1. bad # {} /\ bad \in SUBSET Nat
  BY DEF FirstMismatch
<1>2. \E i \in bad : \A j \in bad : i <= j
  <2> HIDE DEF bad
  <2> QED  BY <1>1, LeastNat
<1>3. FirstMismatch(s, answered) = CHOOSE i \in bad : \A j \in bad : i <= j
  BY <1>1 DEF FirstMismatch
<1>4. FirstMismatch(s, answered) \in bad
  <2> HIDE DEF bad
  <2> QED  BY <1>2, <1>3
<1> QED  BY <1>4

-----------------------------------------------------------------------------
(* The invariant.                                                          *)

(* While the loop follows, no comparison has failed and the queue holds    *)
(* what it owes; the health record counts the streak, and the deferred     *)
(* checkpoints that it counts are the last ones of it, behind a failed one.*)
QueueOK ==
    /\ reservoir \in Seq(Accounts) /\ Len(reservoir) <= ReservoirCap
    /\ owed \subseteq ElementsOf(reservoir)
    /\ haltedOn = None

HealthOK ==
    /\ streak \in Seq({"dark", "deferred"})
    /\ dark = Len(streak) /\ deferred \in 0 .. dark
    /\ \A i \in 1 .. dark : i > dark - deferred => streak[i] = "deferred"
    /\ deferred < dark => streak[dark - deferred] = "dark"

ReconcileInv ==
    /\ FollowOK
    /\ following => QueueOK
    /\ HaltIsJustified
    /\ HealthOK
    /\ CatchUpIsNamedRightly

(* It holds at the start.                                                  *)
LEMMA ReconcileInitInv == ReconcileInit => ReconcileInv
<1> SUFFICES ASSUME ReconcileInit PROVE ReconcileInv
  OBVIOUS
<1>1. PICK b \in [touched : {{}}, spent : [Accounts -> Balances],
                  credit : {[a \in Accounts |-> 0]}] : chain = <<b>>
  BY DEF ReconcileInit, FollowInit
<1>2. b \in Block
  <2>1. [a \in Accounts |-> 0] \in [Accounts -> Amounts]
    BY FollowAssumption
  <2> QED  BY <2>1 DEF Block
<1>3. FollowOK
  BY <1>1, <1>2 DEF ReconcileInit, FollowInit, FollowOK
<1>4. /\ reservoir = <<>> /\ owed = {} /\ haltedOn = None /\ streak = <<>>
      /\ dark = 0 /\ deferred = 0 /\ alarm = "none"
  BY DEF ReconcileInit
<1>5. QueueOK
  BY <1>4, ReconcileAssumption DEF QueueOK
<1>6. HaltIsJustified /\ CatchUpIsNamedRightly
  BY <1>4 DEF HaltIsJustified, CatchUpIsNamedRightly
<1>7. HealthOK
  <2>1. streak \in Seq({"dark", "deferred"}) /\ Len(streak) = 0
    BY <1>4
  <2> QED  BY <1>4, <2>1 DEF HealthOK
<1> QED  BY <1>3, <1>5, <1>6, <1>7 DEF ReconcileInv

(* What a checkpoint records keeps the record in step with the streak.     *)
LEMMA RecordKeeps ==
    ASSUME HealthOK, NEW outcome \in {"success", "empty", "deferred", "dark"}, Record(outcome)
    PROVE  HealthOK' /\ CatchUpIsNamedRightly'
<1>1. PICK h : h = Recorded(outcome)
  OBVIOUS
<1>2. /\ dark' = h.dark /\ deferred' = h.deferred /\ streak' = h.streak
      /\ alarm' = IF outcome \in {"dark", "deferred"} THEN Cause(h) ELSE "none"
  BY <1>1 DEF Record
<1>3. dark \in Nat /\ deferred \in Nat /\ deferred <= dark
  BY DEF HealthOK
<1>4. HealthOK'
  <2>1. CASE outcome = "success"
    <3>1. dark' = 0 /\ deferred' = 0 /\ streak' = <<>>
      BY <1>1, <1>2, <2>1 DEF Recorded
    <3>2. streak' \in Seq({"dark", "deferred"}) /\ Len(streak') = 0
      BY <3>1
    <3> QED  BY <3>1, <3>2 DEF HealthOK
  <2>2. CASE outcome = "empty"
    <3>1. dark' = dark /\ deferred' = deferred /\ streak' = streak
      BY <1>1, <1>2, <2>2 DEF Recorded
    <3> QED  BY <3>1 DEF HealthOK
  <2>3. CASE outcome = "deferred"
    <3>1. dark' = dark + 1 /\ deferred' = deferred + 1 /\ streak' = Append(streak, outcome)
      BY <1>1, <1>2, <2>3 DEF Recorded
    <3>2. /\ streak' \in Seq({"dark", "deferred"}) /\ Len(streak') = dark'
          /\ \A i \in 1 .. dark : streak'[i] = streak[i]
          /\ streak'[dark + 1] = "deferred"
      BY <2>3, <3>1 DEF HealthOK
    <3>3. ASSUME NEW i \in 1 .. dark', i > dark' - deferred' PROVE streak'[i] = "deferred"
      <4>1. CASE i = dark + 1
        BY <3>2, <4>1
      <4>2. CASE i # dark + 1
        <5>1. i \in 1 .. dark /\ i > dark - deferred
          BY <1>3, <3>1, <3>3, <4>2
        <5> QED  BY <3>2, <5>1 DEF HealthOK
      <4> QED  BY <4>1, <4>2
    <3>4. deferred' \in 0 .. dark'
      BY <1>3, <3>1
    <3>5. deferred' < dark' => streak'[dark' - deferred'] = "dark"
      <4> SUFFICES ASSUME deferred' < dark' PROVE streak'[dark' - deferred'] = "dark"
        OBVIOUS
      <4>1. dark' - deferred' = dark - deferred /\ dark - deferred \in 1 .. dark /\ deferred < dark
        BY <1>3, <3>1
      <4>2. streak'[dark - deferred] = streak[dark - deferred]
        BY <3>2, <4>1
      <4> QED  BY <4>1, <4>2 DEF HealthOK
    <3> QED  BY <3>2, <3>3, <3>4, <3>5 DEF HealthOK
  <2>4. CASE outcome = "dark"
    <3>1. dark' = dark + 1 /\ deferred' = 0 /\ streak' = Append(streak, outcome)
      BY <1>1, <1>2, <2>4 DEF Recorded
    <3>2. /\ streak' \in Seq({"dark", "deferred"}) /\ Len(streak') = dark'
          /\ streak'[dark'] = "dark"
      BY <2>4, <3>1 DEF HealthOK
    <3> QED  BY <1>3, <3>1, <3>2 DEF HealthOK
  <2> QED  BY <2>1, <2>2, <2>3, <2>4
<1>5. dark' \in Nat /\ deferred' \in 0 .. dark' /\ DOMAIN streak' = 1 .. dark'
  BY <1>4 DEF HealthOK
<1>6. ASSUME alarm' = "all_deferred", NEW i \in DOMAIN streak' PROVE streak'[i] = "deferred"
  <2>1. h.deferred >= h.dark
    BY <1>2, <1>6 DEF Cause
  <2>2. i \in 1 .. dark' /\ i > dark' - deferred'
    BY <1>2, <1>5, <1>6, <2>1
  <2> QED  BY <1>4, <2>2 DEF HealthOK
<1>7. ASSUME alarm' = "mixed" PROVE {"dark", "deferred"} \subseteq ElementsOf(streak')
  <2>1. ~(h.deferred >= h.dark) /\ h.deferred > 0
    BY <1>2, <1>7 DEF Cause
  <2>2. /\ dark' \in 1 .. dark' /\ dark' - deferred' \in 1 .. dark'
        /\ dark' > dark' - deferred' /\ deferred' < dark'
    BY <1>2, <1>5, <2>1
  <2>3. streak'[dark'] = "deferred" /\ streak'[dark' - deferred'] = "dark"
    BY <1>4, <2>2 DEF HealthOK
  <2> QED  BY <1>5, <2>2, <2>3 DEF ElementsOf
<1>8. CatchUpIsNamedRightly'
  BY <1>6, <1>7 DEF CatchUpIsNamedRightly, ElementsOf
<1> QED  BY <1>4, <1>8

(* A deferred checkpoint queues what it does not check.                    *)
LEMMA DeferInv ==
    ASSUME ReconcileInv, following, Defer, UNCHANGED <<chain, finalized, complete, last, store>>
    PROVE  ReconcileInv'
<1>1. /\ Record("deferred") /\ UNCHANGED <<following, haltedOn>>
      /\ \E list \in Candidates :
            /\ reservoir' = InsertMany(reservoir, list)
            /\ owed' = owed \cup (ElementsOf(list) \cap ElementsOf(reservoir'))
  BY DEF Defer
<1>2. FollowOK' /\ FollowOK
  BY DEF ReconcileInv, FollowOK
<1>3. PICK list \in Candidates :
         /\ reservoir' = InsertMany(reservoir, list)
         /\ owed' = owed \cup (ElementsOf(list) \cap ElementsOf(reservoir'))
  BY <1>1
<1>4. list \in Seq(Accounts)
  BY <1>2, CandidatesTyped
<1>5. QueueOK
  BY DEF ReconcileInv
<1>6. reservoir' \in Holding(ElementsOf(reservoir))
  BY <1>3, <1>4, <1>5, InsertManyKeeps DEF QueueOK
<1>7. QueueOK'
  BY <1>1, <1>3, <1>5, <1>6 DEF QueueOK, Holding
<1>8. HealthOK' /\ CatchUpIsNamedRightly'
  <2>1. HealthOK
    BY DEF ReconcileInv
  <2> QED  BY <1>1, <2>1, RecordKeeps
<1>9. HaltIsJustified'
  BY <1>7 DEF QueueOK, HaltIsJustified
<1> QED  BY <1>2, <1>7, <1>8, <1>9 DEF ReconcileInv

(* The loop stops over an account whose balance it has wrong.              *)
LEMMA MismatchIsWrong ==
    ASSUME NEW a, Mismatch(a), UNCHANGED <<chain, complete, last, store>>, haltedOn' = a
    PROVE  HaltIsJustified'
BY DEF Mismatch, HaltIsJustified, AnswersRight, Ledger

(* What a checkpoint compares is no longer owed, what it could not fetch   *)
(* is queued again, and what it stops over is wrong.                       *)
LEMMA CompareInv ==
    ASSUME ReconcileInv, following, NEW list \in Candidates,
           NEW answered \in SUBSET DOMAIN list,
           NEW answeredLater \in SUBSET DOMAIN Popped(reservoir),
           Compare(list, answered, answeredLater),
           UNCHANGED <<chain, finalized, complete, last, store>>
    PROVE  ReconcileInv'
<1> DEFINE tried    == 1 .. Attempts(list, answered)
           compared == {list[i] : i \in answered \cap tried}
           outcome  == IF list = <<>> THEN "empty"
                       ELSE IF compared # {} THEN "success" ELSE "dark"
           wrong    == FirstMismatch(list, answered \cap tried)
           popped   == Popped(reservoir)
           later    == FirstMismatch(popped, answeredLater)
<1>1. FollowOK /\ FollowOK' /\ QueueOK /\ HealthOK /\ CatchUpIsNamedRightly
  BY DEF ReconcileInv, FollowOK
<1>2. list \in Seq(Accounts) /\ popped \in Seq(Accounts)
  BY <1>1, CandidatesTyped, PoppedAndRest DEF QueueOK
<1>3. answered \cap tried \in SUBSET (Nat \ {0}) /\ answeredLater \in SUBSET (Nat \ {0})
  BY <1>2
<1>4. \/ /\ wrong # 0
         /\ following' = FALSE /\ haltedOn' = list[wrong]
         /\ UNCHANGED <<reservoir, healthVars, owed>>
      \/ /\ wrong = 0
         /\ Record(outcome)
         /\ following' = (later = 0)
         /\ haltedOn' = IF later = 0 THEN None ELSE popped[later]
         /\ reservoir' = Requeued(Rest(reservoir),
                                  IF later = 0 THEN popped ELSE SubSeq(popped, 1, later - 1),
                                  answeredLater)
         /\ owed' = owed \ (compared \cup {popped[i] : i \in answeredLater})
  BY Zenon DEF Compare
<1>5. CASE /\ wrong # 0
           /\ following' = FALSE /\ haltedOn' = list[wrong]
           /\ UNCHANGED <<reservoir, healthVars, owed>>
  <2>1. Mismatch(list[wrong])
    BY <1>3, <1>5, FirstMismatchIsOne
  <2>2. HaltIsJustified'
    <3> HIDE DEF wrong
    <3> QED  BY <1>5, <2>1, MismatchIsWrong
  <2>3. HealthOK' /\ CatchUpIsNamedRightly'
    BY <1>1, <1>5 DEF healthVars, HealthOK, CatchUpIsNamedRightly
  <2> QED  BY <1>1, <1>5, <2>2, <2>3 DEF ReconcileInv
<1>6. CASE /\ wrong = 0
           /\ Record(outcome)
           /\ following' = (later = 0)
           /\ haltedOn' = IF later = 0 THEN None ELSE popped[later]
           /\ reservoir' = Requeued(Rest(reservoir),
                                    IF later = 0 THEN popped ELSE SubSeq(popped, 1, later - 1),
                                    answeredLater)
           /\ owed' = owed \ (compared \cup {popped[i] : i \in answeredLater})
  <2>1. HealthOK' /\ CatchUpIsNamedRightly'
    <3>1. outcome \in {"success", "empty", "deferred", "dark"}
      OBVIOUS
    <3> HIDE DEF outcome
    <3> QED  BY <1>1, <1>6, <3>1, RecordKeeps
  <2>2. CASE later = 0
    <3>1. following' = TRUE /\ haltedOn' = None
      BY <1>6, <2>2
    <3>2. reservoir' = Requeued(Rest(reservoir), popped, answeredLater)
      BY <1>6, <2>2
    <3>3. PICK rest : rest = Rest(reservoir)
      OBVIOUS
    <3>4. /\ reservoir \in Seq(Accounts) /\ Len(reservoir) <= ReservoirCap
          /\ owed \subseteq ElementsOf(reservoir)
      BY <1>1 DEF QueueOK
    <3>5. /\ rest \in Seq(Accounts) /\ Len(rest) + Len(popped) = Len(reservoir)
          /\ \A a \in ElementsOf(reservoir) :
                a \in ElementsOf(rest) \/ \E j \in 1 .. Len(popped) : a = popped[j]
      BY <3>3, <3>4, PoppedAndRest
    <3> HIDE DEF popped
    <3>6. reservoir' \in Returned(rest, popped, answeredLater, Len(popped))
      <4>1. Len(rest) + Len(popped) <= ReservoirCap
        BY <1>2, <3>4, <3>5, ReconcileAssumption
      <4> QED  BY <1>2, <3>2, <3>3, <3>5, <4>1, RequeuedKeeps
    <3>7. /\ reservoir' \in Seq(Accounts) /\ Len(reservoir') <= Len(rest) + Len(popped)
          /\ ElementsOf(rest) \subseteq ElementsOf(reservoir')
          /\ \A j \in (1 .. Len(popped)) \ answeredLater : popped[j] \in ElementsOf(reservoir')
      BY <3>6 DEF Returned
    <3>8. owed' \subseteq ElementsOf(reservoir')
      <4> SUFFICES ASSUME NEW a \in owed' PROVE a \in ElementsOf(reservoir')
        OBVIOUS
      <4>1. a \in owed /\ \A i \in answeredLater : a # popped[i]
        BY <1>6
      <4>2. a \in ElementsOf(reservoir)
        BY <3>4, <4>1
      <4> QED  BY <3>5, <3>7, <4>1, <4>2
    <3>9. Len(reservoir') <= ReservoirCap
      BY <1>2, <3>4, <3>5, <3>7, ReconcileAssumption
    <3>10. QueueOK'
      BY <3>1, <3>7, <3>8, <3>9 DEF QueueOK
    <3>11. HaltIsJustified'
      BY <3>1 DEF HaltIsJustified
    <3> QED  BY <1>1, <2>1, <3>10, <3>11 DEF ReconcileInv
  <2>3. CASE later # 0
    <3>1. Mismatch(popped[later])
      BY <1>3, <2>3, FirstMismatchIsOne
    <3>2. HaltIsJustified'
      <4> HIDE DEF later, popped
      <4> QED  BY <1>6, <2>3, <3>1, MismatchIsWrong
    <3>3. following' = FALSE
      BY <1>6, <2>3
    <3> QED  BY <1>1, <2>1, <3>2, <3>3 DEF ReconcileInv
  <2> QED  BY <2>2, <2>3
<1> HIDE DEF tried, compared, outcome, wrong, popped, later
<1> QED  BY <1>4, <1>5, <1>6

(* The loop's own steps leave the checkpoints' record alone, and what the  *)
(* loop stopped over stays wrong: a finalized block does not change.       *)
LEMMA FollowingInv == ASSUME ReconcileInv, Following PROVE ReconcileInv'
<1>1. UNCHANGED <<reservoir, healthVars, haltedOn, owed>>
  BY DEF Following
<1>2. HealthOK' /\ CatchUpIsNamedRightly'
  BY <1>1 DEF ReconcileInv, healthVars, HealthOK, CatchUpIsNamedRightly
<1>3. (following' => following) => (following' => QueueOK')
  BY <1>1 DEF ReconcileInv, QueueOK
<1>4. CASE Finalize
  <2>1. PICK b \in Block : chain' = Append(chain, b)
    BY <1>4 DEF Finalize
  <2>2. UNCHANGED <<finalized, complete, last, store, following>>
    BY <1>4 DEF Finalize
  <2>3. FollowOK' /\ \A n \in 1 .. Len(chain) : chain'[n] = chain[n]
    BY <2>1, <2>2 DEF ReconcileInv, FollowOK
  <2>4. chain'[last] = chain[last]
    BY <2>3 DEF ReconcileInv, FollowOK
  <2>5. HaltIsJustified'
    BY <1>1, <2>2, <2>4 DEF ReconcileInv, HaltIsJustified, AnswersRight, Ledger
  <2> QED  BY <1>2, <1>3, <2>2, <2>3, <2>5 DEF ReconcileInv
<1>5. CASE Poll
  <2>1. finalized' \in 1 .. Len(chain) /\ UNCHANGED <<chain, complete, last, store, following>>
    BY <1>5 DEF Poll
  <2>2. FollowOK'
    BY <2>1 DEF ReconcileInv, FollowOK
  <2>3. HaltIsJustified'
    BY <1>1, <2>1 DEF ReconcileInv, HaltIsJustified, AnswersRight, Ledger
  <2> QED  BY <1>2, <1>3, <2>1, <2>2, <2>3 DEF ReconcileInv
<1>6. CASE ApplyBlock
  <2>1. /\ following /\ last < finalized /\ last' = last + 1
        /\ UNCHANGED <<chain, finalized, complete, following>>
    BY <1>6 DEF ApplyBlock
  <2>2. FollowOK'
    BY <2>1 DEF ReconcileInv, FollowOK
  <2>3. HaltIsJustified'
    BY <1>1, <2>1 DEF ReconcileInv, QueueOK, HaltIsJustified
  <2> QED  BY <1>2, <1>3, <2>1, <2>2, <2>3 DEF ReconcileInv
<1>7. CASE RejectBlock
  <2>1. following /\ following' = FALSE /\ UNCHANGED <<chain, finalized, complete, last>>
    BY <1>7 DEF RejectBlock
  <2>2. FollowOK'
    BY <2>1 DEF ReconcileInv, FollowOK
  <2>3. HaltIsJustified'
    BY <1>1, <2>1 DEF ReconcileInv, QueueOK, HaltIsJustified
  <2> QED  BY <1>2, <1>3, <2>1, <2>2, <2>3 DEF ReconcileInv
<1> QED  BY <1>4, <1>5, <1>6, <1>7 DEF Following, LoopStep

(* Every step keeps the invariant.                                         *)
LEMMA ReconcileNextInv ==
    ASSUME ReconcileInv, [ReconcileNext]_reconcileVars PROVE ReconcileInv'
<1>1. CASE Following
  BY <1>1, FollowingInv
<1>2. CASE Checkpoint
  <2>1. following /\ UNCHANGED <<chain, finalized, complete, last, store>>
    BY <1>2 DEF Checkpoint
  <2>2. CASE Defer
    BY <2>1, <2>2, DeferInv
  <2>3. CASE Check
    <3>1. PICK list \in Candidates :
             \E answered \in SUBSET DOMAIN list,
                answeredLater \in SUBSET DOMAIN Popped(reservoir) :
                   Compare(list, answered, answeredLater)
      BY Zenon, <2>3 DEF Check
    <3>2. PICK answered \in SUBSET DOMAIN list, answeredLater \in SUBSET DOMAIN Popped(reservoir) :
             Compare(list, answered, answeredLater)
      BY Zenon, <3>1
    <3> QED  BY <2>1, <3>2, CompareInv
  <2> QED  BY <1>2, <2>2, <2>3 DEF Checkpoint
<1>3. CASE UNCHANGED reconcileVars
  BY <1>3 DEF reconcileVars, followVars, healthVars, ReconcileInv, FollowOK, QueueOK, HealthOK,
              HaltIsJustified, CatchUpIsNamedRightly, AnswersRight, Ledger
<1> QED  BY <1>1, <1>2, <1>3 DEF ReconcileNext

(* The follow loop's checkpoints, for any accounts, chain, queue capacity, *)
(* sample size and depth.                                                  *)
LEMMA ReconcileAlwaysInv == ReconcileSpec => []ReconcileInv
BY ReconcileInitInv, ReconcileNextInv, PTL DEF ReconcileSpec

(* The account that a checkpoint stops the loop over is wrong (or one that *)
(* a partial deployment does not hold), and an alarm that blames the       *)
(* catch-up alone follows nothing but deferred checkpoints                 *)
(* (mainnet.rs:2296, mainnet.rs:2180).                                     *)
THEOREM CheckpointsAreAlwaysTrue == ReconcileSpec => []CheckpointsAreTrue
<1>1. ReconcileInv => CheckpointsAreTrue
  BY DEF ReconcileInv, CheckpointsAreTrue
<1> QED  BY <1>1, ReconcileAlwaysInv, PTL

(* Verification put off is not verification skipped: what a deferred       *)
(* checkpoint queued stays queued until it has been compared, through      *)
(* failed fetches, and requeue always finds room (mainnet.rs:1983).        *)
THEOREM DeferredIsNeverSkipped == ReconcileSpec => []DeferredIsNotSkipped
<1>1. ReconcileInv => DeferredIsNotSkipped
  BY DEF ReconcileInv, QueueOK, DeferredIsNotSkipped
<1> QED  BY <1>1, ReconcileAlwaysInv, PTL
================================================================================
