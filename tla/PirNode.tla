------------------------------- MODULE PirNode -------------------------------
(***************************************************************************)
(* The serving node: RisePirServer (cells, hints, block) inside NodeState  *)
(* (delta ring, per-block deltas, cached setup bundle), driven by the      *)
(* follow loop one finalized block at a time, with its state file and      *)
(* journal, restarted from them after a stop or a crash, and replaced as a *)
(* whole when the operator re-bootstraps it onto a new hint lineage.       *)
(*                                                                         *)
(* A hint is the product of a secret-independent matrix and the cells it   *)
(* was computed or patched for; it is modelled by those cells (hinted).    *)
(* An epoch is derived from LWE seeds sampled afresh at every bootstrap    *)
(* and kept in the state file; it is modelled by the bootstrap's number.   *)
(***************************************************************************)
EXTENDS CellDelta, FiniteSets

CONSTANTS Balances,            \* balances an account may have in these runs
          WithdrawalAccounts,  \* accounts that may receive withdrawals
          RingCapacity,        \* blocks the delta ring retains
          FreshDivisor,        \* a cached bundle is served while it lags the head by
                               \* at most RingCapacity \div FreshDivisor (8 in the code)
          MaxBlock,            \* bound on the chain's length
          MaxEpoch,            \* bound on the number of bootstraps
          Modes,               \* completeness modes a bootstrap may choose
          Persistent,          \* the node runs with a state file (--state)
          BlocksMayFail,       \* a block may be rejected half-applied
          RestartsMayLose      \* a restart may find less than what was served

ASSUME NodeAssumption ==
    /\ Balances \subseteq Nat /\ 0 \in Balances
    /\ WithdrawalAccounts \subseteq Accounts
    /\ RingCapacity \in Nat \ {0} /\ FreshDivisor \in Nat \ {0}
    /\ MaxBlock \in Nat \ {0} /\ MaxEpoch \in Nat \ {0}
    /\ Modes \subseteq BOOLEAN /\ Modes # {}
    /\ {Persistent, BlocksMayFail, RestartsMayLose} \subseteq BOOLEAN

VARIABLES
    chain,       \* each finalized block: the balances after it, and the accounts
                 \* it credits by withdrawal only
    epoch,       \* lineage of the running deployment
    complete,    \* TRUE: every nonzero account is stored; FALSE: --partial
    block,       \* block the server serves
    cells,       \* the cell array answers are computed from
    hinted,      \* the cell array the hints were computed or patched for
    ring,        \* the delta ring, oldest first
    perBlock,    \* retained per-block deltas, by block
    following,   \* FALSE once the follow loop has stopped on a rejected block
    setupCache,  \* the cached setup bundle, if any
    pending,     \* the newest block is applied and not yet handed to the journal
    saved,       \* the state file
    journal,     \* the journal on disk: the records replayable on top of the state
                 \* file, and whether it is bound to that file at all
    journaling,  \* "on", "off" until the next save, or "broken" for this process
    archive,     \* history: every state the hints have described, by lineage
    damaged      \* history: lineages that lost an applied block or rejected one

serverVars  == <<epoch, complete, block, cells, hinted>>
historyVars == <<ring, perBlock>>
diskVars    == <<saved, journal>>
nodeVars    == <<chain, serverVars, historyVars, following, setupCache, pending,
                 diskVars, journaling, archive, damaged>>

NoSetup   == [block |-> 0]
NoState   == [block |-> 0]
Refused   == [block |-> 0]
NoJournal == [bound |-> FALSE, records |-> <<>>]

Snapshot(e, b, c, D) == [epoch |-> e, block |-> b, complete |-> c, contents |-> D]

-----------------------------------------------------------------------------
(* The chain.  A finalized block never changes, so a block that was        *)
(* fetched before is fetched again with the same contents.                 *)

Grown(old, ledger) == {a \in WithdrawalAccounts : ledger[a] > old[a]}

NextBlocks(n) ==
    IF n <= Len(chain) THEN {chain[n]}
    ELSE {b \in [bal : [Accounts -> Balances], credited : SUBSET Accounts] :
            b.credited \subseteq Grown(chain[n - 1].bal, b.bal)}

Fetched(n, b) == chain' = IF n <= Len(chain) THEN chain ELSE Append(chain, b)

(* Mutant of Credits: a partial deployment credits accounts that it does   *)
(* not track.                                                              *)
CreditsToAnyone(b) == b.credited

(* Accounts the block changes absolutely, and those it credits.  A partial *)
(* deployment drops a credit to an account it does not track.              *)
Changes(b) == {a \in Accounts : b.bal[a] # chain[block].bal[a]} \ b.credited
Credits(b) == {a \in b.credited : complete \/ BalanceIn(cells, a) # 0}

(* Balances the table holds after the updates to the accounts in done: a   *)
(* change stores the block's balance, a credit adds to what is stored.     *)
Updated(b, done) ==
    [a \in Accounts |->
        IF a \in done \cap Changes(b) THEN b.bal[a]
        ELSE IF a \in done \cap Credits(b)
        THEN BalanceIn(cells, a) + (b.bal[a] - chain[block].bal[a])
        ELSE BalanceIn(cells, a)]

(* What may have been done when an update is refused: changes are applied  *)
(* in address order, and credits after them.                               *)
ProperPrefixes(b) ==
    {done \in SUBSET (Changes(b) \cup Credits(b)) :
        /\ done # Changes(b) \cup Credits(b)
        /\ \A a \in done \cap Changes(b), c \in Changes(b) : c < a => c \in done
        /\ done \cap Credits(b) # {} => Changes(b) \subseteq done}

-----------------------------------------------------------------------------
(* Init and the follow loop.                                               *)

(* The table right after a bootstrap: the snapshot's balances, or nothing  *)
(* at all for a partial deployment.                                        *)
FreshTables(mode, ledger) ==
    Rewrites(NoChange, IF mode THEN ledger ELSE [a \in Accounts |-> 0])

NodeInit ==
    /\ chain \in {<<[bal |-> ledger, credited |-> {}]>> : ledger \in [Accounts -> Balances]}
    /\ epoch = 1
    /\ complete \in Modes
    /\ block = 1
    /\ cells \in FreshTables(complete, chain[1].bal)
    /\ hinted = cells
    /\ ring = <<>>
    /\ perBlock = [n \in {} |-> NoChange]
    /\ following = TRUE
    /\ setupCache = NoSetup
    /\ pending = FALSE
    /\ saved = NoState
    /\ journal = NoJournal
    /\ journaling = "off"
    /\ archive = {Snapshot(1, 1, complete, cells)}
    /\ damaged = {}

(* Mutant of Patched: the hints miss a block.                              *)
PatchedNever(hints, delta) == hints

(* Mutant of Retained: the oldest retained block is pruned as well.        *)
RetainedTooFew(pushed) == {n \in DOMAIN perBlock \cup {block + 1} : n > pushed[1].block}

(* A hint patched with a delta is the hint of the patched cells.           *)
Patched(hints, delta) == Plus(hints, delta)

(* Blocks whose delta is retained once the ring has become pushed.         *)
Retained(pushed) == {n \in DOMAIN perBlock \cup {block + 1} : n >= pushed[1].block}

(* One block, applied in full: every change to the store, the hint patch,  *)
(* the new head, the ring push and the pruning of the per-block deltas,    *)
(* all under one write lock.                                               *)
ApplyBlock ==
    /\ following
    /\ ~pending
    /\ block < MaxBlock
    /\ \E b \in NextBlocks(block + 1) :
       \E after \in Rewrites(cells, Updated(b, Accounts)) :
         LET delta == Minus(after, cells)
             pushed == Push(ring, RingCapacity, [block |-> block + 1, cells |-> delta])
         IN  /\ Fetched(block + 1, b)
             /\ block' = block + 1
             /\ cells' = after
             /\ hinted' = Patched(hinted, delta)
             /\ ring' = pushed
             /\ perBlock' = [n \in Retained(pushed) |->
                               IF n = block + 1 THEN delta ELSE perBlock[n]]
             /\ archive' = archive \cup {Snapshot(epoch, block + 1, complete, Patched(hinted, delta))}
    /\ pending' = (journaling = "on")
    /\ UNCHANGED <<epoch, complete, following, setupCache, diskVars, journaling, damaged>>

(* A block one of whose updates the server refuses (table full, ambiguous  *)
(* fingerprint, corrupt value, overflow).  The updates before it stay in   *)
(* the store; no hint is patched, the head does not move, and the follow   *)
(* loop returns for good while the listeners keep serving.                 *)
RejectBlock ==
    /\ BlocksMayFail
    /\ following
    /\ ~pending
    /\ block < MaxBlock
    /\ \E b \in NextBlocks(block + 1) :
       \E done \in ProperPrefixes(b) :
         /\ Fetched(block + 1, b)
         /\ cells' \in Rewrites(cells, Updated(b, done))
    /\ following' = FALSE
    /\ damaged' = damaged \cup {epoch}
    /\ UNCHANGED <<epoch, complete, block, hinted, historyVars, setupCache, pending,
                   diskVars, journaling, archive>>

-----------------------------------------------------------------------------
(* The state file and the journal.                                         *)

(* Mutant of InsideBase: the first delta after a save counts as saved.     *)
InsideBaseTooEarly(n) == n <= saved.block + 1

InsideBase(n) == n <= saved.block

(* A delta already inside the state file's base is skipped: a save took    *)
(* the mutex between the apply and the append.                             *)
AppendDelta ==
    /\ pending
    /\ pending' = FALSE
    /\ \/ /\ journaling = "on"
          /\ ~InsideBase(ring[Len(ring)].block)
          /\ ring[Len(ring)].block = saved.block + Len(journal.records) + 1
          /\ journal' = [journal EXCEPT !.records = Append(@, ring[Len(ring)])]
       \/ /\ journaling # "on" \/ InsideBase(ring[Len(ring)].block)
          /\ UNCHANGED journal
    /\ UNCHANGED <<chain, serverVars, historyVars, following, setupCache, saved,
                   journaling, archive, damaged>>

(* The append fails; a torn record at the tail is cut off when the journal *)
(* is next read, and this process never journals again.                    *)
AppendFails ==
    /\ pending
    /\ journaling = "on"
    /\ pending' = FALSE
    /\ journaling' = "broken"
    /\ UNCHANGED <<chain, serverVars, historyVars, following, setupCache, diskVars,
                   archive, damaged>>

(* A save, periodic or at shutdown: the server as it is under the read     *)
(* lock, then a fresh journal bound to the new file.  The journal may fail *)
(* to rotate, and never does once it is broken; the old one, bound to the  *)
(* file just replaced, is then of no use.                                  *)
SaveState ==
    /\ Persistent
    /\ saved' = [block |-> block, cells |-> cells, hinted |-> hinted]
    /\ \/ /\ journaling # "broken"
          /\ journal' = [bound |-> TRUE, records |-> <<>>]
          /\ journaling' = "on"
       \/ /\ journal' = IF saved' = saved THEN journal ELSE NoJournal
          /\ journaling' = IF journaling = "broken" THEN "broken" ELSE "off"
    /\ UNCHANGED <<chain, serverVars, historyVars, following, setupCache, pending,
                   archive, damaged>>

(* The records a start replays: all of a bound journal's, none with        *)
(* --no-journal-restore.                                                   *)
Replayed(replay) == IF replay THEN journal.records ELSE <<>>

(* A base with a sequence of deltas applied in place.                      *)
Restored(base, records) == Plus(base, Coalesced(records, 1 .. Len(records)))

(* The process stops or crashes and starts again from the state file: same *)
(* seeds, so the same lineage; the ring seeded with the replayed tail.  A  *)
(* journal ahead of what was restored is left alone until the next save.   *)
Restart ==
    /\ saved # NoState
    /\ \E replay \in BOOLEAN :
         LET records == Replayed(replay)
         IN  /\ RestartsMayLose \/ saved.block + Len(records) = block
             /\ block' = saved.block + Len(records)
             /\ cells' = Restored(saved.cells, records)
             /\ hinted' = Restored(saved.hinted, records)
             /\ ring' = Newest(records, RingCapacity)
             /\ journaling' = IF journal.bound /\ records = journal.records THEN "on" ELSE "off"
    /\ perBlock' = [n \in {ring'[i].block : i \in 1 .. Len(ring')} |->
                      ring'[CHOOSE i \in 1 .. Len(ring') : ring'[i].block = n].cells]
    /\ following' = TRUE
    /\ pending' = FALSE
    /\ setupCache' = NoSetup
    /\ damaged' = IF block' = block THEN damaged ELSE damaged \cup {epoch}
    /\ UNCHANGED <<chain, epoch, complete, diskVars, archive>>

(* The operator replaces the deployment by a fresh bootstrap at any height *)
(* the chain has: new seeds, new layout, nothing retained, nothing saved.  *)
Rebootstrap ==
    /\ epoch < MaxEpoch
    /\ epoch' = epoch + 1
    /\ complete' \in Modes
    /\ block' \in 1 .. Len(chain)
    /\ cells' \in FreshTables(complete', chain[block'].bal)
    /\ hinted' = cells'
    /\ ring' = <<>>
    /\ perBlock' = [n \in {} |-> NoChange]
    /\ following' = TRUE
    /\ setupCache' = NoSetup
    /\ pending' = FALSE
    /\ saved' = NoState
    /\ journal' = NoJournal
    /\ journaling' = "off"
    /\ archive' = archive \cup {Snapshot(epoch', block', complete', cells')}
    /\ UNCHANGED <<chain, damaged>>

WriterStep == ApplyBlock \/ RejectBlock \/ AppendDelta \/ AppendFails \/ SaveState

NodeNext == WriterStep \/ Restart \/ Rebootstrap

NodeSpec == NodeInit /\ [][NodeNext]_nodeVars

-----------------------------------------------------------------------------
(* What the HTTP handlers answer, each under the read lock.                *)

(* GET /sync: refused unless the lineage matches and the ring still holds  *)
(* every block of (from, to].                                              *)
SyncReply(e, from, to) ==
    LET picked == Picked(ring, from, to)
    IN  IF /\ e = epoch
           /\ from < to
           /\ Cardinality(picked) = to - from
           /\ Contiguous(ring, picked)
        THEN [block |-> to, cells |-> Coalesced(ring, picked)]
        ELSE Refused

(* Mutant of AnswerReply: the label is read before the last block.         *)
AnswerReplyMislabelled == [at |-> IF block > 1 THEN block - 1 ELSE block, cells |-> cells]

(* POST /answer reads the cells as they are and labels them with the head. *)
AnswerReply == [at |-> block, cells |-> cells]

(* Mutant of CacheIsFresh: a bundle that was cached once is served for ever. *)
CacheNeverAges == setupCache # NoSetup

CacheIsFresh ==
    /\ setupCache # NoSetup
    /\ block - setupCache.block <= RingCapacity \div FreshDivisor

(* GET /setup: the cached bundle while it is fresh, else a new one.        *)
SetupReply ==
    IF CacheIsFresh THEN setupCache ELSE [block |-> block, contents |-> hinted]

-----------------------------------------------------------------------------
(* Invariants of the node.                                                 *)

Block == [bal : Ledger, credited : SUBSET Accounts]

NodeTypeOK ==
    /\ chain \in Seq(Block) /\ chain # <<>>
    /\ epoch \in Nat \ {0}
    /\ complete \in BOOLEAN
    /\ block \in 1 .. Len(chain)
    /\ cells \in DeltaMap /\ hinted \in DeltaMap
    /\ ring \in Seq(DeltaRecord) /\ Len(ring) <= RingCapacity
    /\ following \in BOOLEAN
    /\ setupCache \in {NoSetup} \cup [block : Nat \ {0}, contents : DeltaMap]
    /\ pending \in BOOLEAN
    /\ saved \in {NoState} \cup [block : Nat \ {0}, cells : DeltaMap, hinted : DeltaMap]
    /\ journal \in [bound : BOOLEAN, records : Seq(DeltaRecord)]
    /\ journaling \in {"on", "off", "broken"}
    /\ archive \subseteq [epoch : Nat \ {0}, block : Nat \ {0}, complete : BOOLEAN, contents : DeltaMap]
    /\ damaged \subseteq Nat

(* Every retained suffix of the ring leads from the state of its start to  *)
(* the state the hints describe now: /sync can never bridge a gap or count *)
(* a block twice, whatever was evicted, replayed or restarted in between.  *)
RingBridgesToHead ==
    \A from \in 1 .. block :
      LET d == SyncReply(epoch, from, block)
      IN  d # Refused =>
            \E r \in archive : /\ r.epoch = epoch /\ r.block = from
                               /\ Plus(r.contents, d.cells) = hinted

(* The hints describe exactly the cells that answers are computed from,    *)
(* across patches, saves, replays and restarts.                            *)
HintsMatchCells == epoch \notin damaged => cells = hinted

(* The table stores the chain's balances at the head, whatever was changed *)
(* absolutely, credited, replayed or relocated; a partial deployment may   *)
(* miss an account but never stores a wrong balance for it.                *)
Truthful(D, b, whole) ==
    \A a \in Accounts : \/ BalanceIn(D, a) = chain[b].bal[a]
                        \/ ~whole /\ BalanceIn(D, a) = 0

TableMatchesChain == epoch \notin damaged => Truthful(cells, block, complete)

(* GET /delta/{block} and GET /sync serve the same history.                *)
PerBlockMatchesRing ==
    /\ DOMAIN perBlock = {ring[i].block : i \in 1 .. Len(ring)}
    /\ \A i \in 1 .. Len(ring) : perBlock[ring[i].block] = ring[i].cells

(* While journaling is on, the state file and the journal together hold    *)
(* everything but the block whose append is under way.                     *)
NothingUnjournaled ==
    journaling = "on" =>
        saved.block + Len(journal.records) \in {block, block - (IF pending THEN 1 ELSE 0)}
=============================================================================
