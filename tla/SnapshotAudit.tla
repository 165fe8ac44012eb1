--------------------------- MODULE SnapshotAudit ----------------------------
(* A deployment's start from somebody else's export of every balance: the  *)
(* rows are taken into the store, a few are sampled on the way, the blocks *)
(* since are replayed from a little before the block the export declares   *)
(* itself exact at (--snapshot-rewind), and the sampled rows are checked   *)
(* against providers at that block. What the check found is on /healthz    *)
(* and, for the next start, in a file beside the state file.               *)
EXTENDS Integers, Sequences, FiniteSets, SequencesExt

CONSTANTS RowOrder,        \* the export's accounts, in its order
          Worlds,          \* the chains there may be: a genesis and blocks
          SNAPSHOT_BLOCK,  \* --snapshot-block
          SampleCapacity,  \* --snapshot-audit-samples
          AUDIT_CONCURRENCY,
          MaxUpsets        \* bound on crashes and on checks without a quorum

ASSUME SnapshotAssumption ==
    /\ {SampleCapacity, AUDIT_CONCURRENCY, MaxUpsets} \subseteq Nat
    /\ SNAPSHOT_BLOCK \in Nat \ {0}

VARIABLES
    world,    \* the chain
    export,   \* what the export holds, and the block its rows are true at
    deploy,   \* the process
    sampler,  \* the ReservoirSampler
    audit,    \* the background verification
    healthz,  \* the audit's line
    state,    \* --state: the state file, if there is one
    sidecar,  \* the audit's file beside it
    upsets,   \* what went wrong
    told      \* history: the sampled accounts a quorum answered for

snapshotVars ==
    <<world, export, deploy, sampler, audit, healthz, state, sidecar, upsets, told>>

Rows == Range(RowOrder)

-----------------------------------------------------------------------------
(* The chain. A block's `written` balances are those it leaves, before the *)
(* withdrawals it credits.                                                 *)

AfterBlocks(balances, block) ==
    [a \in Rows |->
        (IF a \in DOMAIN block.written THEN block.written[a] ELSE balances[a])
        + (IF a \in DOMAIN block.credited THEN block.credited[a] ELSE 0)]

(* The chain has reached the declared block; an account has one row.       *)
ASSUME ChainAssumption ==
    /\ RowOrder \in Seq(Rows) /\ \A i, j \in DOMAIN RowOrder : RowOrder[i] = RowOrder[j] => i = j
    /\ \A w \in Worlds :
          /\ w.genesis \in [Rows -> Nat]
          /\ w.blocks \in Seq(ToSet(w.blocks)) /\ SNAPSHOT_BLOCK <= Len(w.blocks)
          /\ \A block \in ToSet(w.blocks) :
                /\ \A a \in DOMAIN block.written : block.written[a] \in Nat
                /\ \A a \in DOMAIN block.credited : block.credited[a] \in Nat

TruthAt(n) == FoldLeft(AfterBlocks, world.genesis, SubSeq(world.blocks, 1, n))

HeadBlock == Len(world.blocks)

-----------------------------------------------------------------------------

NoLine == [known |-> FALSE]
NoState == [present |-> FALSE]
NoAudit == [phase |-> "none", todo |-> <<>>, running |-> {}, checked |-> 0, disagreed |-> 0]
Down == [phase |-> "down", row |-> 0, store |-> [a \in Rows |-> 0], at |-> 0,
         rewind |-> 0, lineage |-> 0]

(* An export is exact at one block, the declared one or an earlier, but    *)
(* for at most one row.                                                    *)
Exported(exact, wrong) ==
    [exact |-> exact,
     balance |-> [a \in Rows |-> TruthAt(exact)[a] + (IF a \in wrong THEN 1 ELSE 0)]]

Exports == {Exported(e, w) : e \in 1..SNAPSHOT_BLOCK,
                             w \in {v \in SUBSET Rows : Cardinality(v) <= 1}}

SnapshotInit ==
    /\ world \in Worlds
    /\ export \in Exports
    /\ deploy = Down /\ sampler = <<>> /\ audit = NoAudit
    /\ healthz = NoLine /\ state = NoState /\ sidecar = NoLine
    /\ upsets = 0 /\ told = {}

-----------------------------------------------------------------------------
(* The start.                                                              *)

Genesis(rewind) == SNAPSHOT_BLOCK - rewind

(* A rewind as deep as the chain is refused: the process exits.            *)
Ingest ==
    /\ deploy.phase = "down" /\ state = NoState
    /\ deploy.lineage < 2
    /\ \E rewind \in 0..(SNAPSHOT_BLOCK - 1) :
          deploy' = [Down EXCEPT !.phase = "ingest", !.row = 1, !.at = Genesis(rewind),
                                 !.rewind = rewind, !.lineage = deploy.lineage + 1]
    /\ sampler' = <<>> /\ audit' = NoAudit /\ told' = {}
    /\ UNCHANGED <<world, export, healthz, state, sidecar, upsets>>

(* Algorithm R: the k-th row seen takes each place with chance 1/k.        *)
Sampled(sample, seen, a) ==
    IF SampleCapacity = 0 THEN {sample}
    ELSE IF Len(sample) < SampleCapacity THEN {Append(sample, a)}
    ELSE {IF j < SampleCapacity THEN [sample EXCEPT ![j + 1] = a] ELSE sample
            : j \in 0..(seen - 1)}

Seen(row) == Cardinality({i \in 1..row : export.balance[RowOrder[i]] # 0})

IngestRow ==
    /\ deploy.phase = "ingest" /\ deploy.row <= Len(RowOrder)
    /\ LET a == RowOrder[deploy.row]
           balance == export.balance[a]
       IN /\ deploy' = [deploy EXCEPT !.row = @ + 1, !.store[a] = balance]
          /\ IF balance = 0 THEN sampler' = sampler
             ELSE sampler' \in Sampled(sampler, Seen(deploy.row), a)
    /\ UNCHANGED <<world, export, audit, healthz, state, sidecar, upsets, told>>

(* The line of an earlier start, as far as the file can be read.           *)
LineOf(file) == IF file.known /\ ~file.torn THEN file ELSE NoLine

StateOf(d) == [present |-> TRUE, store |-> d.store, at |-> d.at, rewind |-> d.rewind,
             lineage |-> d.lineage]

(* All rows are in: the state is saved, or that failed, and the audit is   *)
(* spawned with its first window of checks.                                *)
Serve ==
    /\ deploy.phase = "ingest" /\ deploy.row > Len(RowOrder)
    /\ deploy' = [deploy EXCEPT !.phase = "up"]
    /\ state' \in {StateOf(deploy), NoState}
    /\ healthz' = LineOf(sidecar)
    /\ LET window == IF Len(sampler) < AUDIT_CONCURRENCY THEN Len(sampler)
                     ELSE AUDIT_CONCURRENCY
       IN audit' = IF sampler = <<>> THEN NoAudit
                   ELSE [NoAudit EXCEPT !.phase = "checks",
                                        !.running = ToSet(SubSeq(sampler, 1, window)),
                                        !.todo = SubSeq(sampler, window + 1, Len(sampler))]
    /\ UNCHANGED <<world, export, sampler, sidecar, upsets, told>>

-----------------------------------------------------------------------------
(* The audit, beside the follow loop.                                      *)

(* Mutant of AuditedAt: the providers are asked for the balance at the     *)
(* block the deployment has reached.                                       *)
AuditedAtHead == deploy.at

AuditedAt == SNAPSHOT_BLOCK

Checked(a, agreed) ==
    /\ audit' = [audit EXCEPT
          !.running = (@ \ {a}) \cup (IF audit.todo = <<>> THEN {} ELSE {Head(audit.todo)}),
          !.todo = IF @ = <<>> THEN @ ELSE Tail(@),
          !.checked = @ + (IF agreed THEN 1 ELSE 0),
          !.disagreed = @ + (IF agreed /\ TruthAt(AuditedAt)[a] # export.balance[a]
                             THEN 1 ELSE 0)]
    /\ told' = IF agreed THEN told \cup {a} ELSE told
    /\ UNCHANGED <<world, export, deploy, sampler, healthz, state, sidecar>>

CheckAgreed == \E a \in audit.running : Checked(a, TRUE) /\ upsets' = upsets

(* A provider fails or two disagree: the row counts as not checked.        *)
CheckWithoutQuorum ==
    /\ upsets < MaxUpsets /\ upsets' = upsets + 1
    /\ \E a \in audit.running : Checked(a, FALSE)

Report ==
    /\ audit.phase = "checks" /\ audit.running = {}
    /\ audit' = [audit EXCEPT !.phase = "reported"]
    /\ healthz' = [known |-> TRUE, torn |-> FALSE, checked |-> audit.checked,
                   disagreed |-> audit.disagreed, of |-> deploy.lineage]
    /\ UNCHANGED <<world, export, deploy, sampler, state, sidecar, upsets, told>>

(* The write may fail, which is only logged.                               *)
WriteSidecar ==
    /\ audit.phase = "reported"
    /\ audit' = [audit EXCEPT !.phase = "none"]
    /\ sidecar' \in {sidecar, healthz}
    /\ UNCHANGED <<world, export, deploy, sampler, healthz, state, upsets, told>>

-----------------------------------------------------------------------------
(* The follow loop, and the next start.                                    *)

ReplayBlock ==
    /\ deploy.phase = "up" /\ deploy.at < HeadBlock
    /\ deploy' = [deploy EXCEPT !.store = AfterBlocks(@, world.blocks[deploy.at + 1]),
                                !.at = @ + 1]
    /\ UNCHANGED <<world, export, sampler, audit, healthz, state, sidecar, upsets, told>>

SaveAgain ==
    /\ deploy.phase = "up" /\ state' = StateOf(deploy)
    /\ UNCHANGED <<world, export, deploy, sampler, audit, healthz, sidecar, upsets, told>>

(* The process ends anywhere, at a row that does not parse among others.   *)
(* The sidecar is renamed into place, never synced: a power cut may leave  *)
(* nothing readable of it.                                                 *)
Killed ==
    /\ deploy.phase # "down" /\ upsets < MaxUpsets /\ upsets' = upsets + 1
    /\ deploy' = [Down EXCEPT !.lineage = deploy.lineage]
    /\ sampler' = <<>> /\ audit' = NoAudit /\ healthz' = NoLine
    /\ sidecar' \in {sidecar, IF sidecar.known THEN [sidecar EXCEPT !.torn = TRUE] ELSE sidecar}
    /\ UNCHANGED <<world, export, state, told>>

(* A start from the state file has nothing to sample.                      *)
LoadState ==
    /\ deploy.phase = "down" /\ state # NoState
    /\ deploy' = [deploy EXCEPT !.phase = "up", !.store = state.store, !.at = state.at,
                                !.rewind = state.rewind, !.lineage = state.lineage]
    /\ healthz' = LineOf(sidecar)
    /\ UNCHANGED <<world, export, sampler, audit, state, sidecar, upsets, told>>

(* The operator removes the state file to start from another export.       *)
Replaced ==
    /\ deploy.phase = "down" /\ state # NoState /\ deploy.lineage < 2
    /\ state' = NoState
    /\ export' \in Exports
    /\ UNCHANGED <<world, deploy, sampler, audit, healthz, sidecar, upsets, told>>

SnapshotNext ==
    \/ Ingest \/ IngestRow \/ Serve \/ CheckAgreed \/ CheckWithoutQuorum \/ Report
    \/ WriteSidecar \/ ReplayBlock \/ SaveAgain \/ Killed \/ LoadState \/ Replaced

SnapshotSpec == SnapshotInit /\ [][SnapshotNext]_snapshotVars

-----------------------------------------------------------------------------

(* A credit the replay counts twice: the export had it already, and no     *)
(* block since has left the account's balance as a whole.                  *)
CreditedTwice(a) ==
    \E n \in (SNAPSHOT_BLOCK - deploy.rewind + 1)..export.exact :
        /\ a \in DOMAIN world.blocks[n].credited
        /\ \A w \in n..deploy.at : a \notin DOMAIN world.blocks[w].written

(* An export that is exact at any block from the one the replay starts     *)
(* after to the declared one gives a deployment whose balances, from that  *)
(* block on, are the chain's: also for a row the export has wrong, once a  *)
(* block has written it. The one exception is the one the start's message  *)
(* names, a withdrawal within the rewound blocks, and only until the       *)
(* account is written again (snapshot_rewind.rs, mainnet.rs:860).          *)
RewindHeals ==
    /\ deploy.phase = "up"
    /\ SNAPSHOT_BLOCK - deploy.rewind <= export.exact /\ export.exact <= deploy.at
    => \A a \in Rows :
          \/ deploy.store[a] = TruthAt(deploy.at)[a]
          \/ CreditedTwice(a)
          \/ /\ export.balance[a] # TruthAt(export.exact)[a]
             /\ \A w \in (SNAPSHOT_BLOCK - deploy.rewind + 1)..deploy.at :
                    a \notin DOMAIN world.blocks[w].written

(* What /healthz says of this start's export, at once or after a restart,  *)
(* counts exactly the sampled rows a quorum answered for, and those of     *)
(* them whose balance the chain did not have at the declared block, however*)
(* far the follow loop had come when they were checked                     *)
(* (snapshot_audit.rs:466).                                                *)
CountsAreTheExports ==
    healthz.known /\ healthz.of = deploy.lineage
    => /\ healthz.checked = Cardinality(told)
       /\ healthz.checked <= SampleCapacity
       /\ healthz.disagreed =
            Cardinality({a \in told : export.balance[a] # TruthAt(SNAPSHOT_BLOCK)[a]})

(* A start from an export ends where it says, and the audit says how far   *)
(* the export itself was from the chain.                                   *)
AuditIsTrue == RewindHeals /\ CountsAreTheExports
=============================================================================
