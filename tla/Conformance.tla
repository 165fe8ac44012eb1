---------------------------- MODULE Conformance -----------------------------
(* The mock chain and the conformance harness that is the project's gate:  *)
(* the mock emits blocks and keeps the true balances; the harness applies  *)
(* each block, sorts the accounts it has seen into categories, and at      *)
(* checkpoints compares a sample's private answers with the truth. An      *)
(* account is its id; which balance a change leaves is left open.          *)
EXTENDS Integers, Sequences, FiniteSets, SequencesExt

CONSTANTS GenesisKeys, InsertsPerBlock, DeletesPerBlock, ChangesPerBlock,
          Blocks, Checkpoints,
          ContractCount, NeverExistedCount,
          PerBucket, MinAddresses,
          MaxWrong \* bound on the answers that are wrong

ASSUME ConformanceAssumption ==
    /\ {GenesisKeys, InsertsPerBlock, DeletesPerBlock, Blocks, Checkpoints} \subseteq Nat \ {0}
    /\ {ChangesPerBlock, PerBucket, MinAddresses, NeverExistedCount, MaxWrong} \subseteq Nat
    /\ ChangesPerBlock >= InsertsPerBlock + DeletesPerBlock
    /\ ContractCount \in 0..GenesisKeys

VARIABLES
    mock,   \* the chain: its balances, its block, the next fresh id
    served, \* the balances of the server under test
    records,   \* what the harness noted of the change stream
    gate,   \* its counts, and the sample it compared last
    wrongAnswers   \* history: the wrong answers there were

conformanceVars == <<mock, served, records, gate, wrongAnswers>>

Ids == 0..(GenesisKeys + InsertsPerBlock * Blocks + NeverExistedCount)
MockBalances == 1..2
GenesisIds == 0..(GenesisKeys - 1)
Contracts == 0..(ContractCount - 1)

(* Ids beyond all the run can mint.                                        *)
NeverExisted == {GenesisKeys + InsertsPerBlock * Blocks + i : i \in 1..NeverExistedCount}

CheckpointBlocks ==
    {Blocks} \cup ({(Blocks * i) \div Checkpoints : i \in 1..Checkpoints} \ {0})

CATEGORIES == {"never-existed", "contract", "high-activity", "created", "zero-balance"}

-----------------------------------------------------------------------------
(* The mock: a block's changes are the deletes, then the inserts, then     *)
(* updates of what is live, some account perhaps twice.                    *)

Live(balances) == {i \in Ids : balances[i] # 0}

Emitted(balances, change) == [balances EXCEPT ![change[1]] = change[2]]

Lesser(a, b) == IF a < b THEN a ELSE b

EmittedBlock(gone, fresh, changed) ==
    [i \in 1..Cardinality(gone) |-> <<SetToSeq(gone)[i], 0>>]
        \o [i \in 1..InsertsPerBlock |-> <<mock.nextId + i - 1, fresh[mock.nextId + i - 1]>>]
        \o changed

BlockUpdates ==
    LET live == Live(mock.balances)
        minted == mock.nextId..(mock.nextId + InsertsPerBlock - 1)
        deletes == Lesser(DeletesPerBlock, Cardinality(live))
        updates == ChangesPerBlock - deletes - InsertsPerBlock
    IN UNION {
        {EmittedBlock(gone, fresh, changed)
          : fresh \in [minted -> MockBalances],
            changed \in [1..updates -> ((live \ gone) \cup minted) \X MockBalances]}
        : gone \in {g \in SUBSET live : Cardinality(g) = deletes}}

-----------------------------------------------------------------------------
(* The harness.                                                            *)

ConformanceInit ==
    /\ \E genesis \in [GenesisIds -> MockBalances] :
          mock = [balances |-> [i \in Ids |-> IF i \in GenesisIds THEN genesis[i] ELSE 0],
                  block |-> 0, nextId |-> GenesisKeys]
    /\ served = mock.balances
    /\ records = [activity |-> [i \in Ids |-> 0], known |-> GenesisIds,
               created |-> <<>>, deleted |-> <<>>]
    /\ gate = [phase |-> "run", mismatches |-> 0, sample |-> <<>>, passed |-> FALSE]
    /\ wrongAnswers = 0

Recounted(s, change) ==
    LET id == change[1]
        counted == [s EXCEPT !.activity[id] = @ + 1]
    IN IF change[2] = 0 THEN [counted EXCEPT !.deleted = Append(@, id)]
       ELSE IF id \in s.known THEN counted
       ELSE [counted EXCEPT !.known = @ \cup {id}, !.created = Append(@, id)]

(* One block: recorded, applied by the server and ingested by the client.  *)
ConformBlock ==
    /\ gate.phase = "run" /\ mock.block < Blocks
    /\ \E changes \in BlockUpdates :
          /\ mock' = [balances |-> FoldLeft(Emitted, mock.balances, changes),
                      block |-> mock.block + 1, nextId |-> mock.nextId + InsertsPerBlock]
          /\ served' = FoldLeft(Emitted, served, changes)
          /\ records' = FoldLeft(Recounted, records, changes)
    /\ gate' = [gate EXCEPT !.phase = IF mock.block + 1 \in CheckpointBlocks
                                      THEN "checkpoint" ELSE "run"]
    /\ UNCHANGED wrongAnswers

MoreActive(a, b) ==
    \/ records.activity[a] > records.activity[b]
    \/ records.activity[a] = records.activity[b] /\ a < b

(* filter(): of the ids, in their order, those in S.                       *)
Filtered(ids, S) ==
    FoldLeft(LAMBDA taken, i : IF i \in S THEN Append(taken, i) ELSE taken, <<>>, ids)

(* The ids in S, an account before those less active.                      *)
Ranked(S) ==
    [k \in 1..Cardinality(S) |->
        CHOOSE i \in S : Cardinality({j \in S : MoreActive(j, i)}) = k - 1]

(* Mutant of FullCandidates: an account created during the run stays a     *)
(* candidate when it is gone.                                              *)
FullCandidatesOfAll ==
    [zero |-> Filtered(records.deleted, Ids \ Contracts),
     created |-> records.created,
     active |-> Ranked({i \in GenesisIds \ Contracts :
                           records.activity[i] > 0 /\ mock.balances[i] # 0})]

FullCandidates ==
    [zero |-> Filtered(records.deleted, Ids \ Contracts),
     created |-> Filtered(records.created, Live(mock.balances)),
     active |-> Ranked({i \in GenesisIds \ Contracts :
                           records.activity[i] > 0 /\ mock.balances[i] # 0})]

Taken(candidates, cap) == SubSeq(candidates, 1, Lesser(cap, Len(candidates)))

Labelled(ids, category) == [i \in 1..Len(ids) |-> <<ids[i], category>>]

(* The last sample is filled up to what is wanted from what the caps have  *)
(* left out: of the active accounts first, then the created, then the gone.*)
BuildSample(full, target) ==
    LET fixed == NeverExistedCount + ContractCount
        Capped(s) == Lesser(PerBucket, Len(s))
        Room(s) == Len(s) - Capped(s)
        short == target - fixed - Capped(full.zero) - Capped(full.created) - Capped(full.active)
        deficit == IF short > 0 THEN short ELSE 0
        active == Lesser(Room(full.active), deficit)
        created == Lesser(Room(full.created), deficit - active)
        zero == Lesser(Room(full.zero), deficit - active - created)
    IN Labelled(SetToSeq(NeverExisted), "never-existed")
         \o Labelled(SetToSeq(Contracts), "contract")
         \o Labelled(Taken(full.zero, PerBucket + zero), "zero-balance")
         \o Labelled(Taken(full.created, PerBucket + created), "created")
         \o Labelled(Taken(full.active, PerBucket + active), "high-activity")

(* A lookup's result: a balance, 0 for "not found", -1 for "does not       *)
(* decode". A broken system may give any of them for one account.          *)
Answers(sample) ==
    LET right == [i \in 1..Len(sample) |-> served[sample[i][1]]]
        broken == {[right EXCEPT ![p[1]] = p[2]] : p \in (1..Len(sample)) \X ({-1, 0} \cup MockBalances)}
    IN IF wrongAnswers < MaxWrong THEN {right} \cup broken ELSE {right}

Mismatches(sample, answers) ==
    Cardinality({i \in 1..Len(sample) : answers[i] # mock.balances[sample[i][1]]})

(* Compares a sample, and counts what the system got wrong.                *)
DiffSample(sample, answers) ==
    /\ gate' = [gate EXCEPT !.sample = sample, !.mismatches = @ + Mismatches(sample, answers),
                            !.phase = "run"]
    /\ wrongAnswers' = wrongAnswers + Cardinality({i \in 1..Len(sample) : answers[i] # served[sample[i][1]]})

CompareSample ==
    /\ gate.phase = "checkpoint"
    /\ LET sample == BuildSample(FullCandidates, 0)
       IN \E answers \in Answers(sample) : DiffSample(sample, answers)
    /\ UNCHANGED <<mock, served, records>>

InCategory(sample, category) == {i \in 1..Len(sample) : sample[i][2] = category}

(* The last sample, after the last block; a sample too small or without a  *)
(* category fails the gate as a mismatch does.                             *)
Conclude ==
    /\ gate.phase = "run" /\ mock.block = Blocks
    /\ LET sample == BuildSample(FullCandidates, MinAddresses)
       IN \E answers \in Answers(sample) :
             /\ gate' = [phase |-> "done", sample |-> sample,
                         mismatches |-> gate.mismatches + Mismatches(sample, answers),
                         passed |-> /\ gate.mismatches + Mismatches(sample, answers) = 0
                                    /\ Len(sample) >= MinAddresses
                                    /\ \A c \in CATEGORIES : InCategory(sample, c) # {}]
             /\ wrongAnswers' = wrongAnswers
                  + Cardinality({i \in 1..Len(sample) : answers[i] # served[sample[i][1]]})
    /\ UNCHANGED <<mock, served, records>>

ConformanceNext == ConformBlock \/ CompareSample \/ Conclude

ConformanceSpec == ConformanceInit /\ [][ConformanceNext]_conformanceVars

-----------------------------------------------------------------------------

(* The gate passes only if no compared answer was wrong, its last sample is*)
(* large enough, no account is in it twice, and each category stands for   *)
(* what its name says: accounts that came during the run and are still     *)
(* there, that were there from the start and changed, that are gone, that  *)
(* never were; and a right system is never failed by a mismatch, whatever  *)
(* order a block changes an account in (conformance.rs:240, lib.rs:380).   *)
GateIsTrue ==
    /\ gate.mismatches > 0 => wrongAnswers > 0
    /\ \A i, j \in 1..Len(gate.sample) : i # j => gate.sample[i][1] # gate.sample[j][1]
    /\ gate.phase = "done" /\ gate.passed =>
          /\ wrongAnswers = 0
          /\ Cardinality(ToSet(gate.sample)) >= MinAddresses
          /\ \A i \in 1..Len(gate.sample) :
                LET id == gate.sample[i][1]
                IN CASE gate.sample[i][2] = "never-existed" -> id \notin records.known
                     [] gate.sample[i][2] = "created" ->
                            id \notin GenesisIds /\ mock.balances[id] # 0
                     [] gate.sample[i][2] = "high-activity" ->
                            id \in GenesisIds /\ mock.balances[id] # 0
                     [] gate.sample[i][2] = "zero-balance" ->
                            id \in records.known /\ mock.balances[id] = 0
                     [] OTHER -> id \in GenesisIds
=============================================================================
