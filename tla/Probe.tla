-------------------------------- MODULE Probe --------------------------------
(***************************************************************************)
(* The measurement probe: one long-lived session against a deployment that *)
(* moves on, followed between batches of private lookups, each checked     *)
(* afterwards against an independent provider.  The queried account has a  *)
(* different balance at every block, so a balance is known by its block.   *)
(***************************************************************************)
EXTENDS Integers, Sequences, FiniteSets, SequencesExt

CONSTANTS Batches, BatchSize, \* --batches, --batch-size
          RingCapacity,       \* blocks whose deltas the deployment keeps
          MaxProbeFaults,     \* bound on calls that fail
          MaxHead             \* bound on the deployment's block

ASSUME ProbeAssumption ==
    {Batches, BatchSize, RingCapacity, MaxProbeFaults, MaxHead} \subseteq Nat

VARIABLES
    nodeHead,    \* the deployment's block
    session, \* the block it started from, and the block it has reached
    pc,      \* where run() stands
    left,    \* batches left, and trials left of this batch
    trial,   \* the trial that runs
    blockRows,    \* the blocks CSV: the fetches, by their range
    summary, \* the counters
    mishaps, \* calls that failed
    starts   \* history: the blocks sessions were started from

probeVars == <<nodeHead, session, pc, left, trial, blockRows, summary, mishaps, starts>>

NoTrial == [absent |-> FALSE, to |-> 0, at |-> 0, fetches |-> <<>>, attempts |-> 1, checked |-> "skipped"]
NoCount == [trials |-> 0, ok |-> 0, errors |-> 0, ingested |-> 0,
            matched |-> 0, mismatched |-> 0, failed |-> 0, skipped |-> 0]

ProbeInit ==
    /\ nodeHead = 0
    /\ session = [pinned |-> 0, at |-> 0]
    /\ pc = "bootstrap"
    /\ left = [batches |-> Batches, trials |-> 0]
    /\ trial = NoTrial /\ blockRows = <<>> /\ summary = NoCount
    /\ mishaps = 0 /\ starts = {}

Mishap == mishaps < MaxProbeFaults /\ mishaps' = mishaps + 1

HeadMoves ==
    /\ nodeHead < MaxHead
    /\ nodeHead' = nodeHead + 1
    /\ UNCHANGED <<session, pc, left, trial, blockRows, summary, mishaps, starts>>

(* GET /setup, and /mode where the header lacks it; run() ends if it fails.*)
Bootstrap ==
    /\ pc = "bootstrap"
    /\ \/ /\ session' = [pinned |-> nodeHead, at |-> nodeHead]
          /\ starts' = {nodeHead}
          /\ pc' = "following"
          /\ UNCHANGED mishaps
       \/ /\ Mishap
          /\ pc' = "stopped"
          /\ UNCHANGED <<session, starts>>
    /\ UNCHANGED <<nodeHead, left, trial, blockRows, summary>>

Bridges(from) == from >= nodeHead - RingCapacity

Fetch(from, to) == [from |-> from, to |-> to]

(* write_fetch: a row for every GET /sync, whoever sent it.                *)
Ingested(fetches) == FoldLeft(LAMBDA n, f : n + f.to - f.from, 0, fetches)

-----------------------------------------------------------------------------
(* follow_until: a step that fails, or finds the session too far behind,   *)
(* is logged and the next one tries again.                                 *)
Follow ==
    /\ pc = "following"
    /\ Bridges(session.at) /\ session.at < nodeHead
    /\ session' = [session EXCEPT !.at = nodeHead]
    /\ blockRows' = Append(blockRows, Fetch(session.at, nodeHead))
    /\ summary' = [summary EXCEPT !.ingested = @ + nodeHead - session.at]
    /\ UNCHANGED <<nodeHead, pc, left, trial, mishaps, starts>>

(* The time of the next batch has come, and there is a pool of addresses.  *)
StartBatch ==
    /\ pc = "following" /\ left.batches > 0
    /\ \/ /\ left' = [batches |-> left.batches - 1, trials |-> BatchSize]
          /\ pc' = "next"
          /\ UNCHANGED mishaps
       \/ /\ Mishap
          /\ pc' = "stopped"
          /\ UNCHANGED left
    /\ UNCHANGED <<nodeHead, session, trial, blockRows, summary, starts>>

(* The deadline has passed.                                                *)
StopInTime ==
    /\ pc = "following"
    /\ pc' = "reported"
    /\ UNCHANGED <<nodeHead, session, left, trial, blockRows, summary, mishaps, starts>>

-----------------------------------------------------------------------------
(* one_trial, a lookup of an address of the pool or of a random one.       *)

NextTrial ==
    /\ pc = "next"
    /\ IF left.trials = 0
       THEN /\ pc' = "following"
            /\ UNCHANGED <<left, trial>>
       ELSE /\ left' = [left EXCEPT !.trials = @ - 1]
            /\ \E absent \in BOOLEAN : trial' = [NoTrial EXCEPT !.absent = absent]
            /\ pc' = "head"
    /\ UNCHANGED <<nodeHead, session, blockRows, summary, mishaps, starts>>

(* The session syncs to the head it is told, and then asks.                *)
TrialHead ==
    /\ pc = "head"
    /\ trial' = [trial EXCEPT !.to = nodeHead]
    /\ pc' = "sync"
    /\ UNCHANGED <<nodeHead, session, left, blockRows, summary, mishaps, starts>>

(* Every fetch of the trial is kept for its rows, whatever comes of it.    *)
SyncedTo(to) ==
    /\ session' = [session EXCEPT !.at = IF to > @ THEN to ELSE @]
    /\ trial' = IF to > session.at THEN [trial EXCEPT !.fetches = Append(@, Fetch(session.at, to))] ELSE trial

TrialSync ==
    /\ pc = "sync"
    /\ trial.to <= session.at \/ Bridges(session.at)
    /\ SyncedTo(trial.to)
    /\ pc' = "answer"
    /\ UNCHANGED <<nodeHead, left, blockRows, summary, mishaps, starts>>

TrialAnswer ==
    /\ pc = "answer"
    /\ trial' = [trial EXCEPT !.at = nodeHead]
    /\ pc' = "resync"
    /\ UNCHANGED <<nodeHead, session, left, blockRows, summary, mishaps, starts>>

TrialFinish ==
    /\ pc = "resync"
    /\ trial.at <= session.at \/ Bridges(session.at)
    /\ SyncedTo(trial.at)
    /\ pc' = "confirm"
    /\ UNCHANGED <<nodeHead, left, blockRows, summary, mishaps, starts>>

TrialRecorded(fetches, outcome, checked) ==
    /\ blockRows' = blockRows \o fetches
    /\ summary' = [summary EXCEPT !.trials = @ + 1, ![outcome] = @ + 1, ![checked] = @ + 1,
                                  !.ingested = @ + Ingested(fetches)]
    /\ trial' = NoTrial
    /\ pc' = "next"

(* Evicted: one fresh bundle per trial, unless one was taken lately, and a *)
(* second attempt.                                                         *)
TrialStalls ==
    /\ pc \in {"sync", "resync"}
    /\ (IF pc = "sync" THEN trial.to ELSE trial.at) > session.at /\ ~Bridges(session.at)
    /\ \/ /\ trial.attempts = 1
          /\ session' = [pinned |-> nodeHead, at |-> nodeHead]
          /\ starts' = starts \cup {nodeHead}
          /\ trial' = [trial EXCEPT !.attempts = 2]
          /\ pc' = "head"
          /\ UNCHANGED <<blockRows, summary>>
       \/ /\ TrialRecorded(trial.fetches, "errors", "skipped")
          /\ UNCHANGED <<session, starts>>
    /\ UNCHANGED <<nodeHead, left, mishaps>>

(* Any call of the lookup may fail; the trial is an error row.             *)
TrialFails ==
    /\ pc \in {"head", "sync", "answer", "resync"}
    /\ Mishap
    /\ TrialRecorded(trial.fetches, "errors", "skipped")
    /\ UNCHANGED <<nodeHead, session, left, starts>>

(* An answer that does not decode ends the run, loudly.                    *)
DecodeFails ==
    /\ pc = "resync"
    /\ Mishap
    /\ pc' = "stopped"
    /\ UNCHANGED <<nodeHead, session, left, trial, blockRows, summary, starts>>

(* A partial deployment has no answer for an account it does not track.    *)
NotTracked ==
    /\ pc = "confirm" /\ trial.absent
    /\ TrialRecorded(trial.fetches, "errors", "skipped")
    /\ UNCHANGED <<nodeHead, session, left, mishaps, starts>>

(* What the session decoded, and what the provider says at block b.        *)
Decoded == IF trial.absent THEN 0 ELSE trial.at
TheirsAt(b) == IF trial.absent THEN 0 ELSE b

(* Mutant of AskedAt: the provider is asked for its latest block.          *)
AskedAtHead == nodeHead

(* The block the provider is asked for.                                    *)
AskedAt == trial.at

(* After the clock has stopped: the provider agrees, disagrees, fails, or  *)
(* is not asked.                                                           *)
Confirm ==
    /\ pc = "confirm"
    /\ \/ /\ TrialRecorded(trial.fetches, "ok", IF TheirsAt(AskedAt) = Decoded THEN "matched" ELSE "mismatched")
          /\ UNCHANGED mishaps
       \/ /\ TrialRecorded(trial.fetches, "ok", "skipped")
          /\ UNCHANGED mishaps
       \/ /\ Mishap
          /\ TrialRecorded(trial.fetches, "ok", "failed")
    /\ UNCHANGED <<nodeHead, session, left, starts>>

ProbeNext ==
    \/ HeadMoves \/ Bootstrap \/ Follow \/ StartBatch \/ StopInTime
    \/ NextTrial \/ TrialHead \/ TrialSync \/ TrialAnswer \/ TrialFinish
    \/ TrialStalls \/ TrialFails \/ DecodeFails \/ NotTracked \/ Confirm

ProbeSpec == ProbeInit /\ [][ProbeNext]_probeVars

-----------------------------------------------------------------------------
(* The report is true of the run: the block rows and the fetches of the    *)
(* trial that runs follow each other without hole or overlap up to where   *)
(* the session stands, except where a fresh bundle let it jump; every      *)
(* trial is counted once, under one outcome and one verdict; and a         *)
(* mismatch is only ever reported of a deployment that answered wrongly.   *)
ReportIsTrue ==
    LET fetches == blockRows \o trial.fetches
        c       == summary IN
    /\ \A i \in DOMAIN fetches :
          /\ fetches[i].from < fetches[i].to
          /\ fetches[i].from \in starts \cup (IF i = 1 THEN {} ELSE {fetches[i - 1].to})
    /\ fetches # <<>> => session.at \in {Last(fetches).to, session.pinned}
    /\ c.ok + c.errors = c.trials
    /\ c.matched + c.mismatched + c.failed + c.skipped = c.trials
    /\ c.ingested = Ingested(blockRows)
    /\ c.mismatched = 0
=============================================================================
