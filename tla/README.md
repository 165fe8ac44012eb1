# A verification development for private `eth_getBalance`

The repository is a server and a client for private information retrieval of
Ethereum balances. The server keeps every account's balance in a segmented
cuckoo table, publishes LWE hints for it, and applies finalized blocks one at a
time. A client downloads the hints once (a 0.5 GB bundle), pins them, and from
then on downloads only the small public deltas of each block; it *rewinds* a
response by the accumulated delta, decodes it against the pinned hint, and adds
the delta back. The invariant the repository sets above all others
(`docs/plan.md`) is that a wrong answer is never returned: an error or a
slightly stale answer is acceptable, a wrong balance is not. This development
states that invariant and what it rests on, model-checks it on small instances,
and proves the core of it for every value of the constants.

## The system

| part | state | operations | interacts with |
|---|---|---|---|
| `risepir-proto` | none (types, codecs, geometry, value encoding) | coalesce, encode/decode, size a table | everything |
| `risepir-server` | cells of the cuckoo table, hints, block number; the delta ring | apply a block, answer, set up, push/range of the ring | the node |
| `risepir-http` node | `Inner` (server, ring, per-block deltas) under one RwLock; cached setup bundle; recent-change log; counters; reconcile health | `apply_block_reporting`, `seed_history`, `/head`, `/mode`, `/setup`, `/answer`, `/delta`, `/sync`, `/metrics`, `/recent`, `/healthz` | follow loop writes, clients read |
| `risepir-rpc` startup | command line, state path and its lock | choose between state file, journal, snapshot and empty table; refuse; save at shutdown | all of the deployment |
| `risepir-rpc` mainnet | position in the chain, deferred reconcile samples | bootstrap (state file, snapshot, partial), follow loop, credit filter, corrections, reconcile | feed, node, saver, correction queue |
| `risepir-rpc` saver, journal, state | state file, journal file, saver mutex (writer, height saved, broken flag) | periodic and shutdown save, append, rotate, scan, restore | follow loop, signal handler, restart |
| `risepir-feed` | endpoint list, which are verified | finalized head, block update with fall-back between endpoints | follow loop, prefetch |
| `risepir-rpc` prefetch | ordered queue of block fetches in flight | set head, fetch, drop | follow loop, feed |
| `risepir-rpc` hard refresh | correction queue, progress | fetch by quorum, enqueue, filter stale, prepend to a block | follow loop, reference nodes |
| `risepir-rpc` snapshot audit and rewind | reservoir of sampled rows, sidecar file | sample, compare, rewind the starting block | bootstrap, reference nodes |
| `risepir-rpc` client (`private_eth`) and `risepir-client` | session: pinned hint, accumulated delta, head, epoch, strictness; cooldown stamp | `eth_getBalance`, follow, re-bootstrap | node over HTTP |
| `risepir-rpc` JSON-RPC front end | one session behind a mutex, optional upstream | parse, dispatch, check the block selector, forward | callers, client, upstream |
| `risepir-wasm` and its ABI | the same session in a browser; one input, output and error buffer | initialise, query, finish | the page |
| `web/` page | stages of the boot, form, state panel; an IndexedDB copy of the bundle | preflight, resumed download, poll, look up | node over HTTP, wasm module |
| probe, metrics, CSVs | counters, a long-lived session | measure | node, reference node |
| `xtask` | mock chain; plans, figures | conformance gate, benchmark, geometry tools, campaign report | everything, in-process |
| demo, fuzz, ops | none of their own | wiring, harnesses, deployment files | - |

What makes each part correct:

* cells and deltas: the sum of a contiguous range of deltas is the difference
  of its end states; the ring is always such a range and ends at the head;
* store: through collisions, kicks and refused writes the table is a map from
  accounts to balances, and the two scans that read it agree;
* node: hints describe the cells; what `/sync`, `/answer` and `/setup` hand out
  fits together across blocks, restarts and re-bootstraps; nothing applied is
  left out of the journal; what the node says of itself is so;
* client: an answer is a finalized balance, fresh when asked, or an error; a
  stalled session recovers and never goes back in time;
* startup: what a deployment says of its completeness is true through any
  number of saves, restarts and command lines;
* follow loop: what is answered at the applied block is the chain's balance in
  complete mode, and an error or that balance in partial mode;
* feed and prefetch: the loop gets exactly the block it asks for, from the right
  chain, and every failure ends in a retry;
* saver: the state file is whole, a restore ends at a state that was served, and
  what was reported saved is not lost, wherever the process or the power stops;
* hard refresh: errors and disagreement never become a balance, a true
  correction never beats anything fresher than itself;
* reconcile: a right deployment is never stopped, deferred verification is not
  skipped, the alarm names the right cause;
* snapshot audit: it counts what the export had wrong at the block it declares,
  and a replay from before that block heals it;
* setup download and browser session: a bundle is never joined from two, a
  session never mixes lineages, queries or deltas, a load and a lookup end;
* JSON-RPC: a balance is not from before the request nor from before the block it
  names, and a selector that was no head is refused; nothing private is forwarded;
* ABI and page: what overlapping lookups share is never taken for another's, and
  the page says what is going on;
* wire formats: a message is decoded to what was sent or refused;
* probe, gate and tools: what they report is so.

The behaviours that are hard are listed one by one, with their lines, under
`hazards` in `PROJECT.json`. In short: a request is six HTTP calls and local
steps, and blocks are applied between any two of them; the ring may evict what
the request is about to need; the deployment may be restarted, or replaced by
one with new seeds and a new layout, in the middle; the saver's mutex is taken
by the follow loop's appends, its periodic saves and the signal handler; a
crash may fall between any two file operations, and between applying a block
and journaling it; a block may be refused after half of it is in the table; the
cuckoo store inserts at random, so applying the same block twice need not give
the same table; and a page runs two lookups over one session.

## Modules

| module | what it models |
|---|---|
| `CellDelta` | the cell array, its rewriting by a block, cell-wise deltas, the delta ring, coalescing |
| `PirNode` | the serving node, the follow loop's block application and rejection, state file, journal, restart, re-bootstrap, and what the HTTP handlers answer |
| `PrivateEth` | extends `PirNode` with any number of clients: sessions, the steps of `eth_getBalance`, stall and re-bootstrap, cooldown, the follower |
| `BalanceService` | the abstract service: a question is answered by a finalized balance that is fresh enough, or by an error |
| `VerifiedStore` | the cuckoo store below `CellDelta`: fingerprint and tag collisions, the verified scan, writes, credits, kicks, refused blocks, the client's scan |
| `BalanceMap` | the abstract store: a map written one account at a time |
| `FollowLoop` | the follow loop above the store: polling, credits, corrections riding a block, rejection |
| `HardRefresh` | extends `FollowLoop` with the `--hard-refresh` task |
| `Reconcile` | extends `FollowLoop` with the reconcile checkpoint, its health record and its reservoir |
| `BlockFeed` | the feed's endpoints and the prefetch window in front of the follow loop |
| `StateFiles` | state file and journal at the level of file operations, with kills, power cuts and failing calls |
| `SetupDownload` | `/setup` with ranges, `ETag` and `If-Range`, against the page's resumed download and its database of chunks |
| `BrowserSession` | extends `SetupDownload` with `getBalance` of `pir.js` and the lookups of a page |
| `WasmAbi` | the C interface of the wasm module and the page's calls on it |
| `WebPage` | the page around them: preflight, boot, polls, lookups |
| `JsonRpc` | the JSON-RPC front end with several callers on one session |
| `HttpCalls` | the calls of a native client: status, body bound, errors, what the measurements are told |
| `WireFormats` | the encodings of all messages and their decoders on damaged input |
| `NodeStatus` | metrics, `/recent`, and the block CSV, read and written lock by lock |
| `Probe` | the measurement probe |
| `SnapshotAudit` | ingesting an export, the rewound replay, the audit and its sidecar |
| `Startup` | the command line, what a start refuses, and where the table comes from |
| `Conformance` | the mock chain and the conformance gate |
| `Geometry`, `Bench`, `Report` | sizing of tables and the tools that report it; the benchmark's choice of scales; the campaign report (each extends the one before) |
| `MCPirNode`, `MCPrivateEth`, `MCBrowserSession`, `MCStateFiles`, `MCJsonRpc` | small instances for TLC of one module each |
| `MCBlockPath`, `MCFollowLoop`, `MCParts` | small instances for TLC of modules that share no state: `BlockFeed` and `VerifiedStore`; `HardRefresh` and `StateFiles`; the rest |
| `NaturalLemmas` | least and greatest elements of sets of numbers, induction and recursive functions up to a number, and what `FoldLeft` makes of a sequence, which the proofs share |
| `PrivateEth_proofs` | theorems about `CellDelta` and `PirNode`, about the node with its clients, and its refinement of `BalanceService` |
| `VerifiedStore_proofs` | about the store, its refinement of `BalanceMap`, and a store that starts from an export |
| `FollowLoop_proofs` | about the follow loop with hard refresh, and with the reconcile checkpoint |
| `StateFiles_proofs` | about state file and journal |
| `BrowserSession_proofs` | about the page: its download, its database, its lookups |
| `Edges_proofs` | about the edges of a deployment: the block feed, the JSON-RPC front end, the wasm module and the page around it, a native client's calls, the start |
| `Verdicts_proofs` | about what the project says of itself: the probe's report, the node's figures, the conformance gate |

The layers join as follows. `VerifiedStore` shows that the table is a map;
`CellDelta` takes that for granted and keeps the layout, because sessions see
layouts; `FollowLoop` keeps the map alone, because what is queued, credited or
compared is a matter of balances. `PirNode` and `FollowLoop` thus model the same
loop twice, once for what clients can see of it and once for whether what is
applied is true. `BlockFeed` shows that the blocks this loop is given are the
chain's in order, which `FollowLoop` takes for granted; `StateFiles` shows what a
restart finds, which `PirNode` keeps as one saved state and a sequence of
records. `PrivateEth` is the native session and `BrowserSession` the browser's:
the same protocol over the same endpoints, but without the mutex.

### `CellDelta`: what is abstracted, and why it loses nothing

A slot of the table (the cells of one stored record) is one number per account:
the balance of the account it holds, 0 for the others. Deltas are differences
of such arrays and add up cell by cell, exactly as the sparse row deltas do;
adding a delta to a state it was not computed from gives garbage here as it
does in the code, which is what the properties need to see. `BalanceIn` is the
result of the fingerprint-and-tag scan over an account's candidate slots;
collisions of fingerprints and tags are the subject of `VerifiedStore`. `Rewrites(D, bal)` is
the set of tables the store can be left with: updates and deletes work in
place, and an insert (a random start bucket and a random walk of kicks) may
leave any valid placement of the stored accounts. It is nondeterministic on
purpose: that the same block may be laid out differently twice is what run
`lost_block` is about.

### `PirNode`

`chain` is the finalized chain: balances after each block, and which accounts
the block credits by a withdrawal only (the feed reports those as relative
amounts, everything else as absolute post-state). `cells` is the array
`/answer` reads and `hinted` the array the hints were computed or patched for:
a hint is a secret-independent product of a matrix and the cells, so the cells
it describes are all that can be told apart. An `epoch` stands for the LWE seeds
drawn at a bootstrap and kept in the state file.

| action | code |
|---|---|
| `ApplyBlock` | the follow loop's credit filter and `NodeState::apply_block_reporting`, whole, under its write lock: store, hint patch, head, ring, pruning of per-block deltas |
| `RejectBlock` | `RisePirServer::reject_block`; the follow loop returns and the listeners keep serving |
| `AppendDelta`, `AppendFails` | `StateSaver::append_delta`, in the window after the apply during which a save may run |
| `SaveState` | `save_with`: the state file replaced atomically, the journal rotated or failing to |
| `Restart` | load, with or without journal replay, `seed_history`, `JournalWriter::adopt` |
| `Rebootstrap` | a fresh deployment at any block of the chain, complete or partial |
| `SyncReply`, `AnswerReply`, `SetupReply` | `GET /sync`, `POST /answer`, `GET /setup` with its cache |

`archive` and `damaged` are history variables. `archive` remembers every state
the hints have described; `damaged` the lineages that lost a served block in a
restart or rejected one half-applied. A bootstrap is taken to be exact at its
block: an inexact snapshot is what the audit and hard refresh are for.

### `PrivateEth`

One action per call of `try_get_balance`: `ReadHead`, `SyncToHead`, `Query`,
`SyncToAnswer`, `Finish`; then `TakeRebootstrapSlot` and `Resetup` on a stall.
The session mutex is held from `Invoke` to `Release`, so a client has one
request at a time, and the follower (`FollowHead`, `FollowSync`) excludes
requests as it does in the code. The mode header of `/setup` is read with the
bundle. `Readable` is when LWE decoding works: an entry of a response sums a
whole column of the segment, so a slot is recovered only if every slot at its
offset rewinds to what the pinned hint was built for; otherwise the result is
noise, which either trips the range check or matches no fingerprint.

### `BalanceService`

Four variables and five actions say what a caller may rely on. `PrivateEth`
implements it (`ImplementsService`): the refinement maps `served` to the node's
head, a client's open question to its request, and its reply to the outcome.
An answer is a balance of the asked account at a block that is not below every
block served since the question was put.

### `VerifiedStore` and `BalanceMap`

Fingerprint and key tag are functions of the account, so a slot remembers the
account it was written for; `Fingerprint` and `KeyTag` are constants, and every
collision pattern is an instance. `candidate_buckets`, `update`, `delete` and
`insert` belong to the cuckoo crate and are modelled by what this repository
relies on: the first two act on the first fingerprint match in probe order,
whoever's it is, and the last may move every record among its candidates or give
up and put them back.

| definition | code |
|---|---|
| `Located` | `verified::locate`: absent, own, shadowed by a foreign match, duplicate tag |
| `BalanceOf`, `Looked` | `verified::get`; the OR over matching slots in `finish_observed` |
| `Receive`, `Apply`, `Reject` | `apply_block_reporting`: changes, then credits, one by one; the first refusal ends the block and, through the follow loop's return, all writing |

Two accounts that agree in all 64 compared bits are assumed to share no slot
(`StoreAssumption`): the code accepts that accident. `ImplementsMap` says that the
balances clients look up change exactly as `BalanceMap` says.

### `FollowLoop`

| action | code |
|---|---|
| `Finalize` | the chain: transactions touch accounts (a touched account may end at the balance it had, which the feed still reports), then withdrawals credit |
| `Poll` | `follow_loop` asks for the head once it has caught up; an endpoint that lags may report a lower one |
| `ApplyBlock` | one pass of the body: credit filter, `drain_up_to`, `filter_stale_corrections`, `prepend_corrections`, apply, and whether a checkpoint is due |
| `RejectBlock` | a failed apply: part of the block, or of its corrections, is in the store and the loop returns |

The store here is the map of balances. The order within `ApplyBlock` is the code's:
the filter of credits reads the store before the corrections are in it.

### `HardRefresh`

`StartRefresh` reads the height once. `Decide` is the end of the check of one
account: every provider has answered for the run's height, with an error or a
balance, and only now the store is read, so any number of blocks may lie between
the answer and the baseline it is queued with. Checks run concurrently and end in
any order. An honest provider answers with the chain's balance or fails; the
others answer anything.

### `Reconcile`

| action | code |
|---|---|
| `Defer` | the deferred branch of `reconcile`: queue the candidates, book a blind checkpoint, ask nobody |
| `Check` | candidates in feed order, sampled until enough fetches succeed or the budget is spent; compare; book success, nothing to do, or failure; drain the reservoir; a mismatch in either place stops the loop |
| `Record`, `Cause` | `record_reconcile_checkpoint` and the alarm of `maybe_escalate` |

Fetches fail in any combination. `owed` and `streak` are history: which blind
checkpoints' candidates have not been compared since, and what the blind
checkpoints of the present streak were. The reference provider is honest here; a
verified read of the store that fails stops the loop as a mismatch does and has no
case of its own. Addresses are numbers because the feed lists them in order, and
the list of withdrawals may name an account more than once (once more, in these
runs).

### `BlockFeed`

| action | code |
|---|---|
| `Advance` | an endpoint learns of a finalized block; endpoints do not keep pace |
| `Poll` | `finalized_head`: endpoints in order, those not yet verified only after their chain id was found right; the fetches above a head that has gone down are aborted (`set_head`) |
| `FetchNext` | `BlockPrefetch::fetch`: spawn what is missing in the window, await the block that is next |
| `FetchStep`, `FetchPanics` | one fetch, concurrent with the others: an endpoint answers, fails, lags or is found to be of another chain, and the next one is tried |
| `Await` | the awaited fetch has ended: apply its block, or drop it and ask for it again |
| `StopFollowing` | the loop returns (a rejected block, a halted checkpoint) |

`source` is history: which fetch, and so which endpoint, each applied block was
taken from.

### `StateFiles`

What the system shows (`files`) and what is durable (`disk`) are two variables;
`fsync` copies one to the other, a rename shows at once and is durable only with
the directory's `fsync`, `PowerLoss` falls back to any image that may be on the
disk, `Kill` ends a process between any two steps.

| action | code |
|---|---|
| `Start`, `Bootstrap`, `Serve` | the restore arms of `spawn`: state file with or without replay, `JournalWriter::adopt` with the torn tail cut off, or a bootstrap; then the listeners |
| `BlockApplied`, `BlockRejected` | the follow loop's two outcomes, which leave a delta to append or torn cells |
| `AppendStep`, `AppendFails` | `StateSaver::append_delta` and `JournalWriter::append`: skipped, begun, written, synced; a failure marks the journal broken |
| `Autosave`, `ShutdownSave`, `SaveStep` | `save_with`: stage, rename, sync, journal rotated; the node's read lock is held for the state file and given up for the journal |
| `Signal`, `Kill`, `PowerLoss` | the shutdown signal, after which the shutdown save contends with the loop for the saver's mutex; the two ways to stop |

A state is a block and the layouts its blocks left, so that two ways to lay out
one block are two states. `dirSyncs` is FALSE for a bare file name, whose
directory the code does not sync. A start syncs nothing: a name that a killed
process left unsynced stays so, whatever is then appended to the file behind it, until
a save or a rotation of a later process syncs a name of its own. `acked` and `kept` are
history: the last state that a save or an append reported to be on disk, and the last
one so reported while the names that lead to it were there (`SameJournal`). The two
differ only after a kill between a rename and its `fsync`, or where directories cannot
be synced.

### `SetupDownload` and `BrowserSession`

A piece of a bundle remembers the bundle it was cut from. The server encodes its
bundle anew when it is stale (`SetupBytes`), and `Rebootstrap` draws a new lineage;
`RangeApplies` is the handler's `If-Range`. A tab opens the database, probes the
head, decides whether the stored entry serves (`Decide`: replay it, resume it, or
start over), receives pieces into chunks, and notes after each chunk how far it
came (`Note`); `Stall` and `Break` stop a transfer for a resume, `Close` ends the
tab at any await, `Reload` comes back. With two tabs these steps interleave over
one database.

`BrowserSession` goes on where the bundle is loaded: `Submit`, `FindHead`, `Sync`,
`Query`, `Answer`, `Accept`, `Resync`, `GiveUp`. `added` counts how often each
block's delta is in the session, `foreign` whether one of another lineage is; a
decode is garbage unless each block between pinned and answered is in it once
and the query answered is the one in flight. `Overlap` says whether a second
lookup may start while one runs.

### `WasmAbi` and `WebPage`

`WasmAbi` has the module's shared places one by one: the input buffer, the output
buffer, the error, the completeness flag, the query in flight, the balance last
found. Between two awaits the page runs alone, so each action is all that runs
until the next `await`. Of the session's sum of deltas it has how far it reaches and
whether a block is in it twice (`twice`): `IngestDelta` accepts what reaches further,
wherever it starts, as `ingest` does, and what is decoded from such a sum may be
anything (`Decodings`). `WebPage` is what is around it: `Preflight` asks before a
download that the device reports no room for, `Connected`, `PollEnds` and `Reveal`
are the boot, `SubmitLookup` and `LookupEnds` the lookups with the button, pill and
outcome they leave. Lookups overlap, and whichever ends last writes the outcome
(`showResult`), be it the older one.

### The parts on their own

The rest do not share state with the core or with each other:

| module | actions | code |
|---|---|---|
| `JsonRpc` | `Post`, `Malformed`, `NotOurs`, `Forwarded`, `Dispatch`, `HeadKnown`, `LockSession`, `LookedUp`, `CallFails`, `TimesOut`, `ReplyRead` | `rpc.rs`: one request, from its parse to its reply, cut off by the timeout at any await; callers share the session's mutex |
| `HttpCalls` | `Ask`, `Respond`, `NoAnswer`, `Conflict`, `OtherStatus`, `DeclaredTooLong`, `Chunk`, `Breaks`, `BodyRead` | `client.rs`: a call and its body within the bound, the resync on 409, what a `NetSink` is told |
| `WireFormats` | `CutShort`, `RunsOn`, `Altered` | what may happen to a message's bytes; the encoders and decoders of `codec.rs` and `wire.rs` are functions |
| `NodeStatus` | `FollowPolls`, `BlockApplied`, `BlockCounted`, `BlockRow`, `BlockNoted`, `CheckpointTaken`, `AnswerTimed`, `ResponseCounted`, `ClientGone`, `ErrorCounted`, `ErrorClassed`, `ScrapeHead`, `ScrapeCounters`, `ScrapeRest` | each group of figures under its own lock; `/metrics` reads them one after the other |
| `Probe` | `StartBatch`, `NextTrial`, `TrialHead` to `TrialFinish`, `TrialStalls`, `TrialFails`, `Confirm`, ... | `probe.rs`: batches of trials, the rows, the confirmation by a provider after the deployment has moved on |
| `SnapshotAudit` | `Ingest`, `IngestRow`, `Serve`, `CheckAgreed`, `CheckWithoutQuorum`, `Report`, `WriteSidecar`, `ReplayBlock`, `SaveAgain`, `Killed`, `LoadState`, `Replaced` | ingest with its reservoir, the audit's tasks in any order, the sidecar a later start reads |
| `Startup` | `Launch`, `FeedVerified`, `StatePathAcquired`, `LoadWithJournal`, `LoadBase`, `IngestSnapshot`, `StartEmpty`, `RefusedStart`, ... | `main.rs` and `mainnet::spawn`: flags, refusals, the four sources of a table, saves, files of other versions |
| `Conformance` | `ConformBlock`, `CompareSample`, `Conclude` | the mock feed and the gate's categories and samples |
| `Geometry` | `SweepRow`, `SweepFails`, `SweepPrinted`, `FillCheckOne`, `FillChecked` | `geometry.rs`, and the two tools of `xtask` over it |
| `Bench` | `PlanRefused`, `RunBegins`, `BuildScale`, `ScalePanics`, `MeasureHeadline`, `MeasureCurve`, `MeasureAnswers`, `ScaleReported`, `RunEnds` | `bench.rs`: which scales are built, measured and replaced |
| `Report` | `ReadInputFile`, `ParseFile`, `RenderSection0`, `RenderSectionA` to `RenderSectionD`, ... | `report.rs`: what is read and refused, which rows a section is about, its sums and percentiles |

`MCParts` checks these, and `Reconcile` and the two modules before, in one run.

## Runs

`CHECK_DEADLOCK FALSE` is set throughout because the chain is bounded and the loop
and its clients may have nothing left to do.

| run | bounds | checks |
|---|---|---|
| `session` | 1 client, 1 account, 4 blocks, ring of 1, cache as old as the ring covers, 2 lineages, calls may fail | `NeverWrong`, `SessionOnOneLineage`, `NeverRewound`, `ImplementsService` under evictions and re-bootstraps in the middle of requests |
| `live` | 3 blocks, ring of 1, 2 lineages, complete and partial | `AlwaysAnswersAgain` |
| `node` | the node alone, 3 blocks, ring of 2, 1 account with 3 balances, credits, both modes, 2 lineages, rejected blocks, lossy restarts | `RingBridgesToHead`, `HintsMatchCells`, `NothingUnjournaled`, `PerBlockMatchesRing`, `TableMatchesChain` |
| `blocks` | the feed: 3 endpoints, the second of another chain, a window of 2, 3 blocks, 2 faults; the store: 3 accounts, 3 slots, 1 and 2 share fingerprint and slots, 2 and 3 the tag and a slot, blocks of two writes, balances overflow at 3 | `WindowBounded`, `AppliedIsTheChain`, `EveryBlockIsApplied`; `ScansAgree`, `ImplementsMap` |
| `loop` | hard refresh: 2 accounts, 3 balances (2 at the first block), 3 blocks, one correction per block, an honest provider and one that lies, wrong snapshots, complete mode; the files: one process after the other, 3 starts, 3 states served, 2 layouts of a block, failing calls, rejected blocks, directory synced or not | `CorrectionsAreTrue`, `FeedAlwaysWins`, `CorrectionsHeal`, `OvertakenCorrectionsAreDropped`; `StateFileIsWhole`, `RestoresToServed`, `NothingAcknowledgedLost`, `JournalKeepsUp` |
| `browser` | one tab, a bundle of 4 pieces in chunks of 2, one resume, a freshness window of 0, 3 blocks, ring of 1, 2 lineages, 3 faults, 2 addresses one after the other | `NeverSpliced`, `NeverMisdecoded`, `AlwaysLoadsAgain`, `LookupsSettle` |
| `parts` | one part per behavior, bounds in `MCParts_parts.cfg` | `DeferredIsNotSkipped`, `CheckpointsAreTrue`, `ReportIsTrue`, `StatusIsTrue`, `DecodedOrRefused`, `CallsAreTold`, `AuditIsTrue`, `RepliesAreTrue`, `GateIsTrue`, `PageIsHonest`, `DeploymentIsAsSaid`, `LookupsReadTheirOwn`, `FiguresAreTrue` |
| `lost_block` | restarts may lose a served block, 1 lineage | violates `NeverWrong` |
| `torn_save` | the files as in `loop`, without failing calls | violates `SavedIsOneHeight` |
| `unsynced_name` | the files as in `loop`, without failing calls and rejected blocks | violates `EveryReportIsKept` |
| `double_count` | overlapping lookups, a bundle of 3 pieces, no faults, ring of 2 | violates `NeverMisdecoded` |
| `numeric_selector` | 2 callers, one request each, 2 blocks | violates `NamedBlockIsAnswered` |

Type invariants are not repeated in the runs where they are proved.
The torn cells of a rejected block are served, so `RestoresToServed` counts them as
a served state; that they are also saved under a block's number is `torn_save`.
`NothingAcknowledgedLost` is about directories that can be synced, and about what was
reported while the names that lead to it were on disk; what is reported besides is
`unsynced_name`.

`blocks`, `loop` and `parts` are disjoint sums: the variable `part` says which of the
modules a behavior is about, and the variables of the others stay in one initial state.
No module has a variable of another and each property is about one of them, so the
reachable states are those of the modules' own specifications side by side. The sums
keep the number of TLC's runs to the number of distinct questions.

Why these bounds suffice for the question each run asks. In the runs of node and
clients there are two slots and each account may be placed in either, so an
insert can always move records; balances are 0 and 1, so accounts appear,
disappear and reappear. A ring of one or two blocks against a chain of three or
four is evicted, and refilled, during a request; two lineages are what a session
can confuse; a ring of two is what a coalesced range and a journal of several
records need (`node`), a ring of one against four blocks what a stalled
session with an older bundle in the cache needs (`session`). One account is enough
to go from absent to present to absent, and a third balance is there where a
credit to an untracked account must be told from its whole balance (`node`). The
code's divisor of the cache window is 8 with a ring of 300; `FreshDivisor` 1 is
the weakest divisor for which a bundle is still within the ring, so it is the
boundary case. What holds for every ring size, chain, table and number of clients
is proved (below).

For the follow loop, one correction per block makes a second one wait for a block, which
is what a queue longer than the cap does; three blocks are one before, one with and one
after a correction; with two balances only, a correction that was overtaken would always
be right again, so there are three, two of them at the first block (`FirstBalances`) and
all three in a wrong snapshot and after it; an honest provider and a liar are the least
quorum. Partial mode beside hard refresh is left to the theorems. A reservoir of one
address with two accounts is full at the first deferral, and is drained or asked again at
the next checkpoint. With four blocks, of at most two events each, there are four
checkpoints; the alarm at two blind ones in a row is raised over two deferred ones, two
whose fetches failed, and one of either kind, so each of its three wordings is reached.

For the feed, the wrong endpoint stands between two right ones, so a fall-back
passes over it; a window of two under a head that goes from three to less aborts
one fetch and keeps one. For the files, three states served are one saved, one
journaled and one on its way; three starts let a restart be interrupted and
restarted: the first process renames, the second adopts, and the third finds what a power
cut left. For the browser, four pieces in chunks of two leave a partial chunk to resume
from, or a last chunk that is full, after which there is nothing to ask for; with three
pieces, where the last chunk never is, `AlwaysLoadsAgain` holds without its exception.
A freshness window of 0 makes the server encode anew after each
block, in the middle of a download; three faults are a stall, a broken resume and
a refused write.

In `parts`: two callers, two lookups and two batches are what can overlap or
follow each other; the recent-change log holds two of three accounts; a body has
up to two chunks around its bound; the messages of `WireFormats` are of every kind
with up to two rows, and up to two things happen to each on its way; the mock
chain of `Conformance` inserts, deletes and changes accounts in every block; the
command lines of `Startup`, the sweeps of `Geometry`, the plans of `Bench` and the
campaigns of `Report` are lists in `MCParts` that include each refusal and each
boundary of a size. `WireFormats` is scaled down: three-bit bytes and a narrow
varint overflow where 8 and 64 bits would.

The accounts and the layouts in `loop` are symmetric, and the slots in `session` and
`node`; nothing else is. No run with a liveness property uses
symmetry, and `session` has only action properties and a refinement of safety.

### Fairness

`live`: the runtime keeps polling a request (`WF` of its steps), the clock passes
the cooldown, and a caller that keeps asking gets the FIFO session mutex although
the follower takes it too (`SF` of `Invoke`). The node's own steps are not fair.
Being told that a partial deployment does not track an account counts as an
answer. `AlwaysAnswersAgain` uses that a deployment is replaced finitely often and
that the chain is bounded; a client behind a ring that always evicts faster than
it asks has no such guarantee in the code either.

`blocks` (`FeedFairness`): the loop's own steps and every fetch are polled (`WF` of
`FetchNext`, `Await` and each `FetchStep`). No endpoint is owed a new block and no
poll is owed; a block is owed once the loop has taken its head.

`browser` (`BrowserSpec`): a load goes on and the visitor reloads a page that
failed (`WF` of a tab's steps), and the page's own timer ends a lookup that waits
(`WF` of `Accept` or `GiveUp`). No lookup is owed an answer. Faults are bounded,
and a load that has used up its resumes fails and is reloaded: that it ends at last
needs the network to hold once. Two assumptions are named in the configuration: one tab (`Tabs`),
and that wiping the database before a fresh download does not fail (`ClearsMayFail`); what happens
without them is in the next section.

## Disagreements with what the repository says

The first five are runs that TLC finds violated, with their lines under `findings`
in `PROJECT.json`.

* `lost_block`. A block is visible to clients before it is journaled. If the
  process dies in between (or the journal is broken or switched off), the node
  comes back below a block it served, with the same epoch, and applies it again;
  the store's random insert may lay it out differently. A session that had seen
  the first layout keeps syncing, decodes to noise, and on a complete deployment
  an account with a balance is answered 0. The documentation says a restart from
  state keeps previously bootstrapped clients valid, and that broken journaling
  costs durability, "never a wrong answer".
* `torn_save`. After a block was rejected half-applied the loop has returned, but
  the process goes on and saves at shutdown (`main.rs:186`): cells of no block, under
  the last good block's number and hints, over the last good file. The next start
  loads it without complaint.
* `unsynced_name`. A process is killed after it renamed a fresh journal into place and
  before it synced the directory (`journal.rs:552`). The next one adopts that journal and
  syncs no directory (`journal.rs:580`); it appends, syncs the file and returns. A power
  cut brings back the old entry, and what was appended is reachable under no name. The
  doc of `append` (`journal.rs:601`) and `docs/deploy.md:415` say that a record it
  returned from is on disk. The window is as long as the file system leaves a directory
  unwritten. What restores is still a state that was served (`RestoresToServed`).
* `double_count`. Two lookups of one page overlap (a suggestion submits the form
  though its button is disabled) and fetch overlapping deltas; `ingest` looks at
  where a delta ends, not where it starts, and counts the shared blocks twice.
* `numeric_selector`. A numeric block selector is compared with the head before the
  lookup, during which blocks are applied (`rpc.rs:255`): the balance returned is of a
  later block than the one named. The doc (`rpc.rs:279`) says that a number other than
  the head is never treated as "close enough".

The following were met while modelling and have no run of their own; where a
property is about them, it is stated so as to leave exactly them out.

*Node and follow loop*

* A refused block leaves a prefix of its updates in the cells (`server.rs:390`), and
  the module documentation says that serving continues at the last good block; the
  cells served are not those of that block. `AnswersAreRight` is about the lineages
  without one.
* The check of one account by hard refresh reads the providers' balances at the
  run's height and the stored balance at its end (`hard_refresh.rs:655`). A block in
  between makes the store right and the correction's baseline wrong, and the
  staleness filter passes it.
* The staleness filter compares with the baseline only (`hard_refresh.rs:556`). A
  chain that brings an account back to it (one that the snapshot lacks and that is
  then emptied) makes an overtaken correction valid again:
  `OvertakenCorrectionsAreDropped` excludes the account that holds its baseline.
* On a partial deployment the credit filter (`mainnet.rs:1574`) runs before the
  block's corrections are put in (`mainnet.rs:1638`): an untracked account loses
  the block's credit and becomes tracked in the same block. `CorrectionsHeal` is
  about complete deployments.
* A checkpoint all of whose fetches failed does not queue its candidates
  (`mainnet.rs:2336`); two comments say that it does. `DeferredIsNotSkipped` is about
  what was queued.
* On a partial deployment an address waits in the reservoir while its account is
  emptied and then credited (`mainnet.rs:2356`); the credit is rightly dropped, the
  comparison finds 0 against it, and the loop stops for good. `CheckpointsAreTrue`
  excludes such an account.
* One failed checkpoint at the end of a streak of deferred ones resets the count of
  deferred ones (`node.rs:572`), and the alarm then says that every one of them
  asked the provider (`mainnet.rs:2196`). `CheckpointsAreTrue` is about the other two
  wordings, which blame the catch-up alone and the catch-up and the provider.
* After a halt the published lag stays at what it last was, and the page goes on
  showing it.

*Files and start*

* The advisory lock on the state path is released when `spawn` returns
  (`mainnet.rs:578`) while the saver goes on writing. With two processes
  (`Processes` = {1, 2}) `StateFileIsWhole` is violated, as both write the one
  staging file.
* The sidecar of an earlier deployment's audit is reported as this one's until the
  fresh audit ends (`mainnet.rs:1143`).

*Browser*

* A lookup that gives up on a silent `/answer` leaves its query in flight in the
  session, so the retry the page offers fails with `QueryAlreadyInFlight` until the
  page is loaded again; so does an answer behind the session's delta. The comment in
  `pir.js` (lines 64 to 69) promises the retry. `LookupsSettle` promises an end only.
* With two tabs (`Tabs` = {1, 2}) that load at once, one wipes and writes the chunks
  that the other counts on, and `NeverSpliced` is violated, against the comment near
  `pir.js:178`. With `ClearsMayFail` and five faults one tab suffices.
* A bundle whose length is a multiple of the chunk's that was cut off after its last
  byte and before its meta record said complete (`pir.js:773`) is resumed with a range
  that starts at its end, which the server refuses with 416, at every reload until the
  server encodes another bundle. Run `browser` has such a bundle (`Total` 4, `ChunkLen`
  2): `AlwaysLoadsAgain` names this state as its one exception (`NothingLeftToAskFor`)
  and is violated without it.
* The entity tag of `/setup` names lineage and block only. After a lost block the
  same name may stand for two layouts, and a download would be resumed across them;
  `SetupDownload` has no lost blocks.

*Tools*

* The benchmark panics when its middle scale is the largest one and that was replaced
  by a smaller one (`bench.rs:669`). An assertion calls that impossible. `FiguresAreTrue`
  is about the figures that are printed; it does not say that the benchmark gets so far.

The passing runs and the theorems draw the line on the other side.
`AnswersAreRight` shows that lost and torn blocks are the only two ways for a client
to be answered wrongly: on a lineage to which neither happened every answer is
right. `OvertakenAreDropped` shows that the staleness filter fails only when the
account is back at the correction's baseline; `FollowingStaysRight`, that without
hard refresh the loop is right in both modes; `CheckpointsAreTrue`, that only an
account which a partial deployment does not track can stop a right one; run
`browser`, that one lookup at a time in one tab is never spliced or misdecoded;
`AcknowledgedIsDurable`, that a reported save or append is lost only where a name that
leads to it was never synced; `LookupsAlwaysReadTheirOwn`, that what else overlapping
lookups share they share without harm, the doubly counted delta apart.

## Proofs

Checked by TLAPS for every value of the constants that satisfies the named
assumptions of each module: any accounts, slots, candidates and collisions, any
ring capacity and cache divisor, any bounds on chain and epochs, any number of
clients, providers and endpoints, any depth of the window, any capacity of the
reservoir, any number of starts, faults and layouts, any length of bundle and chunk.
Where a theorem needs more than its module's assumptions, the table says what.

| theorem | statement |
|---|---|
| `RingAlwaysBridges` | `NodeSpec => []RingBridgesToHead` |
| `HintsAlwaysMatchCells` | `NodeSpec => []HintsMatchCells` |
| `TableAlwaysMatchesChain` | `NodeSpec => []TableMatchesChain` |
| `NeverUnjournaled` | `NodeSpec => []NothingUnjournaled` |
| `HistoriesAlwaysAgree` | `NodeSpec => []PerBlockMatchesRing` |
| `TypeCorrect` | `Spec => []TypeOK` |
| `SessionsAreConsistent` | `Spec => []SessionOnOneLineage` |
| `SessionsAreNeverRewound` | `Spec => NeverRewound` |
| `AnswersAreRight` | `Spec => []NeverWrongUndamaged` |
| `AnswersAreNeverWrong` | with `BlocksMayFail` and `RestartsMayLose` false, `Spec => []NeverWrong` |
| `ServiceIsImplemented` | with both false, `Spec => ImplementsService`: node and clients refine `BalanceService` |
| `StoreTypeCorrect`, `ScansAlwaysAgree` | `StoreSpec => []StoreTypeOK`, `[]ScansAgree` |
| `StoreIsAMap` | `StoreSpec => ImplementsMap`: the store refines `BalanceMap` |
| `FollowTypeCorrect`, `CorrectionsAreAlwaysTrue` | `RefreshSpec => []FollowTypeOK`, `[]CorrectionsAreTrue` |
| `FeedWins`, `RefreshHeals`, `OvertakenAreDropped` | `RefreshSpec => FeedAlwaysWins`, `CorrectionsHeal`, `OvertakenCorrectionsAreDropped` |
| `FollowingStaysRight` | with an exact snapshot and nothing listed, `RefreshSpec => []StaysRight` |
| `CheckpointsAreAlwaysTrue`, `DeferredIsNeverSkipped` | `ReconcileSpec => []CheckpointsAreTrue`, `[]DeferredIsNotSkipped` |
| `WindowAlwaysBounded`, `AppliedIsAlwaysTheChain` | `FeedSpec => []WindowBounded`, `[]AppliedIsTheChain` |
| `RepliesAreAlwaysTrue` | `RpcSpec => []RepliesAreTrue` |
| `LookupsAlwaysReadTheirOwn`, `PageIsAlwaysHonest` | `AbiSpec => []LookupsReadTheirOwn`, `PageSpec => []PageIsHonest` |
| `CallsAreAlwaysTold` | `CallsSpec => []CallsAreTold` |
| `AuditIsAlwaysTrue` | `SnapshotSpec => []AuditIsTrue` |
| `DeploymentsAreAlwaysAsSaid` | `StartupSpec => []DeploymentIsAsSaid` |
| `ReportsAreAlwaysTrue` | `ProbeSpec => []ReportIsTrue` |
| `StatusIsAlwaysTrue` | `StatusSpec => []StatusIsTrue` |
| `GateIsAlwaysTrue` | `ConformanceSpec => []GateIsTrue` |
| `StateFileAlwaysWhole`, `AlwaysRestoresToServed` | with one process on the path (`Processes = {p}`), `FilesSpec => []StateFileIsWhole`, `[]RestoresToServed` |
| `AcknowledgedIsDurable`, `JournalAlwaysKeepsUp` | with one process, `FilesSpec => []NothingAcknowledgedLost`, `[]JournalKeepsUp` |
| `LookupsAreNeverGarbage` | with `Overlap` false, `BrowserSpec => []NeverMisdecoded` |
| `BundlesAreNeverSpliced` | with one tab (`Tabs = {t}`) and `ClearsMayFail` false, `BrowserSpec => []NeverSpliced` |

The argument for the node and its clients. None of these is inductive. A
session is only right because the deltas it was given were computed along the history of its own lineage, and the
ring it gets them from may have been rebuilt from a journal after a restart. So
the inductive invariant of the node (`NodeInv`) says of each place that holds
deltas what it leads from and to:

* `ArchiveOK`: the archive has one state per block of an undamaged lineage, and
  that state stores the chain's balances;
* `HeadOK`: the hints' state is archived under the head, and is the cells' state;
* `RingOK`: the ring is a *run*: consecutive blocks whose deltas lead from one
  archived state to the next and end in the hints' state at the head;
* `CacheOK`: a cached bundle is an archived state of this lineage;
* `DiskOK`: the saved state is archived and the journal is a run from it, ending
  at the head, or one block before it while the newest is pending.

A bundle of lemmas on coalescing (`CoalescedBridges`, `SyncBridges`,
`PathExtended`, `PathSuffix`, `PushedPath`) shows that the sum of a contiguous
range is the difference of its end states, that evicting the oldest delta and
retaining the newest keep a run a run, and that `/sync`'s conditions imply its
range is one. The composition's invariant (`Inv`) adds for each client that its
pinned hint plus its delta is an archived state of its lineage at its head
(`SessionOK`), that a pending response is the cells of that lineage at its label
(`ResponseOK`), and that a reply is right (`OutcomeOK`). A response and a
session at the same block of the same lineage are then the same state, which is
why the check `at_block == pending_head` suffices (`DecodedIsRight`).

Sums over a range are followed block by block with the least-number principle
(`LeastNat`): the library's induction theorems take an operator, which the
installed provers cannot instantiate, but a set of counterexamples has a least
element, and that is enough.

That the per-block history agrees with the ring (`HistoriesAlwaysAgree`) follows from
both being numbered without gaps: the delta at a position of either is that of one
block, and pruning removes from each what eviction removes from the other.

`SessionsAreNeverRewound` needs one invariant more (`RewindInv`), because a bundle is
taken from a cache that lags. A cached bundle either lies within the ring or the
ring is full (`CacheRing`); what a request has read of an undamaged node is not ahead
of it (`AheadOK`); and so a session that `/sync` refused for its age is older than any
bundle the cache may still hand out (`RefusedIsOlder`). A stall for
any other reason is on an older lineage than the node's, which a fresh bundle replaces
by a newer one.

`ServiceIsImplemented` assumes that no block is rejected half-applied and no restart
loses one, the two cases that `lost_block` and the list above show to break the
promise. `Inv` gives the rest: each step of the composition is `Serve`, `Ask`, `Answer`,
`Fail` or `Forget` of `BalanceService`, or changes nothing callers see (`Invisible`),
and an answer is fresh because a request's floor is not above the block it was
answered at.

For the store, the invariant (`Sound`) says that every record lies in a
candidate slot of its account and that no account has two. The assumption on 64-bit
collisions then makes `Tagged` the account's own slot or nothing, so the scans agree,
a write changes one account's lookup, and a shadowed entry is refused rather than
overwritten. Each step maps to a step of `BalanceMap` or a stutter.

For a store that starts from an export, the invariant (`AuditInv`) says of the replay
(`Replayed`) that an account a block has written is right, and any other is as far from
the chain's balance as the export's row was from the balance where the replay began:
that difference is zero, the row's own error, or the credits the export had already, the
three cases of `RewindHeals`. `TruthAt` is a fold over the chain; `FoldIsTheLoop` makes it
the balance of the block before and one block more. For the audit (`Checking`), the
reservoir holds each row at most once however the dice fall (`SampleIs`), so rows told,
being checked and still to do are disjoint, and the counters are the sizes of what was told; a line
(`LineFor`) is of an earlier start or was written when its own start's checks were over,
which lets a restart trust a sidecar that it did not write. The chain is assumed to have
reached the declared block and to hold numbers (`ChainAssumption`).

For hard refresh, the invariant adds to the types that every correction in the
queue is the chain's balance at the run's height: a quorum contains the honest
provider's answer (`AgreedIsTrue`). The three action properties follow from the
definition of `Applied` and from the chain's own rule that a block leaves the
accounts it does not touch alone (`ChainOK`). `FollowingStaysRight` needs that the
queue is empty and, in partial mode, that an untracked account is one the filter
drops the credits of (`UncorrectedStaysRight`).

For the feed, the invariant says that the fetches in flight are of blocks after the
last one, no further than the depth and none above the head, and the awaited block is
the next one and among them (`WindowBounded`); and that a fetch is done only at an endpoint that is verified and has the block
(`FetchesOK`). Awaiting passes a fetch of the awaited block on to `source`, so what is
applied is of the right chain (`AppliedIsTheChain`).

For the reconcile checkpoint, the invariant says that the loop that goes on has in its
reservoir every account it still owes a comparison (`QueueOK`), and that the two
counters of the health record are the length of the streak of checkpoints without a
comparison and of its deferred end (`HealthOK`). The delicate step is a checkpoint whose
fetches failed: it puts back what it had taken out, up to the reservoir's capacity.
Nothing is lost, because what was drained left the room it is put back into. A halt
is justified by the step that halts, which compares at the block the store stands at, and
stays so because nothing is applied any more while the chain goes on
(`HaltIsJustified` is in the invariant itself).

For the JSON-RPC front end, the invariant (`RpcInv`) says of a request at each stage how
the head when it was posted, the block it named and the block the session stood at when
the mutex was taken follow each other; a reply is the balance at a block that is not before
the one named. That it is the one named is false (`numeric_selector`).

For the wasm module, the invariant (`AbiInv`) says that of all lookups at most one waits on
an answer, and that the query the session has in flight is that one's: its secret is the
one of the reply and its address the one asked for (`Asked`). Any other lookup that runs
in between ends at the module's refusal of a second query; but it has ingested its delta
before, and where that overlaps one already in the sum, the invariant keeps only that the
sum has a block twice, and whether the account is there is no longer claimed. The rest is about one call at a
time: each export begins with `ClearErr`, so the error the page reads is that of the call
it made, and none touches more of the module than it says (`Stays`).

For the page, `PageInv` relates what is shown to what runs. Its delicate part is the form
(`FormTrue`): lookups overlap and end in any order and in any way, and no order and no way
may leave the button dead or the box querying with none of them running.

For a native client's calls, the figures a sink reports are a fold over all calls that
ended. `FoldIsTheLoop` of `NaturalLemmas` says what `FoldLeft` computes, namely the last of
the values it passes through, one per element; so one more call adds to the
figures what `Tallied` says and nothing else (`FiguresAppend`).

For the start, the invariant (`StartInv`) says of the file on disk that its number is that
of a save of this deployment or none at all, and that a journal of that number goes on
from it; a file another version wrote has no number here and, where this binary reads it,
the layout and flag this binary gives them (`ForeignAssumption`). The interval is that of
the last flag for any order and repetition of flags: the parse is a fold as well,
and what it has made of the flags so far depends on the last two that matter
(`SetSoFar`). This proof found a flaw in an earlier form of the model, where
an exit of the parser and the flag after it were two cases that both applied.

For the probe, the invariant (`ProbeInv`) says that the block rows written and the fetches
of the trial that runs are one chain that ends where the session stands (`Kept`), and that
each sum of the summary is that of its parts (`Counted`). A fresh bundle is the only
step that may leave a hole, and it is recorded as a place to start from; a batch that ends
turns the fetches of its trials into rows, which moves the border between the two and not
the chain.

For the node's figures, the invariant (`StatusInv`) says what each piece of a page, once
read, goes with: the head with the blocks counted, but for the one between `head` and its
counter; the errors with their classes, but for the one between the two locks
(`CountersAgree`, `PageAgrees`). The latency histogram is a fold over the buckets:
`QuantileIs` shows that the bucket it stops at is the first with the rank wanted. An account
that `/recent` lists is ordered by when it was last touched, and one that it does not list
was touched before all of them; noting one more account, which removes it where it stood
and drops the oldest, keeps that for a single account and so, along the fold over a
block's changes, for a block (`RecentIs`). Rows of the CSV add up to no more than the
count that the last one was taken at (`RowsAgree`).

For the gate, the delicate fact is about the mock chain: a block that deletes an account
changes it in no other place, and any other change is of a live account or one it mints
(`Lawful`). So, whatever order the harness takes the changes in, it knows every account that
is live, lists what came and what went once each, and what it lists as gone is empty
(`RecordsAgree`; along the loop over a block's changes, `BlockRecorded`). The accounts
that the categories stand for are then disjoint (`CategoriesApart`), a sample drawn from
them has no account twice (`SampleIsFair`), and as the server holds the chain's balances
a mismatch is a wrong answer (`MismatchesAreWrong`).

The loops in these proofs (over a block's changes, a histogram's buckets, a list of
candidates) are folds. `LoopedWithin` of `NaturalLemmas` is what replaces induction: if a round
takes each value that one set allows to one that the next set allows, the loop
ends in the last set. The sets carry the invariant of the loop.

For state file and journal, the invariant (`FilesInv`) is about images: what the kernel
holds, what is durable, and every combination of them that a power cut may leave.
`JournalOK` says that each journal, in memory and durable, is a chain from its base, each
delta computed from the state before it, and only the last item torn; replay finds all
but that one, because the block numbers of a chain have no gaps. Such a chain leads to a
served state wherever a fault cuts it, and a journal of another base than the state file's is
left out by the loader: that is all `RestoresToServed` needs. `SaverOK` says what the
holder of the mutex has done so far, in particular that the state renamed into place is
the one that was staged; `JournalingOK`, that the files lead to what the process goes on
from, but for the block that is being appended; `AckedOK`, that the state in `kept`, the last
one acknowledged while the names that lead to it were durable, is a prefix of what every
image reaches. An acknowledged append to a journal whose name is not durable leaves `kept`
alone (`AppendSynced`), and a start makes nothing durable (`Start`). All this is about one process on the path.
With two it is false, and the code does not prevent two (see the list above).

For a page's lookups, the invariant (`SessionInv`) says that the session's delta has each
block from the bundle's to its head once and none of another lineage (`DeltaOK`), that the deltas a
lookup asked for start at that very head, that the query in flight is the running
lookup's, and that at most one lookup of a tab runs. The last is the hypothesis: with
overlapping lookups the second conjunct is lost, which is what `double_count` shows.
Bootstraps, evictions and other tabs are harmless.

For the download, the invariant (`PiecesInv`) says that everything a tab has in hand while it
asks, receives and writes, and every chunk of the entry it fills, is of the bundle it has
the entity tag of, and that an entry that names a bundle has no piece of another. The
steps that could break it are the ones that join two sources: a resume from the database (the tag
is the entry's), a 206 (`If-Range` names the tag), and a 200, after which neither the tab
nor the database may keep anything. The last is where the hypotheses come in: a wipe that fails, or
another tab that writes in between, leaves chunks under a name that is not theirs. That
what `FlattenSeq` makes of such chunks is of one bundle is shown along its recursive
function.

Only model-checked are the liveness properties (`AlwaysAnswersAgain`,
`EveryBlockIsApplied`, `AlwaysLoadsAgain`, `LookupsSettle`), as fairness and `ENABLED` are
out of the prover's reach, and two parts of `MCParts`:

* `DecodedOrRefused`: what a decoder returns is recursion over the bytes, through readers
  that take a reader as an argument. A lemma about such a reader, and the library's
  induction theorems, have an operator as a parameter, which none of the installed
  provers can instantiate; and `SumSeq`, which the decoders use, is a RECURSIVE operator;
* `FiguresAreTrue`: `Report` and `Bench` choose and order their samples with `SelectSeq` and
  `SortSeq`, which take an operator too, and for which the library has no theorems.

Recursion that the other proofs need in passing (`InsertMany`, `FlattenSeq`, `RemoveFirst`,
folds) is followed with the bounded induction of `NaturalLemmas`. For the same reasons
three operators of `Conformance` are written for the provers and not in the shortest form:
a filter is a fold (`Filtered`), a sorted list of accounts is given by how many accounts
are ahead of each (`Ranked`), and the updates of one block are an operator of three
arguments (`EmittedBlock`), because a set comprehension with several bounds is opaque
to the provers unless what it collects is an operator.

## What is not modelled, and what is left

Not modelled:

* the demo (a wiring of the mock feed), the fuzz harnesses, the deployment files and
  the static site: they keep no state of the system's;
* the client, probe and mock sub-commands of `main.rs`, which wire parts that are
  modelled; listeners, signals and logging as such;
* `time_setup` and the allocation tracker: one timed pass over a loaded file, and a
  counter in the allocator;
* layout, address book and charts of the web pages;
* keccak and the bit packing of values; the arithmetic of LWE (by when it decodes);
  the insides of the cuckoo and PIR crates, which are not in the repository;
* retries inside one HTTP call (a call returns or fails); the bytes of the state file
  and the journal (by the verdict of their digests).

What is left to do, in this order:

1. what `changes_from_trace` makes of the traces of a block, against a reference
   definition (`PirNode` and `FollowLoop` take the contract of a block update);
2. hard refresh and reconcile over one loop: whether a correction that is wrong is
   caught, and whether a right one can stop the loop;
3. lemmas on `SelectSeq` and `SortSeq`, and with them a proof of `FiguresAreTrue` of `Report`;
4. `StateFiles` shown to implement `PirNode`'s `SaveState`, `AppendDelta` and `Restart`.
