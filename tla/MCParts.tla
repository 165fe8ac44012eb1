------------------------------- MODULE MCParts -------------------------------
(* Small instances of the parts that share no state with each other, for   *)
(* TLC, in one run: a behavior is about one of them, `part`, while all the *)
(* others stay in one initial state. As no part has a variable of another, *)
(* and each property is about one part, the states of the run are those of *)
(* the parts' specifications, one after the other.                         *)
EXTENDS Reconcile, Probe, NodeStatus, WireFormats, HttpCalls, SnapshotAudit, JsonRpc,
        Conformance, WebPage, Startup, Report, WasmAbi

CONSTANT MaxEvents  \* bound on the changes and credits of the checkpoints' chain

VARIABLE part

-----------------------------------------------------------------------------
(* Messages of each kind, deltas with their rows and cells in any order.   *)

Cell(offset, delta) == [index |-> offset, delta |-> delta]
Row(row, cells) == [index |-> row, cells |-> cells]
Param(dim, bits, width) == [lwe_dim |-> dim, bits |-> bits, width |-> width]

RecentMessage == [kind |-> "recent", addrs |-> <<3, 1>>]

TheMessages ==
    {[kind |-> "delta", block |-> 1,
      segments |-> << <<Row(3, <<Cell(1, 1), Cell(0, -1)>>), Row(0, <<Cell(1, 1)>>)>>, <<>> >>],
     [kind |-> "delta", block |-> 2, segments |-> << <<>>, <<Row(2, <<Cell(0, 1)>>)>> >>],
     [kind |-> "query", arrays |-> << <<1, 2>>, <<3, 7>> >>],
     [kind |-> "response", block |-> 5, arrays |-> << <<1>>, <<3>> >>],
     [kind |-> "setup", block |-> 5, params |-> <<Param(2, 1, 1), Param(1, 4, 1)>>,
      arrays |-> << <<1, 5>>, <<3>> >>],
     RecentMessage}

(* A block changes accounts 1 and 2 and credits 1 and 3.                   *)
TheLists == {<<1, 2, 1, 3>>}

(* Chains that write and credit accounts before, at and after block 2.     *)
Nothing == [a \in {} |-> 0]
TheRows == <<"a", "b", "c">>
BlockOf(writes, credits) == [written |-> writes, credited |-> credits]
TheWorlds ==
    {[genesis |-> [a |-> 2, b |-> 1, c |-> 0],
      blocks |-> <<BlockOf([a |-> 3], Nothing), BlockOf([b |-> 4], [a |-> 1]),
                   BlockOf([a |-> 6], [c |-> 1])>>],
     [genesis |-> [a |-> 0, b |-> 1, c |-> 2],
      blocks |-> <<BlockOf([b |-> 0, a |-> 5], [b |-> 2]), BlockOf([a |-> 0], Nothing),
                   BlockOf([b |-> 1], Nothing)>>]}

(* No probe; memory too small, enough, saving data; a phone; a desktop.    *)
Visit(hint, memory, coarse, saves) ==
    [hint |-> hint, memory |-> memory, coarsePointer |-> coarse, smallViewport |-> FALSE,
     saveData |-> saves]
TheDevices ==
    {Visit(0, 0, TRUE, TRUE), Visit(6, 2, FALSE, FALSE), Visit(6, 8, FALSE, FALSE),
     Visit(6, 8, FALSE, TRUE), Visit(6, 0, TRUE, FALSE), Visit(6, 0, FALSE, FALSE)}

(* A start from a snapshot, from nothing, without the journal, and lines   *)
(* that are refused.                                                       *)
Flag(name, value) == [name |-> name, value |-> value]
On(name) == Flag(name, 0)
File == Flag("--state", "bin")
TheLines ==
    {<<File, On("--snapshot"), Flag("--snapshot-block", 1), On("--partial")>>,
     <<On("--partial"), File, Flag("--feed-url", "own")>>,
     <<File, On("--no-journal-restore"), On("--snapshot"), Flag("--snapshot-block", 1)>>,
     <<On("--no-journal-restore"), File, Flag("--save-interval", 0), On("--journal-restore")>>,
     <<On("--partial"), Flag("--state", "journal")>>,
     <<File, On("--partial"), On("--hard-refresh"), Flag("--refresh-url", "x"), Flag("--refresh-url", "x")>>,
     <<On("--snapshot"), Flag("--prefetch", 2)>>, <<Flag("--prefetch", 0)>>, <<On("--help")>>,
     <<On("--bogus")>>}

(* Intact files of another hash, or of another geometry.                   *)
OldTable == [from |-> "snapshot", current |-> FALSE]
OldFile(magic, geometry) ==
    [Written(TRUE, OldTable, 1, -1) EXCEPT !.saved.magic = magic, !.found.magic = magic,
                                          !.saved.geometry = geometry, !.found.geometry = geometry]
TheOldFiles == {OldFile("RPST2", TRUE), OldFile("RPST2", FALSE), OldFile("RPST3", FALSE)}

(* Shapes the store can be filled in, shapes nobody built, and arguments   *)
(* for which there is no table.                                            *)
TheBits(rows) == IF rows < 4 THEN 10 ELSE 9
TheLoads == [arity \in 2..4 |-> CASE arity = 2 -> <<48, 83, 88, 91>>
                                  [] arity = 3 -> <<86, 92, 94, 94>>
                                  [] OTHER     -> <<90, 94, 95, 95>>]
Sweeping(accounts, arities, bucket_sizes, fingerprint_bits, fill) ==
    [accounts |-> accounts, arities |-> arities, bucket_sizes |-> bucket_sizes,
     fingerprint_bits |-> fingerprint_bits, fill |-> fill]
TheSweeps ==
    {Sweeping(n, <<2, 3, 4>>, <<1, 2, 3, 4, 7>>, 2, n % 5 = 0) : n \in 0..60} \cup
    {Sweeping(5, <<1, 2>>, <<4>>, 2, FALSE), Sweeping(5, <<2>>, <<0>>, 2, FALSE),
     Sweeping(5, <<2>>, <<4>>, 0, FALSE)}
Shape(arity, bucket_size) == [arity |-> arity, bucket_size |-> bucket_size]
TheShapes == <<Shape(2, 4), Shape(3, 4), Shape(2, 1)>>

(* Scales absent, one, repeated, out of order, and too large for a table.  *)
TheScales == <<4, 16, 40>>
ThePlans ==
    [scales : {<<>>, <<4>>, <<16, 4>>, <<2, 40>>, <<3, 16, 40>>, <<16, 16>>, <<500>>, <<4, 500>>,
               <<4, 4, 16>>},
     mid : {0, 4, 16, 40}]
TheChanges == <<3, 1, 2>>

(* Campaigns without a file, with a file that does not fit, without a      *)
(* trial, and with trials that failed, disagreed, took longer than their   *)
(* parts or less, and began at most 1000 blocks behind.                    *)
Trial(n, total, parts, stale, error, match) ==
    [trial |-> n, total |-> total, parts |-> parts, stale |-> stale, error |-> error,
     match |-> match, compute |-> IF n = 2 THEN -1 ELSE 5, handler |-> 6, pinned |-> 7,
     query_bytes |-> 64, response_bytes |-> IF n = 4 THEN 65 ELSE 64,
     block |-> 7 + stale + (n % 2), attempts |-> 1 + (n % 2),
     rss |-> IF n = 3 THEN -1 ELSE 9]
ATrial(i, total, stale) == Trial(i, total, <<2, 1, 1, 3, 0, 2>>, stale, 0, "1")
FetchRow(block, n) == [block |-> block, blocks_in_fetch |-> n, bytes |-> 3 * n, ingest |-> n]
ServedBlock(block, answers) ==
    [block |-> block, answers |-> answers, changes |-> 3, apply |-> 4 + answers, bytes |-> 3]

Line(row) == [fields |-> 3, legible |-> TRUE, row |-> row]
CsvOf(rows) == [given |-> TRUE, there |-> TRUE, columns |-> 3, missing |-> FALSE,
                lines |-> [i \in DOMAIN rows |-> Line(rows[i])]]
Object(content) == [given |-> TRUE, there |-> TRUE, legible |-> TRUE, content |-> content]
Withheld == [given |-> FALSE]

Campaign(trials, write) ==
    [write |-> write,
     files |-> [trials |-> CsvOf(trials),
                client_blocks |-> CsvOf(<<FetchRow(2, 1), FetchRow(4, 2), FetchRow(5, 1)>>),
                server_blocks |-> CsvOf(<<ServedBlock(1, -1), ServedBlock(2, 0), ServedBlock(3, 2), ServedBlock(4, 0)>>),
                setup |-> Object([arity |-> 2, buckets |-> 8, bucket_size |-> 4, plaintext_bits |-> 9,
                                  cells_bytes |-> 256, hint_bytes |-> 96, lwe_dim |-> 4,
                                  hints_match |-> TRUE]),
                setup_download |-> Withheld,
                provenance |-> Object("as given")]]
SomeTrials == <<ATrial(1, 9, 0), ATrial(2, 12, 99), ATrial(3, 20, 100)>>
Sound == Campaign(SomeTrials, TRUE)

TheCampaigns ==
    {Campaign(trials, FALSE) :
        trials \in {<<>>, SomeTrials, <<Trial(1, 9, <<2, 1, 1, 3, 0, 2>>, -1, 2, "")>>} \cup
            {<<ATrial(1, t, s), Trial(2, u, <<4, 1, 1, 3, 0, 2>>, 900, 0, m), ATrial(3, 30, 299),
               Trial(4, 9, <<2, 1, 1, 3, 0, 2>>, 600, e, m), Trial(5, 0, <<0, 0, 0, 0, 0, 0>>, 1, f, ""),
               Trial(6, 0, <<0, 0, 0, 0, 0, 0>>, 1, 3, "")>> :
               t \in {9, 40}, u \in {9, 11}, s \in {300, 1000}, e \in {0, 1, 3}, f \in 1..2,
               m \in {"1", "0", ""}}} \cup
    {Sound, [Sound EXCEPT !.files.setup_download = Object("a download")],
     [Sound EXCEPT !.files.trials.given = FALSE], [Sound EXCEPT !.files.setup.there = FALSE],
     [Sound EXCEPT !.files.provenance.legible = FALSE],
     [Sound EXCEPT !.files.client_blocks.columns = 0],
     [Sound EXCEPT !.files.server_blocks.missing = TRUE],
     [Sound EXCEPT !.files.trials.lines[2].fields = 4],
     [Sound EXCEPT !.files.server_blocks.lines[1].legible = FALSE]}

-----------------------------------------------------------------------------

vars == <<part, reconcileVars, probeVars, statusVars, wireVars, callVars, snapshotVars, rpcVars,
          conformanceVars, pageVars, startupVars, sweep, bench, report, abiVars>>

(* The changes and credits of all the blocks that a checkpoint may be of.  *)
Events(accountsOf(_)) == {<<n, a>> \in (1 .. Len(chain)) \X Accounts : a \in accountsOf(n)}
FewEvents == Cardinality(Events(Changed)) + Cardinality(Events(Credited)) <= MaxEvents

(* A part that the behavior is not about starts in one state only.         *)
Fixed(name, restriction) == part = name \/ restriction

Init ==
    /\ part \in {"reconcile", "probe", "status", "wire", "calls", "snapshot", "rpc", "conformance",
                 "page", "startup", "geometry", "bench", "report", "abi"}
    /\ ReconcileInit
    /\ Fixed("reconcile", complete /\ store = Ledger(1) /\ store = [a \in Accounts |-> 0])
    /\ ProbeInit /\ StatusInit /\ CallsInit
    /\ WireInit /\ Fixed("wire", sent = RecentMessage)
    /\ SnapshotInit
    /\ Fixed("snapshot", world.genesis["a"] = 2 /\ export = Exported(1, {}))
    /\ RpcInit /\ Fixed("rpc", pir.partial /\ ~upstream.configured)
    /\ ConformanceInit
    /\ Fixed("conformance", \A i \in GenesisIds : mock.balances[i] = 1)
    /\ PageInit /\ Fixed("page", device.hint = 0)
    /\ StartupInit /\ Fixed("startup", ~disk.file.present)
    /\ GeometryInit /\ Fixed("geometry", sweep.args.bucket_sizes = <<0>>)
    /\ BenchInit /\ Fixed("bench", bench.plan = Planned(<<>>, 0))
    /\ ReportInit /\ Fixed("report", report.campaign = Sound)
    /\ AbiInit /\ Fixed("abi", peer.complete)

Resting(name, v) == IF part = name THEN TRUE ELSE UNCHANGED v

Next ==
    /\ UNCHANGED part
    /\ \/ part = "reconcile"   /\ ReconcileNext /\ FewEvents'
       \/ part = "probe"       /\ ProbeNext
       \/ part = "status"      /\ StatusNext
       \/ part = "wire"        /\ WireNext
       \/ part = "calls"       /\ CallsNext
       \/ part = "snapshot"    /\ SnapshotNext
       \/ part = "rpc"         /\ RpcNext
       \/ part = "conformance" /\ ConformanceNext
       \/ part = "page"        /\ PageNext
       \/ part = "startup"     /\ StartupNext
       \/ part = "geometry"    /\ GeometryNext
       \/ part = "bench"       /\ BenchNext
       \/ part = "report"      /\ ReportNext
       \/ part = "abi"         /\ AbiNext
    /\ Resting("reconcile", reconcileVars)
    /\ Resting("probe", probeVars)
    /\ Resting("status", statusVars)
    /\ Resting("wire", wireVars)
    /\ Resting("calls", callVars)
    /\ Resting("snapshot", snapshotVars)
    /\ Resting("rpc", rpcVars)
    /\ Resting("conformance", conformanceVars)
    /\ Resting("page", pageVars)
    /\ Resting("startup", startupVars)
    /\ Resting("geometry", sweep)
    /\ Resting("bench", bench)
    /\ Resting("report", report)
    /\ Resting("abi", abiVars)

Spec == Init /\ [][Next]_vars
=============================================================================
