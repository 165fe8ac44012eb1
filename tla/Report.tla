------------------------------- MODULE Report -------------------------------
(* The report of a measurement campaign: the files the probe and the node  *)
(* wrote are read and parsed, and one bad line refuses them all; then each *)
(* section of the report selects the rows it is about and sums them up.    *)
(* A line is its fields as numbers, whether all are legible, and how many  *)
(* there are. An empty field is Absent; messages of failed trials are      *)
(* numbers in the order of their names, and 0 is no message.               *)
EXTENDS Bench

CONSTANTS
    Campaigns,              \* the files of a campaign, and the command line
    MAX_LISTED_FINDINGS,
    DEFAULT_LWE_DIM

ASSUME ReportAssumption == MAX_LISTED_FINDINGS \in Nat /\ DEFAULT_LWE_DIM \in Nat

VARIABLE report \* the run of the tool: its inputs, what it has parsed and rendered

Absent == -1

-----------------------------------------------------------------------------
(* The times of a trial add up to its total: what no part accounts for is  *)
(* the residual, which the probe never lets fall below 0.                  *)

SumOf(values) == FoldSeq(+, 0, values)
Residual(t) == Greater(t.total - SumOf(t.parts), 0)
BudgetViolation(t) == t.total - (SumOf(t.parts) + Residual(t))

Magnitude(n) == IF n < 0 THEN -n ELSE n

(* Of several that are as bad, the last one is named.                      *)
MaxBudgetViolation(trials) ==
    LET worst == {i \in DOMAIN trials :
                     \A j \in DOMAIN trials : Magnitude(BudgetViolation(trials[j]))
                                                 <= Magnitude(BudgetViolation(trials[i]))}
        last == CHOOSE i \in worst : \A j \in worst : j <= i
    IN IF worst = {} \/ BudgetViolation(trials[last]) = 0 THEN [us |-> 0, trial |-> Absent]
       ELSE [us |-> BudgetViolation(trials[last]), trial |-> trials[last].trial]

(* The nearest rank: a percentile is one of the samples. The mean is kept  *)
(* as the sum of n samples.                                                *)
NearestRank(sorted, percent) ==
    sorted[Greater(Lesser2(CeilDiv(percent * Len(sorted), 100), Len(sorted)), 1)]

NoSamples == [n |-> 0, sum |-> 0, p50 |-> Absent, p95 |-> Absent, min |-> Absent, max |-> Absent]
ComputeStats(values) ==
    LET sorted == SortSeq(values, <)
    IN IF values = <<>> THEN NoSamples
       ELSE [n |-> Len(values), sum |-> SumOf(values),
             p50 |-> NearestRank(sorted, 50), p95 |-> NearestRank(sorted, 95),
             min |-> Head(sorted), max |-> Last(sorted)]

StatsFrom(rows, Field(_)) == ComputeStats([i \in DOMAIN rows |-> Field(rows[i])])

(* The bins of staleness, by their first block; less than 0 is not stale.  *)
STALE_BINS == <<0, 100, 300, 600, 900>>
StaleBinIndex(stale) ==
    CHOOSE b \in DOMAIN STALE_BINS :
        /\ STALE_BINS[b] <= Greater(stale, 0)
        /\ b = Len(STALE_BINS) \/ Greater(stale, 0) < STALE_BINS[b + 1]
BinnedStats(trials) ==
    [b \in DOMAIN STALE_BINS |->
        StatsFrom(SelectSeq(trials, LAMBDA t : StaleBinIndex(t.stale) = b), LAMBDA t : t.total)]

-----------------------------------------------------------------------------
(* Which rows a statistic is about.                                        *)

Succeeded(t) == t.error = 0
SuccessfulTrials(trials) == SelectSeq(trials, Succeeded)
RowsWithServerHeaders(trials) ==
    SelectSeq(trials, LAMBDA t : t.compute # Absent /\ t.handler # Absent)
SingleBlockClientRows(rows) == SelectSeq(rows, LAMBDA r : r.blocks_in_fetch = 1)
CoalescedClientRowCount(rows) == Len(SelectSeq(rows, LAMBDA r : r.blocks_in_fetch # 1))
Quiet(rows) == SelectSeq(rows, LAMBDA r : r.answers = 0)
ProbeAdjacent(rows) == SelectSeq(rows, LAMBDA r : r.answers > 0)
UnknownInterference(rows) == Len(SelectSeq(rows, LAMBDA r : r.answers = Absent))
BlocksOf(rows) == {rows[i].block : i \in DOMAIN rows}

-----------------------------------------------------------------------------
(* The command line, and the files in the order in which they are parsed.  *)

FilesRead == <<"trials", "client_blocks", "server_blocks", "setup", "setup_download", "provenance">>
Required == ToSet(FilesRead) \ {"setup_download"}
Tables == {"trials", "client_blocks", "server_blocks"}

(* Lines whose header has no field of a name, or that have a field too few *)
(* or too many, or one that is not of its type, are refused; an object is  *)
(* refused for a field it lacks or of another type.                        *)
Misfit(name, file) ==
    IF name \notin Tables THEN ~file.legible
    ELSE \/ file.columns = 0 \/ file.missing
         \/ \E i \in DOMAIN file.lines : \/ file.lines[i].fields # file.columns
                                         \/ ~file.lines[i].legible

ContentOf(name, file) ==
    IF name \in Tables THEN [i \in DOMAIN file.lines |-> file.lines[i].row] ELSE file.content

Given(name) == report.campaign.files[name].given

ReportInit ==
    \E campaign \in Campaigns :
        report = [phase |-> "arguments", campaign |-> campaign, next |-> 1, data |-> <<>>,
                  doc |-> <<>>, written |-> FALSE]

ReportUsage ==
    /\ report.phase = "arguments"
    /\ report' = [report EXCEPT !.phase =
           IF \A name \in Required : Given(name) THEN "read" ELSE "exit 2"]

(* All files are read before one is parsed.                                *)
ReadInputFile ==
    /\ report.phase = "read" /\ report.next <= Len(FilesRead)
    /\ LET file == report.campaign.files[FilesRead[report.next]]
       IN IF file.given => file.there
          THEN report' = [report EXCEPT !.next = @ + 1]
          ELSE report' = [report EXCEPT !.phase = "exit 1"]

AllRead ==
    /\ report.phase = "read" /\ report.next > Len(FilesRead)
    /\ report' = [report EXCEPT !.phase = "parse", !.next = 1]

ParseFile ==
    LET name == FilesRead[report.next]
        file == report.campaign.files[name]
    IN /\ report.phase = "parse" /\ report.next <= Len(FilesRead)
       /\ IF Given(name) /\ Misfit(name, file)
          THEN report' = [report EXCEPT !.phase = "exit 1", !.data = <<>>]
          ELSE report' = [report EXCEPT
                  !.next = @ + 1,
                  !.data = Append(@, IF Given(name) THEN ContentOf(name, file) ELSE <<>>)]

AllParsed ==
    /\ report.phase = "parse" /\ report.next > Len(FilesRead)
    /\ report' = [report EXCEPT !.phase = "section 0"]

Trials == report.data[1]
ClientBlocks == report.data[2]
ServerBlocks == report.data[3]
Setup == report.data[4]
SetupDownload == report.data[5]
Provenance == report.data[6]

-----------------------------------------------------------------------------
(* The sections.                                                           *)

RenderSection0 ==
    LET ok == SuccessfulTrials(Trials)
    IN /\ report.phase = "section 0"
       /\ report' = [report EXCEPT
              !.phase = "section a",
              !.doc = [provenance |-> Provenance,
                       pinned |-> StatsFrom(ok, LAMBDA t : t.pinned),
                       stale |-> StatsFrom(ok, LAMBDA t : t.stale)]]

(* The geometry is the one that was measured; only the dimension is not.   *)
SetupGeometry ==
    [arity |-> Setup.arity, num_buckets |-> Setup.buckets, bucket_size |-> Setup.bucket_size,
     slot_bits |-> BENCH_FINGERPRINT_BITS + VALUE_BITS, plaintext_bits |-> Setup.plaintext_bits]

(* A1 to A6: the total and its parts, and whether they add up.             *)
QueryTimes(ok) ==
    [total |-> StatsFrom(ok, LAMBDA t : t.total),
     components |-> [c \in 1..6 |-> StatsFrom(ok, LAMBDA t : t.parts[c])],
     residual |-> StatsFrom(ok, Residual),
     violation |-> MaxBudgetViolation(ok),
     retried |-> Len(SelectSeq(ok, LAMBDA t : t.attempts > 1))]

(* What the server said of itself, of the trials that carry it.            *)
ServerTimes(ok) ==
    LET timed == RowsWithServerHeaders(ok)
    IN [compute |-> StatsFrom(timed, LAMBDA t : t.compute),
        overhead |-> StatsFrom(timed, LAMBDA t : t.handler - t.compute)]

(* What was sent, next to what the formula says for all segments.          *)
WireBytes(ok) ==
    LET query == StatsFrom(ok, LAMBDA t : t.query_bytes)
        response == StatsFrom(ok, LAMBDA t : t.response_bytes)
    IN [bytes |-> <<query, response>>,
        constant_bytes |-> ok # <<>> /\ query.min = query.max /\ response.min = response.max,
        computed |-> <<Sizes(SetupGeometry).query_per_segment * Setup.arity,
                       Sizes(SetupGeometry).response_per_segment * Setup.arity>>]

(* What the provider said, and the blocks at which it agreed.              *)
ProviderVerdicts(ok) ==
    LET matched == SelectSeq(ok, LAMBDA t : t.match = "1")
    IN [verdicts |-> [v \in {"1", "0", ""} |-> Len(SelectSeq(ok, LAMBDA t : t.match = v))],
        evidence |-> [queries |-> Len(matched), blocks |-> Cardinality(BlocksOf(matched))]]

RenderSectionA ==
    LET ok == SuccessfulTrials(Trials)
    IN /\ report.phase = "section a"
       /\ report' = [report EXCEPT
              !.phase = "section b",
              !.doc = @ @@ QueryTimes(ok) @@ ServerTimes(ok) @@ WireBytes(ok) @@ ProviderVerdicts(ok)
                        @@ [bins |-> BinnedStats(ok)]]

(* B7 and B8: what a block changed, and what it took.                      *)
BlockTimes(rows) ==
    [mutations |-> StatsFrom(rows, LAMBDA r : r.changes),
     apply |-> [all |-> StatsFrom(rows, LAMBDA r : r.apply),
                quiet |-> StatsFrom(Quiet(rows), LAMBDA r : r.apply),
                adjacent |-> StatsFrom(ProbeAdjacent(rows), LAMBDA r : r.apply),
                unknown |-> UnknownInterference(rows)]]

(* B9 and B10: the deltas as sent and as received, one block each.         *)
DeltaFetches(served, fetched) ==
    LET single == SingleBlockClientRows(fetched)
    IN [sent |-> StatsFrom(served, LAMBDA r : r.bytes),
        received |-> StatsFrom(single, LAMBDA r : r.bytes),
        ingest |-> StatsFrom(single, LAMBDA r : r.ingest),
        coalesced |-> CoalescedClientRowCount(fetched),
        overlap |-> Cardinality(BlocksOf(served) \cap BlocksOf(fetched))]

RenderSectionB ==
    /\ report.phase = "section b"
    /\ report' = [report EXCEPT
           !.phase = "section c",
           !.doc = @ @@ BlockTimes(ServerBlocks) @@ DeltaFetches(ServerBlocks, ClientBlocks)]

(* The memory of the client is sampled in every trial, also a failed one.  *)
RenderSectionC ==
    LET sampled == SelectSeq(Trials, LAMBDA t : t.rss # Absent)
        sizes == Sizes(SetupGeometry)
    IN /\ report.phase = "section c"
       /\ report' = [report EXCEPT
              !.phase = "section d",
              !.doc = @ @@
                  [measured |-> <<Setup.cells_bytes, Setup.hint_bytes>>,
                   formula |-> <<sizes.server_db, sizes.hint_per_segment * Setup.arity>>,
                   warned |-> Setup.lwe_dim # DEFAULT_LWE_DIM,
                   download |-> SetupDownload,
                   rss |-> StatsFrom(sampled, LAMBDA t : t.rss),
                   invariant |-> Setup.hints_match]]

(* The messages of failed trials, the most frequent first; of those as     *)
(* frequent, the first by name. Only so many are listed, the rest counted. *)
Listed(found) == SubSeq(found, 1, Lesser2(Len(found), MAX_LISTED_FINDINGS))
ErrorCounts(trials) ==
    LET errors == {trials[i].error : i \in {j \in DOMAIN trials : ~Succeeded(trials[j])}}
        times(e) == Cardinality({i \in DOMAIN trials : trials[i].error = e})
    IN SortSeq(SetToSeq({[error |-> e, times |-> times(e)] : e \in errors}),
               LAMBDA x, y : x.times > y.times \/ (x.times = y.times /\ x.error < y.error))

RenderSectionD ==
    LET ok == SuccessfulTrials(Trials)
        errors == ErrorCounts(Trials)
        mismatches == SelectSeq(ok, LAMBDA t : t.match = "0")
    IN /\ report.phase = "section d"
       /\ report' = [report EXCEPT
              !.phase = "render",
              !.doc = @ @@
                  [errored |-> Len(Trials) - Len(ok),
                   errors |-> [listed |-> Listed(errors),
                               more |-> Len(errors) - Len(Listed(errors))],
                   mismatches |-> [listed |-> Listed([i \in DOMAIN mismatches |-> mismatches[i].trial]),
                                   rows |-> Len(mismatches)]]]

ReportPrinted ==
    /\ report.phase = "render"
    /\ \/ /\ ~report.campaign.write
          /\ report' = [report EXCEPT !.phase = "printed"]
       \/ /\ report.campaign.write
          /\ report' = [report EXCEPT !.phase = "printed", !.written = TRUE]
       \/ /\ report.campaign.write
          /\ report' = [report EXCEPT !.phase = "exit 1"]

ReportNext ==
    \/ ReportUsage \/ ReadInputFile \/ AllRead \/ ParseFile \/ AllParsed
    \/ RenderSection0 \/ RenderSectionA \/ RenderSectionB \/ RenderSectionC \/ RenderSectionD
    \/ ReportPrinted
ReportSpec == ReportInit /\ [][ReportNext]_report
-----------------------------------------------------------------------------
(* A percentile is a sample, so many of the samples are not above it, and  *)
(* no smaller sample is one.                                               *)
IsPercentile(x, percent, values) ==
    LET upTo(y) == Cardinality({i \in DOMAIN values : values[i] <= y}) * 100
    IN /\ x \in ToSet(values) /\ upTo(x) >= percent * Len(values)
       /\ \A y \in ToSet(values) : y < x => upTo(y) < percent * Len(values)

(* Nothing is reported of files one of which does not fit; and what is     *)
(* reported adds up. Every trial is a success or an error; every success   *)
(* is in one bin and has one verdict; a block is quiet, adjacent to probes *)
(* or unknown; a fetch is of one block, or set apart. The parts and the    *)
(* residual make up the total unless a violation is named, and one is      *)
(* named whenever the parts of some trial exceed its total. A message that *)
(* is not listed is no more frequent than those that are.                  *)
ReportAddsUp ==
    LET d == report.doc
        ok == SuccessfulTrials(Trials)
        totals == [i \in DOMAIN ok |-> ok[i].total]
        over(t) == SumOf(t.parts) > t.total
    IN /\ d # <<>> => \A name \in ToSet(FilesRead) :
              Given(name) => /\ report.campaign.files[name].there
                             /\ ~Misfit(name, report.campaign.files[name])
       /\ report.written => report.phase = "printed"
       /\ report.phase = "printed" =>
          /\ d.total.n + d.errored = Len(Trials)
          /\ SumOf([b \in DOMAIN d.bins |-> d.bins[b].n]) = d.total.n
          /\ SumOf([b \in DOMAIN d.bins |-> d.bins[b].sum]) = d.total.sum
          /\ d.verdicts["1"] + d.verdicts["0"] + d.verdicts[""] = d.total.n
          /\ d.mismatches.rows = d.verdicts["0"]
          /\ d.evidence.queries = d.verdicts["1"] /\ d.evidence.blocks <= d.evidence.queries
          /\ d.apply.quiet.n + d.apply.adjacent.n + d.apply.unknown = d.apply.all.n
          /\ d.received.n + d.coalesced = Len(ClientBlocks)
          /\ ok # <<>> => /\ IsPercentile(d.total.p50, 50, totals)
                          /\ IsPercentile(d.total.p95, 95, totals)
          /\ (d.violation.us # 0) = (\E i \in DOMAIN ok : over(ok[i]))
          /\ d.violation.us # 0 => \E i \in DOMAIN ok : ok[i].trial = d.violation.trial /\ over(ok[i])
          /\ d.violation.us = 0 =>
                SumOf([c \in 1..6 |-> d.components[c].sum]) + d.residual.sum = d.total.sum
          /\ \A i \in DOMAIN Trials : LET e == Trials[i].error IN
                e # 0 => \/ \E l \in DOMAIN d.errors.listed : d.errors.listed[l].error = e
                         \/ /\ d.errors.more > 0
                            /\ \A l \in DOMAIN d.errors.listed :
                                  d.errors.listed[l].times >= Cardinality({j \in DOMAIN Trials : Trials[j].error = e})

(* What the tools that size, time and report print is so: the rows of the  *)
(* sweep and of the fill check, the scales of the benchmark and its curve, *)
(* and the report of a campaign. That a benchmark of scales with a geometry*)
(* gets to print is no part of this, and is not so (bench.rs:669).         *)
FiguresAreTrue ==
    /\ RowsFit
    /\ ScalesAreAsAsked /\ TablesTakeTheirAccounts /\ CurveIsMeasured
    /\ ReportAddsUp
=============================================================================
