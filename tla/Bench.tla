------------------------------- MODULE Bench --------------------------------
(* The benchmark: tables of growing numbers of accounts are built, and at  *)
(* each size blocks are applied and timed. The largest is first judged by  *)
(* the time the one before took, and by the memory its geometry will need; *)
(* if either is too much, a smaller one is taken. A time is a number of    *)
(* seconds the machine happens to take.                                    *)
EXTENDS Geometry, SequencesExt

CONSTANTS
    Plans,                  \* what the command line asks for
    DEFAULT_SCALES, DEFAULT_MID_SCALE,
    K_VALUES, HEADLINE_K,
    WARMUP_BLOCKS, MEASURED_BLOCKS,
    SAFETY_FACTOR, MAX_PROJECTED_REBUILD_SECS, MAX_PROJECTED_BYTES,
    BYTES_PER_ACCOUNT,      \* of the mock chain, in memory
    RebuildTimes            \* bound: what a build may take

ASSUME BenchAssumption ==
    /\ HEADLINE_K \in Nat /\ K_VALUES \in Seq(Nat) /\ K_VALUES # <<>>
    /\ WARMUP_BLOCKS \in Nat /\ MEASURED_BLOCKS \in Nat \ {0}
    /\ RebuildTimes \subseteq Nat \ {0}

VARIABLE bench  \* the run: what was asked, the scale it is at, the report

benchVars == <<sweep, bench>>

-----------------------------------------------------------------------------
(* The command line: a missing middle scale is the default one if that is  *)
(* asked for, and else the smallest. An absent list is <<>>, a scale 0.    *)

LeastOf(scales) == CHOOSE s \in ToSet(scales) : \A t \in ToSet(scales) : s <= t

Planned(scales, mid) ==
    IF scales = <<>>
    THEN [scales |-> DEFAULT_SCALES, mid |-> IF mid = 0 THEN DEFAULT_MID_SCALE ELSE mid]
    ELSE [scales |-> scales,
          mid |-> IF mid # 0 THEN mid
                  ELSE IF DEFAULT_MID_SCALE \in ToSet(scales) THEN DEFAULT_MID_SCALE
                  ELSE LeastOf(scales)]

NoBuild == [accounts |-> 0, rebuild |-> 0, geometry |-> <<>>, block |-> 0]
NoReport ==
    [scales |-> <<>>, curve |-> <<>>, delta_bytes |-> 0, answer_latency |-> 0,
     requested |-> 0, reached |-> 0, fellBack |-> FALSE]

BenchInit ==
    \E plan \in Plans :
        bench = [phase |-> "arguments", plan |-> Planned(plan.scales, plan.mid),
                 order |-> <<>>, build |-> NoBuild, report |-> NoReport]

(* Scales that do not list the middle one end the program before it runs.  *)
PlanRefused ==
    /\ bench.phase = "arguments" /\ bench.plan.mid \notin ToSet(bench.plan.scales)
    /\ bench' = [bench EXCEPT !.phase = "refused"]

RunBegins ==
    LET order == SortSeq(bench.plan.scales, <)
    IN /\ bench.phase = "arguments" /\ bench.plan.mid \in ToSet(bench.plan.scales)
       /\ bench' = [bench EXCEPT !.phase = "scale", !.order = order,
                                 !.report.requested = Last(order), !.report.reached = Last(order)]

BENCH_ARITY == 2
BENCH_BUCKET_SIZE == 4
BENCH_FINGERPRINT_BITS == 2
BenchGeometry(accounts) ==
    ForAccounts(accounts, BENCH_ARITY, BENCH_BUCKET_SIZE, BENCH_FINGERPRINT_BITS)
NoGeometry(accounts) ==
    Refusal(accounts, BENCH_ARITY, BENCH_BUCKET_SIZE, BENCH_FINGERPRINT_BITS) # "none"

ProjectedMemoryBytes(accounts) ==
    LET s == Sizes(BenchGeometry(accounts))
    IN s.server_db + 3 * (s.hint_per_segment + 2 * s.a_per_segment) + accounts * BYTES_PER_ACCOUNT

(* The time of the scale before, in proportion, with a factor to be safe.  *)
UnsafeToAttempt(before, candidate) ==
    \/ before.rebuild * candidate * SAFETY_FACTOR > MAX_PROJECTED_REBUILD_SECS * before.accounts
    \/ ProjectedMemoryBytes(candidate) > MAX_PROJECTED_BYTES

(* Half of it, and half of that, until it is safe or was built before.     *)
FallenBack(before, requested) ==
    LET candidate[c \in 0..requested] ==
            LET half == Greater(c \div 2, before.accounts)
            IN IF half >= c THEN c
               ELSE IF half <= before.accounts \/ ~UnsafeToAttempt(before, half) THEN half
               ELSE candidate[half]
    IN candidate[requested]

(* Nothing looks at the largest scale if it is the only one. Of a scale    *)
(* that no geometry is for, the projection and the build both panic.       *)
BuildScale ==
    LET i == Len(bench.report.scales) + 1
        requested == bench.order[i]
        judged == i = Len(bench.order) /\ i > 1
        before == bench.report.scales[i - 1]
        fallback == judged /\ UnsafeToAttempt(before, requested)
        accounts == IF fallback THEN FallenBack(before, requested) ELSE requested
    IN /\ bench.phase = "scale" /\ i <= Len(bench.order) /\ ~NoGeometry(requested)
       /\ \E secs \in RebuildTimes :
             bench' = [bench EXCEPT
                 !.phase = "headline",
                 !.build = [accounts |-> accounts, rebuild |-> secs,
                            geometry |-> BenchGeometry(accounts), block |-> 0],
                 !.report.reached = accounts,
                 !.report.fellBack = fallback]

ScalePanics ==
    /\ bench.phase = "scale" /\ Len(bench.report.scales) < Len(bench.order)
    /\ NoGeometry(bench.order[Len(bench.report.scales) + 1])
    /\ bench' = [bench EXCEPT !.phase = "panicked"]

(* The same server goes on with the blocks of each measurement: some to    *)
(* warm up, then those that are timed.                                     *)
Measured(k, block) ==
    [k |-> k, from |-> block + WARMUP_BLOCKS, to |-> block + WARMUP_BLOCKS + MEASURED_BLOCKS]

IsMidScale == bench.build.accounts = bench.plan.mid /\ bench.report.curve = <<>>

MeasureHeadline ==
    LET point == Measured(HEADLINE_K, bench.build.block)
    IN /\ bench.phase = "headline"
       /\ bench' = [bench EXCEPT
              !.phase = IF IsMidScale THEN "curve" ELSE "report",
              !.build = [accounts |-> @.accounts, rebuild |-> @.rebuild, geometry |-> @.geometry,
                         block |-> point.to, headline |-> point]]

(* The blocks of the headline are not measured twice.                      *)
MeasureCurve ==
    LET n == Len(bench.report.curve) + 1
        point == IF K_VALUES[n] = HEADLINE_K THEN bench.build.headline
                 ELSE Measured(K_VALUES[n], bench.build.block)
    IN /\ bench.phase = "curve" /\ n <= Len(K_VALUES)
       /\ bench' = [bench EXCEPT !.report.curve = Append(@, point),
                                 !.build.block = Greater(@, point.to)]

MeasureAnswers ==
    /\ bench.phase = "curve" /\ Len(bench.report.curve) = Len(K_VALUES)
    /\ bench' = [bench EXCEPT
           !.phase = "report",
           !.report.curve = SortSeq(@, LAMBDA p, q : p.k < q.k),
           !.report.delta_bytes = bench.build.accounts,
           !.report.answer_latency = bench.build.accounts]

ScaleReported ==
    /\ bench.phase = "report"
    /\ bench' = [bench EXCEPT
           !.phase = "scale",
           !.report.scales = Append(@, [accounts |-> bench.build.accounts,
                                        rebuild |-> bench.build.rebuild,
                                        geometry |-> bench.build.geometry]),
           !.build = NoBuild]

(* The report is made of what the middle scale gave: without it, a panic,  *)
(* which the assertion takes to be impossible. It comes when the middle    *)
(* scale is the largest and was replaced by a smaller one.                 *)
RunEnds ==
    /\ bench.phase = "scale" /\ Len(bench.report.scales) = Len(bench.order)
    /\ bench' = [bench EXCEPT !.phase =
           IF bench.report.delta_bytes = 0 THEN "panicked" ELSE "printed"]

BenchNext ==
    /\ UNCHANGED sweep
    /\ \/ PlanRefused \/ RunBegins \/ BuildScale \/ ScalePanics \/ MeasureHeadline
       \/ MeasureCurve \/ MeasureAnswers \/ ScaleReported \/ RunEnds

BenchSpec == BenchInit /\ GeometryInit /\ [][BenchNext]_benchVars
-----------------------------------------------------------------------------
(* Every scale but the last is the one that was asked for. The last is     *)
(* asked for too, or it is smaller, and then the report says so; it is     *)
(* never one that was found unsafe, unless it had been built before.       *)
ScalesAreAsAsked ==
    LET rows == bench.report.scales
        last == Len(bench.order)
    IN /\ \A i \in DOMAIN rows : i < last => rows[i].accounts = bench.order[i]
       /\ Len(rows) = last /\ last > 1 =>
             /\ rows[last].accounts = bench.report.reached
             /\ UnsafeToAttempt(rows[last - 1], rows[last].accounts)
                   => rows[last].accounts = rows[last - 1].accounts
       /\ Len(rows) = last =>
             /\ bench.report.reached <= bench.report.requested
             /\ bench.report.reached < bench.report.requested => bench.report.fellBack

(* Every table that is built takes its genesis accounts without a refusal. *)
TablesTakeTheirAccounts ==
    \A i \in DOMAIN bench.report.scales :
        LET row == bench.report.scales[i] IN Fillable(row.geometry, row.accounts)

(* What is printed was measured: the curve has every number of changes,    *)
(* in order, each timed on as many blocks as configured and none of them   *)
(* timed for two points; bytes and latency are of the middle scale.        *)
CurveIsMeasured ==
    LET curve == bench.report.curve
    IN bench.phase = "printed" =>
        /\ bench.report.delta_bytes = bench.plan.mid
        /\ bench.report.answer_latency = bench.plan.mid
        /\ [i \in DOMAIN curve |-> curve[i].k] = SortSeq(K_VALUES, <)
        /\ \A i, j \in DOMAIN curve :
              /\ curve[i].to - curve[i].from = MEASURED_BLOCKS
              /\ curve[i].k # curve[j].k => curve[i].to <= curve[j].from \/ curve[j].to <= curve[i].from
=============================================================================
