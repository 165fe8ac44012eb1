------------------------------ MODULE NodeStatus ------------------------------
(***************************************************************************)
(* What the node says of itself.  The follow loop and the request handlers *)
(* write its figures under a lock of their own for each group; GET /metrics*)
(* takes the locks one after another, so a page shows several instants; a  *)
(* page polls it, and --block-metrics-csv keeps a row of every block.      *)
(***************************************************************************)
EXTENDS Integers, Sequences, FiniteSets, SequencesExt, Functions

CONSTANTS ChangedLists,   \* the accounts a block may change, in its order
          RECENT_CAPACITY,
          reconcile_every,
          MaxBlocks,      \* bound on the chain
          MaxServed,      \* bound on the requests
          MaxTroubles     \* bound on the rows that cannot be written

ASSUME StatusAssumption ==
    /\ {RECENT_CAPACITY, reconcile_every} \subseteq Nat \ {0}
    /\ {MaxBlocks, MaxServed, MaxTroubles} \subseteq Nat
    /\ \A changed \in ChangedLists : changed \in Seq(ToSet(changed))

VARIABLES
    step,    \* where follow() stands in its block
    figures, \* the groups of figures, each behind its lock
    serving, \* requests of which a part is counted, by that part
    page,    \* a GET /metrics: the lock it takes next, what it has read
    csv,     \* the rows, and the answers counted when the last was made
    past     \* history: what the follow loop and the handlers did

statusVars == <<step, figures, serving, page, csv, past>>

-----------------------------------------------------------------------------
(* The answer's duration falls in one of three classes, the last above     *)
(* every bound of the histogram.                                           *)

Durations == 1 .. 3
Bounds == <<1, 2>>

(* Mutant of Observed: only the bucket the answer falls into is counted.   *)
ObservedOnce(h, d) ==
    [buckets |-> [i \in 1 .. 2 |-> h.buckets[i] + IF d = i THEN 1 ELSE 0], count |-> h.count + 1]

(* Histogram: a cumulative count for every bound, and the count of all.    *)
NoDurations == [buckets |-> [i \in DOMAIN Bounds |-> 0], count |-> 0]
Observed(h, d) ==
    [buckets |-> [i \in DOMAIN Bounds |-> h.buckets[i] + IF d <= Bounds[i] THEN 1 ELSE 0],
     count |-> h.count + 1]

(* quantile() of the page: the bucket that reaches the rank, q percent.    *)
QuantileBucket(h, q) ==
    LET reach == {i \in DOMAIN Bounds : 100 * h.buckets[i] >= q * h.count}
    IN  IF reach = {} THEN Len(Bounds) + 1 ELSE CHOOSE i \in reach : \A j \in reach : i <= j

(* note_recent: the newest last, an account once.                          *)
NotedOne(recent, addr) ==
    LET appended == Append(RemoveFirst(recent, addr), addr)
    IN  IF Len(appended) > RECENT_CAPACITY THEN Tail(appended) ELSE appended

Noted(recent, changed) == FoldLeft(NotedOne, recent, changed)

NoCounters == [requests |-> [ok |-> 0, error |-> 0], classes |-> 0, answers |-> NoDurations, applied |-> 0]

StatusInit ==
    /\ step = "poll"
    /\ figures = [head |-> 0, finalized |-> 0, counters |-> NoCounters, halted |-> FALSE, recent |-> <<>>]
    /\ serving = [ok |-> 0, error |-> 0]
    /\ page = [lock |-> "none"]
    /\ csv = [rows |-> <<>>, previous |-> -1, lost |-> 0]
    /\ past = [touched |-> <<>>, durations |-> [d \in Durations |-> 0]]

-----------------------------------------------------------------------------
(* The follow loop: what it tells the node, in the order of a block.       *)

(* Every block up to what the provider calls final, then it asks again.    *)
AfterBlock == IF figures.head < figures.finalized THEN "apply" ELSE "poll"

FollowPolls ==
    /\ step = "poll"
    /\ \E finalized \in figures.head .. MaxBlocks :
          /\ figures' = [figures EXCEPT !.finalized = finalized]
          /\ step' = IF figures.head < finalized THEN "apply" ELSE "poll"
    /\ UNCHANGED <<serving, page, csv, past>>

(* apply_block_reporting lets the lock go before it counts the block.      *)
BlockApplied ==
    /\ step = "apply"
    /\ figures' = [figures EXCEPT !.head = @ + 1]
    /\ step' = "count"
    /\ UNCHANGED <<serving, page, csv, past>>

BlockCounted ==
    /\ step = "count"
    /\ figures' = [figures EXCEPT !.counters.applied = @ + 1]
    /\ step' = "row"
    /\ UNCHANGED <<serving, page, csv, past>>

(* The answers since the row before; a row that is not written is logged.  *)
BlockRow ==
    /\ step = "row"
    /\ LET answered == figures.counters.answers.count
           row      == [block |-> figures.head,
                        answers |-> IF csv.previous < 0 THEN 0 ELSE answered - csv.previous]
       IN  \/ csv' = [csv EXCEPT !.rows = Append(@, row), !.previous = answered]
           \/ /\ csv.lost < MaxTroubles
              /\ csv' = [csv EXCEPT !.lost = @ + 1, !.previous = answered]
    /\ step' = "note"
    /\ UNCHANGED <<figures, serving, page, past>>

BlockNoted ==
    /\ step = "note"
    /\ \E changed \in ChangedLists :
          /\ figures' = [figures EXCEPT !.recent = Noted(@, changed)]
          /\ past' = [past EXCEPT !.touched = @ \o changed]
    /\ step' = IF figures.head % reconcile_every = 0 THEN "checkpoint" ELSE AfterBlock
    /\ UNCHANGED <<serving, page, csv>>

(* A checkpoint ends in a match, or in mark_reconcile_halted, after which  *)
(* the loop polls no more: the lag that is shown no longer grows.          *)
CheckpointTaken ==
    /\ step = "checkpoint"
    /\ \E halts \in BOOLEAN :
          /\ figures' = [figures EXCEPT !.halted = halts]
          /\ step' = IF halts THEN "halted" ELSE AfterBlock
    /\ UNCHANGED <<serving, page, csv, past>>

-----------------------------------------------------------------------------
(* The handlers, and track_metrics around them.                            *)

Served == figures.counters.answers.count + figures.counters.requests.error

(* POST /answer times the answer, then it is a response.                   *)
AnswerTimed ==
    /\ Served < MaxServed
    /\ \E d \in Durations :
          /\ figures' = [figures EXCEPT !.counters.answers = Observed(@, d)]
          /\ past' = [past EXCEPT !.durations[d] = @ + 1]
    /\ serving' = [serving EXCEPT !.ok = @ + 1]
    /\ UNCHANGED <<step, page, csv>>

ResponseCounted ==
    /\ serving.ok > 0
    /\ serving' = [serving EXCEPT !.ok = @ - 1]
    /\ figures' = [figures EXCEPT !.counters.requests.ok = @ + 1]
    /\ UNCHANGED <<step, page, csv, past>>

(* The client has gone: the handler is dropped, and nothing counts it.     *)
ClientGone ==
    /\ serving.ok > 0
    /\ serving' = [serving EXCEPT !.ok = @ - 1]
    /\ UNCHANGED <<step, figures, page, csv, past>>

(* An error: bump_request, and then bump_error, each takes the lock.       *)
ErrorCounted ==
    /\ Served < MaxServed
    /\ figures' = [figures EXCEPT !.counters.requests.error = @ + 1]
    /\ serving' = [serving EXCEPT !.error = @ + 1]
    /\ UNCHANGED <<step, page, csv, past>>

ErrorClassed ==
    /\ serving.error > 0
    /\ figures' = [figures EXCEPT !.counters.classes = @ + 1]
    /\ serving' = [serving EXCEPT !.error = @ - 1]
    /\ UNCHANGED <<step, page, csv, past>>

-----------------------------------------------------------------------------
(* render_metrics, lock by lock.                                           *)

ScrapeHead ==
    /\ page.lock = "none"
    /\ page' = [lock |-> "counters", head |-> figures.head]
    /\ UNCHANGED <<step, figures, serving, csv, past>>

ScrapeCounters ==
    /\ page.lock = "counters"
    /\ page' = [lock |-> "rest", head |-> page.head, counters |-> figures.counters,
                  timed |-> past.durations]
    /\ UNCHANGED <<step, figures, serving, csv, past>>

(* render(): the lag saturates at 0.                                       *)
ScrapeRest ==
    /\ page.lock = "rest"
    /\ page' = [lock |-> "shown", head |-> page.head, counters |-> page.counters,
                timed |-> page.timed,
                lag |-> IF figures.finalized > page.head THEN figures.finalized - page.head ELSE 0,
                halted |-> figures.halted]
    /\ UNCHANGED <<step, figures, serving, csv, past>>

StatusNext ==
    \/ FollowPolls \/ BlockApplied \/ BlockCounted \/ BlockRow \/ BlockNoted
    \/ CheckpointTaken
    \/ AnswerTimed \/ ResponseCounted \/ ClientGone \/ ErrorCounted \/ ErrorClassed
    \/ ScrapeHead \/ ScrapeCounters \/ ScrapeRest

StatusSpec == StatusInit /\ [][StatusNext]_statusVars

-----------------------------------------------------------------------------
(* The answers timed that took at most e.                                  *)
AnsweredWithin(e, timed) == FoldFunctionOnSet(+, 0, timed, 1 .. e)

(* Those that took at most d reach the quantile's rank, and no fewer do.   *)
IsQuantile(d, q, timed) ==
    /\ 100 * AnsweredWithin(d, timed) >= q * AnsweredWithin(3, timed)
    /\ 100 * AnsweredWithin(d - 1, timed) < q * AnsweredWithin(3, timed)

(* The last accounts touched, each once, at most RECENT_CAPACITY of them.  *)
IsRecent(recent, touched) ==
    LET lastAt(a) == CHOOSE i \in DOMAIN touched : touched[i] = a /\ \A j \in (i + 1) .. Len(touched) : touched[j] # a
        seen    == ToSet(touched)
    IN  /\ ToSet(recent) \subseteq seen
        /\ \A i, j \in DOMAIN recent : i < j => lastAt(recent[i]) < lastAt(recent[j])
        /\ \A a \in seen \ ToSet(recent) : Len(recent) = RECENT_CAPACITY /\ lastAt(a) < lastAt(recent[1])

(* The answers that rows of the CSV count.                                 *)
InRows(rows) == FoldLeft(LAMBDA n, r : n + r.answers, 0, rows)

(* The figures agree though they are read and written piece by piece: a    *)
(* page's blocks are counted but for the one that is being counted, no     *)
(* error has a class before it is an error, the latency it shows is that   *)
(* of the answers; /recent lists the accounts last touched; and no answer  *)
(* is in two rows of the CSV.                                              *)
StatusIsTrue ==
    /\ page.lock = "shown" =>
          /\ page.head <= page.counters.applied + 1
          /\ page.counters.classes <= page.counters.requests.error
          /\ page.counters.answers.count > 0 => \A q \in {50, 90, 99} : IsQuantile(QuantileBucket(page.counters.answers, q), q, page.timed)
    /\ IsRecent(figures.recent, past.touched)
    /\ InRows(csv.rows) <= figures.counters.answers.count
    /\ \A i \in DOMAIN csv.rows : \A j \in 1 .. (i - 1) : csv.rows[j].block < csv.rows[i].block
=============================================================================
