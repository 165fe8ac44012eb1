------------------------------ MODULE WebPage ------------------------------
(* The page around the browser's session (app.js): whether the download is *)
(* started at once or asked about, the boot until the form is revealed, the*)
(* lookups visitors start from the form, a suggestion or a retry, and the  *)
(* polls that keep the state panel. What a lookup finds is BrowserSession's *)
(* matter; here it is an outcome that has to be shown.                     *)
EXTENDS Integers, Sequences, FiniteSets

CONSTANTS Devices,     \* what a visit may find: the hint, and the device's word on itself
          MaxSubmits,  \* bound on the lookups
          MaxPagePolls,
          MaxPageHead

ASSUME PageAssumption == {MaxSubmits, MaxPagePolls, MaxPageHead} \subseteq Nat

VARIABLES
    device,  \* hintGB tenths, 0 when the probe failed; memoryGB, 0 when not reported
    boot,    \* where the boot stands, and whether the visitor chose to go on
    node,    \* the server: its block
    form,    \* the button and the result box
    lookups, \* the lookups: their outcome, or "running"
    polls,   \* refreshState: the block asked at, and whether it still waits
    panel    \* the live pill, and the highest block seen

pageVars == <<device, boot, node, form, lookups, polls, panel>>

-----------------------------------------------------------------------------
(* assessCapacity, sizes in tenths of a GB.                                *)

ESTIMATED_PEAK_MULTIPLE == 3
COARSE_SIGNAL_WARN_PEAK == 2

Coarse(d) == d.coarsePointer \/ d.smallViewport

Base(d) ==
    IF d.memory > 0
    THEN IF ESTIMATED_PEAK_MULTIPLE * d.hint > 5 * d.memory THEN "refuse" ELSE "ok"
    ELSE IF Coarse(d) /\ ESTIMATED_PEAK_MULTIPLE * d.hint > COARSE_SIGNAL_WARN_PEAK
         THEN "warn" ELSE "ok"

Verdict(d) ==
    IF Base(d) = "ok" /\ d.saveData /\ d.hint > COARSE_SIGNAL_WARN_PEAK THEN "warn" ELSE Base(d)

-----------------------------------------------------------------------------

PageInit ==
    /\ device \in Devices
    /\ boot = [stage |-> "preflight", insisted |-> FALSE]
    /\ node = [head |-> 1]
    /\ form = [enabled |-> TRUE, shown |-> "nothing"]
    /\ lookups = <<>>
    /\ polls = <<>>
    /\ panel = [pill |-> "hidden", at |-> 0, highest |-> 0]

HeadRises ==
    /\ node.head < MaxPageHead /\ node' = [node EXCEPT !.head = @ + 1]
    /\ UNCHANGED <<device, boot, form, lookups, polls, panel>>

Stage(from, to) == boot.stage = from /\ boot' = [boot EXCEPT !.stage = to]

(* A probe that fails, or a verdict of "ok", boots without asking.         *)
Preflight ==
    /\ Stage("preflight", IF device.hint = 0 \/ Verdict(device) = "ok" THEN "connect" ELSE "gate")
    /\ UNCHANGED <<device, node, form, lookups, polls, panel>>

DownloadAnyway ==
    /\ boot.stage = "gate" /\ boot' = [stage |-> "connect", insisted |-> TRUE]
    /\ UNCHANGED <<device, node, form, lookups, polls, panel>>

AskState == polls' = Append(polls, [asked |-> node.head, out |-> TRUE])

(* connect() ends: an error is shown for good, or the state is asked for.  *)
Connected ==
    /\ \/ Stage("connect", "failed") /\ UNCHANGED polls
       \/ Stage("connect", "state") /\ AskState
    /\ UNCHANGED <<device, node, form, lookups, panel>>

(* refreshState, wherever it was called: it shows what its own GET /head   *)
(* said. The boot waits for its first.                                     *)
PollEnds ==
    /\ \E i \in {j \in 1..Len(polls) : polls[j].out} :
          /\ polls' = [polls EXCEPT ![i].out = FALSE]
          /\ \/ panel' = [panel EXCEPT !.pill = "unreachable", !.at = 0]
             \/ \E head \in polls[i].asked..node.head :
                   panel' = [pill |-> "following", at |-> head,
                             highest |-> IF head > panel.highest THEN head ELSE panel.highest]
          /\ boot' = IF boot.stage = "state" THEN [boot EXCEPT !.stage = "suggestions"] ELSE boot
    /\ UNCHANGED <<device, node, form, lookups>>

(* Suggestions or none: the form is revealed either way.                   *)
Reveal ==
    /\ Stage("suggestions", "ready")
    /\ UNCHANGED <<device, node, form, lookups, polls, panel>>

(* setInterval(refreshState)                                               *)
TimerPolls ==
    /\ boot.stage = "ready" /\ Len(polls) < MaxPagePolls /\ AskState
    /\ UNCHANGED <<device, boot, node, form, lookups, panel>>

-----------------------------------------------------------------------------

Runs(i) == lookups[i] = "running"

(* The form's button is off while a lookup runs; a suggestion and the      *)
(* retry of a lookup that timed out submit the form without it.            *)
SubmitLookup ==
    /\ boot.stage = "ready" /\ Len(lookups) < MaxSubmits
    /\ lookups' = Append(lookups, "running")
    /\ form' = [enabled |-> FALSE, shown |-> "querying"]
    /\ UNCHANGED <<device, boot, node, polls, panel>>

Outcomes == {"balance", "zero", "not_tracked", "not_decoded", "timed_out", "stale", "error"}

(* Mutant of Enabled: the button is given back by the outcomes that were   *)
(* thought of.                                                             *)
EnabledUnlessTimedOut(outcome) == outcome # "timed_out"

Enabled(outcome) == TRUE

(* The lookup that ends overwrites what the box says, of whichever lookup  *)
(* that was, and gives the button back though others may still run.        *)
LookupEnds ==
    /\ \E i \in {j \in 1..Len(lookups) : Runs(j)}, outcome \in Outcomes :
          /\ lookups' = [lookups EXCEPT ![i] = outcome]
          /\ form' = [enabled |-> Enabled(outcome), shown |-> outcome]
          /\ IF outcome \in {"timed_out", "stale", "error"} THEN UNCHANGED polls ELSE AskState
    /\ UNCHANGED <<device, boot, node, panel>>

PageNext ==
    \/ HeadRises \/ Preflight \/ DownloadAnyway \/ Connected \/ PollEnds \/ Reveal
    \/ TimerPolls \/ SubmitLookup \/ LookupEnds

PageSpec == PageInit /\ [][PageNext]_pageVars

-----------------------------------------------------------------------------

(* The visitor is asked before a download the device says it cannot hold,  *)
(* and never refused on a figure nobody reported; the form appears with the*)
(* state panel filled; no order in which overlapping lookups end, and none *)
(* of the ways in which one can, leaves the page saying it is querying, or *)
(* its button dead, with no lookup running; and the pill names no block    *)
(* the server was not at (app.js:582, 620, 341; pir.js:1234). Whose outcome*)
(* the box shows is not promised: the last to end writes it.               *)
PageIsHonest ==
    /\ boot.stage \notin {"preflight", "gate"} =>
          \/ boot.insisted \/ device.hint = 0 \/ Verdict(device) = "ok"
    /\ Verdict(device) = "refuse" => device.memory > 0
    /\ boot.stage = "ready" => panel.pill # "hidden"
    /\ (\A i \in 1..Len(lookups) : ~Runs(i)) => form.enabled /\ form.shown # "querying"
    /\ panel.at <= node.head /\ panel.at <= panel.highest
=============================================================================
