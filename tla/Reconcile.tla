------------------------------ MODULE Reconcile ------------------------------
(***************************************************************************)
(* The reconcile checkpoint that the follow loop runs between two blocks:  *)
(* it compares some of the block's accounts with an independent reference  *)
(* provider, stops the loop on a mismatch, puts off all checking while far *)
(* behind the finalized head, and makes up for it from a bounded queue of  *)
(* addresses.  No block is applied during a checkpoint.                    *)
(***************************************************************************)
EXTENDS FollowLoop, FiniteSets

CONSTANTS Samples,          \* comparisons a checkpoint aims for
          RecentDepth,      \* a checkpoint further behind than this is deferred
          ReservoirCap,     \* addresses the reservoir holds at most
          DrainPer,         \* addresses a checkpoint takes from the reservoir
          Escalation        \* blind checkpoints in a row between two alarms

ASSUME ReconcileAssumption ==
    /\ Accounts \subseteq Nat \ {0} /\ IsFiniteSet(Accounts)
    /\ {Samples, ReservoirCap, DrainPer, Escalation} \subseteq Nat \ {0}
    /\ RecentDepth \in Nat

VARIABLES
    reservoir,  \* deferred addresses, oldest first
    dark,       \* blind checkpoints since the last comparison that succeeded
    deferred,   \* how many of them, up to now, were deferred
    alarm,      \* the cause named by the last checkpoint, if it escalated
    haltedOn,   \* the account whose comparison stopped the loop, if any
    streak,     \* history: what the blind checkpoints of the streak were
    owed        \* history: candidates that deferred checkpoints queued and that
                \* were not compared since

healthVars    == <<dark, deferred, alarm, streak>>
reconcileVars == <<followVars, reservoir, healthVars, haltedOn, owed>>

None == 0

ElementsOf(s) == {s[i] : i \in DOMAIN s}

(* The feed lists the changed accounts by address, and the withdrawals in  *)
(* the order of the block, in which an account may occur more than once    *)
(* (here: one of them).  Repetitions next to each other are dropped.       *)
SortedChanges(n) ==
    {s \in [1 .. Cardinality(Changed(n)) -> Changed(n)] :
        \A i, j \in DOMAIN s : i < j => s[i] < s[j]}

CreditedLists(n) ==
    {s \in UNION {[1 .. k -> Credited(n)] : k \in {Cardinality(Credited(n)), Cardinality(Credited(n)) + 1}} :
        /\ ElementsOf(s) = Credited(n)
        /\ \A i \in 2 .. Len(s) : s[i] # s[i - 1]}

-----------------------------------------------------------------------------
(* The deferred reservoir.                                                 *)

(* Adds the addresses of s that are not queued, as far as there is room.   *)
InsertMany(queue, s) ==
    LET queued[i \in 0 .. Len(s)] ==
            IF i = 0 THEN queue
            ELSE IF Len(queued[i - 1]) >= ReservoirCap \/ s[i] \in ElementsOf(queued[i - 1])
                 THEN queued[i - 1]
                 ELSE Append(queued[i - 1], s[i])
    IN  queued[Len(s)]

PoppedLen(queue) == IF Len(queue) < DrainPer THEN Len(queue) ELSE DrainPer
Popped(queue)    == SubSeq(queue, 1, PoppedLen(queue))
Rest(queue)      == SubSeq(queue, PoppedLen(queue) + 1, Len(queue))

(* Mutant of Requeued: an address whose fetch failed is not put back.      *)
RequeuedNever(queue, popped, answered) == queue

(* The addresses whose fetch failed go to the end, if there is room.       *)
Requeued(queue, popped, answered) ==
    LET put[i \in 0 .. Len(popped)] ==
            IF i = 0 THEN queue
            ELSE IF i \in answered \/ Len(put[i - 1]) >= ReservoirCap THEN put[i - 1]
                 ELSE Append(put[i - 1], popped[i])
    IN  put[Len(popped)]

-----------------------------------------------------------------------------
(* One checkpoint.                                                         *)

ReconcileInit ==
    /\ FollowInit
    /\ reservoir = <<>>
    /\ dark = 0 /\ deferred = 0 /\ alarm = "none" /\ streak = <<>>
    /\ haltedOn = None
    /\ owed = {}

(* One list behind the other, without the repetition at the seam.          *)
Chained(c, d) ==
    IF c # <<>> /\ d # <<>> /\ c[Len(c)] = d[1] THEN c \o Tail(d) ELSE c \o d

(* The candidates, in the order of the feed: the accounts that the block   *)
(* changes, and on a complete deployment also those that it credits.  One  *)
(* that is both may be listed twice.                                       *)
Candidates ==
    {Chained(c, d) : c \in SortedChanges(last),
                     d \in IF complete THEN CreditedLists(last) ELSE {<<>>}}

(* How many candidates are tried when the fetches at the positions in      *)
(* answered succeed: until there are enough, or twice as many attempts.    *)
Attempts(list, answered) ==
    LET budget       == IF Len(list) < 2 * Samples THEN Len(list) ELSE 2 * Samples
        succeeded(k) == Cardinality(answered \cap 1 .. k)
    IN  CHOOSE k \in 0 .. budget :
            /\ succeeded(k) >= Samples \/ k = budget
            /\ \A j \in 0 .. k - 1 : succeeded(j) < Samples

(* Store and reference are compared at the checkpoint's block.             *)
Mismatch(a) == store[a] # Ledger(last)[a]

(* Mutant of FirstMismatch: a fetch that failed counts as a balance of 0.  *)
FirstMismatchWithZeros(s, answered) ==
    LET bad == {i \in DOMAIN s : IF i \in answered THEN Mismatch(s[i]) ELSE store[s[i]] # 0}
    IN  IF bad = {} THEN 0 ELSE CHOOSE i \in bad : \A j \in bad : i <= j

(* The position of the first address whose fetch succeeds and that does    *)
(* not match, 0 if there is none.                                          *)
FirstMismatch(s, answered) ==
    LET bad == {i \in answered : Mismatch(s[i])}
    IN  IF bad = {} THEN 0 ELSE CHOOSE i \in bad : \A j \in bad : i <= j

(* Mutant of Recorded: every blind checkpoint counts as a deferred one.    *)
RecordedAlike(outcome) ==
    CASE outcome = "success"  -> [dark |-> 0, deferred |-> 0, streak |-> <<>>]
      [] outcome = "empty"    -> [dark |-> dark, deferred |-> deferred, streak |-> streak]
      [] outcome = "deferred" -> [dark |-> dark + 1, deferred |-> deferred + 1,
                                  streak |-> Append(streak, outcome)]
      [] outcome = "dark"     -> [dark |-> dark + 1, deferred |-> deferred + 1,
                                  streak |-> Append(streak, outcome)]

(* The health record after a checkpoint: the streak of blind checkpoints,  *)
(* and how many of them were deferred.  A failed one sets the latter to 0. *)
Recorded(outcome) ==
    CASE outcome = "success"  -> [dark |-> 0, deferred |-> 0, streak |-> <<>>]
      [] outcome = "empty"    -> [dark |-> dark, deferred |-> deferred, streak |-> streak]
      [] outcome = "deferred" -> [dark |-> dark + 1, deferred |-> deferred + 1,
                                  streak |-> Append(streak, outcome)]
      [] outcome = "dark"     -> [dark |-> dark + 1, deferred |-> 0,
                                  streak |-> Append(streak, outcome)]

(* The alarm that is raised every so many blind checkpoints in a row.      *)
Cause(h) ==
    IF h.dark = 0 \/ h.dark % Escalation # 0 THEN "none"
    ELSE IF h.deferred >= h.dark THEN "all_deferred"
    ELSE IF h.deferred > 0 THEN "mixed"
    ELSE "all_failed"

Record(outcome) ==
    LET h == Recorded(outcome)
    IN  /\ dark' = h.dark /\ deferred' = h.deferred /\ streak' = h.streak
        /\ alarm' = IF outcome \in {"dark", "deferred"} THEN Cause(h) ELSE "none"

Defer ==
    /\ finalized - last > RecentDepth
    /\ \E list \in Candidates :
          /\ reservoir' = InsertMany(reservoir, list)
          /\ owed' = owed \cup (ElementsOf(list) \cap ElementsOf(reservoir'))
    /\ Record("deferred")
    /\ due' = FALSE
    /\ UNCHANGED <<following, haltedOn>>

(* The candidates are compared first; a mismatch among them returns at     *)
(* once.  Otherwise the outcome is recorded and the reservoir drained,     *)
(* where a mismatch returns as well.                                       *)
Compare(list, answered, answeredLater) ==
    LET tried    == 1 .. Attempts(list, answered)
        compared == {list[i] : i \in answered \cap tried}
        outcome  == IF list = <<>> THEN "empty"
                    ELSE IF compared # {} THEN "success" ELSE "dark"
        wrong    == FirstMismatch(list, answered \cap tried)
        popped   == Popped(reservoir)
        later    == FirstMismatch(popped, answeredLater)
    IN  \/ /\ wrong # 0
           /\ following' = FALSE /\ haltedOn' = list[wrong]
           /\ UNCHANGED <<reservoir, healthVars, owed>>
        \/ /\ wrong = 0
           /\ Record(outcome)
           /\ following' = (later = 0)
           /\ haltedOn' = IF later = 0 THEN None ELSE popped[later]
           /\ reservoir' = Requeued(Rest(reservoir),
                                    IF later = 0 THEN popped ELSE SubSeq(popped, 1, later - 1),
                                    answeredLater)
           /\ owed' = owed \ (compared \cup {popped[i] : i \in answeredLater})

Check ==
    /\ finalized - last <= RecentDepth
    /\ \E list \in Candidates :
          \E answered \in SUBSET DOMAIN list, answeredLater \in SUBSET DOMAIN Popped(reservoir) :
             Compare(list, answered, answeredLater)
    /\ due' = FALSE

Checkpoint ==
    /\ following /\ due
    /\ Defer \/ Check
    /\ UNCHANGED <<chain, finalized, complete, last, store, corrections>>

Following == LoopStep /\ UNCHANGED <<reservoir, healthVars, haltedOn, owed>>

ReconcileNext == Following \/ Checkpoint

ReconcileSpec == ReconcileInit /\ [][ReconcileNext]_reconcileVars

-----------------------------------------------------------------------------

(* When the loop stops, the deployment is wrong about the account or does  *)
(* not claim to know it: a complete one is never stopped while right, a    *)
(* partial one over nothing but an untracked account.                      *)
HaltIsJustified ==
    haltedOn # None => ~AnswersRight(haltedOn) \/ (~complete /\ store[haltedOn] = 0)

(* Deferred verification is not skipped verification: a candidate that a   *)
(* deferred checkpoint queued stays queued until it has been compared,     *)
(* through failed fetches, later deferrals and drained checkpoints.        *)
DeferredIsNotSkipped == following => owed \subseteq ElementsOf(reservoir)

(* When the alarm blames the catch-up alone, no checkpoint of the streak   *)
(* was one that asked the reference provider; when it blames both, there   *)
(* was one of either kind.                                                 *)
CatchUpIsNamedRightly ==
    /\ alarm = "all_deferred" => \A i \in DOMAIN streak : streak[i] = "deferred"
    /\ alarm = "mixed" => {"dark", "deferred"} \subseteq ElementsOf(streak)

(* What the checkpoints say of the deployment is so: the account they halt *)
(* the loop over is wrong, and the catch-up they blame is what it was      *)
(* (mainnet.rs:2296, reconcile.rs:236).                                    *)
CheckpointsAreTrue == HaltIsJustified /\ CatchUpIsNamedRightly
=============================================================================
