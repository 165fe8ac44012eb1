--------------------------- MODULE Verdicts_proofs ----------------------------
(***************************************************************************)
(* What the project says of itself is true: the probe's report, the node's *)
(* own figures, the conformance gate; for any number of trials, answers,   *)
(* accounts and blocks.                                                    *)
(*                                                                         *)
(* The argument about the probe.  What it has ingested is the sum of what  *)
(* it fetched, and what it fetched is chained from its bootstrap (Kept,    *)
(* Counted).                                                               *)
(*                                                                         *)
(* The argument about the figures.  Each handler counts before it lets the *)
(* lock go, so what one page reads agrees with what was read before it     *)
(* (CountersAgree, PageAgrees); the accounts listed as recent are the last *)
(* ones of the whole history (RecentIs); a row of the CSV takes the        *)
(* answers since the row before (RowsAgree).                               *)
(*                                                                         *)
(* The argument about the gate.  Every block that the mock may emit        *)
(* deletes accounts that are live and that it does not change again        *)
(* (Lawful), so the harness knows all that is live and lists what came and *)
(* what went once (RecordsAgree).  No account is in two categories, so     *)
(* pieces without repetition make a sample without repetition (Fair).      *)
(***************************************************************************)
EXTENDS Probe, NodeStatus, Conformance, NaturalLemmas, FiniteSetTheorems, TLAPS

-----------------------------------------------------------------------------
(* The measurement probe.                                                  *)

Counts == Int
Zero == 0
Fetches == [from : Nat, to : Nat]

(* The rounds of the fold that counts the blocks of fetches.               *)
CountingOf(s) == [i \in 1 .. Len(s) |-> [n \in Counts |-> n + s[i].to - s[i].from]]

(* The blocks ingested are what a loop over the fetches counts.            *)
LEMMA IngestedIsALoop ==
    ASSUME NEW s \in Seq(Fetches)
    PROVE  /\ CountingOf(s) \in Rounds(Len(s), Counts)
           /\ Ingested(s) = Looped(Len(s), Counts, Zero, CountingOf(s))
<1>1. PICK n : n = Len(s)
  OBVIOUS
<1>2. n \in Nat /\ DOMAIN s = 1 .. n /\ Zero \in Counts /\ \A i \in 1 .. n : s[i] \in Fetches
  BY <1>1 DEF Counts, Zero
<1>3. PICK g : g = CountingOf(s)
  OBVIOUS
<1>4. \A i \in 1 .. n : \A v \in Counts : g[i][v] = v + s[i].to - s[i].from
  BY <1>1, <1>3 DEF CountingOf
<1>5. g \in Rounds(n, Counts)
  BY <1>1, <1>2, <1>3 DEF CountingOf, Rounds, Fetches, Counts
<1>6. PICK h \in [SUBSET (1 .. n) -> Counts] : Unfolds(h, n, Zero, g)
  BY <1>2, <1>5, FoldExists
<1>7. h = [t \in SUBSET DOMAIN s |->
             IF t = {} THEN Zero ELSE h[t \ {Top(t)}] + s[Top(t)].to - s[Top(t)].from]
  <2>1. ASSUME NEW t \in SUBSET (1 .. n), t # {}
        PROVE  h[t] = h[t \ {Top(t)}] + s[Top(t)].to - s[Top(t)].from
    <3>1. Top(t) \in 1 .. n /\ t \ {Top(t)} \in SUBSET (1 .. n)
      BY <1>2, <2>1, TopIs
    <3>2. h[t] = g[Top(t)][h[t \ {Top(t)}]]
      BY <1>6, <2>1 DEF Unfolds
    <3> QED  BY <1>4, <3>1, <3>2
  <2>2. h[{}] = Zero
    BY <1>6 DEF Unfolds
  <2> QED  BY <1>2, <2>1, <2>2
<1>8. PICK k : /\ k = [t \in SUBSET DOMAIN s |->
                      IF t = {} THEN Zero ELSE k[t \ {Top(t)}] + s[Top(t)].to - s[Top(t)].from]
               /\ Ingested(s) = k[DOMAIN s]
  BY <1>7, Zenon DEF Zero, Ingested, FoldLeft, MapThenFoldSet, Top, Max
<1>9. k[{}] = Zero
  BY <1>8
<1>10. ASSUME NEW t \in SUBSET (1 .. n), t # {}, k[t \ {Top(t)}] \in Counts
       PROVE  k[t] = g[Top(t)][k[t \ {Top(t)}]]
  <2>1. Top(t) \in 1 .. n
    BY <1>2, <1>10, TopIs
  <2>2. k[t] = k[t \ {Top(t)}] + s[Top(t)].to - s[Top(t)].from
    BY <1>2, <1>8, <1>10
  <2> QED  BY <1>4, <1>10, <2>1, <2>2
<1>11. k[1 .. n] = Looped(n, Counts, Zero, g)
  <2>1. FoldsBy(k, n, Counts, Zero, g)
    BY <1>9, <1>10 DEF FoldsBy
  <2>2. n \in Nat /\ Zero \in Counts
    BY <1>2
  <2> QED  BY <1>5, <2>1, <2>2, FoldIsLooped
<1> QED  BY <1>1, <1>2, <1>3, <1>5, <1>8, <1>11

(* A fetch more counts its blocks more.                                    *)
LEMMA IngestedAppend ==
    ASSUME NEW s \in Seq(Fetches), NEW e \in Fetches
    PROVE  Ingested(Append(s, e)) = Ingested(s) + e.to - e.from /\ Ingested(s) \in Counts
<1>1. PICK n : n = Len(s)
  OBVIOUS
<1>2. PICK u : u = Append(s, e)
  OBVIOUS
<1>3. /\ n \in Nat /\ n + 1 \in Nat /\ Zero \in Counts /\ u \in Seq(Fetches) /\ Len(u) = n + 1 /\ u[n + 1] = e
      /\ \A i \in 1 .. n : u[i] = s[i]
  BY <1>1, <1>2 DEF Counts, Zero
<1>4. PICK g : g = CountingOf(s)
  OBVIOUS
<1>5. PICK h : h = CountingOf(u)
  OBVIOUS
<1>6. /\ g \in Rounds(n, Counts) /\ Ingested(s) = Looped(n, Counts, Zero, g)
      /\ h \in Rounds(n + 1, Counts) /\ Ingested(u) = Looped(n + 1, Counts, Zero, h)
  BY <1>1, <1>3, <1>4, <1>5, IngestedIsALoop
<1>7. ASSUME NEW i \in 1 .. n PROVE g[i] = h[i]
  <2>1. i \in 1 .. Len(s) /\ i \in 1 .. Len(u) /\ u[i] = s[i]
    BY <1>1, <1>3
  <2>2. /\ g[i] = [m \in Counts |-> m + s[i].to - s[i].from]
        /\ h[i] = [m \in Counts |-> m + u[i].to - u[i].from]
    BY <1>4, <1>5, <2>1, Zenon DEF CountingOf
  <2> QED  BY <2>1, <2>2, Zenon
<1>8. Ingested(u) = h[n + 1][Ingested(s)]
  <2>1. n \in Nat /\ Zero \in Counts
    BY <1>3
  <2> QED  BY <1>6, <1>7, <2>1, LoopedMore
<1>9. Ingested(s) \in Counts
  <2>1. n \in Nat /\ Zero \in Counts
    BY <1>3
  <2> QED  BY <1>6, <2>1, LoopedIs
<1> QED  BY <1>2, <1>3, <1>5, <1>8, <1>9 DEF CountingOf

(* And fetches more count theirs.                                          *)
LEMMA IngestedConcat ==
    ASSUME NEW s \in Seq(Fetches), NEW t \in Seq(Fetches)
    PROVE  Ingested(s \o t) = Ingested(s) + Ingested(t) /\ Ingested(s) \in Int /\ Ingested(t) \in Int
<1> DEFINE Upto(k) == SubSeq(t, 1, k)
<1>1. PICK n : n = Len(t)
  OBVIOUS
<1>2. PICK f : f = [k \in 0 .. n |-> Ingested(s \o Upto(k)) - Ingested(Upto(k))]
  OBVIOUS
<1>3. PICK W : W = [k \in 0 .. n |-> {Ingested(s)}]
  OBVIOUS
<1>4. n \in Nat
  BY <1>1
<1>5. Upto(0) = <<>> /\ s \o <<>> = s /\ Upto(n) = t
  BY <1>1
<1>6. Ingested(<<>>) = 0
  <2>1. <<>> \in Seq(Fetches) /\ Len(<<>>) = 0 /\ Zero \in Counts
    BY DEF Counts, Zero
  <2>2. CountingOf(<<>>) \in Rounds(0, Counts) /\ Ingested(<<>>) = Looped(0, Counts, Zero, CountingOf(<<>>))
    BY <2>1, IngestedIsALoop
  <2> QED  BY <2>1, <2>2, LoopedNone DEF Zero
<1>7. Ingested(s) \in Int /\ Ingested(t) \in Int /\ Ingested(s \o t) \in Int
  <2>1. \A u \in Seq(Fetches) : Ingested(u) \in Int
    <3>1. [from |-> 0, to |-> 0] \in Fetches
      BY DEF Fetches
    <3> QED  BY <3>1, IngestedAppend DEF Counts
  <2>2. s \o t \in Seq(Fetches)
    OBVIOUS
  <2> QED  BY <2>1, <2>2
<1>8. f[0] \in W[0]
  BY <1>2, <1>3, <1>4, <1>5, <1>6, <1>7
<1>9. ASSUME NEW i \in 1 .. n, f[i - 1] \in W[i - 1] PROVE f[i] \in W[i]
  <2>1. i - 1 \in 0 .. n /\ i \in 0 .. n /\ t[i] \in Fetches
    BY <1>1
  <2>2. /\ Upto(i - 1) \in Seq(Fetches) /\ s \o Upto(i - 1) \in Seq(Fetches)
        /\ Upto(i) = Append(Upto(i - 1), t[i])
        /\ s \o Upto(i) = Append(s \o Upto(i - 1), t[i])
    BY <1>1, <2>1
  <2> HIDE DEF Upto
  <2>3. /\ Ingested(Upto(i)) = Ingested(Upto(i - 1)) + t[i].to - t[i].from
        /\ Ingested(Upto(i - 1)) \in Int
    <3>1. /\ Ingested(Append(Upto(i - 1), t[i])) = Ingested(Upto(i - 1)) + t[i].to - t[i].from
          /\ Ingested(Upto(i - 1)) \in Counts
      BY <2>1, <2>2, IngestedAppend, Zenon
    <3> QED  BY <2>2, <3>1 DEF Counts
  <2>4. /\ Ingested(s \o Upto(i)) = Ingested(s \o Upto(i - 1)) + t[i].to - t[i].from
        /\ Ingested(s \o Upto(i - 1)) \in Int
    <3>1. /\ Ingested(Append(s \o Upto(i - 1), t[i])) = Ingested(s \o Upto(i - 1)) + t[i].to - t[i].from
          /\ Ingested(s \o Upto(i - 1)) \in Counts
      BY <2>1, <2>2, IngestedAppend, Zenon
    <3> QED  BY <2>2, <3>1 DEF Counts
  <2>5. t[i].to \in Nat /\ t[i].from \in Nat
    BY <2>1 DEF Fetches
  <2>6. f[i] = f[i - 1]
    BY <1>2, <2>1, <2>3, <2>4, <2>5
  <2> QED  BY <1>3, <1>9, <2>1, <2>6
<1> HIDE DEF Upto
<1>10. \A i \in 0 .. n : f[i] \in W[i]
  BY <1>4, <1>8, <1>9, UpToNat
<1>11. f[n] = Ingested(s)
  BY <1>3, <1>4, <1>10
<1>12. f[n] = Ingested(s \o t) - Ingested(t)
  BY <1>2, <1>4, <1>5
<1> QED  BY <1>7, <1>11, <1>12

(* A trial, and the counters.                                              *)
Trials == [absent : BOOLEAN, to : Nat, at : Nat, fetches : Seq(Fetches), attempts : {1, 2},
           checked : {"skipped"}]
Counters == [trials : Nat, ok : Nat, errors : Nat, ingested : Int,
             matched : Nat, mismatched : Nat, failed : Nat, skipped : Nat]

ProbeTypeOK ==
    /\ nodeHead \in Nat
    /\ session \in [pinned : Nat, at : Nat]
    /\ trial \in Trials
    /\ blockRows \in Seq(Fetches)
    /\ summary \in Counters

(* The fetches f follow each other up to block b, but for the bundles taken*)
(* at the blocks S, of which the last was at p.                            *)
Chained(f, b, p, S) ==
    /\ \A i \in 1 .. Len(f) : /\ f[i].from < f[i].to
                              /\ f[i].from \in S \cup (IF i = 1 THEN {} ELSE {f[i - 1].to})
    /\ b = p \/ (Len(f) > 0 /\ b = f[Len(f)].to)

(* Between trials every fetch has its row, and a session that runs was     *)
(* started from a bundle.                                                  *)
Kept ==
    /\ Chained(blockRows \o trial.fetches, session.at, session.pinned, starts)
    /\ pc = "bootstrap" => blockRows = <<>>
    /\ pc \in {"bootstrap", "following", "next"} => trial.fetches = <<>>
    /\ pc \notin {"bootstrap", "stopped"} => session.pinned \in starts

Counted ==
    /\ summary.ok + summary.errors = summary.trials
    /\ summary.matched + summary.mismatched + summary.failed + summary.skipped = summary.trials
    /\ summary.ingested = Ingested(blockRows)
    /\ summary.mismatched = 0

ProbeInv == ProbeTypeOK /\ Kept /\ Counted

(* A fetch from where the session stands keeps the chain.                  *)
LEMMA ChainGrows ==
    ASSUME NEW f \in Seq(Fetches), NEW b \in Nat, NEW p, NEW S, p \in S, Chained(f, b, p, S),
           NEW to \in Nat, b < to
    PROVE  /\ Fetch(b, to) \in Fetches
           /\ Append(f, Fetch(b, to)) \in Seq(Fetches)
           /\ Chained(Append(f, Fetch(b, to)), to, p, S)
<1>1. PICK e : e = Fetch(b, to)
  OBVIOUS
<1>2. e \in Fetches /\ e.from = b /\ e.to = to
  BY <1>1 DEF Fetch, Fetches
<1>3. PICK n : n = Len(f)
  OBVIOUS
<1>4. PICK u : u = Append(f, e)
  OBVIOUS
<1>5. /\ n \in Nat /\ u \in Seq(Fetches) /\ Len(u) = n + 1 /\ u[n + 1] = e
      /\ \A i \in 1 .. n : u[i] = f[i]
  BY <1>2, <1>3, <1>4
<1>6. ASSUME NEW i \in 1 .. n + 1
      PROVE  u[i].from < u[i].to /\ u[i].from \in S \cup (IF i = 1 THEN {} ELSE {u[i - 1].to})
  <2>1. CASE i = n + 1
    <3>1. n = 0 => b = p
      BY <1>3 DEF Chained
    <3>2. n > 0 => n \in 1 .. n /\ b \in {p, f[n].to} /\ u[n] = f[n]
      BY <1>3, <1>5 DEF Chained
    <3> QED  BY <1>2, <1>5, <2>1, <3>1, <3>2
  <2>2. CASE i # n + 1
    <3>1. i \in 1 .. n /\ (i # 1 => i - 1 \in 1 .. n)
      BY <1>5, <2>2
    <3>2. u[i] = f[i] /\ (i # 1 => u[i - 1] = f[i - 1])
      BY <1>5, <3>1
    <3> QED  BY <1>3, <3>1, <3>2 DEF Chained
  <2> QED  BY <2>1, <2>2
<1>7. Chained(u, to, p, S)
  BY <1>2, <1>5, <1>6 DEF Chained
<1> QED  BY <1>1, <1>2, <1>4, <1>5, <1>7

(* So does a fresh bundle.                                                 *)
LEMMA ChainRestarts ==
    ASSUME NEW f, NEW b, NEW p, NEW S, Chained(f, b, p, S), NEW h
    PROVE  Chained(f, h, h, S \cup {h})
<1>1. ASSUME NEW i \in 1 .. Len(f)
      PROVE  /\ f[i].from < f[i].to
             /\ f[i].from \in (S \cup {h}) \cup (IF i = 1 THEN {} ELSE {f[i - 1].to})
  <2>1. f[i].from < f[i].to /\ f[i].from \in S \cup (IF i = 1 THEN {} ELSE {f[i - 1].to})
    BY Zenon DEF Chained
  <2> QED  BY <2>1, Zenon
<1>2. h = h \/ (Len(f) > 0 /\ h = f[Len(f)].to)
  OBVIOUS
<1> QED  BY <1>1, <1>2 DEF Chained

(* A chain without a fetch.                                                *)
LEMMA NoChain ==
    ASSUME NEW p, NEW S
    PROVE  Chained(<<>> \o <<>>, p, p, S)
<1>1. <<>> \o <<>> = <<>> /\ 1 .. Len(<<>>) = {}
  OBVIOUS
<1>2. p = p \/ (Len(<<>>) > 0 /\ p = <<>>[Len(<<>>)].to)
  OBVIOUS
<1>3. Chained(<<>>, p, p, S)
  BY <1>1, <1>2 DEF Chained
<1> QED  BY <1>1, <1>3

(* The probe starts with nothing fetched and nothing counted.              *)
LEMMA ProbeInitInv == ProbeInit => ProbeInv
<1> SUFFICES ASSUME ProbeInit PROVE ProbeInv
  OBVIOUS
<1>1. ProbeTypeOK
  BY DEF ProbeInit, ProbeTypeOK, NoTrial, NoCount, Trials, Counters
<1>2. Kept
  BY NoChain DEF ProbeInit, Kept, NoTrial
<1>3. Ingested(<<>>) = 0
  <2>1. <<>> \in Seq(Fetches) /\ Len(<<>>) = 0 /\ Zero \in Counts
    BY DEF Zero, Counts
  <2>2. CountingOf(<<>>) \in Rounds(0, Counts) /\ Ingested(<<>>) = Looped(0, Counts, Zero, CountingOf(<<>>))
    BY <2>1, IngestedIsALoop
  <2> QED  BY <2>1, <2>2, LoopedNone DEF Zero
<1>4. Counted
  BY <1>3 DEF ProbeInit, Counted, NoCount
<1> QED  BY <1>1, <1>2, <1>4 DEF ProbeInv

(* A step that neither fetches nor counts, and goes on with the session.   *)
LEMMA ProbeMoves ==
    ASSUME ProbeInv, nodeHead' \in Nat, trial' \in Trials, trial'.fetches = trial.fetches,
           UNCHANGED <<session, blockRows, summary, starts>>,
           pc' # "bootstrap", pc' \in {"following", "next"} => trial.fetches = <<>>,
           pc' # "stopped" => pc \notin {"bootstrap", "stopped"}
    PROVE  ProbeInv'
<1>1. ProbeTypeOK'
  BY DEF ProbeInv, ProbeTypeOK
<1>2. Kept'
  BY DEF ProbeInv, Kept
<1> QED  BY <1>1, <1>2 DEF ProbeInv, Counted

(* The deployment moves on.                                                *)
LEMMA HeadMovesInv == ASSUME ProbeInv, HeadMoves PROVE ProbeInv'
<1>1. ProbeTypeOK'
  BY DEF HeadMoves, ProbeInv, ProbeTypeOK
<1> QED  BY <1>1 DEF HeadMoves, ProbeInv, Kept, Counted

(* The probe starts from the bundle of the head, nothing fetched yet, or   *)
(* ends.                                                                   *)
LEMMA BootstrapInv == ASSUME ProbeInv, Bootstrap PROVE ProbeInv'
<1>1. /\ pc = "bootstrap" /\ blockRows = <<>> /\ trial.fetches = <<>>
      /\ UNCHANGED <<nodeHead, left, trial, blockRows, summary>>
  BY DEF Bootstrap, ProbeInv, Kept
<1>2. CASE UNCHANGED <<session, starts>> /\ pc' = "stopped"
  BY <1>1, <1>2, ProbeMoves DEF ProbeInv, ProbeTypeOK
<1>3. CASE /\ session' = [pinned |-> nodeHead, at |-> nodeHead] /\ starts' = {nodeHead}
           /\ pc' = "following"
  <2>1. ProbeTypeOK'
    BY <1>1, <1>3 DEF ProbeInv, ProbeTypeOK
  <2>2. session'.pinned = nodeHead /\ session'.at = nodeHead
    BY <1>3
  <2>3. Kept'
    BY <1>1, <1>3, <2>2, NoChain DEF Kept
  <2> QED  BY <1>1, <2>1, <2>3 DEF ProbeInv, Counted
<1> QED  BY <1>2, <1>3 DEF Bootstrap

(* A follow step has its row at once.                                      *)
LEMMA FollowInv == ASSUME ProbeInv, Follow PROVE ProbeInv'
<1>1. PICK e : e = Fetch(session.at, nodeHead)
  OBVIOUS
<1>2. /\ pc = "following" /\ session.at < nodeHead /\ session' = [session EXCEPT !.at = nodeHead]
      /\ blockRows' = Append(blockRows, e)
      /\ summary' = [summary EXCEPT !.ingested = @ + nodeHead - session.at]
      /\ UNCHANGED <<nodeHead, pc, left, trial, mishaps, starts>>
  BY <1>1, Zenon DEF Follow
<1>3. /\ session \in [pinned : Nat, at : Nat] /\ nodeHead \in Nat /\ blockRows \in Seq(Fetches)
      /\ summary \in Counters /\ trial \in Trials
      /\ trial.fetches = <<>> /\ session.pinned \in starts
      /\ Chained(blockRows \o trial.fetches, session.at, session.pinned, starts)
  BY <1>2 DEF ProbeInv, ProbeTypeOK, Kept
<1>4. blockRows \o trial.fetches = blockRows /\ session.at \in Nat /\ session.pinned \in Nat
  BY <1>3
<1>5. /\ e \in Fetches /\ blockRows' \in Seq(Fetches)
      /\ Chained(blockRows', nodeHead, session.pinned, starts)
  BY <1>1, <1>2, <1>3, <1>4, ChainGrows
<1>6. session' \in [pinned : Nat, at : Nat] /\ session'.at = nodeHead /\ session'.pinned = session.pinned
  BY <1>2, <1>3
<1>7. blockRows' \o trial'.fetches = blockRows'
  BY <1>2, <1>3, <1>5
<1>8. Kept'
  BY <1>2, <1>3, <1>5, <1>6, <1>7 DEF Kept
<1>9. Ingested(blockRows') = Ingested(blockRows) + nodeHead - session.at /\ Ingested(blockRows) \in Int
  <2>1. Ingested(Append(blockRows, e)) = Ingested(blockRows) + e.to - e.from /\ Ingested(blockRows) \in Counts
    BY <1>3, <1>5, IngestedAppend, Zenon
  <2>2. e.to = nodeHead /\ e.from = session.at
    BY <1>1 DEF Fetch
  <2> QED  BY <1>2, <2>1, <2>2 DEF Counts
<1>10. summary' \in Counters
  <2>1. PICK n : n = summary.ingested + nodeHead - session.at
    OBVIOUS
  <2>2. n \in Int
    BY <1>3, <1>4, <2>1 DEF Counters
  <2>3. summary' = [summary EXCEPT !.ingested = n]
    BY <1>2, <2>1
  <2> QED  BY <1>3, <2>2, <2>3 DEF Counters
<1>11. Counted'
  BY <1>2, <1>3, <1>9 DEF Counted, ProbeInv, Counters
<1>12. ProbeTypeOK'
  BY <1>2, <1>3, <1>5, <1>6, <1>10 DEF ProbeTypeOK
<1> QED  BY <1>8, <1>11, <1>12 DEF ProbeInv

(* The session syncs: the fetch is the trial's.                            *)
LEMMA SyncedInv ==
    ASSUME ProbeInv, NEW to \in Nat, SyncedTo(to), pc \in {"sync", "resync"},
           pc' \in {"answer", "confirm"}, UNCHANGED <<nodeHead, blockRows, summary, starts>>
    PROVE  ProbeInv'
<1>1. PICK f : f = trial.fetches
  OBVIOUS
<1>2. /\ session \in [pinned : Nat, at : Nat] /\ nodeHead \in Nat /\ blockRows \in Seq(Fetches)
      /\ trial \in Trials /\ f \in Seq(Fetches) /\ session.pinned \in starts
      /\ Chained(blockRows \o f, session.at, session.pinned, starts)
  BY <1>1 DEF ProbeInv, ProbeTypeOK, Kept, Trials
<1>3. CASE ~(to > session.at)
  <2>1. session' = session /\ trial' = trial
    BY <1>2, <1>3 DEF SyncedTo
  <2> QED  BY <1>2, <2>1, ProbeMoves
<1>4. CASE to > session.at
  <2>1. PICK e : e = Fetch(session.at, to)
    OBVIOUS
  <2>2. session' = [session EXCEPT !.at = to] /\ trial' = [trial EXCEPT !.fetches = Append(f, e)]
    BY <1>1, <1>2, <1>4, <2>1 DEF SyncedTo
  <2>3. /\ session' \in [pinned : Nat, at : Nat] /\ session'.at = to
        /\ session'.pinned = session.pinned /\ session.at \in Nat /\ session.at < to
    BY <1>2, <1>4, <2>2
  <2>4. blockRows \o f \in Seq(Fetches)
    BY <1>2
  <2>5. e \in Fetches /\ Chained(Append(blockRows \o f, e), to, session.pinned, starts)
    BY <1>2, <2>1, <2>3, <2>4, ChainGrows
  <2>6. trial' \in Trials /\ trial'.fetches = Append(f, e)
    <3>1. Append(f, e) \in Seq(Fetches)
      BY <1>2, <2>5
    <3> QED  BY <1>2, <2>2, <3>1 DEF Trials
  <2>7. Append(blockRows \o f, e) = blockRows \o Append(f, e)
    <3>1. blockRows \in Seq(Fetches) /\ f \in Seq(Fetches) /\ e \in Fetches
      BY <1>2, <2>5
    <3>2. PICK rows, all : rows = blockRows /\ all = Fetches
      OBVIOUS
    <3>3. rows \in Seq(all)
      BY <3>1, <3>2
    <3>4. f \in Seq(all)
      BY <3>1, <3>2
    <3>5. e \in all
      BY <3>1, <3>2
    <3>6. Append(rows \o f, e) = rows \o Append(f, e)
      BY <3>3, <3>4, <3>5, SMT
    <3> QED  BY <3>2, <3>6
  <2>8. Kept'
    BY <1>2, <2>3, <2>5, <2>6, <2>7 DEF Kept
  <2>9. ProbeTypeOK'
    BY <1>2, <2>3, <2>6 DEF ProbeTypeOK, ProbeInv
  <2> QED  BY <2>8, <2>9 DEF ProbeInv, Counted
<1> QED  BY <1>3, <1>4

(* A trial ends: its fetches have their rows, and it is counted.           *)
LEMMA RecordedInv ==
    ASSUME ProbeInv, NEW outcome \in {"ok", "errors"}, NEW checked \in {"matched", "failed", "skipped"},
           TrialRecorded(trial.fetches, outcome, checked), pc \notin {"bootstrap", "stopped"},
           UNCHANGED <<nodeHead, session, starts>>
    PROVE  ProbeInv'
<1>1. PICK f : f = trial.fetches
  OBVIOUS
<1>2. /\ blockRows' = blockRows \o f /\ trial' = NoTrial /\ pc' = "next"
      /\ summary' = [summary EXCEPT !.trials = @ + 1, ![outcome] = @ + 1, ![checked] = @ + 1,
                                    !.ingested = @ + Ingested(f)]
  BY <1>1, Zenon DEF TrialRecorded
<1>3. /\ blockRows \in Seq(Fetches) /\ f \in Seq(Fetches) /\ summary \in Counters
  BY <1>1 DEF ProbeInv, ProbeTypeOK, Trials
<1>4. /\ Ingested(blockRows \o f) = Ingested(blockRows) + Ingested(f)
      /\ Ingested(blockRows) \in Int /\ Ingested(f) \in Int
  BY <1>3, IngestedConcat
<1>5. NoTrial \in Trials /\ NoTrial.fetches = <<>>
  BY DEF NoTrial, Trials
<1>6. blockRows' \in Seq(Fetches) /\ blockRows' \o <<>> = blockRows'
  BY <1>2, <1>3
<1>7. Kept'
  BY <1>1, <1>2, <1>5, <1>6 DEF Kept, ProbeInv
<1>8. summary' \in Counters /\ Counted'
  <2>1. /\ summary.ok + summary.errors = summary.trials
        /\ summary.matched + summary.mismatched + summary.failed + summary.skipped = summary.trials
        /\ summary.ingested = Ingested(blockRows) /\ summary.mismatched = 0
    BY DEF Counted, ProbeInv
  <2>2. PICK n : n = summary.ingested + Ingested(f)
    OBVIOUS
  <2>3. n \in Int
    BY <1>3, <1>4, <2>2 DEF Counters
  <2>4. PICK one : one = [summary EXCEPT !.trials = @ + 1, ![outcome] = @ + 1, ![checked] = @ + 1]
    OBVIOUS
  <2>5. /\ one \in Counters
        /\ one.ok + one.errors = one.trials
        /\ one.matched + one.mismatched + one.failed + one.skipped = one.trials
        /\ one.mismatched = summary.mismatched /\ one.ingested = summary.ingested
    <3>1. PICK t : t = [summary EXCEPT !.trials = @ + 1]
      OBVIOUS
    <3>2. /\ t \in Counters /\ t.trials = summary.trials + 1
          /\ t.ok = summary.ok /\ t.errors = summary.errors /\ t.matched = summary.matched
          /\ t.mismatched = summary.mismatched /\ t.failed = summary.failed
          /\ t.skipped = summary.skipped /\ t.ingested = summary.ingested
      BY <1>3, <3>1 DEF Counters
    <3>3. PICK o : o = [t EXCEPT ![outcome] = @ + 1]
      OBVIOUS
    <3>4. /\ o \in Counters /\ o.trials = t.trials /\ o.ok + o.errors = t.ok + t.errors + 1
          /\ o.matched = t.matched /\ o.ingested = t.ingested
          /\ o.mismatched = t.mismatched /\ o.failed = t.failed /\ o.skipped = t.skipped
      <4>1. CASE outcome = "ok"
        BY <3>2, <3>3, <4>1 DEF Counters
      <4>2. CASE outcome = "errors"
        BY <3>2, <3>3, <4>2 DEF Counters
      <4> QED  BY <4>1, <4>2
    <3>5. one = [o EXCEPT ![checked] = @ + 1]
      BY <2>4, <3>1, <3>3
    <3>6. /\ one \in Counters /\ one.trials = o.trials /\ one.ok = o.ok /\ one.errors = o.errors
          /\ one.mismatched = o.mismatched /\ one.ingested = o.ingested
          /\ one.matched + one.failed + one.skipped = o.matched + o.failed + o.skipped + 1
      <4>1. CASE checked = "matched"
        BY <3>4, <3>5, <4>1 DEF Counters
      <4>2. CASE checked = "failed"
        BY <3>4, <3>5, <4>2 DEF Counters
      <4>3. CASE checked = "skipped"
        BY <3>4, <3>5, <4>3 DEF Counters
      <4> QED  BY <4>1, <4>2, <4>3
    <3> QED  BY <1>3, <2>1, <3>2, <3>4, <3>6 DEF Counters
  <2>6. summary' = [one EXCEPT !.ingested = n]
    BY <1>2, <2>2, <2>4, <2>5
  <2>7. /\ summary' \in Counters /\ summary'.ingested = n /\ summary'.ok = one.ok
        /\ summary'.errors = one.errors /\ summary'.trials = one.trials
        /\ summary'.matched = one.matched /\ summary'.mismatched = one.mismatched
        /\ summary'.failed = one.failed /\ summary'.skipped = one.skipped
    BY <2>3, <2>5, <2>6 DEF Counters
  <2> QED  BY <1>2, <1>4, <2>1, <2>2, <2>5, <2>7 DEF Counted
<1>9. ProbeTypeOK'
  BY <1>2, <1>5, <1>6, <1>8 DEF ProbeTypeOK, ProbeInv
<1> QED  BY <1>7, <1>8, <1>9 DEF ProbeInv

(* A trial that stalls goes on from a fresh bundle, or is an error row.    *)
LEMMA TrialStallsInv == ASSUME ProbeInv, TrialStalls PROVE ProbeInv'
<1>1. pc \in {"sync", "resync"} /\ UNCHANGED <<nodeHead, left, mishaps>>
  BY DEF TrialStalls
<1>2. CASE TrialRecorded(trial.fetches, "errors", "skipped") /\ UNCHANGED <<session, starts>>
  BY <1>1, <1>2, RecordedInv
<1>3. CASE /\ session' = [pinned |-> nodeHead, at |-> nodeHead]
           /\ starts' = starts \cup {nodeHead}
           /\ trial' = [trial EXCEPT !.attempts = 2]
           /\ pc' = "head"
           /\ UNCHANGED <<blockRows, summary>>
  <2>1. trial' \in Trials /\ trial'.fetches = trial.fetches
    BY <1>3 DEF ProbeInv, ProbeTypeOK, Trials
  <2>2. ProbeTypeOK'
    BY <1>1, <1>3, <2>1 DEF ProbeInv, ProbeTypeOK
  <2>3. session'.pinned = nodeHead /\ session'.at = nodeHead
    BY <1>3
  <2>4. Chained(blockRows \o trial.fetches, nodeHead, nodeHead, starts \cup {nodeHead})
    BY ChainRestarts DEF ProbeInv, Kept
  <2>5. Kept'
    BY <1>3, <2>1, <2>3, <2>4 DEF Kept
  <2> QED  BY <1>3, <2>2, <2>5 DEF ProbeInv, Counted
<1> QED  BY <1>2, <1>3 DEF TrialStalls

(* The provider is asked for the block of the answer, and so agrees.       *)
LEMMA ConfirmInv == ASSUME ProbeInv, Confirm PROVE ProbeInv'
<1>1. pc = "confirm" /\ UNCHANGED <<nodeHead, left, session, starts>>
  BY DEF Confirm
<1>2. TheirsAt(AskedAt) = Decoded
  BY DEF TheirsAt, AskedAt, Decoded
<1>3. \E checked \in {"matched", "failed", "skipped"} : TrialRecorded(trial.fetches, "ok", checked)
  BY <1>2 DEF Confirm
<1> QED  BY <1>1, <1>3, RecordedInv

(* The next trial starts without a fetch.                                  *)
LEMMA NextTrialInv == ASSUME ProbeInv, NextTrial PROVE ProbeInv'
<1>1. /\ pc = "next" /\ pc' \in {"following", "head"} /\ trial.fetches = <<>>
      /\ trial' = trial \/ \E absent \in BOOLEAN : trial' = [NoTrial EXCEPT !.absent = absent]
      /\ UNCHANGED <<nodeHead, session, blockRows, summary, mishaps, starts>>
  BY DEF NextTrial, ProbeInv, Kept
<1>2. trial' \in Trials /\ trial'.fetches = <<>>
  BY <1>1 DEF NoTrial, Trials, ProbeInv, ProbeTypeOK
<1> QED  BY <1>1, <1>2, ProbeMoves DEF ProbeInv, ProbeTypeOK

(* Every step of the probe keeps its books.                                *)
LEMMA ProbeNextInv == ProbeInv /\ [ProbeNext]_probeVars => ProbeInv'
<1> SUFFICES ASSUME ProbeInv, [ProbeNext]_probeVars PROVE ProbeInv'
  OBVIOUS
<1>1. nodeHead \in Nat /\ trial \in Trials /\ trial.to \in Nat /\ trial.at \in Nat
  BY DEF ProbeInv, ProbeTypeOK, Trials
<1>2. CASE HeadMoves
  BY <1>2, HeadMovesInv
<1>3. CASE Bootstrap
  BY <1>3, BootstrapInv
<1>4. CASE Follow
  BY <1>4, FollowInv
<1>5. CASE StartBatch
  BY <1>1, <1>5, ProbeMoves DEF StartBatch, ProbeInv, Kept
<1>6. CASE StopInTime
  BY <1>1, <1>6, ProbeMoves DEF StopInTime
<1>7. CASE NextTrial
  BY <1>7, NextTrialInv
<1>8. CASE TrialHead
  <2>1. trial' \in Trials /\ trial'.fetches = trial.fetches
    BY <1>1, <1>8 DEF TrialHead, Trials
  <2> QED  BY <1>1, <1>8, <2>1, ProbeMoves DEF TrialHead
<1>9. CASE TrialSync
  BY <1>1, <1>9, SyncedInv DEF TrialSync
<1>10. CASE TrialAnswer
  <2>1. trial' \in Trials /\ trial'.fetches = trial.fetches
    BY <1>1, <1>10 DEF TrialAnswer, Trials
  <2> QED  BY <1>1, <1>10, <2>1, ProbeMoves DEF TrialAnswer
<1>11. CASE TrialFinish
  BY <1>1, <1>11, SyncedInv DEF TrialFinish
<1>12. CASE TrialStalls
  BY <1>12, TrialStallsInv
<1>13. CASE TrialFails
  BY <1>13, RecordedInv DEF TrialFails
<1>14. CASE DecodeFails
  BY <1>1, <1>14, ProbeMoves DEF DecodeFails
<1>15. CASE NotTracked
  BY <1>15, RecordedInv DEF NotTracked
<1>16. CASE Confirm
  BY <1>16, ConfirmInv
<1>17. CASE UNCHANGED probeVars
  BY <1>17 DEF probeVars, ProbeInv, ProbeTypeOK, Kept, Counted
<1> QED  BY <1>2, <1>3, <1>4, <1>5, <1>6, <1>7, <1>8, <1>9, <1>10, <1>11, <1>12, <1>13,
             <1>14, <1>15, <1>16, <1>17 DEF ProbeNext

(* Books kept so make the report true.                                     *)
LEMMA ProbeInvShows == ProbeInv => ReportIsTrue
<1> SUFFICES ASSUME ProbeInv PROVE ReportIsTrue
  OBVIOUS
<1>1. PICK f : f = blockRows \o trial.fetches
  OBVIOUS
<1>2. f \in Seq(Fetches) /\ DOMAIN f = 1 .. Len(f) /\ Len(f) \in Nat
  BY <1>1 DEF ProbeInv, ProbeTypeOK, Trials
<1>3. Chained(f, session.at, session.pinned, starts)
  BY <1>1 DEF ProbeInv, Kept
<1>4. f # <<>> => session.at \in {Last(f).to, session.pinned}
  BY <1>2, <1>3 DEF Chained, Last
<1> QED  BY <1>1, <1>2, <1>3, <1>4 DEF ReportIsTrue, Chained, ProbeInv, Counted

(* The report is true of the run, however many batches, faults and fresh   *)
(* bundles there are: the block rows follow each other, every trial is     *)
(* counted once, and a mismatch is never the probe's own making.           *)
THEOREM ReportsAreAlwaysTrue == ProbeSpec => []ReportIsTrue
<1>1. ProbeInit => ProbeInv
  BY ProbeInitInv
<1>2. ProbeInv /\ [ProbeNext]_probeVars => ProbeInv'
  BY ProbeNextInv
<1>3. ProbeInv => ReportIsTrue
  BY ProbeInvShows
<1> QED  BY <1>1, <1>2, <1>3, PTL DEF ProbeSpec

-----------------------------------------------------------------------------
(* What the node says of itself.                                           *)

Noteworthy == UNION {ToSet(changed) : changed \in ChangedLists}
Durationed == [buckets : [1 .. 2 -> Nat], count : Nat]
Tallies == [requests : [ok : Nat, error : Nat], classes : Nat, answers : Durationed, applied : Nat]
CsvRows == [block : Nat, answers : Int]

StatusTypeOK ==
    /\ step \in {"poll", "apply", "count", "row", "note", "checkpoint", "halted"}
    /\ figures \in [head : Nat, finalized : Nat, counters : Tallies, halted : BOOLEAN,
                    recent : Seq(Noteworthy)]
    /\ serving \in [ok : Nat, error : Nat]
    /\ csv \in [rows : Seq(CsvRows), previous : Int, lost : Nat]
    /\ past \in [touched : Seq(Noteworthy), durations : [Durations -> Nat]]

(* A histogram counts the answers of each duration.                        *)
Tallied(h, timed) ==
    /\ h.buckets[1] = timed[1]
    /\ h.buckets[2] = timed[1] + timed[2]
    /\ h.count = timed[1] + timed[2] + timed[3]

CountersAgree ==
    /\ figures.head = figures.counters.applied + IF step = "count" THEN 1 ELSE 0
    /\ figures.counters.requests.error = figures.counters.classes + serving.error
    /\ Tallied(figures.counters.answers, past.durations)

(* What a page has read at one instant goes with what it read earlier.     *)
PageAgrees ==
    /\ page.lock \in {"none", "counters", "rest", "shown"}
    /\ page.lock = "counters" => page.head \in Nat /\ page.head <= figures.counters.applied + 1
    /\ page.lock \in {"rest", "shown"} =>
          /\ page.head \in Nat /\ page.counters \in Tallies /\ page.timed \in [Durations -> Nat]
          /\ page.head <= page.counters.applied + 1
          /\ page.counters.classes <= page.counters.requests.error
          /\ Tallied(page.counters.answers, page.timed)

RecentIs(recent, touched) ==
    /\ Len(recent) <= RECENT_CAPACITY
    /\ IsRecent(recent, touched)

RowsAgree ==
    /\ csv.previous >= -1 /\ csv.previous <= figures.counters.answers.count
    /\ InRows(csv.rows) <= figures.counters.answers.count
    /\ csv.previous >= 0 => InRows(csv.rows) <= csv.previous
    /\ csv.previous < 0 => csv.rows = <<>>
    /\ \A i \in DOMAIN csv.rows :
          /\ csv.rows[i].block <= figures.head
          /\ step \in {"count", "row"} => csv.rows[i].block < figures.head
          /\ \A j \in 1 .. (i - 1) : csv.rows[j].block < csv.rows[i].block

StatusInv ==
    StatusTypeOK /\ CountersAgree /\ PageAgrees /\ RowsAgree
        /\ RecentIs(figures.recent, past.touched)

-----------------------------------------------------------------------------
(* The figures of a page.                                                  *)

(* What the fold over the durations up to e adds up, whatever its order.   *)
LEMMA SumOfThree ==
    ASSUME NEW e \in 0 .. 3, NEW timed \in [Durations -> Nat], NEW k,
           k = [t \in SUBSET (1 .. e) |->
                  IF t = {} THEN 0
                  ELSE timed[CHOOSE x \in t : TRUE] + k[t \ {CHOOSE x \in t : TRUE}]]
    PROVE  k[1 .. e] = (IF e >= 1 THEN timed[1] ELSE 0) + (IF e >= 2 THEN timed[2] ELSE 0)
                         + (IF e >= 3 THEN timed[3] ELSE 0)
<1> DEFINE Chosen(u) == CHOOSE x \in u : TRUE
<1>1. ASSUME NEW u \in SUBSET (1 .. e), u # {}
      PROVE  Chosen(u) \in u /\ k[u] = timed[Chosen(u)] + k[u \ {Chosen(u)}]
  BY <1>1
<1>2. k[{}] = 0
  OBVIOUS
<1> HIDE DEF Chosen
<1>3. \A u \in SUBSET (1 .. e) : u # {} => \E x \in u : k[u] = timed[x] + k[u \ {x}]
  BY <1>1
<1>4. \A x \in 1 .. e : timed[x] \in Nat
  BY DEF Durations
<1>5. ASSUME NEW x \in 1 .. e PROVE k[{x}] = timed[x]
  <2>1. {x} \in SUBSET (1 .. e) /\ {x} # {}
    OBVIOUS
  <2>2. PICK y \in {x} : k[{x}] = timed[y] + k[{x} \ {y}]
    BY <1>3, <2>1
  <2>3. {x} \ {y} = {} /\ y = x
    BY <2>2
  <2>4. k[{x}] = timed[x] + 0
    BY <1>2, <2>2, <2>3
  <2> QED  BY <1>4, <2>4
<1>6. ASSUME NEW x \in 1 .. e, NEW y \in 1 .. e, x # y
      PROVE  k[{x, y}] = timed[x] + timed[y]
  <2>1. {x, y} \in SUBSET (1 .. e) /\ {x, y} # {}
    OBVIOUS
  <2>2. PICK z \in {x, y} : k[{x, y}] = timed[z] + k[{x, y} \ {z}]
    BY <1>3, <2>1
  <2>3. CASE z = x
    <3>1. {x, y} \ {z} = {y}
      BY <1>6, <2>3
    <3>2. k[{x, y}] = timed[x] + timed[y]
      BY <1>5, <2>2, <2>3, <3>1
    <3> QED  BY <3>2
  <2>4. CASE z = y
    <3>1. {x, y} \ {z} = {x}
      BY <1>6, <2>4
    <3>2. k[{x, y}] = timed[y] + timed[x]
      BY <1>5, <2>2, <2>4, <3>1
    <3> QED  BY <1>4, <3>2
  <2> QED  BY <2>2, <2>3, <2>4
<1>7. CASE e = 0
  <2>1. 1 .. e = {}
    BY <1>7
  <2> QED  BY <1>2, <1>7, <2>1
<1>8. CASE e = 1
  <2>1. 1 .. e = {1}
    BY <1>8
  <2>2. k[1 .. e] = timed[1] /\ timed[1] \in Nat
    BY <1>4, <1>5, <2>1
  <2> QED  BY <1>8, <2>2
<1>9. CASE e = 2
  <2>1. 1 .. e = {1, 2}
    BY <1>9
  <2>2. k[1 .. e] = timed[1] + timed[2] /\ timed[1] \in Nat /\ timed[2] \in Nat
    BY <1>4, <1>6, <2>1
  <2> QED  BY <1>9, <2>2
<1>10. CASE e = 3
  <2>1. PICK u : u = 1 .. e
    OBVIOUS
  <2>2. u \in SUBSET (1 .. e) /\ u # {}
    BY <1>10, <2>1
  <2>3. PICK z \in u : k[u] = timed[z] + k[u \ {z}]
    BY <1>3, <2>2
  <2>4. /\ 1 \in 1 .. e /\ 2 \in 1 .. e /\ 3 \in 1 .. e
        /\ z = 1 \/ z = 2 \/ z = 3
    BY <1>10, <2>1, <2>3
  <2>5. k[{2, 3}] = timed[2] + timed[3] /\ k[{1, 3}] = timed[1] + timed[3]
        /\ k[{1, 2}] = timed[1] + timed[2]
    BY <1>6, <2>4
  <2>6. /\ z = 1 => u \ {z} = {2, 3}
        /\ z = 2 => u \ {z} = {1, 3}
        /\ z = 3 => u \ {z} = {1, 2}
    BY <1>10, <2>1
  <2>7. timed[1] \in Nat /\ timed[2] \in Nat /\ timed[3] \in Nat
    BY <1>4, <2>4
  <2>8. k[u] = timed[1] + timed[2] + timed[3]
    <3>1. CASE z = 1
      <4>1. k[u] = timed[1] + (timed[2] + timed[3])
        BY <2>3, <2>5, <2>6, <3>1
      <4> QED  BY <2>7, <4>1
    <3>2. CASE z = 2
      <4>1. k[u] = timed[2] + (timed[1] + timed[3])
        BY <2>3, <2>5, <2>6, <3>2
      <4> QED  BY <2>7, <4>1
    <3>3. CASE z = 3
      <4>1. k[u] = timed[3] + (timed[1] + timed[2])
        BY <2>3, <2>5, <2>6, <3>3
      <4> QED  BY <2>7, <4>1
    <3> QED  BY <2>4, <3>1, <3>2, <3>3
  <2> QED  BY <1>10, <2>1, <2>7, <2>8
<1>11. e = 0 \/ e = 1 \/ e = 2 \/ e = 3
  OBVIOUS
<1> QED  BY <1>7, <1>8, <1>9, <1>10, <1>11

(* The answers within a bound are those of the durations up to it.         *)
LEMMA AnsweredWithinIs ==
    ASSUME NEW e \in 0 .. 3, NEW timed \in [Durations -> Nat]
    PROVE  AnsweredWithin(e, timed) =
             (IF e >= 1 THEN timed[1] ELSE 0) + (IF e >= 2 THEN timed[2] ELSE 0)
               + (IF e >= 3 THEN timed[3] ELSE 0)
<1> DEFINE Chosen(u) == CHOOSE x \in u : TRUE
           Part(u) == (IF 1 \in u THEN timed[1] ELSE 0) + (IF 2 \in u THEN timed[2] ELSE 0)
                        + (IF 3 \in u THEN timed[3] ELSE 0)
<1>1. PICK h : h = [u \in SUBSET (1 .. e) |-> Part(u)]
  OBVIOUS
<1>2. timed[1] \in Nat /\ timed[2] \in Nat /\ timed[3] \in Nat
  BY DEF Durations
<1>3. ASSUME NEW u \in SUBSET (1 .. e), NEW x \in u
      PROVE  Part(u) = timed[x] + Part(u \ {x})
  <2>1. x = 1 \/ x = 2 \/ x = 3
    OBVIOUS
  <2>2. PICK w : w = u \ {x}
    OBVIOUS
  <2>3. /\ x \in u /\ ~(x \in w)
        /\ \A y \in {1, 2, 3} : y # x => (y \in u <=> y \in w)
    BY <2>2
  <2>4. Part(u) = timed[x] + Part(w)
    BY <1>2, <2>1, <2>3
  <2> HIDE DEF Part
  <2> QED  BY <2>2, <2>4
<1>4. Part({}) = 0
  OBVIOUS
<1> HIDE DEF Part
<1>5. h = [u \in SUBSET (1 .. e) |-> IF u = {} THEN 0 ELSE timed[Chosen(u)] + h[u \ {Chosen(u)}]]
  <2>1. ASSUME NEW u \in SUBSET (1 .. e), u # {}
        PROVE  h[u] = timed[Chosen(u)] + h[u \ {Chosen(u)}]
    <3>1. Chosen(u) \in u
      BY <2>1
    <3> HIDE DEF Chosen
    <3>2. u \ {Chosen(u)} \in SUBSET (1 .. e)
      OBVIOUS
    <3> QED  BY <1>1, <1>3, <3>1, <3>2
  <2>2. {} \in SUBSET (1 .. e)
    OBVIOUS
  <2> HIDE DEF Chosen
  <2> QED  BY <1>1, <1>4, <2>1, <2>2
<1>6. PICK k : /\ k = [u \in SUBSET (1 .. e) |->
                        IF u = {} THEN 0 ELSE timed[Chosen(u)] + k[u \ {Chosen(u)}]]
               /\ AnsweredWithin(e, timed) = k[1 .. e]
  BY <1>5, Zenon DEF AnsweredWithin, FoldFunctionOnSet, MapThenFoldSet
<1>7. k = [t \in SUBSET (1 .. e) |->
             IF t = {} THEN 0
             ELSE timed[CHOOSE x \in t : TRUE] + k[t \ {CHOOSE x \in t : TRUE}]]
  BY <1>6
<1>8. k[1 .. e] = (IF e >= 1 THEN timed[1] ELSE 0) + (IF e >= 2 THEN timed[2] ELSE 0)
                    + (IF e >= 3 THEN timed[3] ELSE 0)
  BY <1>7, SumOfThree, Zenon
<1> QED  BY <1>6, <1>8

(* quantile() is that of the answers a histogram has counted.              *)
LEMMA QuantileIs ==
    ASSUME NEW timed \in [Durations -> Nat], NEW h \in Durationed, Tallied(h, timed), h.count > 0,
           NEW q \in {50, 90, 99}
    PROVE  IsQuantile(QuantileBucket(h, q), q, timed)
<1>1. /\ timed[1] \in Nat /\ timed[2] \in Nat /\ timed[3] \in Nat
      /\ h.buckets[1] = timed[1] /\ h.buckets[2] = timed[1] + timed[2]
      /\ h.count = timed[1] + timed[2] + timed[3]
  BY DEF Durations, Tallied
<1>2. /\ AnsweredWithin(0, timed) = 0
      /\ AnsweredWithin(1, timed) = timed[1]
      /\ AnsweredWithin(2, timed) = timed[1] + timed[2]
      /\ AnsweredWithin(3, timed) = timed[1] + timed[2] + timed[3]
  <2>1. 0 \in 0 .. 3 /\ 1 \in 0 .. 3 /\ 2 \in 0 .. 3 /\ 3 \in 0 .. 3
    OBVIOUS
  <2> QED  BY <1>1, <2>1, AnsweredWithinIs
<1>3. PICK reach : reach = {i \in DOMAIN Bounds : 100 * h.buckets[i] >= q * h.count}
  OBVIOUS
<1>4. DOMAIN Bounds = {1, 2} /\ Len(Bounds) = 2
  BY DEF Bounds
<1>5. QuantileBucket(h, q) = IF reach = {} THEN 3 ELSE CHOOSE i \in reach : \A j \in reach : i <= j
  BY <1>3, <1>4 DEF QuantileBucket
<1>6. /\ 1 \in reach <=> 100 * timed[1] >= q * h.count
      /\ 2 \in reach <=> 100 * (timed[1] + timed[2]) >= q * h.count
      /\ reach \subseteq {1, 2}
  BY <1>1, <1>3, <1>4
<1>7. 100 * AnsweredWithin(0, timed) < q * h.count /\ 100 * h.count >= q * h.count
  BY <1>1, <1>2
<1>8. CASE 1 \notin reach /\ 2 \notin reach
  <2>1. QuantileBucket(h, q) = 3
    <3>1. reach = {}
      BY <1>6, <1>8
    <3> QED  BY <1>5, <3>1
  <2>2. ~(100 * (timed[1] + timed[2]) >= q * h.count) /\ q * h.count \in Int
    BY <1>1, <1>6, <1>8
  <2> QED  BY <1>1, <1>2, <1>7, <2>1, <2>2 DEF IsQuantile
<1>9. CASE 1 \in reach
  <2>1. \E i \in reach : \A j \in reach : i <= j
    BY <1>6, <1>9
  <2>2. PICK d \in reach : d = QuantileBucket(h, q) /\ \A j \in reach : d <= j
    BY <1>5, <1>9, <2>1
  <2>3. d = 1
    BY <1>6, <1>9, <2>2
  <2> QED  BY <1>1, <1>2, <1>6, <1>7, <1>9, <2>2, <2>3 DEF IsQuantile
<1>10. CASE 1 \notin reach /\ 2 \in reach
  <2>1. \E i \in reach : \A j \in reach : i <= j
    BY <1>6, <1>10
  <2>2. PICK d \in reach : d = QuantileBucket(h, q) /\ \A j \in reach : d <= j
    BY <1>5, <1>10, <2>1
  <2>3. d = 2
    BY <1>6, <1>10, <2>2
  <2>4. ~(100 * timed[1] >= q * h.count) /\ q * h.count \in Int
    BY <1>1, <1>6, <1>10
  <2> QED  BY <1>1, <1>2, <1>6, <1>7, <1>10, <2>2, <2>3, <2>4 DEF IsQuantile
<1> QED  BY <1>8, <1>9, <1>10

-----------------------------------------------------------------------------
(* The rows of the CSV.                                                    *)

(* The rounds of the fold that adds up the rows' answers.                  *)
AddingOf(rows) == [i \in 1 .. Len(rows) |-> [n \in Counts |-> n + rows[i].answers]]

(* What the rows count is what a loop over them adds up.                   *)
LEMMA InRowsIsALoop ==
    ASSUME NEW rows \in Seq(CsvRows)
    PROVE  /\ AddingOf(rows) \in Rounds(Len(rows), Counts)
           /\ InRows(rows) = Looped(Len(rows), Counts, Zero, AddingOf(rows))
<1>1. PICK n : n = Len(rows)
  OBVIOUS
<1>2. n \in Nat /\ DOMAIN rows = 1 .. n /\ Zero \in Counts /\ \A i \in 1 .. n : rows[i] \in CsvRows
  BY <1>1 DEF Counts, Zero
<1>3. PICK g : g = AddingOf(rows)
  OBVIOUS
<1>4. \A i \in 1 .. n : \A v \in Counts : g[i][v] = v + rows[i].answers
  BY <1>1, <1>3 DEF AddingOf
<1>5. g \in Rounds(n, Counts)
  BY <1>1, <1>2, <1>3 DEF AddingOf, Rounds, CsvRows, Counts
<1>6. PICK h \in [SUBSET (1 .. n) -> Counts] : Unfolds(h, n, Zero, g)
  BY <1>2, <1>5, FoldExists
<1>7. h = [t \in SUBSET DOMAIN rows |->
             IF t = {} THEN Zero ELSE h[t \ {Top(t)}] + rows[Top(t)].answers]
  <2>1. ASSUME NEW t \in SUBSET (1 .. n), t # {}
        PROVE  h[t] = h[t \ {Top(t)}] + rows[Top(t)].answers
    <3>1. Top(t) \in 1 .. n /\ t \ {Top(t)} \in SUBSET (1 .. n)
      BY <1>2, <2>1, TopIs
    <3>2. h[t] = g[Top(t)][h[t \ {Top(t)}]]
      BY <1>6, <2>1 DEF Unfolds
    <3> QED  BY <1>4, <3>1, <3>2
  <2>2. h[{}] = Zero
    BY <1>6 DEF Unfolds
  <2> QED  BY <1>2, <2>1, <2>2
<1>8. PICK k : /\ k = [t \in SUBSET DOMAIN rows |->
                      IF t = {} THEN Zero ELSE k[t \ {Top(t)}] + rows[Top(t)].answers]
               /\ InRows(rows) = k[DOMAIN rows]
  BY <1>7, Zenon DEF Zero, InRows, FoldLeft, MapThenFoldSet, Top, Max
<1>9. k[{}] = Zero
  BY <1>8
<1>10. ASSUME NEW t \in SUBSET (1 .. n), t # {}, k[t \ {Top(t)}] \in Counts
       PROVE  k[t] = g[Top(t)][k[t \ {Top(t)}]]
  <2>1. Top(t) \in 1 .. n
    BY <1>2, <1>10, TopIs
  <2>2. k[t] = k[t \ {Top(t)}] + rows[Top(t)].answers
    BY <1>2, <1>8, <1>10
  <2> QED  BY <1>4, <1>10, <2>1, <2>2
<1>11. k[1 .. n] = Looped(n, Counts, Zero, g)
  <2>1. FoldsBy(k, n, Counts, Zero, g)
    BY <1>9, <1>10 DEF FoldsBy
  <2>2. n \in Nat /\ Zero \in Counts
    BY <1>2
  <2> QED  BY <1>5, <2>1, <2>2, FoldIsLooped
<1> QED  BY <1>1, <1>2, <1>3, <1>5, <1>8, <1>11

(* A row more counts its answers more.                                     *)
LEMMA InRowsAppend ==
    ASSUME NEW rows \in Seq(CsvRows), NEW row \in CsvRows
    PROVE  InRows(Append(rows, row)) = InRows(rows) + row.answers /\ InRows(rows) \in Int
<1>1. PICK n : n = Len(rows)
  OBVIOUS
<1>2. PICK u : u = Append(rows, row)
  OBVIOUS
<1>3. /\ n \in Nat /\ n + 1 \in Nat /\ Zero \in Counts /\ u \in Seq(CsvRows) /\ Len(u) = n + 1
      /\ u[n + 1] = row /\ \A i \in 1 .. n : u[i] = rows[i]
  BY <1>1, <1>2 DEF Counts, Zero
<1>4. PICK g : g = AddingOf(rows)
  OBVIOUS
<1>5. PICK h : h = AddingOf(u)
  OBVIOUS
<1>6. /\ g \in Rounds(n, Counts) /\ InRows(rows) = Looped(n, Counts, Zero, g)
      /\ h \in Rounds(n + 1, Counts) /\ InRows(u) = Looped(n + 1, Counts, Zero, h)
  BY <1>1, <1>3, <1>4, <1>5, InRowsIsALoop
<1>7. ASSUME NEW i \in 1 .. n PROVE g[i] = h[i]
  <2>1. i \in 1 .. Len(rows) /\ i \in 1 .. Len(u) /\ u[i] = rows[i]
    BY <1>1, <1>3
  <2>2. /\ g[i] = [m \in Counts |-> m + rows[i].answers]
        /\ h[i] = [m \in Counts |-> m + u[i].answers]
    BY <1>4, <1>5, <2>1, Zenon DEF AddingOf
  <2> QED  BY <2>1, <2>2, Zenon
<1>8. InRows(u) = h[n + 1][InRows(rows)]
  <2>1. n \in Nat /\ Zero \in Counts
    BY <1>3
  <2> QED  BY <1>6, <1>7, <2>1, LoopedMore
<1>9. InRows(rows) \in Counts
  <2>1. n \in Nat /\ Zero \in Counts
    BY <1>3
  <2> QED  BY <1>6, <2>1, LoopedIs
<1> QED  BY <1>2, <1>3, <1>5, <1>8, <1>9 DEF AddingOf, Counts

(* No row counts nothing.                                                  *)
LEMMA InRowsNone == InRows(<<>>) = 0
<1>1. <<>> \in Seq(CsvRows) /\ Len(<<>>) = 0 /\ Zero \in Counts
  BY DEF Counts, Zero
<1>2. AddingOf(<<>>) \in Rounds(0, Counts) /\ InRows(<<>>) = Looped(0, Counts, Zero, AddingOf(<<>>))
  BY <1>1, InRowsIsALoop
<1> QED  BY <1>1, <1>2, LoopedNone DEF Zero

-----------------------------------------------------------------------------
(* The accounts touched last.                                              *)

LastAt(a, touched) ==
    CHOOSE i \in DOMAIN touched : touched[i] = a /\ \A j \in (i + 1) .. Len(touched) : touched[j] # a

(* An account that was touched was touched a last time.                    *)
LEMMA LastAtIs ==
    ASSUME NEW A, NEW touched \in Seq(A), NEW a \in ToSet(touched)
    PROVE  /\ LastAt(a, touched) \in 1 .. Len(touched)
           /\ touched[LastAt(a, touched)] = a
           /\ \A j \in 1 .. Len(touched) : touched[j] = a => j <= LastAt(a, touched)
<1>1. PICK n : n = Len(touched)
  OBVIOUS
<1>2. n \in Nat /\ DOMAIN touched = 1 .. n
  BY <1>1
<1>3. PICK T : T = {i \in 1 .. n : touched[i] = a}
  OBVIOUS
<1>4. T \in SUBSET Nat /\ T # {} /\ \A k \in T : k <= n
  BY <1>2, <1>3 DEF ToSet
<1>5. PICK m \in T : \A k \in T : k <= m
  BY <1>2, <1>4, GreatestNat
<1>6. m \in 1 .. n /\ touched[m] = a /\ \A j \in (m + 1) .. n : touched[j] # a
  <2>1. ASSUME NEW j \in (m + 1) .. n, touched[j] = a PROVE FALSE
    <3>1. m \in 1 .. n /\ j \in 1 .. n /\ j > m
      BY <1>2, <1>3
    <3> QED  BY <1>3, <1>5, <2>1, <3>1
  <2> QED  BY <1>3, <2>1
<1>7. PICK i \in 1 .. n : /\ i = LastAt(a, touched) /\ touched[i] = a
                         /\ \A j \in (i + 1) .. n : touched[j] # a
  BY <1>1, <1>2, <1>6, Zenon DEF LastAt
<1>8. ASSUME NEW j \in 1 .. n, touched[j] = a PROVE j <= i
  <2>1. ~(j \in (i + 1) .. n)
    BY <1>7, <1>8
  <2> QED  BY <1>2, <2>1
<1> QED  BY <1>1, <1>7, <1>8

(* Touching an account puts it last, and leaves the others where they were.*)
LEMMA LastAtAppend ==
    ASSUME NEW A, NEW touched \in Seq(A), NEW addr \in A
    PROVE  /\ ToSet(Append(touched, addr)) = ToSet(touched) \cup {addr}
           /\ LastAt(addr, Append(touched, addr)) = Len(touched) + 1
           /\ \A a \in ToSet(touched) :
                 a # addr => LastAt(a, Append(touched, addr)) = LastAt(a, touched)
<1>1. PICK n : n = Len(touched)
  OBVIOUS
<1>2. PICK u : u = Append(touched, addr)
  OBVIOUS
<1>3. /\ n \in Nat /\ u \in Seq(A) /\ Len(u) = n + 1 /\ u[n + 1] = addr
      /\ \A i \in 1 .. n : u[i] = touched[i] /\ i \in 1 .. (n + 1)
      /\ DOMAIN u = 1 .. (n + 1) /\ DOMAIN touched = 1 .. n /\ n + 1 \in 1 .. (n + 1)
  BY <1>1, <1>2
<1>4. \A a : a \in ToSet(u) <=> \E i \in 1 .. (n + 1) : u[i] = a
  BY <1>3 DEF ToSet
<1>5. \A a : a \in ToSet(touched) <=> \E i \in 1 .. n : touched[i] = a
  BY <1>3 DEF ToSet
<1>6. \A i \in 1 .. (n + 1) : i \in 1 .. n \/ i = n + 1
  BY <1>3
<1>7. ToSet(u) = ToSet(touched) \cup {addr}
  BY <1>3, <1>4, <1>5, <1>6
<1>8. LastAt(addr, u) = n + 1
  <2>1. addr \in ToSet(u)
    BY <1>7
  <2>2. LastAt(addr, u) \in 1 .. (n + 1) /\ n + 1 <= LastAt(addr, u)
    BY <1>3, <2>1, LastAtIs
  <2> QED  BY <1>3, <2>2
<1>9. ASSUME NEW a \in ToSet(touched), a # addr
      PROVE  LastAt(a, u) = LastAt(a, touched)
  <2>1. a \in ToSet(u)
    BY <1>7
  <2>2. PICK i : i = LastAt(a, u)
    OBVIOUS
  <2>3. PICK j : j = LastAt(a, touched)
    OBVIOUS
  <2>4. i \in 1 .. (n + 1) /\ u[i] = a /\ \A m \in 1 .. (n + 1) : u[m] = a => m <= i
    BY <1>3, <2>1, <2>2, LastAtIs
  <2>5. j \in 1 .. n /\ touched[j] = a /\ \A m \in 1 .. n : touched[m] = a => m <= j
    BY <1>1, <2>3, LastAtIs
  <2>6. i \in 1 .. n
    BY <1>3, <1>6, <1>9, <2>4
  <2>7. i <= j /\ j <= i
    BY <1>3, <2>4, <2>5, <2>6
  <2> QED  BY <2>2, <2>3, <2>4, <2>5, <2>7
<1> QED  BY <1>1, <1>2, <1>7, <1>8, <1>9

(* Removing the account leaves the others, in their order.                 *)
LEMMA RemoveFirstIs ==
    ASSUME NEW A, NEW s \in Seq(A), NEW addr
    PROVE  \/ addr \notin ToSet(s) /\ RemoveFirst(s, addr) = s
           \/ \E m \in 1 .. Len(s) :
                 /\ s[m] = addr /\ RemoveFirst(s, addr) \in Seq(A)
                 /\ Len(RemoveFirst(s, addr)) = Len(s) - 1
                 /\ \A i \in 1 .. (Len(s) - 1) :
                       RemoveFirst(s, addr)[i] = IF i < m THEN s[i] ELSE s[i + 1]
<1>1. PICK n : n = Len(s)
  OBVIOUS
<1>2. n \in Nat /\ DOMAIN s = 1 .. n
  BY <1>1
<1>3. PICK T : T = {i \in 1 .. n : s[i] = addr}
  OBVIOUS
<1>4. CASE T = {}
  <2>1. ~(\E i \in 1 .. Len(s) : s[i] = addr)
    BY <1>1, <1>3, <1>4
  <2>2. addr \notin ToSet(s)
    BY <1>1, <1>2, <2>1 DEF ToSet
  <2>3. RemoveFirst(s, addr) = s
    BY <2>1 DEF RemoveFirst
  <2> QED  BY <2>2, <2>3
<1>5. CASE T # {}
  <2>1. T \in SUBSET Nat
    BY <1>3
  <2>2. PICK l \in T : \A k \in T : l <= k
    BY <1>5, <2>1, LeastNat
  <2>3. PICK m : m = Min(T)
    OBVIOUS
  <2>4. m \in T
    BY <2>2, <2>3 DEF Min
  <2>5. m \in 1 .. n /\ s[m] = addr
    BY <1>3, <2>4
  <2>6. \E i \in 1 .. Len(s) : s[i] = addr
    BY <1>1, <2>5
  <2>7. SelectInSeq(s, LAMBDA v : v = addr) = m
    BY <1>1, <1>3, <1>5, <2>3, Zenon DEF SelectInSeq
  <2>8. RemoveFirst(s, addr) = RemoveAt(s, SelectInSeq(s, LAMBDA v : v = addr))
    BY <2>6, Zenon DEF RemoveFirst
  <2>9. RemoveFirst(s, addr) = SubSeq(s, 1, m - 1) \o SubSeq(s, m + 1, Len(s))
    BY <2>7, <2>8, Zenon DEF RemoveAt
  <2>10. PICK r : r = RemoveFirst(s, addr)
    OBVIOUS
  <2>11. PICK a : a = SubSeq(s, 1, m - 1)
    OBVIOUS
  <2>12. PICK b : b = SubSeq(s, m + 1, n)
    OBVIOUS
  <2>13. a \in Seq(A) /\ Len(a) = m - 1 /\ \A i \in 1 .. (m - 1) : a[i] = s[i]
    BY <1>1, <1>2, <2>5, <2>11
  <2>14. b \in Seq(A) /\ Len(b) = n - m /\ \A i \in 1 .. (n - m) : b[i] = s[m + i]
    BY <1>1, <1>2, <2>5, <2>12
  <2>15. r = a \o b
    BY <1>1, <2>9, <2>10, <2>11, <2>12
  <2>16. /\ r \in Seq(A) /\ Len(r) = n - 1
         /\ \A i \in 1 .. (n - 1) : r[i] = IF i < m THEN a[i] ELSE b[i - (m - 1)]
    BY <1>2, <2>5, <2>13, <2>14, <2>15
  <2>17. ASSUME NEW i \in 1 .. (n - 1) PROVE r[i] = IF i < m THEN s[i] ELSE s[i + 1]
    <3>1. CASE i < m
      BY <1>2, <2>5, <2>13, <2>16, <3>1
    <3>2. CASE ~(i < m)
      <4>1. i - (m - 1) \in 1 .. (n - m) /\ m + (i - (m - 1)) = i + 1
        BY <1>2, <2>5, <3>2
      <4> QED  BY <2>14, <2>16, <3>2, <4>1
    <3> QED  BY <3>1, <3>2
  <2> QED  BY <1>1, <2>5, <2>10, <2>16, <2>17
<1> QED  BY <1>4, <1>5

(* The conjuncts of IsRecent, by name.                                     *)
LEMMA IsRecentIs ==
    ASSUME NEW recent, NEW touched
    PROVE  IsRecent(recent, touched) <=>
             /\ ToSet(recent) \subseteq ToSet(touched)
             /\ \A i, j \in DOMAIN recent :
                   i < j => LastAt(recent[i], touched) < LastAt(recent[j], touched)
             /\ \A a \in ToSet(touched) \ ToSet(recent) :
                   Len(recent) = RECENT_CAPACITY /\ LastAt(a, touched) < LastAt(recent[1], touched)
BY Zenon DEF IsRecent, LastAt

(* The accounts of s follow each other by when they were last touched.     *)
Ordered(s, touched) ==
    \A i, j \in 1 .. Len(s) : i < j => LastAt(s[i], touched) < LastAt(s[j], touched)

(* Without the account, the rest is ordered as it was.                     *)
LEMMA WithoutIs ==
    ASSUME NEW A, NEW s \in Seq(A), NEW touched \in Seq(A), NEW addr,
           ToSet(s) \subseteq ToSet(touched), Ordered(s, touched)
    PROVE  /\ RemoveFirst(s, addr) \in Seq(A)
           /\ Ordered(RemoveFirst(s, addr), touched)
           /\ ToSet(RemoveFirst(s, addr)) = ToSet(s) \ {addr}
           /\ addr \notin ToSet(s) => RemoveFirst(s, addr) = s
           /\ addr \in ToSet(s) => Len(RemoveFirst(s, addr)) = Len(s) - 1
           /\ Len(RemoveFirst(s, addr)) > 0 =>
                 LastAt(RemoveFirst(s, addr)[1], touched) >= LastAt(s[1], touched)
<1>1. PICK r : r = RemoveFirst(s, addr)
  OBVIOUS
<1>2. PICK n : n = Len(s)
  OBVIOUS
<1>3. n \in Nat /\ DOMAIN s = 1 .. n /\ \A a : a \in ToSet(s) <=> \E i \in 1 .. n : s[i] = a
  BY <1>2 DEF ToSet
<1>4. \A i \in 1 .. n : s[i] \in ToSet(touched)
  BY <1>3
<1>5. \A i \in 1 .. n : LastAt(s[i], touched) \in Nat
  <2>1. Len(touched) \in Nat
    OBVIOUS
  <2>2. \A a \in ToSet(touched) : LastAt(a, touched) \in 1 .. Len(touched)
    BY LastAtIs
  <2> QED  BY <1>4, <2>1, <2>2
<1>6. \A i, j \in 1 .. n : i < j => LastAt(s[i], touched) < LastAt(s[j], touched)
  BY <1>2 DEF Ordered
<1>7. CASE addr \notin ToSet(s) /\ r = s
  <2>1. ToSet(s) = ToSet(s) \ {addr}
    BY <1>7
  <2>2. n > 0 => LastAt(s[1], touched) >= LastAt(s[1], touched)
    BY <1>3, <1>5
  <2> QED  BY <1>1, <1>2, <1>7, <2>1, <2>2
<1>8. CASE \E m \in 1 .. n : /\ s[m] = addr /\ r \in Seq(A) /\ Len(r) = n - 1
                            /\ \A i \in 1 .. (n - 1) : r[i] = IF i < m THEN s[i] ELSE s[i + 1]
  <2>1. PICK m \in 1 .. n : /\ s[m] = addr /\ r \in Seq(A) /\ Len(r) = n - 1
                          /\ \A i \in 1 .. (n - 1) : r[i] = IF i < m THEN s[i] ELSE s[i + 1]
    BY <1>8
  <2>2. PICK at : at = [i \in 1 .. (n - 1) |-> IF i < m THEN i ELSE i + 1]
    OBVIOUS
  <2>3. \A i \in 1 .. (n - 1) : /\ at[i] \in 1 .. n /\ at[i] # m /\ r[i] = s[at[i]]
                               /\ \A j \in 1 .. (n - 1) : i < j => at[i] < at[j]
    BY <1>3, <2>1, <2>2
  <2>4. Ordered(r, touched)
    <3> SUFFICES ASSUME NEW i \in 1 .. (n - 1), NEW j \in 1 .. (n - 1), i < j
                 PROVE  LastAt(r[i], touched) < LastAt(r[j], touched)
      BY <2>1 DEF Ordered
    <3>1. at[i] \in 1 .. n /\ at[j] \in 1 .. n /\ at[i] < at[j] /\ r[i] = s[at[i]] /\ r[j] = s[at[j]]
      BY <2>3
    <3> QED  BY <1>6, <3>1
  <2>5. \A i \in 1 .. n : i # m => s[i] # addr
    <3> SUFFICES ASSUME NEW i \in 1 .. n, i # m, s[i] = s[m] PROVE FALSE
      BY <2>1
    <3>1. i < m \/ m < i
      BY <1>3
    <3>2. LastAt(s[i], touched) < LastAt(s[m], touched) \/ LastAt(s[m], touched) < LastAt(s[i], touched)
      BY <1>6, <3>1
    <3> QED  BY <1>5, <3>2
  <2>6. \A a : a \in ToSet(r) <=> \E i \in 1 .. (n - 1) : r[i] = a
    <3>1. DOMAIN r = 1 .. (n - 1)
      BY <1>3, <2>1
    <3> QED  BY <3>1 DEF ToSet
  <2>7. \A i \in 1 .. n : i # m => \E j \in 1 .. (n - 1) : at[j] = i
    <3> SUFFICES ASSUME NEW i \in 1 .. n, i # m PROVE \E j \in 1 .. (n - 1) : at[j] = i
      OBVIOUS
    <3>1. CASE i < m
      <4>1. i \in 1 .. (n - 1) /\ at[i] = i
        BY <1>3, <2>1, <2>2, <3>1
      <4> QED  BY <4>1
    <3>2. CASE i > m
      <4>1. i - 1 \in 1 .. (n - 1) /\ ~(i - 1 < m) /\ (i - 1) + 1 = i
        BY <1>3, <2>1, <3>2
      <4>2. at[i - 1] = i
        BY <2>2, <4>1
      <4> QED  BY <4>1, <4>2
    <3> QED  BY <1>3, <3>1, <3>2
  <2>8. ToSet(r) = ToSet(s) \ {addr}
    <3>1. ASSUME NEW a \in ToSet(r) PROVE a \in ToSet(s) \ {addr}
      <4>1. PICK i \in 1 .. (n - 1) : r[i] = a
        BY <2>6, <3>1
      <4> QED  BY <1>3, <2>3, <2>5, <4>1
    <3>2. ASSUME NEW a \in ToSet(s) \ {addr} PROVE a \in ToSet(r)
      <4>1. PICK i \in 1 .. n : s[i] = a
        BY <1>3, <3>2
      <4>2. i # m
        BY <2>1, <3>2, <4>1
      <4>3. PICK j \in 1 .. (n - 1) : at[j] = i
        BY <2>7, <4>2
      <4> QED  BY <2>3, <2>6, <4>1, <4>3
    <3> QED  BY <3>1, <3>2
  <2>9. addr \in ToSet(s)
    BY <1>3, <2>1
  <2>10. n - 1 > 0 => LastAt(r[1], touched) >= LastAt(s[1], touched)
    <3> SUFFICES ASSUME n - 1 > 0 PROVE LastAt(r[1], touched) >= LastAt(s[1], touched)
      OBVIOUS
    <3>1. 1 \in 1 .. (n - 1) /\ 1 \in 1 .. n
      BY <1>3
    <3>2. r[1] = s[at[1]] /\ at[1] \in 1 .. n
      BY <2>3, <3>1
    <3>3. at[1] = 1 \/ 1 < at[1]
      BY <1>3, <3>2
    <3>4. r[1] = s[1] \/ LastAt(s[1], touched) < LastAt(r[1], touched)
      BY <1>6, <3>1, <3>2, <3>3
    <3> QED  BY <1>5, <3>1, <3>2, <3>4
  <2> QED  BY <1>1, <1>2, <2>1, <2>4, <2>8, <2>9, <2>10
<1> QED
  <2>1. s \in Seq(A)
    OBVIOUS
  <2> QED  BY <1>1, <1>2, <1>7, <1>8, <2>1, RemoveFirstIs

(* One account noted, after one account touched.                           *)
LEMMA NotedOneKeeps ==
    ASSUME NEW A, NEW recent \in Seq(A), NEW touched \in Seq(A), NEW addr \in A,
           RecentIs(recent, touched)
    PROVE  /\ NotedOne(recent, addr) \in Seq(A)
           /\ RecentIs(NotedOne(recent, addr), Append(touched, addr))
<1>1. PICK o : o = RemoveFirst(recent, addr)
  OBVIOUS
<1>2. PICK p : p = Append(o, addr)
  OBVIOUS
<1>3. PICK u : u = Append(touched, addr)
  OBVIOUS
<1>4. PICK q : q = NotedOne(recent, addr)
  OBVIOUS
<1>5. q = IF Len(p) > RECENT_CAPACITY THEN Tail(p) ELSE p
  BY <1>1, <1>2, <1>4 DEF NotedOne
<1>6. RECENT_CAPACITY \in Nat /\ RECENT_CAPACITY > 0 /\ Len(recent) <= RECENT_CAPACITY
  BY StatusAssumption DEF RecentIs
<1>7. /\ ToSet(recent) \subseteq ToSet(touched)
      /\ Ordered(recent, touched)
      /\ \A a \in ToSet(touched) \ ToSet(recent) :
            Len(recent) = RECENT_CAPACITY /\ LastAt(a, touched) < LastAt(recent[1], touched)
  <2>1. DOMAIN recent = 1 .. Len(recent) /\ IsRecent(recent, touched)
    BY DEF RecentIs
  <2> QED  BY <2>1, IsRecentIs DEF Ordered
<1>8. /\ o \in Seq(A) /\ Ordered(o, touched) /\ ToSet(o) = ToSet(recent) \ {addr}
      /\ addr \notin ToSet(recent) => o = recent
      /\ addr \in ToSet(recent) => Len(o) = Len(recent) - 1
      /\ Len(o) > 0 => LastAt(o[1], touched) >= LastAt(recent[1], touched)
  BY <1>1, <1>7, WithoutIs
<1>9. PICK n : n = Len(o)
  OBVIOUS
<1>10. /\ n \in Nat /\ p \in Seq(A) /\ Len(p) = n + 1 /\ p[n + 1] = addr
       /\ \A i \in 1 .. n : p[i] = o[i] /\ i \in 1 .. (n + 1)
       /\ DOMAIN p = 1 .. (n + 1) /\ DOMAIN o = 1 .. n
  BY <1>2, <1>8, <1>9
<1>11. /\ ToSet(u) = ToSet(touched) \cup {addr} /\ LastAt(addr, u) = Len(touched) + 1
       /\ \A a \in ToSet(touched) : a # addr => LastAt(a, u) = LastAt(a, touched)
  BY <1>3, LastAtAppend
<1>12. \A a \in ToSet(touched) : LastAt(a, touched) \in 1 .. Len(touched)
  BY LastAtIs
<1>13. Len(touched) \in Nat
  OBVIOUS
<1>14. \A i \in 1 .. n : o[i] \in ToSet(touched) /\ o[i] # addr
  <2>1. \A i \in 1 .. n : o[i] \in ToSet(o)
    BY <1>10 DEF ToSet
  <2> QED  BY <1>7, <1>8, <2>1
<1>15. \A i \in 1 .. n : /\ p[i] = o[i] /\ LastAt(p[i], u) = LastAt(o[i], touched)
                         /\ LastAt(p[i], u) < LastAt(addr, u) /\ LastAt(p[i], u) \in Nat
  BY <1>10, <1>11, <1>12, <1>13, <1>14
<1>16. Ordered(p, u)
  <2> SUFFICES ASSUME NEW i \in 1 .. (n + 1), NEW j \in 1 .. (n + 1), i < j
               PROVE  LastAt(p[i], u) < LastAt(p[j], u)
    BY <1>10 DEF Ordered
  <2>1. i \in 1 .. n
    BY <1>10
  <2>2. CASE j = n + 1
    BY <1>10, <1>15, <2>1, <2>2
  <2>3. CASE j # n + 1
    <3>1. j \in 1 .. n
      BY <1>10, <2>3
    <3>2. LastAt(o[i], touched) < LastAt(o[j], touched)
      BY <1>8, <1>9, <2>1, <3>1 DEF Ordered
    <3> QED  BY <1>15, <2>1, <3>1, <3>2
  <2> QED  BY <2>2, <2>3
<1>17. \A a : a \in ToSet(p) <=> a \in ToSet(recent) \/ a = addr
  <2>1. \A a : a \in ToSet(p) <=> \E i \in 1 .. (n + 1) : p[i] = a
    BY <1>10 DEF ToSet
  <2>2. \A a : a \in ToSet(o) <=> \E i \in 1 .. n : o[i] = a
    BY <1>10 DEF ToSet
  <2>3. \A i \in 1 .. (n + 1) : i \in 1 .. n \/ i = n + 1
    BY <1>10
  <2>4. n + 1 \in 1 .. (n + 1)
    BY <1>10
  <2> QED  BY <1>8, <1>10, <2>1, <2>2, <2>3, <2>4
<1>18. ASSUME NEW a \in ToSet(touched) \ ToSet(recent), a # addr
       PROVE  /\ Len(recent) = RECENT_CAPACITY
              /\ LastAt(a, u) < LastAt(p[1], u)
  <2>1. Len(recent) = RECENT_CAPACITY /\ LastAt(a, touched) < LastAt(recent[1], touched)
    BY <1>7
  <2>2. LastAt(a, u) = LastAt(a, touched) /\ LastAt(a, touched) \in 1 .. Len(touched)
    BY <1>11, <1>12, <1>18
  <2>3. CASE n = 0
    BY <1>10, <1>11, <1>13, <2>1, <2>2, <2>3
  <2>4. CASE n > 0
    <3>1. 1 \in 1 .. n /\ 1 \in 1 .. Len(recent)
      BY <1>6, <1>10, <2>1, <2>4
    <3>2. recent[1] \in ToSet(touched)
      BY <1>7, <3>1 DEF ToSet
    <3>3. LastAt(recent[1], touched) \in Nat /\ LastAt(o[1], touched) \in Nat
      BY <1>12, <1>13, <1>14, <3>1, <3>2
    <3>4. LastAt(o[1], touched) >= LastAt(recent[1], touched)
      BY <1>8, <1>9, <2>4
    <3>5. LastAt(p[1], u) = LastAt(o[1], touched)
      BY <1>15, <3>1
    <3>6. LastAt(a, touched) \in Nat
      BY <1>13, <2>2
    <3> QED  BY <2>1, <2>2, <3>3, <3>4, <3>5, <3>6
  <2> QED  BY <1>10, <2>1, <2>3, <2>4
<1>19. CASE ~(Len(p) > RECENT_CAPACITY)
  <2>1. q = p /\ n + 1 <= RECENT_CAPACITY
    BY <1>5, <1>6, <1>10, <1>19
  <2>2. ASSUME NEW a \in ToSet(u) \ ToSet(q)
        PROVE  Len(q) = RECENT_CAPACITY /\ LastAt(a, u) < LastAt(q[1], u)
    <3>1. a \in ToSet(touched) \ ToSet(recent) /\ a # addr
      BY <1>11, <1>17, <2>1, <2>2
    <3>2. Len(recent) = RECENT_CAPACITY /\ LastAt(a, u) < LastAt(p[1], u)
      BY <1>18, <3>1
    <3>3. addr \in ToSet(recent)
      BY <1>6, <1>8, <1>9, <2>1, <3>2
    <3>4. n + 1 = RECENT_CAPACITY
      BY <1>6, <1>8, <1>9, <3>2, <3>3
    <3> QED  BY <1>10, <2>1, <3>2, <3>4
  <2>3. ToSet(q) \subseteq ToSet(u)
    BY <1>7, <1>11, <1>17, <2>1
  <2>4. IsRecent(q, u)
    <3>1. DOMAIN q = 1 .. Len(q) /\ Ordered(q, u)
      BY <1>10, <1>16, <2>1
    <3> QED  BY <2>2, <2>3, <3>1, IsRecentIs DEF Ordered
  <2> QED  BY <1>3, <1>4, <1>10, <2>1, <2>4 DEF RecentIs
<1>20. CASE Len(p) > RECENT_CAPACITY
  <2>1. q = Tail(p) /\ n = RECENT_CAPACITY /\ Len(recent) = n /\ o = recent
        /\ addr \notin ToSet(recent)
    BY <1>5, <1>6, <1>8, <1>9, <1>10, <1>20
  <2>2. q \in Seq(A) /\ Len(q) = n /\ \A i \in 1 .. n : q[i] = p[i + 1] /\ i + 1 \in 1 .. (n + 1)
    BY <1>6, <1>10, <2>1
  <2>3. DOMAIN q = 1 .. n /\ 1 \in 1 .. n /\ 1 \in 1 .. (n + 1)
    BY <1>6, <1>10, <2>1, <2>2
  <2>4. \A a : a \in ToSet(q) <=> \E i \in 1 .. n : q[i] = a
    BY <2>3 DEF ToSet
  <2>5. \A a : a \in ToSet(p) <=> \E i \in 1 .. (n + 1) : p[i] = a
    BY <1>10 DEF ToSet
  <2>6. Ordered(q, u)
    <3> SUFFICES ASSUME NEW i \in 1 .. n, NEW j \in 1 .. n, i < j
                 PROVE  LastAt(q[i], u) < LastAt(q[j], u)
      BY <2>2 DEF Ordered
    <3>1. i + 1 \in 1 .. (n + 1) /\ j + 1 \in 1 .. (n + 1) /\ i + 1 < j + 1
      BY <1>10
    <3> QED  BY <1>10, <1>16, <2>2, <3>1 DEF Ordered
  <2>7. LastAt(p[1], u) < LastAt(q[1], u) /\ LastAt(p[1], u) \in Nat /\ LastAt(q[1], u) \in Nat
    <3>1. 2 \in 1 .. (n + 1) /\ q[1] = p[2] /\ (2 \in 1 .. n \/ 2 = n + 1)
      BY <1>6, <1>10, <2>1, <2>2, <2>3
    <3>2. LastAt(p[1], u) < LastAt(p[2], u)
      BY <1>10, <1>16, <2>3, <3>1 DEF Ordered
    <3>3. LastAt(p[2], u) \in Nat
      BY <1>10, <1>11, <1>13, <1>15, <3>1
    <3> QED  BY <1>15, <2>3, <3>1, <3>2, <3>3
  <2>8. ASSUME NEW a \in ToSet(u) \ ToSet(q)
        PROVE  Len(q) = RECENT_CAPACITY /\ LastAt(a, u) < LastAt(q[1], u)
    <3>1. CASE a \in ToSet(p)
      <4>1. PICK i \in 1 .. (n + 1) : p[i] = a
        BY <2>5, <3>1
      <4>2. i = 1
        <5>1. i = 1 \/ (i - 1 \in 1 .. n /\ (i - 1) + 1 = i)
          BY <1>10
        <5> QED  BY <2>2, <2>4, <2>8, <4>1, <5>1
      <4> QED  BY <2>1, <2>2, <2>7, <4>1, <4>2
    <3>2. CASE a \notin ToSet(p)
      <4>1. a \in ToSet(touched) \ ToSet(recent) /\ a # addr
        BY <1>11, <1>17, <2>8, <3>2
      <4>2. LastAt(a, u) < LastAt(p[1], u)
        BY <1>18, <4>1
      <4>3. LastAt(a, u) \in Nat
        <5>1. LastAt(a, u) = LastAt(a, touched) /\ LastAt(a, touched) \in 1 .. Len(touched)
          BY <1>11, <1>12, <4>1
        <5> QED  BY <1>13, <5>1
      <4>4. LastAt(a, u) < LastAt(q[1], u)
        <5>1. PICK x, y, z \in Nat : x = LastAt(a, u) /\ y = LastAt(p[1], u) /\ z = LastAt(q[1], u)
          BY <2>7, <4>3
        <5>2. x < y /\ y < z
          BY <2>7, <4>2, <5>1
        <5>3. x < z
          BY <5>2
        <5> QED  BY <5>1, <5>3
      <4> QED  BY <2>1, <2>2, <4>4
    <3> QED  BY <3>1, <3>2
  <2>9. ToSet(q) \subseteq ToSet(u)
    BY <1>7, <1>11, <1>17, <2>2, <2>4, <2>5
  <2>10. IsRecent(q, u)
    <3>1. DOMAIN q = 1 .. Len(q)
      BY <2>2, <2>3
    <3> QED  BY <2>6, <2>8, <2>9, <3>1, IsRecentIs DEF Ordered
  <2> QED  BY <1>3, <1>4, <1>6, <2>1, <2>2, <2>10 DEF RecentIs
<1> QED  BY <1>19, <1>20

(* Noting an account gives a list of accounts.                             *)
LEMMA NotedOneType ==
    ASSUME NEW A, NEW recent \in Seq(A), NEW addr \in A
    PROVE  NotedOne(recent, addr) \in Seq(A)
<1>1. PICK o : o = RemoveFirst(recent, addr)
  OBVIOUS
<1>2. o \in Seq(A)
  BY <1>1, RemoveFirstIs
<1>3. Append(o, addr) \in Seq(A) /\ Append(o, addr) # <<>>
  BY <1>2
<1>4. Tail(Append(o, addr)) \in Seq(A)
  BY <1>2, <1>3
<1> QED  BY <1>1, <1>3, <1>4 DEF NotedOne

(* The rounds of the fold that notes the accounts of a block.              *)
NotingOf(changed, V) == [i \in 1 .. Len(changed) |-> [recent \in V |-> NotedOne(recent, changed[i])]]

(* Noting a block's accounts is a loop over them.                          *)
LEMMA NotedIsALoop ==
    ASSUME NEW A, NEW recent \in Seq(A), NEW changed \in Seq(A)
    PROVE  /\ NotingOf(changed, Seq(A)) \in Rounds(Len(changed), Seq(A))
           /\ Noted(recent, changed) = Looped(Len(changed), Seq(A), recent, NotingOf(changed, Seq(A)))
<1>1. PICK n : n = Len(changed)
  OBVIOUS
<1>2. PICK V : V = Seq(A)
  OBVIOUS
<1>3. n \in Nat /\ DOMAIN changed = 1 .. n /\ recent \in V /\ \A i \in 1 .. n : changed[i] \in A
  BY <1>1, <1>2
<1>4. PICK g : g = NotingOf(changed, V)
  OBVIOUS
<1>5. \A i \in 1 .. n : \A v \in V : g[i][v] = NotedOne(v, changed[i])
  BY <1>1, <1>4 DEF NotingOf
<1>6. g \in Rounds(n, V)
  <2>1. \A i \in 1 .. n : \A v \in V : NotedOne(v, changed[i]) \in V
    BY <1>2, <1>3, NotedOneType
  <2> QED  BY <1>1, <1>4, <2>1 DEF NotingOf, Rounds
<1>7. PICK h \in [SUBSET (1 .. n) -> V] : Unfolds(h, n, recent, g)
  BY <1>3, <1>6, FoldExists
<1>8. h = [t \in SUBSET DOMAIN changed |->
             IF t = {} THEN recent ELSE NotedOne(h[t \ {Top(t)}], changed[Top(t)])]
  <2>1. ASSUME NEW t \in SUBSET (1 .. n), t # {}
        PROVE  h[t] = NotedOne(h[t \ {Top(t)}], changed[Top(t)])
    <3>1. Top(t) \in 1 .. n /\ t \ {Top(t)} \in SUBSET (1 .. n)
      BY <1>3, <2>1, TopIs
    <3>2. h[t] = g[Top(t)][h[t \ {Top(t)}]]
      BY <1>7, <2>1 DEF Unfolds
    <3> QED  BY <1>5, <3>1, <3>2
  <2>2. h[{}] = recent
    BY <1>7 DEF Unfolds
  <2> QED  BY <1>3, <2>1, <2>2
<1>9. PICK k : /\ k = [t \in SUBSET DOMAIN changed |->
                      IF t = {} THEN recent ELSE NotedOne(k[t \ {Top(t)}], changed[Top(t)])]
               /\ Noted(recent, changed) = k[DOMAIN changed]
  BY <1>8, Zenon DEF Noted, FoldLeft, MapThenFoldSet, Top, Max
<1>10. k[{}] = recent
  BY <1>9
<1>11. ASSUME NEW t \in SUBSET (1 .. n), t # {}, k[t \ {Top(t)}] \in V
       PROVE  k[t] = g[Top(t)][k[t \ {Top(t)}]]
  <2>1. Top(t) \in 1 .. n
    BY <1>3, <1>11, TopIs
  <2>2. k[t] = NotedOne(k[t \ {Top(t)}], changed[Top(t)])
    BY <1>3, <1>9, <1>11
  <2> QED  BY <1>5, <1>11, <2>1, <2>2
<1>12. k[1 .. n] = Looped(n, V, recent, g)
  <2>1. FoldsBy(k, n, V, recent, g)
    BY <1>10, <1>11 DEF FoldsBy
  <2>2. n \in Nat /\ recent \in V
    BY <1>3
  <2> QED  BY <1>6, <2>1, <2>2, FoldIsLooped
<1> QED  BY <1>1, <1>2, <1>3, <1>4, <1>6, <1>9, <1>12

(* The accounts of a block noted, after they were touched.                 *)
LEMMA NotedKeeps ==
    ASSUME NEW A, NEW recent \in Seq(A), NEW touched \in Seq(A), NEW changed \in Seq(A),
           RecentIs(recent, touched)
    PROVE  /\ Noted(recent, changed) \in Seq(A) /\ touched \o changed \in Seq(A)
           /\ RecentIs(Noted(recent, changed), touched \o changed)
<1> DEFINE Upto(i) == touched \o SubSeq(changed, 1, i)
<1>1. PICK n : n = Len(changed)
  OBVIOUS
<1>2. PICK V : V = Seq(A)
  OBVIOUS
<1>3. PICK g : g = NotingOf(changed, V)
  OBVIOUS
<1>4. n \in Nat /\ recent \in V /\ \A i \in 1 .. n : changed[i] \in A
  BY <1>1, <1>2
<1>5. g \in Rounds(n, V) /\ Noted(recent, changed) = Looped(n, V, recent, g)
  BY <1>1, <1>2, <1>3, NotedIsALoop
<1>6. PICK W : W = [i \in 0 .. n |-> {v \in V : RecentIs(v, Upto(i))}]
  OBVIOUS
<1>7. Upto(0) = touched /\ Upto(n) = touched \o changed
  BY <1>1
<1>8. \A i \in 0 .. n : Upto(i) \in Seq(A)
  BY <1>1
<1>9. ASSUME NEW i \in 1 .. n PROVE Upto(i) = Append(Upto(i - 1), changed[i])
  BY <1>1
<1>10. 0 \in 0 .. n /\ n \in 0 .. n /\ \A i \in 1 .. n : i \in 0 .. n /\ i - 1 \in 0 .. n
  BY <1>4
<1> HIDE DEF Upto
<1>11. recent \in W[0]
  BY <1>4, <1>6, <1>7, <1>10
<1>12. ASSUME NEW i \in 1 .. n, NEW v \in V, v \in W[i - 1] PROVE g[i][v] \in W[i]
  <2>1. g[i][v] = NotedOne(v, changed[i])
    BY <1>1, <1>3 DEF NotingOf
  <2>2. RecentIs(v, Upto(i - 1))
    BY <1>6, <1>10, <1>12
  <2>3. v \in Seq(A) /\ changed[i] \in A /\ Upto(i - 1) \in Seq(A)
    BY <1>2, <1>4, <1>8, <1>10
  <2>4. NotedOne(v, changed[i]) \in Seq(A) /\ RecentIs(NotedOne(v, changed[i]), Append(Upto(i - 1), changed[i]))
    BY <2>2, <2>3, NotedOneKeeps
  <2>5. g[i][v] \in V /\ RecentIs(g[i][v], Upto(i))
    BY <1>2, <1>9, <2>1, <2>4
  <2> QED  BY <1>6, <1>10, <2>5
<1>13. Looped(n, V, recent, g) \in W[n]
  BY <1>4, <1>5, <1>11, <1>12, LoopedWithin
<1>14. Noted(recent, changed) \in V /\ RecentIs(Noted(recent, changed), Upto(n))
  BY <1>5, <1>6, <1>10, <1>13
<1> QED  BY <1>2, <1>7, <1>8, <1>10, <1>14

-----------------------------------------------------------------------------
(* One step after another.                                                 *)

(* A block touches accounts that may be noted.                             *)
LEMMA TouchedIsNoteworthy ==
    ASSUME NEW changed \in ChangedLists
    PROVE  changed \in Seq(Noteworthy)
<1>1. changed \in Seq(ToSet(changed))
  BY StatusAssumption
<1>2. ToSet(changed) \subseteq Noteworthy
  BY DEF Noteworthy
<1>3. \A i \in 1 .. Len(changed) : changed[i] \in Noteworthy
  BY <1>1, <1>2
<1> QED  BY <1>1, <1>3

(* One observation is one more in the buckets from its duration on, and    *)
(* one more in the count.                                                  *)
LEMMA ObservedIs ==
    ASSUME NEW h \in Durationed, NEW timed \in [Durations -> Nat], Tallied(h, timed),
           NEW d \in Durations
    PROVE  /\ Observed(h, d) \in Durationed
           /\ [timed EXCEPT ![d] = @ + 1] \in [Durations -> Nat]
           /\ Tallied(Observed(h, d), [timed EXCEPT ![d] = @ + 1])
           /\ Observed(h, d).count = h.count + 1
<1>1. DOMAIN Bounds = 1 .. 2 /\ Bounds[1] = 1 /\ Bounds[2] = 2
  BY DEF Bounds
<1>2. PICK o : o = Observed(h, d)
  OBVIOUS
<1>3. PICK more : more = [timed EXCEPT ![d] = @ + 1]
  OBVIOUS
<1>4. /\ h.buckets \in [1 .. 2 -> Nat] /\ h.count \in Nat
      /\ h.buckets[1] = timed[1] /\ h.buckets[2] = timed[1] + timed[2]
      /\ h.count = timed[1] + timed[2] + timed[3]
      /\ timed[1] \in Nat /\ timed[2] \in Nat /\ timed[3] \in Nat
  BY DEF Durationed, Tallied, Durations
<1>5. /\ o.buckets = [i \in 1 .. 2 |-> h.buckets[i] + IF d <= Bounds[i] THEN 1 ELSE 0]
      /\ o.count = h.count + 1
      /\ o = [buckets |-> o.buckets, count |-> o.count]
  BY <1>1, <1>2 DEF Observed
<1>6. /\ o.buckets \in [1 .. 2 -> Nat]
      /\ o.buckets[1] = h.buckets[1] + IF d <= 1 THEN 1 ELSE 0
      /\ o.buckets[2] = h.buckets[2] + IF d <= 2 THEN 1 ELSE 0
  BY <1>1, <1>4, <1>5
<1>7. o \in Durationed
  <2>1. o.count \in Nat
    BY <1>4, <1>5
  <2>2. PICK b, c : b = o.buckets /\ c = o.count
    OBVIOUS
  <2>3. [buckets |-> b, count |-> c] \in [buckets : [1 .. 2 -> Nat], count : Nat]
    BY <1>6, <2>1, <2>2
  <2> QED  BY <1>5, <2>2, <2>3 DEF Durationed
<1>8. /\ more \in [Durations -> Nat]
      /\ \A e \in Durations : more[e] = IF e = d THEN timed[e] + 1 ELSE timed[e]
  BY <1>3
<1>9. /\ more[1] = IF d = 1 THEN timed[1] + 1 ELSE timed[1]
      /\ more[2] = IF d = 2 THEN timed[2] + 1 ELSE timed[2]
      /\ more[3] = IF d = 3 THEN timed[3] + 1 ELSE timed[3]
      /\ d = 1 \/ d = 2 \/ d = 3
  BY <1>8 DEF Durations
<1>10. Tallied(o, more)
  BY <1>4, <1>5, <1>6, <1>9 DEF Tallied
<1> QED  BY <1>2, <1>3, <1>5, <1>7, <1>8, <1>10

(* A node that starts has counted nothing.                                 *)
LEMMA StatusStarts ==
    ASSUME StatusInit
    PROVE  StatusInv
<1>1. /\ step = "poll" /\ serving = [ok |-> 0, error |-> 0] /\ page = [lock |-> "none"]
      /\ figures = [head |-> 0, finalized |-> 0, counters |-> NoCounters, halted |-> FALSE,
                    recent |-> <<>>]
      /\ csv = [rows |-> <<>>, previous |-> -1, lost |-> 0]
      /\ past = [touched |-> <<>>, durations |-> [d \in Durations |-> 0]]
  BY DEF StatusInit
<1>2. DOMAIN Bounds = 1 .. 2
  BY DEF Bounds
<1>3. PICK none : none = NoDurations
  OBVIOUS
<1>4. none \in Durationed /\ none.buckets = [i \in 1 .. 2 |-> 0] /\ none.count = 0
  BY <1>2, <1>3 DEF NoDurations, Durationed
<1>5. PICK tally : tally = NoCounters
  OBVIOUS
<1>6. /\ tally \in Tallies /\ tally.answers = none /\ tally.applied = 0 /\ tally.classes = 0
      /\ tally.requests.error = 0
  BY <1>3, <1>4, <1>5 DEF NoCounters, Tallies
<1>7. PICK e : e = <<>>
  OBVIOUS
<1>8. e \in Seq(Noteworthy) /\ e \in Seq(CsvRows) /\ Len(e) = 0 /\ DOMAIN e = {} /\ ToSet(e) = {}
  BY <1>7 DEF ToSet
<1>9. figures \in [head : Nat, finalized : Nat, counters : Tallies, halted : BOOLEAN,
                   recent : Seq(Noteworthy)]
  BY <1>1, <1>5, <1>6, <1>7, <1>8
<1>10. csv \in [rows : Seq(CsvRows), previous : Int, lost : Nat]
  BY <1>1, <1>7, <1>8
<1>11. past \in [touched : Seq(Noteworthy), durations : [Durations -> Nat]]
  BY <1>1, <1>7, <1>8
<1>12. StatusTypeOK
  BY <1>1, <1>9, <1>10, <1>11 DEF StatusTypeOK
<1>13. CountersAgree
  <2>1. figures.counters = tally /\ figures.head = 0 /\ past.durations = [d \in Durations |-> 0]
        /\ serving.error = 0
    BY <1>1, <1>5
  <2>2. Tallied(none, past.durations)
    BY <1>4, <2>1 DEF Tallied, Durations
  <2> QED  BY <1>1, <1>6, <2>1, <2>2 DEF CountersAgree
<1>14. PageAgrees
  BY <1>1 DEF PageAgrees
<1>15. RecentIs(figures.recent, past.touched)
  <2>1. figures.recent = e /\ past.touched = e
    BY <1>1, <1>7
  <2>2. IsRecent(e, e)
    BY <1>8, IsRecentIs
  <2>3. Len(e) <= RECENT_CAPACITY
    BY <1>8, StatusAssumption
  <2> QED  BY <2>1, <2>2, <2>3 DEF RecentIs
<1>16. RowsAgree
  <2>1. csv.rows = e /\ csv.previous = -1 /\ figures.counters.answers.count = 0
    BY <1>1, <1>4, <1>5, <1>6, <1>7
  <2>2. InRows(e) = 0
    BY <1>7, InRowsNone
  <2> QED  BY <1>7, <1>8, <2>1, <2>2 DEF RowsAgree
<1> QED  BY <1>12, <1>13, <1>14, <1>15, <1>16 DEF StatusInv

(* The follow loop polls, applies a block and counts it, and a checkpoint  *)
(* ends.                                                                   *)
LEMMA LoopToldInv ==
    ASSUME StatusInv, FollowPolls \/ BlockApplied \/ BlockCounted \/ CheckpointTaken
    PROVE  StatusInv'
<1>1. /\ figures \in [head : Nat, finalized : Nat, counters : Tallies, halted : BOOLEAN,
                       recent : Seq(Noteworthy)]
      /\ UNCHANGED <<serving, page, csv, past>>
  BY DEF StatusInv, StatusTypeOK, FollowPolls, BlockApplied, BlockCounted, CheckpointTaken
<1>2. PICK tally : tally = figures.counters
  OBVIOUS
<1>3. tally \in Tallies /\ figures.head \in Nat /\ tally.applied \in Nat
  BY <1>1, <1>2 DEF Tallies
<1>4. /\ figures.head = tally.applied + IF step = "count" THEN 1 ELSE 0
      /\ tally.requests.error = tally.classes + serving.error
      /\ Tallied(tally.answers, past.durations)
  BY <1>2 DEF StatusInv, CountersAgree
<1>5. /\ step' \in {"poll", "apply", "count", "row", "checkpoint", "halted"}
      /\ figures' \in [head : Nat, finalized : Nat, counters : Tallies, halted : BOOLEAN,
                        recent : Seq(Noteworthy)]
      /\ figures'.recent = figures.recent
      /\ figures'.counters.answers = tally.answers
      /\ figures'.counters.requests = tally.requests /\ figures'.counters.classes = tally.classes
      /\ figures'.counters.applied >= tally.applied
      /\ figures'.head = figures'.counters.applied + IF step' = "count" THEN 1 ELSE 0
      /\ figures'.head >= figures.head
      /\ step' \in {"count", "row"} =>
            figures'.head > figures.head \/ (figures'.head = figures.head /\ step = "count")
  <2>1. CASE FollowPolls
    <3>1. PICK finalized \in figures.head .. MaxBlocks :
             figures' = [figures EXCEPT !.finalized = finalized]
      BY <2>1 DEF FollowPolls
    <3>2. step = "poll" /\ step' \in {"apply", "poll"}
      BY <2>1 DEF FollowPolls
    <3>3. finalized \in Nat
      BY <1>3, StatusAssumption
    <3> QED  BY <1>1, <1>2, <1>3, <1>4, <3>1, <3>2, <3>3
  <2>2. CASE BlockApplied
    <3>1. step = "apply" /\ step' = "count" /\ figures' = [figures EXCEPT !.head = @ + 1]
      BY <2>2 DEF BlockApplied
    <3> QED  BY <1>1, <1>2, <1>3, <1>4, <3>1
  <2>3. CASE BlockCounted
    <3>1. step = "count" /\ step' = "row" /\ figures' = [figures EXCEPT !.counters.applied = @ + 1]
      BY <2>3 DEF BlockCounted
    <3>2. PICK more : more = [tally EXCEPT !.applied = @ + 1]
      OBVIOUS
    <3>3. /\ more \in Tallies /\ more.applied = tally.applied + 1 /\ more.answers = tally.answers
          /\ more.requests = tally.requests /\ more.classes = tally.classes
      BY <1>3, <3>2 DEF Tallies
    <3>4. figures' = [figures EXCEPT !.counters = more]
      BY <1>1, <1>2, <3>1, <3>2
    <3>5. /\ figures' \in [head : Nat, finalized : Nat, counters : Tallies, halted : BOOLEAN,
                            recent : Seq(Noteworthy)]
          /\ figures'.counters = more /\ figures'.head = figures.head
          /\ figures'.recent = figures.recent
      BY <1>1, <3>3, <3>4
    <3>6. figures'.head = more.applied /\ more.applied >= tally.applied
      BY <1>3, <1>4, <3>1, <3>3, <3>5
    <3> QED  BY <1>3, <3>1, <3>3, <3>5, <3>6
  <2>4. CASE CheckpointTaken
    <3>1. PICK halts \in BOOLEAN : figures' = [figures EXCEPT !.halted = halts]
      BY <2>4 DEF CheckpointTaken
    <3>2. step = "checkpoint" /\ step' \in {"halted", "apply", "poll"}
      BY <2>4 DEF CheckpointTaken, AfterBlock
    <3> QED  BY <1>1, <1>2, <1>3, <1>4, <3>1, <3>2
  <2> QED  BY <2>1, <2>2, <2>3, <2>4
<1>6. StatusTypeOK'
  BY <1>1, <1>5 DEF StatusInv, StatusTypeOK
<1>7. CountersAgree'
  BY <1>1, <1>4, <1>5 DEF CountersAgree
<1>8. PageAgrees'
  <2>1. figures'.counters.applied \in Nat
    <3>1. figures'.counters \in Tallies
      BY <1>5
    <3> QED  BY <3>1 DEF Tallies
  <2>2. page' = page /\ PageAgrees
    BY <1>1 DEF StatusInv
  <2> QED  BY <1>2, <1>3, <1>5, <2>1, <2>2 DEF PageAgrees
<1>9. RowsAgree'
  <2>1. csv' = csv /\ RowsAgree /\ figures'.counters.answers = figures.counters.answers
    BY <1>1, <1>2, <1>5 DEF StatusInv
  <2>2. csv.rows \in Seq(CsvRows) /\ \A i \in DOMAIN csv.rows : csv.rows[i].block \in Nat
    <3>1. csv.rows \in Seq(CsvRows)
      BY DEF StatusInv, StatusTypeOK
    <3>2. \A row \in CsvRows : row.block \in Nat
      BY DEF CsvRows
    <3>3. \A i \in DOMAIN csv.rows : csv.rows[i] \in CsvRows
      BY <3>1
    <3> QED  BY <3>1, <3>2, <3>3
  <2>3. figures.head \in Nat /\ figures'.head \in Nat
    BY <1>3, <1>5
  <2>4. ASSUME NEW i \in DOMAIN csv.rows
        PROVE  /\ csv.rows[i].block <= figures'.head
               /\ step' \in {"count", "row"} => csv.rows[i].block < figures'.head
    <3>1. /\ csv.rows[i].block <= figures.head
          /\ step \in {"count", "row"} => csv.rows[i].block < figures.head
      BY <2>1 DEF RowsAgree
    <3>2. PICK b, head, later \in Nat : b = csv.rows[i].block /\ head = figures.head /\ later = figures'.head
      BY <2>2, <2>3
    <3>3. /\ b <= head
          /\ step \in {"count", "row"} => b < head
      BY <3>1, <3>2
    <3>4. /\ later >= head
          /\ step' \in {"count", "row"} => later > head \/ (later = head /\ step = "count")
      BY <1>5, <3>2
    <3>5. b <= later
      BY <3>3, <3>4
    <3>6. step' \in {"count", "row"} => b < later
      BY <3>3, <3>4
    <3> QED  BY <3>2, <3>5, <3>6
  <2> QED  BY <2>1, <2>4 DEF RowsAgree
<1>10. RecentIs(figures.recent, past.touched)'
  BY <1>1, <1>5 DEF StatusInv
<1> QED  BY <1>6, <1>7, <1>8, <1>9, <1>10 DEF StatusInv

(* A row is of the block just counted, and takes the answers since the row *)
(* before: what the rows count together stays what had been counted then.  *)
LEMMA BlockRowInv ==
    ASSUME StatusInv, BlockRow
    PROVE  StatusInv'
<1>1. PICK answered : answered = figures.counters.answers.count
  OBVIOUS
<1>2. PICK row : row = [block |-> figures.head,
                        answers |-> IF csv.previous < 0 THEN 0 ELSE answered - csv.previous]
  OBVIOUS
<1>3. /\ step = "row" /\ step' = "note" /\ UNCHANGED <<figures, serving, page, past>>
      /\ \/ csv' = [csv EXCEPT !.rows = Append(@, row), !.previous = answered]
         \/ csv' = [csv EXCEPT !.lost = @ + 1, !.previous = answered]
  BY <1>1, <1>2 DEF BlockRow
<1>4. /\ figures \in [head : Nat, finalized : Nat, counters : Tallies, halted : BOOLEAN,
                       recent : Seq(Noteworthy)]
      /\ csv \in [rows : Seq(CsvRows), previous : Int, lost : Nat]
  BY DEF StatusInv, StatusTypeOK
<1>5. figures.head \in Nat /\ answered \in Nat
  <2>1. figures.counters \in Tallies
    BY <1>4
  <2>2. figures.counters.answers \in Durationed
    BY <2>1 DEF Tallies
  <2> QED  BY <1>1, <1>4, <2>2 DEF Durationed
<1>6. PICK rows, previous : rows = csv.rows /\ previous = csv.previous
  OBVIOUS
<1>7. rows \in Seq(CsvRows) /\ previous \in Int /\ Len(rows) \in Nat
  BY <1>4, <1>6
<1>8. /\ previous >= -1 /\ previous <= answered /\ InRows(rows) <= answered
      /\ previous >= 0 => InRows(rows) <= previous
      /\ previous < 0 => rows = <<>>
      /\ \A i \in DOMAIN rows : /\ rows[i].block < figures.head
                                /\ \A j \in 1 .. (i - 1) : rows[j].block < rows[i].block
  BY <1>1, <1>3, <1>6 DEF StatusInv, RowsAgree
<1>9. row \in CsvRows /\ row.block = figures.head
      /\ row.answers = IF previous < 0 THEN 0 ELSE answered - previous
  BY <1>2, <1>5, <1>6, <1>7 DEF CsvRows
<1>10. CountersAgree' /\ PageAgrees' /\ RecentIs(figures.recent, past.touched)'
  BY <1>3 DEF StatusInv, CountersAgree, PageAgrees
<1>11. CASE csv' = [csv EXCEPT !.rows = Append(@, row), !.previous = answered]
  <2>1. PICK more : more = Append(rows, row)
    OBVIOUS
  <2>2. /\ more \in Seq(CsvRows) /\ Len(more) = Len(rows) + 1 /\ more[Len(rows) + 1] = row
        /\ \A i \in 1 .. Len(rows) : more[i] = rows[i]
        /\ DOMAIN more = 1 .. (Len(rows) + 1) /\ DOMAIN rows = 1 .. Len(rows)
    BY <1>7, <1>9, <2>1
  <2>3. csv' = [csv EXCEPT !.rows = more, !.previous = answered]
    BY <1>4, <1>6, <1>11, <2>1
  <2>4. /\ csv' \in [rows : Seq(CsvRows), previous : Int, lost : Nat]
        /\ csv'.rows = more /\ csv'.previous = answered
    <3>1. PICK mid : mid = [csv EXCEPT !.rows = more]
      OBVIOUS
    <3>2. mid \in [rows : Seq(CsvRows), previous : Int, lost : Nat] /\ mid.rows = more
      BY <1>4, <2>2, <3>1
    <3>3. csv' = [mid EXCEPT !.previous = answered]
      BY <1>4, <2>3, <3>1
    <3>4. answered \in Int
      BY <1>5
    <3> QED  BY <3>2, <3>3, <3>4
  <2>5. InRows(more) = InRows(rows) + row.answers /\ InRows(rows) \in Int
    BY <1>7, <1>9, <2>1, InRowsAppend
  <2>6. InRows(more) <= answered
    <3>1. CASE previous < 0
      BY <1>5, <1>7, <1>8, <1>9, <2>5, <3>1
    <3>2. CASE previous >= 0
      BY <1>5, <1>7, <1>8, <1>9, <2>5, <3>2
    <3> QED  BY <1>7, <3>1, <3>2
  <2>7. ASSUME NEW i \in DOMAIN more
        PROVE  /\ more[i].block <= figures.head
               /\ \A j \in 1 .. (i - 1) : more[j].block < more[i].block
    <3>1. \A j \in 1 .. Len(rows) : more[j].block \in Nat /\ more[j].block < figures.head
      <4>1. \A r \in CsvRows : r.block \in Nat
        BY DEF CsvRows
      <4> QED  BY <1>7, <1>8, <2>2, <4>1
    <3>2. CASE i \in 1 .. Len(rows)
      <4>1. \A j \in 1 .. (i - 1) : j \in 1 .. Len(rows)
        BY <1>7, <3>2
      <4>2. more[i].block <= figures.head
        BY <1>5, <3>1, <3>2
      <4> QED  BY <1>8, <2>2, <3>2, <4>1, <4>2
    <3>3. CASE i = Len(rows) + 1
      <4>1. \A j \in 1 .. (i - 1) : j \in 1 .. Len(rows)
        BY <1>7, <3>3
      <4>2. more[i].block = figures.head
        BY <1>9, <2>2, <3>3
      <4> QED  BY <1>5, <3>1, <4>1, <4>2
    <3> QED  BY <1>7, <2>2, <3>2, <3>3
  <2>8. RowsAgree'
    BY <1>1, <1>3, <1>5, <2>4, <2>6, <2>7 DEF RowsAgree
  <2> QED  BY <1>3, <1>10, <2>4, <2>8 DEF StatusInv, StatusTypeOK
<1>12. CASE csv' = [csv EXCEPT !.lost = @ + 1, !.previous = answered]
  <2>1. /\ csv' \in [rows : Seq(CsvRows), previous : Int, lost : Nat]
        /\ csv'.rows = rows /\ csv'.previous = answered
    <3>1. PICK mid : mid = [csv EXCEPT !.lost = @ + 1]
      OBVIOUS
    <3>2. mid \in [rows : Seq(CsvRows), previous : Int, lost : Nat] /\ mid.rows = rows
      BY <1>4, <1>6, <3>1
    <3>3. csv' = [mid EXCEPT !.previous = answered]
      BY <1>4, <1>12, <3>1
    <3>4. answered \in Int
      BY <1>5
    <3> QED  BY <3>2, <3>3, <3>4
  <2>2. \A i \in DOMAIN rows : rows[i].block <= figures.head
    <3>1. \A r \in CsvRows : r.block \in Nat
      BY DEF CsvRows
    <3>2. \A i \in DOMAIN rows : rows[i].block \in Nat
      BY <1>7, <3>1
    <3> QED  BY <1>5, <1>8, <3>2
  <2>3. RowsAgree'
    BY <1>1, <1>3, <1>5, <1>8, <2>1, <2>2 DEF RowsAgree
  <2> QED  BY <1>3, <1>10, <2>1, <2>3 DEF StatusInv, StatusTypeOK
<1> QED  BY <1>3, <1>11, <1>12

(* The accounts of a block are noted.                                      *)
LEMMA BlockNotedInv ==
    ASSUME StatusInv, BlockNoted
    PROVE  StatusInv'
<1>1. PICK changed \in ChangedLists :
         /\ figures' = [figures EXCEPT !.recent = Noted(@, changed)]
         /\ past' = [past EXCEPT !.touched = @ \o changed]
  BY DEF BlockNoted
<1>2. step = "note" /\ step' \in {"checkpoint", "apply", "poll"} /\ UNCHANGED <<serving, page, csv>>
  BY DEF BlockNoted, AfterBlock
<1>3. /\ figures \in [head : Nat, finalized : Nat, counters : Tallies, halted : BOOLEAN,
                       recent : Seq(Noteworthy)]
      /\ past \in [touched : Seq(Noteworthy), durations : [Durations -> Nat]]
  BY DEF StatusInv, StatusTypeOK
<1>4. PICK recent, touched : recent = figures.recent /\ touched = past.touched
  OBVIOUS
<1>5. recent \in Seq(Noteworthy) /\ touched \in Seq(Noteworthy) /\ changed \in Seq(Noteworthy)
  BY <1>3, <1>4, TouchedIsNoteworthy
<1>6. RecentIs(recent, touched)
  BY <1>4 DEF StatusInv
<1>7. PICK noted, more : noted = Noted(recent, changed) /\ more = touched \o changed
  OBVIOUS
<1>8. noted \in Seq(Noteworthy) /\ more \in Seq(Noteworthy) /\ RecentIs(noted, more)
  BY <1>5, <1>6, <1>7, NotedKeeps
<1>9. figures' = [figures EXCEPT !.recent = noted] /\ past' = [past EXCEPT !.touched = more]
  BY <1>1, <1>3, <1>4, <1>7
<1>10. /\ figures' \in [head : Nat, finalized : Nat, counters : Tallies, halted : BOOLEAN,
                         recent : Seq(Noteworthy)]
       /\ figures'.recent = noted /\ figures'.head = figures.head
       /\ figures'.counters = figures.counters
  BY <1>3, <1>8, <1>9
<1>11. /\ past' \in [touched : Seq(Noteworthy), durations : [Durations -> Nat]]
       /\ past'.touched = more /\ past'.durations = past.durations
  BY <1>3, <1>8, <1>9
<1>12. StatusTypeOK'
  BY <1>2, <1>10, <1>11 DEF StatusInv, StatusTypeOK
<1>13. CountersAgree'
  BY <1>2, <1>10, <1>11 DEF StatusInv, CountersAgree
<1>14. PageAgrees'
  BY <1>2, <1>10 DEF StatusInv, PageAgrees
<1>15. RowsAgree'
  BY <1>2, <1>10 DEF StatusInv, RowsAgree
<1> QED  BY <1>8, <1>10, <1>11, <1>12, <1>13, <1>14, <1>15 DEF StatusInv

(* A handler counts: its part of the counters only grows.                  *)
LEMMA HandlerCountsInv ==
    ASSUME StatusInv, AnswerTimed \/ ResponseCounted \/ ClientGone \/ ErrorCounted \/ ErrorClassed
    PROVE  StatusInv'
<1>1. /\ figures \in [head : Nat, finalized : Nat, counters : Tallies, halted : BOOLEAN,
                       recent : Seq(Noteworthy)]
      /\ past \in [touched : Seq(Noteworthy), durations : [Durations -> Nat]]
      /\ serving \in [ok : Nat, error : Nat]
  BY DEF StatusInv, StatusTypeOK
<1>2. UNCHANGED <<step, page, csv>>
  BY DEF AnswerTimed, ResponseCounted, ClientGone, ErrorCounted, ErrorClassed
<1>3. PICK tally : tally = figures.counters
  OBVIOUS
<1>4. tally \in [requests : [ok : Nat, error : Nat], classes : Nat, answers : Durationed, applied : Nat]
  BY <1>1, <1>3 DEF Tallies
<1>5. /\ tally.requests.error = tally.classes + serving.error
      /\ Tallied(tally.answers, past.durations)
  BY <1>3 DEF StatusInv, CountersAgree
<1>6. /\ serving' \in [ok : Nat, error : Nat]
      /\ past' \in [touched : Seq(Noteworthy), durations : [Durations -> Nat]]
      /\ past'.touched = past.touched
      /\ \E more \in Tallies :
            /\ figures' = [figures EXCEPT !.counters = more]
            /\ more.applied = tally.applied
            /\ more.requests.error = more.classes + serving'.error
            /\ Tallied(more.answers, past'.durations)
            /\ more.answers.count >= tally.answers.count
  <2>1. CASE AnswerTimed
    <3>1. PICK d \in Durations :
             /\ figures' = [figures EXCEPT !.counters.answers = Observed(@, d)]
             /\ past' = [past EXCEPT !.durations[d] = @ + 1]
      BY <2>1 DEF AnswerTimed
    <3>2. serving' = [serving EXCEPT !.ok = @ + 1]
      BY <2>1 DEF AnswerTimed
    <3>3. PICK h, timed, o, longer : /\ h = tally.answers /\ timed = past.durations
                                    /\ o = Observed(h, d)
                                    /\ longer = [timed EXCEPT ![d] = @ + 1]
      OBVIOUS
    <3>4. h \in Durationed /\ timed \in [Durations -> Nat] /\ Tallied(h, timed)
      BY <1>1, <1>4, <1>5, <3>3
    <3>5. /\ o \in Durationed /\ longer \in [Durations -> Nat] /\ Tallied(o, longer)
          /\ o.count = h.count + 1
      BY <3>3, <3>4, ObservedIs
    <3>6. PICK more : more = [tally EXCEPT !.answers = o]
      OBVIOUS
    <3>7. /\ more \in Tallies /\ more.applied = tally.applied /\ more.answers = o
          /\ more.requests = tally.requests /\ more.classes = tally.classes
      BY <1>4, <3>5, <3>6 DEF Tallies
    <3>8. figures' = [figures EXCEPT !.counters = more]
      BY <1>1, <1>3, <3>1, <3>3, <3>6
    <3>9. past' = [past EXCEPT !.durations = longer]
      BY <1>1, <3>1, <3>3
    <3>10. /\ past' \in [touched : Seq(Noteworthy), durations : [Durations -> Nat]]
           /\ past'.touched = past.touched /\ past'.durations = longer
      BY <1>1, <3>5, <3>9
    <3>11. serving' \in [ok : Nat, error : Nat] /\ serving'.error = serving.error
      BY <1>1, <3>2
    <3>12. h.count \in Nat
      BY <3>4 DEF Durationed
    <3>13. more.answers.count >= tally.answers.count
      BY <3>3, <3>5, <3>7, <3>12
    <3> QED  BY <1>5, <3>5, <3>7, <3>8, <3>10, <3>11, <3>13
  <2>2. CASE ResponseCounted
    <3>1. /\ serving.ok > 0 /\ serving' = [serving EXCEPT !.ok = @ - 1] /\ past' = past
          /\ figures' = [figures EXCEPT !.counters.requests.ok = @ + 1]
      BY <2>2 DEF ResponseCounted
    <3>2. PICK more : more = [tally EXCEPT !.requests.ok = @ + 1]
      OBVIOUS
    <3>3. /\ more \in Tallies /\ more.applied = tally.applied /\ more.answers = tally.answers
          /\ more.requests.error = tally.requests.error /\ more.classes = tally.classes
      BY <1>4, <3>2 DEF Tallies
    <3>4. figures' = [figures EXCEPT !.counters = more]
      BY <1>1, <1>3, <3>1, <3>2
    <3>5. serving' \in [ok : Nat, error : Nat] /\ serving'.error = serving.error
      BY <1>1, <3>1
    <3>6. tally.answers.count \in Nat
      BY <1>4 DEF Durationed
    <3>7. /\ more.requests.error = more.classes + serving'.error
          /\ Tallied(more.answers, past'.durations)
          /\ more.answers.count >= tally.answers.count
      BY <1>5, <3>1, <3>3, <3>5, <3>6
    <3> QED  BY <1>1, <3>1, <3>3, <3>4, <3>5, <3>7, Zenon
  <2>3. CASE ClientGone
    <3>1. /\ serving.ok > 0 /\ serving' = [serving EXCEPT !.ok = @ - 1] /\ past' = past
          /\ figures' = figures
      BY <2>3 DEF ClientGone
    <3>2. serving' \in [ok : Nat, error : Nat] /\ serving'.error = serving.error
      BY <1>1, <3>1
    <3>3. figures' = [figures EXCEPT !.counters = tally]
      BY <1>1, <1>3, <3>1
    <3>4. tally.answers.count \in Nat /\ tally \in Tallies
      BY <1>4 DEF Durationed, Tallies
    <3>5. /\ tally.requests.error = tally.classes + serving'.error
          /\ Tallied(tally.answers, past'.durations)
          /\ tally.answers.count >= tally.answers.count
      BY <1>5, <3>1, <3>2, <3>4
    <3> QED  BY <1>1, <3>1, <3>2, <3>3, <3>4, <3>5, Zenon
  <2>4. CASE ErrorCounted
    <3>1. /\ serving' = [serving EXCEPT !.error = @ + 1] /\ past' = past
          /\ figures' = [figures EXCEPT !.counters.requests.error = @ + 1]
      BY <2>4 DEF ErrorCounted
    <3>2. PICK more : more = [tally EXCEPT !.requests.error = @ + 1]
      OBVIOUS
    <3>3. /\ more \in Tallies /\ more.applied = tally.applied /\ more.answers = tally.answers
          /\ more.requests.error = tally.requests.error + 1 /\ more.classes = tally.classes
      BY <1>4, <3>2 DEF Tallies
    <3>4. figures' = [figures EXCEPT !.counters = more]
      BY <1>1, <1>3, <3>1, <3>2
    <3>5. serving' \in [ok : Nat, error : Nat] /\ serving'.error = serving.error + 1
      BY <1>1, <3>1
    <3>6. tally.answers.count \in Nat /\ tally.classes \in Nat /\ serving.error \in Nat
      BY <1>1, <1>4 DEF Durationed
    <3>7. more.requests.error = more.classes + serving'.error
      BY <1>5, <3>3, <3>5, <3>6
    <3>8. Tallied(more.answers, past'.durations) /\ more.answers.count >= tally.answers.count
      BY <1>5, <3>1, <3>3, <3>6
    <3> QED  BY <1>1, <3>1, <3>3, <3>4, <3>5, <3>7, <3>8, Zenon
  <2>5. CASE ErrorClassed
    <3>1. /\ serving.error > 0 /\ serving' = [serving EXCEPT !.error = @ - 1] /\ past' = past
          /\ figures' = [figures EXCEPT !.counters.classes = @ + 1]
      BY <2>5 DEF ErrorClassed
    <3>2. PICK more : more = [tally EXCEPT !.classes = @ + 1]
      OBVIOUS
    <3>3. /\ more \in Tallies /\ more.applied = tally.applied /\ more.answers = tally.answers
          /\ more.requests.error = tally.requests.error /\ more.classes = tally.classes + 1
      BY <1>4, <3>2 DEF Tallies
    <3>4. figures' = [figures EXCEPT !.counters = more]
      BY <1>1, <1>3, <3>1, <3>2
    <3>5. serving' \in [ok : Nat, error : Nat] /\ serving'.error = serving.error - 1
      <4>1. serving.error \in Nat /\ serving.error - 1 \in Nat
        BY <1>1, <3>1
      <4>2. PICK e : e = serving.error - 1
        OBVIOUS
      <4>3. serving' = [serving EXCEPT !.error = e]
        BY <3>1, <4>2
      <4> QED  BY <1>1, <4>1, <4>2, <4>3
    <3>6. tally.answers.count \in Nat /\ tally.classes \in Nat /\ serving.error \in Nat
      BY <1>1, <1>4 DEF Durationed
    <3>7. more.requests.error = more.classes + serving'.error
      BY <1>5, <3>3, <3>5, <3>6
    <3>8. Tallied(more.answers, past'.durations) /\ more.answers.count >= tally.answers.count
      BY <1>5, <3>1, <3>3, <3>6
    <3> QED  BY <1>1, <3>1, <3>3, <3>4, <3>5, <3>7, <3>8, Zenon
  <2> QED  BY <2>1, <2>2, <2>3, <2>4, <2>5
<1>7. PICK more \in Tallies :
         /\ figures' = [figures EXCEPT !.counters = more]
         /\ more.applied = tally.applied
         /\ more.requests.error = more.classes + serving'.error
         /\ Tallied(more.answers, past'.durations)
         /\ more.answers.count >= tally.answers.count
  BY <1>6
<1>8. /\ figures' \in [head : Nat, finalized : Nat, counters : Tallies, halted : BOOLEAN,
                        recent : Seq(Noteworthy)]
      /\ figures'.recent = figures.recent /\ figures'.head = figures.head
      /\ figures'.counters = more
  BY <1>1, <1>7
<1>9. StatusTypeOK'
  BY <1>2, <1>6, <1>8 DEF StatusInv, StatusTypeOK
<1>10. CountersAgree'
  BY <1>2, <1>3, <1>7, <1>8 DEF StatusInv, CountersAgree
<1>11. PageAgrees'
  BY <1>2, <1>3, <1>7, <1>8 DEF StatusInv, PageAgrees
<1>12. RowsAgree'
  <2>1. csv' = csv /\ RowsAgree
    BY <1>2 DEF StatusInv
  <2>2. csv.rows \in Seq(CsvRows) /\ csv.previous \in Int
    BY DEF StatusInv, StatusTypeOK
  <2>3. InRows(csv.rows) \in Int
    <3>1. [block |-> 0, answers |-> 0] \in CsvRows
      BY DEF CsvRows
    <3> QED  BY <2>2, <3>1, InRowsAppend
  <2>4. tally.answers.count \in Nat /\ more.answers.count \in Nat
    <3>1. tally.answers \in Durationed /\ more.answers \in Durationed
      BY <1>4 DEF Tallies
    <3> QED  BY <3>1 DEF Durationed
  <2>5. /\ csv.previous <= more.answers.count
        /\ InRows(csv.rows) <= more.answers.count
    <3>1. csv.previous <= tally.answers.count /\ InRows(csv.rows) <= tally.answers.count
      BY <1>3, <2>1 DEF RowsAgree
    <3> QED  BY <1>7, <2>2, <2>3, <2>4, <3>1
  <2> QED  BY <1>2, <1>8, <2>1, <2>5 DEF RowsAgree
<1> QED  BY <1>6, <1>8, <1>9, <1>10, <1>11, <1>12 DEF StatusInv

(* GET /metrics takes its locks one after another.                         *)
LEMMA ScrapeInv ==
    ASSUME StatusInv, ScrapeHead \/ ScrapeCounters \/ ScrapeRest
    PROVE  StatusInv'
<1>1. UNCHANGED <<step, figures, serving, csv, past>>
  BY DEF ScrapeHead, ScrapeCounters, ScrapeRest
<1>2. StatusTypeOK' /\ CountersAgree' /\ RowsAgree' /\ RecentIs(figures.recent, past.touched)'
  BY <1>1 DEF StatusInv, StatusTypeOK, CountersAgree, RowsAgree
<1>3. PICK tally : tally = figures.counters
  OBVIOUS
<1>4. tally \in Tallies /\ figures.head \in Nat /\ past.durations \in [Durations -> Nat]
  BY <1>3 DEF StatusInv, StatusTypeOK
<1>5. tally.applied \in Nat /\ tally.classes \in Nat /\ serving.error \in Nat
  BY <1>4 DEF Tallies, StatusInv, StatusTypeOK
<1>6. /\ figures.head = tally.applied + IF step = "count" THEN 1 ELSE 0
      /\ tally.requests.error = tally.classes + serving.error
      /\ Tallied(tally.answers, past.durations)
  BY <1>3 DEF StatusInv, CountersAgree
<1>7. PageAgrees
  BY DEF StatusInv
<1>8. PageAgrees'
  <2>1. CASE ScrapeHead
    <3>1. PICK head : head = figures.head
      OBVIOUS
    <3>2. page' = [lock |-> "counters", head |-> head]
      BY <2>1, <3>1 DEF ScrapeHead
    <3>3. head \in Nat /\ head <= tally.applied + 1
      BY <1>4, <1>5, <1>6, <3>1
    <3> QED  BY <1>1, <1>3, <3>2, <3>3 DEF PageAgrees
  <2>2. CASE ScrapeCounters
    <3>1. PICK head, timed : head = page.head /\ timed = past.durations
      OBVIOUS
    <3>2. /\ page.lock = "counters"
          /\ page' = [lock |-> "rest", head |-> head, counters |-> tally, timed |-> timed]
      BY <1>3, <2>2, <3>1 DEF ScrapeCounters
    <3>3. head \in Nat /\ head <= tally.applied + 1
      BY <1>3, <1>7, <3>1, <3>2 DEF PageAgrees
    <3>4. tally.classes <= tally.requests.error
      BY <1>5, <1>6
    <3> QED  BY <1>4, <1>6, <3>1, <3>2, <3>3, <3>4 DEF PageAgrees
  <2>3. CASE ScrapeRest
    <3>1. PICK head, counters, timed, lag, halted :
            /\ head = page.head /\ counters = page.counters /\ timed = page.timed
            /\ lag = IF figures.finalized > page.head THEN figures.finalized - page.head ELSE 0
            /\ halted = figures.halted
      OBVIOUS
    <3>2. /\ page.lock = "rest"
          /\ page' = [lock |-> "shown", head |-> head, counters |-> counters, timed |-> timed,
                      lag |-> lag, halted |-> halted]
      BY <2>3, <3>1 DEF ScrapeRest
    <3>3. /\ head \in Nat /\ counters \in Tallies /\ timed \in [Durations -> Nat]
          /\ head <= counters.applied + 1 /\ counters.classes <= counters.requests.error
          /\ Tallied(counters.answers, timed)
      BY <1>7, <3>1, <3>2 DEF PageAgrees
    <3> QED  BY <3>2, <3>3 DEF PageAgrees
  <2> QED  BY <2>1, <2>2, <2>3
<1> QED  BY <1>2, <1>8 DEF StatusInv

(* Every step of the node and of the page keeps the figures in agreement.  *)
LEMMA StatusKept ==
    ASSUME StatusInv, [StatusNext]_statusVars
    PROVE  StatusInv'
<1>1. CASE UNCHANGED statusVars
  BY <1>1 DEF statusVars, StatusInv, StatusTypeOK, CountersAgree, PageAgrees, RowsAgree
<1>2. CASE StatusNext
  BY <1>2, LoopToldInv, BlockRowInv, BlockNotedInv, HandlerCountsInv, ScrapeInv DEF StatusNext
<1> QED  BY <1>1, <1>2

(* The invariant is what is told.                                          *)
LEMMA StatusIsTold ==
    ASSUME StatusInv
    PROVE  StatusIsTrue
<1>1. IsRecent(figures.recent, past.touched)
  BY DEF StatusInv, RecentIs
<1>2. /\ InRows(csv.rows) <= figures.counters.answers.count
      /\ \A i \in DOMAIN csv.rows : \A j \in 1 .. (i - 1) : csv.rows[j].block < csv.rows[i].block
  BY DEF StatusInv, RowsAgree
<1>3. ASSUME page.lock = "shown"
      PROVE  /\ page.head <= page.counters.applied + 1
             /\ page.counters.classes <= page.counters.requests.error
             /\ page.counters.answers.count > 0 =>
                   \A q \in {50, 90, 99} : IsQuantile(QuantileBucket(page.counters.answers, q), q, page.timed)
  <2>1. /\ page.counters \in Tallies /\ page.timed \in [Durations -> Nat]
        /\ page.head <= page.counters.applied + 1
        /\ page.counters.classes <= page.counters.requests.error
        /\ Tallied(page.counters.answers, page.timed)
    BY <1>3 DEF StatusInv, PageAgrees
  <2>2. PICK h, timed : h = page.counters.answers /\ timed = page.timed
    OBVIOUS
  <2>3. h \in Durationed /\ timed \in [Durations -> Nat] /\ Tallied(h, timed)
    BY <2>1, <2>2 DEF Tallies
  <2>4. h.count > 0 => \A q \in {50, 90, 99} : IsQuantile(QuantileBucket(h, q), q, timed)
    BY <2>3, QuantileIs
  <2> QED  BY <2>1, <2>2, <2>4
<1> QED  BY <1>1, <1>2, <1>3 DEF StatusIsTrue

(* What the node says of itself agrees, in whatever order the follow loop, *)
(* the handlers and a page take the locks (node.rs:487-498, :570-640).     *)
THEOREM StatusIsAlwaysTrue == StatusSpec => []StatusIsTrue
<1>1. StatusInit => StatusInv
  BY StatusStarts
<1>2. StatusInv /\ [StatusNext]_statusVars => StatusInv'
  BY StatusKept
<1>3. StatusInv => StatusIsTrue
  BY StatusIsTold
<1> QED  BY <1>1, <1>2, <1>3, PTL DEF StatusSpec

-----------------------------------------------------------------------------
(* Sequences that hold nothing twice.                                      *)

Distinct(s) == \A i, j \in 1 .. Len(s) : s[i] = s[j] => i = j

(* What is in it is what is in s, and nothing else.                        *)
LEMMA AppendIsDistinct ==
    ASSUME NEW A, NEW s \in Seq(A), NEW e \in A, Distinct(s), e \notin ToSet(s)
    PROVE  /\ Append(s, e) \in Seq(A) /\ Distinct(Append(s, e))
           /\ ToSet(Append(s, e)) = ToSet(s) \cup {e}
<1>1. PICK n : n = Len(s)
  OBVIOUS
<1>2. PICK u : u = Append(s, e)
  OBVIOUS
<1>3. /\ n \in Nat /\ u \in Seq(A) /\ Len(u) = n + 1 /\ u[n + 1] = e /\ \A i \in 1 .. n : u[i] = s[i]
      /\ DOMAIN s = 1 .. n /\ DOMAIN u = 1 .. (n + 1)
  BY <1>1, <1>2
<1>4. \A i \in 1 .. n : s[i] # e
  BY <1>3 DEF ToSet
<1>5. Distinct(u)
  <2>1. ASSUME NEW i \in 1 .. (n + 1), NEW j \in 1 .. (n + 1), u[i] = u[j] PROVE i = j
    <3>1. \A k \in 1 .. (n + 1) : k \in 1 .. n \/ k = n + 1
      BY <1>3
    <3> QED  BY <1>1, <1>3, <1>4, <2>1, <3>1 DEF Distinct
  <2> QED  BY <1>3, <2>1 DEF Distinct
<1>6. ToSet(u) = ToSet(s) \cup {e}
  <2>1. \A k \in 1 .. (n + 1) : k \in 1 .. n \/ k = n + 1
    BY <1>3
  <2>2. \A k \in 1 .. n : k \in 1 .. (n + 1)
    BY <1>3
  <2>3. n + 1 \in 1 .. (n + 1)
    BY <1>3
  <2> QED  BY <1>3, <2>1, <2>2, <2>3 DEF ToSet
<1> QED  BY <1>2, <1>3, <1>5, <1>6

(* A sequence without repetition is as long as the set of what it holds.   *)
LEMMA DistinctCounts ==
    ASSUME NEW A, NEW s \in Seq(A), Distinct(s)
    PROVE  Cardinality(ToSet(s)) = Len(s)
<1>1. PICK n : n = Len(s)
  OBVIOUS
<1>2. PICK T : T = ToSet(s)
  OBVIOUS
<1>3. n \in Nat /\ DOMAIN s = 1 .. n /\ T = {s[i] : i \in 1 .. n}
  BY <1>1, <1>2 DEF ToSet
<1>4. PICK f : f = [i \in 1 .. n |-> s[i]]
  OBVIOUS
<1>5. f \in Bijection(1 .. n, T)
  <2>1. f \in [1 .. n -> T]
    BY <1>3, <1>4
  <2>2. IsInjective(f)
    BY <1>1, <1>3, <1>4 DEF Distinct, IsInjective
  <2>3. \A t \in T : \E i \in 1 .. n : f[i] = t
    BY <1>3, <1>4
  <2> QED  BY <2>1, <2>2, <2>3 DEF Bijection, Injection, Surjection
<1>6. IsFiniteSet(1 .. n) /\ Cardinality(1 .. n) = n
  BY <1>3, FS_Interval
<1>7. Cardinality(T) = Cardinality(1 .. n)
  BY <1>5, <1>6, FS_Bijection DEF ExistsBijection
<1> QED  BY <1>1, <1>2, <1>6, <1>7

(* A finite set may be written as a sequence.                              *)
LEMMA SetToSeqIs ==
    ASSUME NEW S, IsFiniteSet(S)
    PROVE  /\ SetToSeq(S) \in Seq(S) /\ Len(SetToSeq(S)) = Cardinality(S) /\ Cardinality(S) \in Nat
           /\ Distinct(SetToSeq(S))
<1>1. PICK n : n = Cardinality(S)
  OBVIOUS
<1>2. n \in Nat /\ ExistsBijection(1 .. n, S)
  BY <1>1, FS_CardinalityType
<1>3. PICK f : f \in Bijection(1 .. n, S)
  BY <1>2 DEF ExistsBijection
<1>4. f \in [1 .. n -> S] /\ IsInjective(f)
  BY <1>3 DEF Bijection, Injection
<1>5. PICK h : h = SetToSeq(S)
  OBVIOUS
<1>6. h \in [1 .. n -> S] /\ IsInjective(h)
  BY <1>1, <1>4, <1>5, Zenon DEF SetToSeq
<1>7. h \in Seq(S) /\ Len(h) = n /\ DOMAIN h = 1 .. n
  BY <1>2, <1>6
<1> QED  BY <1>1, <1>2, <1>5, <1>6, <1>7 DEF IsInjective, Distinct

(* The first of the candidates.                                            *)
LEMMA TakenIs ==
    ASSUME NEW A, NEW s \in Seq(A), Distinct(s), NEW cap \in Nat
    PROVE  /\ Taken(s, cap) \in Seq(A) /\ Distinct(Taken(s, cap))
           /\ \A i \in 1 .. Len(Taken(s, cap)) : \E j \in 1 .. Len(s) : Taken(s, cap)[i] = s[j]
<1>1. PICK m : m = Lesser(cap, Len(s))
  OBVIOUS
<1>2. m \in Nat /\ m <= Len(s)
  BY <1>1 DEF Lesser
<1>3. PICK u : u = SubSeq(s, 1, m)
  OBVIOUS
<1>4. u \in Seq(A) /\ Len(u) = m /\ \A i \in 1 .. m : i \in 1 .. Len(s) /\ u[i] = s[i]
  BY <1>2, <1>3
<1> QED  BY <1>1, <1>3, <1>4 DEF Taken, Distinct

-----------------------------------------------------------------------------
(* The ids of a list that pass a filter.                                   *)

Nobody == <<>>
Passing(taken, i, S) == IF i \in S THEN Append(taken, i) ELSE taken

(* The rounds of the fold that filters.                                    *)
FilteringOf(ids, S, V) == [i \in 1 .. Len(ids) |-> [taken \in V |-> Passing(taken, ids[i], S)]]

(* Filtering a list is a loop over it.                                     *)
LEMMA FilteredIsALoop ==
    ASSUME NEW A, NEW ids \in Seq(A), NEW S
    PROVE  /\ Nobody \in Seq(A) /\ FilteringOf(ids, S, Seq(A)) \in Rounds(Len(ids), Seq(A))
           /\ Filtered(ids, S) = Looped(Len(ids), Seq(A), Nobody, FilteringOf(ids, S, Seq(A)))
<1>1. PICK n : n = Len(ids)
  OBVIOUS
<1>2. PICK V : V = Seq(A)
  OBVIOUS
<1>3. n \in Nat /\ DOMAIN ids = 1 .. n /\ Nobody \in V /\ \A i \in 1 .. n : ids[i] \in A
  BY <1>1, <1>2 DEF Nobody
<1>4. PICK g : g = FilteringOf(ids, S, V)
  OBVIOUS
<1>5. \A i \in 1 .. n : \A v \in V : g[i][v] = Passing(v, ids[i], S)
  BY <1>1, <1>4 DEF FilteringOf
<1>6. g \in Rounds(n, V)
  <2>1. \A i \in 1 .. n : \A v \in V : Passing(v, ids[i], S) \in V
    BY <1>2, <1>3 DEF Passing
  <2> QED  BY <1>1, <1>4, <2>1 DEF FilteringOf, Rounds
<1>7. PICK h \in [SUBSET (1 .. n) -> V] : Unfolds(h, n, Nobody, g)
  BY <1>3, <1>6, FoldExists
<1>8. h = [t \in SUBSET DOMAIN ids |->
             IF t = {} THEN Nobody ELSE Passing(h[t \ {Top(t)}], ids[Top(t)], S)]
  <2>1. ASSUME NEW t \in SUBSET (1 .. n), t # {}
        PROVE  h[t] = Passing(h[t \ {Top(t)}], ids[Top(t)], S)
    <3>1. Top(t) \in 1 .. n /\ t \ {Top(t)} \in SUBSET (1 .. n)
      BY <1>3, <2>1, TopIs
    <3>2. h[t] = g[Top(t)][h[t \ {Top(t)}]]
      BY <1>7, <2>1 DEF Unfolds
    <3> QED  BY <1>5, <3>1, <3>2
  <2>2. h[{}] = Nobody
    BY <1>7 DEF Unfolds
  <2> QED  BY <1>3, <2>1, <2>2
<1>9. PICK k : /\ k = [t \in SUBSET DOMAIN ids |->
                      IF t = {} THEN Nobody ELSE Passing(k[t \ {Top(t)}], ids[Top(t)], S)]
               /\ Filtered(ids, S) = k[DOMAIN ids]
  BY <1>8, Zenon DEF Nobody, Passing, Filtered, FoldLeft, MapThenFoldSet, Top, Max
<1>10. k[{}] = Nobody
  BY <1>9
<1>11. ASSUME NEW t \in SUBSET (1 .. n), t # {}, k[t \ {Top(t)}] \in V
       PROVE  k[t] = g[Top(t)][k[t \ {Top(t)}]]
  <2>1. Top(t) \in 1 .. n
    BY <1>3, <1>11, TopIs
  <2>2. k[t] = Passing(k[t \ {Top(t)}], ids[Top(t)], S)
    BY <1>3, <1>9, <1>11
  <2> QED  BY <1>5, <1>11, <2>1, <2>2
<1>12. k[1 .. n] = Looped(n, V, Nobody, g)
  <2>1. FoldsBy(k, n, V, Nobody, g)
    BY <1>10, <1>11 DEF FoldsBy
  <2>2. n \in Nat /\ Nobody \in V
    BY <1>3
  <2> QED  BY <1>6, <2>1, <2>2, FoldIsLooped
<1> QED  BY <1>1, <1>2, <1>3, <1>4, <1>6, <1>9, <1>12

(* It holds ids of the list that pass, none of them twice.                 *)
PassedUpTo(t, ids, S, i) ==
    Distinct(t) /\ \A e \in ToSet(t) : e \in S /\ \E j \in 1 .. i : e = ids[j]

(* What is left has passed and was in the list, and stands there once.     *)
LEMMA FilteredIs ==
    ASSUME NEW A, NEW ids \in Seq(A), Distinct(ids), NEW S
    PROVE  /\ Filtered(ids, S) \in Seq(A) /\ Distinct(Filtered(ids, S))
           /\ \A e \in ToSet(Filtered(ids, S)) : e \in S /\ e \in ToSet(ids)
<1>1. PICK n : n = Len(ids)
  OBVIOUS
<1>2. PICK V : V = Seq(A)
  OBVIOUS
<1>3. PICK g : g = FilteringOf(ids, S, V)
  OBVIOUS
<1>4. n \in Nat /\ DOMAIN ids = 1 .. n /\ \A i \in 1 .. n : ids[i] \in A
  BY <1>1
<1>5. Nobody \in V /\ g \in Rounds(n, V) /\ Filtered(ids, S) = Looped(n, V, Nobody, g)
  BY <1>1, <1>2, <1>3, FilteredIsALoop
<1>6. PICK W : W = [i \in 0 .. n |-> {v \in V : PassedUpTo(v, ids, S, i)}]
  OBVIOUS
<1>7. 0 \in 0 .. n /\ n \in 0 .. n /\ \A i \in 1 .. n : i \in 0 .. n /\ i - 1 \in 0 .. n
  BY <1>4
<1>8. Nobody \in W[0]
  <2>1. Len(Nobody) = 0 /\ ToSet(Nobody) = {}
    BY DEF Nobody, ToSet
  <2>2. PassedUpTo(Nobody, ids, S, 0)
    BY <2>1 DEF PassedUpTo, Distinct
  <2> QED  BY <1>5, <1>6, <1>7, <2>2
<1>9. ASSUME NEW i \in 1 .. n, NEW v \in V, v \in W[i - 1] PROVE g[i][v] \in W[i]
  <2>1. g[i][v] = Passing(v, ids[i], S)
    BY <1>1, <1>3 DEF FilteringOf
  <2>2. PassedUpTo(v, ids, S, i - 1)
    BY <1>6, <1>7, <1>9
  <2>3. \A j \in 1 .. (i - 1) : j \in 1 .. i /\ j \in 1 .. n /\ j # i
    BY <1>4
  <2>4. i \in 1 .. i
    OBVIOUS
  <2>5. CASE ids[i] \notin S
    BY <1>6, <1>7, <2>1, <2>2, <2>3, <2>5 DEF Passing, PassedUpTo
  <2>6. CASE ids[i] \in S
    <3>1. ids[i] \notin ToSet(v)
      BY <1>1, <2>2, <2>3 DEF PassedUpTo, Distinct
    <3>2. v \in Seq(A) /\ ids[i] \in A /\ Distinct(v)
      BY <1>2, <1>4, <2>2 DEF PassedUpTo
    <3>3. PICK u : u = Append(v, ids[i])
      OBVIOUS
    <3>4. u \in V /\ Distinct(u) /\ ToSet(u) = ToSet(v) \cup {ids[i]}
      BY <1>2, <3>1, <3>2, <3>3, AppendIsDistinct
    <3>5. PassedUpTo(u, ids, S, i)
      BY <2>2, <2>3, <2>4, <2>6, <3>4 DEF PassedUpTo
    <3> QED  BY <1>6, <1>7, <2>1, <2>6, <3>3, <3>4, <3>5 DEF Passing
  <2> QED  BY <2>5, <2>6
<1>10. Looped(n, V, Nobody, g) \in W[n]
  BY <1>4, <1>5, <1>8, <1>9, LoopedWithin
<1>11. Filtered(ids, S) \in V /\ PassedUpTo(Filtered(ids, S), ids, S, n)
  BY <1>5, <1>6, <1>7, <1>10
<1> QED  BY <1>2, <1>4, <1>11 DEF PassedUpTo, ToSet

-----------------------------------------------------------------------------
(* Accounts ranked by their activity.                                      *)

Ahead(i, S) == {j \in S : MoreActive(j, i)}

(* Each rank is that of one account.                                       *)
LEMMA RankedIs ==
    ASSUME NEW A, NEW S \in SUBSET A, A \subseteq Int, IsFiniteSet(S), records.activity \in [A -> Nat]
    PROVE  Ranked(S) \in Seq(S) /\ Distinct(Ranked(S))
<1>1. PICK n : n = Cardinality(S)
  OBVIOUS
<1>2. n \in Nat
  BY <1>1, FS_CardinalityType
<1>3. \A i \in S : i \in Int /\ records.activity[i] \in Nat
  OBVIOUS
<1>4. ASSUME NEW i \in S
      PROVE  /\ IsFiniteSet(Ahead(i, S)) /\ Cardinality(Ahead(i, S)) \in 0 .. (n - 1)
             /\ i \notin Ahead(i, S)
  <2>1. i \notin Ahead(i, S)
    BY <1>3 DEF Ahead, MoreActive
  <2>2. Ahead(i, S) \in SUBSET (S \ {i})
    BY <2>1 DEF Ahead
  <2>3. IsFiniteSet(S \ {i}) /\ Cardinality(S \ {i}) = n - 1
    BY <1>1, FS_RemoveElement
  <2>4. IsFiniteSet(Ahead(i, S)) /\ Cardinality(Ahead(i, S)) <= n - 1
    BY <2>2, <2>3, FS_Subset
  <2>5. Cardinality(Ahead(i, S)) \in Nat
    BY <2>4, FS_CardinalityType
  <2> QED  BY <1>2, <2>1, <2>4, <2>5
<1>5. ASSUME NEW i \in S, NEW j \in S, MoreActive(i, j)
      PROVE  Cardinality(Ahead(i, S)) < Cardinality(Ahead(j, S))
  <2>1. Ahead(i, S) \cup {i} \in SUBSET Ahead(j, S)
    <3>1. ASSUME NEW k \in S, MoreActive(k, i) PROVE MoreActive(k, j)
      <4>1. /\ records.activity[i] \in Nat /\ records.activity[j] \in Nat /\ records.activity[k] \in Nat
            /\ i \in Int /\ j \in Int /\ k \in Int
        BY <1>3
      <4> QED  BY <1>5, <3>1, <4>1 DEF MoreActive
    <3> QED  BY <1>5, <3>1 DEF Ahead
  <2>2. /\ IsFiniteSet(Ahead(i, S) \cup {i})
        /\ Cardinality(Ahead(i, S) \cup {i}) = Cardinality(Ahead(i, S)) + 1
    BY <1>4, FS_AddElement
  <2>3. Cardinality(Ahead(i, S) \cup {i}) <= Cardinality(Ahead(j, S))
    BY <1>4, <2>1, FS_Subset
  <2>4. Cardinality(Ahead(i, S)) \in Int /\ Cardinality(Ahead(j, S)) \in Int
    BY <1>4
  <2> QED  BY <2>2, <2>3, <2>4
<1>6. PICK rank : rank = [i \in S |-> Cardinality(Ahead(i, S))]
  OBVIOUS
<1>7. rank \in [S -> 0 .. (n - 1)]
  BY <1>4, <1>6
<1>8. IsInjective(rank)
  <2>1. ASSUME NEW i \in S, NEW j \in S, rank[i] = rank[j] PROVE i = j
    <3>1. MoreActive(i, j) \/ MoreActive(j, i) \/ i = j
      BY <1>3 DEF MoreActive
    <3>2. rank[i] = Cardinality(Ahead(i, S)) /\ rank[j] = Cardinality(Ahead(j, S))
      BY <1>6
    <3>3. rank[i] \in Int /\ rank[j] \in Int
      BY <1>7
    <3>4. ~MoreActive(i, j)
      <4>1. ASSUME MoreActive(i, j) PROVE rank[i] < rank[j]
        BY <1>5, <3>2, <4>1
      <4> QED  BY <2>1, <3>3, <4>1
    <3>5. ~MoreActive(j, i)
      <4>1. ASSUME MoreActive(j, i) PROVE rank[j] < rank[i]
        BY <1>5, <3>2, <4>1
      <4> QED  BY <2>1, <3>3, <4>1
    <3> QED  BY <3>1, <3>4, <3>5
  <2> QED  BY <1>7, <2>1 DEF IsInjective
<1>9. IsFiniteSet(0 .. (n - 1)) /\ Cardinality(0 .. (n - 1)) = n
  BY <1>2, FS_Interval
<1>10. rank \in Surjection(S, 0 .. (n - 1))
  <2>1. rank \in Injection(S, 0 .. (n - 1))
    BY <1>7, <1>8 DEF Injection
  <2> QED  BY <1>1, <1>9, <2>1, FS_Injection
<1>11. PICK r : r = Ranked(S)
  OBVIOUS
<1>12. r = [k \in 1 .. n |-> CHOOSE i \in S : Cardinality(Ahead(i, S)) = k - 1]
  BY <1>1, <1>11 DEF Ranked, Ahead
<1>13. ASSUME NEW k \in 1 .. n PROVE r[k] \in S /\ rank[r[k]] = k - 1
  <2>1. k - 1 \in 0 .. (n - 1)
    BY <1>2
  <2>2. \E i \in S : rank[i] = k - 1
    BY <1>10, <2>1 DEF Surjection
  <2>3. \E i \in S : Cardinality(Ahead(i, S)) = k - 1
    BY <1>6, <2>2
  <2>4. r[k] = CHOOSE i \in S : Cardinality(Ahead(i, S)) = k - 1
    BY <1>12
  <2>5. r[k] \in S /\ Cardinality(Ahead(r[k], S)) = k - 1
    BY <2>3, <2>4
  <2> QED  BY <1>6, <2>5
<1>14. r \in [1 .. n -> S]
  BY <1>12, <1>13
<1>15. r \in Seq(S) /\ Len(r) = n
  BY <1>2, <1>14
<1>16. ASSUME NEW i \in 1 .. n, NEW j \in 1 .. n, r[i] = r[j] PROVE i = j
  BY <1>2, <1>13, <1>16
<1> QED  BY <1>11, <1>15, <1>16 DEF Distinct

-----------------------------------------------------------------------------
(* A sample is made of one piece for each category.                        *)

(* The accounts of a piece are in the categories that it says they are in, *)
(* and none is there twice.                                                *)
Fair(s, C, F) ==
    /\ s \in Seq(Ids \X C)
    /\ \A i \in 1 .. Len(s) : s[i][1] \in F[s[i][2]]
    /\ \A i, j \in 1 .. Len(s) : s[i][1] = s[j][1] => i = j

Apart(F) == \A c, d \in CATEGORIES : c # d => F[c] \cap F[d] = {}

(* Ids of one category make a fair piece.                                  *)
LEMMA LabelledIsFair ==
    ASSUME NEW F, NEW c, NEW ids \in Seq(Ids), Distinct(ids), ToSet(ids) \subseteq F[c]
    PROVE  Fair(Labelled(ids, c), {c}, F)
<1>1. PICK n : n = Len(ids)
  OBVIOUS
<1>2. n \in Nat /\ DOMAIN ids = 1 .. n /\ \A i \in 1 .. n : ids[i] \in Ids
  BY <1>1
<1>3. \A i \in 1 .. n : ids[i] \in F[c]
  BY <1>2 DEF ToSet
<1>4. PICK s : s = Labelled(ids, c)
  OBVIOUS
<1>5. s = [i \in 1 .. n |-> <<ids[i], c>>]
  BY <1>1, <1>4 DEF Labelled
<1>6. \A i \in 1 .. n : s[i] = <<ids[i], c>> /\ s[i][1] = ids[i] /\ s[i][2] = c /\ s[i] \in Ids \X {c}
  BY <1>2, <1>5
<1>7. s \in Seq(Ids \X {c}) /\ Len(s) = n
  BY <1>2, <1>5, <1>6
<1> QED  BY <1>1, <1>3, <1>4, <1>6, <1>7 DEF Fair, Distinct

(* Fair pieces of different categories make a fair sample: no account is   *)
(* in two categories.                                                      *)
LEMMA JoinedIsFair ==
    ASSUME NEW F, Apart(F), NEW C \in SUBSET CATEGORIES, NEW D \in SUBSET CATEGORIES,
           C \cap D = {}, NEW s, Fair(s, C, F), NEW t, Fair(t, D, F)
    PROVE  Fair(s \o t, C \cup D, F)
<1>1. PICK A : A = Ids \X (C \cup D)
  OBVIOUS
<1>2. \A e : e \in Ids \X C \/ e \in Ids \X D => e \in A
  BY <1>1
<1>3. s \in Seq(Ids \X C) /\ t \in Seq(Ids \X D)
  BY DEF Fair
<1>4. PICK m : m = Len(s)
  OBVIOUS
<1>5. PICK n : n = Len(t)
  OBVIOUS
<1>6. /\ m \in Nat /\ n \in Nat /\ \A i \in 1 .. m : s[i] \in Ids \X C
      /\ \A i \in 1 .. n : t[i] \in Ids \X D
  BY <1>3, <1>4, <1>5
<1>7. s \in Seq(A) /\ t \in Seq(A)
  BY <1>2, <1>3
<1>8. PICK u : u = s \o t
  OBVIOUS
<1>9. /\ u \in Seq(A) /\ Len(u) = m + n /\ \A i \in 1 .. m : u[i] = s[i]
      /\ \A i \in (m + 1) .. (m + n) : u[i] = t[i - m]
  BY <1>4, <1>5, <1>7, <1>8
<1>10. \A i \in 1 .. m : /\ u[i][1] = s[i][1] /\ u[i][2] = s[i][2] /\ s[i][2] \in C
                         /\ s[i][1] \in F[s[i][2]]
  BY <1>4, <1>6, <1>9 DEF Fair
<1>11. \A i \in (m + 1) .. (m + n) :
          /\ i - m \in 1 .. n /\ u[i][1] = t[i - m][1] /\ u[i][2] = t[i - m][2]
          /\ t[i - m][2] \in D /\ t[i - m][1] \in F[t[i - m][2]]
  <2>1. \A i \in (m + 1) .. (m + n) : i - m \in 1 .. n
    BY <1>6
  <2> QED  BY <1>5, <1>6, <1>9, <2>1 DEF Fair
<1>12. \A i \in 1 .. (m + n) : i \in 1 .. m \/ i \in (m + 1) .. (m + n)
  BY <1>6
<1>13. ASSUME NEW i \in 1 .. m, NEW j \in (m + 1) .. (m + n) PROVE u[i][1] # u[j][1]
  <2>1. F[s[i][2]] \cap F[t[j - m][2]] = {}
    BY <1>10, <1>11 DEF Apart
  <2> QED  BY <1>10, <1>11, <2>1
<1>14. ASSUME NEW i \in 1 .. m, NEW j \in 1 .. m, u[i][1] = u[j][1] PROVE i = j
  BY <1>4, <1>10, <1>14 DEF Fair
<1>15. ASSUME NEW i \in (m + 1) .. (m + n), NEW j \in (m + 1) .. (m + n), u[i][1] = u[j][1]
       PROVE  i = j
  <2>1. i - m = j - m
    BY <1>5, <1>11, <1>15 DEF Fair
  <2> QED  BY <1>6, <2>1
<1>16. \A i, j \in 1 .. (m + n) : u[i][1] = u[j][1] => i = j
  BY <1>12, <1>13, <1>14, <1>15
<1>17. \A i \in 1 .. (m + n) : u[i][1] \in F[u[i][2]]
  BY <1>10, <1>11, <1>12
<1> QED  BY <1>1, <1>8, <1>9, <1>16, <1>17 DEF Fair

(* How many of each category the sample takes.                             *)
LEMMA BuildSampleIs ==
    ASSUME NEW full \in [zero : Seq(Ids), created : Seq(Ids), active : Seq(Ids)], NEW target \in Nat
    PROVE  \E z, c, a \in Nat :
              BuildSample(full, target) =
                  Labelled(SetToSeq(NeverExisted), "never-existed")
                    \o Labelled(SetToSeq(Contracts), "contract")
                    \o Labelled(Taken(full.zero, z), "zero-balance")
                    \o Labelled(Taken(full.created, c), "created")
                    \o Labelled(Taken(full.active, a), "high-activity")
<1> DEFINE fixed == NeverExistedCount + ContractCount
           Capped(s) == Lesser(PerBucket, Len(s))
           Room(s) == Len(s) - Capped(s)
           short == target - fixed - Capped(full.zero) - Capped(full.created) - Capped(full.active)
           deficit == IF short > 0 THEN short ELSE 0
           active == Lesser(Room(full.active), deficit)
           created == Lesser(Room(full.created), deficit - active)
           zero == Lesser(Room(full.zero), deficit - active - created)
<1>1. BuildSample(full, target) =
        Labelled(SetToSeq(NeverExisted), "never-existed")
          \o Labelled(SetToSeq(Contracts), "contract")
          \o Labelled(Taken(full.zero, PerBucket + zero), "zero-balance")
          \o Labelled(Taken(full.created, PerBucket + created), "created")
          \o Labelled(Taken(full.active, PerBucket + active), "high-activity")
  BY Zenon DEF BuildSample
<1>2. PerBucket \in Nat /\ NeverExistedCount \in Nat /\ ContractCount \in Nat
  BY ConformanceAssumption
<1>3. Len(full.zero) \in Nat /\ Len(full.created) \in Nat /\ Len(full.active) \in Nat
  OBVIOUS
<1>4. ASSUME NEW s, Len(s) \in Nat PROVE Capped(s) \in Nat /\ Room(s) \in Nat
  BY <1>2, <1>4 DEF Lesser
<1>5. /\ Capped(full.zero) \in Nat /\ Capped(full.created) \in Nat /\ Capped(full.active) \in Nat
      /\ Room(full.zero) \in Nat /\ Room(full.created) \in Nat /\ Room(full.active) \in Nat
  BY <1>3, <1>4
<1> HIDE DEF Capped, Room
<1>6. deficit \in Nat
  BY <1>2, <1>5
<1> HIDE DEF deficit
<1>7. active \in Nat /\ deficit - active \in Nat
  BY <1>5, <1>6 DEF Lesser
<1> HIDE DEF active
<1>8. created \in Nat /\ deficit - active - created \in Nat
  BY <1>5, <1>6, <1>7 DEF Lesser
<1> HIDE DEF created
<1>9. zero \in Nat
  BY <1>5, <1>6, <1>7, <1>8 DEF Lesser
<1> HIDE DEF zero
<1>10. PerBucket + zero \in Nat /\ PerBucket + created \in Nat /\ PerBucket + active \in Nat
  BY <1>2, <1>7, <1>8, <1>9
<1> QED  BY <1>1, <1>10, Zenon

-----------------------------------------------------------------------------
(* What the harness knows of the chain.                                    *)

MockBooks == [Ids -> 0 .. 2]
RecordBooks == [activity : [Ids -> Nat], known : SUBSET Ids, created : Seq(Ids), deleted : Seq(Ids)]

GateTypeOK ==
    /\ mock \in [balances : MockBooks, block : 0 .. Blocks, nextId : Nat]
    /\ mock.nextId = GenesisKeys + InsertsPerBlock * mock.block
    /\ records \in RecordBooks
    /\ gate \in [phase : {"run", "checkpoint", "done"}, mismatches : Nat,
                 sample : Seq(Ids \X CATEGORIES), passed : BOOLEAN]
    /\ wrongAnswers \in Nat

(* Every account that is live is known, those that came are listed once,   *)
(* and those that went are listed once and are gone.                       *)
RecordsAgree(s, balances, nextId) ==
    /\ \A id \in s.known : id < nextId
    /\ \A id \in Ids : balances[id] # 0 => id \in s.known
    /\ s.known = GenesisIds \cup ToSet(s.created)
    /\ Distinct(s.created) /\ ToSet(s.created) \cap GenesisIds = {}
    /\ Distinct(s.deleted)
    /\ \A id \in ToSet(s.deleted) : id \in s.known /\ balances[id] = 0

(* The accounts that a category's name speaks of.                          *)
StandsFor ==
    [c \in CATEGORIES |->
        IF c = "never-existed" THEN Ids \ records.known
        ELSE IF c = "contract" THEN Contracts
        ELSE IF c = "zero-balance" THEN {id \in records.known \ Contracts : mock.balances[id] = 0}
        ELSE IF c = "created" THEN {id \in records.known \ GenesisIds : mock.balances[id] # 0}
        ELSE {id \in GenesisIds \ Contracts : mock.balances[id] # 0}]

(* What the blocks so far have minted is no more than all will mint.       *)
LEMMA Minting ==
    ASSUME NEW k \in 0 .. Blocks
    PROVE  /\ InsertsPerBlock * k \in Nat /\ InsertsPerBlock * Blocks \in Nat
           /\ InsertsPerBlock * k <= InsertsPerBlock * Blocks
           /\ InsertsPerBlock * (k + 1) = InsertsPerBlock * k + InsertsPerBlock
<1>1. InsertsPerBlock \in Nat /\ Blocks \in Nat /\ k \in Nat /\ Blocks - k \in Nat
  BY ConformanceAssumption
<1>2. \A m, n \in Nat : m * n \in Nat
  OBVIOUS
<1>3. InsertsPerBlock * k \in Nat /\ InsertsPerBlock * Blocks \in Nat /\ InsertsPerBlock * (Blocks - k) \in Nat
  BY <1>1, <1>2
<1>4. InsertsPerBlock * (Blocks - k) = InsertsPerBlock * Blocks - InsertsPerBlock * k
  BY <1>1
<1>5. InsertsPerBlock * (k + 1) = InsertsPerBlock * k + InsertsPerBlock
  BY <1>1
<1> QED  BY <1>3, <1>4, <1>5

(* The ids of the run, and which of them are whose.                        *)
LEMMA IdsAre ==
    /\ Ids \subseteq Nat /\ GenesisIds \subseteq Ids /\ Contracts \subseteq GenesisIds
    /\ NeverExisted \subseteq Ids
    /\ \A id \in NeverExisted : id > GenesisKeys + InsertsPerBlock * Blocks
    /\ IsFiniteSet(Ids)
<1>1. Blocks \in Nat /\ GenesisKeys \in Nat /\ NeverExistedCount \in Nat /\ ContractCount \in 0 .. GenesisKeys
  BY ConformanceAssumption
<1>2. Blocks \in 0 .. Blocks
  BY <1>1
<1>3. PICK m : m = InsertsPerBlock * Blocks
  OBVIOUS
<1>4. m \in Nat
  BY <1>2, <1>3, Minting
<1>5. /\ Ids = 0 .. (GenesisKeys + m + NeverExistedCount)
      /\ NeverExisted = {GenesisKeys + m + i : i \in 1 .. NeverExistedCount}
  BY <1>3 DEF Ids, NeverExisted
<1>6. IsFiniteSet(Ids)
  <2>1. PICK top \in Nat : top = GenesisKeys + m + NeverExistedCount
    BY <1>1, <1>4
  <2>2. IsFiniteSet(0 .. top)
    BY <2>1, FS_Interval
  <2> QED  BY <1>5, <2>1, <2>2
<1>7. Ids \subseteq Nat
  BY <1>5
<1>8. GenesisIds \subseteq Ids
  BY <1>1, <1>4, <1>5 DEF GenesisIds
<1>9. Contracts \subseteq GenesisIds
  BY <1>1 DEF GenesisIds, Contracts
<1>10. ASSUME NEW id \in NeverExisted
       PROVE  id \in Ids /\ id > GenesisKeys + m
  <2>1. PICK i \in 1 .. NeverExistedCount : id = GenesisKeys + m + i
    BY <1>5, <1>10
  <2> QED  BY <1>1, <1>4, <1>5, <2>1
<1>11. \A id \in NeverExisted : id > GenesisKeys + InsertsPerBlock * Blocks
  BY <1>3, <1>10
<1>12. NeverExisted \subseteq Ids
  BY <1>10
<1> QED  BY <1>6, <1>7, <1>8, <1>9, <1>11, <1>12

(* No account is in two categories.                                        *)
LEMMA CategoriesApart ==
    ASSUME GateTypeOK, RecordsAgree(records, mock.balances, mock.nextId)
    PROVE  Apart(StandsFor)
<1>1. Contracts \subseteq GenesisIds /\ GenesisIds \subseteq records.known
  BY IdsAre DEF RecordsAgree
<1>2. PICK K : K = records.known
  OBVIOUS
<1>3. PICK b : b = mock.balances
  OBVIOUS
<1>4. PICK F : F = StandsFor
  OBVIOUS
<1>5. /\ F["never-existed"] = Ids \ K
      /\ F["contract"] = Contracts
      /\ F["zero-balance"] = {id \in K \ Contracts : b[id] = 0}
      /\ F["created"] = {id \in K \ GenesisIds : b[id] # 0}
      /\ F["high-activity"] = {id \in GenesisIds \ Contracts : b[id] # 0}
  BY <1>2, <1>3, <1>4 DEF StandsFor, CATEGORIES
<1>6. ASSUME NEW c \in CATEGORIES, NEW d \in CATEGORIES, NEW e, e \in F[c], e \in F[d]
      PROVE  c = d
  <2>1. CASE e \notin K
    BY <1>1, <1>2, <1>5, <1>6, <2>1 DEF CATEGORIES
  <2>2. CASE e \in Contracts
    BY <1>1, <1>2, <1>5, <1>6, <2>2 DEF CATEGORIES
  <2>3. CASE e \in K /\ e \notin Contracts /\ b[e] = 0
    BY <1>1, <1>2, <1>5, <1>6, <2>3 DEF CATEGORIES
  <2>4. CASE e \in K /\ e \notin Contracts /\ b[e] # 0
    BY <1>1, <1>2, <1>5, <1>6, <2>4 DEF CATEGORIES
  <2> QED  BY <2>1, <2>2, <2>3, <2>4
<1> QED  BY <1>4, <1>6 DEF Apart

(* The candidates are what their categories say.                           *)
LEMMA CandidatesAre ==
    ASSUME GateTypeOK, RecordsAgree(records, mock.balances, mock.nextId)
    PROVE  /\ FullCandidates \in [zero : Seq(Ids), created : Seq(Ids), active : Seq(Ids)]
           /\ Distinct(FullCandidates.zero) /\ Distinct(FullCandidates.created)
           /\ Distinct(FullCandidates.active)
           /\ ToSet(FullCandidates.zero) \subseteq StandsFor["zero-balance"]
           /\ ToSet(FullCandidates.created) \subseteq StandsFor["created"]
           /\ ToSet(FullCandidates.active) \subseteq StandsFor["high-activity"]
<1>1. PICK z : z = Filtered(records.deleted, Ids \ Contracts)
  OBVIOUS
<1>2. PICK c : c = Filtered(records.created, Live(mock.balances))
  OBVIOUS
<1>3. PICK S : S = {i \in GenesisIds \ Contracts : records.activity[i] > 0 /\ mock.balances[i] # 0}
  OBVIOUS
<1>4. PICK a : a = Ranked(S)
  OBVIOUS
<1>5. FullCandidates = [zero |-> z, created |-> c, active |-> a]
  BY <1>1, <1>2, <1>3, <1>4 DEF FullCandidates
<1>6. /\ records.deleted \in Seq(Ids) /\ records.created \in Seq(Ids)
      /\ records.activity \in [Ids -> Nat]
  BY DEF GateTypeOK, RecordBooks
<1>7. Distinct(records.deleted) /\ Distinct(records.created)
  BY DEF RecordsAgree
<1>8. /\ z \in Seq(Ids) /\ Distinct(z)
      /\ \A e \in ToSet(z) : e \in Ids \ Contracts /\ e \in ToSet(records.deleted)
  BY <1>1, <1>6, <1>7, FilteredIs
<1>9. /\ c \in Seq(Ids) /\ Distinct(c)
      /\ \A e \in ToSet(c) : e \in Live(mock.balances) /\ e \in ToSet(records.created)
  BY <1>2, <1>6, <1>7, FilteredIs
<1>10. S \in SUBSET Ids /\ Ids \subseteq Int /\ IsFiniteSet(S)
  <2>1. S \in SUBSET Ids
    BY <1>3, IdsAre
  <2>2. IsFiniteSet(Ids) /\ Ids \subseteq Int
    BY IdsAre
  <2>3. IsFiniteSet(S)
    BY <2>1, <2>2, FS_Subset
  <2> QED  BY <2>1, <2>2, <2>3
<1>11. a \in Seq(S) /\ Distinct(a)
  <2>1. PICK A : A = Ids
    OBVIOUS
  <2>2. S \in SUBSET A
    BY <1>10, <2>1
  <2>3. A \subseteq Int
    BY <1>10, <2>1
  <2>4. IsFiniteSet(S)
    BY <1>10
  <2>5. records.activity \in [A -> Nat]
    BY <1>6, <2>1
  <2>6. Ranked(S) \in Seq(S) /\ Distinct(Ranked(S))
    BY <2>2, <2>3, <2>4, <2>5, RankedIs
  <2> QED  BY <1>4, <2>6
<1>12. a \in Seq(Ids) /\ \A e \in ToSet(a) : e \in S
  <2>1. \A i \in DOMAIN a : a[i] \in S
    BY <1>11
  <2>2. \A e \in ToSet(a) : e \in S
    BY <2>1 DEF ToSet
  <2>3. S \subseteq Ids
    BY <1>10
  <2>4. a \in Seq(Ids)
    BY <1>11, <2>3
  <2> QED  BY <2>2, <2>4
<1>13. ToSet(z) \subseteq {id \in records.known \ Contracts : mock.balances[id] = 0}
  BY <1>8 DEF RecordsAgree
<1>14. ToSet(c) \subseteq {id \in records.known \ GenesisIds : mock.balances[id] # 0}
  BY <1>9 DEF RecordsAgree, Live
<1>15. ToSet(a) \subseteq {id \in GenesisIds \ Contracts : mock.balances[id] # 0}
  BY <1>3, <1>12
<1>16. ToSet(z) \subseteq StandsFor["zero-balance"]
  BY <1>13 DEF StandsFor, CATEGORIES
<1>17. ToSet(c) \subseteq StandsFor["created"]
  BY <1>14 DEF StandsFor, CATEGORIES
<1>18. ToSet(a) \subseteq StandsFor["high-activity"]
  BY <1>15 DEF StandsFor, CATEGORIES
<1> QED  BY <1>5, <1>8, <1>9, <1>11, <1>12, <1>16, <1>17, <1>18

(* A sample is fair, whatever it is filled up to.                          *)
LEMMA SampleIsFair ==
    ASSUME GateTypeOK, RecordsAgree(records, mock.balances, mock.nextId), NEW target \in Nat
    PROVE  Fair(BuildSample(FullCandidates, target), CATEGORIES, StandsFor)
<1>1. PICK full : full = FullCandidates
  OBVIOUS
<1>2. PICK F : F = StandsFor
  OBVIOUS
<1>3. /\ full \in [zero : Seq(Ids), created : Seq(Ids), active : Seq(Ids)]
      /\ full.zero \in Seq(Ids) /\ full.created \in Seq(Ids) /\ full.active \in Seq(Ids)
      /\ Distinct(full.zero) /\ Distinct(full.created) /\ Distinct(full.active)
      /\ ToSet(full.zero) \subseteq F["zero-balance"]
      /\ ToSet(full.created) \subseteq F["created"]
      /\ ToSet(full.active) \subseteq F["high-activity"]
  BY <1>1, <1>2, CandidatesAre
<1>4. PICK z, c, a \in Nat :
          BuildSample(full, target) =
              Labelled(SetToSeq(NeverExisted), "never-existed")
                \o Labelled(SetToSeq(Contracts), "contract")
                \o Labelled(Taken(full.zero, z), "zero-balance")
                \o Labelled(Taken(full.created, c), "created")
                \o Labelled(Taken(full.active, a), "high-activity")
  BY <1>3, BuildSampleIs
<1>5. ASSUME NEW S \in SUBSET Ids, NEW cat, S \subseteq F[cat]
      PROVE  Fair(Labelled(SetToSeq(S), cat), {cat}, F)
  <2>1. IsFiniteSet(S)
    BY IdsAre, FS_Subset
  <2>2. PICK s : s = SetToSeq(S)
    OBVIOUS
  <2>3. s \in Seq(S) /\ Distinct(s)
    BY <2>1, <2>2, SetToSeqIs
  <2>4. s \in Seq(Ids) /\ ToSet(s) \subseteq F[cat]
    BY <1>5, <2>3 DEF ToSet
  <2> QED  BY <2>2, <2>3, <2>4, LabelledIsFair
<1>6. ASSUME NEW s \in Seq(Ids), Distinct(s), NEW cat, ToSet(s) \subseteq F[cat], NEW cap \in Nat
      PROVE  Fair(Labelled(Taken(s, cap), cat), {cat}, F)
  <2>1. PICK u : u = Taken(s, cap)
    OBVIOUS
  <2>2. u \in Seq(Ids) /\ Distinct(u) /\ \A i \in 1 .. Len(u) : \E j \in 1 .. Len(s) : u[i] = s[j]
    BY <1>6, <2>1, TakenIs
  <2>3. \A j \in 1 .. Len(s) : s[j] \in F[cat]
    BY <1>6 DEF ToSet
  <2>4. ToSet(u) \subseteq F[cat]
    BY <2>2, <2>3 DEF ToSet
  <2> QED  BY <2>1, <2>2, <2>4, LabelledIsFair
<1>7. NeverExisted \in SUBSET Ids /\ NeverExisted \subseteq F["never-existed"]
  <2>1. mock.nextId <= GenesisKeys + InsertsPerBlock * Blocks
    <3>1. mock.block \in 0 .. Blocks /\ GenesisKeys \in Nat
      BY ConformanceAssumption DEF GateTypeOK
    <3> QED  BY <3>1, Minting DEF GateTypeOK
  <2>2. ASSUME NEW id \in NeverExisted PROVE id \notin records.known
    <3>1. PICK top : top = GenesisKeys + InsertsPerBlock * Blocks
      OBVIOUS
    <3>2. top \in Int
      <4>1. Blocks \in 0 .. Blocks /\ GenesisKeys \in Nat
        BY ConformanceAssumption
      <4> QED  BY <3>1, <4>1, Minting
    <3>3. id \in Int /\ id > top
      BY <3>1, IdsAre
    <3>4. mock.nextId \in Int /\ mock.nextId <= top
      BY <2>1, <3>1 DEF GateTypeOK
    <3>5. ~(id < mock.nextId)
      BY <3>2, <3>3, <3>4
    <3> QED  BY <3>5 DEF RecordsAgree
  <2>3. F["never-existed"] = Ids \ records.known
    BY <1>2 DEF StandsFor, CATEGORIES
  <2> QED  BY <2>2, <2>3, IdsAre
<1>8. Contracts \in SUBSET Ids /\ Contracts \subseteq F["contract"]
  BY <1>2, IdsAre DEF StandsFor, CATEGORIES
<1>9. Apart(F)
  BY <1>2, CategoriesApart
<1>10. PICK p1 : p1 = Labelled(SetToSeq(NeverExisted), "never-existed")
  OBVIOUS
<1>11. PICK p2 : p2 = Labelled(SetToSeq(Contracts), "contract")
  OBVIOUS
<1>12. PICK p3 : p3 = Labelled(Taken(full.zero, z), "zero-balance")
  OBVIOUS
<1>13. PICK p4 : p4 = Labelled(Taken(full.created, c), "created")
  OBVIOUS
<1>14. PICK p5 : p5 = Labelled(Taken(full.active, a), "high-activity")
  OBVIOUS
<1>15. Fair(p1, {"never-existed"}, F)
  BY <1>5, <1>7, <1>10
<1>16. Fair(p2, {"contract"}, F)
  BY <1>5, <1>8, <1>11
<1>17. Fair(p3, {"zero-balance"}, F)
  BY <1>3, <1>6, <1>12
<1>18. Fair(p4, {"created"}, F)
  BY <1>3, <1>6, <1>13
<1>19. Fair(p5, {"high-activity"}, F)
  BY <1>3, <1>6, <1>14
<1>20. Fair(p1 \o p2, {"never-existed", "contract"}, F)
  <2>1. /\ {"never-existed"} \in SUBSET CATEGORIES /\ {"contract"} \in SUBSET CATEGORIES
        /\ {"never-existed"} \cap {"contract"} = {}
        /\ {"never-existed"} \cup {"contract"} = {"never-existed", "contract"}
    BY DEF CATEGORIES
  <2>2. Fair(p1 \o p2, {"never-existed"} \cup {"contract"}, F)
    BY <1>9, <1>15, <1>16, <2>1, JoinedIsFair
  <2> QED  BY <2>1, <2>2
<1>21. Fair(p1 \o p2 \o p3, {"never-existed", "contract", "zero-balance"}, F)
  <2>1. PICK C : C = {"never-existed", "contract"}
    OBVIOUS
  <2>2. /\ C \in SUBSET CATEGORIES /\ {"zero-balance"} \in SUBSET CATEGORIES
        /\ C \cap {"zero-balance"} = {}
        /\ C \cup {"zero-balance"} = {"never-existed", "contract", "zero-balance"}
    BY <2>1 DEF CATEGORIES
  <2>3. Fair(p1 \o p2 \o p3, C \cup {"zero-balance"}, F)
    BY <1>9, <1>17, <1>20, <2>1, <2>2, JoinedIsFair
  <2> QED  BY <2>2, <2>3
<1>22. Fair(p1 \o p2 \o p3 \o p4, {"never-existed", "contract", "zero-balance", "created"}, F)
  <2>1. PICK C : C = {"never-existed", "contract", "zero-balance"}
    OBVIOUS
  <2>2. /\ C \in SUBSET CATEGORIES /\ {"created"} \in SUBSET CATEGORIES
        /\ C \cap {"created"} = {}
        /\ C \cup {"created"} = {"never-existed", "contract", "zero-balance", "created"}
    BY <2>1 DEF CATEGORIES
  <2>3. Fair(p1 \o p2 \o p3 \o p4, C \cup {"created"}, F)
    BY <1>9, <1>18, <1>21, <2>1, <2>2, JoinedIsFair
  <2> QED  BY <2>2, <2>3
<1>23. Fair(p1 \o p2 \o p3 \o p4 \o p5, CATEGORIES, F)
  <2>1. PICK C : C = {"never-existed", "contract", "zero-balance", "created"}
    OBVIOUS
  <2>2. /\ C \in SUBSET CATEGORIES /\ {"high-activity"} \in SUBSET CATEGORIES
        /\ C \cap {"high-activity"} = {}
        /\ C \cup {"high-activity"} = CATEGORIES
    BY <2>1 DEF CATEGORIES
  <2>3. Fair(p1 \o p2 \o p3 \o p4 \o p5, C \cup {"high-activity"}, F)
    BY <1>9, <1>19, <1>22, <2>1, <2>2, JoinedIsFair
  <2> QED  BY <2>2, <2>3
<1> QED  BY <1>1, <1>2, <1>4, <1>10, <1>11, <1>12, <1>13, <1>14, <1>23

-----------------------------------------------------------------------------
(* The changes of a block, one after another.                              *)

Changes == Ids \X (0 .. 2)

EmittingOf(changes) ==
    [i \in 1 .. Len(changes) |-> [balances \in MockBooks |-> Emitted(balances, changes[i])]]

RecountingOf(changes) ==
    [i \in 1 .. Len(changes) |-> [s \in RecordBooks |-> Recounted(s, changes[i])]]

(* A change sets one account's balance.                                    *)
LEMMA EmittedType ==
    ASSUME NEW balances \in MockBooks, NEW change \in Changes
    PROVE  /\ Emitted(balances, change) \in MockBooks
           /\ Emitted(balances, change)[change[1]] = change[2]
           /\ \A id \in Ids : id # change[1] => Emitted(balances, change)[id] = balances[id]
<1>1. change[1] \in Ids /\ change[2] \in 0 .. 2
  BY DEF Changes
<1>2. PICK V : V = 0 .. 2
  OBVIOUS
<1>3. balances \in [Ids -> V] /\ change[2] \in V
  BY <1>1, <1>2 DEF MockBooks
<1>4. PICK b : b = [balances EXCEPT ![change[1]] = change[2]]
  OBVIOUS
<1>5. /\ b \in [Ids -> V] /\ b[change[1]] = change[2]
      /\ \A id \in Ids : id # change[1] => b[id] = balances[id]
  BY <1>1, <1>3, <1>4
<1> QED  BY <1>2, <1>4, <1>5 DEF Emitted, MockBooks

(* The balances after a block are what a loop over its changes leaves.     *)
LEMMA EmittedIsALoop ==
    ASSUME NEW start \in MockBooks, NEW changes \in Seq(Changes)
    PROVE  /\ EmittingOf(changes) \in Rounds(Len(changes), MockBooks)
           /\ FoldLeft(Emitted, start, changes) = Looped(Len(changes), MockBooks, start, EmittingOf(changes))
<1>1. PICK n : n = Len(changes)
  OBVIOUS
<1>2. n \in Nat /\ DOMAIN changes = 1 .. n /\ \A i \in 1 .. n : changes[i] \in Changes
  BY <1>1
<1>3. PICK g : g = EmittingOf(changes)
  OBVIOUS
<1>4. \A i \in 1 .. n : \A v \in MockBooks : g[i][v] = Emitted(v, changes[i])
  BY <1>1, <1>3 DEF EmittingOf
<1>5. g \in Rounds(n, MockBooks)
  <2>1. \A i \in 1 .. n : \A v \in MockBooks : Emitted(v, changes[i]) \in MockBooks
    BY <1>2, EmittedType
  <2> QED  BY <1>1, <1>3, <2>1 DEF EmittingOf, Rounds
<1>6. PICK h \in [SUBSET (1 .. n) -> MockBooks] : Unfolds(h, n, start, g)
  BY <1>2, <1>5, FoldExists
<1>7. h = [t \in SUBSET DOMAIN changes |->
             IF t = {} THEN start ELSE Emitted(h[t \ {Top(t)}], changes[Top(t)])]
  <2>1. ASSUME NEW t \in SUBSET (1 .. n), t # {}
        PROVE  h[t] = Emitted(h[t \ {Top(t)}], changes[Top(t)])
    <3>1. Top(t) \in 1 .. n /\ t \ {Top(t)} \in SUBSET (1 .. n)
      BY <1>2, <2>1, TopIs
    <3>2. h[t] = g[Top(t)][h[t \ {Top(t)}]]
      BY <1>6, <2>1 DEF Unfolds
    <3> QED  BY <1>4, <3>1, <3>2
  <2>2. h[{}] = start
    BY <1>6 DEF Unfolds
  <2>3. h = [t \in SUBSET (1 .. n) |->
               IF t = {} THEN start ELSE Emitted(h[t \ {Top(t)}], changes[Top(t)])]
    BY <2>1, <2>2
  <2> QED  BY <1>2, <2>3
<1>8. PICK k : /\ k = [t \in SUBSET DOMAIN changes |->
                      IF t = {} THEN start ELSE Emitted(k[t \ {Top(t)}], changes[Top(t)])]
               /\ FoldLeft(Emitted, start, changes) = k[DOMAIN changes]
  BY <1>7, Zenon DEF FoldLeft, MapThenFoldSet, Top, Max
<1>9. k[{}] = start
  BY <1>8
<1>10. ASSUME NEW t \in SUBSET (1 .. n), t # {}, k[t \ {Top(t)}] \in MockBooks
       PROVE  k[t] = g[Top(t)][k[t \ {Top(t)}]]
  <2>1. Top(t) \in 1 .. n
    BY <1>2, <1>10, TopIs
  <2>2. k[t] = Emitted(k[t \ {Top(t)}], changes[Top(t)])
    BY <1>2, <1>8, <1>10
  <2> QED  BY <1>4, <1>10, <2>1, <2>2
<1>11. k[1 .. n] = Looped(n, MockBooks, start, g)
  <2>1. FoldsBy(k, n, MockBooks, start, g)
    BY <1>9, <1>10 DEF FoldsBy
  <2> QED  BY <1>2, <1>5, <2>1, FoldIsLooped
<1> QED  BY <1>1, <1>2, <1>3, <1>5, <1>8, <1>11


(* What one change does to the records.                                    *)
LEMMA RecountedIs ==
    ASSUME NEW s \in RecordBooks, NEW change \in Changes, NEW id, id = change[1]
    PROVE  /\ Recounted(s, change) \in RecordBooks
           /\ change[2] = 0 =>
                 /\ Recounted(s, change).known = s.known
                 /\ Recounted(s, change).created = s.created
                 /\ Recounted(s, change).deleted = Append(s.deleted, id)
           /\ change[2] # 0 /\ id \in s.known =>
                 /\ Recounted(s, change).known = s.known
                 /\ Recounted(s, change).created = s.created
                 /\ Recounted(s, change).deleted = s.deleted
           /\ change[2] # 0 /\ id \notin s.known =>
                 /\ Recounted(s, change).known = s.known \cup {id}
                 /\ Recounted(s, change).created = Append(s.created, id)
                 /\ Recounted(s, change).deleted = s.deleted
<1>1. /\ id \in Ids /\ s.activity \in [Ids -> Nat] /\ s.known \in SUBSET Ids
      /\ s.created \in Seq(Ids) /\ s.deleted \in Seq(Ids)
  BY DEF Changes, RecordBooks
<1>2. PICK counted : counted = [s EXCEPT !.activity[id] = @ + 1]
  OBVIOUS
<1>3. PICK more : more = [s.activity EXCEPT ![id] = @ + 1]
  OBVIOUS
<1>4. more \in [Ids -> Nat]
  BY <1>1, <1>3
<1>5. counted = [s EXCEPT !.activity = more]
  BY <1>1, <1>2, <1>3 DEF RecordBooks
<1>6. /\ counted \in RecordBooks /\ counted.known = s.known /\ counted.created = s.created
      /\ counted.deleted = s.deleted
  BY <1>4, <1>5 DEF RecordBooks
<1>7. PICK gone : gone = Append(counted.deleted, id)
  OBVIOUS
<1>8. PICK come : come = Append(counted.created, id)
  OBVIOUS
<1>9. PICK all : all = counted.known \cup {id}
  OBVIOUS
<1>10. gone \in Seq(Ids) /\ come \in Seq(Ids) /\ all \in SUBSET Ids
  BY <1>1, <1>6, <1>7, <1>8, <1>9
<1>11. PICK r : r = Recounted(s, change)
  OBVIOUS
<1>12. r = IF change[2] = 0 THEN [counted EXCEPT !.deleted = gone]
           ELSE IF id \in s.known THEN counted
           ELSE [counted EXCEPT !.known = all, !.created = come]
  <2>1. /\ [counted EXCEPT !.deleted = Append(@, id)] = [counted EXCEPT !.deleted = gone]
        /\ [counted EXCEPT !.known = @ \cup {id}, !.created = Append(@, id)]
             = [counted EXCEPT !.known = all, !.created = come]
    BY <1>6, <1>7, <1>8, <1>9 DEF RecordBooks
  <2> QED  BY <1>2, <1>11, <2>1, Zenon DEF Recounted
<1>13. CASE change[2] = 0
  BY <1>6, <1>7, <1>10, <1>11, <1>12, <1>13 DEF RecordBooks
<1>14. CASE change[2] # 0 /\ id \in s.known
  BY <1>6, <1>11, <1>12, <1>14
<1>15. CASE change[2] # 0 /\ id \notin s.known
  <2>1. PICK grown : grown = [counted EXCEPT !.known = all]
    OBVIOUS
  <2>2. /\ grown \in RecordBooks /\ grown.known = all /\ grown.created = counted.created
        /\ grown.deleted = counted.deleted
    BY <1>6, <1>10, <2>1 DEF RecordBooks
  <2>3. r = [grown EXCEPT !.created = come]
    BY <1>6, <1>12, <1>15, <2>1 DEF RecordBooks
  <2>4. /\ r \in RecordBooks /\ r.created = come /\ r.known = grown.known
        /\ r.deleted = grown.deleted
    BY <1>10, <2>2, <2>3 DEF RecordBooks
  <2> QED  BY <1>6, <1>8, <1>9, <1>11, <1>15, <2>2, <2>4
<1>16. \/ change[2] = 0
       \/ change[2] # 0 /\ id \in s.known
       \/ change[2] # 0 /\ id \notin s.known
  OBVIOUS
<1> QED  BY <1>13, <1>14, <1>15, <1>16, Zenon

(* What is noted of a change is a record again.                            *)
LEMMA RecountedType ==
    ASSUME NEW s \in RecordBooks, NEW change \in Changes
    PROVE  Recounted(s, change) \in RecordBooks
BY RecountedIs

(* The records after a block are what a loop over its changes leaves.      *)
LEMMA RecountedIsALoop ==
    ASSUME NEW start \in RecordBooks, NEW changes \in Seq(Changes)
    PROVE  /\ RecountingOf(changes) \in Rounds(Len(changes), RecordBooks)
           /\ FoldLeft(Recounted, start, changes) = Looped(Len(changes), RecordBooks, start, RecountingOf(changes))
<1>1. PICK n : n = Len(changes)
  OBVIOUS
<1>2. n \in Nat /\ DOMAIN changes = 1 .. n /\ \A i \in 1 .. n : changes[i] \in Changes
  BY <1>1
<1>3. PICK g : g = RecountingOf(changes)
  OBVIOUS
<1>4. \A i \in 1 .. n : \A v \in RecordBooks : g[i][v] = Recounted(v, changes[i])
  BY <1>1, <1>3 DEF RecountingOf
<1>5. g \in Rounds(n, RecordBooks)
  <2>1. \A i \in 1 .. n : \A v \in RecordBooks : Recounted(v, changes[i]) \in RecordBooks
    BY <1>2, RecountedType
  <2> QED  BY <1>1, <1>3, <2>1 DEF RecountingOf, Rounds
<1>6. PICK h \in [SUBSET (1 .. n) -> RecordBooks] : Unfolds(h, n, start, g)
  BY <1>2, <1>5, FoldExists
<1>7. h = [t \in SUBSET DOMAIN changes |->
             IF t = {} THEN start ELSE Recounted(h[t \ {Top(t)}], changes[Top(t)])]
  <2>1. ASSUME NEW t \in SUBSET (1 .. n), t # {}
        PROVE  h[t] = Recounted(h[t \ {Top(t)}], changes[Top(t)])
    <3>1. Top(t) \in 1 .. n /\ t \ {Top(t)} \in SUBSET (1 .. n)
      BY <1>2, <2>1, TopIs
    <3>2. h[t] = g[Top(t)][h[t \ {Top(t)}]]
      BY <1>6, <2>1 DEF Unfolds
    <3> QED  BY <1>4, <3>1, <3>2
  <2>2. h[{}] = start
    BY <1>6 DEF Unfolds
  <2>3. h = [t \in SUBSET (1 .. n) |->
               IF t = {} THEN start ELSE Recounted(h[t \ {Top(t)}], changes[Top(t)])]
    BY <2>1, <2>2
  <2> QED  BY <1>2, <2>3
<1>8. PICK k : /\ k = [t \in SUBSET DOMAIN changes |->
                      IF t = {} THEN start ELSE Recounted(k[t \ {Top(t)}], changes[Top(t)])]
               /\ FoldLeft(Recounted, start, changes) = k[DOMAIN changes]
  BY <1>7, Zenon DEF FoldLeft, MapThenFoldSet, Top, Max
<1>9. k[{}] = start
  BY <1>8
<1>10. ASSUME NEW t \in SUBSET (1 .. n), t # {}, k[t \ {Top(t)}] \in RecordBooks
       PROVE  k[t] = g[Top(t)][k[t \ {Top(t)}]]
  <2>1. Top(t) \in 1 .. n
    BY <1>2, <1>10, TopIs
  <2>2. k[t] = Recounted(k[t \ {Top(t)}], changes[Top(t)])
    BY <1>2, <1>8, <1>10
  <2> QED  BY <1>4, <1>10, <2>1, <2>2
<1>11. k[1 .. n] = Looped(n, RecordBooks, start, g)
  <2>1. FoldsBy(k, n, RecordBooks, start, g)
    BY <1>9, <1>10 DEF FoldsBy
  <2> QED  BY <1>2, <1>5, <2>1, FoldIsLooped
<1> QED  BY <1>1, <1>2, <1>3, <1>5, <1>8, <1>11

-----------------------------------------------------------------------------
(* A block.                                                                *)

Minted == mock.nextId .. (mock.nextId + InsertsPerBlock - 1)

(* What a block deletes was live and is not changed again, and what it     *)
(* gives a balance was live or is fresh.                                   *)
Lawful(changes) ==
    /\ changes \in Seq(Changes)
    /\ \A i \in 1 .. Len(changes) :
          changes[i][2] = 0 =>
              /\ mock.balances[changes[i][1]] # 0
              /\ \A j \in 1 .. Len(changes) : j # i => changes[j][1] # changes[i][1]
    /\ \A i \in 1 .. Len(changes) :
          changes[i][2] # 0 => mock.balances[changes[i][1]] # 0 \/ changes[i][1] \in Minted

(* Two lists, one after the other.                                         *)
LEMMA JoinedIs ==
    ASSUME NEW A, NEW s \in Seq(A), NEW t \in Seq(A)
    PROVE  /\ s \o t \in Seq(A) /\ Len(s \o t) = Len(s) + Len(t)
           /\ \A i \in 1 .. Len(s) : (s \o t)[i] = s[i]
           /\ \A i \in (Len(s) + 1) .. (Len(s) + Len(t)) : (s \o t)[i] = t[i - Len(s)]
<1>1. PICK u : u = s \o t
  OBVIOUS
<1>2. PICK m : m = Len(s)
  OBVIOUS
<1>3. PICK n : n = Len(t)
  OBVIOUS
<1>4. m \in Nat /\ n \in Nat
  BY <1>2, <1>3
<1>5. /\ u \in Seq(A) /\ Len(u) = m + n /\ \A i \in 1 .. m : u[i] = s[i]
      /\ \A i \in (m + 1) .. (m + n) : u[i] = t[i - m]
  BY <1>1, <1>2, <1>3, <1>4
<1> QED  BY <1>1, <1>2, <1>3, <1>5

(* Every block that the mock may emit is such a block: deletes are of      *)
(* different live accounts, inserts of fresh ones, and updates spare what  *)
(* was deleted.                                                            *)
LEMMA BlockIsLawful ==
    ASSUME GateTypeOK, RecordsAgree(records, mock.balances, mock.nextId), mock.block < Blocks,
           NEW changes \in BlockUpdates
    PROVE  Lawful(changes)
<1> DEFINE live == Live(mock.balances)
           minted == mock.nextId .. (mock.nextId + InsertsPerBlock - 1)
           d == Lesser(DeletesPerBlock, Cardinality(live))
           u == ChangesPerBlock - d - InsertsPerBlock
<1>1. live = Live(mock.balances)
  OBVIOUS
<1>2. minted = Minted
  BY DEF Minted
<1>3. d = Lesser(DeletesPerBlock, Cardinality(live))
  OBVIOUS
<1>4. u = ChangesPerBlock - d - InsertsPerBlock
  OBVIOUS
<1> DEFINE Of(g) ==
               {EmittedBlock(g, fresh, changed)
                 : fresh \in [minted -> MockBalances],
                   changed \in [1 .. u -> ((live \ g) \cup minted) \X MockBalances]}
<1>5. BlockUpdates = UNION {Of(g) : g \in {h \in SUBSET live : Cardinality(h) = d}}
  BY DEF BlockUpdates
<1> HIDE DEF live, minted, d, u
<1>5a. PICK gone \in SUBSET live : Cardinality(gone) = d /\ changes \in Of(gone)
  <2> HIDE DEF Of
  <2> QED  BY <1>5
<1>5b. PICK fresh \in [minted -> MockBalances],
            changed \in [1 .. u -> ((live \ gone) \cup minted) \X MockBalances] :
          changes = EmittedBlock(gone, fresh, changed)
  BY <1>5a DEF Of
<1> HIDE DEF Of
<1>6. /\ live \in SUBSET Ids /\ \A id \in live : mock.balances[id] # 0 /\ id < mock.nextId
      /\ IsFiniteSet(live) /\ Cardinality(live) \in Nat
  <2>1. live \in SUBSET Ids /\ \A id \in live : mock.balances[id] # 0
    BY <1>1 DEF Live
  <2>2. IsFiniteSet(live) /\ IsFiniteSet(Ids)
    BY <2>1, IdsAre, FS_Subset
  <2>3. Cardinality(live) \in Nat
    BY <2>2, FS_CardinalityType
  <2>4. \A id \in live : id < mock.nextId
    BY <2>1 DEF RecordsAgree
  <2> QED  BY <2>1, <2>2, <2>3, <2>4
<1>7. /\ d \in Nat /\ u \in Nat /\ InsertsPerBlock \in Nat
  <2>1. /\ ChangesPerBlock \in Nat /\ InsertsPerBlock \in Nat /\ DeletesPerBlock \in Nat
        /\ ChangesPerBlock >= InsertsPerBlock + DeletesPerBlock
    BY ConformanceAssumption
  <2>2. d \in Nat /\ d <= DeletesPerBlock
    BY <1>3, <1>6, <2>1 DEF Lesser
  <2> QED  BY <1>4, <2>1, <2>2
<1>8. minted \subseteq Ids /\ \A id \in minted : ~(id < mock.nextId)
  <2>1. mock.block \in 0 .. Blocks /\ mock.block + 1 \in 0 .. Blocks /\ mock.nextId \in Nat
    <3>1. Blocks \in Nat /\ mock.block \in 0 .. Blocks /\ mock.nextId \in Nat
      BY ConformanceAssumption DEF GateTypeOK
    <3> QED  BY <3>1
  <2>2. PICK top : top = InsertsPerBlock * Blocks
    OBVIOUS
  <2>3. PICK now : now = InsertsPerBlock * mock.block
    OBVIOUS
  <2>4. top \in Nat /\ now \in Nat /\ now + InsertsPerBlock <= top
    BY <2>1, <2>2, <2>3, Minting
  <2>5. mock.nextId = GenesisKeys + now /\ GenesisKeys \in Nat /\ NeverExistedCount \in Nat
    BY <2>3, ConformanceAssumption DEF GateTypeOK
  <2>6. Ids = 0 .. (GenesisKeys + top + NeverExistedCount)
    BY <2>2 DEF Ids
  <2>7. minted = (GenesisKeys + now) .. (GenesisKeys + now + InsertsPerBlock - 1)
    BY <1>2, <2>5 DEF Minted
  <2> QED  BY <1>7, <2>4, <2>5, <2>6, <2>7
<1>9. PICK s : s = SetToSeq(gone)
  OBVIOUS
<1>10. gone \in SUBSET live /\ s \in Seq(gone) /\ Len(s) = d /\ Distinct(s)
  <2>1. gone \in SUBSET live /\ Cardinality(gone) = d
    BY <1>5a
  <2>2. IsFiniteSet(gone)
    BY <1>6, <2>1, FS_Subset
  <2> QED  BY <1>9, <2>1, <2>2, SetToSeqIs
<1>11. PICK p : p = [i \in 1 .. d |-> <<s[i], 0>>]
  OBVIOUS
<1>12. PICK q : q = [i \in 1 .. InsertsPerBlock |->
                       <<mock.nextId + i - 1, fresh[mock.nextId + i - 1]>>]
  OBVIOUS
<1>13. changes = p \o q \o changed
  BY <1>5a, <1>5b, <1>9, <1>11, <1>12, Zenon DEF EmittedBlock
<1>14. \A i \in 1 .. d : s[i] \in gone /\ p[i] = <<s[i], 0>> /\ p[i][1] = s[i] /\ p[i][2] = 0
  BY <1>10, <1>11
<1>15. \A i \in 1 .. d : p[i] \in Changes
  <2>1. PICK V : V = 0 .. 2
    OBVIOUS
  <2>2. 0 \in V /\ \A i \in 1 .. d : s[i] \in Ids
    BY <1>6, <1>10, <1>14, <2>1
  <2>3. Changes = Ids \X V
    BY <2>1 DEF Changes
  <2>4. ASSUME NEW i \in 1 .. d PROVE p[i] \in Ids \X V
    <3>1. s[i] \in Ids /\ 0 \in V /\ p[i] = <<s[i], 0>>
      BY <1>14, <2>2
    <3> QED  BY <3>1
  <2> QED  BY <2>3, <2>4
<1>16. \A i \in 1 .. InsertsPerBlock :
          /\ q[i][1] \in minted /\ q[i][2] \in MockBalances
          /\ q[i] = <<q[i][1], q[i][2]>>
  <2>1. mock.nextId \in Nat
    BY DEF GateTypeOK
  <2>2. \A i \in 1 .. InsertsPerBlock : mock.nextId + i - 1 \in minted
    BY <1>2, <1>7, <2>1 DEF Minted
  <2>3. \A id \in minted : fresh[id] \in MockBalances
    BY <1>5
  <2> QED  BY <1>12, <2>2, <2>3
<1>17. \A i \in 1 .. InsertsPerBlock : q[i] \in Changes
  <2>1. PICK V : V = 0 .. 2
    OBVIOUS
  <2>2. MockBalances \subseteq V
    BY <2>1 DEF MockBalances
  <2>3. Changes = Ids \X V
    BY <2>1 DEF Changes
  <2>4. ASSUME NEW i \in 1 .. InsertsPerBlock PROVE q[i] \in Ids \X V
    <3>1. q[i][1] \in Ids /\ q[i][2] \in V /\ q[i] = <<q[i][1], q[i][2]>>
      BY <1>8, <1>16, <2>2
    <3> QED  BY <3>1
  <2> QED  BY <2>3, <2>4
<1>18. \A i \in 1 .. u : /\ changed[i][1] \in (live \ gone) \cup minted
                         /\ changed[i][2] \in MockBalances
                         /\ changed[i] = <<changed[i][1], changed[i][2]>>
  BY <1>5
<1>19. \A i \in 1 .. u : changed[i] \in Changes
  <2>1. PICK V : V = 0 .. 2
    OBVIOUS
  <2>2. MockBalances \subseteq V
    BY <2>1 DEF MockBalances
  <2>3. (live \ gone) \cup minted \subseteq Ids
    BY <1>6, <1>8
  <2> QED  BY <1>18, <2>1, <2>2, <2>3 DEF Changes
<1>20. /\ p \in Seq(Changes) /\ Len(p) = d /\ q \in Seq(Changes) /\ Len(q) = InsertsPerBlock
       /\ changed \in Seq(Changes) /\ Len(changed) = u
  <2>1. p \in Seq(Changes) /\ Len(p) = d
    BY <1>7, <1>11, <1>15
  <2>2. q \in Seq(Changes) /\ Len(q) = InsertsPerBlock
    BY <1>7, <1>12, <1>17
  <2>3. DOMAIN changed = 1 .. u
    BY <1>5
  <2>4. changed \in [1 .. u -> Changes]
    BY <1>5, <1>19, <2>3
  <2>5. changed \in Seq(Changes) /\ Len(changed) = u
    BY <1>7, <2>4
  <2> QED  BY <2>1, <2>2, <2>5
<1>21. PICK e : e = d + InsertsPerBlock
  OBVIOUS
<1>22. PICK n : n = e + u
  OBVIOUS
<1>23. e \in Nat /\ n \in Nat
  BY <1>7, <1>21, <1>22
<1>24. PICK r : r = p \o q
  OBVIOUS
<1>25. /\ r \in Seq(Changes) /\ Len(r) = e /\ \A i \in 1 .. d : r[i] = p[i]
       /\ \A i \in (d + 1) .. e : r[i] = q[i - d]
  BY <1>20, <1>21, <1>24, JoinedIs
<1>26. /\ changes \in Seq(Changes) /\ Len(changes) = n /\ \A i \in 1 .. e : changes[i] = r[i]
       /\ \A i \in (e + 1) .. n : changes[i] = changed[i - e]
  BY <1>13, <1>20, <1>22, <1>24, <1>25, JoinedIs
<1>27. \A i \in 1 .. d : changes[i][1] = s[i] /\ s[i] \in gone /\ changes[i][2] = 0
  <2>1. \A i \in 1 .. d : i \in 1 .. e
    BY <1>7, <1>21
  <2> QED  BY <1>14, <1>25, <1>26, <2>1
<1>28. \A i \in (d + 1) .. e : changes[i][1] \in minted /\ changes[i][2] \in MockBalances
  <2>1. \A i \in (d + 1) .. e : i \in 1 .. e /\ i - d \in 1 .. InsertsPerBlock
    BY <1>7, <1>21
  <2> QED  BY <1>16, <1>25, <1>26, <2>1
<1>29. \A i \in (e + 1) .. n : /\ changes[i][1] \in (live \ gone) \cup minted
                               /\ changes[i][2] \in MockBalances
  <2>1. \A i \in (e + 1) .. n : i - e \in 1 .. u
    BY <1>7, <1>22, <1>23
  <2> QED  BY <1>18, <1>26, <2>1
<1>30. \A i \in 1 .. n : i \in 1 .. d \/ i \in (d + 1) .. e \/ i \in (e + 1) .. n
  BY <1>7, <1>21, <1>22, <1>23
<1>31. \A i \in 1 .. n : \/ i \in 1 .. d
                         \/ changes[i][1] \notin gone /\ changes[i][2] # 0
                              /\ changes[i][1] \in live \cup minted
  <2>1. \A v \in MockBalances : v # 0
    BY DEF MockBalances
  <2>2. minted \cap gone = {}
    BY <1>6, <1>8, <1>10
  <2> QED  BY <1>28, <1>29, <1>30, <2>1, <2>2
<1>32. ASSUME NEW i \in 1 .. n, changes[i][2] = 0
       PROVE  /\ mock.balances[changes[i][1]] # 0
              /\ \A j \in 1 .. n : j # i => changes[j][1] # changes[i][1]
  <2>1. i \in 1 .. d
    BY <1>31, <1>32
  <2>2. changes[i][1] = s[i] /\ s[i] \in gone
    BY <1>27, <2>1
  <2>3. ASSUME NEW j \in 1 .. n, j # i PROVE changes[j][1] # changes[i][1]
    <3>1. CASE j \in 1 .. d
      BY <1>10, <1>27, <2>1, <2>3, <3>1 DEF Distinct
    <3>2. CASE j \notin 1 .. d
      BY <1>31, <2>2, <3>2
    <3> QED  BY <3>1, <3>2
  <2> QED  BY <1>6, <1>10, <2>2, <2>3
<1>33. ASSUME NEW i \in 1 .. n, changes[i][2] # 0
       PROVE  mock.balances[changes[i][1]] # 0 \/ changes[i][1] \in Minted
  BY <1>2, <1>6, <1>27, <1>31, <1>33
<1> QED  BY <1>26, <1>32, <1>33 DEF Lawful

(* What the harness has noted by the i-th change of a block.               *)
Recorded(s, balances, changes, i) ==
    /\ RecordsAgree(s, balances, mock.nextId + InsertsPerBlock)
    /\ records.known \subseteq s.known
    /\ \A id \in ToSet(s.deleted) :
          \/ id \in ToSet(records.deleted)
          \/ \E j \in 1 .. i : changes[j][1] = id /\ changes[j][2] = 0

(* One change noted and applied: nothing that was listed as gone is        *)
(* changed, so the records go on agreeing.                                 *)
LEMMA OneRecorded ==
    ASSUME GateTypeOK, RecordsAgree(records, mock.balances, mock.nextId),
           NEW changes, Lawful(changes), NEW i \in 1 .. Len(changes),
           NEW s \in RecordBooks, NEW balances \in MockBooks,
           Recorded(s, balances, changes, i - 1)
    PROVE  Recorded(Recounted(s, changes[i]), Emitted(balances, changes[i]), changes, i)
<1>1. PICK n : n = Len(changes)
  OBVIOUS
<1>2. changes \in Seq(Changes) /\ n \in Nat /\ i \in 1 .. n /\ changes[i] \in Changes
  BY <1>1 DEF Lawful
<1>3. PICK id : id = changes[i][1]
  OBVIOUS
<1>4. PICK b : b = Emitted(balances, changes[i])
  OBVIOUS
<1>5. PICK r : r = Recounted(s, changes[i])
  OBVIOUS
<1>6. PICK e : e = mock.nextId + InsertsPerBlock
  OBVIOUS
<1>7. id \in Ids /\ mock.nextId \in Nat /\ InsertsPerBlock \in Nat /\ e \in Nat /\ id \in Int
  <2>1. id \in Ids /\ Ids \subseteq Nat
    BY <1>2, <1>3, IdsAre DEF Changes
  <2>2. mock.nextId \in Nat /\ InsertsPerBlock \in Nat
    BY ConformanceAssumption DEF GateTypeOK
  <2> QED  BY <1>6, <2>1, <2>2
<1>8. /\ b \in MockBooks /\ b[id] = changes[i][2] /\ \A x \in Ids : x # id => b[x] = balances[x]
  BY <1>2, <1>3, <1>4, EmittedType
<1>9. changes[i][2] = 0 =>
        /\ mock.balances[id] # 0
        /\ \A j \in 1 .. n : j # i => changes[j][1] # id
  BY <1>1, <1>2, <1>3 DEF Lawful
<1>10. changes[i][2] # 0 => mock.balances[id] # 0 \/ id \in Minted
  BY <1>1, <1>2, <1>3 DEF Lawful
<1>11. /\ \A x \in records.known : x < mock.nextId
       /\ mock.balances[id] # 0 => id \in records.known
       /\ \A x \in ToSet(records.deleted) : x \in records.known /\ mock.balances[x] = 0
  BY <1>7 DEF RecordsAgree
<1>12. id \in Minted => ~(id < mock.nextId) /\ id < e
  BY <1>6, <1>7 DEF Minted
<1>13. /\ RecordsAgree(s, balances, e) /\ records.known \subseteq s.known
       /\ \A x \in ToSet(s.deleted) :
             \/ x \in ToSet(records.deleted)
             \/ \E j \in 1 .. (i - 1) : changes[j][1] = x /\ changes[j][2] = 0
  BY <1>6 DEF Recorded
<1>14. id \notin ToSet(s.deleted)
  <2>1. id \notin ToSet(records.deleted)
    BY <1>9, <1>10, <1>11, <1>12
  <2>2. ASSUME NEW j \in 1 .. (i - 1), changes[j][1] = id, changes[j][2] = 0 PROVE FALSE
    <3>1. j \in 1 .. n /\ i # j /\ i \in 1 .. n
      BY <1>2
    <3>2. \A k \in 1 .. n : k # j => changes[k][1] # changes[j][1]
      BY <1>1, <2>2, <3>1 DEF Lawful
    <3> QED  BY <1>3, <2>2, <3>1, <3>2
  <2> QED  BY <1>13, <2>1, <2>2
<1>15. id < e
  BY <1>6, <1>7, <1>9, <1>10, <1>11, <1>12
<1>16. /\ \A x \in s.known : x < e
       /\ \A x \in Ids : balances[x] # 0 => x \in s.known
       /\ s.known = GenesisIds \cup ToSet(s.created)
       /\ Distinct(s.created) /\ ToSet(s.created) \cap GenesisIds = {}
       /\ Distinct(s.deleted)
       /\ \A x \in ToSet(s.deleted) : x \in s.known /\ balances[x] = 0
  BY <1>13 DEF RecordsAgree
<1>17. /\ s.created \in Seq(Ids) /\ s.deleted \in Seq(Ids) /\ s.known \in SUBSET Ids
       /\ \A x \in ToSet(s.deleted) : x \in Ids
  <2>1. s.created \in Seq(Ids) /\ s.deleted \in Seq(Ids) /\ s.known \in SUBSET Ids
    BY DEF RecordBooks
  <2> QED  BY <1>16, <2>1
<1>18. /\ changes[i][2] = 0 =>
             r.known = s.known /\ r.created = s.created /\ r.deleted = Append(s.deleted, id)
       /\ changes[i][2] # 0 /\ id \in s.known =>
             r.known = s.known /\ r.created = s.created /\ r.deleted = s.deleted
       /\ changes[i][2] # 0 /\ id \notin s.known =>
             /\ r.known = s.known \cup {id} /\ r.created = Append(s.created, id)
             /\ r.deleted = s.deleted
  BY <1>2, <1>3, <1>5, RecountedIs
<1>19. \A j \in 1 .. (i - 1) : j \in 1 .. i
  BY <1>2
<1>20. i \in 1 .. i
  BY <1>2
<1>21. ASSUME changes[i][2] = 0 PROVE Recorded(r, b, changes, i)
  <2>1. r.known = s.known /\ r.created = s.created
    BY <1>18, <1>21
  <2>2. Distinct(r.deleted) /\ ToSet(r.deleted) = ToSet(s.deleted) \cup {id}
    <3>1. PICK u : u = s.deleted
      OBVIOUS
    <3>2. u \in Seq(Ids) /\ Distinct(u) /\ id \notin ToSet(u) /\ id \in Ids
      BY <1>7, <1>14, <1>16, <1>17, <3>1
    <3>3. Distinct(Append(u, id)) /\ ToSet(Append(u, id)) = ToSet(u) \cup {id}
      BY <3>2, AppendIsDistinct
    <3>4. r.deleted = Append(u, id)
      BY <1>18, <1>21, <3>1
    <3> QED  BY <3>1, <3>3, <3>4
  <2>3. id \in s.known
    BY <1>9, <1>11, <1>13, <1>21
  <2>4. \A x \in Ids : b[x] # 0 => x \in r.known
    BY <1>8, <1>16, <1>21, <2>1
  <2>5. \A x \in ToSet(r.deleted) : x \in r.known /\ b[x] = 0
    BY <1>8, <1>16, <1>17, <1>21, <2>1, <2>2, <2>3
  <2>6. RecordsAgree(r, b, e)
    BY <1>16, <2>1, <2>2, <2>4, <2>5 DEF RecordsAgree
  <2>7. \A x \in ToSet(r.deleted) :
           \/ x \in ToSet(records.deleted)
           \/ \E j \in 1 .. i : changes[j][1] = x /\ changes[j][2] = 0
    BY <1>3, <1>13, <1>19, <1>20, <1>21, <2>2
  <2> QED  BY <1>6, <1>13, <2>1, <2>6, <2>7 DEF Recorded
<1>22. ASSUME changes[i][2] # 0, id \in s.known PROVE Recorded(r, b, changes, i)
  <2>1. r.known = s.known /\ r.created = s.created /\ r.deleted = s.deleted
    BY <1>18, <1>22
  <2>2. \A x \in Ids : b[x] # 0 => x \in r.known
    BY <1>8, <1>16, <1>22, <2>1
  <2>3. \A x \in ToSet(r.deleted) : x \in r.known /\ b[x] = 0
    BY <1>8, <1>14, <1>16, <1>17, <2>1
  <2>4. RecordsAgree(r, b, e)
    BY <1>16, <2>1, <2>2, <2>3 DEF RecordsAgree
  <2>5. \A x \in ToSet(r.deleted) :
           \/ x \in ToSet(records.deleted)
           \/ \E j \in 1 .. i : changes[j][1] = x /\ changes[j][2] = 0
    BY <1>13, <1>19, <2>1
  <2> QED  BY <1>6, <1>13, <2>1, <2>4, <2>5 DEF Recorded
<1>23. ASSUME changes[i][2] # 0, id \notin s.known PROVE Recorded(r, b, changes, i)
  <2>1. r.known = s.known \cup {id} /\ r.deleted = s.deleted
    BY <1>18, <1>23
  <2>2. Distinct(r.created) /\ ToSet(r.created) = ToSet(s.created) \cup {id}
    <3>1. id \notin ToSet(s.created)
      BY <1>16, <1>23
    <3>2. PICK u : u = s.created
      OBVIOUS
    <3>3. u \in Seq(Ids) /\ Distinct(u) /\ id \notin ToSet(u) /\ id \in Ids
      BY <1>7, <1>16, <1>17, <3>1, <3>2
    <3>4. Distinct(Append(u, id)) /\ ToSet(Append(u, id)) = ToSet(u) \cup {id}
      BY <3>3, AppendIsDistinct
    <3>5. r.created = Append(u, id)
      BY <1>18, <1>23, <3>2
    <3> QED  BY <3>2, <3>4, <3>5
  <2>3. \A x \in r.known : x < e
    BY <1>15, <1>16, <2>1
  <2>4. \A x \in Ids : b[x] # 0 => x \in r.known
    BY <1>8, <1>16, <2>1
  <2>5. r.known = GenesisIds \cup ToSet(r.created) /\ ToSet(r.created) \cap GenesisIds = {}
    BY <1>16, <1>23, <2>1, <2>2
  <2>6. \A x \in ToSet(r.deleted) : x \in r.known /\ b[x] = 0
    BY <1>8, <1>14, <1>16, <1>17, <2>1
  <2>7. RecordsAgree(r, b, e)
    BY <1>16, <2>1, <2>2, <2>3, <2>4, <2>5, <2>6 DEF RecordsAgree
  <2>8. \A x \in ToSet(r.deleted) :
           \/ x \in ToSet(records.deleted)
           \/ \E j \in 1 .. i : changes[j][1] = x /\ changes[j][2] = 0
    BY <1>13, <1>19, <2>1
  <2> QED  BY <1>6, <1>13, <2>1, <2>7, <2>8 DEF Recorded
<1> QED  BY <1>4, <1>5, <1>21, <1>22, <1>23

(* A block noted and applied.                                              *)
LEMMA BlockRecorded ==
    ASSUME GateTypeOK, RecordsAgree(records, mock.balances, mock.nextId),
           NEW changes, Lawful(changes)
    PROVE  /\ FoldLeft(Emitted, mock.balances, changes) \in MockBooks
           /\ FoldLeft(Recounted, records, changes) \in RecordBooks
           /\ RecordsAgree(FoldLeft(Recounted, records, changes),
                           FoldLeft(Emitted, mock.balances, changes),
                           mock.nextId + InsertsPerBlock)
<1>1. PICK n : n = Len(changes)
  OBVIOUS
<1>2. changes \in Seq(Changes) /\ n \in Nat /\ \A i \in 1 .. n : changes[i] \in Changes
  BY <1>1 DEF Lawful
<1>3. mock.balances \in MockBooks /\ records \in RecordBooks
  BY DEF GateTypeOK
<1>4. PICK g : g = EmittingOf(changes)
  OBVIOUS
<1>5. PICK h : h = RecountingOf(changes)
  OBVIOUS
<1>6. /\ g \in Rounds(n, MockBooks)
      /\ FoldLeft(Emitted, mock.balances, changes) = Looped(n, MockBooks, mock.balances, g)
  BY <1>1, <1>2, <1>3, <1>4, EmittedIsALoop
<1>7. /\ h \in Rounds(n, RecordBooks)
      /\ FoldLeft(Recounted, records, changes) = Looped(n, RecordBooks, records, h)
  BY <1>1, <1>2, <1>3, <1>5, RecountedIsALoop
<1>8. PICK f : f \in Passes(n, MockBooks, mock.balances, g)
  BY <1>2, <1>3, <1>6, RecursionUpToNat
<1>9. FoldLeft(Emitted, mock.balances, changes) = f[n]
  BY <1>2, <1>3, <1>6, <1>8, LoopedIs
<1>10. /\ f \in [0 .. n -> MockBooks] /\ f[0] = mock.balances
       /\ \A i \in 1 .. n : f[i] = g[i][f[i - 1]]
  BY <1>8 DEF Passes
<1>11. 0 \in 0 .. n /\ n \in 0 .. n /\ \A i \in 1 .. n : i \in 0 .. n /\ i - 1 \in 0 .. n
  BY <1>2
<1>12. \A i \in 1 .. n : f[i] = Emitted(f[i - 1], changes[i])
  <2>1. \A i \in 1 .. n : \A v \in MockBooks : g[i][v] = Emitted(v, changes[i])
    BY <1>1, <1>4 DEF EmittingOf
  <2> QED  BY <1>10, <1>11, <2>1
<1>13. PICK W : W = [i \in 0 .. n |-> {v \in RecordBooks : Recorded(v, f[i], changes, i)}]
  OBVIOUS
<1>14. records \in W[0]
  <2>1. RecordsAgree(records, mock.balances, mock.nextId + InsertsPerBlock)
    <3>1. mock.nextId \in Nat /\ InsertsPerBlock \in Nat
      BY ConformanceAssumption DEF GateTypeOK
    <3>2. \A x \in records.known : x \in Int /\ x < mock.nextId
      BY IdsAre DEF GateTypeOK, RecordBooks, RecordsAgree
    <3>3. \A x \in records.known : x < mock.nextId + InsertsPerBlock
      BY <3>1, <3>2
    <3> QED  BY <3>3 DEF RecordsAgree
  <2>2. Recorded(records, mock.balances, changes, 0)
    BY <2>1 DEF Recorded
  <2> QED  BY <1>3, <1>10, <1>11, <1>13, <2>2
<1>15. ASSUME NEW i \in 1 .. n, NEW v \in RecordBooks, v \in W[i - 1] PROVE h[i][v] \in W[i]
  <2>1. h[i][v] = Recounted(v, changes[i])
    BY <1>1, <1>5 DEF RecountingOf
  <2>2. Recorded(v, f[i - 1], changes, i - 1)
    BY <1>11, <1>13, <1>15
  <2>3. f[i - 1] \in MockBooks /\ i \in 1 .. Len(changes)
    BY <1>1, <1>10, <1>11
  <2>4. Recorded(Recounted(v, changes[i]), Emitted(f[i - 1], changes[i]), changes, i)
    BY <2>2, <2>3, OneRecorded
  <2>5. Recounted(v, changes[i]) \in RecordBooks
    BY <1>2, RecountedType
  <2> QED  BY <1>11, <1>12, <1>13, <2>1, <2>4, <2>5
<1>16. Looped(n, RecordBooks, records, h) \in W[n]
  BY <1>2, <1>3, <1>7, <1>14, <1>15, LoopedWithin
<1>17. /\ FoldLeft(Recounted, records, changes) \in RecordBooks
       /\ Recorded(FoldLeft(Recounted, records, changes), f[n], changes, n)
  BY <1>7, <1>11, <1>13, <1>16
<1>18. f[n] \in MockBooks
  BY <1>10, <1>11
<1> QED  BY <1>9, <1>17, <1>18 DEF Recorded

-----------------------------------------------------------------------------
(* The gate.                                                               *)

OnceEach(sample) == \A i, j \in 1 .. Len(sample) : sample[i][1] = sample[j][1] => i = j

PassedFairly ==
    gate.phase = "done" /\ gate.passed =>
        /\ wrongAnswers = 0
        /\ Len(gate.sample) >= MinAddresses
        /\ Fair(gate.sample, CATEGORIES, StandsFor)

GateInv ==
    /\ GateTypeOK
    /\ served = mock.balances
    /\ RecordsAgree(records, mock.balances, mock.nextId)
    /\ gate.mismatches = wrongAnswers
    /\ OnceEach(gate.sample)
    /\ PassedFairly

Wrong(sample, answers) == {i \in 1 .. Len(sample) : answers[i] # served[sample[i][1]]}

(* The server holds the chain's balances, so an answer that differs from   *)
(* the chain's is a wrong one.                                             *)
LEMMA MismatchesAreWrong ==
    ASSUME NEW A, NEW sample \in Seq(A), NEW answers, served = mock.balances
    PROVE  /\ Cardinality(Wrong(sample, answers)) \in Nat
           /\ Mismatches(sample, answers) = Cardinality(Wrong(sample, answers))
<1>1. PICK T : T = Wrong(sample, answers)
  OBVIOUS
<1>2. Len(sample) \in Nat
  OBVIOUS
<1>3. IsFiniteSet(1 .. Len(sample))
  BY <1>2, FS_Interval
<1>4. T \in SUBSET (1 .. Len(sample))
  BY <1>1 DEF Wrong
<1>5. IsFiniteSet(T)
  BY <1>3, <1>4, FS_Subset
<1>6. Cardinality(T) \in Nat
  BY <1>5, FS_CardinalityType
<1>7. Mismatches(sample, answers) = Cardinality(T)
  <2>1. T = {i \in 1 .. Len(sample) : answers[i] # mock.balances[sample[i][1]]}
    BY <1>1 DEF Wrong
  <2> QED  BY <2>1 DEF Mismatches
<1> QED  BY <1>1, <1>6, <1>7

(* At the start all that is live is of the genesis.                        *)
LEMMA GateStarts == ConformanceInit => GateInv
<1> SUFFICES ASSUME ConformanceInit PROVE GateInv
  OBVIOUS
<1>1. PICK genesis \in [GenesisIds -> MockBalances] :
          mock = [balances |-> [i \in Ids |-> IF i \in GenesisIds THEN genesis[i] ELSE 0],
                  block |-> 0, nextId |-> GenesisKeys]
  BY DEF ConformanceInit
<1>2. /\ served = mock.balances
      /\ records = [activity |-> [i \in Ids |-> 0], known |-> GenesisIds,
                    created |-> <<>>, deleted |-> <<>>]
      /\ gate = [phase |-> "run", mismatches |-> 0, sample |-> <<>>, passed |-> FALSE]
      /\ wrongAnswers = 0
  BY DEF ConformanceInit
<1>3. GenesisKeys \in Nat /\ Blocks \in Nat /\ InsertsPerBlock \in Nat
  BY ConformanceAssumption
<1>4. PICK b : b = [i \in Ids |-> IF i \in GenesisIds THEN genesis[i] ELSE 0]
  OBVIOUS
<1>5. PICK V : V = 0 .. 2
  OBVIOUS
<1>6. 0 \in V /\ MockBalances \subseteq V /\ \A i \in GenesisIds : genesis[i] \in MockBalances
  BY <1>5 DEF MockBalances
<1>7. b \in MockBooks
  BY <1>4, <1>5, <1>6 DEF MockBooks
<1>8. mock = [balances |-> b, block |-> 0, nextId |-> GenesisKeys]
  BY <1>1, <1>4
<1>9. mock \in [balances : MockBooks, block : 0 .. Blocks, nextId : Nat]
  BY <1>3, <1>7, <1>8
<1>10. mock.nextId = GenesisKeys + InsertsPerBlock * mock.block
  BY <1>3, <1>8
<1>11. PICK none : none = <<>>
  OBVIOUS
<1>12. /\ none \in Seq(Ids) /\ none \in Seq(Ids \X CATEGORIES) /\ Len(none) = 0 /\ ToSet(none) = {}
  BY <1>11 DEF ToSet
<1>13. [i \in Ids |-> 0] \in [Ids -> Nat]
  OBVIOUS
<1>14. records = [activity |-> [i \in Ids |-> 0], known |-> GenesisIds,
                  created |-> none, deleted |-> none]
  BY <1>2, <1>11
<1>15. records \in RecordBooks
  BY <1>12, <1>13, <1>14, IdsAre DEF RecordBooks
<1>16. gate = [phase |-> "run", mismatches |-> 0, sample |-> none, passed |-> FALSE]
  BY <1>2, <1>11
<1>17. GateTypeOK
  BY <1>2, <1>9, <1>10, <1>12, <1>15, <1>16 DEF GateTypeOK
<1>18. RecordsAgree(records, mock.balances, mock.nextId)
  <2>1. /\ records.known = GenesisIds /\ records.created = none /\ records.deleted = none
        /\ mock.nextId = GenesisKeys /\ mock.balances = b
    BY <1>8, <1>14
  <2>2. \A id \in GenesisIds : id < GenesisKeys
    BY <1>3 DEF GenesisIds
  <2>3. \A id \in Ids : b[id] # 0 => id \in GenesisIds
    BY <1>4
  <2> QED  BY <1>12, <2>1, <2>2, <2>3 DEF RecordsAgree, Distinct
<1>19. gate.mismatches = wrongAnswers /\ OnceEach(gate.sample) /\ PassedFairly
  BY <1>2, <1>12, <1>16 DEF OnceEach, PassedFairly
<1> QED  BY <1>2, <1>17, <1>18, <1>19 DEF GateInv

(* After a block the records agree with the chain after it.                *)
LEMMA ConformBlockInv == GateInv /\ ConformBlock => GateInv'
<1> SUFFICES ASSUME GateInv, ConformBlock PROVE GateInv'
  OBVIOUS
<1>1. PICK changes \in BlockUpdates :
          /\ mock' = [balances |-> FoldLeft(Emitted, mock.balances, changes),
                      block |-> mock.block + 1, nextId |-> mock.nextId + InsertsPerBlock]
          /\ served' = FoldLeft(Emitted, served, changes)
          /\ records' = FoldLeft(Recounted, records, changes)
  BY Zenon DEF ConformBlock
<1>2. /\ gate.phase = "run" /\ mock.block < Blocks /\ wrongAnswers' = wrongAnswers
      /\ gate' = [gate EXCEPT !.phase = IF mock.block + 1 \in CheckpointBlocks
                                        THEN "checkpoint" ELSE "run"]
  BY Zenon DEF ConformBlock
<1>3. /\ GateTypeOK /\ served = mock.balances /\ RecordsAgree(records, mock.balances, mock.nextId)
      /\ gate.mismatches = wrongAnswers /\ OnceEach(gate.sample)
  BY DEF GateInv
<1>4. Lawful(changes)
  BY <1>1, <1>2, <1>3, BlockIsLawful
<1>5. PICK b : b = FoldLeft(Emitted, mock.balances, changes)
  OBVIOUS
<1>6. PICK r : r = FoldLeft(Recounted, records, changes)
  OBVIOUS
<1>7. b \in MockBooks /\ r \in RecordBooks /\ RecordsAgree(r, b, mock.nextId + InsertsPerBlock)
  BY <1>3, <1>4, <1>5, <1>6, BlockRecorded
<1>8. mock' = [balances |-> b, block |-> mock.block + 1, nextId |-> mock.nextId + InsertsPerBlock]
  BY <1>1, <1>5
<1>9. records' = r /\ served' = b
  BY <1>1, <1>3, <1>5, <1>6
<1>10. PICK ph \in {"run", "checkpoint"} : gate' = [gate EXCEPT !.phase = ph]
  BY <1>2
<1>11. /\ gate \in [phase : {"run", "checkpoint", "done"}, mismatches : Nat,
                    sample : Seq(Ids \X CATEGORIES), passed : BOOLEAN]
       /\ mock.block \in 0 .. Blocks /\ mock.nextId \in Nat
       /\ mock.nextId = GenesisKeys + InsertsPerBlock * mock.block
       /\ wrongAnswers \in Nat
  BY <1>3 DEF GateTypeOK
<1>12. /\ gate' \in [phase : {"run", "checkpoint", "done"}, mismatches : Nat,
                     sample : Seq(Ids \X CATEGORIES), passed : BOOLEAN]
       /\ gate'.phase # "done" /\ gate'.mismatches = gate.mismatches /\ gate'.sample = gate.sample
  <2>1. PICK Samples : Samples = Seq(Ids \X CATEGORIES)
    OBVIOUS
  <2> QED  BY <1>10, <1>11, <2>1
<1>13. /\ mock'.balances = b /\ mock'.block = mock.block + 1
       /\ mock'.nextId = mock.nextId + InsertsPerBlock
  BY <1>8
<1>14. GenesisKeys \in Nat /\ InsertsPerBlock \in Nat /\ Blocks \in Nat
  BY ConformanceAssumption
<1>15. mock.block + 1 \in 0 .. Blocks /\ mock.nextId + InsertsPerBlock \in Nat
  <2>1. PICK k : k = mock.block
    OBVIOUS
  <2>2. k < Blocks /\ k \in 0 .. Blocks
    BY <1>2, <1>11, <2>1
  <2>3. k + 1 \in 0 .. Blocks
    BY <1>14, <2>2
  <2>4. mock.nextId \in Nat
    BY <1>11
  <2>5. mock.nextId + InsertsPerBlock \in Nat
    BY <1>14, <2>4
  <2> QED  BY <2>1, <2>3, <2>5
<1>16. mock' \in [balances : MockBooks, block : 0 .. Blocks, nextId : Nat]
  BY <1>7, <1>8, <1>15
<1>17. mock'.nextId = GenesisKeys + InsertsPerBlock * mock'.block
  <2>1. PICK now : now = InsertsPerBlock * mock.block
    OBVIOUS
  <2>2. now \in Nat /\ InsertsPerBlock * (mock.block + 1) = now + InsertsPerBlock
    BY <1>11, <2>1, Minting
  <2> QED  BY <1>11, <1>13, <1>14, <2>1, <2>2
<1>18. GateTypeOK'
  BY <1>2, <1>7, <1>9, <1>11, <1>12, <1>16, <1>17 DEF GateTypeOK, MockBooks, RecordBooks
<1>19. RecordsAgree(records, mock.balances, mock.nextId)'
  BY <1>7, <1>9, <1>13 DEF RecordsAgree
<1>20. PassedFairly'
  BY <1>12 DEF PassedFairly
<1>21. (served = mock.balances)' /\ (gate.mismatches = wrongAnswers)' /\ OnceEach(gate.sample)'
  BY <1>2, <1>3, <1>9, <1>12, <1>13 DEF OnceEach
<1> QED  BY <1>18, <1>19, <1>20, <1>21 DEF GateInv

(* A checkpoint counts as a mismatch just what was wrong.                  *)
LEMMA CompareSampleInv == GateInv /\ CompareSample => GateInv'
<1> SUFFICES ASSUME GateInv, CompareSample PROVE GateInv'
  OBVIOUS
<1>1. PICK sample : sample = BuildSample(FullCandidates, 0)
  OBVIOUS
<1>2. PICK answers \in Answers(sample) : DiffSample(sample, answers)
  BY <1>1, Zenon DEF CompareSample
<1>3. mock' = mock /\ served' = served /\ records' = records
  BY DEF CompareSample
<1>4. /\ gate' = [gate EXCEPT !.sample = sample, !.mismatches = @ + Mismatches(sample, answers),
                              !.phase = "run"]
      /\ wrongAnswers' = wrongAnswers + Cardinality(Wrong(sample, answers))
  BY <1>2, Zenon DEF DiffSample, Wrong
<1>5. /\ GateTypeOK /\ served = mock.balances /\ RecordsAgree(records, mock.balances, mock.nextId)
      /\ gate.mismatches = wrongAnswers
  BY DEF GateInv
<1>6. Fair(sample, CATEGORIES, StandsFor)
  <2>1. 0 \in Nat
    OBVIOUS
  <2> QED  BY <1>1, <1>5, <2>1, SampleIsFair
<1>7. PICK Samples : Samples = Seq(Ids \X CATEGORIES)
  OBVIOUS
<1>8. sample \in Samples /\ OnceEach(sample)
  BY <1>6, <1>7 DEF Fair, OnceEach
<1>9. PICK m : m = Mismatches(sample, answers)
  OBVIOUS
<1>10. m \in Nat /\ Cardinality(Wrong(sample, answers)) = m
  BY <1>5, <1>7, <1>8, <1>9, MismatchesAreWrong
<1>11. /\ gate \in [phase : {"run", "checkpoint", "done"}, mismatches : Nat,
                    sample : Samples, passed : BOOLEAN]
       /\ wrongAnswers \in Nat
  BY <1>5, <1>7 DEF GateTypeOK
<1>12. PICK more : more = gate.mismatches + m
  OBVIOUS
<1>13. gate' = [gate EXCEPT !.sample = sample, !.mismatches = more, !.phase = "run"]
  BY <1>4, <1>9, <1>11, <1>12
<1>14. gate' = [phase |-> "run", mismatches |-> more, sample |-> sample, passed |-> gate.passed]
  BY <1>11, <1>13
<1>15. more \in Nat
  BY <1>10, <1>11, <1>12
<1>16. /\ gate' \in [phase : {"run", "checkpoint", "done"}, mismatches : Nat,
                     sample : Samples, passed : BOOLEAN]
       /\ gate'.phase = "run" /\ gate'.mismatches = more /\ gate'.sample = sample
  BY <1>8, <1>11, <1>14, <1>15
<1>17. wrongAnswers' = more
  BY <1>4, <1>5, <1>10, <1>12
<1>18. GateTypeOK'
  BY <1>3, <1>5, <1>7, <1>15, <1>16, <1>17 DEF GateTypeOK, MockBooks, RecordBooks
<1>19. RecordsAgree(records, mock.balances, mock.nextId)'
  BY <1>3, <1>5 DEF RecordsAgree
<1>20. PassedFairly'
  BY <1>16 DEF PassedFairly
<1>21. (served = mock.balances)' /\ (gate.mismatches = wrongAnswers)' /\ OnceEach(gate.sample)'
  BY <1>3, <1>5, <1>8, <1>16, <1>17 DEF OnceEach
<1> QED  BY <1>18, <1>19, <1>20, <1>21 DEF GateInv

(* The last sample is fair, and the gate passes it only when nothing was   *)
(* wrong.                                                                  *)
LEMMA ConcludeInv == GateInv /\ Conclude => GateInv'
<1> SUFFICES ASSUME GateInv, Conclude PROVE GateInv'
  OBVIOUS
<1>1. PICK sample : sample = BuildSample(FullCandidates, MinAddresses)
  OBVIOUS
<1>2. PICK answers \in Answers(sample) :
          /\ gate' = [phase |-> "done", sample |-> sample,
                      mismatches |-> gate.mismatches + Mismatches(sample, answers),
                      passed |-> /\ gate.mismatches + Mismatches(sample, answers) = 0
                                 /\ Len(sample) >= MinAddresses
                                 /\ \A c \in CATEGORIES : InCategory(sample, c) # {}]
          /\ wrongAnswers' = wrongAnswers + Cardinality(Wrong(sample, answers))
  BY <1>1, Zenon DEF Conclude, Wrong
<1>3. mock' = mock /\ served' = served /\ records' = records
  BY DEF Conclude
<1>4. /\ GateTypeOK /\ served = mock.balances /\ RecordsAgree(records, mock.balances, mock.nextId)
      /\ gate.mismatches = wrongAnswers
  BY DEF GateInv
<1>5. Fair(sample, CATEGORIES, StandsFor)
  <2>1. MinAddresses \in Nat
    BY ConformanceAssumption
  <2> QED  BY <1>1, <1>4, <2>1, SampleIsFair
<1>6. PICK Samples : Samples = Seq(Ids \X CATEGORIES)
  OBVIOUS
<1>7. sample \in Samples /\ OnceEach(sample)
  BY <1>5, <1>6 DEF Fair, OnceEach
<1>8. PICK m : m = Mismatches(sample, answers)
  OBVIOUS
<1>9. m \in Nat /\ Cardinality(Wrong(sample, answers)) = m
  BY <1>4, <1>6, <1>7, <1>8, MismatchesAreWrong
<1>10. gate.mismatches \in Nat /\ wrongAnswers \in Nat
  BY <1>4 DEF GateTypeOK
<1>11. PICK more : more = gate.mismatches + m
  OBVIOUS
<1>12. PICK all : all = \A c \in CATEGORIES : InCategory(sample, c) # {}
  OBVIOUS
<1>13. PICK passed \in BOOLEAN : passed = (more = 0 /\ Len(sample) >= MinAddresses /\ all)
  OBVIOUS
<1>14. gate' = [phase |-> "done", sample |-> sample, mismatches |-> more, passed |-> passed]
  BY <1>2, <1>8, <1>11, <1>12, <1>13
<1>15. more \in Nat
  BY <1>9, <1>10, <1>11
<1>16. /\ gate' \in [phase : {"run", "checkpoint", "done"}, mismatches : Nat,
                     sample : Samples, passed : BOOLEAN]
       /\ gate'.phase = "done" /\ gate'.mismatches = more /\ gate'.sample = sample
       /\ gate'.passed = passed
  BY <1>7, <1>14, <1>15
<1>17. wrongAnswers' = more
  BY <1>2, <1>4, <1>9, <1>11
<1>18. GateTypeOK'
  BY <1>3, <1>4, <1>6, <1>15, <1>16, <1>17 DEF GateTypeOK, MockBooks, RecordBooks
<1>19. RecordsAgree(records, mock.balances, mock.nextId)'
  BY <1>3, <1>4 DEF RecordsAgree
<1>20. PassedFairly'
  <2>1. StandsFor' = StandsFor
    BY <1>3 DEF StandsFor
  <2>2. passed => wrongAnswers' = 0 /\ Len(gate'.sample) >= MinAddresses
    BY <1>13, <1>16, <1>17
  <2>3. Fair(gate'.sample, CATEGORIES, StandsFor')
    BY <1>5, <1>16, <2>1
  <2> QED  BY <1>16, <2>2, <2>3 DEF PassedFairly, Fair
<1>21. (served = mock.balances)' /\ (gate.mismatches = wrongAnswers)' /\ OnceEach(gate.sample)'
  BY <1>3, <1>4, <1>7, <1>16, <1>17 DEF OnceEach
<1> QED  BY <1>18, <1>19, <1>20, <1>21 DEF GateInv

(* Every step of the run keeps the books.                                  *)
LEMMA GateKept == GateInv /\ [ConformanceNext]_conformanceVars => GateInv'
<1> SUFFICES ASSUME GateInv, [ConformanceNext]_conformanceVars PROVE GateInv'
  OBVIOUS
<1>1. CASE ConformBlock
  BY <1>1, ConformBlockInv
<1>2. CASE CompareSample
  BY <1>2, CompareSampleInv
<1>3. CASE Conclude
  BY <1>3, ConcludeInv
<1>4. CASE UNCHANGED conformanceVars
  <2>1. /\ mock' = mock /\ served' = served /\ records' = records /\ gate' = gate
        /\ wrongAnswers' = wrongAnswers
    BY <1>4 DEF conformanceVars
  <2>2. GateTypeOK'
    BY <2>1 DEF GateInv, GateTypeOK, RecordBooks, MockBooks
  <2>3. RecordsAgree(records, mock.balances, mock.nextId)'
    BY <2>1 DEF GateInv, RecordsAgree
  <2>4. PassedFairly'
    <3>1. StandsFor' = StandsFor
      BY <2>1 DEF StandsFor
    <3> QED  BY <2>1, <3>1 DEF GateInv, PassedFairly, Fair
  <2>5. (served = mock.balances)' /\ (gate.mismatches = wrongAnswers)' /\ OnceEach(gate.sample)'
    BY <2>1 DEF GateInv, OnceEach
  <2> QED  BY <2>2, <2>3, <2>4, <2>5 DEF GateInv
<1> QED  BY <1>1, <1>2, <1>3, <1>4 DEF ConformanceNext

(* Books kept so make the gate true.                                       *)
LEMMA GateIsTold == GateInv => GateIsTrue
<1> SUFFICES ASSUME GateInv PROVE GateIsTrue
  OBVIOUS
<1>1. /\ GateTypeOK /\ RecordsAgree(records, mock.balances, mock.nextId)
      /\ gate.mismatches = wrongAnswers /\ OnceEach(gate.sample) /\ PassedFairly
  BY DEF GateInv
<1>2. PICK s : s = gate.sample
  OBVIOUS
<1>3. \A i, j \in 1 .. Len(s) : i # j => s[i][1] # s[j][1]
  BY <1>1, <1>2 DEF OnceEach
<1>4. ASSUME gate.phase = "done", gate.passed
      PROVE  /\ wrongAnswers = 0
             /\ Cardinality(ToSet(s)) >= MinAddresses
             /\ \A i \in 1 .. Len(s) :
                   LET id == s[i][1]
                   IN CASE s[i][2] = "never-existed" -> id \notin records.known
                        [] s[i][2] = "created" -> id \notin GenesisIds /\ mock.balances[id] # 0
                        [] s[i][2] = "high-activity" -> id \in GenesisIds /\ mock.balances[id] # 0
                        [] s[i][2] = "zero-balance" -> id \in records.known /\ mock.balances[id] = 0
                        [] OTHER -> id \in GenesisIds
  <2>1. wrongAnswers = 0 /\ Len(s) >= MinAddresses /\ Fair(s, CATEGORIES, StandsFor)
    BY <1>1, <1>2, <1>4 DEF PassedFairly
  <2>2. Cardinality(ToSet(s)) = Len(s)
    <3>1. PICK A : A = Ids \X CATEGORIES
      OBVIOUS
    <3>2. s \in Seq(A)
      BY <2>1, <3>1 DEF Fair
    <3>3. Distinct(s)
      BY <1>3 DEF Distinct
    <3> QED  BY <3>2, <3>3, DistinctCounts
  <2>3. ASSUME NEW i \in 1 .. Len(s)
        PROVE  LET id == s[i][1]
               IN CASE s[i][2] = "never-existed" -> id \notin records.known
                    [] s[i][2] = "created" -> id \notin GenesisIds /\ mock.balances[id] # 0
                    [] s[i][2] = "high-activity" -> id \in GenesisIds /\ mock.balances[id] # 0
                    [] s[i][2] = "zero-balance" -> id \in records.known /\ mock.balances[id] = 0
                    [] OTHER -> id \in GenesisIds
    <3>1. PICK id : id = s[i][1]
      OBVIOUS
    <3>2. PICK cat : cat = s[i][2]
      OBVIOUS
    <3>3. id \in StandsFor[cat] /\ cat \in CATEGORIES
      <4>1. s[i] \in Ids \X CATEGORIES
        BY <2>1 DEF Fair
      <4> QED  BY <2>1, <3>1, <3>2, <4>1 DEF Fair
    <3>4. cat = "never-existed" => id \notin records.known
      BY <3>3 DEF StandsFor, CATEGORIES
    <3>5. cat = "created" => id \notin GenesisIds /\ mock.balances[id] # 0
      BY <3>3 DEF StandsFor, CATEGORIES
    <3>6. cat = "high-activity" => id \in GenesisIds /\ mock.balances[id] # 0
      BY <3>3 DEF StandsFor, CATEGORIES
    <3>7. cat = "zero-balance" => id \in records.known /\ mock.balances[id] = 0
      BY <3>3 DEF StandsFor, CATEGORIES
    <3>8. cat = "contract" => id \in GenesisIds
      BY <3>3, IdsAre DEF StandsFor, CATEGORIES
    <3>9. \/ cat = "never-existed" \/ cat = "created" \/ cat = "high-activity"
          \/ cat = "zero-balance" \/ cat = "contract"
      BY <3>3 DEF CATEGORIES
    <3> QED  BY <3>1, <3>2, <3>4, <3>5, <3>6, <3>7, <3>8, <3>9
  <2> QED  BY <2>1, <2>2, <2>3
<1>5. gate.mismatches > 0 => wrongAnswers > 0
  BY <1>1
<1> QED  BY <1>2, <1>3, <1>4, <1>5, Zenon DEF GateIsTrue

(* The gate that passes means what it says, for any number of accounts,    *)
(* blocks, checkpoints and sampled accounts: every answer that it compared *)
(* was right, and each account of its last sample is there once, in the    *)
(* category that fits it, whatever the blocks created and deleted, in any  *)
(* order within a block (conformance.rs:240, lib.rs:380).                  *)
THEOREM GateIsAlwaysTrue == ConformanceSpec => []GateIsTrue
<1>1. ConformanceInit => GateInv
  BY GateStarts
<1>2. GateInv /\ [ConformanceNext]_conformanceVars => GateInv'
  BY GateKept
<1>3. GateInv => GateIsTrue
  BY GateIsTold
<1> QED  BY <1>1, <1>2, <1>3, PTL DEF ConformanceSpec
===============================================================================
