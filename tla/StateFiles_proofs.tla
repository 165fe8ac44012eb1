--------------------------- MODULE StateFiles_proofs ---------------------------
(***************************************************************************)
(* What a restart finds, for every number of blocks, layouts and starts    *)
(* and through every kill and power cut, of a state path that one process  *)
(* at a time owns: each theorem assumes Processes = {p}.  With two of them *)
(* the code itself can tear the state file: the advisory lock is released  *)
(* when spawn returns, and two savers then share one staging file.         *)
(*                                                                         *)
(* The invariant FilesInv says that a journal is a chain of deltas from    *)
(* its base, each computed from the state before it and leading to a state *)
(* that was served; that the files lead to what the process goes on from,  *)
(* at every step of an append, a save or a rotation; and that every image  *)
(* a fault can leave reaches what was reported while the names that lead   *)
(* to it were on disk.  That all reports are kept is not so: StateFiles'   *)
(* EveryReportIsKept fails.                                                *)
(***************************************************************************)
EXTENDS StateFiles, SequenceTheorems, TLAPS

States  == [block : Nat, cells : Seq(Layouts)]
Records == [kind : {"delta"}, block : Nat, from : Seq(Layouts), to : Seq(Layouts)]

Result(d) == [block |-> d.block, cells |-> d.to]

(* The k-th item of journal j is the record that the one before leads to,  *)
(* and its result is one of S, the states that were served.                *)
At(j, k) == IF k = 0 THEN j.base ELSE Result(j.items[k])
Leads(j, k, S) ==
    /\ j.items[k] \in Records
    /\ j.items[k].block = j.base.block + k
    /\ j.items[k].from = At(j, k - 1).cells
    /\ IsPrefix(j.base.cells, j.items[k].to)
    /\ IsPrefix(j.items[k].from, j.items[k].to)
    /\ Len(j.items[k].to) = Len(j.base.cells) + k
    /\ Result(j.items[k]) \in S

(* Only the last item may be torn.                                         *)
Chained(j, S) ==
    /\ j \in [kind : {"whole"}, base : S, items : Seq(Records \cup {Torn})]
    /\ \A k \in 1 .. Len(j.items) : j.items[k] # Torn => Leads(j, k, S)
    /\ \A k \in 1 .. Len(j.items) : j.items[k] = Torn => k = Len(j.items)

JournalOK(j, S) == j = NoFile \/ Chained(j, S)
StateOK(f, S)   == f = NoFile \/ \E s \in S : f = Whole(s)

(* The records that a replay finds, and the state it ends in.              *)
Found(j) == IF j.items # <<>> /\ Last(j.items) = Torn THEN Len(j.items) - 1 ELSE Len(j.items)
End(j)   == At(j, Found(j))
Reach(s, j) == IF j.kind = "whole" /\ j.base = s THEN End(j) ELSE s

FilesOK ==
    /\ served \subseteq States /\ Snapshot \in served /\ kept \in served
    /\ dirSyncs \in BOOLEAN
    /\ files = [state |-> files.state, tmp |-> files.tmp, journal |-> files.journal]
    /\ disk = [state |-> disk.state, journal |-> disk.journal]
    /\ StateOK(files.state, served) /\ StateOK(disk.state, served)
    /\ JournalOK(files.journal, served) /\ JournalOK(disk.journal, served)

Memories ==
    [up : {"down", "starting", "up", "exiting"}, head : served, following : BOOLEAN,
     signalled : BOOLEAN, pending : Records \cup {NoDelta}, journaling : BOOLEAN,
     last : Nat, broken : BOOLEAN, saved : Int]

MemoryOK ==
    /\ proc \in [Processes -> Memories]
    /\ saver \in [Processes ->
         [step : {"idle", "appending", "written", "staging", "staged", "renamed", "rotating", "rotated"},
          by : {"nobody", "loop", "shutdown", "spawn"}, of : served]]

(* A block that waits for its record is the newest one served.             *)
PendingOK(p) ==
    /\ proc[p].pending # NoDelta =>
         /\ proc[p].following
         /\ proc[p].head = Result(proc[p].pending)
         /\ IsPrefix(proc[p].pending.from, proc[p].pending.to)
         /\ Len(proc[p].pending.to) = Len(proc[p].pending.from) + 1
    /\ proc[p].up \in {"down", "starting"} => proc[p].pending = NoDelta /\ ~proc[p].following

(* Process p goes on from s: it serves it, or the one block after it that  *)
(* waits to be journaled.                                                  *)
Before(d) == [block |-> d.block - 1, cells |-> d.from]
GoesOnFrom(p, s) ==
    proc[p].following \/ proc[p].up = "starting" =>
        \/ proc[p].head = s
        \/ proc[p].pending # NoDelta /\ s = Before(proc[p].pending)

(* What the mutex's holder has done so far.                                *)
SaverOK(p) ==
    LET v == saver[p]
        saving == v.step \in {"staging", "staged", "renamed", "rotating", "rotated"}
    IN  /\ v.step = "idle" => v = Idle
        /\ proc[p].up = "down" => proc[p] = Down /\ v = Idle
        /\ proc[p].broken => ~proc[p].journaling
        /\ v.step \in {"appending", "written"} =>
             v.by = "loop" /\ proc[p].pending # NoDelta /\ proc[p].journaling
        /\ saving => GoesOnFrom(p, v.of)
        /\ v.step \in {"staging", "staged", "renamed"} => proc[p].head = v.of
        /\ v.step = "staging" => files.tmp = Torn
        /\ v.step = "staged" => files.tmp = Whole(v.of)
        /\ v.step \in {"renamed", "rotating", "rotated"} => files.state = Whole(v.of)
        /\ v.step \in {"rotating", "rotated"} =>
             ~proc[p].broken /\ kept = v.of /\ (dirSyncs => disk.state = files.state)
        /\ v.step = "rotated" => files.journal = Journal(v.of)

(* The journal that process p appends to.                                  *)
JournalingOK(p) ==
    proc[p].journaling /\ saver[p].step \notin {"renamed", "rotating", "rotated"} =>
        /\ Chained(files.journal, served)
        /\ files.state = Whole(files.journal.base)
        /\ saver[p].step \notin {"appending", "written"} =>
             /\ Found(files.journal) = Len(files.journal.items)
             /\ proc[p].last = files.journal.base.block + Len(files.journal.items)
             /\ GoesOnFrom(p, End(files.journal))
        /\ saver[p].step = "appending" =>
             /\ Found(files.journal) = Len(files.journal.items) - 1
             /\ End(files.journal) = Before(proc[p].pending)
        /\ saver[p].step = "written" =>
             /\ Found(files.journal) = Len(files.journal.items)
             /\ End(files.journal) = Result(proc[p].pending)

(* Reported states survive, in memory, in the staging file and in every    *)
(* image.                                                                  *)
Durable(a, f, j) == f.kind = "whole" => IsPrefix(a.cells, Reach(f.of, j).cells)
AckedOK(p) ==
    dirSyncs =>
        /\ \A f \in {disk.state, files.state} : \A j \in JournalImages : Durable(kept, f, j)
        /\ kept.cells = <<>> \/ (disk.state # NoFile /\ files.state # NoFile)
        /\ proc[p].up # "down" => IsPrefix(kept.cells, proc[p].head.cells)

FilesInv(p) ==
    FilesOK /\ MemoryOK /\ PendingOK(p) /\ SaverOK(p) /\ JournalingOK(p) /\ AckedOK(p)

-----------------------------------------------------------------------------
(* Prefixes.                                                               *)

(* What IsPrefix says of two finite lists of layouts, item by item.        *)
LEMMA PrefixIs ==
    ASSUME NEW S, NEW s \in Seq(S), NEW t \in Seq(S)
    PROVE  IsPrefix(s, t) <=> Len(s) <= Len(t) /\ \A i \in 1 .. Len(s) : s[i] = t[i]
<1>1. Len(s) \in Nat /\ Len(t) \in Nat
  BY LenProperties
<1>2. SubSeq(s, 1, Len(s)) = s
  BY SubSeqFull
<1>3. CASE Len(s) <= Len(t)
  <2>1. \A i \in 1 .. Len(s) : t[i] \in S
    BY <1>1, <1>3, ElementOfSeq
  <2>2. PICK u : u = SubSeq(t, 1, Len(s))
    OBVIOUS
  <2>3. /\ u \in Seq(S) /\ Len(u) = IF 1 <= Len(s) THEN Len(s) - 1 + 1 ELSE 0
        /\ \A i \in 1 .. Len(s) - 1 + 1 : u[i] = t[1 + i - 1]
    BY <1>1, <2>1, <2>2, SubSeqProperties
  <2>4. Len(u) = Len(s) /\ \A i \in 1 .. Len(s) : u[i] = t[i]
    BY <1>1, <2>3
  <2>5. s = u <=> \A i \in 1 .. Len(s) : s[i] = u[i]
    BY <2>3, <2>4, SeqEqual
  <2> QED
    BY <1>2, <1>3, <2>2, <2>4, <2>5 DEF IsPrefix
<1> QED
  BY <1>3 DEF IsPrefix

(* Cells are a prefix of themselves.                                       *)
LEMMA PrefixSame ==
    ASSUME NEW S, NEW s \in Seq(S)
    PROVE  IsPrefix(s, s) /\ IsPrefix(<<>>, s)
<1>1. PICK e : e = <<>>
  OBVIOUS
<1>2. e \in Seq(S) /\ Len(e) = 0 /\ Len(s) \in Nat
  BY <1>1, EmptySeq, LenProperties
<1>3. IsPrefix(s, s)
  BY <1>2, PrefixIs
<1>4. Len(e) <= Len(s) /\ \A i \in 1 .. Len(e) : e[i] = s[i]
  BY <1>2
<1>5. IsPrefix(e, s)
  BY <1>2, <1>4, PrefixIs
<1> QED
  BY <1>1, <1>3, <1>5

(* What is a prefix of cells is one of the cells that a block leads to.    *)
LEMMA PrefixLonger ==
    ASSUME NEW S, NEW s \in Seq(S), NEW t \in Seq(S), NEW u \in Seq(S),
           IsPrefix(s, t), IsPrefix(t, u)
    PROVE  IsPrefix(s, u)
<1>1. Len(s) \in Nat /\ Len(t) \in Nat /\ Len(u) \in Nat
  BY LenProperties
<1> QED
  BY <1>1, PrefixIs

(* Of two prefixes of the same cells the shorter is one of the longer.     *)
LEMMA PrefixShorter ==
    ASSUME NEW S, NEW s \in Seq(S), NEW t \in Seq(S), NEW u \in Seq(S),
           IsPrefix(s, u), IsPrefix(t, u), Len(s) <= Len(t)
    PROVE  IsPrefix(s, t)
<1>1. Len(s) \in Nat /\ Len(t) \in Nat /\ Len(u) \in Nat
  BY LenProperties
<1>2. \A i \in 1 .. Len(s) : s[i] = u[i]
  BY PrefixIs
<1>3. \A i \in 1 .. Len(t) : t[i] = u[i]
  BY PrefixIs
<1>4. \A i \in 1 .. Len(s) : i \in 1 .. Len(t)
  BY <1>1
<1>5. \A i \in 1 .. Len(s) : s[i] = t[i]
  BY <1>2, <1>3, <1>4
<1> QED
  BY <1>5, PrefixIs

(* A block that was applied leaves the cells before it as a prefix.        *)
LEMMA PrefixAppended ==
    ASSUME NEW S, NEW s \in Seq(S), NEW e \in S
    PROVE  Append(s, e) \in Seq(S) /\ IsPrefix(s, Append(s, e)) /\ Len(Append(s, e)) = Len(s) + 1
<1>1. PICK t : t = Append(s, e)
  OBVIOUS
<1>2. Len(s) \in Nat /\ t \in Seq(S) /\ Len(t) = Len(s) + 1 /\ \A i \in 1 .. Len(s) : t[i] = s[i]
  BY <1>1, LenProperties, AppendProperties
<1>3. IsPrefix(s, t)
  BY <1>2, PrefixIs
<1> QED
  BY <1>1, <1>2, <1>3

(* A sequence without its last item, and with another one in its place.    *)
LEMMA FrontOf ==
    ASSUME NEW S, NEW s \in Seq(S), s # <<>>
    PROVE  /\ Len(s) \in Nat \ {0} /\ Front(s) \in Seq(S) /\ Len(Front(s)) = Len(s) - 1
           /\ \A i \in 1 .. Len(s) - 1 : Front(s)[i] = s[i]
<1>1. Len(s) \in Nat \ {0}
  BY EmptySeq
<1>2. \A i \in 1 .. Len(s) - 1 : s[i] \in S
  BY <1>1, ElementOfSeq
<1>3. PICK m : m = Len(s) - 1
  OBVIOUS
<1>4. PICK u : u = SubSeq(s, 1, m)
  OBVIOUS
<1>5. /\ u \in Seq(S) /\ Len(u) = IF 1 <= m THEN m - 1 + 1 ELSE 0
      /\ \A i \in 1 .. m - 1 + 1 : u[i] = s[1 + i - 1]
  BY <1>1, <1>2, <1>3, <1>4, SubSeqProperties
<1>6. Len(u) = m /\ \A i \in 1 .. m : u[i] = s[i]
  BY <1>1, <1>3, <1>5
<1> QED
  BY <1>1, <1>3, <1>4, <1>5, <1>6 DEF Front

-----------------------------------------------------------------------------
(* Journals.                                                               *)

(* The records a replay finds are whole, and the rest is a torn one.       *)
LEMMA FoundIs ==
    ASSUME NEW S, NEW j, Chained(j, S)
    PROVE  /\ Len(j.items) \in Nat /\ Found(j) \in 0 .. Len(j.items)
           /\ \A k \in 1 .. Found(j) : j.items[k] # Torn /\ Leads(j, k, S)
           /\ Found(j) < Len(j.items) =>
                Found(j) + 1 = Len(j.items) /\ j.items[Len(j.items)] = Torn
<1>1. Len(j.items) \in Nat /\ (j.items # <<>> => Len(j.items) # 0) /\ Len(<<>>) = 0
  BY LenProperties, EmptySeq DEF Chained
<1> QED
  BY <1>1 DEF Found, Chained, Last

(* Two journals with the same records and the same base reach the same     *)
(* state.                                                                  *)
LEMMA SameRecords ==
    ASSUME NEW S, NEW j, NEW t, NEW n \in Nat, t.base = j.base,
           \A k \in 1 .. n : t.items[k] = j.items[k]
    PROVE  /\ \A k \in 0 .. n : At(t, k) = At(j, k)
           /\ \A k \in 1 .. n : Leads(t, k, S) <=> Leads(j, k, S)
<1>1. \A k \in 0 .. n : At(t, k) = At(j, k)
  BY DEF At
<1>2. \A k \in 1 .. n : k - 1 \in 0 .. n
  OBVIOUS
<1> QED
  BY <1>1, <1>2 DEF Leads

(* replay stops at the torn record and at nothing before it: the blocks of *)
(* a chain follow each other.                                              *)
LEMMA ReplayFindsAll ==
    ASSUME NEW S \in SUBSET States, NEW j, Chained(j, S)
    PROVE  ValidRecords(j) = Found(j)
<1> DEFINE Ok(n) ==
        /\ \A k \in 1 .. n : /\ j.items[k].kind = "delta"
                             /\ j.items[k].block = j.base.block + k
        /\ n < Len(j.items) =>
             j.items[n + 1].kind = "torn" \/ j.items[n + 1].block # j.base.block + n + 1
<1>1. /\ Len(j.items) \in Nat /\ Found(j) \in 0 .. Len(j.items)
      /\ \A k \in 1 .. Found(j) : j.items[k] # Torn /\ Leads(j, k, S)
      /\ Found(j) < Len(j.items) =>
           Found(j) + 1 = Len(j.items) /\ j.items[Len(j.items)] = Torn
  BY FoundIs
<1>2. \A k \in 1 .. Found(j) : j.items[k].kind = "delta" /\ j.items[k].block = j.base.block + k
  BY <1>1 DEF Leads, Records
<1>3. Ok(Found(j))
  BY <1>1, <1>2 DEF Torn
<1>4. ASSUME NEW n \in 0 .. Len(j.items), Ok(n) PROVE n = Found(j)
  <2>1. CASE n < Found(j)
    <3>1. j.base \in States
      BY DEF Chained
    <3>2. j.base.block \in Nat
      BY <3>1 DEF States
    <3>3. n + 1 \in 1 .. Found(j) /\ n < Len(j.items)
      BY <1>1, <2>1
    <3>4. j.base.block + (n + 1) = j.base.block + n + 1
      BY <3>2
    <3> QED
      BY <1>2, <1>4, <3>3, <3>4
  <2>2. CASE n > Found(j)
    <3>1. n = Len(j.items) /\ n \in 1 .. n /\ j.items[n] = Torn
      BY <1>1, <2>2
    <3> QED
      BY <1>4, <3>1 DEF Torn
  <2> QED
    BY <1>1, <2>1, <2>2
<1> HIDE DEF Ok
<1>5. ValidRecords(j) = CHOOSE n \in 0 .. Len(j.items) : Ok(n)
  BY DEF ValidRecords, Ok
<1> QED
  BY <1>1, <1>3, <1>4, <1>5

(* A journal leads to a state that was served, as many blocks behind its   *)
(* base as it has records.                                                 *)
LEMMA EndIs ==
    ASSUME NEW S \in SUBSET States, NEW j, Chained(j, S)
    PROVE  /\ End(j) \in S /\ End(j).block = j.base.block + Found(j)
           /\ IsPrefix(j.base.cells, End(j).cells)
           /\ Len(End(j).cells) = Len(j.base.cells) + Found(j)
<1>1. Found(j) \in Nat /\ (Found(j) # 0 => Leads(j, Found(j), S))
  BY FoundIs
<1>2. j.base \in S /\ j.base.block \in Nat /\ j.base.cells \in Seq(Layouts)
  BY DEF Chained, States
<1>3. CASE Found(j) = 0
  BY <1>2, <1>3, PrefixSame, LenProperties DEF End, At
<1>4. CASE Found(j) # 0
  BY <1>1, <1>2, <1>4 DEF End, At, Leads, Result
<1> QED
  BY <1>3, <1>4

(* What a fault leaves restores to the end of the journal, where that is   *)
(* the state file's, and else to the state file.                           *)
LEMMA RestoredIs ==
    ASSUME NEW S \in SUBSET States, NEW s, NEW j, JournalOK(j, S), NEW image,
           image.state.of = s, image.journal = j
    PROVE  /\ Usable(image) <=> j.kind = "whole" /\ j.base = s
           /\ Restored(image) = Reach(s, j)
<1>1. Usable(image) <=> j.kind = "whole" /\ j.base = s
  BY DEF Usable
<1>2. CASE Usable(image)
  <2>1. Chained(j, S) /\ j.base = s
    BY <1>1, <1>2 DEF JournalOK, NoFile
  <2>2. ValidRecords(j) = Found(j)
    BY <2>1, ReplayFindsAll
  <2>3. Found(j) \in Nat /\ \A k \in 1 .. Found(j) : Leads(j, k, S)
    BY <2>1, FoundIs
  <2>4. CASE Found(j) = 0
    BY <1>1, <1>2, <2>1, <2>2, <2>4 DEF Replayed, End, At, Restored, Reach
  <2>5. CASE Found(j) # 0
    <3>1. Leads(j, Found(j), S)
      BY <2>3, <2>5
    <3>2. \A k \in 1 .. Found(j) : j.items[k].from = IF k = 1 THEN s.cells ELSE j.items[k - 1].to
      <4> TAKE k \in 1 .. Found(j)
      <4>1. j.items[k].from = At(j, k - 1).cells
        BY <2>3 DEF Leads
      <4>2. CASE k = 1
        <5>1. At(j, k - 1) = s
          BY <2>1, <4>2 DEF At
        <5> QED
          BY <4>1, <4>2, <5>1
      <4>3. CASE k # 1
        <5>1. k - 1 # 0
          BY <2>3, <4>3
        <5> QED
          BY <4>1, <4>3, <5>1 DEF At, Result
      <4> QED
        BY <4>2, <4>3
    <3> QED
      BY <1>1, <1>2, <2>1, <2>2, <2>5, <3>1, <3>2 DEF Replayed, End, At, Restored, Reach, Leads, Result
  <2> QED
    BY <1>1, <2>4, <2>5
<1>3. CASE ~Usable(image)
  BY <1>1, <1>3 DEF Restored, Reach
<1> QED
  BY <1>1, <1>2, <1>3

(* The same of the files as they are, which a start reads.                 *)
LEMMA RestoredNow ==
    ASSUME FilesOK, NEW s, NEW j, s = files.state.of, j = files.journal
    PROVE  /\ Restored(files) = Reach(s, j)
           /\ Usable(files) <=> j.kind = "whole" /\ j.base = s
<1>1. JournalOK(j, served) /\ served \in SUBSET States
  BY DEF FilesOK
<1>2. files.state.of = s /\ files.journal = j
  OBVIOUS
<1> QED
  BY <1>1, <1>2, RestoredIs

(* What a longer list of served states leaves as it was.                   *)
LEMMA MoreServed ==
    ASSUME NEW S, NEW T, S \subseteq T
    PROVE  /\ \A j : Chained(j, S) => Chained(j, T)
           /\ \A j : JournalOK(j, S) => JournalOK(j, T)
           /\ \A f : StateOK(f, S) => StateOK(f, T)
<1>1. \A j : Chained(j, S) => Chained(j, T)
  BY DEF Chained, Leads
<1> QED
  BY <1>1 DEF JournalOK, StateOK

(* The last item of a sequence, taken off and put back.                    *)
LEMMA FrontAppend ==
    ASSUME NEW S, NEW s \in Seq(S)
    PROVE  /\ \A e \in S : Front(Append(s, e)) = s /\ Last(Append(s, e)) = e
           /\ s # <<>> => Append(Front(s), Last(s)) = s
<1>1. Len(s) \in Nat
  BY LenProperties
<1>2. ASSUME NEW e \in S PROVE Front(Append(s, e)) = s /\ Last(Append(s, e)) = e
  <2>1. PICK t : t = Append(s, e)
    OBVIOUS
  <2>2. /\ t \in Seq(S) /\ t # <<>> /\ Len(t) = Len(s) + 1 /\ t[Len(s) + 1] = e
        /\ \A i \in 1 .. Len(s) : t[i] = s[i]
    BY <2>1, AppendProperties
  <2>3. PICK f : f = Front(t)
    OBVIOUS
  <2>4. f \in Seq(S) /\ Len(f) = Len(s) /\ \A i \in 1 .. Len(s) : f[i] = s[i]
    BY <1>1, <2>2, <2>3, FrontOf
  <2>5. f = s
    BY <2>4, SeqEqual
  <2> QED
    BY <1>1, <2>1, <2>2, <2>3, <2>5 DEF Last
<1>3. ASSUME s # <<>> PROVE Append(Front(s), Last(s)) = s
  <2>1. PICK f : f = Front(s)
    OBVIOUS
  <2>2. /\ Len(s) \in Nat \ {0} /\ f \in Seq(S) /\ Len(f) = Len(s) - 1
        /\ \A i \in 1 .. Len(s) - 1 : f[i] = s[i]
    BY <1>3, <2>1, FrontOf
  <2>3. s[Len(s)] \in S
    BY <2>2, ElementOfSeq
  <2>4. PICK t : t = Append(f, s[Len(s)])
    OBVIOUS
  <2>5. /\ t \in Seq(S) /\ Len(t) = Len(f) + 1 /\ t[Len(f) + 1] = s[Len(s)]
        /\ \A i \in 1 .. Len(f) : t[i] = f[i]
    BY <2>2, <2>3, <2>4, AppendProperties
  <2>6. Len(t) = Len(s) /\ \A i \in 1 .. Len(t) : t[i] = s[i]
    BY <2>2, <2>5
  <2>7. t = s
    BY <2>5, <2>6, SeqEqual
  <2> QED
    BY <2>1, <2>4, <2>7 DEF Last
<1> QED
  BY <1>2, <1>3

(* A record that is begun, and written.                                    *)
LEMMA RecordBegun ==
    ASSUME NEW S \in SUBSET States, NEW j, Chained(j, S), Found(j) = Len(j.items)
    PROVE  LET t == [j EXCEPT !.items = Append(@, Torn)]
           IN  /\ Chained(t, S) /\ t.base = j.base /\ End(t) = End(j)
               /\ Found(t) = Len(t.items) - 1 /\ t.items # <<>> /\ Last(t.items) = Torn
<1> DEFINE I == Records \cup {Torn}
<1>1. /\ j \in [kind : {"whole"}, base : S, items : Seq(I)]
      /\ j.items \in Seq(I) /\ Len(j.items) \in Nat /\ j.base \in S
  BY LenProperties DEF Chained
<1>2. PICK u : u = Append(j.items, Torn)
  OBVIOUS
<1>3. /\ u \in Seq(I) /\ u # <<>> /\ Len(u) = Len(j.items) + 1 /\ u[Len(j.items) + 1] = Torn
      /\ \A i \in 1 .. Len(j.items) : u[i] = j.items[i]
  BY <1>1, <1>2, AppendProperties
<1>4. PICK t : t = [kind |-> "whole", base |-> j.base, items |-> u]
  OBVIOUS
<1>5. [j EXCEPT !.items = Append(@, Torn)] = t
  <2>1. [j EXCEPT !.items = u] = t
    BY <1>1, <1>4
  <2> QED
    BY <1>2, <2>1, Zenon
<1>6. t.kind = "whole" /\ t.base = j.base /\ t.items = u
  BY <1>4
<1>7. Found(t) = Len(j.items)
  BY <1>1, <1>3, <1>6 DEF Found, Last
<1>8. \A k \in 1 .. Len(j.items) : j.items[k] # Torn /\ Leads(j, k, S)
  BY FoundIs
<1>9. /\ \A k \in 1 .. Len(j.items) : t.items[k] # Torn /\ Leads(t, k, S)
      /\ At(t, Len(j.items)) = At(j, Len(j.items))
  <2>1. \A k \in 1 .. Len(j.items) : t.items[k] = j.items[k]
    BY <1>3, <1>6
  <2>2. /\ \A k \in 0 .. Len(j.items) : At(t, k) = At(j, k)
        /\ \A k \in 1 .. Len(j.items) : Leads(t, k, S) <=> Leads(j, k, S)
    BY <1>1, <1>6, <2>1, SameRecords
  <2> QED
    BY <1>1, <1>8, <2>1, <2>2
<1>10. t \in [kind : {"whole"}, base : S, items : Seq(I)]
  BY <1>1, <1>3, <1>4
<1>11. Chained(t, S)
  BY <1>1, <1>3, <1>6, <1>9, <1>10 DEF Chained
<1>12. End(t) = End(j)
  BY <1>7, <1>9 DEF End
<1>13. Found(t) = Len(t.items) - 1 /\ t.items # <<>> /\ Last(t.items) = Torn
  BY <1>1, <1>3, <1>6, <1>7 DEF Last
<1> QED
  BY <1>5, <1>6, <1>11, <1>12, <1>13

(* The record that append completes leads on from where the journal ended. *)
LEMMA RecordWritten ==
    ASSUME NEW S \in SUBSET States, NEW j, Chained(j, S), Found(j) = Len(j.items) - 1,
           NEW d \in Records, End(j) = Before(d), IsPrefix(d.from, d.to),
           Len(d.to) = Len(d.from) + 1, Result(d) \in S
    PROVE  \E t : /\ t = [j EXCEPT !.items = Append(Front(@), d)]
                  /\ Chained(t, S) /\ t.base = j.base /\ End(t) = Result(d)
                  /\ Found(t) = Len(t.items) /\ t.items # <<>>
                  /\ [t EXCEPT !.items = Append(Front(@), Torn)] = j
<1> DEFINE I == Records \cup {Torn}
<1>1. /\ j \in [kind : {"whole"}, base : S, items : Seq(I)]
      /\ j.items \in Seq(I) /\ j.base \in States /\ j.base \in S
  BY DEF Chained
<1>2. j.items # <<>> /\ Last(j.items) = Torn
  BY <1>1, LenProperties DEF Found
<1>3. PICK f : f = Front(j.items)
  OBVIOUS
<1>4. PICK n : n = Len(j.items)
  OBVIOUS
<1>5. /\ n \in Nat \ {0} /\ f \in Seq(I) /\ Len(f) = n - 1
      /\ \A i \in 1 .. n - 1 : f[i] = j.items[i]
  BY <1>1, <1>2, <1>3, <1>4, FrontOf
<1>6. PICK u : u = Append(f, d)
  OBVIOUS
<1>7. /\ u \in Seq(I) /\ u # <<>> /\ Len(u) = n /\ u[n] = d
      /\ \A i \in 1 .. n - 1 : u[i] = j.items[i]
  BY <1>5, <1>6, AppendProperties
<1>8. PICK t : t = [kind |-> "whole", base |-> j.base, items |-> u]
  OBVIOUS
<1>9. [j EXCEPT !.items = Append(Front(@), d)] = t
  <2>1. [j EXCEPT !.items = u] = t
    BY <1>1, <1>8
  <2> QED
    BY <1>3, <1>6, <2>1, Zenon
<1>10. t.kind = "whole" /\ t.base = j.base /\ t.items = u
  BY <1>8
<1>11. d # Torn
  BY DEF Records, Torn
<1>12. Found(t) = n
  BY <1>5, <1>7, <1>10, <1>11 DEF Found, Last
<1>13. \A k \in 1 .. n - 1 : Leads(j, k, S) /\ j.items[k] # Torn
  BY <1>4, FoundIs
<1>14. /\ \A k \in 1 .. n - 1 : Leads(t, k, S) /\ t.items[k] # Torn
       /\ At(t, n - 1) = At(j, n - 1)
  <2>1. n - 1 \in Nat /\ \A k \in 1 .. n - 1 : t.items[k] = j.items[k]
    BY <1>5, <1>7, <1>10
  <2>2. /\ \A k \in 0 .. n - 1 : At(t, k) = At(j, k)
        /\ \A k \in 1 .. n - 1 : Leads(t, k, S) <=> Leads(j, k, S)
    BY <1>10, <2>1, SameRecords
  <2> QED
    BY <1>5, <1>13, <2>1, <2>2
<1>15. Found(j) = n - 1
  BY <1>4
<1>16. /\ End(j).block = j.base.block + (n - 1) /\ IsPrefix(j.base.cells, End(j).cells)
       /\ Len(End(j).cells) = Len(j.base.cells) + (n - 1)
  BY <1>15, EndIs
<1>17. /\ d.block \in Nat /\ d.from \in Seq(Layouts) /\ d.to \in Seq(Layouts)
       /\ j.base.block \in Nat /\ j.base.cells \in Seq(Layouts)
  BY <1>1 DEF Records, States
<1>18. End(j).block = d.block - 1 /\ End(j).cells = d.from
  BY DEF Before
<1>19. d.block = j.base.block + n
  <2>1. d.block - 1 = j.base.block + (n - 1)
    BY <1>16, <1>18
  <2>2. n \in Nat /\ d.block \in Nat /\ j.base.block \in Nat
    BY <1>5, <1>17
  <2>3. \A a, b, c \in Nat : a - 1 = b + (c - 1) => a = b + c
    OBVIOUS
  <2> QED
    BY <2>1, <2>2, <2>3, Zenon
<1>20. d.from = At(t, n - 1).cells
  BY <1>14, <1>15, <1>18 DEF End
<1>21. IsPrefix(j.base.cells, d.to)
  BY <1>16, <1>17, <1>18, PrefixLonger
<1>30. Len(d.to) = Len(j.base.cells) + n
  <2>1. Len(j.base.cells) \in Nat
    BY <1>17, LenProperties
  <2> QED
    BY <1>5, <1>16, <1>18, <2>1
<1>22. Leads(t, n, S) /\ t.items[n] # Torn
  BY <1>7, <1>10, <1>11, <1>19, <1>20, <1>21, <1>30 DEF Leads
<1>23. \A k \in 1 .. n : Leads(t, k, S) /\ t.items[k] # Torn
  BY <1>5, <1>14, <1>22
<1>24. t \in [kind : {"whole"}, base : S, items : Seq(I)]
  BY <1>1, <1>7, <1>8
<1>25. Chained(t, S)
  BY <1>7, <1>10, <1>23, <1>24 DEF Chained
<1>26. End(t) = Result(d)
  BY <1>5, <1>7, <1>10, <1>12 DEF End, At
<1>27. Front(u) = f
  BY <1>5, <1>6, FrontAppend
<1>28. Append(f, Torn) = j.items
  BY <1>1, <1>2, <1>3, FrontAppend
<1>29. [t EXCEPT !.items = Append(Front(@), Torn)] = j
  <2>1. [t EXCEPT !.items = j.items] = j
    BY <1>1, <1>8
  <2> QED
    BY <1>10, <1>27, <1>28, <2>1
<1> QED
  BY <1>7, <1>9, <1>10, <1>12, <1>25, <1>26, <1>29

(* A journal whose torn end is cut off.                                    *)
LEMMA JournalCut ==
    ASSUME NEW S \in SUBSET States, NEW j, Chained(j, S), NEW t, t = Adopted(j)
    PROVE  /\ Chained(t, S) /\ t.base = j.base /\ End(t) = End(j)
           /\ Found(t) = Len(t.items) /\ Found(t) = Found(j)
<1> DEFINE I == Records \cup {Torn}
           n == Found(j)
<1>1. /\ j \in [kind : {"whole"}, base : S, items : Seq(I)]
      /\ j.items \in Seq(I) /\ Len(j.items) \in Nat /\ n \in 0 .. Len(j.items)
      /\ \A k \in 1 .. n : j.items[k] # Torn /\ Leads(j, k, S)
  BY FoundIs DEF Chained
<1> HIDE DEF n
<1>2. PICK u : u = SubSeq(j.items, 1, n)
  OBVIOUS
<1>3. t = [kind |-> "whole", base |-> j.base, items |-> u]
  BY <1>1, <1>2, ReplayFindsAll DEF Adopted, n
<1>4. \A k \in 1 .. n : j.items[k] \in I
  BY <1>1, ElementOfSeq
<1>5. /\ u \in Seq(I) /\ Len(u) = IF 1 <= n THEN n - 1 + 1 ELSE 0
      /\ \A k \in 1 .. n - 1 + 1 : u[k] = j.items[1 + k - 1]
  BY <1>1, <1>2, <1>4, SubSeqProperties
<1>6. Len(u) = n /\ \A k \in 1 .. n : u[k] = j.items[k]
  BY <1>1, <1>5
<1>7. /\ \A k \in 1 .. n : t.items[k] # Torn /\ Leads(t, k, S)
      /\ At(t, n) = At(j, n)
  <2>1. \A k \in 1 .. n : t.items[k] = j.items[k]
    BY <1>3, <1>6
  <2>2. /\ \A k \in 0 .. n : At(t, k) = At(j, k)
        /\ \A k \in 1 .. n : Leads(t, k, S) <=> Leads(j, k, S)
    <3>1. n \in Nat /\ t.base = j.base
      BY <1>1, <1>3
    <3> QED
      BY <2>1, <3>1, SameRecords
  <2> QED
    BY <1>1, <2>1, <2>2
<1>8. Chained(t, S)
  BY <1>1, <1>3, <1>5, <1>6, <1>7 DEF Chained
<1>9. Found(t) = n
  BY <1>1, <1>3, <1>6, <1>7, <1>8, FoundIs
<1>10. End(t) = End(j)
  BY <1>7, <1>9 DEF End, n
<1> QED
  BY <1>3, <1>6, <1>8, <1>9, <1>10 DEF n

(* A journal that a rotation has begun leads to its base.                  *)
LEMMA FreshJournal ==
    ASSUME NEW S \in SUBSET States, NEW s \in S
    PROVE  /\ Chained(Journal(s), S) /\ Found(Journal(s)) = 0 /\ End(Journal(s)) = s
           /\ Journal(s).base = s /\ Journal(s).kind = "whole" /\ Journal(s).items = <<>>
<1>1. PICK e : e = <<>>
  OBVIOUS
<1>2. e \in Seq(Records \cup {Torn}) /\ Len(e) = 0
  BY <1>1, EmptySeq
<1>3. Journal(s) = [kind |-> "whole", base |-> s, items |-> e]
  BY <1>1 DEF Journal
<1> HIDE DEF Journal
<1>4. Found(Journal(s)) = 0
  BY <1>1, <1>2, <1>3 DEF Found
<1> QED
  BY <1>1, <1>2, <1>3, <1>4 DEF Chained, End, At

(* A journal whose last record is damaged.                                 *)
LEMMA RecordTorn ==
    ASSUME NEW S \in SUBSET States, NEW j, Chained(j, S), j.items # <<>>
    PROVE  LET t == [j EXCEPT !.items = Append(Front(@), Torn)]
           IN  Chained(t, S) /\ t.base = j.base
<1> DEFINE I == Records \cup {Torn}
<1>1. /\ j \in [kind : {"whole"}, base : S, items : Seq(I)]
      /\ j.items \in Seq(I) /\ j.base \in S
  BY DEF Chained
<1>2. PICK f : f = Front(j.items)
  OBVIOUS
<1>3. PICK n : n = Len(j.items)
  OBVIOUS
<1>4. /\ n \in Nat \ {0} /\ f \in Seq(I) /\ Len(f) = n - 1
      /\ \A i \in 1 .. n - 1 : f[i] = j.items[i]
  BY <1>1, <1>2, <1>3, FrontOf
<1>5. PICK u : u = Append(f, Torn)
  OBVIOUS
<1>6. /\ u \in Seq(I) /\ Len(u) = n /\ u[n] = Torn
      /\ \A i \in 1 .. n - 1 : u[i] = j.items[i]
  BY <1>4, <1>5, AppendProperties
<1>7. PICK t : t = [kind |-> "whole", base |-> j.base, items |-> u]
  OBVIOUS
<1>8. [j EXCEPT !.items = Append(Front(@), Torn)] = t
  <2>1. [j EXCEPT !.items = u] = t
    BY <1>1, <1>7
  <2> QED
    BY <1>2, <1>5, <2>1, Zenon
<1>9. t.kind = "whole" /\ t.base = j.base /\ t.items = u
  BY <1>7
<1>10. \A k \in 1 .. n - 1 : Leads(j, k, S) /\ j.items[k] # Torn
  <2>1. \A k \in 1 .. n - 1 : k \in 1 .. n /\ k # n
    BY <1>4
  <2> QED
    BY <1>3, <2>1 DEF Chained
<1>11. \A k \in 1 .. n - 1 : t.items[k] # Torn /\ Leads(t, k, S)
  <2>1. n - 1 \in Nat /\ \A k \in 1 .. n - 1 : t.items[k] = j.items[k]
    BY <1>4, <1>6, <1>9
  <2>2. \A k \in 1 .. n - 1 : Leads(t, k, S) <=> Leads(j, k, S)
    BY <1>9, <2>1, SameRecords
  <2> QED
    BY <1>10, <2>1, <2>2
<1>12. t \in [kind : {"whole"}, base : S, items : Seq(I)]
  BY <1>1, <1>6, <1>7
<1>13. ASSUME NEW k \in 1 .. Len(t.items)
       PROVE  /\ t.items[k] # Torn => Leads(t, k, S)
              /\ t.items[k] = Torn => k = Len(t.items)
  <2>1. Len(t.items) = n /\ k \in 1 .. n /\ n \in Nat
    BY <1>4, <1>6, <1>9
  <2>2. CASE k = n
    BY <1>6, <1>9, <2>1, <2>2
  <2>3. CASE k # n
    <3>1. k \in 1 .. n - 1
      BY <2>1, <2>3
    <3> QED
      BY <1>11, <3>1
  <2> QED
    BY <2>2, <2>3
<1>14. Chained(t, S)
  BY <1>12, <1>13, SMTT(20) DEF Chained
<1> QED
  BY <1>8, <1>9, <1>14

(* Without its last record a journal leads to all but the last cell.       *)
LEMMA TornEnd ==
    ASSUME NEW S \in SUBSET States, NEW j, Chained(j, S), j.items # <<>>,
           Found(j) = Len(j.items), NEW c \in Seq(Layouts), IsPrefix(c, End(j).cells),
           Len(c) < Len(j.base.cells) + Len(j.items)
    PROVE  IsPrefix(c, End([j EXCEPT !.items = Append(Front(@), Torn)]).cells)
<1>1. PICK n : n = Len(j.items)
  OBVIOUS
<1>2. PICK t : t = [j EXCEPT !.items = Append(Front(@), Torn)]
  OBVIOUS
<1>3. /\ j \in [kind : {"whole"}, base : S, items : Seq(Records \cup {Torn})]
      /\ j.items \in Seq(Records \cup {Torn}) /\ j.base \in States
      /\ j.base.cells \in Seq(Layouts) /\ Len(j.base.cells) \in Nat
  BY LenProperties DEF Chained, States
<1>4. PICK f : f = Front(j.items)
  OBVIOUS
<1>5. /\ n \in Nat \ {0} /\ f \in Seq(Records \cup {Torn}) /\ Len(f) = n - 1
      /\ \A i \in 1 .. n - 1 : f[i] = j.items[i]
  BY <1>1, <1>3, <1>4, FrontOf
<1>6. PICK u : u = Append(f, Torn)
  OBVIOUS
<1>7. /\ u \in Seq(Records \cup {Torn}) /\ u # <<>> /\ Len(u) = n /\ u[n] = Torn
      /\ \A i \in 1 .. n - 1 : u[i] = j.items[i]
  BY <1>5, <1>6, AppendProperties
<1>8. t.items = u /\ t.base = j.base
  <2>1. t = [j EXCEPT !.items = u]
    BY <1>2, <1>4, <1>6, Zenon
  <2> QED
    BY <1>3, <2>1
<1>9. Found(t) = n - 1
  BY <1>5, <1>7, <1>8 DEF Found, Last
<1>10. At(t, n - 1) = At(j, n - 1)
  <2>1. n - 1 \in Nat /\ \A k \in 1 .. n - 1 : t.items[k] = j.items[k]
    BY <1>5, <1>7, <1>8
  <2>2. \A k \in 0 .. n - 1 : At(t, k) = At(j, k)
    BY <1>8, <2>1, SameRecords
  <2> QED
    BY <2>1, <2>2
<1>11. \A k \in 1 .. n : Leads(j, k, S)
  BY <1>1, FoundIs
<1>12. PICK e : e = At(j, n - 1).cells
  OBVIOUS
<1>13. /\ e \in Seq(Layouts) /\ IsPrefix(e, End(j).cells) /\ End(j).cells \in Seq(Layouts)
  <2>1. End(j) = Result(j.items[n])
    BY <1>1, <1>5 DEF End, At
  <2>2. Leads(j, n, S)
    BY <1>5, <1>11
  <2> QED
    BY <1>12, <2>1, <2>2 DEF Leads, Result, Records
<1>14. Len(e) = Len(j.base.cells) + (n - 1)
  <2>1. CASE n = 1
    BY <1>3, <1>12, <2>1 DEF At
  <2>2. CASE n # 1
    <3>1. n - 1 \in 1 .. n /\ n - 1 # 0
      BY <1>5, <2>2
    <3>2. Leads(j, n - 1, S)
      BY <1>11, <3>1
    <3> QED
      BY <1>12, <3>1, <3>2 DEF Leads, At, Result
  <2> QED
    BY <2>1, <2>2
<1>15. Len(c) <= Len(e)
  <2>1. Len(c) \in Nat
    BY LenProperties
  <2> QED
    BY <1>1, <1>3, <1>5, <1>14, <2>1
<1>16. IsPrefix(c, e)
  BY <1>13, <1>15, PrefixShorter
<1> QED
  BY <1>2, <1>9, <1>10, <1>12, <1>16 DEF End

(* Whatever a power cut leaves are a whole state file and a chain, or      *)
(* nothing.                                                                *)
LEMMA ImagesOK ==
    ASSUME FilesOK, NEW image \in Images
    PROVE  /\ image.state \in {disk.state, files.state} /\ image.journal \in JournalImages
           /\ StateOK(image.state, served) /\ JournalOK(image.journal, served)
<1>1. image.state \in {disk.state, files.state} /\ image.journal \in JournalImages
  BY DEF Images
<1>2. JournalOK(image.journal, served)
  <2>1. CASE image.journal \in {disk.journal, files.journal}
    BY <2>1 DEF FilesOK
  <2>2. CASE Unsynced /\ image.journal = [files.journal EXCEPT !.items = Append(Front(@), Torn)]
    <3>1. Chained(files.journal, served) /\ files.journal.items # <<>> /\ served \in SUBSET States
      BY <2>2 DEF Unsynced, FilesOK, JournalOK, NoFile
    <3> QED
      BY <2>2, <3>1, RecordTorn DEF JournalOK
  <2> QED
    BY <1>1, <2>1, <2>2 DEF JournalImages
<1> QED
  BY <1>1, <1>2 DEF FilesOK

-----------------------------------------------------------------------------
(* What the invariant says of the properties.                              *)

(* A missing, a torn and a whole file differ in their kind.                *)
LEMMA Kinds ==
    /\ NoFile.kind = "none" /\ Torn.kind = "torn"
    /\ \A s : Whole(s).kind = "whole" /\ Whole(s).of = s
BY DEF NoFile, Torn, Whole

(* A state file and its journal reach a state that was served, and no      *)
(* earlier than the file.                                                  *)
LEMMA ReachIs ==
    ASSUME NEW S \in SUBSET States, NEW s \in S, NEW j, JournalOK(j, S)
    PROVE  /\ Reach(s, j) \in S /\ IsPrefix(s.cells, Reach(s, j).cells)
           /\ Reach(s, j).cells \in Seq(Layouts)
<1>1. CASE j.kind = "whole" /\ j.base = s
  BY <1>1, EndIs DEF Reach, JournalOK, NoFile, States
<1>2. CASE ~(j.kind = "whole" /\ j.base = s)
  BY <1>2, PrefixSame DEF Reach, States
<1> QED
  BY <1>1, <1>2

(* The invariant holds what the four properties of the state file ask.     *)
LEMMA InvImplies ==
    ASSUME NEW p, Processes = {p}, FilesInv(p)
    PROVE  /\ StateFileIsWhole /\ RestoresToServed /\ NothingAcknowledgedLost /\ JournalKeepsUp
<1>1. FilesOK /\ served \in SUBSET States
  BY DEF FilesInv, FilesOK
<1>2. StateFileIsWhole
  <2>1. \A image \in Images : StateOK(image.state, served)
    BY <1>1, ImagesOK
  <2> QED
    BY <2>1, Kinds DEF StateFileIsWhole, StateOK
<1>3. ASSUME NEW image \in Images, image.state.kind = "whole"
      PROVE  /\ image.state.of \in served
             /\ Restored(image) = Reach(image.state.of, image.journal)
             /\ JournalOK(image.journal, served)
  <2>1. image.state.of \in served
    <3>1. StateOK(image.state, served)
      BY <1>1, ImagesOK
    <3> QED
      BY <1>3, <3>1, Kinds DEF StateOK
  <2>2. JournalOK(image.journal, served)
    BY <1>1, ImagesOK
  <2> QED
    BY <1>1, <2>1, <2>2, RestoredIs
<1>4. RestoresToServed
  BY <1>1, <1>3, ReachIs DEF RestoresToServed
<1>5. NothingAcknowledgedLost
  <2> SUFFICES ASSUME dirSyncs, NEW image \in Images
               PROVE  IsPrefix(kept.cells, Recovered(image))
    BY DEF NothingAcknowledgedLost
  <2>1. /\ image.state \in {disk.state, files.state} /\ image.journal \in JournalImages
        /\ StateOK(image.state, served)
    BY <1>1, ImagesOK
  <2>2. CASE image.state.kind = "whole"
    BY <1>3, <2>1, <2>2 DEF Recovered, FilesInv, AckedOK, Durable
  <2>3. CASE image.state.kind # "whole"
    <3>1. image.state = NoFile
      BY <2>1, <2>3, Kinds DEF StateOK
    <3>2. kept.cells = <<>>
      BY <2>1, <3>1 DEF FilesInv, AckedOK
    <3>3. Snapshot.cells \in Seq(Layouts) /\ Snapshot.cells = <<>>
      BY <1>1 DEF FilesOK, States, Snapshot
    <3> QED
      BY <2>3, <3>2, <3>3, PrefixSame DEF Recovered
  <2> QED
    BY <2>2, <2>3
<1>6. JournalKeepsUp
  <2> SUFFICES ASSUME LoopRuns(p), proc[p].journaling, saver[p] = Idle
               PROVE  Restored(files) \in {proc[p].head} \cup
                        {[block |-> d.block - 1, cells |-> d.from] : d \in {proc[p].pending} \ {NoDelta}}
    BY DEF JournalKeepsUp
  <2>1. /\ Chained(files.journal, served) /\ files.state = Whole(files.journal.base)
        /\ GoesOnFrom(p, End(files.journal))
    BY DEF FilesInv, JournalingOK, Idle
  <2>2. files.state.of = files.journal.base /\ files.journal.kind = "whole"
    BY <2>1 DEF Whole, Chained
  <2>3. Restored(files) = End(files.journal)
    BY <1>1, <2>1, <2>2, RestoredIs DEF JournalOK, Reach
  <2> QED
    BY <2>1, <2>3 DEF GoesOnFrom, LoopRuns, Before
<1> QED
  BY <1>2, <1>4, <1>5, <1>6

(* There are no files before the first start.                              *)
LEMMA InitInv ==
    ASSUME NEW p, Processes = {p}, FilesInit
    PROVE  FilesInv(p)
<1> USE DEF FilesInit
<1>1. PICK e : e = <<>>
  OBVIOUS
<1>2. e \in Seq(Layouts) /\ Snapshot = [block |-> 0, cells |-> e]
  BY <1>1, EmptySeq DEF Snapshot
<1>3. FilesOK
  BY <1>1, <1>2 DEF FilesOK, States, StateOK, JournalOK
<1>4. MemoryOK
  BY DEF MemoryOK, Memories, Down, Idle
<1>5. PendingOK(p) /\ SaverOK(p) /\ JournalingOK(p)
  BY DEF PendingOK, SaverOK, JournalingOK, Down, Idle
<1>6. AckedOK(p)
  BY <1>1 DEF AckedOK, Durable, NoFile, Down, Snapshot
<1> QED
  BY <1>3, <1>4, <1>5, <1>6 DEF FilesInv

-----------------------------------------------------------------------------
(* The blocks.                                                             *)

(* A block is applied while no save reads the cells; its record is due.    *)
LEMMA ApplyBlockInv ==
    ASSUME NEW p, Processes = {p}, FilesInv(p), BlockApplied(p)
    PROVE  FilesInv(p)'
<1> USE DEF FilesInv
<1>1. PICK l \in Layouts :
         LET d == Delta(proc[p].head, l)
             s == [block |-> d.block, cells |-> d.to]
         IN  proc' = [proc EXCEPT ![p].head = s, ![p].pending = d] /\ served' = served \cup {s}
  BY DEF BlockApplied, Serving
<1>2. PICK h : h = proc[p].head
  OBVIOUS
<1>3. PICK d : d = Delta(h, l)
  OBVIOUS
<1>4. /\ h \in served /\ h \in States /\ h.block \in Nat /\ h.cells \in Seq(Layouts)
      /\ h = [block |-> h.block, cells |-> h.cells]
  BY <1>2 DEF MemoryOK, Memories, FilesOK, States
<1>5. d.to \in Seq(Layouts) /\ IsPrefix(d.from, d.to) /\ Len(d.to) = Len(d.from) + 1
  BY <1>3, <1>4, PrefixAppended DEF Delta
<1>6. d \in Records /\ Before(d) = h /\ d.block = h.block + 1 /\ d.from = h.cells /\ d # NoDelta
  BY <1>3, <1>4, <1>5 DEF Delta, Records, Before, NoDelta
<1>7. Result(d) \in States
  BY <1>5, <1>6 DEF Result, Records, States
<1>8. /\ proc' = [proc EXCEPT ![p].head = Result(d), ![p].pending = d]
      /\ served' = served \cup {Result(d)}
  BY <1>1, <1>2, <1>3 DEF Result
<1>9. /\ proc[p].up \in {"up", "exiting"} /\ proc[p].following /\ saver[p].by # "loop"
      /\ proc[p].pending = NoDelta /\ saver[p].step \notin {"staging", "staged", "renamed"}
      /\ UNCHANGED <<files, disk, dirSyncs, saver, lock, starts, kept>>
  BY DEF BlockApplied, LoopRuns, ReadLocked
<1>10. /\ proc'[p].up = proc[p].up /\ proc'[p].following = proc[p].following
       /\ proc'[p].head = Result(d) /\ proc'[p].pending = d
       /\ proc'[p].journaling = proc[p].journaling /\ proc'[p].last = proc[p].last
       /\ proc'[p].broken = proc[p].broken
  BY <1>8 DEF MemoryOK, Memories
<1>11. FilesOK'
  BY <1>7, <1>8, <1>9, MoreServed DEF FilesOK
<1>12. MemoryOK'
  BY <1>6, <1>8, <1>9 DEF MemoryOK, Memories
<1>13. PendingOK(p)'
  BY <1>5, <1>9, <1>10 DEF PendingOK
<1>14. \A s : proc[p].head = s => GoesOnFrom(p, s)'
  BY <1>2, <1>6, <1>10 DEF GoesOnFrom
<1>15. SaverOK(p)'
  BY <1>9, <1>10, <1>14 DEF SaverOK, GoesOnFrom
<1>16. JournalingOK(p)'
  BY <1>8, <1>9, <1>10, <1>14, MoreServed DEF JournalingOK, GoesOnFrom, SaverOK
<1>17. AckedOK(p)'
  <2>1. JournalImages' = JournalImages
    BY <1>9 DEF JournalImages, Unsynced, SameJournal
  <2>2. proc[p].up # "down"
    BY <1>9
  <2>3. dirSyncs => IsPrefix(kept.cells, h.cells) /\ kept.cells \in Seq(Layouts)
    BY <1>2, <2>2 DEF AckedOK, FilesOK, States
  <2>4. dirSyncs => IsPrefix(kept.cells, d.to)
    BY <1>4, <1>5, <1>6, <2>3, PrefixLonger
  <2> QED
    BY <1>9, <1>10, <2>1, <2>4 DEF AckedOK, Durable, Result
<1> QED
  BY <1>11, <1>12, <1>13, <1>15, <1>16, <1>17

(* A block rejected half-applied ends the loop, so nothing is appended     *)
(* after it.                                                               *)
LEMMA RejectBlockInv ==
    ASSUME NEW p, Processes = {p}, FilesInv(p), BlockRejected(p)
    PROVE  FilesInv(p)'
<1> USE DEF FilesInv
<1>1. PICK l \in Layouts :
         LET s == [proc[p].head EXCEPT !.cells = Append(@, l)]
         IN  proc' = [proc EXCEPT ![p].head = s, ![p].following = FALSE] /\ served' = served \cup {s}
  BY DEF BlockRejected, Serving
<1>2. PICK h : h = proc[p].head
  OBVIOUS
<1>3. PICK c : c = Append(h.cells, l)
  OBVIOUS
<1>4. /\ h \in served /\ h \in States /\ h.block \in Nat /\ h.cells \in Seq(Layouts)
      /\ h = [block |-> h.block, cells |-> h.cells]
  BY <1>2 DEF MemoryOK, Memories, FilesOK, States
<1>5. c \in Seq(Layouts) /\ IsPrefix(h.cells, c)
  BY <1>3, <1>4, PrefixAppended
<1>6. PICK s : s = [h EXCEPT !.cells = c]
  OBVIOUS
<1>7. s \in States /\ s.cells = c
  BY <1>4, <1>5, <1>6 DEF States
<1>8. proc' = [proc EXCEPT ![p].head = s, ![p].following = FALSE] /\ served' = served \cup {s}
  BY <1>1, <1>2, <1>3, <1>6, Zenon
<1>9. /\ proc[p].up \in {"up", "exiting"} /\ proc[p].following /\ saver[p].by # "loop"
      /\ proc[p].pending = NoDelta /\ saver[p].step \notin {"staging", "staged", "renamed"}
      /\ UNCHANGED <<files, disk, dirSyncs, saver, lock, starts, kept>>
  BY DEF BlockRejected, LoopRuns, ReadLocked
<1>10. /\ proc'[p].up = proc[p].up /\ ~proc'[p].following
       /\ proc'[p].head = s /\ proc'[p].pending = NoDelta
       /\ proc'[p].journaling = proc[p].journaling /\ proc'[p].last = proc[p].last
       /\ proc'[p].broken = proc[p].broken
  BY <1>8, <1>9 DEF MemoryOK, Memories
<1>11. FilesOK'
  BY <1>7, <1>8, <1>9, MoreServed DEF FilesOK
<1>12. MemoryOK'
  BY <1>8, <1>9 DEF MemoryOK, Memories
<1>13. PendingOK(p)'
  BY <1>9, <1>10 DEF PendingOK
<1>14. SaverOK(p)'
  BY <1>9, <1>10 DEF SaverOK, GoesOnFrom
<1>15. JournalingOK(p)'
  BY <1>8, <1>9, <1>10, MoreServed DEF JournalingOK, GoesOnFrom, SaverOK
<1>16. AckedOK(p)'
  <2>1. JournalImages' = JournalImages
    BY <1>9 DEF JournalImages, Unsynced, SameJournal
  <2>2. proc[p].up # "down"
    BY <1>9
  <2>3. dirSyncs => IsPrefix(kept.cells, h.cells) /\ kept.cells \in Seq(Layouts)
    BY <1>2, <2>2 DEF AckedOK, FilesOK, States
  <2>4. dirSyncs => IsPrefix(kept.cells, c)
    BY <1>4, <1>5, <2>3, PrefixLonger
  <2> QED
    BY <1>7, <1>9, <1>10, <2>1, <2>4 DEF AckedOK, Durable
<1> QED
  BY <1>11, <1>12, <1>13, <1>14, <1>15, <1>16

-----------------------------------------------------------------------------
(* The journal.                                                            *)

(* A record that is skipped is in the base of the journal already, or      *)
(* journaling is off.                                                      *)
LEMMA AppendSkippedInv ==
    ASSUME NEW p, Processes = {p}, FilesInv(p), AppendSkipped(p)
    PROVE  FilesInv(p)'
<1> USE DEF FilesInv
<1>1. /\ proc' = [proc EXCEPT ![p].pending = NoDelta]
      /\ saver[p] = Idle /\ saver[p].step = "idle" /\ proc[p].up \in {"up", "exiting"}
      /\ proc[p].following /\ proc[p].pending # NoDelta
      /\ UNCHANGED <<files, disk, dirSyncs, saver, lock, starts, served, kept>>
  BY DEF AppendSkipped, LoopRuns, Idle
<1>2. /\ proc'[p].up = proc[p].up /\ proc'[p].following = proc[p].following
      /\ proc'[p].head = proc[p].head /\ proc'[p].pending = NoDelta
      /\ proc'[p].journaling = proc[p].journaling /\ proc'[p].last = proc[p].last
      /\ proc'[p].broken = proc[p].broken
  BY <1>1 DEF MemoryOK, Memories
<1>3. FilesOK'
  BY <1>1 DEF FilesOK
<1>4. MemoryOK'
  BY <1>1 DEF MemoryOK, Memories
<1>5. PendingOK(p)' /\ SaverOK(p)'
  BY <1>1, <1>2 DEF PendingOK, SaverOK, GoesOnFrom
<1>6. JournalingOK(p)'
  <2> SUFFICES ASSUME proc[p].journaling
               PROVE  proc[p].head = End(files.journal)
    BY <1>1, <1>2 DEF JournalingOK, GoesOnFrom
  <2>1. /\ Chained(files.journal, served) /\ Found(files.journal) = Len(files.journal.items)
        /\ proc[p].last = files.journal.base.block + Len(files.journal.items)
        /\ GoesOnFrom(p, End(files.journal))
    BY <1>1 DEF JournalingOK
  <2>2. End(files.journal).block = proc[p].last
    BY <2>1, EndIs DEF FilesOK
  <2>3. ~(proc[p].pending.block = proc[p].last + 1)
    BY <1>1 DEF AppendSkipped, Extends, SaverOK
  <2>4. proc[p].pending.block \in Nat /\ proc[p].last \in Nat
    BY <1>1 DEF MemoryOK, Memories, Records
  <2>5. ~(End(files.journal) = Before(proc[p].pending))
    BY <2>2, <2>3, <2>4 DEF Before
  <2> QED
    BY <1>1, <2>1, <2>5 DEF GoesOnFrom
<1>7. AckedOK(p)'
  <2>1. JournalImages' = JournalImages
    BY <1>1 DEF JournalImages, Unsynced, SameJournal
  <2> QED
    BY <1>1, <1>2, <2>1 DEF AckedOK, Durable
<1> QED
  BY <1>3, <1>4, <1>5, <1>6, <1>7

(* The record that begins is the next one after the journal.               *)
LEMMA AppendBeginsInv ==
    ASSUME NEW p, Processes = {p}, FilesInv(p), AppendBegins(p)
    PROVE  FilesInv(p)'
<1> USE DEF FilesInv
<1>1. /\ saver' = [saver EXCEPT ![p] = [Idle EXCEPT !.step = "appending", !.by = "loop"]]
      /\ files' = [files EXCEPT !.journal.items = Append(@, Torn)]
      /\ saver[p] = Idle /\ saver[p].step = "idle" /\ proc[p].up \in {"up", "exiting"}
      /\ proc[p].following /\ proc[p].pending # NoDelta /\ proc[p].journaling /\ ~proc[p].broken
      /\ proc[p].pending.block = proc[p].last + 1
      /\ UNCHANGED <<disk, dirSyncs, proc, lock, starts, served, kept>>
  BY DEF AppendBegins, LoopRuns, Idle, Extends
<1>2. PICK j : j = files.journal
  OBVIOUS
<1>3. PICK t : t = [j EXCEPT !.items = Append(@, Torn)]
  OBVIOUS
<1>4. files' = [files EXCEPT !.journal = t]
  BY <1>1, <1>2, <1>3
<1>5. files'.state = files.state /\ files'.tmp = files.tmp /\ files'.journal = t
  BY <1>4 DEF FilesOK
<1>6. /\ Chained(j, served) /\ Found(j) = Len(j.items)
      /\ proc[p].last = j.base.block + Len(j.items)
      /\ GoesOnFrom(p, End(j)) /\ files.state = Whole(j.base)
  BY <1>1, <1>2 DEF JournalingOK
<1>7. /\ Chained(t, served) /\ t.base = j.base /\ End(t) = End(j)
      /\ Found(t) = Len(t.items) - 1 /\ t.items # <<>> /\ Last(t.items) = Torn
  BY <1>3, <1>6, RecordBegun DEF FilesOK
<1>8. saver'[p].step = "appending" /\ saver'[p].by = "loop" /\ saver'[p].of = Snapshot
  BY <1>1 DEF MemoryOK, Memories, Idle
<1>9. FilesOK'
  BY <1>1, <1>4, <1>5, <1>7 DEF FilesOK, JournalOK
<1>10. MemoryOK'
  BY <1>1 DEF MemoryOK, Memories, Idle, FilesOK
<1>11. PendingOK(p)'
  BY <1>1 DEF PendingOK
<1>12. SaverOK(p)'
  BY <1>1, <1>8 DEF SaverOK, GoesOnFrom
<1>13. End(t) = Before(proc[p].pending)
  <2>1. End(j).block = proc[p].last
    BY <1>6, EndIs DEF FilesOK
  <2>2. proc[p].pending.block \in Nat /\ proc[p].last \in Nat
    BY <1>1 DEF MemoryOK, Memories, Records
  <2>3. proc[p].head.block = proc[p].pending.block
    BY <1>1 DEF PendingOK, Result
  <2>4. proc[p].head # End(j)
    BY <1>1, <2>1, <2>2, <2>3
  <2> QED
    BY <1>1, <1>6, <1>7, <2>4 DEF GoesOnFrom
<1>14. JournalingOK(p)'
  BY <1>1, <1>5, <1>6, <1>7, <1>8, <1>13 DEF JournalingOK
<1>15. AckedOK(p)'
  <2>1. t = [t EXCEPT !.items = Append(Front(@), Torn)]
    <3>1. t \in [kind : {"whole"}, base : served, items : Seq(Records \cup {Torn})]
      BY <1>7 DEF Chained
    <3>2. Append(Front(t.items), Torn) = t.items
      BY <1>7, <3>1, FrontAppend
    <3> QED
      BY <3>1, <3>2
  <2>2. \A i \in JournalImages' : i \in {disk.journal, t}
    BY <1>1, <1>5, <2>1 DEF JournalImages
  <2>3. \A x : Reach(x, t) = Reach(x, j)
    BY <1>6, <1>7 DEF Reach, Chained
  <2>4. disk.journal \in JournalImages /\ j \in JournalImages
    BY <1>2 DEF JournalImages
  <2>5. dirSyncs => \A f \in {disk.state, files.state} :
                      Durable(kept, f, disk.journal) /\ Durable(kept, f, t)
    BY <2>3, <2>4 DEF AckedOK, Durable
  <2> QED
    BY <1>1, <1>5, <2>2, <2>5 DEF AckedOK
<1> QED
  BY <1>9, <1>10, <1>11, <1>12, <1>14, <1>15

(* The write of a record completes it.                                     *)
LEMMA AppendWrittenInv ==
    ASSUME NEW p, Processes = {p}, FilesInv(p), AppendWritten(p)
    PROVE  FilesInv(p)'
<1> USE DEF FilesInv
<1>1. /\ saver[p].step = "appending" /\ saver' = [saver EXCEPT ![p].step = "written"]
      /\ files' = [files EXCEPT !.journal.items =
                     IF @ # <<>> /\ Last(@) = Torn THEN Append(Front(@), proc[p].pending) ELSE Append(@, Torn)]
      /\ UNCHANGED <<disk, dirSyncs, proc, lock, starts, served, kept>>
  BY DEF AppendWritten
<1>2. PICK j : j = files.journal
  OBVIOUS
<1>3. PICK d : d = proc[p].pending
  OBVIOUS
<1>4. /\ Chained(j, served) /\ Found(j) = Len(j.items) - 1 /\ End(j) = Before(d)
      /\ files.state = Whole(j.base) /\ proc[p].journaling
  BY <1>1, <1>2, <1>3 DEF JournalingOK, SaverOK
<1>5. /\ d \in Records /\ IsPrefix(d.from, d.to) /\ Len(d.to) = Len(d.from) + 1
      /\ Result(d) \in served /\ proc[p].head = Result(d) /\ proc[p].following /\ d # NoDelta
  BY <1>1, <1>3 DEF SaverOK, PendingOK, MemoryOK, Memories
<1>6. served \in SUBSET States
  BY DEF FilesOK
<1>7. PICK t :
        /\ t = [j EXCEPT !.items = Append(Front(@), d)]
        /\ Chained(t, served) /\ t.base = j.base /\ End(t) = Result(d)
        /\ Found(t) = Len(t.items) /\ t.items # <<>>
        /\ [t EXCEPT !.items = Append(Front(@), Torn)] = j
  BY <1>4, <1>5, <1>6, RecordWritten
<1>8. j.items # <<>> /\ Last(j.items) = Torn
  <2>1. Len(j.items) \in Nat
    BY <1>4, FoundIs
  <2> QED
    BY <1>4, <2>1 DEF Found
<1>9. files' = [files EXCEPT !.journal = t]
  <2>1. files' = [files EXCEPT !.journal.items = Append(Front(@), d)]
    BY <1>1, <1>2, <1>3, <1>8, Zenon
  <2> QED
    BY <1>2, <1>7, <2>1, Zenon
<1>10. files'.state = files.state /\ files'.tmp = files.tmp /\ files'.journal = t
  BY <1>9 DEF FilesOK
<1>11. saver'[p].step = "written" /\ saver'[p].by = saver[p].by /\ saver'[p].of = saver[p].of
  BY <1>1 DEF MemoryOK, Memories
<1>12. FilesOK'
  BY <1>1, <1>7, <1>9, <1>10 DEF FilesOK, JournalOK
<1>13. MemoryOK'
  BY <1>1 DEF MemoryOK, Memories
<1>14. PendingOK(p)'
  BY <1>1 DEF PendingOK
<1>15. SaverOK(p)'
  BY <1>1, <1>11 DEF SaverOK, GoesOnFrom, Idle
<1>16. JournalingOK(p)'
  <2>1. Chained(t, served) /\ t.base = j.base /\ End(t) = Result(d) /\ Found(t) = Len(t.items)
    BY <1>7
  <2>2. proc' = proc /\ disk' = disk /\ dirSyncs' = dirSyncs /\ served' = served
    BY <1>1
  <2> QED
    BY <1>3, <1>4, <1>10, <1>11, <2>1, <2>2 DEF JournalingOK
<1>17. AckedOK(p)'
  <2>1. \A i \in JournalImages' : i \in {disk.journal, j, t}
    BY <1>1, <1>7, <1>10 DEF JournalImages
  <2>2. disk.journal \in JournalImages /\ j \in JournalImages
    BY <1>2 DEF JournalImages
  <2>3. \A x : Reach(x, t) = IF x = j.base THEN Result(d) ELSE Reach(x, j)
    BY <1>4, <1>7 DEF Reach, Chained
  <2>4. dirSyncs => IsPrefix(kept.cells, proc[p].head.cells)
    BY <1>1 DEF AckedOK, SaverOK, Idle
  <2>5. dirSyncs => \A f \in {disk.state, files.state} : Durable(kept, f, t)
    BY <1>5, <2>2, <2>3, <2>4 DEF AckedOK, Durable
  <2> QED
    BY <1>1, <1>10, <2>1, <2>2, <2>5 DEF AckedOK
<1> QED
  BY <1>12, <1>13, <1>14, <1>15, <1>16, <1>17

(* append_delta returns once the record is durable, and only then is it    *)
(* reported.                                                               *)
LEMMA AppendSyncedInv ==
    ASSUME NEW p, Processes = {p}, FilesInv(p), AppendSynced(p)
    PROVE  FilesInv(p)'
<1> USE DEF FilesInv
<1>1. /\ saver[p].step = "written" /\ saver' = [saver EXCEPT ![p] = Idle]
      /\ disk' = IF SameJournal THEN [disk EXCEPT !.journal = files.journal] ELSE disk
      /\ proc' = [proc EXCEPT ![p].last = proc[p].pending.block, ![p].pending = NoDelta]
      /\ kept' = IF SameJournal /\ disk.state = files.state THEN Result(proc[p].pending) ELSE kept
      /\ UNCHANGED <<files, dirSyncs, lock, starts, served>>
  BY DEF AppendSynced, Result
<1>2. PICK j : j = files.journal
  OBVIOUS
<1>3. PICK d : d = proc[p].pending
  OBVIOUS
<1>4. /\ Chained(j, served) /\ Found(j) = Len(j.items) /\ End(j) = Result(d)
      /\ files.state = Whole(j.base) /\ proc[p].journaling /\ ~proc[p].broken
  BY <1>1, <1>2, <1>3 DEF JournalingOK, SaverOK
<1>5. /\ d \in Records /\ Result(d) \in served /\ Result(d) \in States /\ d.block \in Nat
      /\ proc[p].head = Result(d) /\ proc[p].following /\ d # NoDelta
  BY <1>1, <1>3 DEF SaverOK, PendingOK, MemoryOK, Memories, FilesOK, Records
<1>6. /\ proc'[p].up = proc[p].up /\ proc'[p].following = proc[p].following
      /\ proc'[p].head = proc[p].head /\ proc'[p].pending = NoDelta
      /\ proc'[p].journaling = proc[p].journaling /\ proc'[p].last = d.block
      /\ proc'[p].broken = proc[p].broken
      /\ saver'[p] = Idle /\ saver'[p].step = "idle" /\ proc[p].up # "down"
      /\ proc[p].up # "starting"
  BY <1>1, <1>3, <1>5 DEF MemoryOK, Memories, Idle, SaverOK, PendingOK
<1>7. /\ disk'.state = disk.state
      /\ disk'.journal = IF SameJournal THEN j ELSE disk.journal
      /\ disk' = [state |-> disk'.state, journal |-> disk'.journal]
  BY <1>1, <1>2 DEF FilesOK
<1>8. FilesOK'
  BY <1>1, <1>2, <1>3, <1>5, <1>7 DEF FilesOK
<1>9. MemoryOK'
  BY <1>1, <1>3, <1>5 DEF MemoryOK, Memories, Idle, FilesOK
<1>10. PendingOK(p)' /\ SaverOK(p)'
  BY <1>1, <1>4, <1>6 DEF PendingOK, SaverOK, GoesOnFrom
<1>11. JournalingOK(p)'
  <2>1. d.block = j.base.block + Len(j.items)
    <3>1. End(j).block = j.base.block + Found(j)
      BY <1>4, EndIs DEF FilesOK
    <3> QED
      BY <1>4, <3>1 DEF Result
  <2>2. GoesOnFrom(p, End(j))'
    BY <1>1, <1>2, <1>4, <1>5, <1>6 DEF GoesOnFrom
  <2>3. j.kind = "whole"
    BY <1>4 DEF Chained
  <2> QED
    BY <1>1, <1>2, <1>4, <1>6, <1>7, <2>1, <2>2, <2>3 DEF JournalingOK
<1>12. AckedOK(p)'
  <2> SUFFICES ASSUME dirSyncs PROVE AckedOK(p)'
    BY <1>1 DEF AckedOK
  <2>1. files'.journal = j /\ files'.state = files.state /\ dirSyncs' = dirSyncs
    BY <1>1, <1>2
  <2>2. j.kind = "whole" /\ Len(j.items) \in Nat /\ j \in JournalImages
    BY <1>2, <1>4, FoundIs DEF Chained, JournalImages
  <2>3. IsPrefix(kept.cells, proc[p].head.cells)
    BY <1>6 DEF AckedOK
  <2>4. CASE ~SameJournal
    <3>1. disk' = disk /\ files' = files /\ kept' = kept
      BY <1>1, <2>4
    <3>2. JournalImages' = JournalImages
      BY <3>1 DEF JournalImages, Unsynced, SameJournal
    <3> QED
      BY <1>6, <2>3, <3>1, <3>2 DEF AckedOK, Durable
  <2>5. CASE SameJournal
    <3>1. \A i \in JournalImages' : i = j
      BY <1>7, <2>1, <2>2, <2>5 DEF JournalImages, Unsynced, SameJournal
    <3>2. CASE disk.state = files.state
      <4>1. Durable(Result(d), files.state, j)
        <5>1. Reach(j.base, j) = Result(d)
          BY <1>4, <2>2 DEF Reach
        <5>2. IsPrefix(Result(d).cells, Result(d).cells)
          BY <1>5, PrefixSame DEF States
        <5> QED
          BY <1>4, <5>1, <5>2, Kinds DEF Durable
      <4>2. files.state # NoFile
        BY <1>4, Kinds
      <4>3. IsPrefix(Result(d).cells, proc[p].head.cells)
        BY <1>5, PrefixSame DEF States
      <4>4. kept' = Result(d) /\ disk'.state = files.state
        BY <1>1, <1>3, <1>7, <2>5, <3>2
      <4> QED
        BY <1>6, <2>1, <3>1, <4>1, <4>2, <4>3, <4>4 DEF AckedOK
    <3>3. CASE disk.state # files.state
      <4>1. kept' = kept /\ disk'.state = disk.state
        BY <1>1, <1>7, <3>3
      <4> QED
        BY <1>6, <2>1, <2>2, <2>3, <3>1, <4>1 DEF AckedOK, Durable
    <3> QED
      BY <3>2, <3>3
  <2> QED
    BY <2>4, <2>5
<1> QED
  BY <1>8, <1>9, <1>10, <1>11, <1>12

(* After a failed append nothing more is appended.                         *)
LEMMA AppendFailsInv ==
    ASSUME NEW p, Processes = {p}, FilesInv(p), AppendFails(p)
    PROVE  FilesInv(p)'
<1> USE DEF FilesInv
<1>1. /\ saver[p].step \in {"appending", "written"} /\ saver' = [saver EXCEPT ![p] = Idle]
      /\ proc' = [proc EXCEPT ![p].pending = NoDelta, ![p].journaling = FALSE, ![p].broken = TRUE]
      /\ UNCHANGED <<files, disk, dirSyncs, lock, starts, served, kept>>
  BY DEF AppendFails
<1>2. /\ proc'[p].up = proc[p].up /\ proc'[p].following = proc[p].following
      /\ proc'[p].head = proc[p].head /\ proc'[p].pending = NoDelta
      /\ ~proc'[p].journaling /\ proc'[p].broken
      /\ saver'[p] = Idle /\ saver'[p].step = "idle" /\ proc[p].up # "down"
  BY <1>1 DEF MemoryOK, Memories, Idle, SaverOK
<1>3. FilesOK'
  BY <1>1 DEF FilesOK
<1>4. MemoryOK'
  <2>1. \A r \in Memories :
          [r EXCEPT !.pending = NoDelta, !.journaling = FALSE, !.broken = TRUE] \in Memories
    BY DEF Memories
  <2>2. PICK r : r = [proc[p] EXCEPT !.pending = NoDelta, !.journaling = FALSE, !.broken = TRUE]
    OBVIOUS
  <2>3. r \in Memories
    <3>1. proc[p] \in Memories
      BY DEF MemoryOK
    <3> QED
      BY <2>1, <2>2, <3>1, Zenon
  <2>4. proc' = [proc EXCEPT ![p] = r]
    BY <1>1, <2>2 DEF MemoryOK
  <2>5. proc' \in [Processes -> Memories]
    BY <2>3, <2>4 DEF MemoryOK
  <2>6. Memories' = Memories
    BY <1>1 DEF Memories
  <2> QED
    BY <1>1, <2>5, <2>6 DEF MemoryOK, Idle, FilesOK
<1>5. PendingOK(p)' /\ SaverOK(p)' /\ JournalingOK(p)'
  BY <1>1, <1>2 DEF PendingOK, SaverOK, JournalingOK
<1>6. AckedOK(p)'
  <2>1. JournalImages' = JournalImages
    BY <1>1 DEF JournalImages, Unsynced, SameJournal
  <2> QED
    BY <1>1, <1>2, <2>1 DEF AckedOK, Durable
<1> QED
  BY <1>3, <1>4, <1>5, <1>6

-----------------------------------------------------------------------------
(* The state file.                                                         *)

(* A save writes the staging file and nothing else.                        *)
LEMMA SaveBeginsInv ==
    ASSUME NEW p, Processes = {p}, FilesInv(p), NEW by \in {"loop", "shutdown"}, SaveBegins(p, by),
           proc[p].up # "down",
           UNCHANGED <<disk, dirSyncs, proc, lock, starts, served, kept>>
    PROVE  FilesInv(p)'
<1> USE DEF FilesInv
<1>1. /\ saver[p] = Idle /\ saver[p].step = "idle"
      /\ saver' = [saver EXCEPT ![p] = [step |-> "staging", by |-> by, of |-> proc[p].head]]
      /\ files' = [files EXCEPT !.tmp = Torn]
  BY DEF SaveBegins, Idle
<1>2. files'.state = files.state /\ files'.tmp = Torn /\ files'.journal = files.journal
  BY <1>1 DEF FilesOK
<1>3. saver'[p].step = "staging" /\ saver'[p].by = by /\ saver'[p].of = proc[p].head
  BY <1>1 DEF MemoryOK
<1>4. FilesOK'
  BY <1>1, <1>2 DEF FilesOK
<1>5. MemoryOK'
  <2>1. proc[p].head \in served
    BY DEF MemoryOK, Memories
  <2>2. Memories' = Memories
    BY DEF Memories
  <2> QED
    BY <1>1, <2>1, <2>2 DEF MemoryOK
<1>6. PendingOK(p)'
  BY DEF PendingOK
<1>7. SaverOK(p)'
  BY <1>1, <1>2, <1>3 DEF SaverOK, GoesOnFrom
<1>8. JournalingOK(p)'
  BY <1>1, <1>2, <1>3 DEF JournalingOK, GoesOnFrom
<1>9. AckedOK(p)'
  <2>1. JournalImages' = JournalImages
    BY <1>2 DEF JournalImages, Unsynced, SameJournal
  <2> QED
    BY <1>2, <2>1 DEF AckedOK, Durable
<1> QED
  BY <1>4, <1>5, <1>6, <1>7, <1>8, <1>9

(* The staging file is whole before it is renamed, as nobody else writes   *)
(* it.                                                                     *)
LEMMA SaveStagedInv ==
    ASSUME NEW p, Processes = {p}, FilesInv(p), SaveStaged(p)
    PROVE  FilesInv(p)'
<1> USE DEF FilesInv
<1>1. /\ saver[p].step = "staging" /\ saver' = [saver EXCEPT ![p].step = "staged"]
      /\ files' = [files EXCEPT !.tmp = Whole(saver[p].of)]
      /\ UNCHANGED <<disk, dirSyncs, proc, lock, starts, served, kept>>
  BY DEF SaveStaged, SaverOK
<1>2. /\ files'.state = files.state /\ files'.tmp = Whole(saver[p].of)
      /\ files'.journal = files.journal
  BY <1>1 DEF FilesOK
<1>3. saver'[p].step = "staged" /\ saver'[p].by = saver[p].by /\ saver'[p].of = saver[p].of
  BY <1>1 DEF MemoryOK
<1>4. FilesOK'
  BY <1>1, <1>2 DEF FilesOK
<1>5. MemoryOK'
  <2>1. Memories' = Memories
    BY <1>1 DEF Memories
  <2> QED
    BY <1>1, <2>1 DEF MemoryOK
<1>6. PendingOK(p)'
  BY <1>1 DEF PendingOK
<1>7. SaverOK(p)'
  BY <1>1, <1>2, <1>3 DEF SaverOK, GoesOnFrom, Idle
<1>8. JournalingOK(p)'
  BY <1>1, <1>2, <1>3 DEF JournalingOK, GoesOnFrom
<1>9. AckedOK(p)'
  <2>1. JournalImages' = JournalImages
    BY <1>1, <1>2 DEF JournalImages, Unsynced, SameJournal
  <2> QED
    BY <1>1, <1>2, <2>1 DEF AckedOK, Durable
<1> QED
  BY <1>4, <1>5, <1>6, <1>7, <1>8, <1>9

(* The rename puts a state behind the old journal, which then names another*)
(* base.                                                                   *)
LEMMA SaveRenamedInv ==
    ASSUME NEW p, Processes = {p}, FilesInv(p), SaveRenamed(p)
    PROVE  FilesInv(p)'
<1> USE DEF FilesInv
<1>1. /\ saver[p].step = "staged" /\ saver' = [saver EXCEPT ![p].step = "renamed"]
      /\ files' = [files EXCEPT !.state = files.tmp, !.tmp = NoFile]
      /\ files.tmp = Whole(saver[p].of) /\ proc[p].head = saver[p].of /\ proc[p].up # "down"
      /\ UNCHANGED <<disk, dirSyncs, proc, lock, starts, served, kept>>
  BY DEF SaveRenamed, SaverOK, Idle
<1>2. /\ files'.state = Whole(saver[p].of) /\ files'.tmp = NoFile
      /\ files'.journal = files.journal
      /\ files' = [state |-> files'.state, tmp |-> files'.tmp, journal |-> files'.journal]
  BY <1>1 DEF FilesOK
<1>3. saver'[p].step = "renamed" /\ saver'[p].by = saver[p].by /\ saver'[p].of = saver[p].of
  BY <1>1 DEF MemoryOK
<1>4. saver[p].of \in served /\ saver[p].of \in States
  BY DEF MemoryOK, FilesOK
<1>5. FilesOK'
  BY <1>1, <1>2, <1>4 DEF FilesOK, StateOK
<1>6. MemoryOK'
  <2>1. Memories' = Memories
    BY <1>1 DEF Memories
  <2> QED
    BY <1>1, <2>1 DEF MemoryOK
<1>7. PendingOK(p)'
  BY <1>1 DEF PendingOK
<1>8. SaverOK(p)'
  BY <1>1, <1>2, <1>3 DEF SaverOK, GoesOnFrom, Idle
<1>9. JournalingOK(p)'
  BY <1>3 DEF JournalingOK
<1>10. AckedOK(p)'
  <2> SUFFICES ASSUME dirSyncs PROVE AckedOK(p)'
    BY <1>1 DEF AckedOK
  <2>1. JournalImages' = JournalImages
    BY <1>1, <1>2 DEF JournalImages, Unsynced, SameJournal
  <2>2. IsPrefix(kept.cells, saver[p].of.cells) /\ kept.cells \in Seq(Layouts)
    BY <1>1 DEF AckedOK, FilesOK, States
  <2>3. ASSUME NEW j \in JournalImages PROVE Durable(kept, Whole(saver[p].of), j)
    <3>1. JournalOK(j, served)
      <4>1. [state |-> files.state, journal |-> j] \in Images
        BY DEF Images
      <4> QED
        BY <4>1, ImagesOK
    <3>2. IsPrefix(saver[p].of.cells, Reach(saver[p].of, j).cells) /\ Reach(saver[p].of, j).cells \in Seq(Layouts)
      BY <1>4, <3>1, ReachIs DEF FilesOK
    <3>3. IsPrefix(kept.cells, Reach(saver[p].of, j).cells)
      BY <1>4, <2>2, <3>2, PrefixLonger DEF States
    <3> QED
      BY <3>3, Kinds DEF Durable
  <2>4. kept.cells = <<>> \/ disk.state # NoFile
    BY DEF AckedOK
  <2>5. Whole(saver[p].of) # NoFile
    BY Kinds
  <2> QED
    BY <1>1, <1>2, <2>1, <2>2, <2>3, <2>4, <2>5 DEF AckedOK
<1> QED
  BY <1>5, <1>6, <1>7, <1>8, <1>9, <1>10

(* What the release of the mutex leaves in memory.                         *)
LEMMA FinishIs ==
    ASSUME NEW p, Processes = {p}, FilesOK, MemoryOK, NEW m \in Memories, Finish(p, m),
           served' = served
    PROVE  /\ MemoryOK'
           /\ saver'[p] = Idle /\ saver'[p].step = "idle"
           /\ proc'[p].up \in {m.up, "exiting"}
           /\ proc'[p].head = m.head /\ proc'[p].following = m.following
           /\ proc'[p].pending = m.pending /\ proc'[p].journaling = m.journaling
           /\ proc'[p].last = m.last /\ proc'[p].broken = m.broken
<1>1. PICK r : r = IF saver[p].by = "shutdown" THEN [m EXCEPT !.up = "exiting"] ELSE m
  OBVIOUS
<1>2. /\ r \in Memories /\ r.up \in {m.up, "exiting"}
      /\ r.head = m.head /\ r.following = m.following
      /\ r.pending = m.pending /\ r.journaling = m.journaling
      /\ r.last = m.last /\ r.broken = m.broken
  <2>1. CASE saver[p].by = "shutdown"
    BY <1>1, <2>1 DEF Memories
  <2>2. CASE saver[p].by # "shutdown"
    BY <1>1, <2>2
  <2> QED
    BY <2>1, <2>2
<1>3. proc' = [proc EXCEPT ![p] = r] /\ saver' = [saver EXCEPT ![p] = Idle]
  BY <1>1, Zenon DEF Finish
<1>4. proc' \in [Processes -> Memories] /\ proc'[p] = r /\ saver'[p] = Idle
  BY <1>2, <1>3 DEF MemoryOK
<1>5. Memories' = Memories
  BY DEF Memories
<1>6. MemoryOK'
  BY <1>3, <1>4, <1>5 DEF MemoryOK, Idle, FilesOK
<1> QED
  BY <1>2, <1>4, <1>6 DEF Idle

(* A save that fails leaves the state file and the journal alone.          *)
LEMMA SaveFailsInv ==
    ASSUME NEW p, Processes = {p}, FilesInv(p), SaveFails(p)
    PROVE  FilesInv(p)'
<1> USE DEF FilesInv
<1>1. /\ saver[p].step \in {"staging", "staged"} /\ Finish(p, proc[p]) /\ proc[p].up # "down"
      /\ UNCHANGED <<files, disk, dirSyncs, lock, starts, served, kept>>
  BY DEF SaveFails, SaverOK, Idle
<1>2. proc[p] \in Memories
  BY DEF MemoryOK
<1>3. /\ MemoryOK'
      /\ saver'[p] = Idle /\ saver'[p].step = "idle"
      /\ proc'[p].up \in {proc[p].up, "exiting"}
      /\ proc'[p].head = proc[p].head /\ proc'[p].following = proc[p].following
      /\ proc'[p].pending = proc[p].pending /\ proc'[p].journaling = proc[p].journaling
      /\ proc'[p].last = proc[p].last /\ proc'[p].broken = proc[p].broken
  BY <1>1, <1>2, FinishIs
<1>4. FilesOK'
  BY <1>1 DEF FilesOK
<1>5. PendingOK(p)' /\ SaverOK(p)' /\ JournalingOK(p)'
  BY <1>1, <1>3 DEF PendingOK, SaverOK, JournalingOK, GoesOnFrom
<1>6. AckedOK(p)'
  <2>1. JournalImages' = JournalImages
    BY <1>1 DEF JournalImages, Unsynced, SameJournal
  <2> QED
    BY <1>1, <1>3, <2>1 DEF AckedOK, Durable
<1> QED
  BY <1>3, <1>4, <1>5, <1>6

(* A save is reported once the directory is synced.                        *)
LEMMA SaveSyncedInv ==
    ASSUME NEW p, Processes = {p}, FilesInv(p), SaveSynced(p)
    PROVE  FilesInv(p)'
<1> USE DEF FilesInv
<1>1. PICK s : s = saver[p].of
  OBVIOUS
<1>2. PICK m : m = [proc[p] EXCEPT !.saved = s.block]
  OBVIOUS
<1>3. /\ saver[p].step = "renamed" /\ proc[p].up # "down" /\ files.state = Whole(s)
      /\ proc[p].head = s
      /\ disk' = IF dirSyncs THEN [disk EXCEPT !.state = files.state] ELSE disk
      /\ kept' = s
      /\ IF proc[p].broken
         THEN Finish(p, m)
         ELSE saver' = [saver EXCEPT ![p].step = "rotating"] /\ proc' = [proc EXCEPT ![p] = m]
      /\ UNCHANGED <<files, dirSyncs, lock, starts, served>>
  BY <1>1, <1>2 DEF SaveSynced, SaverOK, Idle
<1>4. s \in served /\ s \in States /\ s.block \in Nat /\ s.cells \in Seq(Layouts)
  BY <1>1 DEF MemoryOK, FilesOK, States
<1>5. /\ m \in Memories /\ m.up = proc[p].up /\ m.head = proc[p].head
      /\ m.following = proc[p].following /\ m.pending = proc[p].pending
      /\ m.journaling = proc[p].journaling /\ m.last = proc[p].last /\ m.broken = proc[p].broken
  <2>1. proc[p] \in Memories
    BY DEF MemoryOK
  <2> QED
    BY <1>2, <1>4, <2>1 DEF Memories
<1>6. /\ MemoryOK'
      /\ proc'[p].up \in {proc[p].up, "exiting"}
      /\ proc'[p].head = proc[p].head /\ proc'[p].following = proc[p].following
      /\ proc'[p].pending = proc[p].pending /\ proc'[p].journaling = proc[p].journaling
      /\ proc'[p].last = proc[p].last /\ proc'[p].broken = proc[p].broken
      /\ \/ proc[p].broken /\ saver'[p] = Idle /\ saver'[p].step = "idle"
         \/ /\ ~proc[p].broken /\ saver'[p].step = "rotating" /\ saver'[p].of = s
            /\ proc'[p].up = proc[p].up
  <2>1. CASE proc[p].broken
    <3>1. Finish(p, m)
      BY <1>3, <2>1
    <3> QED
      BY <1>3, <1>5, <2>1, <3>1, FinishIs
  <2>2. CASE ~proc[p].broken
    <3>1. saver' = [saver EXCEPT ![p].step = "rotating"] /\ proc' = [proc EXCEPT ![p] = m]
      BY <1>3, <2>2
    <3>2. Memories' = Memories
      BY <1>3 DEF Memories
    <3>3. MemoryOK' /\ proc'[p] = m /\ saver'[p].step = "rotating" /\ saver'[p].of = s
      BY <1>1, <1>3, <1>5, <3>1, <3>2 DEF MemoryOK
    <3> QED
      BY <1>5, <2>2, <3>3
  <2> QED
    BY <2>1, <2>2
<1>7. /\ disk'.journal = disk.journal /\ disk'.state \in {disk.state, files.state}
      /\ dirSyncs => disk'.state = files.state
      /\ disk' = [state |-> disk'.state, journal |-> disk'.journal]
  BY <1>3 DEF FilesOK
<1>8. FilesOK'
  BY <1>3, <1>4, <1>7 DEF FilesOK
<1>9. PendingOK(p)'
  BY <1>3, <1>6 DEF PendingOK
<1>10. SaverOK(p)'
  BY <1>3, <1>6, <1>7 DEF SaverOK, GoesOnFrom
<1>11. JournalingOK(p)'
  BY <1>6 DEF JournalingOK, SaverOK
<1>12. AckedOK(p)'
  <2> SUFFICES ASSUME dirSyncs PROVE AckedOK(p)'
    BY <1>3 DEF AckedOK
  <2>1. JournalImages' = JournalImages
    BY <1>3, <1>7 DEF JournalImages, Unsynced, SameJournal
  <2>2. ASSUME NEW j \in JournalImages PROVE Durable(s, Whole(s), j)
    <3>1. JournalOK(j, served)
      <4>1. [state |-> files.state, journal |-> j] \in Images
        BY DEF Images
      <4> QED
        BY <4>1, ImagesOK
    <3>2. IsPrefix(s.cells, Reach(s, j).cells)
      BY <1>4, <3>1, ReachIs DEF FilesOK
    <3> QED
      BY <3>2, Kinds DEF Durable
  <2>3. IsPrefix(s.cells, s.cells)
    BY <1>4, PrefixSame
  <2> QED
    BY <1>3, <1>6, <1>7, <2>1, <2>2, <2>3, Kinds DEF AckedOK
<1> QED
  BY <1>6, <1>8, <1>9, <1>10, <1>11, <1>12

(* The fresh journal begins at the state that was just saved.              *)
LEMMA JournalRenamedInv ==
    ASSUME NEW p, Processes = {p}, FilesInv(p), JournalRenamed(p)
    PROVE  FilesInv(p)'
<1> USE DEF FilesInv
<1>1. PICK s : s = saver[p].of
  OBVIOUS
<1>2. PICK j : j = Journal(s)
  OBVIOUS
<1>3. /\ saver[p].step = "rotating" /\ proc[p].up # "down" /\ files.state = Whole(s)
      /\ kept = s /\ ~proc[p].broken /\ (dirSyncs => disk.state = files.state)
      /\ saver' = [saver EXCEPT ![p].step = "rotated"]
      /\ files' = [files EXCEPT !.journal = j]
      /\ UNCHANGED <<disk, dirSyncs, proc, lock, starts, served, kept>>
  BY <1>1, <1>2 DEF JournalRenamed, SaverOK, Idle
<1>4. s \in served /\ s \in States /\ s.cells \in Seq(Layouts)
  BY <1>1 DEF MemoryOK, FilesOK, States
<1>5. Chained(j, served) /\ End(j) = s /\ j.base = s /\ j.kind = "whole" /\ j.items = <<>>
  BY <1>2, <1>4, FreshJournal DEF FilesOK
<1>6. files'.state = files.state /\ files'.tmp = files.tmp /\ files'.journal = j
  BY <1>3 DEF FilesOK
<1>7. saver'[p].step = "rotated" /\ saver'[p].by = saver[p].by /\ saver'[p].of = s
  BY <1>1, <1>3 DEF MemoryOK
<1>8. FilesOK'
  BY <1>3, <1>5, <1>6 DEF FilesOK, JournalOK
<1>9. MemoryOK'
  <2>1. Memories' = Memories
    BY <1>3 DEF Memories
  <2> QED
    BY <1>3, <2>1 DEF MemoryOK
<1>10. PendingOK(p)'
  BY <1>3 DEF PendingOK
<1>11. SaverOK(p)'
  BY <1>1, <1>2, <1>3, <1>6, <1>7 DEF SaverOK, GoesOnFrom, Idle
<1>12. JournalingOK(p)'
  BY <1>7 DEF JournalingOK
<1>13. AckedOK(p)'
  <2> SUFFICES ASSUME dirSyncs PROVE AckedOK(p)'
    BY <1>3 DEF AckedOK
  <2>1. \A i \in JournalImages' : i \in {disk.journal, j}
    BY <1>3, <1>5, <1>6 DEF JournalImages, Unsynced
  <2>2. \A f \in {disk.state, files.state} : Durable(s, f, disk.journal)
    BY <1>3 DEF AckedOK, JournalImages
  <2>3. Durable(s, Whole(s), j)
    <3>1. IsPrefix(s.cells, s.cells)
      BY <1>4, PrefixSame
    <3> QED
      BY <1>5, <3>1, Kinds DEF Durable, Reach
  <2> QED
    BY <1>3, <1>6, <2>1, <2>2, <2>3 DEF AckedOK
<1> QED
  BY <1>8, <1>9, <1>10, <1>11, <1>12, <1>13

(* A rotation leaves the process on the base of its journal, or one block  *)
(* behind it.                                                              *)
LEMMA JournalRotatedInv ==
    ASSUME NEW p, Processes = {p}, FilesInv(p), JournalRotated(p)
    PROVE  FilesInv(p)'
<1> USE DEF FilesInv
<1>1. PICK s : s = saver[p].of
  OBVIOUS
<1>2. PICK j : j = Journal(s)
  OBVIOUS
<1>3. PICK m : m = [proc[p] EXCEPT !.journaling = TRUE, !.last = s.block]
  OBVIOUS
<1>4. /\ saver[p].step = "rotated" /\ proc[p].up # "down" /\ files.state = Whole(s)
      /\ kept = s /\ ~proc[p].broken /\ (dirSyncs => disk.state = files.state)
      /\ files.journal = j /\ GoesOnFrom(p, s)
      /\ disk' = IF dirSyncs THEN [disk EXCEPT !.journal = files.journal] ELSE disk
      /\ Finish(p, m)
      /\ UNCHANGED <<files, dirSyncs, lock, starts, served, kept>>
  BY <1>1, <1>2, <1>3 DEF JournalRotated, SaverOK, Idle
<1>5. s \in served /\ s \in States /\ s.block \in Nat /\ s.cells \in Seq(Layouts)
  BY <1>1 DEF MemoryOK, FilesOK, States
<1>6. /\ Chained(j, served) /\ End(j) = s /\ j.base = s /\ j.kind = "whole" /\ j.items = <<>>
      /\ Found(j) = 0
  BY <1>2, <1>5, FreshJournal DEF FilesOK
<1>7. /\ m \in Memories /\ m.up = proc[p].up /\ m.head = proc[p].head
      /\ m.following = proc[p].following /\ m.pending = proc[p].pending
      /\ m.journaling /\ m.last = s.block /\ m.broken = proc[p].broken
  <2>1. proc[p] \in Memories
    BY DEF MemoryOK
  <2> QED
    BY <1>3, <1>5, <2>1 DEF Memories
<1>8. /\ MemoryOK'
      /\ saver'[p] = Idle /\ saver'[p].step = "idle"
      /\ proc'[p].up \in {proc[p].up, "exiting"}
      /\ proc'[p].head = proc[p].head /\ proc'[p].following = proc[p].following
      /\ proc'[p].pending = proc[p].pending /\ proc'[p].journaling
      /\ proc'[p].last = s.block /\ proc'[p].broken = proc[p].broken
  BY <1>4, <1>7, FinishIs
<1>9. /\ disk'.state = disk.state /\ disk'.journal \in {disk.journal, j}
      /\ dirSyncs => disk'.journal = j
      /\ disk' = [state |-> disk'.state, journal |-> disk'.journal]
  BY <1>4 DEF FilesOK
<1>10. FilesOK'
  BY <1>4, <1>6, <1>9 DEF FilesOK, JournalOK
<1>11. PendingOK(p)' /\ SaverOK(p)'
  BY <1>4, <1>8 DEF PendingOK, SaverOK
<1>12. JournalingOK(p)'
  <2>1. Len(j.items) = 0
    BY <1>6, EmptySeq
  <2>2. GoesOnFrom(p, s)'
    BY <1>4, <1>8 DEF GoesOnFrom
  <2>3. s.block = j.base.block + Len(j.items)
    BY <1>5, <1>6, <2>1
  <2> QED
    BY <1>4, <1>6, <1>8, <1>9, <2>1, <2>2, <2>3 DEF JournalingOK
<1>13. AckedOK(p)'
  <2> SUFFICES ASSUME dirSyncs PROVE AckedOK(p)'
    BY <1>4 DEF AckedOK
  <2>1. \A i \in JournalImages' : i = j
    BY <1>4, <1>6, <1>9 DEF JournalImages, Unsynced
  <2>2. Durable(s, Whole(s), j)
    <3>1. IsPrefix(s.cells, s.cells)
      BY <1>5, PrefixSame
    <3> QED
      BY <1>6, <3>1, Kinds DEF Durable, Reach
  <2> QED
    BY <1>4, <1>8, <1>9, <2>1, <2>2, Kinds DEF AckedOK
<1> QED
  BY <1>8, <1>10, <1>11, <1>12, <1>13

(* After a failed rotation the old journal is not appended to.             *)
LEMMA RotationFailsInv ==
    ASSUME NEW p, Processes = {p}, FilesInv(p), RotationFails(p)
    PROVE  FilesInv(p)'
<1> USE DEF FilesInv
<1>1. PICK m : m = [proc[p] EXCEPT !.journaling = FALSE]
  OBVIOUS
<1>2. /\ saver[p].step \in {"rotating", "rotated"} /\ Finish(p, m) /\ proc[p].up # "down"
      /\ UNCHANGED <<files, disk, dirSyncs, lock, starts, served, kept>>
  BY <1>1 DEF RotationFails, SaverOK, Idle
<1>3. /\ m \in Memories /\ m.up = proc[p].up /\ m.head = proc[p].head
      /\ m.following = proc[p].following /\ m.pending = proc[p].pending
      /\ ~m.journaling /\ m.last = proc[p].last /\ m.broken = proc[p].broken
  <2>1. proc[p] \in Memories
    BY DEF MemoryOK
  <2> QED
    BY <1>1, <2>1 DEF Memories
<1>4. /\ MemoryOK'
      /\ saver'[p] = Idle /\ saver'[p].step = "idle"
      /\ proc'[p].up \in {proc[p].up, "exiting"}
      /\ proc'[p].head = proc[p].head /\ proc'[p].following = proc[p].following
      /\ proc'[p].pending = proc[p].pending /\ ~proc'[p].journaling
      /\ proc'[p].last = proc[p].last /\ proc'[p].broken = proc[p].broken
  BY <1>2, <1>3, FinishIs
<1>5. FilesOK'
  BY <1>2 DEF FilesOK
<1>6. PendingOK(p)' /\ SaverOK(p)' /\ JournalingOK(p)'
  BY <1>2, <1>4 DEF PendingOK, SaverOK, JournalingOK
<1>7. AckedOK(p)'
  <2>1. JournalImages' = JournalImages
    BY <1>2 DEF JournalImages, Unsynced, SameJournal
  <2> QED
    BY <1>2, <1>4, <2>1 DEF AckedOK, Durable
<1> QED
  BY <1>4, <1>5, <1>6, <1>7

-----------------------------------------------------------------------------
(* Starts, stops and faults.                                               *)

(* A start goes on from the state that the files lead to, and adopts the   *)
(* journal only where it ends there.                                       *)
LEMMA StartInv ==
    ASSUME NEW p, Processes = {p}, FilesInv(p), NEW restore \in BOOLEAN, Start(p, restore)
    PROVE  FilesInv(p)'
<1> USE DEF FilesInv
<1> DEFINE ends == Usable(files) /\ (restore \/ ValidRecords(files.journal) = 0)
<1>1. PICK s : s = files.state.of
  OBVIOUS
<1>2. PICK j : j = files.journal
  OBVIOUS
<1>3. PICK h : h = IF restore THEN Restored(files) ELSE s
  OBVIOUS
<1>4. /\ proc[p] = Down /\ files.state.kind = "whole"
      /\ kept' = IF restore \/ IsPrefix(kept.cells, s.cells) THEN kept ELSE s
      /\ UNCHANGED <<disk, dirSyncs, saver, served>>
  BY <1>1 DEF Start, Claimed
<1>21. PICK adopted \in {ends} \cup (IF CallsMayFail THEN {FALSE} ELSE {}) :
        /\ proc' = [proc EXCEPT ![p] = [Down EXCEPT !.up = "starting", !.head = h,
                      !.journaling = adopted, !.last = h.block, !.saved = s.block]]
        /\ files' = IF adopted THEN [files EXCEPT !.journal = Adopted(@)] ELSE files
  BY <1>1, <1>3, Zenon DEF Start
<1>5. /\ adopted \in BOOLEAN /\ (adopted => ends)
      /\ proc' = [proc EXCEPT ![p] = [Down EXCEPT !.up = "starting", !.head = h,
                    !.journaling = adopted, !.last = h.block, !.saved = s.block]]
      /\ files' = IF adopted THEN [files EXCEPT !.journal = Adopted(@)] ELSE files
  <2>1. ends \in BOOLEAN
    BY DEF Usable
  <2>2. adopted = ends \/ adopted = FALSE
    BY <1>21
  <2> HIDE DEF ends
  <2>3. adopted \in BOOLEAN /\ (adopted => ends)
    BY <2>1, <2>2
  <2> QED
    BY <1>21, <2>3
<1>6. /\ served \in SUBSET States /\ s \in served /\ s \in States /\ files.state = Whole(s)
      /\ JournalOK(j, served) /\ kept.cells \in Seq(Layouts)
      /\ s.block \in Nat /\ s.cells \in Seq(Layouts)
  <2>1. StateOK(files.state, served)
    BY DEF FilesOK
  <2>2. s \in served /\ files.state = Whole(s)
    BY <1>1, <1>4, <2>1, Kinds DEF StateOK
  <2> QED
    BY <1>2, <2>2 DEF FilesOK, States
<1>7. Restored(files) = Reach(s, j) /\ (Usable(files) <=> j.kind = "whole" /\ j.base = s)
  <2>1. FilesOK /\ s = files.state.of /\ j = files.journal
    BY <1>1, <1>2
  <2> HIDE DEF ends
  <2> QED
    BY <2>1, RestoredNow
<1>8. /\ Reach(s, j) \in served /\ IsPrefix(s.cells, Reach(s, j).cells)
      /\ Reach(s, j).cells \in Seq(Layouts)
  BY <1>6, ReachIs
<1>9. h \in served /\ h \in States /\ h.block \in Nat /\ h.cells \in Seq(Layouts)
  BY <1>3, <1>6, <1>7, <1>8 DEF States
<1>10. saver[p] = Idle /\ saver'[p] = Idle /\ saver'[p].step = "idle"
  BY <1>4 DEF SaverOK, Idle, Down
<1>11. /\ proc'[p].up = "starting" /\ proc'[p].head = h /\ ~proc'[p].following
       /\ proc'[p].pending = NoDelta /\ proc'[p].journaling = adopted
       /\ proc'[p].last = h.block /\ ~proc'[p].broken
       /\ proc' \in [Processes -> Memories]
  <2>1. PICK r : r = [Down EXCEPT !.up = "starting", !.head = h,
                      !.journaling = adopted, !.last = h.block, !.saved = s.block]
    OBVIOUS
  <2>2. /\ r.up = "starting" /\ r.head = h /\ ~r.following /\ r.pending = NoDelta
        /\ r.journaling = adopted /\ r.last = h.block /\ ~r.broken
    BY <2>1 DEF Down
  <2>3. r \in Memories
    <3>1. Down \in Memories
      BY <1>4 DEF MemoryOK
    <3>2. r = [Down EXCEPT !.up = "starting", !.head = h,
                !.journaling = adopted, !.last = h.block, !.saved = s.block]
      BY <2>1
    <3>3. adopted \in BOOLEAN /\ s.block \in Int /\ h.block \in Nat /\ h \in served
      BY <1>5, <1>6, <1>9
    <3> QED
      BY <3>1, <3>2, <3>3 DEF Memories
  <2>4. proc' = [proc EXCEPT ![p] = r]
    BY <1>5, <2>1, Zenon
  <2> QED
    BY <2>2, <2>3, <2>4 DEF MemoryOK
<1>12. MemoryOK'
  <2>1. Memories' = Memories
    BY <1>4 DEF Memories
  <2> QED
    BY <1>4, <1>11, <2>1 DEF MemoryOK
<1>13. adopted => /\ Chained(j, served) /\ j.base = s /\ j.kind = "whole" /\ h = End(j)
                 /\ \E t : /\ t = Adopted(j) /\ Chained(t, served) /\ t.base = j.base
                          /\ End(t) = End(j) /\ Found(t) = Len(t.items)
  <2> SUFFICES ASSUME adopted
               PROVE  /\ Chained(j, served) /\ j.base = s /\ j.kind = "whole" /\ h = End(j)
                      /\ \E t : /\ t = Adopted(j) /\ Chained(t, served) /\ t.base = j.base
                               /\ End(t) = End(j) /\ Found(t) = Len(t.items)
    OBVIOUS
  <2>1. Chained(j, served) /\ j.base = s /\ j.kind = "whole"
    BY <1>5, <1>6, <1>7 DEF JournalOK, NoFile
  <2>2. Reach(s, j) = End(j)
    BY <2>1 DEF Reach
  <2>3. h = End(j)
    <3>1. CASE restore
      BY <1>3, <1>7, <2>2, <3>1
    <3>2. CASE ~restore
      <4>1. Found(j) = 0
        BY <1>2, <1>5, <1>6, <2>1, <3>2, ReplayFindsAll
      <4> QED
        BY <1>3, <2>1, <3>2, <4>1 DEF End, At
    <3> QED
      BY <3>1, <3>2
  <2>4. PICK t : t = Adopted(j)
    OBVIOUS
  <2>5. /\ Chained(t, served) /\ t.base = j.base /\ End(t) = End(j) /\ Found(t) = Len(t.items)
    BY <1>6, <2>1, <2>4, JournalCut
  <2> QED
    BY <2>1, <2>3, <2>4, <2>5
<1>14. PICK t : /\ files' = [files EXCEPT !.journal = t]
                /\ JournalOK(t, served) /\ Reach(s, t) = Reach(s, j)
                /\ t = j \/ (adopted /\ t.kind = "whole" /\ j.kind = "whole" /\ t.base = j.base /\ Chained(j, served) /\ Found(t) = Len(t.items)
                             /\ Found(t) = Found(j) /\ Chained(t, served))
                /\ adopted => Chained(t, served) /\ t.base = s /\ End(t) = h /\ Found(t) = Len(t.items)
  <2>1. CASE adopted
    <3>1. /\ Chained(j, served) /\ j.base = s /\ j.kind = "whole" /\ h = End(j)
      BY <1>13, <2>1
    <3>2. PICK t : t = Adopted(j)
      OBVIOUS
    <3>3. /\ Chained(t, served) /\ t.base = j.base /\ End(t) = End(j) /\ Found(t) = Len(t.items)
          /\ Found(t) = Found(j)
      BY <1>6, <3>1, <3>2, JournalCut
    <3>4. files' = [files EXCEPT !.journal = t]
      BY <1>2, <1>5, <2>1, <3>2
    <3>5. t.kind = "whole"
      BY <3>3 DEF Chained
    <3> QED
      BY <2>1, <3>1, <3>3, <3>4, <3>5 DEF JournalOK, Reach
  <2>2. CASE ~adopted
    <3>1. files' = files /\ files = [files EXCEPT !.journal = j]
      BY <1>2, <1>5, <2>2 DEF FilesOK
    <3> QED
      BY <1>6, <2>2, <3>1
  <2> QED
    BY <2>1, <2>2
<1>15. files'.state = files.state /\ files'.tmp = files.tmp /\ files'.journal = t
  BY <1>14 DEF FilesOK
<1>17. FilesOK'
  BY <1>4, <1>6, <1>14, <1>15 DEF FilesOK
<1>18. PendingOK(p)' /\ SaverOK(p)'
  BY <1>4, <1>10, <1>11 DEF PendingOK, SaverOK
<1>19. JournalingOK(p)'
  <2> SUFFICES ASSUME adopted PROVE JournalingOK(p)'
    BY <1>11 DEF JournalingOK
  <2>1. /\ Chained(t, served) /\ t.base = s /\ End(t) = h /\ Found(t) = Len(t.items)
        /\ j.base = s /\ j.kind = "whole"
    BY <1>13, <1>14
  <2>2. h.block = s.block + Len(t.items)
    BY <1>6, <2>1, EndIs
  <2>3. GoesOnFrom(p, End(t))'
    BY <1>11, <2>1 DEF GoesOnFrom
  <2> QED
    BY <1>4, <1>6, <1>10, <1>11, <1>15, <2>1, <2>2, <2>3 DEF JournalingOK
<1>20. AckedOK(p)'
  <2> SUFFICES ASSUME dirSyncs PROVE AckedOK(p)'
    BY <1>4 DEF AckedOK
  <2>1. j \in JournalImages /\ disk.journal \in JournalImages
    BY <1>2 DEF JournalImages
  <2>2. /\ \A f \in {disk.state, files.state} : \A i \in JournalImages : Durable(kept, f, i)
        /\ kept.cells = <<>> \/ (disk.state # NoFile /\ files.state # NoFile)
    BY DEF AckedOK
  <2>3. \A i \in JournalImages : IsPrefix(kept.cells, Reach(s, i).cells)
    BY <1>6, <2>2, Kinds DEF Durable
  <2>4. /\ IsPrefix(kept'.cells, kept.cells) /\ kept'.cells \in Seq(Layouts)
        /\ IsPrefix(kept'.cells, h.cells)
        /\ kept' = kept \/ \A i \in JournalImages : Reach(s, i) # s
    <3>1. CASE restore
      BY <1>3, <1>4, <1>6, <1>7, <2>1, <2>3, <3>1, PrefixSame
    <3>2. CASE ~restore /\ IsPrefix(kept.cells, s.cells)
      BY <1>3, <1>4, <1>6, <3>2, PrefixSame
    <3>3. CASE ~restore /\ ~IsPrefix(kept.cells, s.cells)
      <4>1. kept' = s /\ h = s
        BY <1>3, <1>4, <3>3
      <4>2. \A i \in JournalImages : Reach(s, i) # s
        BY <2>3, <3>3
      <4>3. Len(s.cells) <= Len(kept.cells)
        <5>1. Len(s.cells) \in Nat /\ Len(kept.cells) \in Nat
          BY <1>6, LenProperties
        <5>2. IsPrefix(kept.cells, Reach(s, j).cells)
          BY <2>1, <2>3
        <5>3. Len(kept.cells) <= Len(s.cells) => IsPrefix(kept.cells, s.cells)
          BY <1>6, <1>8, <5>2, PrefixShorter
        <5> QED
          BY <3>3, <5>1, <5>3
      <4>4. IsPrefix(s.cells, kept.cells)
        BY <1>6, <1>8, <2>1, <2>3, <4>3, PrefixShorter
      <4> QED
        BY <1>6, <4>1, <4>2, <4>4, PrefixSame
    <3> QED
      BY <3>1, <3>2, <3>3
  <2>5. ASSUME NEW f \in {disk.state, files.state}, NEW i \in JournalImages
        PROVE  Durable(kept', f, i)
    <3> SUFFICES ASSUME f.kind = "whole" PROVE IsPrefix(kept'.cells, Reach(f.of, i).cells)
      BY DEF Durable
    <3>1. f.of \in served
      BY Kinds DEF FilesOK, StateOK
    <3>2. JournalOK(i, served)
      <4>1. [state |-> files.state, journal |-> i] \in Images
        BY DEF Images
      <4> QED
        BY <4>1, ImagesOK
    <3>3. Reach(f.of, i).cells \in Seq(Layouts)
      BY <1>6, <3>1, <3>2, ReachIs
    <3>4. IsPrefix(kept.cells, Reach(f.of, i).cells)
      BY <2>2 DEF Durable
    <3> QED
      BY <1>6, <2>4, <3>3, <3>4, PrefixLonger
  <2>6. ASSUME NEW f \in {disk.state, files.state}, NEW i \in JournalImages'
        PROVE  Durable(kept', f, i)
    <3>1. CASE i = disk.journal \/ i = j
      BY <2>1, <2>5, <3>1
    <3>2. CASE i = t /\ i # j
      <4>1. \A x : Reach(x, t) = Reach(x, j)
        BY <1>13, <1>14, <3>2 DEF Reach
      <4> QED
        BY <2>1, <2>5, <3>2, <4>1 DEF Durable
    <3>3. CASE Unsynced' /\ i = [t EXCEPT !.items = Append(Front(@), Torn)] /\ t = j
      <4>1. Unsynced /\ i \in JournalImages
        BY <1>2, <1>4, <1>15, <3>3 DEF Unsynced, SameJournal, JournalImages
      <4> QED
        BY <2>5, <4>1
    <3>4. CASE Unsynced' /\ i = [t EXCEPT !.items = Append(Front(@), Torn)] /\ t # j
      <4>1. adopted /\ Chained(t, served) /\ t.base = s /\ Found(t) = Len(t.items)
        BY <1>14, <3>4
      <4>2. /\ t.items # <<>> /\ t.kind = "whole" /\ j.base = s /\ End(t) = h
            /\ SameJournal' => Len(t.items) > Len(disk.journal.items)
        BY <1>4, <1>13, <1>14, <1>15, <3>4, <4>1 DEF Unsynced
      <4>3. SameJournal' <=> disk.journal.kind = "whole" /\ disk.journal.base = s
        BY <1>4, <1>15, <4>1 DEF SameJournal
      <4>4. PICK e : e = Reach(s, disk.journal)
        OBVIOUS
      <4>5. e.cells \in Seq(Layouts) /\ Len(e.cells) < Len(s.cells) + Len(t.items)
        <5>1. JournalOK(disk.journal, served)
          BY DEF FilesOK
        <5>2. Len(s.cells) \in Nat /\ Len(t.items) \in Nat \ {0}
          BY <1>6, <4>1, <4>2, LenProperties, EmptySeq DEF Chained
        <5>3. CASE disk.journal.kind = "whole" /\ disk.journal.base = s
          <6>1. Chained(disk.journal, served)
            BY <5>1, <5>3, Kinds DEF JournalOK
          <6>2. /\ e = End(disk.journal)
                /\ Len(End(disk.journal).cells) = Len(disk.journal.base.cells) + Found(disk.journal)
            BY <1>6, <4>4, <5>3, <6>1, EndIs DEF Reach
          <6>3. Len(disk.journal.items) \in Nat /\ Found(disk.journal) \in 0 .. Len(disk.journal.items)
            BY <6>1, FoundIs
          <6>4. Len(t.items) > Len(disk.journal.items)
            BY <4>2, <4>3, <5>3
          <6>5. e.cells \in Seq(Layouts)
            BY <1>6, <4>4, <5>1, ReachIs
          <6>6. \A a, c, d \in Nat : \A b \in 0 .. c : d > c => a + b < a + d
            OBVIOUS
          <6>7. Len(s.cells) + Found(disk.journal) < Len(s.cells) + Len(t.items)
            <7>1. Len(t.items) \in Nat
              BY <5>2
            <7> QED
              BY <5>2, <6>3, <6>4, <6>6, <7>1, Zenon
          <6>8. Len(e.cells) = Len(s.cells) + Found(disk.journal)
            BY <5>3, <6>2
          <6> QED
            BY <6>5, <6>7, <6>8
        <5>4. CASE ~(disk.journal.kind = "whole" /\ disk.journal.base = s)
          <6>1. e = s
            BY <4>4, <5>4 DEF Reach
          <6>2. \A a \in Nat : \A b \in Nat \ {0} : a < a + b
            OBVIOUS
          <6>3. Len(s.cells) < Len(s.cells) + Len(t.items)
            BY <5>2, <6>2, Zenon
          <6> QED
            BY <1>6, <6>1, <6>3
        <5> QED
          BY <5>3, <5>4
      <4>6. IsPrefix(kept'.cells, e.cells)
        BY <1>6, <2>1, <2>5, <4>4, Kinds DEF Durable
      <4>7. Len(kept'.cells) < Len(s.cells) + Len(t.items)
        <5>1. Len(kept'.cells) <= Len(e.cells)
          BY <2>4, <4>5, <4>6, PrefixIs
        <5>2. Len(kept'.cells) \in Nat /\ Len(e.cells) \in Nat /\ Len(s.cells) \in Nat /\ Len(t.items) \in Nat
          BY <1>6, <2>4, <4>1, <4>5, LenProperties DEF Chained
        <5>3. \A a, b, c, d \in Nat : a <= b /\ b < c + d => a < c + d
          OBVIOUS
        <5> QED
          BY <4>5, <5>1, <5>2, <5>3
      <4>8. IsPrefix(kept'.cells, End(i).cells) /\ i.base = s /\ i.kind = "whole"
        <5>1. IsPrefix(kept'.cells, End(t).cells)
          BY <2>4, <4>2
        <5>2. i.base = s /\ i.kind = "whole"
          BY <1>6, <3>4, <4>1, <4>2, RecordTorn DEF Chained
        <5> QED
          BY <1>6, <2>4, <3>4, <4>1, <4>2, <4>7, <5>1, <5>2, TornEnd
      <4>9. \A x : Reach(x, i) = End(i) \/ Reach(x, i) = Reach(x, j)
        BY <4>2, <4>8 DEF Reach
      <4> QED
        BY <2>1, <2>5, <4>8, <4>9 DEF Durable
    <3> QED
      BY <1>4, <1>15, <3>1, <3>2, <3>3, <3>4 DEF JournalImages
  <2>7. kept'.cells = <<>> \/ (disk.state # NoFile /\ files.state # NoFile)
    <3> SUFFICES ASSUME kept.cells = <<>> PROVE kept' = kept
      BY <2>2
    <3>1. IsPrefix(kept.cells, s.cells)
      BY <1>6, PrefixSame
    <3> QED
      BY <1>4, <3>1
  <2> QED
    BY <1>4, <1>11, <1>15, <2>4, <2>6, <2>7 DEF AckedOK
<1> QED
  BY <1>12, <1>17, <1>18, <1>19, <1>20

(* The snapshot of a first start is saved before anything is served, and   *)
(* nothing but the snapshot can have been reported to be on disk.          *)
LEMMA BootstrapInv ==
    ASSUME NEW p, Processes = {p}, FilesInv(p), Bootstrap(p)
    PROVE  FilesInv(p)'
<1> USE DEF FilesInv
<1>1. /\ proc[p] = Down /\ files.state = NoFile
      /\ proc' = [proc EXCEPT ![p] = [Down EXCEPT !.up = "starting"]]
      /\ saver' = [saver EXCEPT ![p] = [step |-> "staging", by |-> "spawn", of |-> Snapshot]]
      /\ files' = [files EXCEPT !.tmp = Torn]
      /\ UNCHANGED <<disk, dirSyncs, served, kept>>
  BY DEF Bootstrap
<1>2. /\ files'.state = files.state /\ files'.tmp = Torn /\ files'.journal = files.journal
      /\ files' = [state |-> files'.state, tmp |-> files'.tmp, journal |-> files'.journal]
  BY <1>1 DEF FilesOK
<1>3. saver'[p].step = "staging" /\ saver'[p].of = Snapshot
  BY <1>1 DEF MemoryOK
<1>4. /\ proc'[p].up = "starting" /\ proc'[p].head = Snapshot /\ ~proc'[p].following
      /\ proc'[p].pending = NoDelta /\ ~proc'[p].journaling /\ ~proc'[p].broken
      /\ proc' \in [Processes -> Memories]
  <2>1. Down \in Memories
    BY <1>1 DEF MemoryOK
  <2>2. PICK r : r = [Down EXCEPT !.up = "starting"]
    OBVIOUS
  <2>3. r \in Memories
    BY <2>1, <2>2 DEF Memories
  <2>4. /\ r.up = "starting" /\ r.head = Snapshot /\ ~r.following
        /\ r.pending = NoDelta /\ ~r.journaling /\ ~r.broken
    BY <2>2 DEF Down
  <2>5. proc' = [proc EXCEPT ![p] = r]
    BY <1>1, <2>2, Zenon
  <2> QED
    BY <2>3, <2>4, <2>5 DEF MemoryOK
<1>5. FilesOK'
  BY <1>1, <1>2 DEF FilesOK
<1>6. MemoryOK'
  <2>1. Memories' = Memories
    BY <1>1 DEF Memories
  <2>2. Snapshot \in served
    BY DEF FilesOK
  <2>3. [step |-> "staging", by |-> "spawn", of |-> Snapshot] \in
         [step : {"idle", "appending", "written", "staging", "staged", "renamed", "rotating", "rotated"},
          by : {"nobody", "loop", "shutdown", "spawn"}, of : served]
    BY <2>2
  <2> QED
    BY <1>1, <1>4, <2>1, <2>3 DEF MemoryOK
<1>7. PendingOK(p)' /\ JournalingOK(p)'
  BY <1>4 DEF PendingOK, JournalingOK
<1>8. SaverOK(p)'
  BY <1>2, <1>3, <1>4 DEF SaverOK, GoesOnFrom
<1>9. AckedOK(p)'
  <2> SUFFICES ASSUME dirSyncs PROVE AckedOK(p)'
    BY <1>1 DEF AckedOK
  <2>1. JournalImages' = JournalImages
    BY <1>1, <1>2 DEF JournalImages, Unsynced, SameJournal
  <2>2. kept.cells = <<>> /\ Snapshot.cells = <<>>
    BY <1>1 DEF AckedOK, Snapshot
  <2>3. kept.cells \in Seq(Layouts)
    BY DEF FilesOK, States
  <2>4. IsPrefix(kept.cells, Snapshot.cells)
    BY <2>2, <2>3, PrefixSame
  <2> QED
    BY <1>1, <1>2, <1>4, <2>1, <2>2, <2>4 DEF AckedOK, Durable
<1> QED
  BY <1>5, <1>6, <1>7, <1>8, <1>9

(* The follow loop starts where the start left the files.                  *)
LEMMA ServeInv ==
    ASSUME NEW p, Processes = {p}, FilesInv(p), Serve(p)
    PROVE  FilesInv(p)'
<1> USE DEF FilesInv
<1>1. /\ proc[p].up = "starting" /\ saver[p] = Idle /\ saver[p].step = "idle"
      /\ proc' = [proc EXCEPT ![p].up = "up", ![p].following = TRUE]
      /\ UNCHANGED <<files, disk, dirSyncs, saver, served, kept>>
  BY DEF Serve, Idle
<1>2. /\ proc'[p].up = "up" /\ proc'[p].following
      /\ proc'[p].head = proc[p].head /\ proc'[p].pending = proc[p].pending
      /\ proc'[p].journaling = proc[p].journaling /\ proc'[p].last = proc[p].last
      /\ proc'[p].broken = proc[p].broken /\ proc' \in [Processes -> Memories]
  <2>1. PICK r : r = [proc[p] EXCEPT !.up = "up", !.following = TRUE]
    OBVIOUS
  <2>2. /\ r \in Memories /\ r.up = "up" /\ r.following
        /\ r.head = proc[p].head /\ r.pending = proc[p].pending
        /\ r.journaling = proc[p].journaling /\ r.last = proc[p].last
        /\ r.broken = proc[p].broken
    <3>1. proc[p] \in Memories
      BY DEF MemoryOK
    <3> QED
      BY <2>1, <3>1 DEF Memories
  <2>3. proc' = [proc EXCEPT ![p] = r]
    BY <1>1, <2>1 DEF MemoryOK
  <2> QED
    BY <2>2, <2>3 DEF MemoryOK
<1>3. FilesOK'
  BY <1>1 DEF FilesOK
<1>4. MemoryOK'
  <2>1. Memories' = Memories
    BY <1>1 DEF Memories
  <2> QED
    BY <1>1, <1>2, <2>1 DEF MemoryOK
<1>5. PendingOK(p)' /\ SaverOK(p)'
  BY <1>1, <1>2 DEF PendingOK, SaverOK
<1>6. JournalingOK(p)'
  BY <1>1, <1>2 DEF JournalingOK, GoesOnFrom
<1>7. AckedOK(p)'
  <2>1. JournalImages' = JournalImages
    BY <1>1 DEF JournalImages, Unsynced, SameJournal
  <2> QED
    BY <1>1, <1>2, <2>1 DEF AckedOK, Durable
<1> QED
  BY <1>3, <1>4, <1>5, <1>6, <1>7

(* A signal asks for the save of a shutdown, and changes nothing else.     *)
LEMMA SignalInv ==
    ASSUME NEW p, Processes = {p}, FilesInv(p), Signal(p)
    PROVE  FilesInv(p)'
<1> USE DEF FilesInv
<1>1. /\ proc[p].up = "up" /\ proc' = [proc EXCEPT ![p].signalled = TRUE]
      /\ UNCHANGED <<files, disk, dirSyncs, saver, served, kept>>
  BY DEF Signal
<1>2. /\ proc'[p].up = proc[p].up /\ proc'[p].following = proc[p].following
      /\ proc'[p].head = proc[p].head /\ proc'[p].pending = proc[p].pending
      /\ proc'[p].journaling = proc[p].journaling /\ proc'[p].last = proc[p].last
      /\ proc'[p].broken = proc[p].broken
  BY <1>1 DEF MemoryOK, Memories
<1>3. FilesOK'
  BY <1>1 DEF FilesOK
<1>4. MemoryOK'
  <2>1. PICK r : r = [proc[p] EXCEPT !.signalled = TRUE]
    OBVIOUS
  <2>2. r \in Memories
    <3>1. proc[p] \in Memories
      BY DEF MemoryOK
    <3> QED
      BY <2>1, <3>1 DEF Memories
  <2>3. proc' = [proc EXCEPT ![p] = r]
    BY <1>1, <2>1, Zenon
  <2>4. Memories' = Memories
    BY <1>1 DEF Memories
  <2> QED
    BY <1>1, <2>2, <2>3, <2>4 DEF MemoryOK
<1>5. PendingOK(p)' /\ SaverOK(p)'
  BY <1>1, <1>2 DEF PendingOK, SaverOK, GoesOnFrom
<1>6. JournalingOK(p)'
  BY <1>1, <1>2 DEF JournalingOK, GoesOnFrom
<1>7. AckedOK(p)'
  <2>1. JournalImages' = JournalImages
    BY <1>1 DEF JournalImages, Unsynced, SameJournal
  <2> QED
    BY <1>1, <1>2, <2>1 DEF AckedOK, Durable
<1> QED
  BY <1>3, <1>4, <1>5, <1>6, <1>7

(* What is left of a process that ended is its files.                      *)
LEMMA EndedIs ==
    ASSUME NEW p, Processes = {p}, FilesOK', MemoryOK, proc' = [q \in Processes |-> Down],
           saver' = [q \in Processes |-> Idle]
    PROVE  /\ proc'[p].up = "down"
           /\ MemoryOK' /\ PendingOK(p)' /\ SaverOK(p)' /\ JournalingOK(p)'
<1>1. /\ proc'[p] = Down /\ saver'[p] = Idle
      /\ proc'[p].up = "down" /\ ~proc'[p].journaling /\ ~proc'[p].broken
      /\ ~proc'[p].following /\ proc'[p].pending = NoDelta /\ saver'[p].step = "idle"
  BY DEF Down, Idle
<1>2. Snapshot \in served'
  BY DEF FilesOK
<1>3. MemoryOK'
  <2>1. Down \in Memories'
    BY <1>2 DEF Down, Memories
  <2>2. Idle \in [step : {"idle", "appending", "written", "staging", "staged", "renamed", "rotating", "rotated"},
                  by : {"nobody", "loop", "shutdown", "spawn"}, of : served']
    BY <1>2 DEF Idle
  <2> QED
    BY <2>1, <2>2 DEF MemoryOK
<1>4. PendingOK(p)' /\ SaverOK(p)' /\ JournalingOK(p)'
  BY <1>1 DEF PendingOK, SaverOK, JournalingOK
<1> QED
  BY <1>1, <1>3, <1>4

(* A kill, at any step, leaves the files as they are.                      *)
LEMMA KillInv ==
    ASSUME NEW p, Processes = {p}, FilesInv(p), Kill(p)
    PROVE  FilesInv(p)'
<1> USE DEF FilesInv
<1>1. /\ proc' = [q \in Processes |-> Down] /\ saver' = [q \in Processes |-> Idle]
      /\ UNCHANGED <<files, disk, dirSyncs, served, kept>>
  BY DEF Kill, MemoryOK
<1>2. FilesOK'
  BY <1>1 DEF FilesOK
<1>3. proc'[p].up = "down" /\ MemoryOK' /\ PendingOK(p)' /\ SaverOK(p)' /\ JournalingOK(p)'
  BY <1>1, <1>2, EndedIs
<1>4. AckedOK(p)'
  <2>1. JournalImages' = JournalImages
    BY <1>1 DEF JournalImages, Unsynced, SameJournal
  <2> QED
    BY <1>1, <1>3, <2>1 DEF AckedOK, Durable
<1> QED
  BY <1>2, <1>3, <1>4

(* A power cut leaves an image, and the image is then what is durable.     *)
LEMMA PowerLossInv ==
    ASSUME NEW p, Processes = {p}, FilesInv(p), PowerLoss
    PROVE  FilesInv(p)'
<1> USE DEF FilesInv
<1>1. /\ proc' = [q \in Processes |-> Down] /\ saver' = [q \in Processes |-> Idle]
      /\ UNCHANGED <<dirSyncs, served, kept>>
  BY DEF PowerLoss
<1>2. PICK image \in Images : /\ disk' = image
                             /\ files' = [files EXCEPT !.state = image.state, !.journal = image.journal]
  BY Zenon DEF PowerLoss
<1>3. /\ image.state \in {disk.state, files.state} /\ image.journal \in JournalImages
      /\ StateOK(image.state, served) /\ JournalOK(image.journal, served)
  BY ImagesOK
<1>4. image = [state |-> image.state, journal |-> image.journal]
  BY DEF Images
<1>5. /\ files'.state = image.state /\ files'.journal = image.journal
      /\ files' = [state |-> files'.state, tmp |-> files'.tmp, journal |-> files'.journal]
      /\ disk'.state = image.state /\ disk'.journal = image.journal
      /\ disk' = [state |-> disk'.state, journal |-> disk'.journal]
  BY <1>2, <1>4 DEF FilesOK
<1>6. FilesOK'
  BY <1>1, <1>3, <1>5 DEF FilesOK
<1>7. proc'[p].up = "down" /\ MemoryOK' /\ PendingOK(p)' /\ SaverOK(p)' /\ JournalingOK(p)'
  BY <1>1, <1>6, EndedIs
<1>8. AckedOK(p)'
  <2>1. ~Unsynced'
    <3> SUFFICES ASSUME image.journal.kind = "whole" PROVE ~Unsynced'
      BY <1>5 DEF Unsynced
    <3>1. Len(image.journal.items) \in Nat
      BY <1>3 DEF JournalOK, NoFile, Chained
    <3> QED
      BY <1>5, <3>1 DEF Unsynced, SameJournal
  <2>2. JournalImages' = {image.journal}
    BY <1>5, <2>1 DEF JournalImages
  <2> QED
    BY <1>1, <1>3, <1>5, <1>7, <2>2 DEF AckedOK, Durable
<1> QED
  BY <1>6, <1>7, <1>8

-----------------------------------------------------------------------------
(* Every step, and what every run of one process shows.                    *)

(* No step of a process, and no fault, ends what FilesInv says: blocks,    *)
(* records, saves, starts, stops, kills and power cuts in any order.       *)
LEMMA NextInv ==
    ASSUME NEW p, Processes = {p}, FilesInv(p), [FilesNext]_fileVars
    PROVE  FilesInv(p)'
<1>1. ASSUME BlockApplied(p) \/ BlockRejected(p) PROVE FilesInv(p)'
  BY <1>1, ApplyBlockInv, RejectBlockInv
<1>2. ASSUME AppendStep(p) \/ AppendFails(p) PROVE FilesInv(p)'
  BY <1>2, AppendSkippedInv, AppendBeginsInv, AppendWrittenInv, AppendSyncedInv, AppendFailsInv
     DEF AppendStep
<1>3. ASSUME Autosave(p) PROVE FilesInv(p)'
  <2>1. SaveBegins(p, "loop") /\ UNCHANGED <<disk, dirSyncs, proc, lock, starts, served, kept>>
    BY <1>3 DEF Autosave
  <2>2. proc[p].up # "down" /\ "loop" \in {"loop", "shutdown"}
    BY <1>3 DEF Autosave, LoopRuns
  <2> QED
    BY <2>1, <2>2, SaveBeginsInv
<1>4. ASSUME ShutdownSave(p) PROVE FilesInv(p)'
  <2>1. SaveBegins(p, "shutdown") /\ UNCHANGED <<disk, dirSyncs, proc, lock, starts, served, kept>>
    BY <1>4 DEF ShutdownSave
  <2>2. proc[p].up # "down" /\ "shutdown" \in {"loop", "shutdown"}
    BY <1>4 DEF ShutdownSave
  <2> QED
    BY <2>1, <2>2, SaveBeginsInv
<1>5. ASSUME SaveStep(p) PROVE FilesInv(p)'
  BY <1>5, SaveStagedInv, SaveRenamedInv, SaveFailsInv, SaveSyncedInv,
     JournalRenamedInv, JournalRotatedInv, RotationFailsInv DEF SaveStep
<1>6. ASSUME NEW restore \in BOOLEAN, Start(p, restore) PROVE FilesInv(p)'
  BY <1>6, StartInv
<1>7. ASSUME Bootstrap(p) \/ Serve(p) \/ Signal(p) \/ Kill(p) PROVE FilesInv(p)'
  BY <1>7, BootstrapInv, ServeInv, SignalInv, KillInv
<1>8. CASE PowerLoss
  BY <1>8, PowerLossInv
<1>9. CASE UNCHANGED fileVars
  <2>1. UNCHANGED <<files, disk, dirSyncs, proc, saver, served, kept>>
    BY <1>9 DEF fileVars
  <2>2. FilesOK' /\ MemoryOK' /\ PendingOK(p)' /\ SaverOK(p)' /\ JournalingOK(p)'
    BY <2>1 DEF FilesInv, FilesOK, MemoryOK, Memories, PendingOK, SaverOK, JournalingOK, GoesOnFrom
  <2>3. JournalImages' = JournalImages
    BY <2>1 DEF JournalImages, Unsynced, SameJournal
  <2>4. AckedOK(p)'
    BY <2>1, <2>3 DEF FilesInv, AckedOK, Durable
  <2> QED
    BY <2>2, <2>4 DEF FilesInv
<1>10. CASE \E q \in Processes :
              \/ BlockApplied(q) \/ BlockRejected(q)
              \/ AppendStep(q) \/ AppendFails(q)
              \/ Autosave(q) \/ ShutdownSave(q) \/ SaveStep(q)
              \/ \E restore \in BOOLEAN : Start(q, restore)
              \/ Bootstrap(q) \/ Serve(q) \/ Signal(q) \/ Kill(q)
  BY <1>1, <1>2, <1>3, <1>4, <1>5, <1>6, <1>7, <1>10
<1> QED
  BY <1>8, <1>9, <1>10 DEF FilesNext

(* FilesInv is inductive: it holds in every state of every run in which    *)
(* one process at a time owns the state path.                              *)
LEMMA FilesAlways ==
    ASSUME NEW p, Processes = {p}
    PROVE  FilesSpec => []FilesInv(p)
<1>1. FilesInit => FilesInv(p)
  BY InitInv
<1>2. FilesInv(p) /\ [FilesNext]_fileVars => FilesInv(p)'
  BY NextInv
<1> QED
  BY <1>1, <1>2, PTL DEF FilesSpec

(* The staging file, its sync and the rename of state::save keep the state *)
(* file whole, or absent, at every step and through every fault.           *)
THEOREM StateFileAlwaysWhole ==
    ASSUME NEW p, Processes = {p}
    PROVE  FilesSpec => []StateFileIsWhole
<1>1. FilesInv(p) => StateFileIsWhole
  BY InvImplies
<1> QED
  BY <1>1, FilesAlways, PTL

(* restore_journal replays no delta on cells it was not computed from:     *)
(* whatever a kill or a power cut leaves restores to a state that was      *)
(* served.                                                                 *)
THEOREM AlwaysRestoresToServed ==
    ASSUME NEW p, Processes = {p}
    PROVE  FilesSpec => []RestoresToServed
<1>1. FilesInv(p) => RestoresToServed
  BY InvImplies
<1> QED
  BY <1>1, FilesAlways, PTL

(* Where the parent directory can be synced, what state::save or append    *)
(* reported while the names leading to it were on disk is found by the     *)
(* restore after any fault, whatever was saved, appended, adopted or cut   *)
(* off since, and with the names of later files on disk or not.            *)
THEOREM AcknowledgedIsDurable ==
    ASSUME NEW p, Processes = {p}
    PROVE  FilesSpec => []NothingAcknowledgedLost
<1>1. FilesInv(p) => NothingAcknowledgedLost
  BY InvImplies
<1> QED
  BY <1>1, FilesAlways, PTL

(* append_delta keeps the journal level with the follow loop: a restart    *)
(* finds the very state that is served, but for the block being journaled. *)
THEOREM JournalAlwaysKeepsUp ==
    ASSUME NEW p, Processes = {p}
    PROVE  FilesSpec => []JournalKeepsUp
<1>1. FilesInv(p) => JournalKeepsUp
  BY InvImplies
<1> QED
  BY <1>1, FilesAlways, PTL
=============================================================================
