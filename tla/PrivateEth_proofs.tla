--------------------------- MODULE PrivateEth_proofs ---------------------------
(***************************************************************************)
(* The node, and the node with its clients, for all tables, sequences of   *)
(* any length and any number of clients, accounts, slots and blocks.       *)
(*                                                                         *)
(* The argument about the node.  On facts about the cell array and about   *)
(* sums of per-block deltas rests the node's inductive invariant.  Its     *)
(* core is RingOK and DiskOK: the ring and the journal are runs, sequences *)
(* of deltas that lead from one archived state of the running lineage to   *)
(* the next, the ring's ending in the state the hints describe.            *)
(*                                                                         *)
(* The argument about the client.  Its session is a state of its own       *)
(* lineage, a response it holds is another, and two states of one lineage  *)
(* at one block are the same, so what it decodes is the chain's.           *)
(***************************************************************************)
EXTENDS PrivateEth, NaturalLemmas, FiniteSetTheorems, TLAPS

-----------------------------------------------------------------------------
(* Cell-wise arithmetic.                                                   *)

(* Sums and differences of cell maps are cell maps.                        *)
LEMMA CellMaps ==
    /\ NoChange \in DeltaMap
    /\ \A d, e \in DeltaMap : Plus(d, e) \in DeltaMap /\ Minus(d, e) \in DeltaMap
BY DEF NoChange, Plus, Minus, DeltaMap

(* Adding nothing changes nothing.                                         *)
LEMMA PlusNoChange == \A d \in DeltaMap : Plus(d, NoChange) = d
BY DEF NoChange, Plus, DeltaMap

(* Sums associate.                                                         *)
LEMMA PlusAssociative ==
    \A d, e, f \in DeltaMap : Plus(Plus(d, e), f) = Plus(d, Plus(e, f))
BY DEF Plus, DeltaMap

(* A state differs from itself by nothing.                                 *)
LEMMA MinusSelf == \A d \in DeltaMap : Minus(d, d) = NoChange
BY DEF Minus, NoChange, DeltaMap

(* The difference of two states leads from the one to the other.           *)
LEMMA PlusMinus == \A d, e \in DeltaMap : Plus(d, Minus(e, d)) = e
BY DEF Plus, Minus, DeltaMap

-----------------------------------------------------------------------------
(* Tables.                                                                 *)

(* A table laid out for some balances reads back those balances.           *)
LEMMA BalanceInLaid ==
    ASSUME NEW bal \in Ledger, NEW p \in Placements(bal), NEW a \in Accounts
    PROVE  BalanceIn(Laid(bal, p), a) = bal[a]
<1> DEFINE D == Laid(bal, p)
<1>1. Candidates[a] \subseteq Slots
  BY CellsAssumption
<1>2. p \in [Holding(bal) -> Slots]
  BY DEF Placements
<1>3. ASSUME NEW s \in Candidates[a]
      PROVE  D[<<s, a>>] = IF a \in Holding(bal) /\ p[a] = s THEN bal[a] ELSE 0
  BY <1>1, <1>2 DEF Laid, Cells
<1> HIDE DEF D
<1>4. CASE bal[a] = 0
  <2>1. \A s \in Candidates[a] : D[<<s, a>>] = 0
    BY <1>3, <1>4
  <2> QED
    BY <2>1, <1>4 DEF BalanceIn, D
<1>5. CASE bal[a] # 0
  <2>1. a \in Holding(bal) /\ p[a] \in Candidates[a]
    BY <1>5 DEF Holding, Placements
  <2>2. D[<<p[a], a>>] = bal[a]
    BY <2>1, <1>3
  <2>3. \A s \in Candidates[a] : D[<<s, a>>] # 0 => s = p[a]
    BY <2>1, <1>3
  <2>4. (CHOOSE s \in Candidates[a] : D[<<s, a>>] # 0) = p[a]
    BY <2>1, <2>2, <2>3, <1>5
  <2> QED
    BY <2>1, <2>2, <2>4, <1>5 DEF BalanceIn, D
<1> QED
  BY <1>4, <1>5

(* A balance read from a table is a number.                                *)
LEMMA BalanceInteger ==
    ASSUME NEW D \in DeltaMap, NEW a \in Accounts
    PROVE  BalanceIn(D, a) \in Int
<1>1. Candidates[a] \subseteq Slots
  BY CellsAssumption
<1>2. \A s \in Candidates[a] : D[<<s, a>>] \in Int
  BY <1>1 DEF DeltaMap, Cells
<1>3. CASE \E s \in Candidates[a] : D[<<s, a>>] # 0
  <2>1. (CHOOSE s \in Candidates[a] : D[<<s, a>>] # 0) \in Candidates[a]
    BY <1>3
  <2> QED
    BY <1>2, <1>3, <2>1 DEF BalanceIn
<1> QED
  BY <1>3 DEF BalanceIn

(* Whatever an update does to the layout, the table it leaves is a table   *)
(* and holds the balances it was to hold.                                  *)
LEMMA RewritesHold ==
    ASSUME NEW bal \in Ledger, NEW D, NEW after \in Rewrites(D, bal)
    PROVE  /\ after \in DeltaMap
           /\ \A a \in Accounts : BalanceIn(after, a) = bal[a]
<1>1. PICK p \in Placements(bal) : after = Laid(bal, p)
  BY DEF Rewrites
<1>2. \A x \in Cells : x[2] \in Accounts
  BY DEF Cells
<1>3. after \in DeltaMap
  BY <1>1, <1>2 DEF Laid, DeltaMap, Ledger
<1> QED
  BY <1>1, <1>3, BalanceInLaid

-----------------------------------------------------------------------------
(* Sums of deltas.                                                         *)

(* The equations of the partial sums up to n.                              *)
PartialSums(f, seq, picked, n) ==
    f = [i \in 0 .. n |->
           IF i = 0 THEN NoChange
           ELSE IF i \in picked THEN Plus(f[i - 1], seq[i].cells)
           ELSE f[i - 1]]

(* The partial sums of a sequence of deltas exist.                         *)
LEMMA PartialSumsExist ==
    ASSUME NEW seq, NEW picked, NEW n \in Nat
    PROVE  \E f : PartialSums(f, seq, picked, n)
<1> DEFINE Bad == {m \in Nat : ~ \E f : PartialSums(f, seq, picked, m)}
<1>1. SUFFICES Bad = {}
  OBVIOUS
<1>2. SUFFICES ASSUME Bad # {} PROVE FALSE
  OBVIOUS
<1>3. PICK m \in Bad : \A k \in Bad : m <= k
  BY <1>2, LeastNat
<1>6. m \in Nat
  OBVIOUS
<1>4. CASE m = 0
  <2>1. PartialSums([i \in 0 .. 0 |-> NoChange], seq, picked, 0)
    BY DEF PartialSums
  <2> QED
    BY <2>1, <1>4
<1>5. CASE m # 0
  <2>1. m - 1 \in Nat /\ m - 1 \notin Bad
    BY <1>3, <1>5
  <2>2. PICK f : PartialSums(f, seq, picked, m - 1)
    BY <2>1
  <2> DEFINE last == IF m \in picked THEN Plus(f[m - 1], seq[m].cells) ELSE f[m - 1]
             g == [i \in 0 .. m |-> IF i = m THEN last ELSE f[i]]
  <2>3. \A i \in 0 .. m - 1 : g[i] = f[i]
    OBVIOUS
  <2>4. ASSUME NEW i \in 0 .. m
        PROVE  g[i] = IF i = 0 THEN NoChange
                      ELSE IF i \in picked THEN Plus(g[i - 1], seq[i].cells)
                      ELSE g[i - 1]
    <3>1. CASE i = m
      BY <3>1, <2>3, <1>5, <2>1
    <3>2. CASE i # m
      <4> HIDE DEF g, last, Bad
      <4>1. i \in 0 .. m - 1 /\ (i # 0 => i - 1 \in 0 .. m - 1)
        BY <3>2, <1>6
      <4>2. f[i] = IF i = 0 THEN NoChange
                   ELSE IF i \in picked THEN Plus(f[i - 1], seq[i].cells)
                   ELSE f[i - 1]
        BY <4>1, <2>2, Zenon DEF PartialSums
      <4> QED
        BY <4>1, <4>2, <2>3
    <3> QED
      BY <3>1, <3>2
  <2> HIDE DEF last
  <2>5. PartialSums(g, seq, picked, m)
    BY <2>4 DEF PartialSums
  <2> HIDE DEF g
  <2> QED
    BY <2>5
<1> QED
  BY <1>4, <1>5

(* Coalesced is the last partial sum.                                      *)
LEMMA CoalescedIsSum ==
    ASSUME NEW seq, Len(seq) \in Nat, NEW picked
    PROVE  \E f : /\ PartialSums(f, seq, picked, Len(seq))
                  /\ Coalesced(seq, picked) = f[Len(seq)]
<1> DEFINE sum == CHOOSE f : PartialSums(f, seq, picked, Len(seq))
<1>1. PartialSums(sum, seq, picked, Len(seq))
  BY PartialSumsExist
<1>2. Coalesced(seq, picked) = sum[Len(seq)]
  BY DEF Coalesced, PartialSums
<1> QED
  BY <1>1, <1>2

(* The sum of a run of consecutive deltas leads from the state before the  *)
(* first to the state after the last: this is what lets a client bridge    *)
(* any number of blocks with one /sync, and a restart replay a journal.    *)
LEMMA CoalescedBridges ==
    ASSUME NEW seq \in Seq(DeltaRecord),
           NEW F \in [0 .. Len(seq) -> DeltaMap],
           NEW lo \in 0 .. Len(seq), NEW hi \in lo .. Len(seq),
           \A i \in lo + 1 .. hi : F[i] = Plus(F[i - 1], seq[i].cells)
    PROVE  /\ Coalesced(seq, lo + 1 .. hi) \in DeltaMap
           /\ Plus(F[lo], Coalesced(seq, lo + 1 .. hi)) = F[hi]
<1> DEFINE n == Len(seq)
           picked == lo + 1 .. hi
           Goal(i) == IF i <= lo THEN NoChange
                      ELSE IF i <= hi THEN Minus(F[i], F[lo]) ELSE Minus(F[hi], F[lo])
<1>1. n \in Nat /\ lo \in Nat /\ hi \in Nat /\ lo <= hi /\ hi <= n
  OBVIOUS
<1>2. PICK f : PartialSums(f, seq, picked, n) /\ Coalesced(seq, picked) = f[n]
  BY <1>1, CoalescedIsSum
<1>3. ASSUME NEW i \in 1 .. n PROVE seq[i].cells \in DeltaMap
  <2>1. seq[i] \in DeltaRecord
    OBVIOUS
  <2> QED
    BY <2>1 DEF DeltaRecord
<1>4. ASSUME NEW i \in 0 .. n
      PROVE  f[i] = IF i = 0 THEN NoChange
                    ELSE IF i \in picked THEN Plus(f[i - 1], seq[i].cells)
                    ELSE f[i - 1]
  BY <1>2 DEF PartialSums
<1> DEFINE Bad == {i \in 0 .. n : f[i] # Goal(i)}
<1>5. Bad = {}
  <2>1. SUFFICES ASSUME Bad # {} PROVE FALSE
    OBVIOUS
  <2>2. Bad \in SUBSET Nat
    OBVIOUS
  <2>3. PICK i \in Bad : \A k \in Bad : i <= k
    BY <2>1, <2>2, LeastNat
  <2>4. i \in 0 .. n /\ f[i] # Goal(i)
    BY <2>3
  <2>5. i # 0
    BY <2>4, <1>4, <1>1
  <2>6. i - 1 \in 0 .. n /\ i - 1 \notin Bad
    BY <2>3, <2>4, <2>5, <1>1
  <2>7. f[i - 1] = Goal(i - 1)
    BY <2>6
  <2> HIDE DEF Bad
  <2>8. CASE i <= lo
    BY <2>4, <2>5, <2>7, <2>8, <1>1, <1>4
  <2>9. CASE i > hi
    <3>1. i \notin picked /\ f[i] = f[i - 1]
      BY <2>4, <2>5, <2>9, <1>1, <1>4
    <3>2. F[lo] \in DeltaMap
      BY <1>1
    <3> QED
      BY <2>4, <2>5, <2>7, <2>9, <3>1, <3>2, <1>1, MinusSelf
  <2>10. CASE i \in picked
    <3>1. f[i] = Plus(f[i - 1], seq[i].cells) /\ F[i] = Plus(F[i - 1], seq[i].cells)
      BY <2>4, <2>5, <2>10, <1>4
    <3>2. /\ F[i - 1] \in DeltaMap /\ F[lo] \in DeltaMap /\ F[i] \in DeltaMap
          /\ seq[i].cells \in DeltaMap
      <4>1. i - 1 \in 0 .. n /\ lo \in 0 .. n /\ i \in 1 .. n
        BY <2>4, <2>5, <2>6, <1>1
      <4>2. F[i - 1] \in DeltaMap /\ F[lo] \in DeltaMap /\ F[i] \in DeltaMap
        BY <4>1
      <4>3. seq[i].cells \in DeltaMap
        BY <4>1, <1>3
      <4> QED
        BY <4>2, <4>3
    <3>3. CASE i = lo + 1
      <4>1. f[i - 1] = NoChange /\ F[i - 1] = F[lo]
        BY <3>3, <2>7, <1>1
      <4>2. f[i] = Minus(F[i], F[lo])
        BY <3>1, <3>2, <4>1 DEF Plus, Minus, NoChange, DeltaMap
      <4> QED
        BY <4>2, <2>4, <2>10, <1>1
    <3>4. CASE i # lo + 1
      <4>1. f[i - 1] = Minus(F[i - 1], F[lo])
        BY <3>4, <2>7, <2>10, <1>1
      <4>2. f[i] = Minus(F[i], F[lo])
        BY <3>1, <3>2, <4>1, SMTT(30) DEF Plus, Minus, DeltaMap
      <4> QED
        BY <4>2, <2>4, <2>10, <1>1
    <3> QED
      BY <3>3, <3>4
  <2> QED
    BY <2>4, <2>8, <2>9, <2>10, <1>1
<1>6. f[n] = Goal(n)
  BY <1>5, <1>1
<1>7. F[lo] \in DeltaMap /\ F[hi] \in DeltaMap
  BY <1>1
<1>8. CASE n <= lo
  BY <1>8, <1>1, <1>2, <1>6, <1>7, CellMaps, PlusNoChange
<1>9. CASE n > lo
  <2>1. f[n] = Minus(F[hi], F[lo]) \/ (hi = lo /\ f[n] = Minus(F[hi], F[lo]))
    BY <1>9, <1>1, <1>6
  <2> QED
    BY <2>1, <1>2, <1>7, CellMaps, PlusMinus
<1> QED
  BY <1>1, <1>8, <1>9

-----------------------------------------------------------------------------
(* The node's state.                                                       *)

(* The states G[0], G[1], ... that the deltas of seq lead through, starting *)
(* at block b0.                                                            *)
Path(G, seq, b0) ==
    /\ G \in [0 .. Len(seq) -> DeltaMap]
    /\ \A i \in 1 .. Len(seq) : seq[i].block = b0 + i /\ G[i] = Plus(G[i - 1], seq[i].cells)

(* All of them states of the running lineage.                              *)
Run(G, seq, b0) ==
    /\ Path(G, seq, b0)
    /\ \A i \in 0 .. Len(seq) : Snapshot(epoch, b0 + i, complete, G[i]) \in archive

ArchiveOK ==
    /\ \A r \in archive : r.epoch <= epoch /\ r.block <= Len(chain)
    /\ \A r \in archive : r.epoch = epoch =>
         r.complete = complete /\ (epoch \notin damaged => r.block <= block)
    /\ \A r \in archive : r.epoch \notin damaged => Truthful(r.contents, r.block, r.complete)
    /\ \A r, s \in archive :
         r.epoch = s.epoch /\ r.block = s.block /\ r.epoch \notin damaged => r = s

HeadOK ==
    /\ Snapshot(epoch, block, complete, hinted) \in archive
    /\ epoch \notin damaged => cells = hinted

RingOK == \E G : Run(G, ring, block - Len(ring)) /\ G[Len(ring)] = hinted

CacheOK == setupCache # NoSetup =>
    Snapshot(epoch, setupCache.block, complete, setupCache.contents) \in archive

(* The state E that the disk can restore is the head, or the append of the *)
(* head's own delta is still to come.                                      *)
UpToDate(E) ==
    \/ saved.block + Len(journal.records) = block /\ E = hinted
    \/ /\ pending
       /\ saved.block + Len(journal.records) = block - 1
       /\ Plus(E, ring[Len(ring)].cells) = hinted

DiskOK ==
    /\ journaling = "on" => saved # NoState
    /\ pending => ring # <<>>
    /\ saved # NoState =>
         /\ epoch \notin damaged => saved.cells = saved.hinted
         /\ \E G : /\ Run(G, journal.records, saved.block)
                   /\ G[0] = saved.hinted
                   /\ journaling = "on" => UpToDate(G[Len(journal.records)])

NodeInv == NodeTypeOK /\ ArchiveOK /\ HeadOK /\ RingOK /\ CacheOK /\ DiskOK

-----------------------------------------------------------------------------
(* Reading the ring.                                                       *)

(* When the ring is a run, the blocks /sync picks are consecutive: a reply *)
(* covers exactly the range asked for, and leads from the lineage's state  *)
(* at its start to the one at its end.                                     *)
LEMMA SyncBridges ==
    ASSUME NodeTypeOK, RingOK,
           NEW from \in Nat, NEW to \in Nat,
           SyncReply(epoch, from, to) # Refused
    PROVE  \E D, E \in DeltaMap :
             /\ Snapshot(epoch, from, complete, D) \in archive
             /\ Snapshot(epoch, to, complete, E) \in archive
             /\ SyncReply(epoch, from, to).block = to
             /\ SyncReply(epoch, from, to).cells \in DeltaMap
             /\ Plus(D, SyncReply(epoch, from, to).cells) = E
             /\ to <= block /\ from < to
             /\ to = block => E = hinted
<1> DEFINE n == Len(ring)
           b0 == block - n
           picked == Picked(ring, from, to)
           lo == from - b0
           hi == to - b0
<1>1. n \in Nat /\ b0 \in Int /\ block \in Nat /\ ring \in Seq(DeltaRecord)
  BY DEF NodeTypeOK
<1>2. PICK G : Run(G, ring, b0) /\ G[n] = hinted
  BY DEF RingOK
<1>3. from < to /\ Cardinality(picked) = to - from
  BY DEF SyncReply
<1>4. picked = {i \in 1 .. n : lo < i /\ i <= hi}
  <2>1. \A i \in 1 .. n : ring[i].block = b0 + i
    BY <1>2 DEF Run, Path
  <2>2. \A i \in 1 .. n : (from < ring[i].block /\ ring[i].block <= to) <=> (lo < i /\ i <= hi)
    BY <1>1, <2>1
  <2> HIDE DEF lo, hi
  <2> QED
    BY <2>2 DEF Picked
<1>5. lo \in Int /\ hi \in Int /\ hi - lo = to - from /\ lo < hi
  BY <1>1, <1>3
<1> DEFINE first == IF lo < 0 THEN 1 ELSE lo + 1
           last == IF hi > n THEN n ELSE hi
<1>6. picked = first .. last /\ first \in Int /\ last \in Int
  <2>1. first \in Int /\ last \in Int
    BY <1>1, <1>5
  <2> HIDE DEF picked, lo, hi, n, b0
  <2>2. ASSUME NEW i \in picked PROVE i \in first .. last
    BY <1>1, <1>4, <1>5
  <2>3. ASSUME NEW i \in first .. last PROVE i \in picked
    BY <1>1, <1>4, <1>5
  <2> QED
    BY <2>1, <2>2, <2>3
<1>7. Cardinality(picked) = IF first > last THEN 0 ELSE last - first + 1
  <2> HIDE DEF first, last
  <2> QED BY <1>6, FS_Interval
<1>8. 0 <= lo /\ hi <= n /\ picked = lo + 1 .. hi
  <2> HIDE DEF picked, lo, hi, n
  <2> QED BY <1>1, <1>3, <1>5, <1>6, <1>7
<1>9. /\ lo \in 0 .. n /\ hi \in lo .. n
      /\ G \in [0 .. n -> DeltaMap]
      /\ \A i \in lo + 1 .. hi : G[i] = Plus(G[i - 1], ring[i].cells)
  <2>1. Path(G, ring, b0)
    BY <1>2 DEF Run
  <2> HIDE DEF lo, hi, picked, b0
  <2>2. lo \in 0 .. n /\ hi \in lo .. n
    BY <1>1, <1>5, <1>8
  <2>3. G \in [0 .. n -> DeltaMap]
    BY <2>1 DEF Path
  <2>4. \A i \in 1 .. n : G[i] = Plus(G[i - 1], ring[i].cells)
    BY <2>1 DEF Path
  <2>5. \A i \in lo + 1 .. hi : i \in 1 .. n
    <3> HIDE DEF n
    <3> QED BY <1>1, <2>2
  <2> QED
    BY <2>2, <2>3, <2>4, <2>5
<1>10. Coalesced(ring, picked) \in DeltaMap /\ Plus(G[lo], Coalesced(ring, picked)) = G[hi]
  <2> HIDE DEF picked, lo, hi
  <2> QED BY <1>1, <1>8, <1>9, CoalescedBridges
<1>11. /\ Snapshot(epoch, b0 + lo, complete, G[lo]) \in archive
       /\ Snapshot(epoch, b0 + hi, complete, G[hi]) \in archive
  <2>1. lo \in 0 .. n /\ hi \in 0 .. n
    BY <1>1, <1>9
  <2> HIDE DEF lo, hi
  <2> QED BY <2>1, <1>2 DEF Run, Path
<1>12. b0 + lo = from /\ b0 + hi = to /\ to <= block /\ (to = block => hi = n)
  BY <1>1, <1>8
<1>13. SyncReply(epoch, from, to) = [block |-> to, cells |-> Coalesced(ring, picked)]
  BY DEF SyncReply
<1>14. G[lo] \in DeltaMap /\ G[hi] \in DeltaMap
  <2> HIDE DEF lo, hi
  <2> QED BY <1>1, <1>9
<1> HIDE DEF lo, hi, picked, b0, n
<1> QED
  BY <1>2, <1>3, <1>10, <1>11, <1>12, <1>13, <1>14

-----------------------------------------------------------------------------
(* Initial states and bootstraps.                                          *)

(* A fresh table is truthful at the block it was built for.                *)
LEMMA FreshTablesTruthful ==
    ASSUME NEW mode \in BOOLEAN, NEW b \in 1 .. Len(chain), chain \in Seq(Block),
           NEW D \in FreshTables(mode, chain[b].bal)
    PROVE  D \in DeltaMap /\ Truthful(D, b, mode)
<1> DEFINE bal == IF mode THEN chain[b].bal ELSE [a \in Accounts |-> 0]
<1>1. chain[b] \in Block
  OBVIOUS
<1>2. bal \in Ledger
  BY <1>1 DEF Block, Ledger
<1>3. D \in Rewrites(NoChange, bal)
  BY DEF FreshTables
<1>4. D \in DeltaMap /\ \A a \in Accounts : BalanceIn(D, a) = bal[a]
  <2> HIDE DEF bal
  <2> QED BY <1>2, <1>3, RewritesHold
<1> QED
  BY <1>4 DEF Truthful

(* An empty sequence is a run from any archived state.                     *)
LEMMA EmptyRun ==
    ASSUME NEW D \in DeltaMap, NEW b \in Int, Snapshot(epoch, b, complete, D) \in archive
    PROVE  Run([i \in {0} |-> D], <<>>, b)
<1>1. 0 .. Len(<<>>) = {0} /\ 1 .. Len(<<>>) = {}
  OBVIOUS
<1>2. b + 0 = b
  OBVIOUS
<1> QED
  BY <1>1, <1>2 DEF Run, Path

(* The invariant holds initially.                                          *)
LEMMA InitInv == NodeInit => NodeInv
<1> SUFFICES ASSUME NodeInit PROVE NodeInv
  OBVIOUS
<1>0. /\ epoch = 1 /\ complete \in Modes /\ block = 1
      /\ cells \in FreshTables(complete, chain[1].bal) /\ hinted = cells
      /\ ring = <<>> /\ following = TRUE /\ setupCache = NoSetup /\ pending = FALSE
      /\ saved = NoState /\ journal = NoJournal /\ journaling = "off"
      /\ archive = {Snapshot(1, 1, complete, cells)} /\ damaged = {}
  BY DEF NodeInit
<1>1. PICK ledger \in [Accounts -> Balances] : chain = <<[bal |-> ledger, credited |-> {}]>>
  BY DEF NodeInit
<1>2. chain \in Seq(Block) /\ Len(chain) = 1 /\ chain # <<>>
  <2>1. ledger \in Ledger
    <3>1. Balances \subseteq Int
      BY NodeAssumption
    <3> QED
      BY <3>1 DEF Ledger
  <2>2. [bal |-> ledger, credited |-> {}] \in Block
    BY <2>1 DEF Block
  <2> QED
    BY <1>1, <2>2
<1>3. complete \in BOOLEAN
  BY <1>0, NodeAssumption
<1>4. cells \in DeltaMap /\ Truthful(cells, 1, complete)
  BY <1>0, <1>2, <1>3, FreshTablesTruthful
<1>5. NodeTypeOK
  <2>1. journal \in [bound : BOOLEAN, records : Seq(DeltaRecord)]
    BY <1>0 DEF NoJournal
  <2>2. archive \subseteq [epoch : Nat \ {0}, block : Nat \ {0}, complete : BOOLEAN, contents : DeltaMap]
    BY <1>0, <1>3, <1>4 DEF Snapshot
  <2>3. ring \in Seq(DeltaRecord) /\ Len(ring) <= RingCapacity
    BY <1>0, NodeAssumption
  <2>4. epoch \in Nat \ {0} /\ block \in 1 .. Len(chain) /\ damaged \subseteq Nat
    BY <1>0, <1>2
  <2>5. following \in BOOLEAN /\ pending \in BOOLEAN /\ journaling \in {"on", "off", "broken"}
    BY <1>0
  <2>6. hinted \in DeltaMap
    BY <1>0, <1>4
  <2> QED
    BY <1>0, <1>2, <1>3, <1>4, <2>1, <2>2, <2>3, <2>4, <2>5, <2>6 DEF NodeTypeOK
<1>6. ArchiveOK
  BY <1>0, <1>2, <1>4 DEF ArchiveOK, Snapshot
<1>7. HeadOK
  BY <1>0 DEF HeadOK
<1>8. RingOK
  <2>1. Run([i \in {0} |-> hinted], ring, block - Len(ring))
    BY <1>0, <1>4, EmptyRun
  <2> QED
    BY <1>0, <2>1 DEF RingOK
<1> QED
  BY <1>0, <1>5, <1>6, <1>7, <1>8 DEF NodeInv, CacheOK, DiskOK

-----------------------------------------------------------------------------
(* Steps that leave the served state alone.                                *)

(* What does not touch the chain, the server, the ring or the history      *)
(* keeps what is said of them.                                             *)
LEMMA ServerFrame ==
    ASSUME ArchiveOK, HeadOK, RingOK,
           UNCHANGED <<chain, serverVars, ring, archive, damaged>>
    PROVE  ArchiveOK' /\ HeadOK' /\ RingOK'
<1> USE DEF serverVars
<1>1. ArchiveOK'
  BY DEF ArchiveOK, Truthful
<1>2. HeadOK'
  BY DEF HeadOK
<1>3. RingOK'
  BY DEF RingOK, Run, Path
<1> QED
  BY <1>1, <1>2, <1>3

(* The bundle cached by a setup request is one the lineage had.            *)
LEMMA SetupReplyArchived ==
    ASSUME NodeInv
    PROVE  /\ SetupReply \in [block : Nat \ {0}, contents : DeltaMap]
           /\ Snapshot(epoch, SetupReply.block, complete, SetupReply.contents) \in archive
<1>1. CASE CacheIsFresh
  BY <1>1 DEF NodeInv, NodeTypeOK, CacheOK, SetupReply, CacheIsFresh
<1>2. CASE ~CacheIsFresh
  <2>1. SetupReply = [block |-> block, contents |-> hinted]
    BY <1>2 DEF SetupReply
  <2>2. block \in Nat \ {0} /\ hinted \in DeltaMap
    BY DEF NodeInv, NodeTypeOK
  <2> QED
    BY <2>1, <2>2 DEF NodeInv, HeadOK
<1> QED
  BY <1>1, <1>2

(* Serving a setup request keeps the invariant.                            *)
LEMMA SetupKeepsInv ==
    ASSUME NodeInv, setupCache' = SetupReply,
           UNCHANGED <<chain, serverVars, historyVars, following, pending, diskVars,
                       journaling, archive, damaged>>
    PROVE  NodeInv'
<1> USE DEF serverVars, historyVars, diskVars
<1>1. NodeTypeOK'
  BY SetupReplyArchived DEF NodeInv, NodeTypeOK
<1>2. ArchiveOK' /\ HeadOK' /\ RingOK'
  BY ServerFrame DEF NodeInv
<1>3. CacheOK'
  BY SetupReplyArchived DEF CacheOK
<1>4. DiskOK'
  BY DEF NodeInv, DiskOK, Run, Path, UpToDate
<1> QED
  BY <1>1, <1>2, <1>3, <1>4 DEF NodeInv

(* A failed append keeps the invariant.                                    *)
LEMMA AppendFailsKeepsInv == NodeInv /\ AppendFails => NodeInv'
<1> SUFFICES ASSUME NodeInv, AppendFails PROVE NodeInv'
  OBVIOUS
<1> USE DEF serverVars, historyVars, diskVars
<1>1. NodeTypeOK'
  BY DEF NodeInv, NodeTypeOK, AppendFails
<1>2. ArchiveOK' /\ HeadOK' /\ RingOK'
  BY ServerFrame DEF NodeInv, AppendFails
<1>3. CacheOK'
  BY DEF NodeInv, CacheOK, AppendFails
<1>4. DiskOK'
  BY DEF NodeInv, DiskOK, Run, Path, AppendFails
<1> QED
  BY <1>1, <1>2, <1>3, <1>4 DEF NodeInv

(* The last delta of the ring is the head's.                               *)
LEMMA RingTop ==
    ASSUME NodeTypeOK, RingOK, ring # <<>>
    PROVE  /\ Len(ring) \in Nat \ {0}
           /\ ring[Len(ring)] \in DeltaRecord
           /\ ring[Len(ring)].block = block
<1>1. Len(ring) \in Nat \ {0} /\ ring[Len(ring)] \in DeltaRecord /\ block \in Nat
  BY DEF NodeTypeOK
<1>2. ring[Len(ring)].block = (block - Len(ring)) + Len(ring)
  BY <1>1 DEF RingOK, Run, Path
<1> QED
  BY <1>1, <1>2

(* A path G of seq goes on to D by the delta d.                             *)
GoesOn(G, seq, b0, d, D) ==
    \E H : /\ Path(H, Append(seq, d), b0)
          /\ H[Len(seq) + 1] = D
          /\ \A i \in 0 .. Len(seq) : H[i] = G[i]

(* A path is extended by the delta to its next state.                      *)
LEMMA PathExtended ==
    ASSUME NEW G, NEW seq \in Seq(DeltaRecord), NEW b0 \in Int, NEW d \in DeltaRecord,
           NEW D \in DeltaMap,
           Path(G, seq, b0), d.block = b0 + Len(seq) + 1, D = Plus(G[Len(seq)], d.cells)
    PROVE  GoesOn(G, seq, b0, d, D)
<1> DEFINE n == Len(seq)
           H == [i \in 0 .. n + 1 |-> IF i = n + 1 THEN D ELSE G[i]]
           longer == Append(seq, d)
<1>1. n \in Nat /\ Len(longer) = n + 1
  OBVIOUS
<1>2. longer[n + 1] = d /\ \A i \in 1 .. n : longer[i] = seq[i]
  OBVIOUS
<1>3. G \in [0 .. n -> DeltaMap]
  BY DEF Path
<1>4. H \in [0 .. n + 1 -> DeltaMap] /\ H[n + 1] = D /\ \A i \in 0 .. n : H[i] = G[i]
  BY <1>1, <1>3
<1> HIDE DEF H, longer, n
<1>5. ASSUME NEW i \in 1 .. n + 1
      PROVE  longer[i].block = b0 + i /\ H[i] = Plus(H[i - 1], longer[i].cells)
  <2>1. CASE i = n + 1
    BY <2>1, <1>1, <1>2, <1>4 DEF n
  <2>2. CASE i # n + 1
    <3>1. i \in 1 .. n /\ i \in 0 .. n /\ i - 1 \in 0 .. n
      BY <2>2, <1>1
    <3>2. seq[i].block = b0 + i /\ G[i] = Plus(G[i - 1], seq[i].cells)
      BY <3>1 DEF Path, n
    <3> QED
      BY <3>1, <3>2, <1>2, <1>4
  <2> QED
    BY <2>1, <2>2
<1>6. Path(H, longer, b0)
  BY <1>1, <1>4, <1>5 DEF Path
<1> QED
  BY <1>4, <1>6 DEF longer, n, GoesOn

(* What is left of a path when its first k steps are dropped is a path.    *)
LEMMA PathSuffix ==
    ASSUME NEW G, NEW seq \in Seq(DeltaRecord), NEW b0 \in Int, Path(G, seq, b0),
           NEW k \in 0 .. Len(seq), NEW short \in Seq(DeltaRecord),
           Len(short) = Len(seq) - k,
           \A i \in 1 .. Len(short) : short[i] = seq[i + k]
    PROVE  \E H : /\ Path(H, short, b0 + k)
                  /\ \A i \in 0 .. Len(short) : H[i] = G[i + k]
<1> DEFINE H == [i \in 0 .. Len(short) |-> G[i + k]]
<1>9. PICK n, m : n = Len(seq) /\ m = Len(short)
  OBVIOUS
<1>1. n \in Nat /\ k \in Nat /\ m \in Nat /\ n = m + k
  BY <1>9
<1>2. \A i \in 0 .. m : i + k \in 0 .. n
  BY <1>1
<1>3. H \in [0 .. m -> DeltaMap] /\ \A i \in 0 .. m : H[i] = G[i + k]
  <2>1. G \in [0 .. n -> DeltaMap]
    BY <1>9 DEF Path
  <2> QED
    BY <2>1, <1>2, <1>9
<1> HIDE DEF H
<1>4. ASSUME NEW i \in 1 .. m
      PROVE  short[i].block = b0 + k + i /\ H[i] = Plus(H[i - 1], short[i].cells)
  <2>1. i + k \in 1 .. n /\ i \in 0 .. m /\ i - 1 \in 0 .. m /\ (i + k) - 1 = (i - 1) + k
    BY <1>1
  <2>2. seq[i + k].block = b0 + (i + k) /\ G[i + k] = Plus(G[(i + k) - 1], seq[i + k].cells)
    BY <2>1, <1>9 DEF Path
  <2>3. short[i] = seq[i + k]
    BY <1>9
  <2> QED
    BY <1>1, <1>3, <2>1, <2>2, <2>3
<1>5. Path(H, short, b0 + k)
  BY <1>3, <1>4, <1>9 DEF Path
<1> QED
  BY <1>3, <1>5, <1>9

(* Journaling a delta keeps the invariant.                                 *)
LEMMA AppendDeltaKeepsInv == NodeInv /\ AppendDelta => NodeInv'
<1> SUFFICES ASSUME NodeInv, AppendDelta PROVE NodeInv'
  OBVIOUS
<1> USE DEF serverVars, historyVars, diskVars
<1> DEFINE last == ring[Len(ring)]
<1>0. /\ pending /\ pending' = FALSE
      /\ chain' = chain /\ epoch' = epoch /\ complete' = complete /\ block' = block
      /\ cells' = cells /\ hinted' = hinted /\ ring' = ring /\ following' = following
      /\ setupCache' = setupCache /\ saved' = saved /\ journaling' = journaling
      /\ archive' = archive /\ damaged' = damaged
  BY DEF AppendDelta
<1>1. last \in DeltaRecord /\ last.block = block /\ ring # <<>>
  BY <1>0, RingTop DEF NodeInv, DiskOK
<1>9. PICK n : n = Len(journal.records)
  OBVIOUS
<1>2. journal.records \in Seq(DeltaRecord) /\ n \in Nat /\ journal \in [bound : BOOLEAN, records : Seq(DeltaRecord)]
  BY <1>9 DEF NodeInv, NodeTypeOK
<1>3. ArchiveOK' /\ HeadOK' /\ RingOK'
  BY <1>0, ServerFrame DEF NodeInv
<1>4. CacheOK'
  BY <1>0 DEF NodeInv, CacheOK
<1>5. CASE /\ journaling = "on"
           /\ last.block = saved.block + n + 1
           /\ journal' = [journal EXCEPT !.records = Append(@, last)]
  <2>1. journal'.records = Append(journal.records, last) /\ journal' \in [bound : BOOLEAN, records : Seq(DeltaRecord)]
    <3>1. Append(journal.records, last) \in Seq(DeltaRecord)
      BY <1>1, <1>2
    <3> HIDE DEF last
    <3> QED BY <3>1, <1>2, <1>5
  <2>2. NodeTypeOK'
    BY <1>0, <2>1 DEF NodeInv, NodeTypeOK
  <2>3. saved # NoState /\ saved.block \in Nat /\ block \in Nat
    BY <1>5 DEF NodeInv, NodeTypeOK, DiskOK
  <2>4. PICK G : /\ Run(G, journal.records, saved.block)
                 /\ G[0] = saved.hinted
                 /\ UpToDate(G[n])
    BY <1>5, <1>9, <2>3 DEF NodeInv, DiskOK
  <2>5. hinted = Plus(G[n], last.cells)
    BY <1>1, <1>2, <1>5, <1>9, <2>3, <2>4 DEF UpToDate
  <2>6. hinted \in DeltaMap /\ Snapshot(epoch, block, complete, hinted) \in archive
    BY DEF NodeInv, NodeTypeOK, HeadOK
  <2>7. PICK H : /\ Run(H, Append(journal.records, last), saved.block)
                 /\ H[0] = saved.hinted /\ H[n + 1] = hinted
    <3>1. last.block = saved.block + n + 1 /\ saved.block \in Int
      BY <1>5, <2>3
    <3>2. Path(G, journal.records, saved.block)
      BY <2>4 DEF Run, Path
    <3> HIDE DEF last
    <3>3. PICK H : /\ Path(H, Append(journal.records, last), saved.block)
                   /\ H[n + 1] = hinted
                   /\ \A i \in 0 .. n : H[i] = G[i]
      <4>1. PICK seq, b0, d : seq = journal.records /\ b0 = saved.block /\ d = last
        OBVIOUS
      <4>2. seq \in Seq(DeltaRecord) /\ b0 \in Int /\ d \in DeltaRecord /\ hinted \in DeltaMap
        BY <1>1, <1>2, <2>6, <3>1, <4>1
      <4>3. Path(G, seq, b0)
        BY <3>2, <4>1
      <4>4. d.block = b0 + Len(seq) + 1 /\ hinted = Plus(G[Len(seq)], d.cells)
        BY <2>5, <3>1, <1>9, <4>1
      <4>5. GoesOn(G, seq, b0, d, hinted)
        BY <4>2, <4>3, <4>4, PathExtended
      <4> QED
        BY <4>1, <4>5, <1>9 DEF GoesOn
    <3>4. Len(Append(journal.records, last)) = n + 1
      BY <1>1, <1>2, <1>9
    <3>5. \A i \in 0 .. n : Snapshot(epoch, saved.block + i, complete, G[i]) \in archive
      BY <1>9, <2>4 DEF Run, Path
    <3>6. Snapshot(epoch, saved.block + (n + 1), complete, H[n + 1]) \in archive
      <4>1. saved.block + (n + 1) = block
        BY <1>1, <1>2, <2>3, <3>1
      <4> QED
        BY <4>1, <2>6, <3>3
    <3>7. \A i \in 0 .. n + 1 : Snapshot(epoch, saved.block + i, complete, H[i]) \in archive
      BY <1>2, <3>3, <3>5, <3>6
    <3>8. Run(H, Append(journal.records, last), saved.block)
      BY <3>3, <3>4, <3>7 DEF Run, Path
    <3>9. 0 \in 0 .. n
      BY <1>2
    <3> QED
      BY <2>4, <3>3, <3>8, <3>9
  <2>8. Len(journal'.records) = n + 1
    BY <1>1, <1>2, <1>9, <2>1
  <2>9. Run(H, journal.records, saved.block)' /\ H[0] = saved'.hinted
    BY <1>0, <2>1, <2>7 DEF Run, Path
  <2>10. UpToDate(H[n + 1])'
    BY <1>0, <1>1, <1>2, <1>5, <2>3, <2>7, <2>8 DEF UpToDate
  <2>11. DiskOK'
    BY <1>0, <2>3, <2>8, <2>9, <2>10 DEF NodeInv, DiskOK
  <2> QED
    BY <1>3, <1>4, <2>2, <2>11 DEF NodeInv
<1>6. CASE /\ journaling # "on" \/ last.block <= saved.block
           /\ UNCHANGED journal
  <2>1. NodeTypeOK'
    BY <1>0, <1>6 DEF NodeInv, NodeTypeOK
  <2>2. DiskOK'
    <3>1. CASE saved = NoState
      BY <3>1, <1>0, <1>6 DEF NodeInv, DiskOK
    <3>2. CASE saved # NoState
      <4>1. PICK G : /\ Run(G, journal.records, saved.block)
                     /\ G[0] = saved.hinted
                     /\ journaling = "on" => UpToDate(G[n])
        BY <1>9, <3>2 DEF NodeInv, DiskOK
      <4>2. saved.block \in Nat /\ block \in Nat
        BY <3>2 DEF NodeInv, NodeTypeOK
      <4>3. journaling = "on" => saved.block + n = block /\ G[n] = hinted
        BY <1>1, <1>2, <1>6, <1>9, <4>1, <4>2 DEF UpToDate
      <4>4. journaling = "on" => UpToDate(G[n])'
        BY <1>0, <1>6, <1>9, <4>3 DEF UpToDate
      <4>5. Run(G, journal.records, saved.block)'
        BY <1>0, <1>6, <4>1 DEF Run, Path
      <4> QED
        BY <1>0, <1>6, <1>9, <3>2, <4>1, <4>4, <4>5 DEF NodeInv, DiskOK
    <3> QED
      BY <3>1, <3>2
  <2> QED
    BY <1>3, <1>4, <2>1, <2>2 DEF NodeInv
<1> QED
  BY <1>5, <1>6, <1>9 DEF AppendDelta, InsideBase

(* A save keeps the invariant, whatever becomes of the journal.            *)
LEMMA SaveKeepsInv == NodeInv /\ SaveState => NodeInv'
<1> SUFFICES ASSUME NodeInv, SaveState PROVE NodeInv'
  OBVIOUS
<1> USE DEF serverVars, historyVars, diskVars
<1>0. /\ chain' = chain /\ epoch' = epoch /\ complete' = complete /\ block' = block
      /\ cells' = cells /\ hinted' = hinted /\ ring' = ring /\ following' = following
      /\ setupCache' = setupCache /\ pending' = pending
      /\ archive' = archive /\ damaged' = damaged
      /\ saved' = [block |-> block, cells |-> cells, hinted |-> hinted]
  BY DEF SaveState
<1>1. block \in Nat \ {0} /\ cells \in DeltaMap /\ hinted \in DeltaMap
  BY DEF NodeInv, NodeTypeOK
<1>2. ArchiveOK' /\ HeadOK' /\ RingOK'
  BY <1>0, ServerFrame DEF NodeInv
<1>3. CacheOK'
  BY <1>0 DEF NodeInv, CacheOK
<1>4. /\ saved' # NoState
      /\ saved' \in [block : Nat \ {0}, cells : DeltaMap, hinted : DeltaMap]
  BY <1>0, <1>1 DEF NoState
<1>5. /\ journal' \in [bound : BOOLEAN, records : Seq(DeltaRecord)]
      /\ journaling' \in {"on", "off", "broken"}
  <2>1. /\ journal \in [bound : BOOLEAN, records : Seq(DeltaRecord)]
        /\ NoJournal \in [bound : BOOLEAN, records : Seq(DeltaRecord)]
        /\ [bound |-> TRUE, records |-> <<>>] \in [bound : BOOLEAN, records : Seq(DeltaRecord)]
    BY DEF NodeInv, NodeTypeOK, NoJournal
  <2>2. journal' \in {journal, NoJournal, [bound |-> TRUE, records |-> <<>>]}
    BY DEF SaveState
  <2>3. journaling' \in {"on", "off", "broken"}
    BY DEF SaveState
  <2> QED
    BY <2>1, <2>2, <2>3
<1>6. NodeTypeOK'
  BY <1>0, <1>4, <1>5 DEF NodeInv, NodeTypeOK
<1>7. epoch \notin damaged => saved'.cells = saved'.hinted
  BY <1>0 DEF NodeInv, HeadOK
<1>8. CASE journal'.records = <<>>
  <2>1. PICK G : Run(G, <<>>, block) /\ G[0] = hinted
    BY <1>1, EmptyRun DEF NodeInv, HeadOK
  <2>2. Run(G, journal.records, saved.block)' /\ G[0] = saved'.hinted
    BY <1>0, <1>8, <2>1 DEF Run, Path
  <2>3. Len(journal'.records) = 0
    BY <1>8
  <2>4. UpToDate(G[0])'
    BY <1>0, <1>1, <2>1, <2>3 DEF UpToDate
  <2>5. DiskOK'
    BY <1>0, <1>4, <1>7, <2>2, <2>3, <2>4 DEF NodeInv, DiskOK
  <2> QED
    BY <1>2, <1>3, <1>6, <2>5 DEF NodeInv
<1>9. CASE saved' = saved /\ journal' = journal /\ journaling' # "on"
  <2>1. PICK G : Run(G, journal.records, saved.block) /\ G[0] = saved.hinted
    BY <1>4, <1>9 DEF NodeInv, DiskOK
  <2>2. Run(G, journal.records, saved.block)' /\ G[0] = saved'.hinted
    BY <1>0, <1>9, <2>1 DEF Run, Path
  <2>3. DiskOK'
    BY <1>0, <1>4, <1>7, <1>9, <2>2 DEF NodeInv, DiskOK
  <2> QED
    BY <1>2, <1>3, <1>6, <2>3 DEF NodeInv
<1> QED
  BY <1>8, <1>9 DEF SaveState, NoJournal

-----------------------------------------------------------------------------
(* Blocks.                                                                 *)

(* Fetching the next block extends the chain or finds it there.            *)
LEMMA NextBlockFetched ==
    ASSUME NodeTypeOK, NEW b \in NextBlocks(block + 1), Fetched(block + 1, b)
    PROVE  /\ b \in Block /\ chain' \in Seq(Block) /\ chain' # <<>>
           /\ Len(chain) <= Len(chain')
           /\ block + 1 \in 1 .. Len(chain') /\ chain'[block + 1] = b
           /\ \A n \in 1 .. Len(chain) : chain'[n] = chain[n]
<1>1. chain \in Seq(Block) /\ chain # <<>> /\ block \in 1 .. Len(chain) /\ block \in Nat
  BY DEF NodeTypeOK
<1>2. CASE block + 1 <= Len(chain)
  <2>1. b = chain[block + 1] /\ chain' = chain
    BY <1>2 DEF NextBlocks, Fetched
  <2> QED
    BY <1>1, <1>2, <2>1
<1>3. CASE ~(block + 1 <= Len(chain))
  <2>1. b \in [bal : [Accounts -> Balances], credited : SUBSET Accounts]
    BY <1>3 DEF NextBlocks
  <2>2. [Accounts -> Balances] \subseteq Ledger
    <3>1. Balances \subseteq Int
      BY NodeAssumption
    <3> QED
      BY <3>1 DEF Ledger
  <2>4. b \in Block
    BY <2>1, <2>2 DEF Block
  <2>5. chain' = Append(chain, b) /\ block = Len(chain)
    BY <1>1, <1>3 DEF Fetched
  <2> QED
    BY <1>1, <2>4, <2>5
<1> QED
  BY <1>2, <1>3

(* The balances a block leaves behind are numbers, and the table holds     *)
(* them.                                                                   *)
LEMMA UpdatedBalances ==
    ASSUME NodeTypeOK, NEW b \in Block, NEW done,
           NEW after \in Rewrites(cells, Updated(b, done))
    PROVE  /\ after \in DeltaMap
           /\ \A a \in Accounts : BalanceIn(after, a) = Updated(b, done)[a]
<1>1. cells \in DeltaMap /\ chain[block] \in Block
  BY DEF NodeTypeOK
<1>2. \A a \in Accounts : BalanceIn(cells, a) \in Int
  BY <1>1, BalanceInteger
<1>3. \A a \in Accounts : b.bal[a] \in Int /\ chain[block].bal[a] \in Int
  BY <1>1 DEF Block, Ledger
<1>4. Updated(b, done) \in Ledger
  BY <1>2, <1>3 DEF Updated, Ledger
<1> QED
  BY <1>4, RewritesHold

(* What is archived stays true of a chain that has grown.                  *)
LEMMA ArchiveGrown ==
    ASSUME NodeTypeOK, ArchiveOK, Len(chain') \in Nat, Len(chain) <= Len(chain'),
           \A n \in 1 .. Len(chain) : chain'[n] = chain[n]
    PROVE  /\ \A r \in archive : r.block <= Len(chain')
           /\ \A r \in archive : r.epoch \notin damaged =>
                \A a \in Accounts : \/ BalanceIn(r.contents, a) = chain'[r.block].bal[a]
                                    \/ ~r.complete /\ BalanceIn(r.contents, a) = 0
<1>1. \A r \in archive : r.block \in Nat \ {0} /\ r.block <= Len(chain)
  BY DEF NodeTypeOK, ArchiveOK
<1>2. Len(chain) \in Nat
  BY DEF NodeTypeOK
<1> QED
  BY <1>1, <1>2 DEF ArchiveOK, Truthful

(* A rejected block damages the lineage and keeps the rest.                *)
LEMMA RejectKeepsInv == NodeInv /\ RejectBlock => NodeInv'
<1> SUFFICES ASSUME NodeInv, RejectBlock PROVE NodeInv'
  OBVIOUS
<1> USE DEF serverVars, historyVars, diskVars
<1>0. /\ epoch' = epoch /\ complete' = complete /\ block' = block
      /\ hinted' = hinted /\ ring' = ring /\ following' = FALSE
      /\ setupCache' = setupCache /\ pending' = pending
      /\ archive' = archive /\ damaged' = damaged \cup {epoch}
      /\ saved' = saved /\ journal' = journal /\ journaling' = journaling
  BY DEF RejectBlock
<1>1. PICK b \in NextBlocks(block + 1) : \E done \in ProperPrefixes(b) :
        Fetched(block + 1, b) /\ cells' \in Rewrites(cells, Updated(b, done))
  BY DEF RejectBlock
<1>2. /\ b \in Block /\ chain' \in Seq(Block) /\ chain' # <<>> /\ Len(chain) <= Len(chain')
      /\ block + 1 \in 1 .. Len(chain') /\ chain'[block + 1] = b
      /\ \A n \in 1 .. Len(chain) : chain'[n] = chain[n]
  BY <1>1, NextBlockFetched DEF NodeInv
<1>3. cells' \in DeltaMap
  BY <1>1, <1>2, UpdatedBalances DEF NodeInv
<1>4. NodeTypeOK'
  <2>1. block \in 1 .. Len(chain')
    BY <1>2 DEF NodeInv, NodeTypeOK
  <2> QED
    BY <1>0, <1>2, <1>3, <2>1 DEF NodeInv, NodeTypeOK
<1>5. ArchiveOK'
  <2>1. Len(chain') \in Nat
    BY <1>2
  <2>2. /\ \A r \in archive : r.block <= Len(chain')
        /\ \A r \in archive : r.epoch \notin damaged =>
             \A a \in Accounts : \/ BalanceIn(r.contents, a) = chain'[r.block].bal[a]
                                 \/ ~r.complete /\ BalanceIn(r.contents, a) = 0
    BY <1>2, <2>1, ArchiveGrown DEF NodeInv
  <2>3. \A r \in archive : r.epoch \notin damaged' => Truthful(r.contents, r.block, r.complete)'
    BY <1>0, <2>2 DEF Truthful
  <2> QED
    BY <1>0, <2>2, <2>3 DEF NodeInv, ArchiveOK
<1>6. HeadOK' /\ CacheOK'
  BY <1>0 DEF NodeInv, HeadOK, CacheOK
<1>7. RingOK'
  BY <1>0 DEF NodeInv, RingOK, Run, Path
<1>8. DiskOK'
  BY <1>0 DEF NodeInv, DiskOK, Run, Path, UpToDate
<1> QED
  BY <1>4, <1>5, <1>6, <1>7, <1>8 DEF NodeInv

(* A block applied in full, to the table and to the hints, leaves both     *)
(* truthful at the new head.                                               *)
LEMMA AppliedTruthful ==
    ASSUME NodeInv, epoch \notin damaged, NEW b \in Block,
           NEW after \in Rewrites(cells, Updated(b, Accounts)),
           NEW a \in Accounts
    PROVE  \/ BalanceIn(after, a) = b.bal[a]
           \/ ~complete /\ BalanceIn(after, a) = 0
<1> DEFINE old == BalanceIn(cells, a)
           was == chain[block].bal[a]
<1>1. BalanceIn(after, a) = Updated(b, Accounts)[a]
  BY UpdatedBalances DEF NodeInv
<1>2. old = was \/ (~complete /\ old = 0)
  <2>1. Snapshot(epoch, block, complete, cells) \in archive
    BY DEF NodeInv, HeadOK
  <2>2. Truthful(cells, block, complete)
    BY <2>1 DEF NodeInv, ArchiveOK, Snapshot
  <2> QED
    BY <2>2 DEF Truthful
<1>3. was \in Int /\ b.bal[a] \in Int
  <2>1. chain[block] \in Block
    BY DEF NodeInv, NodeTypeOK
  <2> QED
    BY <2>1 DEF Block, Ledger
<1>4. Updated(b, Accounts)[a] = IF a \in Changes(b) THEN b.bal[a]
                                ELSE IF a \in Accounts /\ a \in Credits(b)
                                THEN old + (b.bal[a] - was) ELSE old
  BY DEF Updated
<1>5. CASE a \in Changes(b)
  BY <1>1, <1>4, <1>5
<1>6. CASE a \notin Changes(b) /\ a \in Credits(b)
  <2>1. old = was
    BY <1>2, <1>6 DEF Credits
  <2>2. BalanceIn(after, a) = old + (b.bal[a] - was)
    BY <1>1, <1>4, <1>6
  <2> HIDE DEF old, was
  <2> QED
    BY <1>3, <2>1, <2>2
<1>7. CASE a \notin Changes(b) /\ a \notin Credits(b)
  <2>1. BalanceIn(after, a) = old
    BY <1>1, <1>4, <1>7
  <2>2. b.bal[a] = was \/ (~complete /\ old = 0)
    BY <1>7 DEF Changes, Credits
  <2> QED
    BY <1>2, <2>1, <2>2
<1> QED
  BY <1>5, <1>6, <1>7

(* The sequence pushed ends with the delta d to block top + 1, and is a     *)
(* path through states of G, the path of seq up to top, that ends at D.    *)
Lengthened(G, seq, top, d, D, pushed) ==
    /\ pushed \in Seq(DeltaRecord) /\ Len(pushed) \in 1 .. RingCapacity
    /\ pushed[Len(pushed)] = d
    /\ \E H : /\ Path(H, pushed, (top + 1) - Len(pushed))
              /\ H[Len(pushed)] = D
              /\ \A i \in 0 .. Len(pushed) - 1 :
                   \E j \in 0 .. Len(seq) :
                      (top + 1) - Len(pushed) + i = (top - Len(seq)) + j /\ H[i] = G[j]

(* Pushing the head's delta keeps the ring a path that ends at the hints.  *)
LEMMA PushedPath ==
    ASSUME NEW G, NEW seq \in Seq(DeltaRecord), NEW top \in Nat, NEW d \in DeltaRecord,
           NEW D \in DeltaMap, Len(seq) <= RingCapacity,
           Path(G, seq, top - Len(seq)), d.block = top + 1, D = Plus(G[Len(seq)], d.cells)
    PROVE  Lengthened(G, seq, top, d, D, Push(seq, RingCapacity, d))
<1>16. PICK pushed : pushed = Push(seq, RingCapacity, d)
  OBVIOUS
<1>17. PICK first : first = (top + 1) - Len(pushed)
  OBVIOUS
<1>1. RingCapacity \in Nat \ {0} /\ Len(seq) \in Nat
  BY NodeAssumption
<1>2. PICK kept, k, n, b0 :
        /\ kept = IF Len(seq) = RingCapacity THEN Tail(seq) ELSE seq
        /\ k = IF Len(seq) = RingCapacity THEN 1 ELSE 0
        /\ n = Len(seq)
        /\ b0 = top - n
  OBVIOUS
<1>3. /\ kept \in Seq(DeltaRecord) /\ Len(kept) = n - k
      /\ \A i \in 1 .. Len(kept) : kept[i] = seq[i + k]
  <2>1. CASE Len(seq) = RingCapacity
    <3>1. seq # <<>>
      BY <1>1, <2>1
    <3>2. Tail(seq) \in Seq(DeltaRecord) /\ Len(Tail(seq)) = Len(seq) - 1
      BY <3>1
    <3>3. \A i \in 1 .. Len(Tail(seq)) : Tail(seq)[i] = seq[i + 1]
      BY <3>1
    <3> QED
      BY <1>2, <2>1, <3>2, <3>3
  <2>2. CASE Len(seq) # RingCapacity
    BY <1>1, <1>2, <2>2
  <2> QED
    BY <2>1, <2>2
<1>9. pushed = Append(kept, d)
  BY <1>2, <1>16 DEF Push
<1>4. PICK m, base : m = Len(kept) /\ base = b0 + k
  OBVIOUS
<1>5. /\ n \in Nat /\ k \in 0 .. n /\ m \in Nat /\ m = n - k /\ m + 1 \in 1 .. RingCapacity
      /\ b0 \in Int /\ base \in Int
  BY <1>1, <1>2, <1>3, <1>4
<1>15. b0 = top - n /\ base = b0 + k /\ m = Len(kept) /\ first = (top + 1) - Len(pushed)
  BY <1>2, <1>4, <1>17
<1>6. PICK F : Path(F, kept, base) /\ \A i \in 0 .. m : F[i] = G[i + k]
  <2>1. Path(G, seq, b0) /\ k \in 0 .. Len(seq) /\ Len(kept) = Len(seq) - k
    BY <1>2, <1>3, <1>5
  <2>2. \E F : Path(F, kept, b0 + k) /\ \A i \in 0 .. Len(kept) : F[i] = G[i + k]
    <3>1. kept \in Seq(DeltaRecord) /\ \A i \in 1 .. Len(kept) : kept[i] = seq[i + k]
      BY <1>3
    <3>2. b0 \in Int
      BY <1>5
    <3> QED
      BY <2>1, <3>1, <3>2, PathSuffix, ZenonT(40)
  <2> QED
    BY <1>4, <2>2, ZenonT(30)
<1>7. PICK H : Path(H, pushed, base) /\ H[m + 1] = D /\ \A i \in 0 .. m : H[i] = F[i]
  <2>1. d.block = base + Len(kept) + 1
    BY <1>5, <1>15
  <2>2. F[Len(kept)] = G[Len(seq)]
    <3>1. m \in 0 .. m /\ m + k = n
      BY <1>5
    <3> QED BY <1>2, <1>4, <1>6, <3>1
  <2>3. D = Plus(F[Len(kept)], d.cells)
    BY <2>2
  <2>4. GoesOn(F, kept, base, d, D)
    <3>1. kept \in Seq(DeltaRecord) /\ base \in Int /\ Path(F, kept, base)
      BY <1>3, <1>5, <1>6
    <3> QED
      BY <2>1, <2>3, <3>1, PathExtended
  <2> QED
    BY <1>4, <1>9, <2>4 DEF GoesOn
<1>8. pushed \in Seq(DeltaRecord) /\ Len(pushed) = m + 1 /\ pushed[m + 1] = d
  BY <1>3, <1>4, <1>9
<1>10. first = base
  BY <1>5, <1>8, <1>15
<1>11. ASSUME NEW i \in 0 .. Len(pushed) - 1
       PROVE  \E j \in 0 .. Len(seq) : first + i = (top - Len(seq)) + j /\ H[i] = G[j]
  <2>1. i \in 0 .. m /\ i + k \in 0 .. n /\ first + i = b0 + (i + k)
    <3>1. i \in 0 .. m
      BY <1>5, <1>8
    <3> QED
      BY <3>1, <1>5, <1>10, <1>15
  <2>2. H[i] = G[i + k]
    BY <1>6, <1>7, <2>1
  <2> QED
    BY <1>2, <2>1, <2>2
<1>12. Path(H, pushed, first) /\ H[Len(pushed)] = D
  BY <1>7, <1>8, <1>10
<1>13. /\ Path(H, pushed, (top + 1) - Len(pushed))
       /\ H[Len(pushed)] = D
       /\ \A i \in 0 .. Len(pushed) - 1 :
            \E j \in 0 .. Len(seq) :
               (top + 1) - Len(pushed) + i = (top - Len(seq)) + j /\ H[i] = G[j]
  BY <1>11, <1>12, <1>17
<1>14. Len(pushed) \in 1 .. RingCapacity /\ pushed[Len(pushed)] = d
  BY <1>5, <1>8
<1>18. Lengthened(G, seq, top, d, D, pushed)
  BY <1>8, <1>13, <1>14 DEF Lengthened
<1> QED
  BY <1>16, <1>18

(* A block applied in full keeps the invariant.                            *)
LEMMA ApplyKeepsInv == NodeInv /\ ApplyBlock => NodeInv'
<1> SUFFICES ASSUME NodeInv, ApplyBlock PROVE NodeInv'
  OBVIOUS
<1> USE DEF serverVars, historyVars, diskVars
<1> DEFINE Applied(b, after) ==
             /\ Fetched(block + 1, b)
             /\ cells' = after
             /\ hinted' = Plus(hinted, Minus(after, cells))
             /\ ring' = Push(ring, RingCapacity, [block |-> block + 1, cells |-> Minus(after, cells)])
             /\ archive' = archive \cup
                             {Snapshot(epoch, block + 1, complete, Plus(hinted, Minus(after, cells)))}
<1>16. PICK b \in NextBlocks(block + 1) : \E after \in Rewrites(cells, Updated(b, Accounts)) :
         Applied(b, after)
  BY DEF ApplyBlock, Patched
<1>17. PICK after \in Rewrites(cells, Updated(b, Accounts)) : Applied(b, after)
  BY <1>16
<1>1. /\ Fetched(block + 1, b)
      /\ cells' = after
      /\ hinted' = Plus(hinted, Minus(after, cells))
      /\ ring' = Push(ring, RingCapacity, [block |-> block + 1, cells |-> Minus(after, cells)])
      /\ archive' = archive \cup
                      {Snapshot(epoch, block + 1, complete, Plus(hinted, Minus(after, cells)))}
  BY <1>17
<1>2. /\ ~pending /\ pending' = (journaling = "on")
      /\ block' = block + 1
      /\ epoch' = epoch /\ complete' = complete /\ following' = following
      /\ setupCache' = setupCache /\ saved' = saved /\ journal' = journal
      /\ journaling' = journaling /\ damaged' = damaged
  BY DEF ApplyBlock
<1>3. /\ b \in Block /\ chain' \in Seq(Block) /\ chain' # <<>> /\ Len(chain) <= Len(chain')
      /\ block + 1 \in 1 .. Len(chain') /\ chain'[block + 1] = b
      /\ \A n \in 1 .. Len(chain) : chain'[n] = chain[n]
  BY <1>1, NextBlockFetched DEF NodeInv
<1>4. PICK delta, d : delta = Minus(after, cells) /\ d = [block |-> block + 1, cells |-> delta]
  OBVIOUS
<1>5. block \in Nat \ {0} /\ cells \in DeltaMap /\ hinted \in DeltaMap /\ epoch \in Nat \ {0}
      /\ complete \in BOOLEAN /\ ring \in Seq(DeltaRecord) /\ Len(ring) <= RingCapacity
  BY DEF NodeInv, NodeTypeOK
<1>6. after \in DeltaMap /\ delta \in DeltaMap /\ d \in DeltaRecord /\ d.block = block + 1
      /\ hinted' = Plus(hinted, delta) /\ hinted' \in DeltaMap /\ d.cells = delta
  <2>1. after \in DeltaMap
    BY <1>3, UpdatedBalances DEF NodeInv
  <2>2. delta \in DeltaMap
    BY <1>4, <1>5, <2>1, CellMaps
  <2>3. hinted' = Plus(hinted, delta)
    BY <1>1, <1>4
  <2> QED
    BY <1>4, <1>5, <2>1, <2>2, <2>3, CellMaps DEF DeltaRecord
<1>7. PICK fresh : fresh = Snapshot(epoch, block + 1, complete, hinted')
  OBVIOUS
<1>8. archive' = archive \cup {fresh}
  BY <1>1, <1>7
<1>9. epoch \notin damaged => hinted' = after
  BY <1>1, <1>5, <1>6, PlusMinus DEF NodeInv, HeadOK
<1>10. /\ ring' \in Seq(DeltaRecord) /\ Len(ring') \in 1 .. RingCapacity
       /\ ring'[Len(ring')] = d
       /\ RingOK'
  <2>1. PICK G : Run(G, ring, block - Len(ring)) /\ G[Len(ring)] = hinted
    BY DEF NodeInv, RingOK
  <2>2. PICK first : first = (block + 1) - Len(ring')
    OBVIOUS
  <2>3. Lengthened(G, ring, block, d, hinted', ring')
    <3>1. PICK seq, top, D : seq = ring /\ top = block /\ D = hinted'
      OBVIOUS
    <3>2. seq \in Seq(DeltaRecord) /\ top \in Nat /\ D \in DeltaMap /\ Len(seq) <= RingCapacity
          /\ d \in DeltaRecord /\ d.block = top + 1
      BY <1>5, <1>6, <3>1
    <3>3. Path(G, seq, top - Len(seq)) /\ D = Plus(G[Len(seq)], d.cells)
      BY <1>6, <2>1, <3>1 DEF Run
    <3>4. Lengthened(G, seq, top, d, D, Push(seq, RingCapacity, d))
      BY <3>2, <3>3, PushedPath
    <3>5. ring' = Push(ring, RingCapacity, d)
      BY <1>1, <1>4
    <3> QED
      BY <3>1, <3>4, <3>5
  <2>8. /\ ring' \in Seq(DeltaRecord) /\ Len(ring') \in 1 .. RingCapacity
        /\ ring'[Len(ring')] = d
    BY <2>3 DEF Lengthened
  <2>4. PICK H : /\ Path(H, ring', first)
                 /\ H[Len(ring')] = hinted'
                 /\ \A i \in 0 .. Len(ring') - 1 :
                      \E j \in 0 .. Len(ring) :
                         first + i = (block - Len(ring)) + j /\ H[i] = G[j]
    BY <2>2, <2>3, ZenonT(30) DEF Lengthened
  <2>5. ASSUME NEW i \in 0 .. Len(ring')
        PROVE  Snapshot(epoch, first + i, complete, H[i]) \in archive'
    <3>1. CASE i = Len(ring')
      <4>1. first + i = block + 1
        BY <1>5, <2>2, <2>8, <3>1
      <4> QED
        BY <1>7, <1>8, <2>4, <3>1, <4>1
    <3>2. CASE i # Len(ring')
      <4>1. i \in 0 .. Len(ring') - 1
        BY <2>8, <3>2
      <4>2. PICK j \in 0 .. Len(ring) : first + i = (block - Len(ring)) + j /\ H[i] = G[j]
        BY <2>4, <4>1
      <4>3. Snapshot(epoch, (block - Len(ring)) + j, complete, G[j]) \in archive
        BY <2>1 DEF Run
      <4> QED
        BY <1>8, <4>2, <4>3
    <3> QED
      BY <3>1, <3>2
  <2>6. first = block' - Len(ring')
    BY <1>2, <2>2
  <2>7. Run(H, ring, block - Len(ring))' /\ H[Len(ring')] = hinted'
    BY <1>2, <2>4, <2>5, <2>6 DEF Run
  <2> QED
    BY <2>7, <2>8 DEF RingOK
<1>11. NodeTypeOK'
  <2>1. fresh \in [epoch : Nat \ {0}, block : Nat \ {0}, complete : BOOLEAN, contents : DeltaMap]
    BY <1>5, <1>6, <1>7 DEF Snapshot
  <2>2. archive' \subseteq [epoch : Nat \ {0}, block : Nat \ {0}, complete : BOOLEAN, contents : DeltaMap]
    BY <1>8, <2>1 DEF NodeInv, NodeTypeOK
  <2>3. Len(ring') <= RingCapacity
    BY <1>10, NodeAssumption
  <2>4. block' \in 1 .. Len(chain') /\ cells' \in DeltaMap /\ pending' \in BOOLEAN
    BY <1>1, <1>2, <1>3, <1>6
  <2> QED
    BY <1>2, <1>3, <1>6, <1>10, <2>2, <2>3, <2>4 DEF NodeInv, NodeTypeOK
<1>12. ArchiveOK'
  <2>1. /\ \A r \in archive : r.block <= Len(chain')
        /\ \A r \in archive : r.epoch \notin damaged =>
             \A a \in Accounts : \/ BalanceIn(r.contents, a) = chain'[r.block].bal[a]
                                 \/ ~r.complete /\ BalanceIn(r.contents, a) = 0
    <3>1. Len(chain') \in Nat
      BY <1>3
    <3> QED
      BY <1>3, <3>1, ArchiveGrown DEF NodeInv
  <2>2. fresh.epoch = epoch /\ fresh.block = block + 1 /\ fresh.complete = complete
        /\ fresh.contents = hinted'
    BY <1>7 DEF Snapshot
  <2>3. epoch \notin damaged =>
          \A a \in Accounts : \/ BalanceIn(hinted', a) = chain'[block + 1].bal[a]
                              \/ ~complete /\ BalanceIn(hinted', a) = 0
    BY <1>3, <1>9, AppliedTruthful
  <2>4. \A r \in archive' : r.epoch <= epoch' /\ r.block <= Len(chain')
    <3>1. \A r \in archive : r.epoch <= epoch
      BY DEF NodeInv, ArchiveOK
    <3>2. epoch <= epoch /\ block + 1 <= Len(chain')
      BY <1>3, <1>5
    <3> QED
      BY <1>2, <1>8, <2>1, <2>2, <3>1, <3>2
  <2>5. \A r \in archive' : r.epoch = epoch' =>
          r.complete = complete' /\ (epoch' \notin damaged' => r.block <= block')
    <3>1. \A r \in archive : r.epoch = epoch =>
            r.complete = complete /\ (epoch \notin damaged => r.block <= block + 1)
      <4>1. \A r \in archive : r.block \in Nat
        BY DEF NodeInv, NodeTypeOK
      <4> QED
        BY <1>5, <4>1 DEF NodeInv, ArchiveOK
    <3> QED
      BY <1>2, <1>5, <1>8, <2>2, <3>1
  <2>6. \A r \in archive' : r.epoch \notin damaged' => Truthful(r.contents, r.block, r.complete)'
    BY <1>2, <1>8, <2>1, <2>2, <2>3 DEF Truthful
  <2>7. \A r, s \in archive' :
          r.epoch = s.epoch /\ r.block = s.block /\ r.epoch \notin damaged' => r = s
    <3>1. \A r \in archive : r.epoch = epoch /\ epoch \notin damaged => r.block # block + 1
      <4>1. \A r \in archive : r.block \in Nat
        BY DEF NodeInv, NodeTypeOK
      <4> QED
        BY <1>5, <4>1 DEF NodeInv, ArchiveOK
    <3>2. \A r, s \in archive :
            r.epoch = s.epoch /\ r.block = s.block /\ r.epoch \notin damaged => r = s
      BY DEF NodeInv, ArchiveOK
    <3> QED
      BY <1>2, <1>8, <2>2, <3>1, <3>2
  <2> QED
    BY <2>4, <2>5, <2>6, <2>7 DEF ArchiveOK
<1>13. HeadOK'
  BY <1>1, <1>2, <1>7, <1>8, <1>9 DEF HeadOK
<1>14. CacheOK'
  BY <1>2, <1>8 DEF NodeInv, CacheOK
<1>15. DiskOK'
  <2>1. ring' # <<>>
    BY <1>10
  <2>2. ASSUME saved # NoState
        PROVE  \E G : /\ Run(G, journal.records, saved.block)'
                      /\ G[0] = saved'.hinted
                      /\ journaling' = "on" => UpToDate(G[Len(journal.records)])'
    <3>1. PICK G : /\ Run(G, journal.records, saved.block)
                   /\ G[0] = saved.hinted
                   /\ journaling = "on" => UpToDate(G[Len(journal.records)])
      BY <2>2 DEF NodeInv, DiskOK
    <3>2. Run(G, journal.records, saved.block)'
      BY <1>2, <1>8, <3>1 DEF Run
    <3>3. ASSUME journaling = "on"
          PROVE  UpToDate(G[Len(journal.records)])'
      <4>1. saved.block + Len(journal.records) = block /\ G[Len(journal.records)] = hinted
        BY <1>2, <3>1, <3>3 DEF UpToDate
      <4>2. pending' /\ saved'.block + Len(journal'.records) = block' - 1
        <5>1. block = (block + 1) - 1
          BY <1>5
        <5> QED
          BY <1>2, <3>3, <4>1, <5>1
      <4>3. Plus(G[Len(journal'.records)], ring'[Len(ring')].cells) = hinted'
        BY <1>2, <1>6, <1>10, <4>1
      <4> QED
        BY <1>2, <4>2, <4>3 DEF UpToDate
    <3> QED
      BY <1>2, <3>1, <3>2, <3>3
  <2> QED
    BY <1>2, <2>1, <2>2 DEF NodeInv, DiskOK
<1> QED
  BY <1>10, <1>11, <1>12, <1>13, <1>14, <1>15 DEF NodeInv

-----------------------------------------------------------------------------
(* Restarts and bootstraps.                                                *)

(* What a ring retains of a sequence of deltas.                            *)
LEMMA NewestRetained ==
    ASSUME NEW seq \in Seq(DeltaRecord)
    PROVE  \E k \in 0 .. Len(seq) :
             /\ Newest(seq, RingCapacity) \in Seq(DeltaRecord)
             /\ Len(Newest(seq, RingCapacity)) = Len(seq) - k
             /\ Len(Newest(seq, RingCapacity)) <= RingCapacity
             /\ \A i \in 1 .. Len(seq) - k : Newest(seq, RingCapacity)[i] = seq[i + k]
<1>1. RingCapacity \in Nat \ {0}
  BY NodeAssumption
<1>2. PICK n, k : n = Len(seq) /\ k = IF n > RingCapacity THEN n - RingCapacity ELSE 0
  OBVIOUS
<1>3. n \in Nat /\ k \in 0 .. n /\ n - k <= RingCapacity
  BY <1>1, <1>2
<1>4. Newest(seq, RingCapacity) = SubSeq(seq, k + 1, n)
  BY <1>1, <1>2 DEF Newest
<1>5. PICK short : short = SubSeq(seq, k + 1, n)
  OBVIOUS
<1>6. /\ short \in Seq(DeltaRecord) /\ Len(short) = n - k
      /\ \A i \in 1 .. n - k : short[i] = seq[i + k]
  <2>1. \A i \in k + 1 .. n : seq[i] \in DeltaRecord
    BY <1>2, <1>3
  <2>2. Len(short) = n - k
    BY <1>3, <1>5
  <2>3. \A i \in 1 .. n - k : short[i] = seq[i + k]
    BY <1>3, <1>5
  <2> QED
    BY <1>3, <1>5, <2>1, <2>2, <2>3
<1> QED
  BY <1>2, <1>3, <1>4, <1>5, <1>6, ZenonT(30)

(* A restart restores a state the lineage had, with the deltas to it.      *)
LEMMA ReplayedRun ==
    ASSUME NodeInv, saved # NoState, NEW replay \in BOOLEAN
    PROVE  /\ Replayed(replay) \in Seq(DeltaRecord)
           /\ \E G : Run(G, Replayed(replay), saved.block) /\ G[0] = saved.hinted
<1>1. PICK G : Run(G, journal.records, saved.block) /\ G[0] = saved.hinted
  BY DEF NodeInv, DiskOK
<1>2. journal.records \in Seq(DeltaRecord) /\ saved.block \in Nat /\ saved.hinted \in DeltaMap
  BY DEF NodeInv, NodeTypeOK
<1>3. CASE replay
  BY <1>1, <1>2, <1>3 DEF Replayed
<1>4. CASE ~replay
  <2>1. Snapshot(epoch, saved.block, complete, saved.hinted) \in archive
    <3>1. 0 \in 0 .. Len(journal.records) /\ saved.block + 0 = saved.block
      BY <1>2
    <3> QED
      BY <1>1, <3>1 DEF Run
  <2>2. saved.block \in Int
    BY <1>2
  <2>3. \E F : Run(F, <<>>, saved.block) /\ F[0] = saved.hinted
    <3>1. Run([i \in {0} |-> saved.hinted], <<>>, saved.block)
      BY <1>2, <2>1, <2>2, EmptyRun
    <3> QED
      BY <3>1
  <2> QED
    BY <1>4, <2>3 DEF Replayed
<1> QED
  BY <1>3, <1>4

(* A restart keeps the invariant: replaying the journal on the state file  *)
(* leads to a state the lineage had, for the cells and the hints alike.    *)
LEMMA RestartKeepsInv == NodeInv /\ Restart => NodeInv'
<1> SUFFICES ASSUME NodeInv, Restart PROVE NodeInv'
  OBVIOUS
<1> USE DEF serverVars, historyVars, diskVars
<1> DEFINE Started(records) ==
             /\ block' = saved.block + Len(records)
             /\ cells' = Plus(saved.cells, Coalesced(records, 1 .. Len(records)))
             /\ hinted' = Plus(saved.hinted, Coalesced(records, 1 .. Len(records)))
             /\ ring' = Newest(records, RingCapacity)
             /\ journaling' = IF journal.bound /\ records = journal.records THEN "on" ELSE "off"
<1>1. PICK replay \in BOOLEAN : Started(Replayed(replay))
  BY DEF Restart, Restored
<1>2. PICK records : records = Replayed(replay)
  OBVIOUS
<1>3. /\ block' = saved.block + Len(records)
      /\ cells' = Plus(saved.cells, Coalesced(records, 1 .. Len(records)))
      /\ hinted' = Plus(saved.hinted, Coalesced(records, 1 .. Len(records)))
      /\ ring' = Newest(records, RingCapacity)
      /\ journaling' = IF journal.bound /\ records = journal.records THEN "on" ELSE "off"
  BY <1>1, <1>2
<1>4. /\ saved # NoState /\ following' = TRUE /\ pending' = FALSE /\ setupCache' = NoSetup
      /\ damaged' = IF block' = block THEN damaged ELSE damaged \cup {epoch}
      /\ chain' = chain /\ epoch' = epoch /\ complete' = complete
      /\ saved' = saved /\ journal' = journal /\ archive' = archive
  BY DEF Restart
<1> HIDE DEF Started
<1>5. records \in Seq(DeltaRecord)
  BY <1>2, <1>4, ReplayedRun
<1>6. PICK G : Run(G, records, saved.block) /\ G[0] = saved.hinted
  BY <1>2, <1>4, ReplayedRun
<1>7. PICK n : n = Len(records)
  OBVIOUS
<1>8. /\ saved.block \in Nat \ {0} /\ saved.hinted \in DeltaMap /\ saved.cells \in DeltaMap
      /\ n \in Nat /\ epoch \in Nat \ {0}
  BY <1>4, <1>5, <1>7 DEF NodeInv, NodeTypeOK
<1>9. /\ Coalesced(records, 1 .. n) \in DeltaMap
      /\ Plus(G[0], Coalesced(records, 1 .. n)) = G[n]
  <2>1. /\ G \in [0 .. Len(records) -> DeltaMap]
        /\ \A i \in 0 + 1 .. Len(records) : G[i] = Plus(G[i - 1], records[i].cells)
    <3>1. 0 + 1 .. Len(records) = 1 .. Len(records)
      OBVIOUS
    <3> QED
      BY <1>6, <3>1 DEF Run, Path
  <2>2. 0 \in 0 .. Len(records) /\ Len(records) \in 0 .. Len(records)
    BY <1>7, <1>8
  <2>3. /\ Coalesced(records, 0 + 1 .. Len(records)) \in DeltaMap
        /\ Plus(G[0], Coalesced(records, 0 + 1 .. Len(records))) = G[Len(records)]
    BY <1>5, <2>1, <2>2, CoalescedBridges
  <2>4. 0 + 1 .. Len(records) = 1 .. n
    BY <1>7
  <2> QED
    BY <1>7, <2>3, <2>4
<1>10. hinted' = G[n] /\ hinted' \in DeltaMap /\ cells' \in DeltaMap
  <2>1. hinted' = G[n]
    BY <1>3, <1>6, <1>7, <1>9
  <2> QED
    BY <2>1, <1>3, <1>7, <1>8, <1>9, CellMaps
<1>11. Snapshot(epoch, block', complete, hinted') \in archive
  <2>1. n \in 0 .. Len(records)
    BY <1>7, <1>8
  <2> QED
    BY <2>1, <1>3, <1>6, <1>7, <1>10 DEF Run
<1>12. block' \in 1 .. Len(chain)
  <2>1. block' <= Len(chain)
    BY <1>11 DEF NodeInv, ArchiveOK, Snapshot
  <2>2. block' \in Nat \ {0}
    BY <1>3, <1>7, <1>8
  <2>3. Len(chain) \in Nat
    BY DEF NodeInv, NodeTypeOK
  <2> QED
    BY <2>1, <2>2, <2>3
<1>13. PICK k \in 0 .. n : /\ ring' \in Seq(DeltaRecord) /\ Len(ring') = n - k
                           /\ Len(ring') <= RingCapacity
                           /\ \A i \in 1 .. Len(ring') : ring'[i] = records[i + k]
  BY <1>3, <1>5, <1>7, NewestRetained
<1>14. RingOK'
  <2>1. PICK short : short = ring'
    OBVIOUS
  <2>2. PICK b0 : b0 = saved.block
    OBVIOUS
  <2>3. /\ b0 \in Int /\ Path(G, records, b0) /\ k \in 0 .. Len(records)
        /\ short \in Seq(DeltaRecord) /\ Len(short) = Len(records) - k
        /\ \A i \in 1 .. Len(short) : short[i] = records[i + k]
    <3>1. b0 \in Int /\ Path(G, records, b0)
      BY <1>6, <1>8, <2>2 DEF Run
    <3>2. k \in 0 .. Len(records)
      BY <1>7
    <3> QED
      BY <1>7, <1>13, <2>1, <3>1, <3>2
  <2>4. PICK H : Path(H, short, b0 + k) /\ \A i \in 0 .. Len(short) : H[i] = G[i + k]
    BY <1>5, <2>3, PathSuffix
  <2>5. Len(short) = n - k /\ n - k \in Nat
    BY <1>7, <1>8, <2>3
  <2>6. ASSUME NEW i \in 0 .. Len(short)
        PROVE  Snapshot(epoch, (b0 + k) + i, complete, H[i]) \in archive
    <3>1. i + k \in 0 .. n /\ (b0 + k) + i = b0 + (i + k)
      BY <1>8, <2>3, <2>5
    <3>2. Snapshot(epoch, b0 + (i + k), complete, G[i + k]) \in archive
      BY <1>6, <1>7, <2>2, <3>1 DEF Run
    <3> QED
      BY <2>4, <3>1, <3>2
  <2>7. b0 + k = block' - Len(ring')
    <3>1. PICK top : top = block'
      OBVIOUS
    <3>2. top = b0 + n /\ Len(short) = n - k /\ b0 \in Int /\ k \in 0 .. n
      BY <1>3, <1>7, <2>2, <2>3, <2>5, <3>1
    <3>3. b0 + k = top - Len(short)
      BY <1>8, <3>2
    <3> QED
      BY <2>1, <3>1, <3>3
  <2>8. H[Len(ring')] = hinted'
    <3>1. Len(short) \in 0 .. Len(short) /\ Len(short) + k = n
      BY <1>8, <2>5
    <3> QED
      BY <1>10, <2>1, <2>4, <3>1
  <2>9. Run(H, ring, block - Len(ring))'
    BY <1>4, <2>1, <2>4, <2>6, <2>7 DEF Run
  <2> QED
    BY <2>8, <2>9 DEF RingOK
<1>15. NodeTypeOK'
  <2>1. journaling' \in {"on", "off", "broken"} /\ damaged' \subseteq Nat
    BY <1>3, <1>4, <1>8 DEF NodeInv, NodeTypeOK
  <2> QED
    BY <1>4, <1>10, <1>12, <1>13, <2>1 DEF NodeInv, NodeTypeOK
<1>16. ArchiveOK'
  <2>1. epoch \notin damaged' => block' = block
    BY <1>4
  <2>2. \A e : e \notin damaged' => e \notin damaged
    BY <1>4
  <2> QED
    BY <1>4, <2>1, <2>2 DEF NodeInv, ArchiveOK, Truthful
<1>17. HeadOK'
  <2>1. epoch \notin damaged' => saved.cells = saved.hinted
    BY <1>4 DEF NodeInv, DiskOK
  <2> QED
    BY <1>3, <1>4, <1>11, <2>1 DEF HeadOK
<1>18. CacheOK'
  BY <1>4 DEF CacheOK
<1>19. DiskOK'
  <2>1. epoch \notin damaged' => saved.cells = saved.hinted
    BY <1>4 DEF NodeInv, DiskOK
  <2>2. journaling' = "on" => records = journal.records
    BY <1>3
  <2>3. \E F : /\ Run(F, journal.records, saved.block)
               /\ F[0] = saved.hinted
               /\ records = journal.records => F[n] = hinted'
    <3>1. CASE records = journal.records
      BY <1>6, <1>10, <3>1
    <3>2. CASE records # journal.records
      BY <1>4, <3>2 DEF NodeInv, DiskOK
    <3> QED
      BY <3>1, <3>2
  <2>4. PICK F : /\ Run(F, journal.records, saved.block)
                 /\ F[0] = saved.hinted
                 /\ records = journal.records => F[n] = hinted'
    BY <2>3
  <2>5. journaling' = "on" => UpToDate(F[Len(journal.records)])'
    BY <1>3, <1>4, <1>7, <2>2, <2>4 DEF UpToDate
  <2>6. Run(F, journal.records, saved.block)'
    BY <1>4, <2>4 DEF Run
  <2> QED
    BY <1>4, <2>1, <2>4, <2>5, <2>6 DEF DiskOK
<1> QED
  BY <1>14, <1>15, <1>16, <1>17, <1>18, <1>19 DEF NodeInv

(* A fresh bootstrap keeps the invariant.                                  *)
LEMMA RebootstrapKeepsInv == NodeInv /\ Rebootstrap => NodeInv'
<1> SUFFICES ASSUME NodeInv, Rebootstrap PROVE NodeInv'
  OBVIOUS
<1> USE DEF serverVars, historyVars, diskVars
<1>0. /\ epoch' = epoch + 1 /\ complete' \in Modes /\ block' \in 1 .. Len(chain)
      /\ cells' \in FreshTables(complete', chain[block'].bal) /\ hinted' = cells'
      /\ ring' = <<>> /\ following' = TRUE /\ setupCache' = NoSetup /\ pending' = FALSE
      /\ saved' = NoState /\ journal' = NoJournal /\ journaling' = "off"
      /\ archive' = archive \cup {Snapshot(epoch', block', complete', cells')}
      /\ chain' = chain /\ damaged' = damaged
  BY DEF Rebootstrap
<1>1. chain \in Seq(Block) /\ Len(chain) \in Nat /\ epoch \in Nat \ {0} /\ block' \in Nat \ {0}
  BY <1>0 DEF NodeInv, NodeTypeOK
<1>2. complete' \in BOOLEAN
  BY <1>0, NodeAssumption
<1>3. cells' \in DeltaMap /\ Truthful(cells', block', complete')
  <2>1. PICK mode, b, D : mode = complete' /\ b = block' /\ D = cells'
    OBVIOUS
  <2>2. mode \in BOOLEAN /\ b \in 1 .. Len(chain) /\ D \in FreshTables(mode, chain[b].bal)
    BY <1>0, <1>2, <2>1
  <2>3. D \in DeltaMap /\ Truthful(D, b, mode)
    BY <1>1, <2>2, FreshTablesTruthful
  <2> QED
    BY <2>1, <2>3
<1>4. PICK fresh : fresh = Snapshot(epoch', block', complete', cells')
  OBVIOUS
<1>5. /\ archive' = archive \cup {fresh}
      /\ fresh.epoch = epoch' /\ fresh.block = block' /\ fresh.complete = complete'
      /\ fresh.contents = cells'
  BY <1>0, <1>4 DEF Snapshot
<1>6. \A r \in archive : r.epoch \in Nat /\ r.epoch <= epoch /\ r.epoch # epoch' /\ r.epoch <= epoch'
  <2>1. \A r \in archive : r.epoch \in Nat /\ r.epoch <= epoch
    BY DEF NodeInv, NodeTypeOK, ArchiveOK
  <2> QED
    BY <1>0, <1>1, <2>1
<1>7. ArchiveOK'
  <2>1. \A r \in archive' : r.epoch <= epoch' /\ r.block <= Len(chain')
    <3>1. epoch' <= epoch' /\ block' <= Len(chain)
      BY <1>0, <1>1
    <3> QED
      BY <1>0, <1>5, <1>6, <3>1 DEF NodeInv, ArchiveOK
  <2>2. \A r \in archive' : r.epoch = epoch' =>
          r.complete = complete' /\ (epoch' \notin damaged' => r.block <= block')
    BY <1>1, <1>5, <1>6
  <2>3. \A r \in archive' : r.epoch \notin damaged' => Truthful(r.contents, r.block, r.complete)'
    <3>1. \A r \in archive : r.epoch \notin damaged => Truthful(r.contents, r.block, r.complete)
      BY DEF NodeInv, ArchiveOK
    <3> QED
      BY <1>0, <1>3, <1>5, <3>1 DEF Truthful
  <2>4. \A r, s \in archive' :
          r.epoch = s.epoch /\ r.block = s.block /\ r.epoch \notin damaged' => r = s
    BY <1>0, <1>5, <1>6 DEF NodeInv, ArchiveOK
  <2> QED
    BY <2>1, <2>2, <2>3, <2>4 DEF ArchiveOK
<1>8. HeadOK'
  BY <1>0, <1>4, <1>5 DEF HeadOK
<1>9. RingOK'
  <2>1. PICK F : F = [i \in {0} |-> hinted']
    OBVIOUS
  <2>2. Len(ring') = 0 /\ block' - 0 = block' /\ block' + 0 = block'
    <3>1. PICK b : b = block'
      OBVIOUS
    <3>2. b \in Nat
      BY <1>1, <3>1
    <3>3. b - 0 = b /\ b + 0 = b
      BY <3>2
    <3>4. Len(ring') = 0
      BY <1>0
    <3> QED
      BY <3>1, <3>3, <3>4
  <2>3. 0 .. 0 = {0} /\ 1 .. 0 = {}
    OBVIOUS
  <2>4. Path(F, ring', block' - 0) /\ F[0] = hinted'
    BY <1>0, <1>3, <2>1, <2>2, <2>3 DEF Path
  <2>5. \A i \in 0 .. 0 : Snapshot(epoch', (block' - 0) + i, complete', F[i]) \in archive'
    BY <1>0, <2>1, <2>2, <2>3
  <2> QED
    BY <2>2, <2>4, <2>5 DEF RingOK, Run
<1>10. NodeTypeOK'
  <2>1. epoch' \in Nat \ {0}
    BY <1>0, <1>1
  <2>2. fresh \in [epoch : Nat \ {0}, block : Nat \ {0}, complete : BOOLEAN, contents : DeltaMap]
    BY <1>1, <1>2, <1>3, <1>4, <2>1 DEF Snapshot
  <2>3. archive' \subseteq [epoch : Nat \ {0}, block : Nat \ {0}, complete : BOOLEAN, contents : DeltaMap]
    BY <1>5, <2>2 DEF NodeInv, NodeTypeOK
  <2>4. journal' \in [bound : BOOLEAN, records : Seq(DeltaRecord)]
    BY <1>0 DEF NoJournal
  <2>5. ring' \in Seq(DeltaRecord) /\ Len(ring') <= RingCapacity
    BY <1>0, NodeAssumption
  <2>6. following' \in BOOLEAN /\ pending' \in BOOLEAN /\ journaling' \in {"on", "off", "broken"}
    BY <1>0
  <2> QED
    BY <1>0, <1>2, <1>3, <2>1, <2>3, <2>4, <2>5, <2>6 DEF NodeInv, NodeTypeOK
<1>11. CacheOK' /\ DiskOK'
  BY <1>0 DEF CacheOK, DiskOK
<1> QED
  BY <1>7, <1>8, <1>9, <1>10, <1>11 DEF NodeInv

-----------------------------------------------------------------------------
(* The invariant, and what follows from it.                                *)

(* Every step of the node keeps the invariant.                             *)
LEMMA NodeStepKeepsInv == NodeInv /\ [NodeNext]_nodeVars => NodeInv'
<1> SUFFICES ASSUME NodeInv, [NodeNext]_nodeVars PROVE NodeInv'
  OBVIOUS
<1>1. CASE ApplyBlock
  BY <1>1, ApplyKeepsInv
<1>2. CASE RejectBlock
  BY <1>2, RejectKeepsInv
<1>3. CASE AppendDelta
  BY <1>3, AppendDeltaKeepsInv
<1>4. CASE AppendFails
  BY <1>4, AppendFailsKeepsInv
<1>5. CASE SaveState
  BY <1>5, SaveKeepsInv
<1>6. CASE Restart
  BY <1>6, RestartKeepsInv
<1>7. CASE Rebootstrap
  BY <1>7, RebootstrapKeepsInv
<1>8. CASE UNCHANGED nodeVars
  <2> USE <1>8 DEF nodeVars, serverVars, historyVars, diskVars
  <2>1. NodeTypeOK'
    BY DEF NodeInv, NodeTypeOK
  <2>2. ArchiveOK' /\ HeadOK' /\ RingOK'
    BY ServerFrame DEF NodeInv
  <2>3. CacheOK' /\ DiskOK'
    BY DEF NodeInv, CacheOK, DiskOK, Run, UpToDate
  <2> QED
    BY <2>1, <2>2, <2>3 DEF NodeInv
<1> QED
  BY <1>1, <1>2, <1>3, <1>4, <1>5, <1>6, <1>7, <1>8 DEF NodeNext, WriterStep

(* The node's state is always one the invariant describes: the ring and    *)
(* the journal are runs of the lineage's deltas, and what is archived is   *)
(* the chain's, in every lineage that lost and rejected nothing.           *)
THEOREM NodeInvariant == NodeSpec => []NodeInv
<1>1. NodeInit => NodeInv
  BY InitInv
<1>2. NodeInv /\ [NodeNext]_nodeVars => NodeInv'
  BY NodeStepKeepsInv
<1> QED
  BY <1>1, <1>2, PTL DEF NodeSpec

(* The ring bridges every retained block to the head.                      *)
LEMMA InvBridges == NodeInv => RingBridgesToHead
<1> SUFFICES ASSUME NodeInv, NEW from \in 1 .. block, SyncReply(epoch, from, block) # Refused
             PROVE  \E r \in archive :
                      /\ r.epoch = epoch /\ r.block = from
                      /\ Plus(r.contents, SyncReply(epoch, from, block).cells) = hinted
  BY DEF RingBridgesToHead
<1>1. block \in Nat /\ from \in Nat
  BY DEF NodeInv, NodeTypeOK
<1>2. PICK D, E \in DeltaMap :
        /\ Snapshot(epoch, from, complete, D) \in archive
        /\ Plus(D, SyncReply(epoch, from, block).cells) = E
        /\ block = block => E = hinted
  BY <1>1, SyncBridges DEF NodeInv
<1>3. PICK r : r = Snapshot(epoch, from, complete, D)
  OBVIOUS
<1>4. r \in archive /\ r.epoch = epoch /\ r.block = from /\ r.contents = D
  BY <1>2, <1>3 DEF Snapshot
<1> QED
  BY <1>2, <1>4

(* The cells and the hints agree, and hold the chain's balances.           *)
LEMMA InvTruthful == NodeInv => HintsMatchCells /\ TableMatchesChain
<1> SUFFICES ASSUME NodeInv, epoch \notin damaged
             PROVE  cells = hinted /\ Truthful(cells, block, complete)
  BY DEF HintsMatchCells, TableMatchesChain
<1>1. cells = hinted /\ Snapshot(epoch, block, complete, cells) \in archive
  BY DEF NodeInv, HeadOK
<1> QED
  BY <1>1 DEF NodeInv, ArchiveOK, Snapshot

(* The disk holds what was applied.                                        *)
LEMMA InvJournaled == NodeInv => NothingUnjournaled
<1> SUFFICES ASSUME NodeInv, journaling = "on"
             PROVE  saved.block + Len(journal.records) \in
                      {block, block - (IF pending THEN 1 ELSE 0)}
  BY DEF NothingUnjournaled
<1>1. \E E : UpToDate(E)
  BY DEF NodeInv, DiskOK
<1> QED
  BY <1>1 DEF UpToDate

(* Whatever was pushed, evicted, replayed or restarted, GET /sync from any *)
(* retained block leads to the state the hints describe.                   *)
THEOREM RingAlwaysBridges == NodeSpec => []RingBridgesToHead
BY NodeInvariant, InvBridges, PTL

(* The hints never describe other cells than those answers come from,      *)
(* except in a lineage that rejected a block or lost one.                  *)
THEOREM HintsAlwaysMatchCells == NodeSpec => []HintsMatchCells
BY NodeInvariant, InvTruthful, PTL

(* The table holds the chain's balances at the head.                       *)
THEOREM TableAlwaysMatchesChain == NodeSpec => []TableMatchesChain
BY NodeInvariant, InvTruthful, PTL

(* While the journal is on, a restart loses at most the block whose append *)
(* is under way.                                                           *)
THEOREM NeverUnjournaled == NodeSpec => []NothingUnjournaled
BY NodeInvariant, InvJournaled, PTL
-----------------------------------------------------------------------------
(* The per-block deltas beside the ring.                                   *)

(* The blocks of a sequence of deltas that is numbered without gaps up to  *)
(* top, and the deltas by block.                                           *)
Numbered(seq, top) ==
    /\ seq \in Seq(DeltaRecord)
    /\ \A i \in 1 .. Len(seq) : seq[i].block = (top - Len(seq)) + i

SameHistory(byBlock, seq) ==
    /\ DOMAIN byBlock = {seq[i].block : i \in 1 .. Len(seq)}
    /\ \A i \in 1 .. Len(seq) : byBlock[seq[i].block] = seq[i].cells

(* The ring is numbered without gaps up to the head.                       *)
LEMMA RingNumbered == NodeInv => Numbered(ring, block) /\ block \in Nat
<1> SUFFICES ASSUME NodeInv PROVE Numbered(ring, block) /\ block \in Nat
  OBVIOUS
<1>1. ring \in Seq(DeltaRecord) /\ block \in Nat
  BY DEF NodeInv, NodeTypeOK
<1>2. \A i \in 1 .. Len(ring) : ring[i].block = (block - Len(ring)) + i
  BY DEF NodeInv, RingOK, Run, Path
<1> QED
  BY <1>1, <1>2 DEF Numbered

(* Its blocks are an interval.                                             *)
LEMMA NumberedBlocks ==
    ASSUME NEW top \in Nat, NEW seq, Numbered(seq, top)
    PROVE  {seq[i].block : i \in 1 .. Len(seq)} = (top - Len(seq)) + 1 .. top
<1>1. PICK n : n = Len(seq)
  OBVIOUS
<1>2. n \in Nat /\ \A i \in 1 .. n : seq[i].block = (top - n) + i
  BY <1>1 DEF Numbered
<1>3. ASSUME NEW b \in (top - n) + 1 .. top
      PROVE  b - (top - n) \in 1 .. n /\ seq[b - (top - n)].block = b
  <2>1. b - (top - n) \in 1 .. n
    BY <1>2
  <2>2. seq[b - (top - n)].block = (top - n) + (b - (top - n))
    BY <1>2, <2>1
  <2> QED
    BY <1>2, <2>1, <2>2
<1>4. \A i \in 1 .. n : seq[i].block \in (top - n) + 1 .. top
  BY <1>2
<1> QED
  BY <1>1, <1>3, <1>4

(* A push drops at most the oldest delta.                                  *)
LEMMA PushedShift ==
    ASSUME NEW seq \in Seq(DeltaRecord), Len(seq) <= RingCapacity, NEW d \in DeltaRecord
    PROVE  \E k \in {0, 1} :
             /\ k <= Len(seq)
             /\ Push(seq, RingCapacity, d) \in Seq(DeltaRecord)
             /\ Len(Push(seq, RingCapacity, d)) = (Len(seq) - k) + 1
             /\ Push(seq, RingCapacity, d)[(Len(seq) - k) + 1] = d
             /\ \A i \in 1 .. Len(seq) - k : Push(seq, RingCapacity, d)[i] = seq[i + k]
<1>1. RingCapacity \in Nat \ {0} /\ Len(seq) \in Nat
  BY NodeAssumption
<1>2. CASE Len(seq) = RingCapacity
  <2>1. PICK kept : kept = Tail(seq)
    OBVIOUS
  <2>2. seq # <<>>
    BY <1>1, <1>2
  <2>3. /\ kept \in Seq(DeltaRecord) /\ Len(kept) = Len(seq) - 1
        /\ \A i \in 1 .. Len(seq) - 1 : kept[i] = seq[i + 1]
    BY <2>1, <2>2
  <2>4. Push(seq, RingCapacity, d) = Append(kept, d)
    BY <1>2, <2>1 DEF Push
  <2>5. /\ Append(kept, d) \in Seq(DeltaRecord)
        /\ Len(Append(kept, d)) = (Len(seq) - 1) + 1
        /\ Append(kept, d)[(Len(seq) - 1) + 1] = d
        /\ \A i \in 1 .. Len(seq) - 1 : Append(kept, d)[i] = seq[i + 1]
    BY <1>1, <2>3
  <2> QED
    BY <1>1, <1>2, <2>4, <2>5
<1>3. CASE Len(seq) # RingCapacity
  <2>1. Push(seq, RingCapacity, d) = Append(seq, d)
    BY <1>3 DEF Push
  <2>2. /\ Append(seq, d) \in Seq(DeltaRecord)
        /\ Len(Append(seq, d)) = (Len(seq) - 0) + 1
        /\ Append(seq, d)[(Len(seq) - 0) + 1] = d
        /\ \A i \in 1 .. Len(seq) - 0 : Append(seq, d)[i] = seq[i + 0]
    BY <1>1
  <2> QED
    BY <1>1, <2>1, <2>2
<1> QED
  BY <1>2, <1>3

(* Pushing a delta and pruning by its oldest block keep the two histories  *)
(* the same.                                                               *)
LEMMA PushKeepsHistory ==
    ASSUME NEW top \in Nat, NEW seq, NEW byBlock, NEW pushed, NEW d \in DeltaRecord, NEW kept,
           Numbered(seq, top), Len(seq) <= RingCapacity, SameHistory(byBlock, seq),
           d.block = top + 1, pushed = Push(seq, RingCapacity, d),
           Numbered(pushed, top + 1),
           kept = {n \in DOMAIN byBlock \cup {top + 1} : n >= pushed[1].block}
    PROVE  SameHistory([n \in kept |-> IF n = top + 1 THEN d.cells ELSE byBlock[n]], pushed)
<1>1. PICK k \in {0, 1} :
        /\ k <= Len(seq)
        /\ Len(pushed) = (Len(seq) - k) + 1
        /\ pushed[(Len(seq) - k) + 1] = d
        /\ \A i \in 1 .. Len(seq) - k : pushed[i] = seq[i + k]
  <2>1. seq \in Seq(DeltaRecord)
    BY DEF Numbered
  <2> QED
    BY <2>1, PushedShift
<1>2. PICK n, m : n = Len(seq) /\ m = Len(pushed)
  OBVIOUS
<1>3. n \in Nat /\ k \in Nat /\ k <= n /\ m = (n - k) + 1 /\ m \in Nat \ {0}
  <2>1. n \in Nat
    BY <1>2 DEF Numbered
  <2>2. k \in Nat /\ k <= n /\ m = (n - k) + 1
    BY <1>1, <1>2
  <2> HIDE <1>1, <1>2
  <2> QED
    BY <2>1, <2>2
<1>4. pushed[1].block = ((top + 1) - m) + 1
  BY <1>2, <1>3 DEF Numbered
<1>5. DOMAIN byBlock = (top - n) + 1 .. top
  BY <1>2, NumberedBlocks DEF SameHistory
<1>6. {pushed[i].block : i \in 1 .. Len(pushed)} = ((top + 1) - m) + 1 .. top + 1
  <2>1. top + 1 \in Nat
    OBVIOUS
  <2> QED
    BY <1>2, <2>1, NumberedBlocks
<1>7. kept = ((top + 1) - m) + 1 .. top + 1
  <2>1. \A b \in kept : b \in ((top + 1) - m) + 1 .. top + 1
    BY <1>3, <1>4, <1>5
  <2>2. \A b \in ((top + 1) - m) + 1 .. top + 1 : b \in kept
    BY <1>3, <1>4, <1>5
  <2> QED
    BY <2>1, <2>2
<1> DEFINE after == [b \in kept |-> IF b = top + 1 THEN d.cells ELSE byBlock[b]]
<1>8. ASSUME NEW i \in 1 .. m PROVE after[pushed[i].block] = pushed[i].cells
  <2>1. pushed[i].block \in kept
    BY <1>2, <1>6, <1>7
  <2>2. CASE i = m
    <3>1. pushed[i] = d
      BY <1>1, <1>2, <1>3, <2>2
    <3> QED
      BY <2>1, <3>1
  <2>3. CASE i # m
    <3>1. i \in 1 .. n - k /\ i + k \in 1 .. n
      BY <1>3, <2>3
    <3>2. pushed[i] = seq[i + k]
      BY <1>1, <1>2, <3>1
    <3>3. seq[i + k].block = (top - n) + (i + k)
      BY <1>2, <3>1 DEF Numbered
    <3>4. seq[i + k].block # top + 1
      BY <1>3, <3>1, <3>3
    <3>5. byBlock[seq[i + k].block] = seq[i + k].cells
      BY <1>2, <3>1 DEF SameHistory
    <3> QED
      BY <2>1, <3>2, <3>4, <3>5
  <2> QED
    BY <2>2, <2>3
<1>9. DOMAIN after = {pushed[i].block : i \in 1 .. Len(pushed)}
  BY <1>6, <1>7
<1> QED
  BY <1>2, <1>8, <1>9 DEF SameHistory

(* Deltas looked up by block are those of a sequence numbered without gaps. *)
LEMMA IndexedHistory ==
    ASSUME NEW top \in Nat, NEW seq, Numbered(seq, top)
    PROVE  SameHistory([n \in {seq[i].block : i \in 1 .. Len(seq)} |->
                          seq[CHOOSE i \in 1 .. Len(seq) : seq[i].block = n].cells], seq)
<1> DEFINE at(n)  == CHOOSE i \in 1 .. Len(seq) : seq[i].block = n
           index == [n \in {seq[i].block : i \in 1 .. Len(seq)} |-> seq[at(n)].cells]
<1>1. ASSUME NEW i \in 1 .. Len(seq) PROVE at(seq[i].block) = i
  <2>1. \A j \in 1 .. Len(seq) : seq[j].block = seq[i].block => j = i
    BY DEF Numbered
  <2> QED
    BY <2>1
<1>2. ASSUME NEW i \in 1 .. Len(seq) PROVE index[seq[i].block] = seq[i].cells
  <2>1. at(seq[i].block) = i
    BY <1>1
  <2> HIDE DEF at
  <2> QED
    BY <2>1
<1> QED
  BY <1>2 DEF SameHistory

(* Every step of the node keeps the two histories the same.                *)
LEMMA StepKeepsHistory ==
    NodeInv /\ PerBlockMatchesRing /\ [NodeNext]_nodeVars => PerBlockMatchesRing'
<1> SUFFICES ASSUME NodeInv, PerBlockMatchesRing, [NodeNext]_nodeVars
             PROVE  PerBlockMatchesRing'
  OBVIOUS
<1>1. /\ NodeInv' /\ Numbered(ring, block) /\ block \in Nat
      /\ Numbered(ring', block') /\ block' \in Nat
  <2>1. NodeInv'
    BY NodeStepKeepsInv
  <2>2. (Numbered(ring, block) /\ block \in Nat)'
    BY <2>1, RingNumbered, PTL
  <2> QED
    BY <2>1, <2>2, RingNumbered
<1>2. /\ PerBlockMatchesRing <=> SameHistory(perBlock, ring)
      /\ PerBlockMatchesRing' <=> SameHistory(perBlock', ring')
  BY DEF PerBlockMatchesRing, SameHistory
<1>3. CASE ApplyBlock
  <2>1. PICK b, after :
          /\ block' = block + 1
          /\ ring' = Push(ring, RingCapacity, [block |-> block + 1, cells |-> Minus(after, cells)])
          /\ perBlock' = [n \in Retained(ring') |->
                            IF n = block + 1 THEN Minus(after, cells) ELSE perBlock[n]]
    BY <1>3 DEF ApplyBlock
  <2>2. PICK d : d = [block |-> block + 1, cells |-> Minus(after, cells)]
    OBVIOUS
  <2>3. d.block = block + 1 /\ d.cells = Minus(after, cells) /\ ring' = Push(ring, RingCapacity, d)
    BY <2>1, <2>2
  <2>4. d \in DeltaRecord
    <3>1. Len(ring') \in 1 .. Len(ring') /\ d = ring'[Len(ring')]
      <4>1. PICK first : first = IF Len(ring) = RingCapacity THEN Tail(ring) ELSE ring
        OBVIOUS
      <4>2. ring \in Seq(DeltaRecord) /\ RingCapacity \in Nat \ {0}
        BY NodeAssumption DEF NodeInv, NodeTypeOK
      <4>3. Len(ring) = RingCapacity => Tail(ring) \in Seq(DeltaRecord)
        BY <4>2
      <4>4. first \in Seq(DeltaRecord) /\ ring' = Append(first, d)
        BY <2>3, <4>1, <4>2, <4>3 DEF Push
      <4>5. Len(Append(first, d)) = Len(first) + 1 /\ Append(first, d)[Len(first) + 1] = d
        BY <4>4
      <4>6. Len(first) \in Nat
        BY <4>4
      <4> QED
        BY <4>4, <4>5, <4>6
    <3>2. ring' \in Seq(DeltaRecord)
      BY <1>1 DEF Numbered
    <3> QED
      BY <3>1, <3>2
  <2>5. PICK kept : kept = {n \in DOMAIN perBlock \cup {block + 1} : n >= ring'[1].block}
    OBVIOUS
  <2>6. perBlock' = [n \in kept |-> IF n = block + 1 THEN d.cells ELSE perBlock[n]]
    BY <2>1, <2>3, <2>5 DEF Retained
  <2>7. Len(ring) <= RingCapacity
    BY DEF NodeInv, NodeTypeOK
  <2>8. PICK pushed : pushed = ring'
    OBVIOUS
  <2>9. Numbered(pushed, block + 1) /\ pushed = Push(ring, RingCapacity, d)
    BY <1>1, <2>1, <2>3, <2>8
  <2>10. SameHistory([n \in kept |-> IF n = block + 1 THEN d.cells ELSE perBlock[n]], pushed)
    BY <1>1, <1>2, <2>3, <2>4, <2>5, <2>7, <2>8, <2>9, PushKeepsHistory
  <2> QED
    BY <1>2, <2>6, <2>8, <2>10
<1>4. CASE Restart
  <2>1. PICK seq, top : seq = ring' /\ top = block'
    OBVIOUS
  <2>2. SameHistory([n \in {seq[i].block : i \in 1 .. Len(seq)} |->
                       seq[CHOOSE i \in 1 .. Len(seq) : seq[i].block = n].cells], seq)
    BY <1>1, <2>1, IndexedHistory
  <2>3. perBlock' = [n \in {seq[i].block : i \in 1 .. Len(seq)} |->
                       seq[CHOOSE i \in 1 .. Len(seq) : seq[i].block = n].cells]
    BY <1>4, <2>1 DEF Restart
  <2> QED
    BY <1>2, <2>1, <2>2, <2>3
<1>5. CASE Rebootstrap
  <2>1. ring' = <<>> /\ DOMAIN perBlock' = {}
    BY <1>5 DEF Rebootstrap
  <2>2. 1 .. Len(ring') = {}
    BY <2>1
  <2> QED
    BY <1>2, <2>1, <2>2 DEF SameHistory
<1>6. CASE UNCHANGED <<ring, perBlock>>
  BY <1>6 DEF PerBlockMatchesRing
<1>7. RejectBlock \/ AppendDelta \/ AppendFails \/ SaveState \/ UNCHANGED nodeVars
        => UNCHANGED <<ring, perBlock>>
  BY DEF RejectBlock, AppendDelta, AppendFails, SaveState, nodeVars, historyVars
<1> QED
  BY <1>3, <1>4, <1>5, <1>6, <1>7 DEF NodeNext, WriterStep

(* GET /delta/{block} and GET /sync serve the same history, however blocks *)
(* were pushed, evicted, pruned, replayed and bootstrapped anew.           *)
THEOREM HistoriesAlwaysAgree == NodeSpec => []PerBlockMatchesRing
<1>1. NodeInit => PerBlockMatchesRing
  <2>1. NodeInit => 1 .. Len(ring) = {} /\ DOMAIN perBlock = {}
    BY DEF NodeInit
  <2> QED
    BY <2>1 DEF PerBlockMatchesRing
<1>2. NodeInv /\ PerBlockMatchesRing /\ [NodeNext]_nodeVars => PerBlockMatchesRing'
  BY StepKeepsHistory
<1> QED
  BY <1>1, <1>2, NodeInvariant, PTL DEF NodeSpec

-----------------------------------------------------------------------------
(* The node with its clients.                                              *)

InRequest(c)   == pc[c] \notin {"idle", "follow"}
HasResponse(c) == pc[c] \in {"catchup", "finish"}

SessionOK(c) ==
    /\ session[c].epoch <= epoch
    /\ session[c].epoch \notin damaged =>
         Snapshot(session[c].epoch, session[c].head, ~session[c].strict,
                  Plus(session[c].base, session[c].delta)) \in archive

ResponseOK(c) ==
    HasResponse(c) /\ session[c].epoch \notin damaged =>
        Snapshot(session[c].epoch, resp[c].at, ~session[c].strict, resp[c].cells) \in archive

FloorOK(c) ==
    /\ InRequest(c) => req[c].acct \in Accounts /\ req[c].floor <= block
    /\ HasResponse(c) => req[c].floor <= resp[c].at

OutcomeOK(c) ==
    Answered(c) =>
        /\ outcome[c].floor <= outcome[c].at
        /\ outcome[c].epoch \notin damaged =>
             outcome[c].at \in 1 .. Len(chain) /\ outcome[c].acct \in Accounts /\ IsRight(outcome[c])

ClientOK(c) == SessionOK(c) /\ ResponseOK(c) /\ FloorOK(c) /\ OutcomeOK(c)

Inv == NodeInv /\ ClientTypeOK /\ \A c \in Clients : ClientOK(c)

-----------------------------------------------------------------------------
(* Steps of the node.                                                      *)

(* The node only adds to the history and to the chain.                     *)
LEMMA HistoryGrows ==
    ASSUME NodeInv, NodeNext
    PROVE  /\ archive \subseteq archive' /\ damaged \subseteq damaged'
           /\ epoch \in Nat /\ epoch' \in Nat /\ epoch <= epoch'
           /\ Len(chain) \in Nat /\ Len(chain') \in Nat /\ Len(chain) <= Len(chain')
           /\ \A n \in 1 .. Len(chain) : chain'[n] = chain[n]
<1> USE DEF serverVars, historyVars, diskVars
<1>0. epoch \in Nat /\ Len(chain) \in Nat /\ epoch <= epoch + 1 /\ epoch + 1 \in Nat
      /\ epoch <= epoch /\ Len(chain) <= Len(chain)
  BY DEF NodeInv, NodeTypeOK
<1>1. CASE ApplyBlock
  <2>1. PICK b \in NextBlocks(block + 1) : Fetched(block + 1, b)
    BY <1>1 DEF ApplyBlock
  <2>2. archive \subseteq archive'
    BY <1>1 DEF ApplyBlock
  <2>3. damaged' = damaged /\ epoch' = epoch
    BY <1>1 DEF ApplyBlock
  <2>4. /\ chain' \in Seq(Block) /\ Len(chain) <= Len(chain')
        /\ \A n \in 1 .. Len(chain) : chain'[n] = chain[n]
    BY <2>1, NextBlockFetched DEF NodeInv
  <2>5. Len(chain') \in Nat
    BY <2>4
  <2> QED
    BY <1>0, <2>2, <2>3, <2>4, <2>5
<1>2. CASE RejectBlock
  <2>1. PICK b \in NextBlocks(block + 1) : Fetched(block + 1, b)
    BY <1>2 DEF RejectBlock
  <2>2. archive' = archive /\ damaged \subseteq damaged' /\ epoch' = epoch
    BY <1>2 DEF RejectBlock
  <2>3. /\ chain' \in Seq(Block) /\ Len(chain) <= Len(chain')
        /\ \A n \in 1 .. Len(chain) : chain'[n] = chain[n]
    BY <2>1, NextBlockFetched DEF NodeInv
  <2>4. Len(chain') \in Nat
    BY <2>3
  <2> QED
    BY <1>0, <2>2, <2>3, <2>4
<1>3. CASE AppendDelta \/ AppendFails \/ SaveState
  <2>1. chain' = chain /\ archive' = archive /\ damaged' = damaged /\ epoch' = epoch
    BY <1>3 DEF AppendDelta, AppendFails, SaveState
  <2> QED
    BY <1>0, <2>1
<1>4. CASE Restart
  <2>1. chain' = chain /\ archive' = archive /\ damaged \subseteq damaged' /\ epoch' = epoch
    BY <1>4 DEF Restart
  <2> QED
    BY <1>0, <2>1
<1>5. CASE Rebootstrap
  <2>1. chain' = chain /\ archive \subseteq archive' /\ damaged' = damaged /\ epoch' = epoch + 1
    BY <1>5 DEF Rebootstrap
  <2> QED
    BY <1>0, <2>1
<1> QED
  BY <1>1, <1>2, <1>3, <1>4, <1>5 DEF NodeNext, WriterStep

(* No writer step serves a lower block than before.                        *)
LEMMA WriterNeverRewinds ==
    ASSUME NodeInv, WriterStep
    PROVE  block \in Nat /\ block' \in Nat /\ block <= block'
<1>1. block \in Nat
  BY DEF NodeInv, NodeTypeOK
<1>2. block' = block \/ block' = block + 1
  BY DEF WriterStep, ApplyBlock, RejectBlock, AppendDelta, AppendFails, SaveState, serverVars
<1> QED
  BY <1>1, <1>2

(* A client that is left alone stays right while the history grows: its    *)
(* state is as it was, but for a request's floor, lowered with the block.  *)
LEMMA ClientLeftAlone ==
    ASSUME NEW c \in Clients, NodeInv, ClientTypeOK, ClientOK(c),
           archive \subseteq archive', damaged \subseteq damaged', epoch \in Nat, epoch' \in Nat,
           epoch <= epoch', Len(chain) \in Nat, Len(chain') \in Nat, Len(chain) <= Len(chain'),
           \A n \in 1 .. Len(chain) : chain'[n] = chain[n],
           session'[c] = session[c], pc'[c] = pc[c], resp'[c] = resp[c],
           outcome'[c] = outcome[c], req'[c].acct = req[c].acct, req'[c].floor \in Nat,
           req'[c].floor <= req[c].floor,
           InRequest(c) => req'[c].floor <= block'
    PROVE  ClientOK(c)'
<1>1. /\ session[c].epoch \in Nat /\ req[c].floor \in Nat /\ resp[c].at \in Nat
  BY DEF ClientTypeOK, Sessions
<1>2. SessionOK(c)'
  <2>1. session[c].epoch <= epoch'
    BY <1>1 DEF ClientOK, SessionOK
  <2> QED
    BY <2>1 DEF ClientOK, SessionOK
<1>3. ResponseOK(c)'
  BY DEF ClientOK, ResponseOK, HasResponse
<1>4. FloorOK(c)'
  <2>1. InRequest(c) => req[c].acct \in Accounts
    BY DEF ClientOK, FloorOK
  <2>2. HasResponse(c) => req'[c].floor <= resp[c].at
    BY <1>1 DEF ClientOK, FloorOK
  <2> QED
    BY <2>1, <2>2 DEF FloorOK, InRequest, HasResponse
<1>5. OutcomeOK(c)'
  <2>1. Answered(c) /\ outcome[c].epoch \notin damaged' =>
          outcome[c].at \in 1 .. Len(chain') /\ chain'[outcome[c].at] = chain[outcome[c].at]
    BY DEF ClientOK, OutcomeOK
  <2> QED
    BY <2>1 DEF ClientOK, OutcomeOK, Answered, IsRight
<1> QED
  BY <1>2, <1>3, <1>4, <1>5 DEF ClientOK

(* A writer step disturbs no client.                                       *)
LEMMA NodeStepKeeps == Inv /\ NodeStep => Inv'
<1> SUFFICES ASSUME Inv, NodeStep PROVE Inv'
  OBVIOUS
<1>1. NodeInv /\ ClientTypeOK /\ NodeNext /\ WriterStep
  BY DEF Inv, NodeStep, NodeNext
<1>2. NodeInv'
  BY <1>1, NodeStepKeepsInv
<1>3. /\ session' = session /\ pc' = pc /\ req' = req /\ resp' = resp /\ retried' = retried
      /\ slot' = slot /\ outcome' = outcome
  BY DEF NodeStep, clientVars
<1>4. ClientTypeOK'
  BY <1>1, <1>3 DEF ClientTypeOK
<1>5. ASSUME NEW c \in Clients PROVE ClientOK(c)'
  <2>1. ClientOK(c)
    BY DEF Inv
  <2>2. req[c].floor \in Nat /\ req[c].floor <= req[c].floor
    BY <1>1 DEF ClientTypeOK
  <2>3. InRequest(c) => req[c].floor <= block'
    <3>1. InRequest(c) => req[c].floor <= block
      BY <2>1 DEF ClientOK, FloorOK
    <3> QED
      BY <1>1, <2>2, <3>1, WriterNeverRewinds
  <2> QED
    BY <1>1, <1>3, <2>1, <2>2, <2>3, HistoryGrows, ClientLeftAlone
<1> QED
  BY <1>2, <1>4, <1>5 DEF Inv

(* A restart or a fresh bootstrap disturbs no client.                      *)
LEMMA ReplacedKeeps == Inv /\ Replaced => Inv'
<1> SUFFICES ASSUME Inv, Replaced PROVE Inv'
  OBVIOUS
<1>1. NodeInv /\ ClientTypeOK /\ NodeNext
  BY DEF Inv, Replaced, NodeNext
<1>2. NodeInv'
  BY <1>1, NodeStepKeepsInv
<1>3. /\ session' = session /\ pc' = pc /\ resp' = resp /\ retried' = retried
      /\ slot' = slot /\ outcome' = outcome
  BY DEF Replaced
<1>4. block' \in Nat
  BY <1>2 DEF NodeInv, NodeTypeOK
<1>5. ASSUME NEW c \in Clients
      PROVE  /\ req'[c] \in [acct : Nat, target : Nat, floor : Nat]
             /\ req'[c].acct = req[c].acct
             /\ req'[c].floor <= req[c].floor /\ req'[c].floor <= block'
  <2>1. req'[c] = [req[c] EXCEPT !.floor = IF block' < @ THEN block' ELSE @]
    BY DEF Replaced
  <2>2. req[c] \in [acct : Nat, target : Nat, floor : Nat]
    BY <1>1 DEF ClientTypeOK
  <2>3. req'[c].acct = req[c].acct
        /\ req'[c].floor = IF block' < req[c].floor THEN block' ELSE req[c].floor
    BY <2>1, <2>2
  <2>4. req'[c] \in [acct : Nat, target : Nat, floor : Nat]
    BY <1>4, <2>1, <2>2
  <2> QED
    BY <1>4, <2>2, <2>3, <2>4
<1>6. ClientTypeOK'
  <2>1. req' = [c \in Clients |->
                 [req[c] EXCEPT !.floor = IF block' < @ THEN block' ELSE @]]
    BY DEF Replaced
  <2>2. req' \in [Clients -> [acct : Nat, target : Nat, floor : Nat]]
    BY <1>5, <2>1
  <2> QED
    BY <1>1, <1>3, <2>2 DEF ClientTypeOK
<1>7. ASSUME NEW c \in Clients PROVE ClientOK(c)'
  <2>1. ClientOK(c)
    BY DEF Inv
  <2>2. req'[c].floor \in Nat
    BY <1>5
  <2> QED
    BY <1>1, <1>3, <1>5, <2>1, <2>2, HistoryGrows, ClientLeftAlone
<1> QED
  BY <1>2, <1>6, <1>7 DEF Inv

-----------------------------------------------------------------------------
(* Steps of a client.                                                      *)

(* A step of client c leaves the node's data and the other clients alone.  *)
Alone(c) ==
    /\ chain' = chain /\ epoch' = epoch /\ complete' = complete /\ block' = block
    /\ archive' = archive /\ damaged' = damaged
    /\ \A d \in Clients \ {c} :
         /\ session'[d] = session[d] /\ pc'[d] = pc[d] /\ req'[d] = req[d]
         /\ resp'[d] = resp[d] /\ outcome'[d] = outcome[d]

(* What is left to show of a client's step.                                *)
LEMMA AloneKeeps ==
    ASSUME Inv, NEW c \in Clients, Alone(c), NodeInv', ClientTypeOK', ClientOK(c)'
    PROVE  Inv'
<1>1. ASSUME NEW d \in Clients \ {c} PROVE ClientOK(d)'
  <2>1. NodeInv /\ ClientTypeOK /\ ClientOK(d)
    BY DEF Inv
  <2>2. epoch \in Nat /\ epoch <= epoch /\ Len(chain) \in Nat /\ Len(chain) <= Len(chain)
    BY <2>1 DEF NodeInv, NodeTypeOK
  <2>3. req[d].floor \in Nat /\ req[d].floor <= req[d].floor
    BY <2>1 DEF ClientTypeOK
  <2>4. InRequest(d) => req[d].floor <= block
    BY <2>1 DEF ClientOK, FloorOK
  <2> QED
    BY <2>1, <2>2, <2>3, <2>4, ClientLeftAlone DEF Alone
<1> QED
  BY <1>1 DEF Inv

(* Nothing happens to a node that is only asked.                           *)
LEMMA NodeUntouched == Inv /\ UNCHANGED nodeVars => NodeInv'
BY NodeStepKeepsInv DEF Inv

(* A request that ends, in a balance that is right or in an error, leaves  *)
(* nothing behind.                                                         *)
LEMMA ReturnKeeps ==
    ASSUME Inv, NEW c \in Clients, NEW result \in Failures \cup BalanceReplies,
           Return(c, result), UNCHANGED <<nodeVars, session>>,
           slot' \in [Clients -> BOOLEAN],
           result.kind = "balance" =>
              /\ result.floor <= result.at
              /\ result.epoch \notin damaged =>
                   result.at \in 1 .. Len(chain) /\ result.acct \in Accounts /\ IsRight(result)
    PROVE  Inv'
<1>1. NodeInv'
  BY NodeUntouched
<1>2. ClientTypeOK
  BY DEF Inv
<1>3. /\ pc' = [pc EXCEPT ![c] = "idle"]
      /\ req' = [req EXCEPT ![c] = NoRequest]
      /\ resp' = [resp EXCEPT ![c] = NoResponse]
      /\ retried' = [retried EXCEPT ![c] = FALSE]
      /\ outcome' = [outcome EXCEPT ![c] = result]
      /\ session' = session
  BY DEF Return, Release, Goto
<1>4. ClientTypeOK'
  <2>1. "idle" \in Steps
    BY DEF Steps
  <2>2. NoRequest \in [acct : Nat, target : Nat, floor : Nat]
    BY DEF NoRequest
  <2>3. NoResponse \in [at : Nat, cells : DeltaMap]
    BY CellMaps DEF NoResponse
  <2>4. outcome' \in [Clients -> {NoOutcome} \cup Failures \cup BalanceReplies]
    BY <1>2, <1>3 DEF ClientTypeOK
  <2> QED
    BY <1>2, <1>3, <2>1, <2>2, <2>3, <2>4 DEF ClientTypeOK
<1>5. /\ pc'[c] = "idle" /\ outcome'[c] = result
      /\ \A d \in Clients \ {c} : /\ pc'[d] = pc[d] /\ req'[d] = req[d]
                                  /\ resp'[d] = resp[d] /\ outcome'[d] = outcome[d]
  BY <1>2, <1>3 DEF ClientTypeOK
<1>6. Alone(c)
  BY <1>3, <1>5 DEF Alone, nodeVars, serverVars
<1>7. ClientOK(c)'
  <2>1. SessionOK(c)'
    BY <1>3, <1>6 DEF Inv, ClientOK, SessionOK, Alone
  <2>2. ResponseOK(c)' /\ FloorOK(c)'
    BY <1>5 DEF ResponseOK, FloorOK, InRequest, HasResponse
  <2>3. OutcomeOK(c)'
    BY <1>5, <1>6 DEF OutcomeOK, Answered, IsRight, Alone
  <2> QED
    BY <2>1, <2>2, <2>3 DEF ClientOK
<1> QED
  BY <1>1, <1>4, <1>6, <1>7, AloneKeeps

(* Syncing moves a session along its lineage: the delta that GET /sync     *)
(* answers with starts at the very state the session has reached.          *)
LEMMA SyncKeepsSession ==
    ASSUME Inv, NEW c \in Clients, UNCHANGED nodeVars, NEW ok, NEW stalled,
           SyncTo(c, ok, stalled)
    PROVE  /\ session' \in [Clients -> Sessions]
           /\ \A d \in Clients \ {c} : session'[d] = session[d]
           /\ session'[c].epoch = session[c].epoch /\ session'[c].strict = session[c].strict
           /\ SessionOK(c)'
<1>1. NodeInv /\ ClientTypeOK /\ SessionOK(c)
  BY DEF Inv, ClientOK
<1>2. /\ chain' = chain /\ epoch' = epoch /\ archive' = archive /\ damaged' = damaged
  BY DEF nodeVars, serverVars
<1>3. session \in [Clients -> Sessions] /\ session[c] \in Sessions /\ req[c].target \in Nat
  BY <1>1 DEF ClientTypeOK
<1>4. CASE session' = session
  BY <1>1, <1>2, <1>3, <1>4 DEF SessionOK
<1>5. CASE session' # session
  <2>1. PICK s, d : s = session[c] /\ d = SyncReply(s.epoch, s.head, req[c].target)
    OBVIOUS
  <2>2. /\ d # Refused
        /\ session' = [session EXCEPT ![c].delta = Plus(@, d.cells), ![c].head = d.block]
    BY <1>5, <2>1 DEF SyncTo
  <2>3. s \in Sessions /\ s.head \in Nat /\ s.base \in DeltaMap /\ s.delta \in DeltaMap
    BY <1>3, <2>1 DEF Sessions
  <2>4. s.epoch = epoch
    BY <2>1, <2>2 DEF SyncReply
  <2>5. PICK D, E \in DeltaMap :
          /\ Snapshot(epoch, s.head, complete, D) \in archive
          /\ Snapshot(epoch, req[c].target, complete, E) \in archive
          /\ d.block = req[c].target /\ d.cells \in DeltaMap
          /\ Plus(D, d.cells) = E
          /\ s.head < req[c].target
    BY <1>1, <1>3, <2>1, <2>2, <2>3, <2>4, SyncBridges DEF NodeInv
  <2>6. PICK t : t = session'[c]
    OBVIOUS
  <2>7. /\ t.epoch = s.epoch /\ t.base = s.base /\ t.strict = s.strict
        /\ t.delta = Plus(s.delta, d.cells) /\ t.head = d.block
        /\ t = [s EXCEPT !.delta = Plus(@, d.cells), !.head = d.block]
        /\ \A x \in Clients \ {c} : session'[x] = session[x]
    BY <1>3, <2>1, <2>2, <2>3, <2>6 DEF Sessions
  <2>8. session' \in [Clients -> Sessions]
    <3>1. Plus(s.delta, d.cells) \in DeltaMap /\ d.block \in Nat \ {0}
      BY <1>3, <2>3, <2>5, CellMaps
    <3>2. t \in Sessions
      BY <2>3, <2>7, <3>1 DEF Sessions
    <3> QED
      BY <1>3, <2>2, <2>6, <3>2
  <2>9. ASSUME epoch \notin damaged
        PROVE  Snapshot(epoch, t.head, ~t.strict, Plus(t.base, t.delta)) \in archive
    <3>1. PICK q, r : /\ q = Snapshot(epoch, s.head, complete, D)
                      /\ r = Snapshot(epoch, s.head, ~s.strict, Plus(s.base, s.delta))
      OBVIOUS
    <3>2. q \in archive /\ r \in archive
      BY <1>1, <2>1, <2>4, <2>5, <2>9, <3>1 DEF SessionOK
    <3>3. q.epoch = epoch /\ r.epoch = epoch /\ q.block = s.head /\ r.block = s.head
          /\ q.complete = complete /\ r.complete = ~s.strict
          /\ q.contents = D /\ r.contents = Plus(s.base, s.delta)
      BY <3>1 DEF Snapshot
    <3>4. q = r
      BY <1>1, <2>9, <3>2, <3>3 DEF NodeInv, ArchiveOK
    <3>5. D = Plus(s.base, s.delta) /\ complete = ~s.strict
      BY <3>3, <3>4
    <3>6. E = Plus(t.base, t.delta)
      BY <2>3, <2>5, <2>7, <3>5, PlusAssociative
    <3> QED
      BY <2>5, <2>7, <3>5, <3>6
  <2> QED
    BY <1>1, <1>2, <2>1, <2>4, <2>6, <2>7, <2>8, <2>9 DEF SessionOK
<1> QED
  BY <1>4, <1>5

(* What the outcome of the last request said stays right.                  *)
LEMMA OutcomeKept ==
    ASSUME NEW c \in Clients, OutcomeOK(c), outcome'[c] = outcome[c],
           chain' = chain, damaged' = damaged
    PROVE  OutcomeOK(c)'
BY DEF OutcomeOK, Answered, IsRight

(* A question put, to a request's first step.                              *)
LEMMA InvokeKeeps ==
    ASSUME Inv, NEW c \in Clients, NEW a \in Accounts, Invoke(c, a)
    PROVE  Inv'
<1>1. NodeInv' /\ NodeInv /\ ClientTypeOK /\ ClientOK(c)
  BY NodeUntouched DEF Inv, Invoke
<1>2. /\ pc' = [pc EXCEPT ![c] = "head"]
      /\ req' = [req EXCEPT ![c] = [acct |-> a, target |-> 0, floor |-> block]]
      /\ outcome' = [outcome EXCEPT ![c] = NoOutcome]
      /\ session' = session /\ resp' = resp /\ retried' = retried /\ slot' = slot
      /\ UNCHANGED nodeVars
  BY DEF Invoke, Goto
<1>3. block \in Nat /\ a \in Nat
  BY <1>1, CellsAssumption DEF NodeInv, NodeTypeOK
<1>4. ClientTypeOK'
  <2>1. pc' \in [Clients -> Steps]
    BY <1>1, <1>2 DEF ClientTypeOK, Steps
  <2>2. req' \in [Clients -> [acct : Nat, target : Nat, floor : Nat]]
    BY <1>1, <1>2, <1>3 DEF ClientTypeOK
  <2>3. outcome' \in [Clients -> {NoOutcome} \cup Failures \cup BalanceReplies]
    BY <1>1, <1>2 DEF ClientTypeOK
  <2> QED
    BY <1>1, <1>2, <2>1, <2>2, <2>3 DEF ClientTypeOK
<1>5. /\ pc'[c] = "head" /\ req'[c] = [acct |-> a, target |-> 0, floor |-> block]
      /\ outcome'[c] = NoOutcome
      /\ \A d \in Clients \ {c} : pc'[d] = pc[d] /\ req'[d] = req[d] /\ outcome'[d] = outcome[d]
  BY <1>1, <1>2 DEF ClientTypeOK
<1>6. Alone(c)
  BY <1>2, <1>5 DEF Alone, nodeVars, serverVars
<1>7. ClientOK(c)'
  <2>1. SessionOK(c)'
    BY <1>1, <1>2, <1>6 DEF ClientOK, SessionOK, Alone
  <2>2. ResponseOK(c)'
    BY <1>5 DEF ResponseOK, HasResponse
  <2>3. FloorOK(c)'
    <3>1. block <= block
      BY <1>3
    <3> QED
      BY <1>5, <1>6, <3>1 DEF FloorOK, HasResponse, Alone
  <2>4. OutcomeOK(c)'
    BY <1>5 DEF OutcomeOK, Answered, NoOutcome
  <2> QED
    BY <2>1, <2>2, <2>3, <2>4 DEF ClientOK
<1> QED
  BY <1>1, <1>4, <1>6, <1>7, AloneKeeps

(* A request that has not asked /answer yet, or is past it, moves on to    *)
(* another such step without a word to the node.                           *)
LEMMA MoveKeeps ==
    ASSUME Inv, NEW c \in Clients, NEW step \in Steps \ {"catchup", "finish"},
           InRequest(c), Goto(c, step), UNCHANGED <<nodeVars, outcome>>,
           session' \in [Clients -> Sessions],
           \A d \in Clients \ {c} : session'[d] = session[d],
           SessionOK(c)',
           req' \in [Clients -> [acct : Nat, target : Nat, floor : Nat]],
           \A d \in Clients \ {c} : req'[d] = req[d],
           req'[c].acct = req[c].acct, req'[c].floor = req[c].floor,
           resp' \in [Clients -> [at : Nat, cells : DeltaMap]],
           \A d \in Clients \ {c} : resp'[d] = resp[d],
           retried' \in [Clients -> BOOLEAN], slot' \in [Clients -> BOOLEAN]
    PROVE  Inv'
<1>1. NodeInv' /\ ClientTypeOK /\ ClientOK(c)
  BY NodeUntouched DEF Inv
<1>2. pc' = [pc EXCEPT ![c] = step] /\ pc' \in [Clients -> Steps]
  BY <1>1 DEF Goto, ClientTypeOK
<1>3. pc'[c] = step /\ \A d \in Clients \ {c} : pc'[d] = pc[d]
  BY <1>1, <1>2 DEF ClientTypeOK
<1>4. ClientTypeOK'
  BY <1>1, <1>2 DEF ClientTypeOK
<1>5. Alone(c)
  BY <1>3 DEF Alone, nodeVars, serverVars
<1>6. ClientOK(c)'
  <2>1. ResponseOK(c)'
    BY <1>3 DEF ResponseOK, HasResponse
  <2>2. FloorOK(c)'
    BY <1>1, <1>3, <1>5 DEF ClientOK, FloorOK, InRequest, HasResponse, Alone
  <2>3. OutcomeOK(c)'
    BY <1>1, <1>5, OutcomeKept DEF ClientOK, Alone
  <2> QED
    BY <2>1, <2>2, <2>3 DEF ClientOK
<1> QED
  BY <1>1, <1>4, <1>5, <1>6, AloneKeeps

(* The session of a client that keeps it is as right as it was.            *)
LEMMA SessionKept ==
    ASSUME Inv, NEW c \in Clients, UNCHANGED <<nodeVars, session>>
    PROVE  SessionOK(c)' /\ session' \in [Clients -> Sessions]
BY DEF Inv, ClientOK, SessionOK, ClientTypeOK, nodeVars, serverVars

(* Reading the head only sets a request's target.                         *)
LEMMA ReadHeadKeeps ==
    ASSUME Inv, NEW c \in Clients, ReadHead(c)
    PROVE  Inv'
<1>1. /\ InRequest(c) /\ Goto(c, "sync") /\ req' = [req EXCEPT ![c].target = block]
      /\ UNCHANGED <<nodeVars, session, resp, retried, slot, outcome>>
  BY DEF ReadHead, InRequest
<1>2. ClientTypeOK /\ block \in Nat
  BY DEF Inv, NodeInv, NodeTypeOK
<1>3. /\ req' \in [Clients -> [acct : Nat, target : Nat, floor : Nat]]
      /\ \A d \in Clients \ {c} : req'[d] = req[d]
      /\ req'[c].acct = req[c].acct /\ req'[c].floor = req[c].floor
  BY <1>1, <1>2 DEF ClientTypeOK
<1>4. SessionOK(c)' /\ session' \in [Clients -> Sessions]
  BY <1>1, SessionKept
<1>5. "sync" \in Steps \ {"catchup", "finish"}
  BY DEF Steps
<1> QED
  BY <1>1, <1>2, <1>3, <1>4, <1>5, MoveKeeps DEF ClientTypeOK

(* Catching up with the head, or finding out that the session cannot.      *)
LEMMA SyncToHeadKeeps ==
    ASSUME Inv, NEW c \in Clients, SyncToHead(c)
    PROVE  Inv'
<1>1. /\ InRequest(c) /\ UNCHANGED <<nodeVars, req, resp, retried, slot, outcome>>
      /\ SyncTo(c, Goto(c, "answer"), Goto(c, "stalled"))
  BY DEF SyncToHead, InRequest
<1>2. ClientTypeOK
  BY DEF Inv
<1>3. /\ session' \in [Clients -> Sessions] /\ SessionOK(c)'
      /\ \A d \in Clients \ {c} : session'[d] = session[d]
  BY <1>1, SyncKeepsSession
<1>4. PICK step \in {"answer", "stalled"} : Goto(c, step)
  BY <1>1 DEF SyncTo
<1>5. step \in Steps \ {"catchup", "finish"}
  BY <1>4 DEF Steps
<1> QED
  BY <1>1, <1>2, <1>3, <1>4, <1>5, MoveKeeps DEF ClientTypeOK

(* The response of /answer is the state of the session's lineage at the    *)
(* block it is labelled with.                                              *)
LEMMA QueryKeeps ==
    ASSUME Inv, NEW c \in Clients, Query(c)
    PROVE  Inv'
<1>1. NodeInv' /\ NodeInv /\ ClientTypeOK /\ ClientOK(c)
  BY NodeUntouched DEF Inv, Query
<1>2. InRequest(c) /\ UNCHANGED <<nodeVars, session, retried, slot, outcome>>
  BY DEF Query, InRequest
<1>3. SessionOK(c)' /\ session' \in [Clients -> Sessions]
  BY <1>2, SessionKept
<1>4. block \in Nat /\ cells \in DeltaMap
  BY <1>1 DEF NodeInv, NodeTypeOK
<1>5. CASE /\ session[c].epoch = epoch
           /\ resp' = [resp EXCEPT ![c] = AnswerReply]
           /\ req' = [req EXCEPT ![c].target = block]
           /\ Goto(c, "catchup")
  <2>1. /\ resp' \in [Clients -> [at : Nat, cells : DeltaMap]]
        /\ resp'[c].at = block /\ resp'[c].cells = cells
        /\ \A d \in Clients \ {c} : resp'[d] = resp[d]
    BY <1>1, <1>4, <1>5 DEF ClientTypeOK, AnswerReply
  <2>2. /\ req' \in [Clients -> [acct : Nat, target : Nat, floor : Nat]]
        /\ \A d \in Clients \ {c} : req'[d] = req[d]
        /\ req'[c].acct = req[c].acct /\ req'[c].floor = req[c].floor
    BY <1>1, <1>4, <1>5 DEF ClientTypeOK
  <2>3. /\ pc' \in [Clients -> Steps] /\ pc'[c] = "catchup"
        /\ \A d \in Clients \ {c} : pc'[d] = pc[d]
    BY <1>1, <1>5 DEF ClientTypeOK, Goto, Steps
  <2>4. ClientTypeOK'
    BY <1>1, <1>2, <2>1, <2>2, <2>3 DEF ClientTypeOK
  <2>5. Alone(c)
    BY <1>2, <2>1, <2>2, <2>3 DEF Alone, nodeVars, serverVars
  <2>6. ResponseOK(c)'
    <3>1. ASSUME epoch \notin damaged
          PROVE  Snapshot(epoch, block, ~session[c].strict, cells) \in archive
      <4>1. Snapshot(epoch, block, complete, cells) \in archive
        BY <1>1, <3>1 DEF NodeInv, HeadOK
      <4>2. (~session[c].strict) = complete
        <5>1. PICK r : r = Snapshot(session[c].epoch, session[c].head, ~session[c].strict,
                                    Plus(session[c].base, session[c].delta))
          OBVIOUS
        <5>2. r \in archive /\ r.epoch = epoch /\ r.complete = ~session[c].strict
          BY <1>1, <1>5, <3>1, <5>1 DEF ClientOK, SessionOK, Snapshot
        <5> QED
          BY <1>1, <5>2 DEF NodeInv, ArchiveOK
      <4> QED
        BY <4>1, <4>2
    <3> QED
      BY <1>2, <1>5, <2>1, <2>5, <3>1 DEF ResponseOK, Alone
  <2>7. FloorOK(c)'
    BY <1>1, <1>2, <2>1, <2>2, <2>3, <2>5 DEF ClientOK, FloorOK, InRequest, HasResponse, Alone
  <2>8. OutcomeOK(c)'
    BY <1>1, <1>2, <2>5, OutcomeKept DEF ClientOK, Alone
  <2> QED
    BY <1>1, <1>3, <2>4, <2>5, <2>6, <2>7, <2>8, AloneKeeps DEF ClientOK
<1>6. CASE Goto(c, "stalled") /\ UNCHANGED <<resp, req>>
  <2>1. "stalled" \in Steps \ {"catchup", "finish"}
    BY DEF Steps
  <2> QED
    BY <1>1, <1>2, <1>3, <1>6, <2>1, MoveKeeps DEF ClientTypeOK
<1> QED
  BY <1>5, <1>6 DEF Query, AnswerReply

(* Catching up with the answer keeps the response what it was.             *)
LEMMA SyncToAnswerKeeps ==
    ASSUME Inv, NEW c \in Clients, SyncToAnswer(c)
    PROVE  Inv'
<1>1. NodeInv' /\ ClientTypeOK /\ ClientOK(c)
  BY NodeUntouched DEF Inv, SyncToAnswer
<1>2. /\ pc[c] = "catchup" /\ InRequest(c) /\ HasResponse(c)
      /\ UNCHANGED <<nodeVars, req, resp, retried, slot, outcome>>
      /\ SyncTo(c, Goto(c, "finish"), Goto(c, "stalled"))
  BY DEF SyncToAnswer, InRequest, HasResponse
<1>3. /\ session' \in [Clients -> Sessions] /\ SessionOK(c)'
      /\ \A d \in Clients \ {c} : session'[d] = session[d]
      /\ session'[c].epoch = session[c].epoch /\ session'[c].strict = session[c].strict
  BY <1>2, SyncKeepsSession
<1>4. PICK step \in {"finish", "stalled"} : Goto(c, step)
  BY <1>2 DEF SyncTo
<1>5. /\ pc' \in [Clients -> Steps] /\ pc'[c] = step /\ InRequest(c)'
      /\ \A d \in Clients \ {c} : pc'[d] = pc[d]
  BY <1>1, <1>4 DEF ClientTypeOK, Goto, Steps, InRequest
<1>6. ClientTypeOK'
  BY <1>1, <1>2, <1>3, <1>5 DEF ClientTypeOK
<1>7. Alone(c)
  BY <1>2, <1>3, <1>5 DEF Alone, nodeVars, serverVars
<1>8. ResponseOK(c)'
  BY <1>1, <1>2, <1>3, <1>7 DEF ClientOK, ResponseOK, Alone
<1>9. FloorOK(c)'
  BY <1>1, <1>2, <1>7 DEF ClientOK, FloorOK, Alone
<1>10. OutcomeOK(c)'
  BY <1>1, <1>2, <1>7, OutcomeKept DEF ClientOK, Alone
<1> QED
  BY <1>1, <1>3, <1>6, <1>7, <1>8, <1>9, <1>10, AloneKeeps DEF ClientOK

(* A response decoded at the session's head is the session's own state, so *)
(* every cell of it is readable and the balance found is the chain's.      *)
LEMMA DecodedIsRight ==
    ASSUME Inv, NEW c \in Clients, pc[c] = "finish", resp[c].at = session[c].head,
           session[c].epoch \notin damaged,
           BalanceIn(Decoded(c), req[c].acct) # 0 \/ ~session[c].strict
    PROVE  /\ resp[c].at \in 1 .. Len(chain)
           /\ BalanceIn(Decoded(c), req[c].acct) = chain[resp[c].at].bal[req[c].acct]
<1>1. NodeInv /\ ClientTypeOK /\ ClientOK(c)
  BY DEF Inv
<1>2. PICK s, w, a : s = session[c] /\ w = resp[c] /\ a = req[c].acct
  OBVIOUS
<1>3. /\ s \in Sessions /\ w \in [at : Nat, cells : DeltaMap] /\ a \in Accounts
      /\ w.at = s.head /\ s.epoch \notin damaged
  BY <1>1, <1>2 DEF ClientTypeOK, ClientOK, FloorOK, InRequest
<1>4. PICK q, r : /\ q = Snapshot(s.epoch, s.head, ~s.strict, Plus(s.base, s.delta))
                  /\ r = Snapshot(s.epoch, w.at, ~s.strict, w.cells)
  OBVIOUS
<1>5. q \in archive /\ r \in archive
  BY <1>1, <1>2, <1>3, <1>4 DEF ClientOK, SessionOK, ResponseOK, HasResponse
<1>6. /\ q.epoch = s.epoch /\ r.epoch = s.epoch /\ q.block = s.head /\ r.block = s.head
      /\ r.complete = ~s.strict
      /\ q.contents = Plus(s.base, s.delta) /\ r.contents = w.cells
  BY <1>3, <1>4 DEF Snapshot
<1>7. q = r
  BY <1>1, <1>3, <1>5, <1>6 DEF NodeInv, ArchiveOK
<1>8. w.cells = Plus(s.base, s.delta)
  BY <1>6, <1>7
<1>9. Decoded(c) = w.cells
  <2>1. w.cells \in DeltaMap /\ s.base \in DeltaMap /\ s.delta \in DeltaMap
    BY <1>3 DEF Sessions
  <2>2. \A x \in Cells : w.cells[x] - s.delta[x] = s.base[x]
    BY <1>8, <2>1 DEF Plus, DeltaMap
  <2>3. \A x \in Slots, y \in Accounts : <<x, y>> \in Cells
    BY DEF Cells
  <2>4. \A x \in Cells : x[1] \in Slots /\ ColumnMates[x[1]] \subseteq Slots
    BY ClientAssumption DEF Cells
  <2>5. \A x \in Cells : Readable(c, x[1])
    BY <1>2, <2>2, <2>3, <2>4 DEF Readable
  <2>6. Decoded(c) = [x \in Cells |-> w.cells[x]]
    BY <1>2, <2>5 DEF Decoded
  <2> QED
    BY <2>1, <2>6 DEF DeltaMap
<1>10. Truthful(w.cells, s.head, ~s.strict)
  BY <1>1, <1>3, <1>5, <1>6 DEF NodeInv, ArchiveOK
<1>11. BalanceIn(w.cells, a) = chain[s.head].bal[a]
  BY <1>2, <1>3, <1>9, <1>10 DEF Truthful
<1>12. s.head \in 1 .. Len(chain)
  <2>1. s.head \in Nat \ {0} /\ Len(chain) \in Nat
    BY <1>1, <1>3 DEF Sessions, NodeInv, NodeTypeOK
  <2>2. s.head <= Len(chain)
    BY <1>1, <1>5, <1>6 DEF NodeInv, ArchiveOK
  <2> QED
    BY <2>1, <2>2
<1> QED
  BY <1>2, <1>3, <1>9, <1>11, <1>12

(* Errors are replies.                                                     *)
LEMMA FailuresAre ==
    \A why \in {"undecodable", "NotInTrackedSet", "Stalled", "Pir"} :
        Failure(why) \in Failures \cup BalanceReplies /\ Failure(why).kind # "balance"
BY DEF Failures, Failure

(* A request ends in a right balance or in an error, or stalls.            *)
LEMMA FinishKeeps ==
    ASSUME Inv, NEW c \in Clients, Finish(c)
    PROVE  Inv'
<1>1. NodeInv /\ ClientTypeOK /\ ClientOK(c)
  BY DEF Inv
<1>2. /\ pc[c] = "finish" /\ InRequest(c) /\ HasResponse(c)
      /\ UNCHANGED <<nodeVars, session, slot>>
  BY DEF Finish, InRequest, HasResponse
<1>3. slot' \in [Clients -> BOOLEAN]
  BY <1>1, <1>2 DEF ClientTypeOK
<1>4. CASE Goto(c, "stalled") /\ UNCHANGED <<req, resp, retried, outcome>>
  <2>1. "stalled" \in Steps \ {"catchup", "finish"}
    BY DEF Steps
  <2>2. SessionOK(c)' /\ session' \in [Clients -> Sessions]
    BY <1>2, SessionKept
  <2> QED
    BY <1>1, <1>2, <1>3, <1>4, <2>1, <2>2, MoveKeeps DEF ClientTypeOK
<1>5. ASSUME NEW why \in {"undecodable", "NotInTrackedSet"}, Return(c, Failure(why))
      PROVE  Inv'
  <2>1. PICK result : result = Failure(why)
    OBVIOUS
  <2>2. result \in Failures \cup BalanceReplies /\ result.kind # "balance"
    BY <2>1, FailuresAre
  <2> QED
    BY <1>2, <1>3, <1>5, <2>1, <2>2, ReturnKeeps
<1>6. CASE /\ resp[c].at = session[c].head
           /\ BalanceIn(Decoded(c), req[c].acct) # 0 \/ ~session[c].strict
           /\ Return(c, Balance(c, BalanceIn(Decoded(c), req[c].acct)))
  <2>1. PICK v : v = BalanceIn(Decoded(c), req[c].acct)
    OBVIOUS
  <2>2. PICK result : result = Balance(c, v)
    OBVIOUS
  <2>3. /\ result = [kind |-> "balance", acct |-> req[c].acct, at |-> resp[c].at, bal |-> v,
                     floor |-> req[c].floor, epoch |-> session[c].epoch]
    BY <2>2 DEF Balance
  <2>4. v \in Int
    <3>1. resp[c].cells \in DeltaMap /\ req[c].acct \in Accounts
      BY <1>1, <1>2 DEF ClientTypeOK, ClientOK, FloorOK
    <3>2. Decoded(c) \in DeltaMap
      BY <3>1 DEF Decoded, DeltaMap
    <3> QED
      BY <2>1, <3>1, <3>2, BalanceInteger
  <2>5. result \in BalanceReplies
    BY <1>1, <2>3, <2>4 DEF ClientTypeOK, Sessions, BalanceReplies
  <2>6. result.floor <= result.at
    BY <1>1, <1>2, <2>3 DEF ClientOK, FloorOK
  <2>7. result.epoch \notin damaged =>
          result.at \in 1 .. Len(chain) /\ result.acct \in Accounts /\ IsRight(result)
    <3>1. req[c].acct \in Accounts
      BY <1>1, <1>2 DEF ClientOK, FloorOK
    <3>2. session[c].epoch \notin damaged =>
            resp[c].at \in 1 .. Len(chain) /\ v = chain[resp[c].at].bal[req[c].acct]
      BY <1>2, <1>6, <2>1, DecodedIsRight
    <3> QED
      BY <2>3, <3>1, <3>2 DEF IsRight
  <2>8. Return(c, result)
    BY <1>6, <2>1, <2>2
  <2> QED
    BY <1>2, <1>3, <2>5, <2>6, <2>7, <2>8, ReturnKeeps
<1> QED
  BY <1>4, <1>5, <1>6 DEF Finish

(* A stalled request takes the re-bootstrap slot or gives up.              *)
LEMMA SlotKeeps ==
    ASSUME Inv, NEW c \in Clients, TakeRebootstrapSlot(c)
    PROVE  Inv'
<1>1. ClientTypeOK
  BY DEF Inv
<1>2. InRequest(c) /\ UNCHANGED <<nodeVars, session>>
  BY DEF TakeRebootstrapSlot, InRequest
<1>3. SessionOK(c)' /\ session' \in [Clients -> Sessions]
  BY <1>2, SessionKept
<1>4. CASE /\ slot' = [slot EXCEPT ![c] = FALSE]
           /\ retried' = [retried EXCEPT ![c] = TRUE]
           /\ resp' = [resp EXCEPT ![c] = NoResponse]
           /\ Goto(c, "setup")
           /\ UNCHANGED <<req, outcome>>
  <2>1. "setup" \in Steps \ {"catchup", "finish"}
    BY DEF Steps
  <2>2. slot' \in [Clients -> BOOLEAN] /\ retried' \in [Clients -> BOOLEAN]
    BY <1>1, <1>4 DEF ClientTypeOK
  <2>3. /\ resp' \in [Clients -> [at : Nat, cells : DeltaMap]]
        /\ \A d \in Clients \ {c} : resp'[d] = resp[d]
    <3>1. NoResponse \in [at : Nat, cells : DeltaMap]
      BY CellMaps DEF NoResponse
    <3> QED
      BY <1>1, <1>4, <3>1 DEF ClientTypeOK
  <2> QED
    BY <1>1, <1>2, <1>3, <1>4, <2>1, <2>2, <2>3, MoveKeeps DEF ClientTypeOK
<1>5. CASE Return(c, Failure("Stalled")) /\ UNCHANGED slot
  <2>1. PICK result : result = Failure("Stalled")
    OBVIOUS
  <2>2. result \in Failures \cup BalanceReplies /\ result.kind # "balance"
    BY <2>1, FailuresAre
  <2> QED
    BY <1>1, <1>2, <1>5, <2>1, <2>2, ReturnKeeps DEF ClientTypeOK
<1> QED
  BY <1>4, <1>5 DEF TakeRebootstrapSlot

(* A session replaced by a fresh bundle is a state of the lineage it was   *)
(* downloaded from.                                                        *)
LEMMA ReplaceSessionKeeps ==
    ASSUME Inv, NEW c \in Clients, ReplaceSession(c)
    PROVE  /\ NodeInv' /\ session' \in [Clients -> Sessions] /\ SessionOK(c)'
           /\ \A d \in Clients \ {c} : session'[d] = session[d]
           /\ chain' = chain /\ epoch' = epoch /\ complete' = complete /\ block' = block
           /\ archive' = archive /\ damaged' = damaged
<1>1. NodeInv /\ ClientTypeOK
  BY DEF Inv
<1>2. /\ session' = [session EXCEPT ![c] = FromBundle(SetupReply)]
      /\ setupCache' = SetupReply
      /\ UNCHANGED <<chain, serverVars, historyVars, following, pending, diskVars,
                     journaling, archive, damaged>>
  BY DEF ReplaceSession
<1>3. NodeInv'
  BY <1>1, <1>2, SetupKeepsInv
<1>4. PICK b, s : b = SetupReply /\ s = FromBundle(b)
  OBVIOUS
<1>5. /\ b \in [block : Nat \ {0}, contents : DeltaMap]
      /\ Snapshot(epoch, b.block, complete, b.contents) \in archive
  BY <1>1, <1>4, SetupReplyArchived
<1>6. s = [epoch |-> epoch, base |-> b.contents, delta |-> NoChange, head |-> b.block,
           strict |-> ~complete]
  BY <1>4 DEF FromBundle
<1>7. epoch \in Nat \ {0} /\ complete \in BOOLEAN
  BY <1>1 DEF NodeInv, NodeTypeOK
<1>8. s \in Sessions
  BY <1>5, <1>6, <1>7, CellMaps DEF Sessions
<1>9. /\ session' \in [Clients -> Sessions] /\ session'[c] = s
      /\ \A d \in Clients \ {c} : session'[d] = session[d]
  BY <1>1, <1>2, <1>4, <1>8 DEF ClientTypeOK
<1>10. Plus(s.base, s.delta) = b.contents /\ (~s.strict) = complete
  BY <1>5, <1>6, <1>7, PlusNoChange
<1>11. SessionOK(c)'
  <2>1. epoch <= epoch
    BY <1>7
  <2> QED
    BY <1>2, <1>5, <1>6, <1>9, <1>10, <2>1 DEF SessionOK, serverVars
<1> QED
  BY <1>2, <1>3, <1>9, <1>11 DEF serverVars

(* The new session of a stalled request.                                   *)
LEMMA ResetupKeeps ==
    ASSUME Inv, NEW c \in Clients, Resetup(c)
    PROVE  Inv'
<1>1. ClientTypeOK /\ ClientOK(c)
  BY DEF Inv
<1>2. /\ InRequest(c) /\ ReplaceSession(c) /\ Goto(c, "head")
      /\ UNCHANGED <<req, resp, retried, slot, outcome>>
  BY DEF Resetup, InRequest
<1>3. /\ pc' \in [Clients -> Steps] /\ pc'[c] = "head"
      /\ \A d \in Clients \ {c} : pc'[d] = pc[d]
  BY <1>1, <1>2 DEF ClientTypeOK, Goto, Steps
<1>4. ClientTypeOK'
  BY <1>1, <1>2, <1>3, ReplaceSessionKeeps DEF ClientTypeOK
<1>5. Alone(c)
  BY <1>2, <1>3, ReplaceSessionKeeps DEF Alone
<1>6. ClientOK(c)'
  <2>1. ResponseOK(c)'
    BY <1>3 DEF ResponseOK, HasResponse
  <2>2. FloorOK(c)'
    BY <1>1, <1>2, <1>3, <1>5 DEF ClientOK, FloorOK, InRequest, HasResponse, Alone
  <2>3. OutcomeOK(c)'
    BY <1>1, <1>2, <1>5, OutcomeKept DEF ClientOK, Alone
  <2> QED
    BY <1>2, <2>1, <2>2, <2>3, ReplaceSessionKeeps DEF ClientOK
<1> QED
  BY <1>2, <1>4, <1>5, <1>6, ReplaceSessionKeeps, AloneKeeps

(* The session of a client that starts again.                              *)
LEMMA ConnectKeeps ==
    ASSUME Inv, NEW c \in Clients, Connect(c)
    PROVE  Inv'
<1>1. ClientTypeOK /\ ClientOK(c)
  BY DEF Inv
<1>2. /\ pc[c] = "idle" /\ ReplaceSession(c)
      /\ slot' = [slot EXCEPT ![c] = TRUE]
      /\ outcome' = [outcome EXCEPT ![c] = NoOutcome]
      /\ UNCHANGED <<pc, req, resp, retried>>
  BY DEF Connect
<1>3. /\ outcome' \in [Clients -> {NoOutcome} \cup Failures \cup BalanceReplies]
      /\ outcome'[c] = NoOutcome
      /\ \A d \in Clients \ {c} : outcome'[d] = outcome[d]
  BY <1>1, <1>2 DEF ClientTypeOK
<1>4. ClientTypeOK'
  BY <1>1, <1>2, <1>3, ReplaceSessionKeeps DEF ClientTypeOK
<1>5. Alone(c)
  BY <1>2, <1>3, ReplaceSessionKeeps DEF Alone
<1>6. ClientOK(c)'
  <2>1. ResponseOK(c)' /\ FloorOK(c)'
    BY <1>2 DEF ResponseOK, FloorOK, InRequest, HasResponse
  <2>2. OutcomeOK(c)'
    BY <1>3 DEF OutcomeOK, Answered, NoOutcome
  <2> QED
    BY <1>2, <2>1, <2>2, ReplaceSessionKeeps DEF ClientOK
<1> QED
  BY <1>2, <1>4, <1>5, <1>6, ReplaceSessionKeeps, AloneKeeps

(* Time passes.                                                            *)
LEMMA CooldownKeeps ==
    ASSUME Inv, NEW c \in Clients, CooldownElapses(c)
    PROVE  Inv'
<1>1. ClientTypeOK /\ ClientOK(c) /\ NodeInv'
  BY NodeUntouched DEF Inv, CooldownElapses
<1>2. /\ slot' = [slot EXCEPT ![c] = TRUE]
      /\ UNCHANGED <<nodeVars, session, pc, req, resp, retried, outcome>>
  BY DEF CooldownElapses
<1>3. ClientTypeOK'
  BY <1>1, <1>2 DEF ClientTypeOK
<1>4. Alone(c)
  BY <1>2 DEF Alone, nodeVars, serverVars
<1>5. ClientOK(c)'
  <2>1. SessionOK(c)'
    BY <1>2, SessionKept
  <2>2. ResponseOK(c)' /\ FloorOK(c)'
    BY <1>1, <1>2, <1>4 DEF ClientOK, ResponseOK, FloorOK, InRequest, HasResponse, Alone
  <2>3. OutcomeOK(c)'
    BY <1>1, <1>2, <1>4, OutcomeKept DEF ClientOK, Alone
  <2> QED
    BY <2>1, <2>2, <2>3 DEF ClientOK
<1> QED
  BY <1>1, <1>3, <1>4, <1>5, AloneKeeps

(* What ends without a reply, a follow step, leaves nothing behind either. *)
LEMMA ReleaseKeeps ==
    ASSUME Inv, NEW c \in Clients, Release(c), UNCHANGED <<nodeVars, outcome>>,
           session' \in [Clients -> Sessions], SessionOK(c)',
           \A d \in Clients \ {c} : session'[d] = session[d],
           slot' \in [Clients -> BOOLEAN]
    PROVE  Inv'
<1>1. NodeInv' /\ ClientTypeOK /\ ClientOK(c)
  BY NodeUntouched DEF Inv
<1>2. /\ pc' = [pc EXCEPT ![c] = "idle"]
      /\ req' = [req EXCEPT ![c] = NoRequest]
      /\ resp' = [resp EXCEPT ![c] = NoResponse]
      /\ retried' = [retried EXCEPT ![c] = FALSE]
  BY DEF Release, Goto
<1>3. ClientTypeOK'
  <2>1. "idle" \in Steps
    BY DEF Steps
  <2>2. NoRequest \in [acct : Nat, target : Nat, floor : Nat]
    BY DEF NoRequest
  <2>3. NoResponse \in [at : Nat, cells : DeltaMap]
    BY CellMaps DEF NoResponse
  <2> QED
    BY <1>1, <1>2, <2>1, <2>2, <2>3 DEF ClientTypeOK
<1>4. /\ pc'[c] = "idle"
      /\ \A d \in Clients \ {c} : pc'[d] = pc[d] /\ req'[d] = req[d] /\ resp'[d] = resp[d]
  BY <1>1, <1>2 DEF ClientTypeOK
<1>5. Alone(c)
  BY <1>4 DEF Alone, nodeVars, serverVars
<1>6. ClientOK(c)'
  <2>1. ResponseOK(c)' /\ FloorOK(c)'
    BY <1>4 DEF ResponseOK, FloorOK, InRequest, HasResponse
  <2>2. OutcomeOK(c)'
    BY <1>1, <1>5, OutcomeKept DEF ClientOK, Alone
  <2> QED
    BY <2>1, <2>2 DEF ClientOK
<1> QED
  BY <1>1, <1>3, <1>5, <1>6, AloneKeeps

(* A call that fails ends the request and spares the session.              *)
LEMMA CallFailsKeeps ==
    ASSUME Inv, NEW c \in Clients, CallFails(c)
    PROVE  Inv'
<1>1. UNCHANGED <<nodeVars, session, slot>>
  BY DEF CallFails
<1>2. SessionOK(c)' /\ session' \in [Clients -> Sessions] /\ slot' \in [Clients -> BOOLEAN]
  BY <1>1, SessionKept DEF Inv, ClientTypeOK
<1>3. CASE Release(c) /\ UNCHANGED outcome
  BY <1>1, <1>2, <1>3, ReleaseKeeps
<1>4. CASE Return(c, Failure("Pir"))
  <2>1. PICK result : result = Failure("Pir")
    OBVIOUS
  <2>2. result \in Failures \cup BalanceReplies /\ result.kind # "balance"
    BY <2>1, FailuresAre
  <2> QED
    BY <1>1, <1>2, <1>4, <2>1, <2>2, ReturnKeeps
<1> QED
  BY <1>3, <1>4 DEF CallFails

(* The follower starts on its way to the head.                             *)
LEMMA FollowHeadKeeps ==
    ASSUME Inv, NEW c \in Clients, FollowHead(c)
    PROVE  Inv'
<1>1. ClientTypeOK /\ ClientOK(c) /\ NodeInv /\ NodeInv'
  BY NodeUntouched DEF Inv, FollowHead
<1>2. /\ pc[c] = "idle" /\ Goto(c, "follow") /\ req' = [req EXCEPT ![c].target = block]
      /\ UNCHANGED <<nodeVars, session, resp, retried, slot, outcome>>
  BY DEF FollowHead
<1>3. /\ pc' \in [Clients -> Steps] /\ pc'[c] = "follow"
      /\ \A d \in Clients \ {c} : pc'[d] = pc[d]
  BY <1>1, <1>2 DEF ClientTypeOK, Goto, Steps
<1>4. /\ req' \in [Clients -> [acct : Nat, target : Nat, floor : Nat]]
      /\ \A d \in Clients \ {c} : req'[d] = req[d]
  <2>1. block \in Nat
    BY <1>1 DEF NodeInv, NodeTypeOK
  <2> QED
    BY <1>1, <1>2, <2>1 DEF ClientTypeOK
<1>5. ClientTypeOK'
  BY <1>1, <1>2, <1>3, <1>4 DEF ClientTypeOK
<1>6. Alone(c)
  BY <1>2, <1>3, <1>4 DEF Alone, nodeVars, serverVars
<1>7. ClientOK(c)'
  <2>1. SessionOK(c)'
    BY <1>2, SessionKept
  <2>2. ResponseOK(c)' /\ FloorOK(c)'
    BY <1>3 DEF ResponseOK, FloorOK, InRequest, HasResponse
  <2>3. OutcomeOK(c)'
    BY <1>1, <1>2, <1>6, OutcomeKept DEF ClientOK, Alone
  <2> QED
    BY <2>1, <2>2, <2>3 DEF ClientOK
<1> QED
  BY <1>1, <1>5, <1>6, <1>7, AloneKeeps

(* The follower catches up, or leaves a stalled session as it is.          *)
LEMMA FollowSyncKeeps ==
    ASSUME Inv, NEW c \in Clients, FollowSync(c)
    PROVE  Inv'
<1>1. SyncTo(c, TRUE, TRUE) /\ Release(c) /\ UNCHANGED <<nodeVars, slot, outcome>>
  BY DEF FollowSync
<1>2. /\ session' \in [Clients -> Sessions] /\ SessionOK(c)'
      /\ \A d \in Clients \ {c} : session'[d] = session[d]
  BY <1>1, SyncKeepsSession
<1>3. slot' \in [Clients -> BOOLEAN]
  BY <1>1 DEF Inv, ClientTypeOK
<1> QED
  BY <1>1, <1>2, <1>3, ReleaseKeeps

-----------------------------------------------------------------------------
(* The invariant, and what follows from it.                                *)

(* Every session starts as the state the first bootstrap built.            *)
LEMMA InitKeeps == Init => Inv
<1> SUFFICES ASSUME Init PROVE Inv
  OBVIOUS
<1>1. NodeInv
  BY InitInv DEF Init
<1>2. /\ session = [c \in Clients |-> FromBundle([block |-> block, contents |-> hinted])]
      /\ pc = [c \in Clients |-> "idle"] /\ req = [c \in Clients |-> NoRequest]
      /\ resp = [c \in Clients |-> NoResponse] /\ retried = [c \in Clients |-> FALSE]
      /\ slot = [c \in Clients |-> TRUE] /\ outcome = [c \in Clients |-> NoOutcome]
  BY DEF Init, ClientInit
<1>3. /\ epoch \in Nat \ {0} /\ complete \in BOOLEAN /\ block \in Nat \ {0} /\ hinted \in DeltaMap
      /\ epoch <= epoch
  BY <1>1 DEF NodeInv, NodeTypeOK
<1>4. PICK s : s = [epoch |-> epoch, base |-> hinted, delta |-> NoChange, head |-> block,
                    strict |-> ~complete]
  OBVIOUS
<1>5. \A c \in Clients : session[c] = s
  BY <1>2, <1>4 DEF FromBundle
<1>6. s \in Sessions
  BY <1>3, <1>4, CellMaps DEF Sessions
<1>7. ClientTypeOK
  <2>1. "idle" \in Steps
    BY DEF Steps
  <2>2. NoRequest \in [acct : Nat, target : Nat, floor : Nat]
    BY DEF NoRequest
  <2>3. NoResponse \in [at : Nat, cells : DeltaMap]
    BY CellMaps DEF NoResponse
  <2>4. session \in [Clients -> Sessions]
    BY <1>2, <1>5, <1>6
  <2> QED
    BY <1>2, <2>1, <2>2, <2>3, <2>4 DEF ClientTypeOK
<1>8. ASSUME NEW c \in Clients PROVE ClientOK(c)
  <2>1. Plus(s.base, s.delta) = hinted /\ (~s.strict) = complete
    BY <1>3, <1>4, PlusNoChange
  <2>2. SessionOK(c)
    BY <1>1, <1>3, <1>4, <1>5, <2>1 DEF NodeInv, HeadOK, SessionOK
  <2>3. ResponseOK(c) /\ FloorOK(c)
    BY <1>2 DEF ResponseOK, FloorOK, InRequest, HasResponse
  <2>4. OutcomeOK(c)
    BY <1>2 DEF OutcomeOK, Answered, NoOutcome
  <2> QED
    BY <2>2, <2>3, <2>4 DEF ClientOK
<1> QED
  BY <1>1, <1>7, <1>8 DEF Inv

(* Every step of the composition keeps the invariant.                      *)
LEMMA StepKeeps == Inv /\ [Next]_vars => Inv'
<1> SUFFICES ASSUME Inv, [Next]_vars PROVE Inv'
  OBVIOUS
<1>1. CASE NodeStep
  BY <1>1, NodeStepKeeps
<1>2. CASE Replaced
  BY <1>2, ReplacedKeeps
<1>3. ASSUME NEW c \in Clients, Request(c) PROVE Inv'
  BY <1>3, ReadHeadKeeps, SyncToHeadKeeps, QueryKeeps, SyncToAnswerKeeps, FinishKeeps,
     SlotKeeps, ResetupKeeps DEF Request
<1>4. ASSUME NEW c \in Clients, ClientStep(c) PROVE Inv'
  BY <1>3, <1>4, InvokeKeeps, CooldownKeeps, CallFailsKeeps, FollowHeadKeeps, FollowSyncKeeps,
     ConnectKeeps DEF ClientStep
<1>5. CASE UNCHANGED vars
  <2> USE <1>5 DEF vars, clientVars
  <2>1. NodeInv'
    BY NodeUntouched
  <2>2. ClientTypeOK'
    BY DEF Inv, ClientTypeOK
  <2>3. ASSUME NEW c \in Clients PROVE ClientOK(c)'
    <3>1. SessionOK(c)'
      BY SessionKept
    <3>2. ResponseOK(c)' /\ FloorOK(c)'
      BY DEF Inv, ClientOK, ResponseOK, FloorOK, InRequest, HasResponse, nodeVars, serverVars
    <3>3. OutcomeOK(c)'
      BY OutcomeKept DEF Inv, ClientOK, nodeVars
    <3> QED
      BY <3>1, <3>2, <3>3 DEF ClientOK
  <2> QED
    BY <2>1, <2>2, <2>3 DEF Inv
<1> QED
  BY <1>1, <1>2, <1>4, <1>5 DEF Next

(* Sessions, responses and outcomes are always what the invariant says.    *)
THEOREM Invariance == Spec => []Inv
<1>1. Init => Inv
  BY InitKeeps
<1>2. Inv /\ [Next]_vars => Inv'
  BY StepKeeps
<1> QED
  BY <1>1, <1>2, PTL DEF Spec

(* The types of the whole composition.                                     *)
THEOREM TypeCorrect == Spec => []TypeOK
<1>1. Inv => TypeOK
  BY DEF Inv, NodeInv, TypeOK
<1> QED
  BY <1>1, Invariance, PTL

(* On a lineage that lost no applied block and rejected none, every        *)
(* balance returned is the chain's at the block it is labelled with.       *)
THEOREM AnswersAreRight == Spec => []NeverWrongUndamaged
<1>1. Inv => NeverWrongUndamaged
  BY DEF Inv, ClientOK, OutcomeOK, NeverWrongUndamaged
<1> QED
  BY <1>1, Invariance, PTL

(* A session never mixes two lineages, and never skips or repeats a block. *)
THEOREM SessionsAreConsistent == Spec => []SessionOnOneLineage
<1>1. Inv => SessionOnOneLineage
  BY DEF Inv, ClientOK, SessionOK, SessionOnOneLineage
<1> QED
  BY <1>1, Invariance, PTL

(* No answer is older than everything served while its request ran.        *)
THEOREM AnswersAreFresh == Spec => []NeverOlderThanServed
<1>1. Inv => NeverOlderThanServed
  <2> SUFFICES ASSUME Inv, NEW c \in Clients, Answered(c)
               PROVE  outcome[c].at >= outcome[c].floor
    BY DEF NeverOlderThanServed
  <2>1. outcome[c] \in BalanceReplies /\ outcome[c].floor <= outcome[c].at
    <3>1. outcome[c] \in {NoOutcome} \cup Failures \cup BalanceReplies
      BY DEF Inv, ClientTypeOK
    <3> QED
      BY <3>1 DEF Inv, ClientOK, OutcomeOK, Answered, NoOutcome, Failures, Failure
  <2> QED
    BY <2>1 DEF BalanceReplies
<1> QED
  BY <1>1, Invariance, PTL

(* Without rejected blocks and lossy restarts no lineage is ever damaged.  *)
THEOREM NothingDamaged ==
    ASSUME ~BlocksMayFail, ~RestartsMayLose
    PROVE  Spec => [](damaged = {})
<1>1. Init => damaged = {}
  BY DEF Init, NodeInit
<1>2. damaged = {} /\ [Next]_vars => (damaged = {})'
  <2> SUFFICES ASSUME damaged = {}, [Next]_vars PROVE damaged' = damaged
    OBVIOUS
  <2>1. CASE NodeStep
    BY <2>1 DEF NodeStep, WriterStep, ApplyBlock, RejectBlock, AppendDelta, AppendFails, SaveState
  <2>2. CASE Replaced
    BY <2>2 DEF Replaced, Restart, Rebootstrap
  <2>3. ASSUME NEW c \in Clients, ClientStep(c) PROVE damaged' = damaged
    BY <2>3 DEF ClientStep, Invoke, Request, ReadHead, SyncToHead, Query, SyncToAnswer, Finish,
       TakeRebootstrapSlot, Resetup, CooldownElapses, CallFails, FollowHead, FollowSync, Connect,
       ReplaceSession, nodeVars
  <2>4. CASE UNCHANGED vars
    BY <2>4 DEF vars, nodeVars
  <2> QED
    BY <2>1, <2>2, <2>3, <2>4 DEF Next
<1> QED
  BY <1>1, <1>2, PTL DEF Spec

(* A balance that is returned is never wrong, as long as a restart finds   *)
(* everything that was served and no block is rejected half-applied.       *)
THEOREM AnswersAreNeverWrong ==
    ASSUME ~BlocksMayFail, ~RestartsMayLose
    PROVE  Spec => []NeverWrong
<1>1. Spec => [](damaged = {})
  BY NothingDamaged
<1>2. damaged = {} /\ NeverWrongUndamaged => NeverWrong
  BY DEF NeverWrongUndamaged, NeverWrong
<1> QED
  BY <1>1, <1>2, AnswersAreRight, PTL
-----------------------------------------------------------------------------
(* The session is never taken back.                                        *)

(* A cached bundle is one the ring leads on from, unless the ring is full. *)
CacheRing == setupCache # NoSetup =>
    Len(ring) = RingCapacity \/ block - Len(ring) <= setupCache.block

(* The session is of the lineage that is served, and it is undamaged.      *)
Mine(c) == session[c].epoch = epoch /\ epoch \notin damaged

(* What a request has read is not ahead of the node, what it holds is not  *)
(* ahead of what it asked for, and a session that stalled is older than    *)
(* any bundle the node would serve from its cache.                         *)
AheadOK(c) ==
    Mine(c) =>
      /\ pc[c] \in {"sync", "catchup"} => req[c].target <= block
      /\ pc[c] = "catchup" => resp[c].at = req[c].target /\ session[c].head <= req[c].target
      /\ pc[c] = "finish" => resp[c].at = session[c].head
      /\ pc[c] \in {"stalled", "setup"} => (CacheIsFresh => session[c].head <= setupCache.block)

RewindInv == CacheRing /\ \A c \in Clients : AheadOK(c)

(* A quotient is at most what is divided.                                  *)
LEMMA QuotientBounded == \A n \in Nat, d \in Nat \ {0} : n \div d <= n /\ n \div d \in Nat
BY SMT

(* A session of the served lineage is not ahead of the node.               *)
LEMMA HeadBelow ==
    ASSUME Inv, NEW c \in Clients, Mine(c)
    PROVE  session[c].head \in Nat /\ block \in Nat /\ session[c].head <= block
<1>1. PICK r : r = Snapshot(session[c].epoch, session[c].head, ~session[c].strict,
                            Plus(session[c].base, session[c].delta))
  OBVIOUS
<1>2. r \in archive /\ r.epoch = epoch /\ r.block = session[c].head
  BY <1>1 DEF Inv, ClientOK, SessionOK, Mine, Snapshot
<1>3. r.block <= block
  BY <1>2 DEF Inv, NodeInv, ArchiveOK, Mine
<1> QED
  BY <1>2, <1>3 DEF Inv, ClientTypeOK, Sessions, NodeInv, NodeTypeOK

(* /sync refuses nothing that lies within the ring.                        *)
LEMMA SyncServes ==
    ASSUME NodeInv, NEW from \in Nat, NEW to \in Nat,
           block - Len(ring) <= from, from < to, to <= block
    PROVE  SyncReply(epoch, from, to) # Refused
<1>1. PICK n, b0 : n = Len(ring) /\ b0 = block - Len(ring)
  OBVIOUS
<1>2. /\ n \in Nat /\ block \in Nat /\ b0 \in Int /\ b0 = block - n
      /\ \A i \in 1 .. n : ring[i].block = b0 + i
  BY <1>1 DEF NodeInv, NodeTypeOK, RingOK, Run, Path
<1>3. PICK lo, hi : lo = from - b0 /\ hi = to - b0
  OBVIOUS
<1>4. lo \in Int /\ hi \in Int /\ 0 <= lo /\ lo < hi /\ hi <= n /\ hi - lo = to - from
  BY <1>1, <1>2, <1>3
<1>5. PICK picked : picked = Picked(ring, from, to)
  OBVIOUS
<1>6. picked = lo + 1 .. hi
  <2>1. picked = {i \in 1 .. n : from < ring[i].block /\ ring[i].block <= to}
    BY <1>1, <1>5 DEF Picked
  <2>2. \A i \in 1 .. n : (from < ring[i].block /\ ring[i].block <= to) <=> i \in lo + 1 .. hi
    BY <1>2, <1>3, <1>4
  <2>3. \A i \in lo + 1 .. hi : i \in 1 .. n
    BY <1>2, <1>4
  <2> QED
    BY <2>1, <2>2, <2>3
<1>7. Cardinality(picked) = to - from
  <2>1. lo + 1 \in Int /\ ~(lo + 1 > hi) /\ hi - (lo + 1) + 1 = to - from
    BY <1>4
  <2>2. Cardinality(lo + 1 .. hi) = hi - (lo + 1) + 1
    BY <1>4, <2>1, FS_Interval
  <2> QED
    BY <1>6, <2>1, <2>2
<1>8. Contiguous(ring, picked)
  <2>1. \A i \in picked : i \in 1 .. n
    BY <1>2, <1>4, <1>6
  <2>2. \A i, j \in picked : j = i + 1 => ring[j].block = ring[i].block + 1
    BY <1>2, <2>1
  <2> QED
    BY <2>2 DEF Contiguous
<1>9. SyncReply(epoch, from, to) = [block |-> to, cells |-> Coalesced(ring, picked)]
  BY <1>5, <1>7, <1>8 DEF SyncReply
<1>10. SyncReply(epoch, from, to).block = to /\ to # 0
  BY <1>9
<1> QED
  BY <1>10 DEF Refused

(* A session that /sync refuses is older than a cached bundle that is      *)
(* fresh.                                                                  *)
LEMMA RefusedIsOlder ==
    ASSUME Inv, CacheRing, NEW c \in Clients, Mine(c), NEW to \in Nat,
           session[c].head < to, to <= block,
           SyncReply(session[c].epoch, session[c].head, to) = Refused, CacheIsFresh
    PROVE  session[c].head <= setupCache.block
<1>1. NodeInv /\ session[c].head \in Nat /\ block \in Nat /\ session[c].epoch = epoch
  BY HeadBelow DEF Inv, Mine
<1>2. PICK n, f : n = Len(ring) /\ f = RingCapacity \div FreshDivisor
  OBVIOUS
<1>3. n \in Nat /\ RingCapacity \in Nat /\ f \in Nat /\ f <= RingCapacity
  <2>1. n \in Nat
    BY <1>1, <1>2 DEF NodeInv, NodeTypeOK
  <2>2. RingCapacity \in Nat /\ FreshDivisor \in Nat \ {0}
    BY NodeAssumption
  <2> QED
    BY <1>2, <2>1, <2>2, QuotientBounded
<1>4. session[c].head < block - n
  <2> SUFFICES ASSUME ~(session[c].head < block - n) PROVE FALSE
    OBVIOUS
  <2>1. PICK from : from = session[c].head
    OBVIOUS
  <2>2. from \in Nat /\ from < to /\ block - Len(ring) <= from
    BY <1>1, <1>2, <1>3, <2>1
  <2>3. SyncReply(epoch, from, to) # Refused
    BY <1>1, <2>2, SyncServes
  <2> QED
    BY <1>1, <2>1, <2>3
<1>5. setupCache # NoSetup /\ block - setupCache.block <= f
  BY <1>2 DEF CacheIsFresh
<1>6. setupCache.block \in Nat
  BY <1>1, <1>5 DEF NodeInv, NodeTypeOK
<1>7. n = RingCapacity \/ block - n <= setupCache.block
  BY <1>2, <1>5 DEF CacheRing
<1> QED
  BY <1>1, <1>3, <1>4, <1>5, <1>6, <1>7

(* A node that goes on with its lineage, undamaged, never serves a lower   *)
(* block, and forgets its cached bundle or keeps it.                       *)
LEMMA NodeMonotone ==
    ASSUME NodeInv, NodeNext
    PROVE  /\ epoch' = epoch /\ epoch \notin damaged' => block <= block'
           /\ setupCache' = setupCache \/ setupCache' = NoSetup
<1>1. block \in Nat /\ epoch \in Nat
  BY DEF NodeInv, NodeTypeOK
<1>2. CASE WriterStep
  <2>1. setupCache' = setupCache
    BY <1>2 DEF WriterStep, ApplyBlock, RejectBlock, AppendDelta, AppendFails, SaveState, historyVars
  <2> QED
    BY <1>2, <2>1, WriterNeverRewinds
<1>3. CASE Restart
  <2>1. setupCache' = NoSetup /\ (block' = block \/ epoch \in damaged')
    BY <1>3 DEF Restart
  <2> QED
    BY <1>1, <2>1
<1>4. CASE Rebootstrap
  BY <1>1, <1>4 DEF Rebootstrap
<1> QED
  BY <1>2, <1>3, <1>4 DEF NodeNext

(* The ring grows with the head until it is full.                          *)
LEMMA NodeKeepsCacheRing ==
    ASSUME NodeInv, NodeInv', NodeNext, CacheRing
    PROVE  CacheRing'
<1>1. /\ block \in Nat /\ ring \in Seq(DeltaRecord) /\ Len(ring) <= RingCapacity
      /\ RingCapacity \in Nat \ {0} /\ Len(ring) \in Nat
  BY NodeAssumption DEF NodeInv, NodeTypeOK
<1>2. CASE ApplyBlock
  <2>1. PICK b \in NextBlocks(block + 1) : \E after \in Rewrites(cells, Updated(b, Accounts)) :
          ring' = Push(ring, RingCapacity,
                       [block |-> block + 1, cells |-> Minus(after, cells)])
    BY <1>2 DEF ApplyBlock
  <2>2. PICK d : ring' = Push(ring, RingCapacity, d)
    BY <2>1
  <2>3. block' = block + 1 /\ setupCache' = setupCache
    BY <1>2 DEF ApplyBlock
  <2>4. CASE Len(ring) = RingCapacity
    <3>1. PICK kept : kept = Tail(ring)
      OBVIOUS
    <3>2. ring # <<>>
      BY <1>1, <2>4
    <3>3. kept \in Seq(DeltaRecord) /\ Len(kept) = Len(ring) - 1
      BY <1>1, <3>1, <3>2
    <3>4. ring' = Append(kept, d)
      BY <2>2, <2>4, <3>1 DEF Push
    <3>5. Len(ring') = RingCapacity
      BY <1>1, <2>4, <3>3, <3>4
    <3> QED
      BY <3>5 DEF CacheRing
  <2>5. CASE Len(ring) # RingCapacity
    <3>1. ring' = Append(ring, d)
      BY <2>2, <2>5 DEF Push
    <3>2. Len(ring') = Len(ring) + 1
      BY <1>1, <3>1
    <3>3. setupCache # NoSetup => block - Len(ring) <= setupCache.block
      BY <2>5 DEF CacheRing
    <3>4. (block + 1) - (Len(ring) + 1) = block - Len(ring)
      BY <1>1
    <3> QED
      BY <2>3, <3>2, <3>3, <3>4 DEF CacheRing
  <2> QED
    BY <2>4, <2>5
<1>3. CASE RejectBlock \/ AppendDelta \/ AppendFails \/ SaveState
  <2>1. block' = block /\ ring' = ring /\ setupCache' = setupCache
    BY <1>3 DEF RejectBlock, AppendDelta, AppendFails, SaveState, historyVars, serverVars
  <2> QED
    BY <2>1 DEF CacheRing
<1>4. CASE Restart \/ Rebootstrap
  <2>1. setupCache' = NoSetup
    BY <1>4 DEF Restart, Rebootstrap
  <2> QED
    BY <2>1 DEF CacheRing, NoSetup
<1> QED
  BY <1>2, <1>3, <1>4 DEF NodeNext, WriterStep

(* The node's steps take no session back and make no cached bundle older.  *)
LEMMA NodeKeepsAhead ==
    ASSUME Inv, Inv', RewindInv, NodeNext, session' = session, pc' = pc, resp' = resp,
           \A c \in Clients : req'[c].target = req[c].target
    PROVE  RewindInv'
<1>1. NodeInv /\ NodeInv' /\ CacheRing /\ ClientTypeOK
  BY DEF Inv, RewindInv
<1>2. CacheRing'
  BY <1>1, NodeKeepsCacheRing
<1>3. ASSUME NEW c \in Clients, Mine(c)' PROVE AheadOK(c)'
  <2>1. session[c].epoch <= epoch /\ epoch <= epoch' /\ epoch \in Nat /\ epoch' \in Nat
        /\ damaged \subseteq damaged' /\ session[c].epoch \in Nat
    BY <1>1, HistoryGrows DEF Inv, ClientOK, SessionOK, ClientTypeOK, Sessions
  <2>2. epoch' = epoch /\ session[c].epoch = epoch /\ epoch \notin damaged'
    BY <1>3, <2>1 DEF Mine
  <2>3. Mine(c) /\ AheadOK(c)
    BY <2>1, <2>2 DEF Mine, RewindInv
  <2>4. block <= block' /\ block \in Nat /\ block' \in Nat
        /\ (setupCache' = setupCache \/ setupCache' = NoSetup)
    BY <1>1, <2>2, NodeMonotone DEF NodeInv, NodeTypeOK
  <2>5. req[c].target \in Nat /\ session[c].head \in Nat
    BY <1>1 DEF ClientTypeOK, Sessions
  <2>6. pc[c] \in {"sync", "catchup"} => req[c].target <= block'
    BY <2>3, <2>4, <2>5 DEF AheadOK
  <2>7. CacheIsFresh' => CacheIsFresh /\ setupCache' = setupCache
    <3> SUFFICES ASSUME CacheIsFresh' PROVE CacheIsFresh /\ setupCache' = setupCache
      OBVIOUS
    <3>1. PICK f : f = RingCapacity \div FreshDivisor /\ f \in Nat
      BY NodeAssumption, QuotientBounded
    <3>2. setupCache' # NoSetup /\ block' - setupCache'.block <= f
      BY <3>1 DEF CacheIsFresh
    <3>3. setupCache' = setupCache /\ setupCache.block \in Nat
      BY <1>1, <2>4, <3>2 DEF NodeInv, NodeTypeOK
    <3>4. block - setupCache.block <= f
      BY <2>4, <3>1, <3>2, <3>3
    <3> QED
      BY <3>1, <3>2, <3>3, <3>4 DEF CacheIsFresh
  <2> QED
    BY <2>3, <2>6, <2>7 DEF AheadOK
<1>4. ASSUME NEW c \in Clients PROVE AheadOK(c)'
  BY <1>3 DEF AheadOK
<1> QED
  BY <1>2, <1>4 DEF RewindInv

(* What a step of client c leaves alone.                                   *)
OthersKept(c) ==
    /\ epoch' = epoch /\ block' = block /\ damaged' = damaged /\ ring' = ring
    /\ setupCache' = setupCache \/ setupCache' = SetupReply
    /\ \A d \in Clients \ {c} :
         session'[d] = session[d] /\ pc'[d] = pc[d] /\ req'[d] = req[d] /\ resp'[d] = resp[d]

(* No client touches the node's data or another client.                    *)
LEMMA StepOfOne ==
    ASSUME ClientTypeOK, NEW c \in Clients, ClientStep(c)
    PROVE  OthersKept(c)
<1> USE DEF ClientTypeOK
<1>1. ASSUME UNCHANGED nodeVars
      PROVE  /\ epoch' = epoch /\ block' = block /\ damaged' = damaged /\ ring' = ring
             /\ setupCache' = setupCache
  BY <1>1 DEF nodeVars, serverVars, historyVars
<1>2. ASSUME ReplaceSession(c)
      PROVE  /\ epoch' = epoch /\ block' = block /\ damaged' = damaged /\ ring' = ring
             /\ setupCache' = SetupReply
             /\ \A d \in Clients \ {c} : session'[d] = session[d]
  BY <1>2 DEF ReplaceSession, serverVars, historyVars
<1>3. ASSUME NEW ok, NEW stalled, SyncTo(c, ok, stalled)
      PROVE  \A d \in Clients \ {c} : session'[d] = session[d]
  BY <1>3 DEF SyncTo
<1>4. ASSUME Release(c)
      PROVE  \A d \in Clients \ {c} : pc'[d] = pc[d] /\ req'[d] = req[d] /\ resp'[d] = resp[d]
  BY <1>4 DEF Release, Goto
<1>5. ASSUME NEW step, Goto(c, step) PROVE \A d \in Clients \ {c} : pc'[d] = pc[d]
  BY <1>5 DEF Goto
<1>6. CASE \E a \in Accounts : Invoke(c, a)
  BY <1>1, <1>5, <1>6 DEF Invoke, OthersKept
<1>7. CASE ReadHead(c)
  BY <1>1, <1>5, <1>7 DEF ReadHead, OthersKept
<1>8. CASE SyncToHead(c)
  <2>1. PICK step : Goto(c, step)
    BY <1>8 DEF SyncToHead, SyncTo
  <2> QED
    BY <1>1, <1>3, <1>5, <1>8, <2>1 DEF SyncToHead, OthersKept
<1>9. CASE Query(c)
  <2>1. PICK step : Goto(c, step)
    BY <1>9 DEF Query
  <2>2. \A d \in Clients \ {c} : req'[d] = req[d] /\ resp'[d] = resp[d]
    BY <1>9 DEF Query
  <2> QED
    BY <1>1, <1>5, <1>9, <2>1, <2>2 DEF Query, OthersKept
<1>10. CASE SyncToAnswer(c)
  <2>1. PICK step : Goto(c, step)
    BY <1>10 DEF SyncToAnswer, SyncTo
  <2> QED
    BY <1>1, <1>3, <1>5, <1>10, <2>1 DEF SyncToAnswer, OthersKept
<1>11. CASE Finish(c)
  <2>1. \A d \in Clients \ {c} : pc'[d] = pc[d] /\ req'[d] = req[d] /\ resp'[d] = resp[d]
    BY <1>4, <1>5, <1>11 DEF Finish, Return
  <2> QED
    BY <1>1, <1>11, <2>1 DEF Finish, OthersKept
<1>12. CASE TakeRebootstrapSlot(c)
  <2>1. \A d \in Clients \ {c} : pc'[d] = pc[d] /\ req'[d] = req[d] /\ resp'[d] = resp[d]
    BY <1>4, <1>5, <1>12 DEF TakeRebootstrapSlot, Return
  <2> QED
    BY <1>1, <1>12, <2>1 DEF TakeRebootstrapSlot, OthersKept
<1>13. CASE Resetup(c)
  BY <1>2, <1>5, <1>13 DEF Resetup, OthersKept
<1>14. CASE CooldownElapses(c)
  BY <1>1, <1>14 DEF CooldownElapses, OthersKept
<1>15. CASE CallFails(c)
  BY <1>1, <1>4, <1>15 DEF CallFails, Return, OthersKept
<1>16. CASE FollowHead(c)
  BY <1>1, <1>5, <1>16 DEF FollowHead, OthersKept
<1>17. CASE FollowSync(c)
  BY <1>1, <1>3, <1>4, <1>17 DEF FollowSync, OthersKept
<1>18. CASE Connect(c)
  BY <1>2, <1>18 DEF Connect, OthersKept
<1> QED
  BY <1>6, <1>7, <1>8, <1>9, <1>10, <1>11, <1>12, <1>13, <1>14, <1>15, <1>16, <1>17, <1>18
     DEF ClientStep, Request

(* A bundle that a client is served is not older than any session.         *)
LEMMA OthersKeepAhead ==
    ASSUME Inv, RewindInv, NEW c \in Clients, OthersKept(c)
    PROVE  /\ CacheRing'
           /\ \A d \in Clients \ {c} : AheadOK(d)'
<1>1. NodeInv /\ ClientTypeOK /\ CacheRing /\ block \in Nat /\ Len(ring) \in Nat
  BY DEF Inv, RewindInv, NodeInv, NodeTypeOK
<1>2. setupCache' = setupCache \/ setupCache'.block = block
  BY DEF OthersKept, SetupReply
<1>3. CacheRing'
  <2>1. CASE setupCache' = setupCache
    BY <1>1, <2>1 DEF OthersKept, CacheRing
  <2>2. CASE setupCache'.block = block
    <3>1. block - Len(ring) <= block
      BY <1>1
    <3> QED
      BY <2>2, <3>1 DEF OthersKept, CacheRing
  <2> QED
    BY <1>2, <2>1, <2>2
<1>4. ASSUME NEW d \in Clients \ {c} PROVE AheadOK(d)'
  <2>1. /\ session'[d] = session[d] /\ pc'[d] = pc[d] /\ req'[d] = req[d] /\ resp'[d] = resp[d]
        /\ epoch' = epoch /\ block' = block /\ damaged' = damaged
    BY DEF OthersKept
  <2>2. AheadOK(d)
    BY DEF RewindInv
  <2>3. CASE setupCache' = setupCache
    <3>1. CacheIsFresh' <=> CacheIsFresh
      BY <2>1, <2>3 DEF CacheIsFresh
    <3> QED
      BY <2>1, <2>2, <2>3, <3>1 DEF AheadOK, Mine
  <2>4. CASE setupCache'.block = block
    <3>1. Mine(d) => session[d].head <= block
      BY HeadBelow
    <3> QED
      BY <2>1, <2>2, <2>4, <3>1 DEF AheadOK, Mine
  <2> QED
    BY <1>2, <2>3, <2>4
<1> QED
  BY <1>3, <1>4

(* A sync that is answered moves the session to its target, up.            *)
LEMMA SyncMovesUp ==
    ASSUME ClientTypeOK, NEW c \in Clients, NEW ok, NEW stalled, SyncTo(c, ok, stalled)
    PROVE  LET s == session[c]
               t == session'[c]
           IN  /\ t.epoch = s.epoch
               /\ \/ req[c].target <= s.head /\ t.head = s.head /\ ok
                  \/ req[c].target > s.head /\ t.head = req[c].target /\ ok
                  \/ /\ req[c].target > s.head /\ t.head = s.head /\ stalled
                     /\ SyncReply(s.epoch, s.head, req[c].target) = Refused
<1>1. PICK s, d, to : /\ s = session[c] /\ to = req[c].target
                      /\ d = SyncReply(session[c].epoch, session[c].head, req[c].target)
  OBVIOUS
<1>2. s \in Sessions /\ session \in [Clients -> Sessions]
  BY <1>1 DEF ClientTypeOK
<1>3. CASE to <= s.head /\ ok /\ UNCHANGED session
  BY <1>1, <1>3
<1>4. CASE /\ to > s.head /\ d # Refused
           /\ session' = [session EXCEPT ![c].delta = Plus(@, d.cells), ![c].head = d.block]
           /\ ok
  <2>1. d.block = to
    BY <1>1, <1>4 DEF SyncReply
  <2>2. PICK t : t = session'[c] /\ t = [s EXCEPT !.delta = Plus(@, d.cells), !.head = d.block]
    BY <1>1, <1>2, <1>4
  <2>3. t.epoch = s.epoch /\ t.head = d.block
    BY <1>2, <2>2 DEF Sessions
  <2> QED
    BY <1>1, <1>4, <2>1, <2>2, <2>3
<1>5. CASE to > s.head /\ d = Refused /\ stalled /\ UNCHANGED session
  BY <1>1, <1>5
<1> QED
  BY <1>1, <1>3, <1>4, <1>5 DEF SyncTo

(* A request's own steps.                                                  *)
LEMMA ClientKeepsAhead ==
    ASSUME Inv, RewindInv, NEW c \in Clients, ClientStep(c)
    PROVE  AheadOK(c)'
<1>1. /\ NodeInv /\ ClientTypeOK /\ CacheRing /\ AheadOK(c) /\ block \in Nat
      /\ req[c].target \in Nat /\ session[c].head \in Nat
  <2>1. NodeInv /\ ClientTypeOK /\ CacheRing /\ AheadOK(c)
    BY DEF Inv, RewindInv
  <2>2. block \in Nat
    <3>1. chain \in Seq(Block) /\ block \in 1 .. Len(chain)
      BY <2>1 DEF NodeInv, NodeTypeOK
    <3> QED
      BY <3>1
  <2>3. req[c].target \in Nat
    BY <2>1 DEF ClientTypeOK
  <2>4. session[c] \in Sessions
    BY <2>1 DEF ClientTypeOK
  <2> QED
    BY <2>1, <2>2, <2>3, <2>4 DEF Sessions
<1>2. epoch' = epoch /\ block' = block /\ damaged' = damaged
  BY <1>1, StepOfOne DEF OthersKept
<1>3. ASSUME pc'[c] \notin {"sync", "catchup", "finish", "stalled", "setup"} PROVE AheadOK(c)'
  BY <1>3 DEF AheadOK
<1>4. ASSUME NEW step, Goto(c, step) PROVE pc'[c] = step
  BY <1>1, <1>4 DEF Goto, ClientTypeOK
<1>5. ASSUME UNCHANGED nodeVars PROVE setupCache' = setupCache /\ (CacheIsFresh' <=> CacheIsFresh)
  BY <1>5 DEF nodeVars, serverVars, historyVars, CacheIsFresh
<1>6. CASE \E a \in Accounts : Invoke(c, a)
  BY <1>3, <1>4, <1>6 DEF Invoke
<1>7. CASE ReadHead(c)
  <2>1. pc'[c] = "sync" /\ req'[c].target = block /\ block <= block
    BY <1>1, <1>4, <1>7 DEF ReadHead, ClientTypeOK
  <2> QED
    BY <1>2, <2>1 DEF AheadOK
<1>8. CASE SyncToHead(c)
  <2>1. SyncTo(c, Goto(c, "answer"), Goto(c, "stalled")) /\ pc[c] = "sync"
        /\ UNCHANGED <<nodeVars, req, resp>>
    BY <1>8 DEF SyncToHead
  <2>2. CASE Goto(c, "answer")
    BY <1>3, <1>4, <2>2
  <2>3. CASE /\ req[c].target > session[c].head /\ session'[c].head = session[c].head
             /\ session'[c].epoch = session[c].epoch /\ Goto(c, "stalled")
             /\ SyncReply(session[c].epoch, session[c].head, req[c].target) = Refused
    <3>1. pc'[c] = "stalled"
      BY <1>4, <2>3
    <3>2. ASSUME Mine(c), CacheIsFresh PROVE session[c].head <= setupCache.block
      <4>1. req[c].target <= block /\ session[c].head < req[c].target
        BY <1>1, <2>1, <2>3, <3>2 DEF AheadOK
      <4> QED
        BY <1>1, <2>3, <3>2, <4>1, RefusedIsOlder
    <3> QED
      BY <1>2, <1>5, <2>1, <2>3, <3>1, <3>2 DEF AheadOK, Mine
  <2> QED
    BY <1>1, <2>1, <2>2, <2>3, SyncMovesUp
<1>9. CASE Query(c)
  <2>1. CASE /\ session[c].epoch = epoch
             /\ resp' = [resp EXCEPT ![c] = AnswerReply]
             /\ req' = [req EXCEPT ![c].target = AnswerReply.at]
             /\ Goto(c, "catchup") /\ session' = session
    <3>1. pc'[c] = "catchup" /\ resp'[c].at = block /\ req'[c].target = block /\ block <= block
      BY <1>1, <1>4, <2>1 DEF AnswerReply, ClientTypeOK
    <3>2. Mine(c) => session[c].head <= block
      BY HeadBelow
    <3> QED
      BY <1>2, <2>1, <3>1, <3>2 DEF AheadOK, Mine
  <2>2. CASE session[c].epoch # epoch /\ session' = session
    BY <1>2, <2>2 DEF AheadOK, Mine
  <2> QED
    BY <1>9, <2>1, <2>2 DEF Query
<1>10. CASE SyncToAnswer(c)
  <2>1. SyncTo(c, Goto(c, "finish"), Goto(c, "stalled")) /\ pc[c] = "catchup"
        /\ UNCHANGED <<nodeVars, req, resp>>
    BY <1>10 DEF SyncToAnswer
  <2>2. ASSUME Mine(c)
        PROVE  /\ req[c].target <= block
               /\ resp[c].at = req[c].target /\ session[c].head <= req[c].target
    BY <1>1, <2>1, <2>2 DEF AheadOK
  <2>3. CASE /\ req[c].target <= session[c].head /\ session'[c].head = session[c].head
             /\ session'[c].epoch = session[c].epoch /\ Goto(c, "finish")
    <3>1. pc'[c] = "finish" /\ resp' = resp
      BY <1>4, <2>1, <2>3
    <3>2. Mine(c) => resp[c].at = session[c].head
      BY <1>1, <2>2, <2>3
    <3> QED
      BY <1>2, <2>3, <3>1, <3>2 DEF AheadOK, Mine
  <2>4. CASE /\ session'[c].head = req[c].target
             /\ session'[c].epoch = session[c].epoch /\ Goto(c, "finish")
    <3>1. pc'[c] = "finish" /\ resp' = resp
      BY <1>4, <2>1, <2>4
    <3> QED
      BY <1>2, <2>2, <2>4, <3>1 DEF AheadOK, Mine
  <2>5. CASE /\ req[c].target > session[c].head /\ session'[c].head = session[c].head
             /\ session'[c].epoch = session[c].epoch /\ Goto(c, "stalled")
             /\ SyncReply(session[c].epoch, session[c].head, req[c].target) = Refused
    <3>1. pc'[c] = "stalled"
      BY <1>4, <2>5
    <3>2. ASSUME Mine(c), CacheIsFresh PROVE session[c].head <= setupCache.block
      <4>1. req[c].target <= block /\ session[c].head < req[c].target
        BY <1>1, <2>2, <2>5, <3>2
      <4> QED
        BY <1>1, <2>5, <3>2, <4>1, RefusedIsOlder
    <3> QED
      BY <1>2, <1>5, <2>1, <2>5, <3>1, <3>2 DEF AheadOK, Mine
  <2> QED
    BY <1>1, <2>1, <2>3, <2>4, <2>5, SyncMovesUp
<1>11. CASE Finish(c)
  <2>1. CASE Goto(c, "stalled") /\ resp[c].at # session[c].head /\ session' = session
    <3>1. ~Mine(c)
      BY <1>1, <1>11, <2>1 DEF AheadOK, Finish
    <3> QED
      BY <1>2, <2>1, <3>1 DEF AheadOK, Mine
  <2>2. CASE Release(c)
    BY <1>3, <1>4, <2>2 DEF Release
  <2> QED
    BY <1>11, <2>1, <2>2 DEF Finish, Return
<1>12. CASE TakeRebootstrapSlot(c)
  <2>1. CASE Goto(c, "setup")
    <3>1. pc'[c] = "setup" /\ pc[c] = "stalled" /\ UNCHANGED <<nodeVars, session>>
      BY <1>4, <1>12, <2>1 DEF TakeRebootstrapSlot
    <3> QED
      BY <1>1, <1>2, <1>5, <3>1 DEF AheadOK, Mine
  <2>2. CASE Release(c)
    BY <1>3, <1>4, <2>2 DEF Release
  <2> QED
    BY <1>12, <2>1, <2>2 DEF TakeRebootstrapSlot, Return
<1>13. CASE Resetup(c)
  BY <1>3, <1>4, <1>13 DEF Resetup
<1>14. CASE CooldownElapses(c)
  <2>1. UNCHANGED <<nodeVars, session, pc, req, resp>>
    BY <1>14 DEF CooldownElapses
  <2> QED
    BY <1>1, <1>2, <1>5, <2>1 DEF AheadOK, Mine
<1>15. CASE CallFails(c)
  BY <1>3, <1>4, <1>15 DEF CallFails, Return, Release
<1>16. CASE FollowHead(c)
  BY <1>3, <1>4, <1>16 DEF FollowHead
<1>17. CASE FollowSync(c)
  BY <1>3, <1>4, <1>17 DEF FollowSync, Release
<1>18. CASE Connect(c)
  BY <1>3, <1>18 DEF Connect
<1> QED
  BY <1>6, <1>7, <1>8, <1>9, <1>10, <1>11, <1>12, <1>13, <1>14, <1>15, <1>16, <1>17, <1>18
     DEF ClientStep, Request

(* Every step keeps what no session is taken back by.                      *)
LEMMA StepKeepsAhead == Inv /\ Inv' /\ RewindInv /\ [Next]_vars => RewindInv'
<1> SUFFICES ASSUME Inv, Inv', RewindInv, [Next]_vars PROVE RewindInv'
  OBVIOUS
<1>1. CASE NodeStep
  <2>1. NodeNext /\ session' = session /\ pc' = pc /\ resp' = resp /\ req' = req
    BY <1>1 DEF NodeStep, NodeNext, clientVars
  <2> QED
    BY <2>1, NodeKeepsAhead
<1>2. CASE Replaced
  <2>1. NodeNext /\ session' = session /\ pc' = pc /\ resp' = resp
    BY <1>2 DEF Replaced, NodeNext
  <2>2. ASSUME NEW c \in Clients PROVE req'[c].target = req[c].target
    <3>1. req'[c] = [req[c] EXCEPT !.floor = IF block' < @ THEN block' ELSE @]
      BY <1>2 DEF Replaced
    <3>2. req[c] \in [acct : Nat, target : Nat, floor : Nat]
      BY DEF Inv, ClientTypeOK
    <3> QED
      BY <3>1, <3>2
  <2> QED
    BY <2>1, <2>2, NodeKeepsAhead
<1>3. ASSUME NEW c \in Clients, ClientStep(c) PROVE RewindInv'
  <2>1. OthersKept(c)
    BY <1>3, StepOfOne DEF Inv
  <2> QED
    BY <1>3, <2>1, OthersKeepAhead, ClientKeepsAhead DEF RewindInv
<1>4. CASE UNCHANGED vars
  BY <1>4 DEF vars, nodeVars, serverVars, historyVars, clientVars, RewindInv, CacheRing, AheadOK,
     Mine, CacheIsFresh
<1> QED
  BY <1>1, <1>2, <1>3, <1>4 DEF Next

(* What a step may do to client c's session.                               *)
NotTakenBack(c) ==
    pc[c] # "idle" =>
      /\ session'[c].epoch >= session[c].epoch
      /\ session'[c].epoch = session[c].epoch /\ session[c].epoch \notin damaged
           => session'[c].head >= session[c].head

(* No step takes a session back.                                           *)
LEMMA StepTakesNothingBack ==
    ASSUME Inv, RewindInv, Next, NEW d \in Clients
    PROVE  NotTakenBack(d)
<1>1. /\ ClientTypeOK /\ session[d].epoch \in Nat /\ session[d].head \in Nat
      /\ req[d].target \in Nat
  BY DEF Inv, ClientTypeOK, Sessions
<1>2. ASSUME session'[d] = session[d] PROVE NotTakenBack(d)
  BY <1>1, <1>2 DEF NotTakenBack
<1>3. CASE NodeStep \/ Replaced
  BY <1>2, <1>3 DEF NodeStep, Replaced, clientVars
<1>4. ASSUME NEW c \in Clients \ {d}, ClientStep(c) PROVE NotTakenBack(d)
  BY <1>1, <1>2, <1>4, StepOfOne DEF OthersKept
<1>5. ASSUME NEW ok, NEW stalled, SyncTo(d, ok, stalled) PROVE NotTakenBack(d)
  BY <1>1, <1>5, SyncMovesUp DEF NotTakenBack
<1>6. CASE Resetup(d)
  <2>1. pc[d] = "setup" /\ ReplaceSession(d)
    BY <1>6 DEF Resetup
  <2>2. PICK b : b = SetupReply
    OBVIOUS
  <2>3. session'[d].epoch = epoch /\ session'[d].head = b.block
    BY <1>1, <2>1, <2>2 DEF ReplaceSession, FromBundle, ClientTypeOK
  <2>4. session[d].epoch <= epoch /\ epoch \in Nat
    BY DEF Inv, ClientOK, SessionOK, NodeInv, NodeTypeOK
  <2>5. ASSUME Mine(d) PROVE session[d].head <= b.block /\ b.block \in Nat
    <3>1. session[d].head <= block /\ block \in Nat
      BY <2>5, HeadBelow
    <3>2. CASE CacheIsFresh
      <4>1. b = setupCache /\ setupCache # NoSetup
        BY <2>2, <3>2 DEF SetupReply, CacheIsFresh
      <4>2. b.block \in Nat
        BY <4>1 DEF Inv, NodeInv, NodeTypeOK
      <4> QED
        BY <2>1, <2>5, <3>2, <4>1, <4>2 DEF RewindInv, AheadOK
    <3>3. CASE ~CacheIsFresh
      BY <2>2, <3>1, <3>3 DEF SetupReply
    <3> QED
      BY <3>2, <3>3
  <2> QED
    BY <1>1, <2>3, <2>4, <2>5 DEF NotTakenBack, Mine
<1>7. CASE ClientStep(d)
  <2>1. CASE SyncToHead(d)
    BY <1>5, <2>1 DEF SyncToHead
  <2>2. CASE SyncToAnswer(d)
    BY <1>5, <2>2 DEF SyncToAnswer
  <2>3. CASE FollowSync(d)
    BY <1>5, <2>3 DEF FollowSync
  <2>4. CASE Connect(d)
    BY <2>4 DEF Connect, NotTakenBack
  <2>5. CASE \/ \E a \in Accounts : Invoke(d, a)
             \/ ReadHead(d) \/ Query(d) \/ Finish(d) \/ TakeRebootstrapSlot(d)
             \/ CooldownElapses(d) \/ CallFails(d) \/ FollowHead(d)
    <3>1. session' = session
      BY <2>5 DEF Invoke, ReadHead, Query, Finish, TakeRebootstrapSlot, CooldownElapses, CallFails,
         FollowHead
    <3> QED
      BY <1>2, <3>1
  <2> QED
    BY <1>6, <1>7, <2>1, <2>2, <2>3, <2>4, <2>5 DEF ClientStep, Request
<1> QED
  BY <1>3, <1>4, <1>7 DEF Next

(* While a request runs, its session is taken back neither to an older     *)
(* lineage nor, on an undamaged one, to an older block: a bundle from the  *)
(* cache is never older than the session it replaces.                      *)
THEOREM SessionsAreNeverRewound == Spec => NeverRewound
<1>1. Init => RewindInv
  <2> SUFFICES ASSUME Init PROVE RewindInv
    OBVIOUS
  <2>1. setupCache = NoSetup /\ pc = [c \in Clients |-> "idle"]
    BY DEF Init, NodeInit, ClientInit
  <2> QED
    BY <2>1 DEF RewindInv, CacheRing, AheadOK
<1>2. Inv /\ Inv' /\ RewindInv /\ [Next]_vars => RewindInv'
  BY StepKeepsAhead
<1>3. Inv /\ RewindInv /\ [Next]_vars => [\A c \in Clients : NotTakenBack(c)]_vars
  BY StepTakesNothingBack
<1>4. [\A c \in Clients : NotTakenBack(c)]_vars =>
        [\A c \in Clients :
           pc[c] # "idle" =>
             /\ session'[c].epoch >= session[c].epoch
             /\ session'[c].epoch = session[c].epoch /\ session[c].epoch \notin damaged
                  => session'[c].head >= session[c].head]_vars
  BY DEF NotTakenBack
<1> QED
  BY <1>1, <1>2, <1>3, <1>4, Invariance, PTL DEF Spec, NeverRewound

-----------------------------------------------------------------------------
(* The node and its clients together implement BalanceService, as long as  *)
(* no block is rejected half-applied and no restart loses an applied       *)
(* block: every step of the composition is a step of the service or is     *)
(* invisible to callers.                                                   *)

(* A client that is asked nothing holds no question.                       *)
IdleOK(c) == ~InRequest(c) => req[c].acct = 0 /\ req[c].floor = 0

ServiceInv == Inv /\ damaged = {} /\ \A c \in Clients : IdleOK(c)

Ledgers == [n \in 1 .. Len(chain) |-> chain[n].bal]

(* What callers see of client d.                                           *)
SameQuestion(d) == req'[d].acct = req[d].acct /\ req'[d].floor = req[d].floor

(* What the rest of the system does in a step of client c.                 *)
Elsewhere(c) ==
    /\ chain' = chain /\ block' = block
    /\ \A d \in Clients \ {c} : pc'[d] = pc[d] /\ SameQuestion(d) /\ outcome'[d] = outcome[d]

(* The abstract step that a concrete one is.                               *)
Abstract == [Service!ServiceNext]_(Service!serviceVars)
Idle     == \A c \in Clients : IdleOK(c)

(* A step in which no question and no reply changes is invisible.          *)
LEMMA Invisible ==
    ASSUME chain' = chain, block' = block,
           \A d \in Clients : SameQuestion(d) /\ outcome'[d] = outcome[d]
    PROVE  Abstract
<1>1. Ledgers' = Ledgers
  BY DEF Ledgers
<1>2. /\ [d \in Clients |-> req'[d].acct] = [d \in Clients |-> req[d].acct]
      /\ [d \in Clients |-> req'[d].floor] = [d \in Clients |-> req[d].floor]
      /\ [d \in Clients |-> ReplyOf(outcome'[d])] = [d \in Clients |-> ReplyOf(outcome[d])]
  BY DEF SameQuestion
<1> QED
  BY <1>1, <1>2 DEF Abstract, Service!serviceVars, Ledgers

(* A request that ends closes its question: with the chain's balance at a  *)
(* block that is not below every block served meanwhile, or with an error. *)
LEMMA Ends ==
    ASSUME ServiceInv, Inv', NEW c \in Clients, InRequest(c), NEW result, Return(c, result),
           UNCHANGED <<nodeVars, session>>,
           \/ result \in Failures
           \/ /\ result.kind = "balance" /\ result.acct = req[c].acct
              /\ result.floor = req[c].floor
    PROVE  Abstract /\ Idle'
<1>1. /\ ClientTypeOK /\ FloorOK(c) /\ OutcomeOK(c)' /\ ClientTypeOK'
      /\ damaged' = {} /\ chain' = chain /\ block' = block
  BY DEF ServiceInv, Inv, ClientOK, nodeVars, serverVars
<1>2. /\ pc' = [pc EXCEPT ![c] = "idle"]
      /\ req' = [req EXCEPT ![c] = NoRequest]
      /\ outcome' = [outcome EXCEPT ![c] = result]
  BY DEF Return, Release, Goto
<1>3. /\ pc'[c] = "idle" /\ req'[c].acct = 0 /\ req'[c].floor = 0 /\ outcome'[c] = result
      /\ \A d \in Clients \ {c} :
           pc'[d] = pc[d] /\ req'[d] = req[d] /\ outcome'[d] = outcome[d]
  BY <1>1, <1>2 DEF ClientTypeOK, NoRequest
<1>4. Idle'
  BY <1>3 DEF ServiceInv, Idle, IdleOK, InRequest
<1>5. req[c].acct \in Accounts /\ req[c].acct # 0
  BY <1>1, CellsAssumption DEF FloorOK
<1>6. PICK a, f, r :
        /\ a = [d \in Clients |-> req[d].acct] /\ f = [d \in Clients |-> req[d].floor]
        /\ r = [d \in Clients |-> ReplyOf(outcome[d])]
  OBVIOUS
<1>7. /\ [d \in Clients |-> req'[d].acct] = [a EXCEPT ![c] = 0]
      /\ [d \in Clients |-> req'[d].floor] = [f EXCEPT ![c] = 0]
      /\ [d \in Clients |-> ReplyOf(outcome'[d])] = [r EXCEPT ![c] = ReplyOf(result)]
  BY <1>3, <1>6
<1>8. Ledgers' = Ledgers
  BY <1>1 DEF Ledgers
<1>9. Service!Close(c)
  BY <1>1, <1>5, <1>6, <1>7, <1>8 DEF Service!Close, Service!NoQuestion, Ledgers
<1>10. CASE result \in Failures
  <2>1. ReplyOf(result) = [kind |-> "error"]
    BY <1>10 DEF Failures, Failure, ReplyOf
  <2>2. Service!Fail(c)
    BY <1>6, <1>7, <1>9, <2>1 DEF Service!Fail, Service!Error
  <2> QED
    BY <1>4, <2>2 DEF Abstract, Service!ServiceNext
<1>11. CASE /\ result.kind = "balance" /\ result.acct = req[c].acct
            /\ result.floor = req[c].floor
  <2>1. /\ result.floor <= result.at /\ result.at \in 1 .. Len(chain)
        /\ result.bal = chain[result.at].bal[req[c].acct]
    BY <1>1, <1>3, <1>11 DEF OutcomeOK, Answered, IsRight
  <2>2. ReplyOf(result) = [kind |-> "balance", at |-> result.at, bal |-> result.bal]
    BY <1>11 DEF ReplyOf
  <2>3. /\ Len(Ledgers) = Len(chain) /\ result.at \in 1 .. Len(Ledgers)
        /\ Ledgers[result.at][a[c]] = result.bal
    <3>1. Len(chain) \in Nat
      BY DEF ServiceInv, Inv, NodeInv, NodeTypeOK
    <3>2. DOMAIN Ledgers = 1 .. Len(chain)
      BY DEF Ledgers
    <3>3. Len(Ledgers) = Len(chain)
      BY <3>1, <3>2
    <3> QED
      BY <1>6, <2>1, <3>3 DEF Ledgers
  <2>4. result.at >= f[c]
    <3>1. result.at \in Nat /\ result.floor \in Nat
      BY <1>1, <1>11, <2>1 DEF ClientTypeOK
    <3> QED
      BY <1>6, <1>11, <2>1, <3>1
  <2>5. Service!Answer(c)
    <3>1. PICK n, L : n = result.at /\ L = Ledgers
      OBVIOUS
    <3>2. /\ n \in 1 .. Len(L) /\ n >= f[c]
          /\ [d \in Clients |-> ReplyOf(outcome'[d])] =
                [r EXCEPT ![c] = [kind |-> "balance", at |-> n, bal |-> L[n][a[c]]]]
      BY <1>7, <2>2, <2>3, <2>4, <3>1
    <3> QED
      BY <1>6, <1>9, <3>1, <3>2 DEF Service!Answer, Ledgers
  <2> QED
    BY <1>4, <2>5 DEF Abstract, Service!ServiceNext
<1> QED
  BY <1>10, <1>11

(* A step of a request that does not end it.                               *)
LEMMA Continues ==
    ASSUME ServiceInv, NEW c \in Clients, NEW step \in Steps \ {"idle", "follow"}, InRequest(c),
           Goto(c, step), chain' = chain, block' = block, outcome' = outcome,
           \A d \in Clients : SameQuestion(d)
    PROVE  Abstract /\ Idle'
<1>1. ClientTypeOK
  BY DEF ServiceInv, Inv
<1>2. pc'[c] = step /\ \A d \in Clients \ {c} : pc'[d] = pc[d]
  BY <1>1 DEF ClientTypeOK, Goto
<1>3. Idle'
  BY <1>2 DEF ServiceInv, Idle, IdleOK, InRequest, SameQuestion
<1> QED
  BY <1>3, Invisible

(* Each step of a request.                                                 *)
LEMMA RequestIsServed ==
    ASSUME ServiceInv, Inv', NEW c \in Clients, Request(c)
    PROVE  Abstract /\ Idle'
<1>1. ClientTypeOK
  BY DEF ServiceInv, Inv
<1>2. ASSUME UNCHANGED nodeVars PROVE chain' = chain /\ block' = block
  BY <1>2 DEF nodeVars, serverVars
<1>3. ASSUME req' = req PROVE \A d \in Clients : SameQuestion(d)
  BY <1>3 DEF SameQuestion
<1>4. CASE ReadHead(c)
  <2>1. \A d \in Clients : SameQuestion(d)
    BY <1>1, <1>4 DEF ReadHead, SameQuestion, ClientTypeOK
  <2> QED
    BY <1>2, <1>4, <2>1, Continues DEF ReadHead, InRequest, Steps
<1>5. CASE SyncToHead(c)
  <2>1. PICK step \in {"answer", "stalled"} : Goto(c, step)
    BY <1>5 DEF SyncToHead, SyncTo
  <2> QED
    BY <1>2, <1>3, <1>5, <2>1, Continues DEF SyncToHead, InRequest, Steps
<1>6. CASE Query(c)
  <2>1. \A d \in Clients : SameQuestion(d)
    <3>1. CASE req' = req
      BY <1>3, <3>1
    <3>2. ASSUME NEW at, req' = [req EXCEPT ![c].target = at]
          PROVE  \A d \in Clients : SameQuestion(d)
      BY <1>1, <3>2 DEF SameQuestion, ClientTypeOK
    <3> QED
      BY <1>6, <3>1, <3>2 DEF Query
  <2>2. PICK step \in {"catchup", "stalled"} : Goto(c, step)
    BY <1>6 DEF Query
  <2>3. step \in Steps \ {"idle", "follow"} /\ InRequest(c)
    BY <1>6, <2>2 DEF Query, InRequest, Steps
  <2>4. chain' = chain /\ block' = block /\ outcome' = outcome
    BY <1>2, <1>6 DEF Query
  <2> QED
    BY <2>1, <2>2, <2>3, <2>4, Continues, SMTT(30)
<1>7. CASE SyncToAnswer(c)
  <2>1. PICK step \in {"finish", "stalled"} : Goto(c, step)
    BY <1>7 DEF SyncToAnswer, SyncTo
  <2> QED
    BY <1>2, <1>3, <1>7, <2>1, Continues DEF SyncToAnswer, InRequest, Steps
<1>8. CASE Finish(c)
  <2>1. InRequest(c) /\ UNCHANGED <<nodeVars, session>>
    BY <1>8 DEF Finish, InRequest
  <2>2. CASE Goto(c, "stalled") /\ UNCHANGED <<req, outcome>>
    BY <1>2, <1>3, <2>1, <2>2, Continues DEF Steps
  <2>3. ASSUME NEW why \in {"undecodable", "NotInTrackedSet"}, Return(c, Failure(why))
        PROVE  Abstract /\ Idle'
    <3>1. PICK result : result = Failure(why) /\ result \in Failures
      BY DEF Failures
    <3> QED
      BY <2>1, <2>3, <3>1, Ends
  <2>4. CASE Return(c, Balance(c, BalanceIn(Decoded(c), req[c].acct)))
    <3>1. PICK v : v = BalanceIn(Decoded(c), req[c].acct)
      OBVIOUS
    <3>2. PICK result : result = Balance(c, v)
      OBVIOUS
    <3>3. /\ result.kind = "balance" /\ result.acct = req[c].acct
          /\ result.floor = req[c].floor
      BY <3>2 DEF Balance
    <3> QED
      BY <2>1, <2>4, <3>1, <3>2, <3>3, Ends
  <2> QED
    BY <1>8, <2>2, <2>3, <2>4 DEF Finish
<1>9. CASE TakeRebootstrapSlot(c)
  <2>1. InRequest(c) /\ UNCHANGED <<nodeVars, session>>
    BY <1>9 DEF TakeRebootstrapSlot, InRequest
  <2>2. CASE Goto(c, "setup") /\ UNCHANGED <<req, outcome>>
    BY <1>2, <1>3, <2>1, <2>2, Continues DEF Steps
  <2>3. CASE Return(c, Failure("Stalled"))
    <3>1. PICK result : result = Failure("Stalled") /\ result \in Failures
      BY DEF Failures
    <3> QED
      BY <2>1, <2>3, <3>1, Ends
  <2> QED
    BY <1>9, <2>2, <2>3 DEF TakeRebootstrapSlot
<1>10. CASE Resetup(c)
  <2>1. chain' = chain /\ block' = block
    BY <1>10 DEF Resetup, ReplaceSession, serverVars
  <2> QED
    BY <1>3, <1>10, <2>1, Continues DEF Resetup, InRequest, Steps
<1> QED
  BY <1>4, <1>5, <1>6, <1>7, <1>8, <1>9, <1>10 DEF Request

(* Each step of a client: a question is put, goes on or ends, a client     *)
(* forgets the last reply, or nothing that a caller sees happens.          *)
LEMMA ClientIsServed ==
    ASSUME ServiceInv, Inv', NEW c \in Clients, ClientStep(c)
    PROVE  Abstract /\ Idle'
<1>1. ClientTypeOK /\ IdleOK(c)
  BY DEF ServiceInv, Inv
<1>2. CASE Request(c)
  BY <1>2, RequestIsServed
<1>3. ASSUME NEW a \in Accounts, Invoke(c, a) PROVE Abstract /\ Idle'
  <2>1. /\ ~InRequest(c) /\ chain' = chain /\ block' = block
        /\ pc' = [pc EXCEPT ![c] = "head"]
        /\ req' = [req EXCEPT ![c] = [acct |-> a, target |-> 0, floor |-> block]]
        /\ outcome' = [outcome EXCEPT ![c] = NoOutcome]
    BY <1>3 DEF Invoke, Goto, InRequest, nodeVars, serverVars
  <2>2. /\ pc'[c] = "head" /\ req'[c].acct = a /\ req'[c].floor = block
        /\ outcome'[c] = NoOutcome
        /\ \A d \in Clients \ {c} :
             pc'[d] = pc[d] /\ req'[d] = req[d] /\ outcome'[d] = outcome[d]
    BY <1>1, <2>1 DEF ClientTypeOK
  <2>3. Idle'
    BY <2>2 DEF ServiceInv, Idle, IdleOK, InRequest
  <2>4. PICK q, f, r :
          /\ q = [d \in Clients |-> req[d].acct] /\ f = [d \in Clients |-> req[d].floor]
          /\ r = [d \in Clients |-> ReplyOf(outcome[d])]
    OBVIOUS
  <2>5. ReplyOf(NoOutcome) = [kind |-> "none"]
    BY DEF ReplyOf, NoOutcome
  <2>6. /\ [d \in Clients |-> req'[d].acct] = [q EXCEPT ![c] = a]
        /\ [d \in Clients |-> req'[d].floor] = [f EXCEPT ![c] = block]
        /\ [d \in Clients |-> ReplyOf(outcome'[d])] = [r EXCEPT ![c] = [kind |-> "none"]]
    BY <2>2, <2>4, <2>5
  <2>7. Ledgers' = Ledgers
    BY <2>1 DEF Ledgers
  <2>8. q[c] = 0
    BY <1>1, <2>1, <2>4 DEF IdleOK
  <2>9. Service!Ask(c)
    BY <2>1, <2>4, <2>6, <2>7, <2>8 DEF Service!Ask, Service!NoQuestion, Service!NoReply, Ledgers
  <2> QED
    BY <2>3, <2>9 DEF Abstract, Service!ServiceNext
<1>4. CASE CooldownElapses(c)
  <2>1. /\ chain' = chain /\ block' = block /\ pc' = pc /\ req' = req /\ outcome' = outcome
    BY <1>4 DEF CooldownElapses, nodeVars, serverVars
  <2> QED
    BY <2>1, Invisible DEF SameQuestion, ServiceInv, Idle, IdleOK, InRequest
<1>5. ASSUME ~InRequest(c), Release(c), chain' = chain, block' = block, outcome' = outcome
      PROVE  Abstract /\ Idle'
  <2>1. pc' = [pc EXCEPT ![c] = "idle"] /\ req' = [req EXCEPT ![c] = NoRequest]
    BY <1>5 DEF Release, Goto
  <2>2. /\ pc'[c] = "idle" /\ req'[c].acct = 0 /\ req'[c].floor = 0
        /\ \A d \in Clients \ {c} : pc'[d] = pc[d] /\ req'[d] = req[d]
    BY <1>1, <2>1 DEF ClientTypeOK, NoRequest
  <2>3. \A d \in Clients : SameQuestion(d)
    BY <1>1, <1>5, <2>2 DEF IdleOK, SameQuestion
  <2>4. Idle'
    BY <2>2 DEF ServiceInv, Idle, IdleOK, InRequest
  <2> QED
    BY <1>5, <2>3, <2>4, Invisible
<1>6. CASE CallFails(c)
  <2>1. UNCHANGED <<nodeVars, session>> /\ chain' = chain /\ block' = block
    BY <1>6 DEF CallFails, nodeVars, serverVars
  <2>2. CASE pc[c] = "follow"
    BY <1>5, <1>6, <2>1, <2>2 DEF CallFails, InRequest
  <2>3. CASE pc[c] # "follow"
    <3>1. Return(c, Failure("Pir")) /\ InRequest(c)
      BY <1>6, <2>3 DEF CallFails, NeedsCall, InRequest
    <3>2. PICK result : result = Failure("Pir") /\ result \in Failures
      BY DEF Failures
    <3> QED
      BY <2>1, <3>1, <3>2, Ends
  <2> QED
    BY <2>2, <2>3
<1>7. CASE FollowHead(c)
  <2>1. /\ chain' = chain /\ block' = block /\ outcome' = outcome /\ ~InRequest(c)
        /\ pc' = [pc EXCEPT ![c] = "follow"]
        /\ req' = [req EXCEPT ![c].target = block]
    BY <1>7 DEF FollowHead, Goto, InRequest, nodeVars, serverVars
  <2>2. \A d \in Clients : SameQuestion(d)
    BY <1>1, <2>1 DEF SameQuestion, ClientTypeOK
  <2>3. pc'[c] = "follow" /\ \A d \in Clients \ {c} : pc'[d] = pc[d]
    BY <1>1, <2>1 DEF ClientTypeOK
  <2>4. Idle'
    BY <2>1, <2>2, <2>3 DEF ServiceInv, Idle, IdleOK, InRequest, SameQuestion
  <2> QED
    BY <2>1, <2>2, <2>4, Invisible
<1>8. CASE FollowSync(c)
  <2>1. /\ ~InRequest(c) /\ Release(c) /\ chain' = chain /\ block' = block
        /\ outcome' = outcome
    BY <1>8 DEF FollowSync, InRequest, nodeVars, serverVars
  <2> QED
    BY <1>5, <2>1
<1>9. CASE Connect(c)
  <2>1. /\ ~InRequest(c) /\ chain' = chain /\ block' = block /\ pc' = pc /\ req' = req
        /\ outcome' = [outcome EXCEPT ![c] = NoOutcome]
    BY <1>9 DEF Connect, ReplaceSession, InRequest, serverVars
  <2>2. Idle'
    BY <2>1 DEF ServiceInv, Idle, IdleOK, InRequest
  <2>3. PICK q, f, r :
          /\ q = [d \in Clients |-> req[d].acct] /\ f = [d \in Clients |-> req[d].floor]
          /\ r = [d \in Clients |-> ReplyOf(outcome[d])]
    OBVIOUS
  <2>4. outcome'[c] = NoOutcome /\ \A d \in Clients \ {c} : outcome'[d] = outcome[d]
    BY <1>1, <2>1 DEF ClientTypeOK
  <2>5. ReplyOf(NoOutcome) = [kind |-> "none"]
    BY DEF ReplyOf, NoOutcome
  <2>6. /\ [d \in Clients |-> req'[d].acct] = q
        /\ [d \in Clients |-> req'[d].floor] = f
        /\ [d \in Clients |-> ReplyOf(outcome'[d])] = [r EXCEPT ![c] = [kind |-> "none"]]
    BY <2>1, <2>3, <2>4, <2>5
  <2>7. Ledgers' = Ledgers /\ q[c] = 0
    BY <1>1, <2>1, <2>3 DEF Ledgers, IdleOK
  <2>8. Service!Forget(c)
    BY <2>1, <2>3, <2>6, <2>7 DEF Service!Forget, Service!NoQuestion, Service!NoReply, Ledgers
  <2> QED
    BY <2>2, <2>8 DEF Abstract, Service!ServiceNext
<1> QED
  BY <1>2, <1>3, <1>4, <1>6, <1>7, <1>8, <1>9 DEF ClientStep

(* The node adds at most one block to the chain at a time.                 *)
LEMMA OneBlockAtATime ==
    ASSUME NodeInv, NodeNext
    PROVE  chain' = chain \/ Len(chain') = Len(chain) + 1
<1>1. chain \in Seq(Block)
  BY DEF NodeInv, NodeTypeOK
<1>2. ASSUME NEW b, Fetched(block + 1, b) PROVE chain' = chain \/ Len(chain') = Len(chain) + 1
  BY <1>1, <1>2 DEF Fetched
<1>3. CASE ApplyBlock \/ RejectBlock
  BY <1>2, <1>3 DEF ApplyBlock, RejectBlock
<1>4. CASE AppendDelta \/ AppendFails \/ SaveState \/ Restart \/ Rebootstrap
  BY <1>4 DEF AppendDelta, AppendFails, SaveState, Restart, Rebootstrap
<1> QED
  BY <1>3, <1>4 DEF NodeNext, WriterStep

(* A step of the node serves what it served, the next block, or another.   *)
LEMMA NodeServes ==
    ASSUME ServiceInv, NodeNext, NodeInv', outcome' = outcome, pc' = pc,
           \A d \in Clients : /\ req'[d].acct = req[d].acct
                              /\ req'[d].floor = IF block' < req[d].floor THEN block' ELSE req[d].floor
    PROVE  Abstract /\ Idle'
<1>1. NodeInv /\ ClientTypeOK
  BY DEF ServiceInv, Inv
<1>2. block' \in 1 .. Len(chain') /\ block' \in Nat /\ chain' \in Seq(Block)
  BY DEF NodeInv, NodeTypeOK
<1>3. Idle'
  <2> SUFFICES ASSUME NEW d \in Clients, ~InRequest(d) PROVE req'[d].acct = 0 /\ req'[d].floor = 0
    BY DEF Idle, IdleOK, InRequest
  <2>1. req[d].acct = 0 /\ req[d].floor = 0
    BY DEF ServiceInv, IdleOK
  <2> QED
    BY <1>2, <2>1
<1>4. PICK q, f, r :
        /\ q = [d \in Clients |-> req[d].acct] /\ f = [d \in Clients |-> req[d].floor]
        /\ r = [d \in Clients |-> ReplyOf(outcome[d])]
  OBVIOUS
<1>5. PICK n, m, L, M :
        n = Len(chain) /\ m = Len(chain') /\ L = Ledgers /\ M = Ledgers'
  OBVIOUS
<1>6. /\ n \in Nat /\ m \in Nat /\ n <= m
      /\ \A i \in 1 .. n : chain'[i] = chain[i]
      /\ chain' = chain \/ m = n + 1
  BY <1>1, <1>5, HistoryGrows, OneBlockAtATime
<1>7. /\ L = [i \in 1 .. n |-> chain[i].bal] /\ M = [i \in 1 .. m |-> chain'[i].bal]
  BY <1>5 DEF Ledgers
<1>8. Len(L) = n /\ Len(M) = m
  BY <1>6, <1>7
<1>9. M = L \/ (Len(M) = Len(L) + 1 /\ SubSeq(M, 1, Len(L)) = L)
  <2>1. CASE chain' = chain
    BY <1>5, <1>7, <2>1
  <2>2. CASE m = n + 1
    <3>1. SubSeq(M, 1, n) = [i \in 1 .. n |-> M[i]]
      BY <1>6, SMTT(30)
    <3>2. \A i \in 1 .. n : i \in 1 .. m /\ M[i] = L[i]
      BY <1>6, <1>7
    <3>3. [i \in 1 .. n |-> M[i]] = L
      BY <1>7, <3>2
    <3> QED
      BY <1>8, <2>2, <3>1, <3>3
  <2> QED
    BY <1>6, <2>1, <2>2
<1>10. /\ [d \in Clients |-> req'[d].acct] = q
       /\ [d \in Clients |-> req'[d].floor] =
            [d \in Clients |-> IF block' < f[d] THEN block' ELSE f[d]]
       /\ [d \in Clients |-> ReplyOf(outcome'[d])] = r
  BY <1>4
<1>11. block' \in 1 .. Len(M)
  BY <1>2, <1>5, <1>8
<1>12. Service!Serve
  BY <1>4, <1>5, <1>9, <1>10, <1>11 DEF Service!Serve, Ledgers
<1> QED
  BY <1>3, <1>12 DEF Abstract, Service!ServiceNext

(* A writer step lowers no floor.                                          *)
LEMMA NodeStepServes ==
    ASSUME ServiceInv, Inv', NodeStep
    PROVE  Abstract /\ Idle'
<1>1. NodeInv /\ ClientTypeOK /\ NodeInv' /\ WriterStep /\ NodeNext
      /\ pc' = pc /\ req' = req /\ outcome' = outcome
  BY DEF ServiceInv, Inv, NodeStep, NodeNext, clientVars
<1>2. ASSUME NEW d \in Clients
      PROVE  req[d].floor = IF block' < req[d].floor THEN block' ELSE req[d].floor
  <2>1. /\ req[d].floor \in Nat /\ block \in Nat /\ block' \in Nat /\ block <= block'
    BY <1>1, WriterNeverRewinds DEF ClientTypeOK
  <2>2. InRequest(d) => req[d].floor <= block
    BY DEF ServiceInv, Inv, ClientOK, FloorOK
  <2>3. ~InRequest(d) => req[d].floor = 0
    BY DEF ServiceInv, IdleOK
  <2> QED
    BY <2>1, <2>2, <2>3
<1> QED
  BY <1>1, <1>2, NodeServes

(* A restart or a fresh bootstrap lowers the floors to the block it serves. *)
LEMMA ReplacedServes ==
    ASSUME ServiceInv, Inv', Replaced
    PROVE  Abstract /\ Idle'
<1>1. ClientTypeOK /\ NodeInv' /\ NodeNext /\ pc' = pc /\ outcome' = outcome
  BY DEF ServiceInv, Inv, Replaced, NodeNext
<1>2. ASSUME NEW d \in Clients
      PROVE  /\ req'[d].acct = req[d].acct
             /\ req'[d].floor = IF block' < req[d].floor THEN block' ELSE req[d].floor
  <2>1. req'[d] = [req[d] EXCEPT !.floor = IF block' < @ THEN block' ELSE @]
    BY DEF Replaced
  <2>2. req[d] \in [acct : Nat, target : Nat, floor : Nat]
    BY <1>1 DEF ClientTypeOK
  <2> QED
    BY <2>1, <2>2
<1> QED
  BY <1>1, <1>2, NodeServes

(* Every step of the composition is a step of the service, or invisible.   *)
LEMMA StepIsServed ==
    ASSUME ServiceInv, Inv', [Next]_vars
    PROVE  Abstract /\ Idle'
<1>1. CASE NodeStep
  BY <1>1, NodeStepServes
<1>2. CASE Replaced
  BY <1>2, ReplacedServes
<1>3. ASSUME NEW c \in Clients, ClientStep(c) PROVE Abstract /\ Idle'
  BY <1>3, ClientIsServed
<1>4. CASE UNCHANGED vars
  <2>1. /\ chain' = chain /\ block' = block /\ pc' = pc /\ req' = req /\ outcome' = outcome
    BY <1>4 DEF vars, clientVars, nodeVars, serverVars
  <2> QED
    BY <2>1, Invisible DEF SameQuestion, ServiceInv, Idle, IdleOK, InRequest
<1> QED
  BY <1>1, <1>2, <1>3, <1>4 DEF Next

(* Nobody has asked anything yet.                                          *)
LEMMA ServiceStarts == Init => Idle /\ Service!ServiceInit
<1> SUFFICES ASSUME Init PROVE Idle /\ Service!ServiceInit
  OBVIOUS
<1>1. NodeInv
  BY InitInv DEF Init
<1>2. /\ pc = [c \in Clients |-> "idle"] /\ req = [c \in Clients |-> NoRequest]
      /\ outcome = [c \in Clients |-> NoOutcome]
  BY DEF Init, ClientInit
<1>3. \A c \in Clients : /\ pc[c] = "idle" /\ req[c].acct = 0 /\ req[c].floor = 0
                         /\ ReplyOf(outcome[c]) = [kind |-> "none"]
  BY <1>2 DEF NoRequest, NoOutcome, ReplyOf
<1>4. Idle
  BY <1>3 DEF Idle, IdleOK
<1>5. Len(chain) = 1 /\ block = 1
  BY DEF Init, NodeInit
<1>6. Len(Ledgers) = 1
  BY <1>5 DEF Ledgers
<1>7. /\ [c \in Clients |-> req[c].acct] = [c \in Clients |-> 0]
      /\ [c \in Clients |-> req[c].floor] = [c \in Clients |-> 0]
      /\ [c \in Clients |-> ReplyOf(outcome[c])] = [c \in Clients |-> [kind |-> "none"]]
  BY <1>3
<1> QED
  BY <1>4, <1>5, <1>6, <1>7 DEF Service!ServiceInit, Service!NoQuestion, Service!NoReply, Ledgers

(* What callers of the node and its clients see is the abstract service:   *)
(* every question is answered by the chain's balance of that account at a  *)
(* block not below all that was served meanwhile, or by an error.          *)
THEOREM ServiceIsImplemented ==
    ASSUME ~BlocksMayFail, ~RestartsMayLose
    PROVE  Spec => ImplementsService
<1>1. Spec => [](damaged = {})
  BY NothingDamaged
<1>2. Init => Idle /\ Service!ServiceInit
  BY ServiceStarts
<1>3. Inv /\ Inv' /\ damaged = {} /\ Idle /\ [Next]_vars => Abstract /\ Idle'
  BY StepIsServed DEF ServiceInv, Idle
<1>4. Abstract => [Service!ServiceNext]_(Service!serviceVars)
  BY DEF Abstract
<1> QED
  BY <1>1, <1>2, <1>3, <1>4, Invariance, PTL DEF Spec, ImplementsService, Service!ServiceSpec
================================================================================
