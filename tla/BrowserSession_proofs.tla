------------------------- MODULE BrowserSession_proofs -------------------------
(***************************************************************************)
(* What holds of a page for every length of bundle and chunk, every number *)
(* of blocks, bootstraps, faults and addresses: where lookups of a tab do  *)
(* not overlap, none shows garbage, in any number of tabs; and where one   *)
(* tab has the database to itself and wiping it does not fail, no tab      *)
(* starts from two bundles spliced together.                               *)
(***************************************************************************)
EXTENDS BrowserSession, NaturalLemmas, SequenceTheorems, TLAPS

-----------------------------------------------------------------------------
(* The download's state.                                                   *)

Bundles == [epoch : 1 .. MaxEpoch, block : Nat]
Pieces  == Seq(Bundles)
Named   == Bundles \cup {NoBundle}

Metas   == [etag : Named, written : 0 .. Total, complete : BOOLEAN]
Entries == [meta : Metas, chunks : [1 .. NumChunks -> Pieces]]

Stages == {"closed", "probing", "deciding", "resuming", "reading", "replaying", "asking",
           "receiving", "flushing", "noting", "sealing", "starting", "loaded", "failed"}

TabStates ==
    [pc : Stages, epoch : 0 .. MaxEpoch, dest : Pieces, etag : Named, next : Nat,
     tries : Nat, body : Named, cached : BOOLEAN, mode : BOOLEAN]

(* What a tab's stage says of what it has in hand.                         *)
TabOK(s) ==
    /\ s.pc \notin {"closed", "probing", "failed"} => s.epoch # 0
    /\ s.pc \in {"closed", "probing", "deciding", "resuming"} => s.dest = <<>> /\ s.next = 0
    /\ s.pc = "reading" => s.next < NumChunks
    /\ s.pc = "replaying" => s.next <= NumChunks
    /\ s.pc \in {"receiving", "flushing", "noting"} => s.body \in Bundles
    /\ s.pc \in {"flushing", "noting"} => Len(s.dest) <= Total
    /\ s.pc = "flushing" => (s.next + 1) * ChunkLen <= Len(s.dest)
    /\ s.pc = "noting" => s.next * ChunkLen <= Len(s.dest)
    /\ s.pc \in {"sealing", "starting", "loaded"} => Len(s.dest) = Total

DownloadTypeOK ==
    /\ server \in [epoch : 1 .. MaxEpoch, block : Nat, bundle : Named]
    /\ stored \in [1 .. MaxEpoch -> Entries]
    /\ tab \in [Tabs -> TabStates]
    /\ \A t \in Tabs : TabOK(tab[t])

(* The sizes, one by one.                                                  *)
LEMMA Sizes == Total \in Nat \ {0} /\ ChunkLen \in Nat \ {0} /\ MaxEpoch \in Nat \ {0}
BY DownloadAssumption

(* A cut out of a sequence has the sequence's elements.                    *)
LEMMA CutOut ==
    ASSUME NEW S, NEW d \in Seq(S), NEW w \in Nat, NEW k \in Nat, k <= Len(d)
    PROVE  SubSeq(d, w + 1, k) \in Seq(S)
<1>1. PICK v \in Nat : v = w + 1
  OBVIOUS
<1>2. PICK l \in Nat : l = Len(d)
  OBVIOUS
<1>3. \A i \in v .. k : d[i] \in S
  <2>1. \A i \in 1 .. l : d[i] \in S
    BY <1>2
  <2>2. \A i \in v .. k : i \in 1 .. l
    BY <1>1, <1>2
  <2> QED  BY <2>1, <2>2
<1>4. SubSeq(d, v, k) \in Seq(S)
  BY <1>3, SubSeqProperties
<1> QED  BY <1>1, <1>4

(* One more chunk.                                                         *)
LEMMA OneMore ==
    ASSUME NEW a \in Nat, NEW c \in Nat
    PROVE  a * c \in Nat /\ (a + 1) * c = a * c + c
OBVIOUS

(* A longer bundle has no fewer chunks.                                    *)
LEMMA DivMonotonic ==
    ASSUME NEW c \in Nat \ {0}, NEW a \in Nat, NEW b \in Nat, a <= b
    PROVE  a \div c \in Nat /\ a \div c <= b \div c
OBVIOUS

(* There is a chunk, and a number of pieces fills no more than all of them.*)
LEMMA ChunkCount ==
    /\ NumChunks \in Nat \ {0}
    /\ \A w \in 0 .. Total : w \div ChunkLen \in Nat /\ w \div ChunkLen <= NumChunks
<1>1. Total \in Nat \ {0} /\ ChunkLen \in Nat \ {0}
  BY DownloadAssumption
<1>2. Total + ChunkLen - 1 \in Nat /\ ChunkLen <= Total + ChunkLen - 1
  BY <1>1
<1>3. ChunkLen \div ChunkLen = 1
  BY <1>1
<1>4. NumChunks \in Nat /\ 1 <= NumChunks
  BY <1>1, <1>2, <1>3, DivMonotonic DEF NumChunks
<1>5. ASSUME NEW w \in 0 .. Total
      PROVE  w \div ChunkLen \in Nat /\ w \div ChunkLen <= NumChunks
  <2>1. w \in Nat /\ w <= Total + ChunkLen - 1
    BY <1>1
  <2> QED  BY <1>1, <1>2, <2>1, DivMonotonic DEF NumChunks
<1> QED  BY <1>4, <1>5

(* A tab in a state that fits its stage.                                   *)
LEMMA TabStepped ==
    ASSUME DownloadTypeOK, NEW t \in Tabs, NEW r \in TabStates, TabOK(r),
           tab' = [tab EXCEPT ![t] = r],
           server' \in [epoch : 1 .. MaxEpoch, block : Nat, bundle : Named],
           stored' \in [1 .. MaxEpoch -> Entries]
    PROVE  DownloadTypeOK'
<1>1. tab' \in [Tabs -> TabStates]
  BY DEF DownloadTypeOK
<1>2. ASSUME NEW u \in Tabs PROVE TabOK(tab'[u])
  <2>1. tab'[u] = r \/ tab'[u] = tab[u]
    BY DEF DownloadTypeOK
  <2> QED  BY <2>1 DEF DownloadTypeOK
<1> QED  BY <1>1, <1>2 DEF DownloadTypeOK

(* An empty entry, and a tab that is closed.                               *)
LEMMA EmptyTyped == NoEntry \in Entries /\ Closed \in TabStates /\ TabOK(Closed)
<1>1. NoMeta \in Metas
  BY DownloadAssumption DEF NoMeta, Metas, Named
<1>2. NoEntry \in Entries
  BY <1>1, ChunkCount DEF NoEntry, Entries, Pieces
<1>3. Closed \in TabStates
  BY DownloadAssumption DEF Closed, TabStates, Stages, Named, Pieces
<1>4. TabOK(Closed)
  BY DEF TabOK, Closed
<1> QED  BY <1>2, <1>3, <1>4

(* Evicting an entry leaves entries.                                       *)
LEMMA EvictedTyped ==
    ASSUME DownloadTypeOK, NEW e
    PROVE  Evicted(e) \in [1 .. MaxEpoch -> Entries]
BY EmptyTyped DEF DownloadTypeOK, Evicted

(* The bundle that the server serves is one.                               *)
LEMMA SetupBytesTyped == DownloadTypeOK => SetupBytes \in Bundles
BY DEF DownloadTypeOK, SetupBytes, Bundle, Bundles, Named

(* Most steps change nothing but the tab.                                  *)
LEMMA OnlyTabStepped ==
    ASSUME DownloadTypeOK, NEW t \in Tabs, NEW r \in TabStates, TabOK(r),
           tab' = [tab EXCEPT ![t] = r], UNCHANGED <<server, stored>>
    PROVE  DownloadTypeOK'
<1>1. /\ server' \in [epoch : 1 .. MaxEpoch, block : Nat, bundle : Named]
      /\ stored' \in [1 .. MaxEpoch -> Entries]
  BY DEF DownloadTypeOK
<1> QED  BY <1>1, TabStepped

(* A tab goes to another stage.                                            *)
LEMMA StageStepped ==
    ASSUME DownloadTypeOK, NEW t \in Tabs, NEW pc \in Stages, Step(t, pc)
    PROVE  \E r \in TabStates : r = [tab[t] EXCEPT !.pc = pc] /\ tab' = [tab EXCEPT ![t] = r]
<1>1. PICK r : r = [tab[t] EXCEPT !.pc = pc]
  OBVIOUS
<1>2. tab[t] \in TabStates
  BY DEF DownloadTypeOK
<1>3. r \in TabStates
  BY <1>1, <1>2 DEF TabStates
<1>4. tab' = [tab EXCEPT ![t] = r]
  BY <1>1 DEF Step
<1> QED  BY <1>1, <1>3, <1>4

(* Each step of a load leaves a tab whose stage fits what it has in hand.  *)
(* Opening a page asks for the epoch, with nothing in hand.                *)
LEMMA OpenType == ASSUME DownloadTypeOK, NEW t \in Tabs, Open(t) PROVE DownloadTypeOK'
<1>1. tab[t].pc = "closed" /\ Step(t, "probing") /\ UNCHANGED <<server, stored>>
  BY DEF Open
<1>2. PICK r \in TabStates : r = [tab[t] EXCEPT !.pc = "probing"] /\ tab' = [tab EXCEPT ![t] = r]
  BY <1>1, StageStepped DEF Stages
<1>3. tab[t] \in TabStates /\ TabOK(tab[t])
  BY DEF DownloadTypeOK
<1>4. TabOK(r)
  BY <1>1, <1>2, <1>3 DEF TabOK, TabStates
<1> QED  BY <1>1, <1>2, <1>4, OnlyTabStepped

(* The epoch /head names is one the server had.                            *)
LEMMA ProbeType == ASSUME DownloadTypeOK, NEW t \in Tabs, Probe(t) PROVE DownloadTypeOK'
<1>1. /\ tab[t].pc = "probing" /\ UNCHANGED <<server, stored>>
      /\ tab' = [tab EXCEPT ![t].pc = "deciding", ![t].epoch = server.epoch]
  BY DEF Probe
<1>2. PICK r : r = [tab[t] EXCEPT !.pc = "deciding", !.epoch = server.epoch]
  OBVIOUS
<1>3. tab[t] \in TabStates /\ TabOK(tab[t]) /\ server.epoch \in 1 .. MaxEpoch
  BY DEF DownloadTypeOK
<1>4. r \in TabStates
  <2>1. server.epoch \in 0 .. MaxEpoch
    BY <1>3
  <2> QED  BY <1>2, <1>3, <2>1 DEF TabStates, Stages
<1>5. TabOK(r)
  BY <1>1, <1>2, <1>3 DEF TabOK, TabStates
<1>6. tab' = [tab EXCEPT ![t] = r]
  BY <1>1, <1>2
<1> QED  BY <1>1, <1>4, <1>5, <1>6, OnlyTabStepped

(* Reading back and resuming both begin with nothing in hand.              *)
LEMMA DecideType == ASSUME DownloadTypeOK, NEW t \in Tabs, Decide(t) PROVE DownloadTypeOK'
<1>1. PICK pc \in {"reading", "resuming"} : Step(t, pc)
  BY DEF Decide
<1>2. tab[t].pc = "deciding" /\ UNCHANGED <<server, stored>>
  BY DEF Decide
<1>3. PICK r \in TabStates : r = [tab[t] EXCEPT !.pc = pc] /\ tab' = [tab EXCEPT ![t] = r]
  BY <1>1, StageStepped DEF Stages
<1>4. tab[t] \in TabStates /\ TabOK(tab[t])
  BY DEF DownloadTypeOK
<1>5. TabOK(r)
  BY <1>2, <1>3, <1>4, ChunkCount DEF TabOK, TabStates
<1> QED  BY <1>2, <1>3, <1>5, OnlyTabStepped

(* The entry of a tab past its probe.                                      *)
LEMMA EntryTyped ==
    ASSUME DownloadTypeOK, NEW t \in Tabs, tab[t].pc \notin {"closed", "probing", "failed"}
    PROVE  /\ tab[t].epoch \in 1 .. MaxEpoch
           /\ stored[tab[t].epoch] \in Entries
           /\ stored[tab[t].epoch].meta \in Metas
<1>1. tab[t] \in TabStates /\ TabOK(tab[t])
  BY DEF DownloadTypeOK
<1>2. tab[t].epoch \in 1 .. MaxEpoch
  BY <1>1, DownloadAssumption DEF TabOK, TabStates
<1>3. stored[tab[t].epoch] \in Entries
  BY <1>2 DEF DownloadTypeOK
<1> QED  BY <1>2, <1>3 DEF Entries

(* A partial entry counts no more chunks than a bundle has.                *)
LEMMA ResumeType == ASSUME DownloadTypeOK, NEW t \in Tabs, Resume(t) PROVE DownloadTypeOK'
<1> DEFINE meta == stored[tab[t].epoch].meta
<1>1. tab[t].pc = "resuming" /\ UNCHANGED <<server, stored>>
  BY DEF Resume
<1>2. tab[t] \in TabStates /\ TabOK(tab[t])
  BY DEF DownloadTypeOK
<1>3. meta \in Metas
  BY <1>1, EntryTyped
<1>4. CASE Step(t, "asking")
  <2>1. PICK r \in TabStates : r = [tab[t] EXCEPT !.pc = "asking"] /\ tab' = [tab EXCEPT ![t] = r]
    BY <1>4, StageStepped DEF Stages
  <2>2. TabOK(r)
    BY <1>1, <1>2, <2>1 DEF TabOK, TabStates
  <2> QED  BY <1>1, <2>1, <2>2, OnlyTabStepped
<1>5. CASE tab' = [tab EXCEPT ![t].pc = "replaying", ![t].etag = meta.etag,
                              ![t].next = meta.written \div ChunkLen]
  <2>1. meta.written \div ChunkLen \in Nat /\ meta.written \div ChunkLen <= NumChunks
    BY <1>3, ChunkCount DEF Metas
  <2>2. PICK n : n = meta.written \div ChunkLen
    OBVIOUS
  <2>3. PICK r : r = [tab[t] EXCEPT !.pc = "replaying", !.etag = meta.etag, !.next = n]
    OBVIOUS
  <2>4. r \in TabStates
    <3>1. PICK g \in Named : g = meta.etag
      BY <1>3 DEF Metas
    <3>2. r = [tab[t] EXCEPT !.pc = "replaying", !.etag = g, !.next = n]
      BY <2>3, <3>1
    <3>3. n \in Nat
      BY <2>1, <2>2
    <3> QED  BY <1>2, <3>2, <3>3 DEF TabStates, Stages
  <2>5. TabOK(r)
    BY <1>1, <1>2, <2>1, <2>2, <2>3 DEF TabOK, TabStates
  <2>6. tab' = [tab EXCEPT ![t] = r]
    BY <1>5, <2>2, <2>3
  <2> QED  BY <1>1, <2>4, <2>5, <2>6, OnlyTabStepped
<1> QED  BY <1>4, <1>5 DEF Resume

(* A bundle read back is of full length when the tab starts from it.       *)
LEMMA ReadCachedType == ASSUME DownloadTypeOK, NEW t \in Tabs, ReadCached(t) PROVE DownloadTypeOK'
<1>1. tab[t].pc = "reading" /\ UNCHANGED <<server, stored>>
  BY Zenon DEF ReadCached
<1>2. tab[t] \in TabStates /\ TabOK(tab[t])
  BY DEF DownloadTypeOK
<1>3. stored[tab[t].epoch] \in Entries
  BY <1>1, EntryTyped
<1>4. tab[t].next \in Nat /\ tab[t].next < NumChunks /\ NumChunks \in Nat
  BY <1>1, <1>2, ChunkCount DEF TabOK, TabStates
<1>5. PICK chunk : chunk = stored[tab[t].epoch].chunks[tab[t].next + 1]
  OBVIOUS
<1>6. PICK d : d = tab[t].dest \o chunk
  OBVIOUS
<1>7. chunk \in Pieces /\ tab[t].dest \in Pieces /\ <<>> \in Pieces
  <2>1. <<>> \in Pieces
    BY DEF Pieces
  <2> QED  BY <1>2, <1>3, <1>4, <1>5, <2>1 DEF Entries, TabStates
<1>8. d \in Pieces /\ Len(d) \in Nat
  BY <1>6, <1>7 DEF Pieces
<1>9. \/ tab' = [tab EXCEPT ![t].pc = "resuming", ![t].dest = <<>>, ![t].next = 0]
      \/ /\ ~(Len(d) > Total \/ Len(d) < Total)
         /\ tab' = [tab EXCEPT ![t].pc = "starting", ![t].dest = d, ![t].cached = TRUE,
                               ![t].mode = Complete(tab[t].epoch)]
      \/ /\ tab[t].next + 1 # NumChunks
         /\ tab' = [tab EXCEPT ![t].dest = d, ![t].next = @ + 1]
  BY Zenon, <1>5, <1>6 DEF ReadCached
<1>10. CASE tab' = [tab EXCEPT ![t].pc = "resuming", ![t].dest = <<>>, ![t].next = 0]
  <2>1. PICK r : r = [tab[t] EXCEPT !.pc = "resuming", !.dest = <<>>, !.next = 0]
    OBVIOUS
  <2>2. r \in TabStates
    BY <1>2, <1>7, <2>1 DEF TabStates, Stages
  <2>3. TabOK(r)
    BY <1>1, <1>2, <2>1 DEF TabOK, TabStates
  <2>4. tab' = [tab EXCEPT ![t] = r]
    BY <1>10, <2>1
  <2> QED  BY <1>1, <2>2, <2>3, <2>4, OnlyTabStepped
<1>11. CASE /\ ~(Len(d) > Total \/ Len(d) < Total)
            /\ tab' = [tab EXCEPT ![t].pc = "starting", ![t].dest = d, ![t].cached = TRUE,
                                  ![t].mode = Complete(tab[t].epoch)]
  <2>1. PICK m : m = Complete(tab[t].epoch)
    OBVIOUS
  <2>2. PICK r : r = [tab[t] EXCEPT !.pc = "starting", !.dest = d, !.cached = TRUE, !.mode = m]
    OBVIOUS
  <2>3. m \in BOOLEAN
    BY <2>1 DEF Complete
  <2>4. r \in TabStates
    BY <1>2, <1>8, <2>2, <2>3 DEF TabStates, Stages
  <2>5. Len(d) = Total
    BY <1>8, <1>11, DownloadAssumption
  <2>6. r.pc = "starting" /\ r.epoch = tab[t].epoch /\ r.dest = d
    BY <1>2, <2>2 DEF TabStates
  <2>7. TabOK(r)
    BY <1>1, <1>2, <2>5, <2>6 DEF TabOK
  <2>8. tab' = [tab EXCEPT ![t] = r]
    BY <1>11, <2>1, <2>2
  <2> QED  BY <1>1, <2>4, <2>7, <2>8, OnlyTabStepped
<1>12. CASE /\ tab[t].next + 1 # NumChunks
            /\ tab' = [tab EXCEPT ![t].dest = d, ![t].next = @ + 1]
  <2>1. PICK n \in Nat : n = tab[t].next + 1
    BY <1>4
  <2>2. PICK r : r = [tab[t] EXCEPT !.dest = d, !.next = n]
    OBVIOUS
  <2>3. r \in TabStates
    BY <1>2, <1>8, <2>2 DEF TabStates
  <2>4. r.pc = "reading" /\ r.epoch = tab[t].epoch /\ r.next = n
    BY <1>1, <1>2, <2>2 DEF TabStates
  <2>5. TabOK(r)
    BY <1>1, <1>2, <1>4, <1>12, <2>1, <2>4 DEF TabOK
  <2>6. tab' = [tab EXCEPT ![t] = r]
    BY <1>12, <2>1, <2>2
  <2> QED  BY <1>1, <2>3, <2>5, <2>6, OnlyTabStepped
<1> QED  BY <1>9, <1>10, <1>11, <1>12

(* A chunk put back is one of the entry's.                                 *)
LEMMA ReplayType == ASSUME DownloadTypeOK, NEW t \in Tabs, Replay(t) PROVE DownloadTypeOK'
<1>1. tab[t].pc = "replaying" /\ UNCHANGED server
  BY Zenon DEF Replay
<1>2. tab[t] \in TabStates /\ TabOK(tab[t])
  BY DEF DownloadTypeOK
<1>3. server' \in [epoch : 1 .. MaxEpoch, block : Nat, bundle : Named]
  BY <1>1 DEF DownloadTypeOK
<1>4. PICK i : i = Len(tab[t].dest) \div ChunkLen + 1
  OBVIOUS
<1>5. PICK chunk : chunk = stored[tab[t].epoch].chunks[i]
  OBVIOUS
<1>6. PICK d : d = tab[t].dest \o chunk
  OBVIOUS
<1>7. \/ Step(t, "asking") /\ UNCHANGED stored
      \/ ~(i > tab[t].next) /\ tab' = [tab EXCEPT ![t].dest = d] /\ UNCHANGED stored
      \/ /\ tab' = [tab EXCEPT ![t].pc = "asking", ![t].dest = <<>>,
                               ![t].etag = NoBundle, ![t].next = 0]
         /\ stored' = Evicted(tab[t].epoch)
  BY Zenon, <1>4, <1>5, <1>6 DEF Replay
<1>8. CASE Step(t, "asking") /\ UNCHANGED stored
  <2>1. PICK r \in TabStates : r = [tab[t] EXCEPT !.pc = "asking"] /\ tab' = [tab EXCEPT ![t] = r]
    BY <1>8, StageStepped DEF Stages
  <2>2. TabOK(r)
    BY <1>1, <1>2, <2>1 DEF TabOK, TabStates
  <2> QED  BY <1>1, <1>8, <2>1, <2>2, OnlyTabStepped
<1>9. CASE ~(i > tab[t].next) /\ tab' = [tab EXCEPT ![t].dest = d] /\ UNCHANGED stored
  <2>1. i \in 1 .. NumChunks
    <3>1. PICK k \in Nat : k = Len(tab[t].dest) /\ tab[t].next \in Nat /\ tab[t].next <= NumChunks
      BY <1>1, <1>2 DEF TabOK, TabStates, Pieces
    <3>2. k \div ChunkLen \in Nat
      BY DownloadAssumption, DivMonotonic
    <3>3. PICK q \in Nat : q = k \div ChunkLen
      BY <3>2
    <3>4. i = q + 1
      BY <1>4, <3>1, <3>3
    <3>5. ~(i > tab[t].next)
      BY <1>9
    <3> QED  BY <3>1, <3>4, <3>5, ChunkCount
  <2>2. d \in Pieces
    <3>1. stored[tab[t].epoch] \in Entries
      BY <1>1, EntryTyped
    <3>2. chunk \in Pieces
      BY <1>5, <2>1, <3>1 DEF Entries
    <3>3. tab[t].dest \in Pieces
      BY <1>2 DEF TabStates
    <3> QED  BY <1>6, <3>2, <3>3 DEF Pieces
  <2>3. PICK r : r = [tab[t] EXCEPT !.dest = d]
    OBVIOUS
  <2>4. r \in TabStates
    BY <1>2, <2>2, <2>3 DEF TabStates
  <2>5. r.pc = "replaying" /\ r.epoch = tab[t].epoch /\ r.next = tab[t].next
    BY <1>1, <1>2, <2>3 DEF TabStates
  <2>6. TabOK(r)
    BY <1>1, <1>2, <2>5 DEF TabOK
  <2>7. tab' = [tab EXCEPT ![t] = r]
    BY <1>9, <2>3
  <2> QED  BY <1>1, <1>9, <2>4, <2>6, <2>7, OnlyTabStepped
<1>10. CASE /\ tab' = [tab EXCEPT ![t].pc = "asking", ![t].dest = <<>>,
                                  ![t].etag = NoBundle, ![t].next = 0]
            /\ stored' = Evicted(tab[t].epoch)
  <2>1. PICK none : none = <<>>
    OBVIOUS
  <2>2. PICK r : r = [tab[t] EXCEPT !.pc = "asking", !.dest = none, !.etag = NoBundle, !.next = 0]
    OBVIOUS
  <2>3. none \in Pieces /\ NoBundle \in Named
    BY <2>1 DEF Pieces, Named
  <2>4. r \in TabStates
    BY <1>2, <2>2, <2>3 DEF TabStates, Stages
  <2>5. TabOK(r)
    BY <1>1, <1>2, <2>2 DEF TabOK, TabStates
  <2>6. tab' = [tab EXCEPT ![t] = r]
    BY <1>10, <2>1, <2>2
  <2> QED  BY <1>3, <1>10, <2>4, <2>5, <2>6, EvictedTyped, TabStepped
<1> QED  BY <1>7, <1>8, <1>9, <1>10

(* Wiping leaves the database empty or as it is.                           *)
LEMMA WipeTyped ==
    ASSUME DownloadTypeOK, Wipe
    PROVE  stored' \in [1 .. MaxEpoch -> Entries]
<1>1. CASE stored' = [e \in DOMAIN stored |-> NoEntry]
  BY <1>1, EmptyTyped DEF DownloadTypeOK
<1>2. CASE UNCHANGED stored
  BY <1>2 DEF DownloadTypeOK
<1> QED  BY <1>1, <1>2 DEF Wipe

(* A chunk put into an entry, if that has a place for it, and a meta       *)
(* record, leave it an entry.                                              *)
LEMMA ChunkPut ==
    ASSUME DownloadTypeOK, NEW e, NEW n, NEW c \in Pieces,
           stored' = [stored EXCEPT ![e].chunks[n] = c]
    PROVE  stored' \in [1 .. MaxEpoch -> Entries]
<1>1. PICK x : x = [stored[e] EXCEPT !.chunks[n] = c]
  OBVIOUS
<1>2. stored' = [stored EXCEPT ![e] = x]
  BY <1>1
<1>3. CASE e \in 1 .. MaxEpoch
  <2>1. stored[e] \in Entries
    BY <1>3 DEF DownloadTypeOK
  <2>2. [stored[e].chunks EXCEPT ![n] = c] \in [1 .. NumChunks -> Pieces]
    BY <2>1 DEF Entries
  <2>3. x = [stored[e] EXCEPT !.chunks = [stored[e].chunks EXCEPT ![n] = c]]
    BY <1>1
  <2>4. x \in Entries
    BY <2>1, <2>2, <2>3 DEF Entries
  <2> QED  BY <1>2, <2>4 DEF DownloadTypeOK
<1>4. CASE e \notin 1 .. MaxEpoch
  BY <1>2, <1>4 DEF DownloadTypeOK
<1> QED  BY <1>3, <1>4

(* A meta record put into an entry leaves it an entry.                     *)
LEMMA MetaPut ==
    ASSUME DownloadTypeOK, NEW e, NEW m \in Metas, stored' = [stored EXCEPT ![e].meta = m]
    PROVE  stored' \in [1 .. MaxEpoch -> Entries]
<1>1. PICK x : x = [stored[e] EXCEPT !.meta = m]
  OBVIOUS
<1>2. stored' = [stored EXCEPT ![e] = x]
  BY <1>1
<1>3. CASE e \in 1 .. MaxEpoch
  <2>1. x \in Entries
    BY <1>1, <1>3 DEF DownloadTypeOK, Entries
  <2> QED  BY <1>2, <2>1 DEF DownloadTypeOK
<1>4. CASE e \notin 1 .. MaxEpoch
  BY <1>2, <1>4 DEF DownloadTypeOK
<1> QED  BY <1>3, <1>4

(* An answer to /setup names a bundle, and the tab reads its body.         *)
LEMMA AskType == ASSUME DownloadTypeOK, NEW t \in Tabs, Ask(t) PROVE DownloadTypeOK'
<1>1. tab[t].pc = "asking" /\ server' = [server EXCEPT !.bundle = SetupBytes]
  BY Zenon DEF Ask
<1>2. tab[t] \in TabStates /\ TabOK(tab[t])
  BY DEF DownloadTypeOK
<1>3. PICK b \in Bundles : b = SetupBytes
  BY SetupBytesTyped
<1>4. server' \in [epoch : 1 .. MaxEpoch, block : Nat, bundle : Named]
  <2>1. b \in Named
    BY <1>3 DEF Named
  <2> QED  BY <1>1, <1>3, <2>1 DEF DownloadTypeOK
<1>5. PICK m \in BOOLEAN : m = Complete(b.epoch)
  BY DEF Complete
<1>6. PICK none \in Pieces : none = <<>>
  <2>1. <<>> \in Pieces
    BY DEF Pieces
  <2> QED  BY <2>1
<1>7. \/ /\ \E pc \in {"receiving", "failed"} :
               tab' = [tab EXCEPT ![t].pc = pc, ![t].etag = b, ![t].body = b, ![t].mode = m]
         /\ UNCHANGED stored
      \/ /\ tab' = [tab EXCEPT ![t].pc = "receiving", ![t].dest = none, ![t].next = 0,
                               ![t].etag = b, ![t].body = b, ![t].mode = m]
         /\ Wipe
  BY <1>3, <1>5, <1>6 DEF Ask, AnsweredInFull
<1>8. b \in Named
  BY <1>3 DEF Named
<1>9. ASSUME NEW pc \in {"receiving", "failed"}, UNCHANGED stored,
             tab' = [tab EXCEPT ![t].pc = pc, ![t].etag = b, ![t].body = b, ![t].mode = m]
      PROVE  DownloadTypeOK'
  <2>1. PICK r : r = [tab[t] EXCEPT !.pc = pc, !.etag = b, !.body = b, !.mode = m]
    OBVIOUS
  <2>2. r \in TabStates
    BY <1>2, <1>8, <2>1 DEF TabStates, Stages
  <2>3. r.pc = pc /\ r.epoch = tab[t].epoch /\ r.body = b
    BY <1>2, <2>1 DEF TabStates
  <2>4. TabOK(r)
    BY <1>1, <1>2, <1>3, <2>3 DEF TabOK
  <2>5. tab' = [tab EXCEPT ![t] = r]
    BY <1>9, <2>1
  <2>6. stored' \in [1 .. MaxEpoch -> Entries]
    BY <1>9 DEF DownloadTypeOK
  <2> QED  BY <1>4, <2>2, <2>4, <2>5, <2>6, TabStepped
<1>10. CASE /\ tab' = [tab EXCEPT ![t].pc = "receiving", ![t].dest = none, ![t].next = 0,
                                  ![t].etag = b, ![t].body = b, ![t].mode = m]
            /\ Wipe
  <2>1. PICK r : r = [tab[t] EXCEPT !.pc = "receiving", !.dest = none, !.next = 0,
                                    !.etag = b, !.body = b, !.mode = m]
    OBVIOUS
  <2>2. r \in TabStates
    BY <1>2, <1>6, <1>8, <2>1 DEF TabStates, Stages
  <2>3. r.pc = "receiving" /\ r.epoch = tab[t].epoch /\ r.body = b
    BY <1>2, <2>1 DEF TabStates
  <2>4. TabOK(r)
    BY <1>1, <1>2, <1>3, <2>3 DEF TabOK
  <2>5. tab' = [tab EXCEPT ![t] = r]
    BY <1>10, <2>1
  <2> QED  BY <1>4, <1>10, <2>2, <2>4, <2>5, WipeTyped, TabStepped
<1> QED  BY <1>7, <1>9, <1>10

(* A body never grows beyond the length of a bundle.                       *)
LEMMA ReceiveType == ASSUME DownloadTypeOK, NEW t \in Tabs, Receive(t) PROVE DownloadTypeOK'
<1>1. tab[t].pc = "receiving" /\ Len(tab[t].dest) < Total /\ UNCHANGED <<server, stored>>
  BY DEF Receive
<1>2. tab[t] \in TabStates /\ TabOK(tab[t])
  BY DEF DownloadTypeOK
<1>3. PICK d : d = Append(tab[t].dest, tab[t].body)
  OBVIOUS
<1>4. tab[t].body \in Bundles /\ tab[t].dest \in Seq(Bundles) /\ tab[t].next \in Nat
  BY <1>1, <1>2 DEF TabOK, TabStates, Pieces
<1>5. d \in Pieces /\ Len(d) = Len(tab[t].dest) + 1
  BY <1>3, <1>4 DEF Pieces
<1>6. Len(d) \in Nat /\ Len(d) <= Total
  <2>1. PICK k \in Nat : k = Len(tab[t].dest)
    BY <1>4
  <2>2. k < Total /\ Len(d) = k + 1
    BY <1>1, <1>5, <2>1
  <2> QED  BY <2>1, <2>2, Sizes
<1>7. PICK pc \in {"receiving", "flushing"} :
         /\ tab' = [tab EXCEPT ![t].dest = d, ![t].pc = pc]
         /\ pc = "flushing" => (tab[t].next + 1) * ChunkLen <= Len(d)
  BY <1>3 DEF Receive
<1>8. PICK r : r = [tab[t] EXCEPT !.dest = d, !.pc = pc]
  OBVIOUS
<1>9. r \in TabStates
  BY <1>2, <1>5, <1>8 DEF TabStates, Stages
<1>10. /\ r.pc = pc /\ r.epoch = tab[t].epoch /\ r.body = tab[t].body
       /\ r.dest = d /\ r.next = tab[t].next
  BY <1>2, <1>8 DEF TabStates
<1>11. TabOK(r)
  <2>1. r.pc = "flushing" => (r.next + 1) * ChunkLen <= Len(r.dest)
    BY <1>7, <1>10
  <2>2. Len(r.dest) <= Total /\ r.body \in Bundles
    BY <1>4, <1>6, <1>10
  <2>3. r.epoch # 0
    BY <1>1, <1>2, <1>10 DEF TabOK
  <2> QED  BY <1>7, <1>10, <2>1, <2>2, <2>3 DEF TabOK
<1>12. tab' = [tab EXCEPT ![t] = r]
  BY <1>7, <1>8
<1> QED  BY <1>1, <1>9, <1>11, <1>12, OnlyTabStepped

(* A chunk is cut out of what has arrived.                                 *)
LEMMA FlushType == ASSUME DownloadTypeOK, NEW t \in Tabs, Flush(t) PROVE DownloadTypeOK'
<1>1. tab[t].pc = "flushing" /\ UNCHANGED server
  BY Zenon DEF Flush
<1>2. tab[t] \in TabStates /\ TabOK(tab[t])
  BY DEF DownloadTypeOK
<1>3. server' \in [epoch : 1 .. MaxEpoch, block : Nat, bundle : Named]
  BY <1>1 DEF DownloadTypeOK
<1>4. PICK n \in Nat : n = tab[t].next + 1
  BY <1>2 DEF TabStates
<1>5. PICK e : e = tab[t].epoch
  OBVIOUS
<1>6. PICK c : c = SubSeq(tab[t].dest, tab[t].next * ChunkLen + 1, tab[t].next * ChunkLen + ChunkLen)
  OBVIOUS
<1>7. /\ tab[t].next \in Nat /\ tab[t].dest \in Seq(Bundles)
      /\ n * ChunkLen <= Len(tab[t].dest) /\ Len(tab[t].dest) <= Total /\ e # 0
  BY <1>1, <1>2, <1>4, <1>5 DEF TabOK, TabStates, Pieces
<1>8. ChunkLen \in Nat
  BY DownloadAssumption
<1>9. \/ /\ stored' = [stored EXCEPT ![e].chunks[n] = c]
         /\ tab' = [tab EXCEPT ![t].pc = "noting", ![t].next = n]
      \/ Step(t, "receiving") /\ UNCHANGED stored
  BY <1>4, <1>5, <1>6 DEF Flush
<1>10. CASE /\ stored' = [stored EXCEPT ![e].chunks[n] = c]
            /\ tab' = [tab EXCEPT ![t].pc = "noting", ![t].next = n]
  <2>1. c \in Pieces
    <3>1. PICK w \in Nat : w = tab[t].next * ChunkLen
      BY <1>7, <1>8, OneMore
    <3>2. PICK k \in Nat : k = n * ChunkLen
      BY <1>8, OneMore
    <3>3. (tab[t].next + 1) * ChunkLen = w + ChunkLen
      BY <1>7, <1>8, <3>1, OneMore
    <3>4. k <= Len(tab[t].dest) /\ k = w + ChunkLen
      BY <1>4, <1>7, <3>2, <3>3
    <3>5. SubSeq(tab[t].dest, w + 1, k) \in Seq(Bundles)
      BY <1>7, <3>4, CutOut
    <3> QED  BY <1>6, <3>1, <3>4, <3>5 DEF Pieces
  <2>2. stored' \in [1 .. MaxEpoch -> Entries]
    BY <1>10, <2>1, ChunkPut
  <2>3. PICK r : r = [tab[t] EXCEPT !.pc = "noting", !.next = n]
    OBVIOUS
  <2>4. r \in TabStates
    BY <1>2, <2>3 DEF TabStates, Stages
  <2>5. r.pc = "noting" /\ r.epoch = e /\ r.body = tab[t].body /\ r.next = n /\ r.dest = tab[t].dest
    BY <1>2, <1>5, <2>3 DEF TabStates
  <2>6. TabOK(r)
    BY <1>1, <1>2, <1>7, <2>5 DEF TabOK
  <2>7. tab' = [tab EXCEPT ![t] = r]
    BY <1>10, <2>3
  <2> QED  BY <1>3, <2>2, <2>4, <2>6, <2>7, TabStepped
<1>11. CASE Step(t, "receiving") /\ UNCHANGED stored
  <2>1. PICK r \in TabStates : r = [tab[t] EXCEPT !.pc = "receiving"] /\ tab' = [tab EXCEPT ![t] = r]
    BY <1>11, StageStepped DEF Stages
  <2>2. r.pc = "receiving" /\ r.epoch = tab[t].epoch /\ r.body = tab[t].body
    BY <1>2, <2>1 DEF TabStates
  <2>3. TabOK(r)
    BY <1>1, <1>2, <2>2 DEF TabOK
  <2> QED  BY <1>1, <1>11, <2>1, <2>3, OnlyTabStepped
<1> QED  BY <1>9, <1>10, <1>11

(* The meta record counts no more pieces than a bundle has.                *)
LEMMA NoteType == ASSUME DownloadTypeOK, NEW t \in Tabs, Note(t) PROVE DownloadTypeOK'
<1>1. tab[t].pc = "noting" /\ UNCHANGED server
  BY Zenon DEF Note
<1>2. tab[t] \in TabStates /\ TabOK(tab[t])
  BY DEF DownloadTypeOK
<1>3. server' \in [epoch : 1 .. MaxEpoch, block : Nat, bundle : Named]
  BY <1>1 DEF DownloadTypeOK
<1>4. stored' = [stored EXCEPT ![tab[t].epoch].meta = Noted(tab[t], FALSE)] \/ UNCHANGED stored
  BY Zenon DEF Note
<1>5. PICK w \in 0 .. Total : w = tab[t].next * ChunkLen
  <2>1. /\ tab[t].next \in Nat /\ tab[t].next * ChunkLen <= Len(tab[t].dest)
        /\ Len(tab[t].dest) \in Nat /\ Len(tab[t].dest) <= Total
    BY <1>1, <1>2 DEF TabOK, TabStates, Pieces
  <2>2. ChunkLen \in Nat /\ Total \in Nat
    BY DownloadAssumption
  <2>3. PICK w \in Nat : w = tab[t].next * ChunkLen
    BY <2>1, <2>2, OneMore
  <2>4. w <= Len(tab[t].dest)
    BY <2>1, <2>3
  <2>5. w \in 0 .. Total
    BY <2>1, <2>2, <2>4
  <2> QED  BY <2>3, <2>5
<1>6. stored' \in [1 .. MaxEpoch -> Entries]
  <2>1. Noted(tab[t], FALSE) \in Metas
    BY <1>2, <1>5 DEF Noted, Metas, TabStates
  <2> QED  BY <1>4, <2>1, MetaPut DEF DownloadTypeOK
<1>7. PICK pc \in {"receiving", "flushing"} :
         /\ Step(t, pc)
         /\ pc = "flushing" => (tab[t].next + 1) * ChunkLen <= Len(tab[t].dest)
  BY DEF Note, Step
<1>8. PICK r \in TabStates : r = [tab[t] EXCEPT !.pc = pc] /\ tab' = [tab EXCEPT ![t] = r]
  BY <1>7, StageStepped DEF Stages
<1>9. /\ r.pc = pc /\ r.epoch = tab[t].epoch /\ r.body = tab[t].body
      /\ r.dest = tab[t].dest /\ r.next = tab[t].next
  BY <1>2, <1>8 DEF TabStates
<1>10. TabOK(r)
  BY <1>1, <1>2, <1>7, <1>9 DEF TabOK
<1> QED  BY <1>3, <1>6, <1>8, <1>10, TabStepped

(* The rest, and the tab that has it, are of full length.                  *)
LEMMA FinishType == ASSUME DownloadTypeOK, NEW t \in Tabs, Finish(t) PROVE DownloadTypeOK'
<1>1. tab[t].pc = "receiving" /\ Len(tab[t].dest) = Total /\ Step(t, "sealing") /\ UNCHANGED server
  BY Zenon DEF Finish
<1>2. tab[t] \in TabStates /\ TabOK(tab[t])
  BY DEF DownloadTypeOK
<1>3. server' \in [epoch : 1 .. MaxEpoch, block : Nat, bundle : Named]
  BY <1>1 DEF DownloadTypeOK
<1>4. PICK c : c = SubSeq(tab[t].dest, tab[t].next * ChunkLen + 1, Total)
  OBVIOUS
<1>5. \/ UNCHANGED stored
      \/ stored' = [stored EXCEPT ![tab[t].epoch].chunks[tab[t].next + 1] = c]
  BY Zenon, <1>4 DEF Finish
<1>6. c \in Pieces
  <2>1. tab[t].next \in Nat /\ tab[t].dest \in Seq(Bundles) /\ ChunkLen \in Nat /\ Total \in Nat
    BY <1>2, DownloadAssumption DEF TabStates, Pieces
  <2>2. PICK w \in Nat : w = tab[t].next * ChunkLen
    BY <2>1, OneMore
  <2>3. SubSeq(tab[t].dest, w + 1, Total) \in Seq(Bundles)
    BY <1>1, <2>1, CutOut
  <2> QED  BY <1>4, <2>2, <2>3 DEF Pieces
<1>7. stored' \in [1 .. MaxEpoch -> Entries]
  <2>1. PICK n : n = tab[t].next + 1
    OBVIOUS
  <2>2. UNCHANGED stored \/ stored' = [stored EXCEPT ![tab[t].epoch].chunks[n] = c]
    BY <1>5, <2>1
  <2> QED  BY <1>6, <2>2, ChunkPut DEF DownloadTypeOK
<1>8. PICK r \in TabStates : r = [tab[t] EXCEPT !.pc = "sealing"] /\ tab' = [tab EXCEPT ![t] = r]
  BY <1>1, StageStepped DEF Stages
<1>9. r.pc = "sealing" /\ r.epoch = tab[t].epoch /\ r.dest = tab[t].dest
  BY <1>2, <1>8 DEF TabStates
<1>10. TabOK(r)
  BY <1>1, <1>2, <1>9 DEF TabOK
<1> QED  BY <1>3, <1>7, <1>8, <1>10, TabStepped

(* A sealed entry counts the whole length.                                 *)
LEMMA SealType == ASSUME DownloadTypeOK, NEW t \in Tabs, Seal(t) PROVE DownloadTypeOK'
<1>1. tab[t].pc = "sealing" /\ Step(t, "starting") /\ UNCHANGED server
  BY Zenon DEF Seal
<1>2. tab[t] \in TabStates /\ TabOK(tab[t])
  BY DEF DownloadTypeOK
<1>3. server' \in [epoch : 1 .. MaxEpoch, block : Nat, bundle : Named]
  BY <1>1 DEF DownloadTypeOK
<1>4. stored' = [stored EXCEPT ![tab[t].epoch].meta = Noted(tab[t], TRUE)] \/ UNCHANGED stored
  BY Zenon DEF Seal
<1>5. stored' \in [1 .. MaxEpoch -> Entries]
  <2>1. Noted(tab[t], TRUE) \in Metas
    BY <1>2, DownloadAssumption DEF Noted, Metas, TabStates
  <2> QED  BY <1>4, <2>1, MetaPut DEF DownloadTypeOK
<1>6. PICK r \in TabStates : r = [tab[t] EXCEPT !.pc = "starting"] /\ tab' = [tab EXCEPT ![t] = r]
  BY <1>1, StageStepped DEF Stages
<1>7. r.pc = "starting" /\ r.epoch = tab[t].epoch /\ r.dest = tab[t].dest
  BY <1>2, <1>6 DEF TabStates
<1>8. TabOK(r)
  BY <1>1, <1>2, <1>7 DEF TabOK
<1> QED  BY <1>3, <1>5, <1>6, <1>8, TabStepped

(* A tab that starts, or refuses to, has a whole bundle in hand.           *)
LEMMA StartType == ASSUME DownloadTypeOK, NEW t \in Tabs, Start(t) PROVE DownloadTypeOK'
<1>1. PICK pc \in {"failed", "loaded"} :
         /\ Step(t, pc)
         /\ stored' = Evicted(tab[t].epoch) \/ UNCHANGED stored
  BY DEF Start
<1>2. tab[t].pc = "starting" /\ UNCHANGED server
  BY DEF Start
<1>3. tab[t] \in TabStates /\ TabOK(tab[t])
  BY DEF DownloadTypeOK
<1>4. /\ server' \in [epoch : 1 .. MaxEpoch, block : Nat, bundle : Named]
      /\ stored' \in [1 .. MaxEpoch -> Entries]
  BY <1>1, <1>2, EvictedTyped DEF DownloadTypeOK
<1>5. PICK r \in TabStates : r = [tab[t] EXCEPT !.pc = pc] /\ tab' = [tab EXCEPT ![t] = r]
  BY <1>1, StageStepped DEF Stages
<1>6. r.pc = pc /\ r.epoch = tab[t].epoch /\ r.dest = tab[t].dest
  BY <1>3, <1>5 DEF TabStates
<1>7. TabOK(r)
  BY <1>2, <1>3, <1>6 DEF TabOK
<1> QED  BY <1>4, <1>5, <1>7, TabStepped

(* A stalled or broken download asks again, or fails.                      *)
LEMMA StallType ==
    ASSUME DownloadTypeOK, NEW t \in Tabs, Stall(t) \/ Break(t)
    PROVE  DownloadTypeOK'
<1>1. /\ tab[t].pc \in {"probing", "asking", "receiving"} /\ UNCHANGED <<server, stored>>
      /\ \/ Step(t, "failed")
         \/ /\ tab[t].pc # "probing"
            /\ tab' = [tab EXCEPT ![t].pc = "asking", ![t].tries = @ + 1]
  BY DEF Stall, Break
<1>2. tab[t] \in TabStates /\ TabOK(tab[t])
  BY DEF DownloadTypeOK
<1>3. CASE Step(t, "failed")
  <2>1. PICK r \in TabStates : r = [tab[t] EXCEPT !.pc = "failed"] /\ tab' = [tab EXCEPT ![t] = r]
    BY <1>3, StageStepped DEF Stages
  <2>2. r.pc = "failed"
    BY <1>2, <2>1 DEF TabStates
  <2>3. TabOK(r)
    BY <2>2 DEF TabOK
  <2> QED  BY <1>1, <2>1, <2>3, OnlyTabStepped
<1>4. CASE /\ tab[t].pc # "probing"
           /\ tab' = [tab EXCEPT ![t].pc = "asking", ![t].tries = @ + 1]
  <2>1. PICK k \in Nat : k = tab[t].tries + 1
    BY <1>2 DEF TabStates
  <2>2. PICK r : r = [tab[t] EXCEPT !.pc = "asking", !.tries = k]
    OBVIOUS
  <2>3. r \in TabStates
    BY <1>2, <2>2 DEF TabStates, Stages
  <2>4. r.pc = "asking" /\ r.epoch = tab[t].epoch
    BY <1>2, <2>2 DEF TabStates
  <2>5. TabOK(r)
    BY <1>1, <1>2, <1>4, <2>4 DEF TabOK
  <2>6. tab' = [tab EXCEPT ![t] = r]
    BY <1>4, <2>1, <2>2
  <2> QED  BY <1>1, <2>3, <2>5, <2>6, OnlyTabStepped
<1> QED  BY <1>1, <1>3, <1>4

(* A tab that is closed, or loaded anew, starts from nothing.              *)
LEMMA ClosedType ==
    ASSUME DownloadTypeOK, NEW t \in Tabs, tab' = [tab EXCEPT ![t] = Closed],
           UNCHANGED <<server, stored>>
    PROVE  DownloadTypeOK'
BY EmptyTyped, OnlyTabStepped

(* The first state of a download.                                          *)
LEMMA DownloadInitType == DownloadInit => DownloadTypeOK
<1> SUFFICES ASSUME DownloadInit PROVE DownloadTypeOK
  OBVIOUS
<1>1. server \in [epoch : 1 .. MaxEpoch, block : Nat, bundle : Named]
  BY Sizes DEF DownloadInit, Named
<1>2. stored \in [1 .. MaxEpoch -> Entries]
  BY EmptyTyped DEF DownloadInit
<1>3. tab \in [Tabs -> TabStates] /\ \A t \in Tabs : TabOK(tab[t])
  BY EmptyTyped DEF DownloadInit
<1> QED  BY <1>1, <1>2, <1>3 DEF DownloadTypeOK

(* A step of a tab's load leaves the types as they are.                    *)
LEMMA LoadsType == ASSUME DownloadTypeOK, NEW t \in Tabs, Loads(t) PROVE DownloadTypeOK'
BY OpenType, ProbeType, DecideType, ResumeType, ReadCachedType, ReplayType, AskType,
   ReceiveType, FlushType, NoteType, FinishType, SealType DEF Loads

(* A lookup touches the database only, and only when it is refused.        *)
LEMMA LookupDownloads ==
    ASSUME NEW t \in Tabs, NEW l \in Lookups, Submit(t, l) \/ Lookup(t, l)
    PROVE  /\ UNCHANGED <<server, tab>>
           /\ UNCHANGED stored \/ stored' = Evicted(SessionEpoch(t))
BY DEF Submit, Lookup, FindHead, Sync, Answer, Accept, Resync, GiveUp, Stale, downloadVars

(* The server's steps.                                                     *)
LEMMA ServerType == ASSUME DownloadTypeOK, Block \/ Rebootstrap PROVE DownloadTypeOK'
<1>1. UNCHANGED <<stored, tab>>
  BY DEF Block, Rebootstrap
<1>2. server' \in [epoch : 1 .. MaxEpoch, block : Nat, bundle : Named]
  <2>1. CASE Block
    <3>1. PICK b \in Nat : b = server.block + 1
      BY DEF DownloadTypeOK
    <3>2. server' = [server EXCEPT !.block = b]
      BY <2>1, <3>1 DEF Block
    <3> QED  BY <3>2 DEF DownloadTypeOK
  <2>2. CASE Rebootstrap
    <3>1. PICK e \in 1 .. MaxEpoch : e = server.epoch + 1
      BY <2>2, Sizes DEF DownloadTypeOK, Rebootstrap
    <3>2. server' = [server EXCEPT !.epoch = e, !.bundle = NoBundle]
      BY <2>2, <3>1 DEF Rebootstrap
    <3> QED  BY <3>2 DEF DownloadTypeOK, Named
  <2> QED  BY <2>1, <2>2
<1>3. stored' \in [1 .. MaxEpoch -> Entries] /\ tab' \in [Tabs -> TabStates]
  BY <1>1 DEF DownloadTypeOK
<1>4. \A t \in Tabs : TabOK(tab'[t])
  BY <1>1 DEF DownloadTypeOK
<1> QED  BY <1>2, <1>3, <1>4 DEF DownloadTypeOK

(* Every step of page and server leaves the types as they are.             *)
LEMMA DownloadNextType == ASSUME DownloadTypeOK, BrowserNext PROVE DownloadTypeOK'
<1>1. CASE Block \/ Rebootstrap
  BY <1>1, ServerType
<1>2. ASSUME NEW t \in Tabs,
             \/ Loading(t) \/ FromBundle(t) \/ Leave(t) \/ Reloading(t) \/ Stall(t) \/ Break(t)
      PROVE  DownloadTypeOK'
  <2>1. CASE Loading(t)
    BY <2>1, LoadsType DEF Loading
  <2>2. CASE FromBundle(t)
    BY <2>2, StartType DEF FromBundle
  <2>3. CASE Leave(t) \/ Reloading(t)
    <3>1. tab' = [tab EXCEPT ![t] = Closed] /\ UNCHANGED <<server, stored>>
      BY <2>3 DEF Leave, Reloading, Close, Reload
    <3> QED  BY <3>1, ClosedType
  <2>4. CASE Stall(t) \/ Break(t)
    BY <2>4, StallType
  <2> QED  BY <1>2, <2>1, <2>2, <2>3, <2>4
<1>3. ASSUME NEW t \in Tabs, NEW l \in Lookups, Submit(t, l) \/ Lookup(t, l)
      PROVE  DownloadTypeOK'
  <2>1. stored' \in [1 .. MaxEpoch -> Entries]
    <3>1. CASE UNCHANGED stored
      BY <3>1 DEF DownloadTypeOK
    <3>2. CASE stored' = Evicted(SessionEpoch(t))
      BY <3>2, EvictedTyped
    <3> QED  BY <1>3, <3>1, <3>2, LookupDownloads
  <2>2. UNCHANGED <<server, tab>>
    BY <1>3, LookupDownloads
  <2> QED  BY <2>1, <2>2 DEF DownloadTypeOK
<1> QED  BY <1>1, <1>2, <1>3 DEF BrowserNext

-----------------------------------------------------------------------------
(* The session.                                                            *)

Deltas   == [1 .. MaxBlock -> Nat]
Sessions == [head : Nat, added : Deltas, foreign : BOOLEAN, inFlight : Lookups \cup {Nobody}]

LookupStages == {"idle", "head", "sync", "answer", "answered", "resync"}
Outcomes     == {"none", "stale", "refused", "error", "timeout", "right"}
LookupStates ==
    [pc : LookupStages, to : Nat, from : Nat, at : Nat, by : Nat, outcome : Outcomes]

(* Each block up to the session's head, from the bundle's on, is in once.  *)
DeltaOK(t, s) ==
    /\ ~s.foreign /\ Pinned(t) <= s.head
    /\ \A b \in 1 .. MaxBlock : s.added[b] = IF Pinned(t) < b /\ b <= s.head THEN 1 ELSE 0

(* What a lookup has read of the session, and what the server told it.     *)
LookupOK(t, l, k, s) ==
    /\ k.pc \in {"sync", "resync"} => k.from = s.head
    /\ k.pc \in {"answer", "answered", "resync"} => s.inFlight = l
    /\ k.pc \in {"answered", "resync"} => k.by = SessionEpoch(t)

(* One lookup runs at a time, in a tab that is loaded.                     *)
TabSessionOK(t) ==
    /\ tab[t].pc # "loaded" => \A l \in Lookups : ~Running(t, l)
    /\ tab[t].pc = "loaded" =>
          /\ DeltaOK(t, session[t])
          /\ \A l \in Lookups : LookupOK(t, l, lookup[t][l], session[t])
    /\ \A k, l \in Lookups : Running(t, k) /\ Running(t, l) => k = l

SessionTypeOK ==
    /\ session \in [Tabs -> Sessions]
    /\ lookup \in [Tabs -> [Lookups -> LookupStates]]

SessionInv ==
    /\ DownloadTypeOK /\ SessionTypeOK
    /\ \A t \in Tabs : TabSessionOK(t)

(* No lookup's outcome is garbage where the invariant holds.               *)
LEMMA SessionInvImplies == SessionInv => NeverMisdecoded
<1> SUFFICES ASSUME SessionInv, NEW t \in Tabs, NEW l \in Lookups
             PROVE  lookup[t][l].outcome # "garbage"
  BY DEF NeverMisdecoded
<1>1. lookup[t][l] \in LookupStates
  BY DEF SessionInv, SessionTypeOK
<1> QED  BY <1>1 DEF LookupStates, Outcomes

(* A session before its first block, and a lookup before its first step.   *)
LEMMA NothingTyped == NoSession \in Sessions /\ Idle \in LookupStates
<1>1. [b \in 1 .. MaxBlock |-> 0] \in Deltas
  BY DEF Deltas
<1>2. NoSession \in Sessions
  BY <1>1 DEF NoSession, Sessions, Nobody
<1>3. Idle \in LookupStates
  BY DEF Idle, LookupStates, LookupStages, Outcomes
<1> QED  BY <1>2, <1>3

(* Where a loaded tab's bundle was cut from.                               *)
LEMMA PinnedTyped ==
    ASSUME DownloadTypeOK, NEW t \in Tabs, tab[t].pc \in {"starting", "loaded"}
    PROVE  Pinned(t) \in Nat /\ SessionEpoch(t) \in 1 .. MaxEpoch
<1>1. tab[t].dest \in Seq(Bundles) /\ Len(tab[t].dest) = Total
  BY DEF DownloadTypeOK, TabOK, TabStates, Pieces
<1>2. tab[t].dest[1] \in Bundles
  <2>1. 1 \in 1 .. Len(tab[t].dest)
    BY <1>1, Sizes
  <2> QED  BY <1>1, <2>1
<1> QED  BY <1>2 DEF Pinned, SessionEpoch, Bundles

(* A closed tab runs no lookup.                                            *)
LEMMA SessionInit == BrowserInit => SessionInv
<1> SUFFICES ASSUME BrowserInit PROVE SessionInv
  OBVIOUS
<1>1. DownloadTypeOK
  BY DownloadInitType DEF BrowserInit
<1>2. SessionTypeOK
  BY NothingTyped DEF BrowserInit, SessionTypeOK
<1>3. ASSUME NEW t \in Tabs PROVE TabSessionOK(t)
  <2>1. tab[t].pc = "closed"
    BY <1>3 DEF BrowserInit, DownloadInit, Closed
  <2>2. \A l \in Lookups : ~Running(t, l)
    BY <1>3 DEF BrowserInit, Running, Idle
  <2> QED  BY <2>1, <2>2 DEF TabSessionOK
<1> QED  BY <1>1, <1>2, <1>3 DEF SessionInv

(* What is asked of a tab depends on its stage, its bundle, its session    *)
(* and its lookups.                                                        *)
LEMMA TabUntouched ==
    ASSUME NEW t \in Tabs, TabSessionOK(t), tab'[t].pc = tab[t].pc, tab'[t].dest = tab[t].dest,
           session'[t] = session[t], lookup'[t] = lookup[t]
    PROVE  TabSessionOK(t)'
BY DEF TabSessionOK, DeltaOK, LookupOK, Running, Pinned, SessionEpoch

(* A step of a load gives one tab another state, not loaded either.        *)
LEMMA TabMoved ==
    ASSUME DownloadTypeOK, NEW t \in Tabs, tab[t].pc # "loaded",
           NEW r, tab' = [tab EXCEPT ![t] = r], r.pc # "loaded"
    PROVE  /\ tab[t].pc # "loaded" /\ tab'[t].pc # "loaded"
           /\ \A u \in Tabs : u # t => tab'[u] = tab[u]
BY DEF DownloadTypeOK

(* No step of a load is taken by a loaded tab, or leaves one loaded.       *)
LEMMA LoadsTab ==
    ASSUME DownloadTypeOK, NEW t \in Tabs, Loads(t) \/ Stall(t) \/ Break(t)
    PROVE  /\ tab[t].pc # "loaded" /\ tab'[t].pc # "loaded"
           /\ \A u \in Tabs : u # t => tab'[u] = tab[u]
<1>1. tab[t] \in TabStates
  BY DEF DownloadTypeOK
<1>2. ASSUME tab[t].pc # "loaded", NEW pc \in Stages \ {"loaded"}, Step(t, pc)
      PROVE  /\ tab[t].pc # "loaded" /\ tab'[t].pc # "loaded"
             /\ \A u \in Tabs : u # t => tab'[u] = tab[u]
  <2>1. PICK r \in TabStates : r = [tab[t] EXCEPT !.pc = pc] /\ tab' = [tab EXCEPT ![t] = r]
    BY <1>2, StageStepped
  <2>2. r.pc # "loaded"
    BY <1>1, <1>2, <2>1 DEF TabStates
  <2> QED  BY <1>2, <2>1, <2>2, TabMoved
<1>4. CASE Open(t)
  <2>1. tab[t].pc = "closed" /\ Step(t, "probing")
    BY <1>4 DEF Open
  <2> QED  BY <1>2, <2>1 DEF Stages
<1>5. CASE Probe(t)
  <2>1. /\ tab[t].pc = "probing"
        /\ tab' = [tab EXCEPT ![t].pc = "deciding", ![t].epoch = server.epoch]
    BY <1>5 DEF Probe
  <2>2. PICK r : r = [tab[t] EXCEPT !.pc = "deciding", !.epoch = server.epoch]
    OBVIOUS
  <2>3. r.pc = "deciding" /\ tab' = [tab EXCEPT ![t] = r]
    BY <1>1, <2>1, <2>2 DEF TabStates
  <2> QED  BY <2>1, <2>3, TabMoved
<1>6. CASE Decide(t)
  <2>1. PICK pc \in {"reading", "resuming"} : Step(t, pc)
    BY <1>6 DEF Decide
  <2>2. tab[t].pc = "deciding"
    BY <1>6 DEF Decide
  <2> QED  BY <1>2, <2>1, <2>2 DEF Stages
<1>7. CASE Resume(t)
  <2>1. tab[t].pc = "resuming"
    BY <1>7 DEF Resume
  <2>2. CASE Step(t, "asking")
    BY <1>2, <2>1, <2>2 DEF Stages
  <2>3. CASE ~Step(t, "asking")
    <3>1. PICK g, n : tab' = [tab EXCEPT ![t].pc = "replaying", ![t].etag = g, ![t].next = n]
      BY Zenon, <1>7, <2>3 DEF Resume
    <3>2. PICK r : r = [tab[t] EXCEPT !.pc = "replaying", !.etag = g, !.next = n]
      OBVIOUS
    <3>3. r.pc = "replaying" /\ tab' = [tab EXCEPT ![t] = r]
      BY <1>1, <3>1, <3>2 DEF TabStates
    <3> QED  BY <2>1, <3>3, TabMoved
  <2> QED  BY <2>2, <2>3
<1>8. CASE ReadCached(t)
  <2>1. tab[t].pc = "reading"
    BY Zenon, <1>8 DEF ReadCached
  <2>2. PICK d, m :
           \/ tab' = [tab EXCEPT ![t].pc = "resuming", ![t].dest = <<>>, ![t].next = 0]
           \/ tab' = [tab EXCEPT ![t].pc = "starting", ![t].dest = d, ![t].cached = TRUE, ![t].mode = m]
           \/ tab' = [tab EXCEPT ![t].dest = d, ![t].next = @ + 1]
    BY Zenon, <1>8 DEF ReadCached
  <2>3. CASE tab' = [tab EXCEPT ![t].pc = "resuming", ![t].dest = <<>>, ![t].next = 0]
    <3>1. PICK r : r = [tab[t] EXCEPT !.pc = "resuming", !.dest = <<>>, !.next = 0]
      OBVIOUS
    <3>2. r.pc = "resuming" /\ tab' = [tab EXCEPT ![t] = r]
      BY <1>1, <2>3, <3>1 DEF TabStates
    <3> QED  BY <2>1, <3>2, TabMoved
  <2>4. CASE tab' = [tab EXCEPT ![t].pc = "starting", ![t].dest = d, ![t].cached = TRUE,
                                ![t].mode = m]
    <3>1. PICK r : r = [tab[t] EXCEPT !.pc = "starting", !.dest = d, !.cached = TRUE, !.mode = m]
      OBVIOUS
    <3>2. r.pc = "starting" /\ tab' = [tab EXCEPT ![t] = r]
      BY <1>1, <2>4, <3>1 DEF TabStates
    <3> QED  BY <2>1, <3>2, TabMoved
  <2>5. CASE tab' = [tab EXCEPT ![t].dest = d, ![t].next = @ + 1]
    <3>1. PICK r : r = [tab[t] EXCEPT !.dest = d, !.next = tab[t].next + 1]
      OBVIOUS
    <3>2. r.pc = "reading" /\ tab' = [tab EXCEPT ![t] = r]
      BY <1>1, <2>1, <2>5, <3>1 DEF TabStates
    <3> QED  BY <2>1, <3>2, TabMoved
  <2> QED  BY <2>2, <2>3, <2>4, <2>5
<1>9. CASE Replay(t)
  <2>1. tab[t].pc = "replaying"
    BY Zenon, <1>9 DEF Replay
  <2>2. PICK d :
           \/ Step(t, "asking")
           \/ tab' = [tab EXCEPT ![t].dest = d]
           \/ tab' = [tab EXCEPT ![t].pc = "asking", ![t].dest = <<>>,
                                 ![t].etag = NoBundle, ![t].next = 0]
    BY <1>9 DEF Replay
  <2>3. CASE Step(t, "asking")
    BY <1>2, <2>1, <2>3 DEF Stages
  <2>4. CASE tab' = [tab EXCEPT ![t].dest = d]
    <3>1. PICK r : r = [tab[t] EXCEPT !.dest = d]
      OBVIOUS
    <3>2. r.pc = "replaying" /\ tab' = [tab EXCEPT ![t] = r]
      BY <1>1, <2>1, <2>4, <3>1 DEF TabStates
    <3> QED  BY <2>1, <3>2, TabMoved
  <2>5. CASE tab' = [tab EXCEPT ![t].pc = "asking", ![t].dest = <<>>,
                                ![t].etag = NoBundle, ![t].next = 0]
    <3>1. PICK r : r = [tab[t] EXCEPT !.pc = "asking", !.dest = <<>>, !.etag = NoBundle, !.next = 0]
      OBVIOUS
    <3>2. r.pc = "asking" /\ tab' = [tab EXCEPT ![t] = r]
      BY <1>1, <2>5, <3>1 DEF TabStates
    <3> QED  BY <2>1, <3>2, TabMoved
  <2> QED  BY <2>2, <2>3, <2>4, <2>5
<1>10. CASE Ask(t)
  <2>1. tab[t].pc = "asking"
    BY Zenon, <1>10 DEF Ask
  <2>0. PICK b : b = SetupBytes
    OBVIOUS
  <2>6. PICK m : m = Complete(b.epoch)
    OBVIOUS
  <2>2. \/ \E pc \in {"receiving", "failed"} :
              tab' = [tab EXCEPT ![t].pc = pc, ![t].etag = b, ![t].body = b, ![t].mode = m]
        \/ tab' = [tab EXCEPT ![t].pc = "receiving", ![t].dest = <<>>, ![t].next = 0,
                              ![t].etag = b, ![t].body = b, ![t].mode = m]
    BY <1>10, <2>0, <2>6 DEF Ask, AnsweredInFull
  <2>3. ASSUME NEW pc \in {"receiving", "failed"},
               tab' = [tab EXCEPT ![t].pc = pc, ![t].etag = b, ![t].body = b, ![t].mode = m]
        PROVE  /\ tab[t].pc # "loaded" /\ tab'[t].pc # "loaded"
               /\ \A u \in Tabs : u # t => tab'[u] = tab[u]
    <3>1. PICK r : r = [tab[t] EXCEPT !.pc = pc, !.etag = b, !.body = b, !.mode = m]
      OBVIOUS
    <3>2. r.pc = pc /\ tab' = [tab EXCEPT ![t] = r]
      BY <1>1, <2>3, <3>1 DEF TabStates
    <3> QED  BY <2>1, <2>3, <3>2, TabMoved
  <2>4. CASE tab' = [tab EXCEPT ![t].pc = "receiving", ![t].dest = <<>>, ![t].next = 0,
                                ![t].etag = b, ![t].body = b, ![t].mode = m]
    <3>1. PICK r : r = [tab[t] EXCEPT !.pc = "receiving", !.dest = <<>>, !.next = 0,
                                      !.etag = b, !.body = b, !.mode = m]
      OBVIOUS
    <3>2. r.pc = "receiving" /\ tab' = [tab EXCEPT ![t] = r]
      BY <1>1, <2>4, <3>1 DEF TabStates
    <3> QED  BY <2>1, <3>2, TabMoved
  <2> QED  BY <2>2, <2>3, <2>4
<1>11. CASE Receive(t)
  <2>1. tab[t].pc = "receiving"
    BY <1>11 DEF Receive
  <2>2. PICK d, pc : /\ pc \in {"receiving", "flushing"}
                     /\ tab' = [tab EXCEPT ![t].dest = d, ![t].pc = pc]
    BY <1>11 DEF Receive
  <2>3. PICK r : r = [tab[t] EXCEPT !.dest = d, !.pc = pc]
    OBVIOUS
  <2>4. r.pc = pc /\ tab' = [tab EXCEPT ![t] = r]
    BY <1>1, <2>2, <2>3 DEF TabStates
  <2> QED  BY <2>1, <2>2, <2>4, TabMoved
<1>12. CASE Flush(t)
  <2>1. tab[t].pc = "flushing"
    BY <1>12 DEF Flush
  <2>2. CASE Step(t, "receiving")
    BY <1>2, <2>1, <2>2 DEF Stages
  <2>3. CASE tab' = [tab EXCEPT ![t].pc = "noting", ![t].next = @ + 1]
    <3>1. PICK r : r = [tab[t] EXCEPT !.pc = "noting", !.next = tab[t].next + 1]
      OBVIOUS
    <3>2. r.pc = "noting" /\ tab' = [tab EXCEPT ![t] = r]
      BY <1>1, <2>3, <3>1 DEF TabStates
    <3> QED  BY <2>1, <3>2, TabMoved
  <2> QED  BY <1>12, <2>2, <2>3 DEF Flush
<1>13. CASE Note(t) \/ Finish(t) \/ Seal(t)
  <2>1. tab[t].pc \in {"noting", "receiving", "sealing"}
    BY <1>13 DEF Note, Finish, Seal
  <2>2. PICK pc \in {"receiving", "flushing", "sealing", "starting"} : Step(t, pc)
    BY <1>13 DEF Note, Finish, Seal, Step
  <2> QED  BY <1>2, <2>1, <2>2 DEF Stages
<1>14. CASE Stall(t) \/ Break(t)
  <2>1. tab[t].pc \in {"probing", "asking", "receiving"}
    BY <1>14 DEF Stall, Break
  <2>2. CASE Step(t, "failed")
    BY <1>2, <2>1, <2>2 DEF Stages
  <2>3. CASE tab' = [tab EXCEPT ![t].pc = "asking", ![t].tries = @ + 1]
    <3>1. PICK r : r = [tab[t] EXCEPT !.pc = "asking", !.tries = tab[t].tries + 1]
      OBVIOUS
    <3>2. r.pc = "asking" /\ tab' = [tab EXCEPT ![t] = r]
      BY <1>1, <2>3, <3>1 DEF TabStates
    <3> QED  BY <2>1, <3>2, TabMoved
  <2> QED  BY <1>14, <2>2, <2>3 DEF Stall, Break
<1> QED  BY <1>4, <1>5, <1>6, <1>7, <1>8, <1>9, <1>10, <1>11, <1>12, <1>13, <1>14 DEF Loads

(* Loading a bundle leaves the sessions alone.                             *)
LEMMA LoadingInv ==
    ASSUME SessionInv, NEW t \in Tabs, Loads(t) \/ Stall(t) \/ Break(t),
           UNCHANGED <<session, lookup>>, DownloadTypeOK'
    PROVE  SessionInv'
<1>1. SessionTypeOK'
  BY DEF SessionInv, SessionTypeOK
<1>2. ASSUME NEW u \in Tabs PROVE TabSessionOK(u)'
  <2>1. TabSessionOK(u)
    BY DEF SessionInv
  <2>2. CASE u = t
    <3>1. tab[u].pc # "loaded" /\ tab'[u].pc # "loaded"
      BY <2>2, LoadsTab DEF SessionInv
    <3> QED  BY <2>1, <3>1 DEF TabSessionOK, Running
  <2>3. CASE u # t
    <3>1. tab'[u] = tab[u]
      BY <2>3, LoadsTab DEF SessionInv
    <3> QED  BY <2>1, <3>1, TabUntouched
  <2> QED  BY <2>2, <2>3
<1> QED  BY <1>1, <1>2 DEF SessionInv

(* The server goes on, and the sessions do not know.                       *)
LEMMA ServerInv ==
    ASSUME SessionInv, Block \/ Rebootstrap, UNCHANGED <<session, lookup>>, DownloadTypeOK'
    PROVE  SessionInv'
<1>1. UNCHANGED tab
  BY DEF Block, Rebootstrap
<1>2. SessionTypeOK'
  BY DEF SessionInv, SessionTypeOK
<1>3. ASSUME NEW u \in Tabs PROVE TabSessionOK(u)'
  BY <1>1, TabUntouched DEF SessionInv
<1> QED  BY <1>2, <1>3 DEF SessionInv

(* A tab that leaves its page has no session and no lookup.                *)
LEMMA ForgottenInv ==
    ASSUME SessionInv, NEW t \in Tabs, tab' = [tab EXCEPT ![t] = Closed], Forgotten(t),
           DownloadTypeOK'
    PROVE  SessionInv'
<1>1. /\ session' = [session EXCEPT ![t] = NoSession]
      /\ lookup' = [lookup EXCEPT ![t] = [l \in Lookups |-> Idle]]
  BY DEF Forgotten
<1>2. SessionTypeOK'
  BY <1>1, NothingTyped DEF SessionInv, SessionTypeOK
<1>3. ASSUME NEW u \in Tabs PROVE TabSessionOK(u)'
  <2>1. TabSessionOK(u)
    BY DEF SessionInv
  <2>2. CASE u = t
    <3>1. tab'[u].pc = "closed"
      BY <2>2 DEF SessionInv, DownloadTypeOK, Closed
    <3>2. \A l \in Lookups : lookup'[u][l].pc = "idle"
      BY <1>1, <2>2 DEF SessionInv, SessionTypeOK, Idle
    <3> QED  BY <3>1, <3>2 DEF TabSessionOK, Running
  <2>3. CASE u # t
    <3>1. tab'[u] = tab[u] /\ session'[u] = session[u] /\ lookup'[u] = lookup[u]
      BY <1>1, <2>3 DEF SessionInv, DownloadTypeOK, SessionTypeOK
    <3> QED  BY <2>1, <3>1, TabUntouched
  <2> QED  BY <2>2, <2>3
<1> QED  BY <1>2, <1>3 DEF SessionInv

(* risepir_init: the session starts at its bundle's block with no delta.   *)
LEMMA FromBundleInv ==
    ASSUME SessionInv, NEW t \in Tabs, FromBundle(t), DownloadTypeOK'
    PROVE  SessionInv'
<1>1. /\ tab[t].pc = "starting" /\ UNCHANGED lookup
      /\ session' = [session EXCEPT ![t] = [NoSession EXCEPT !.head = Pinned(t)]]
  BY DEF FromBundle, Start
<1>2. PICK s : s = [NoSession EXCEPT !.head = Pinned(t)]
  OBVIOUS
<1>3. Pinned(t) \in Nat
  BY <1>1, PinnedTyped DEF SessionInv
<1>4. /\ s \in Sessions /\ s.head = Pinned(t) /\ s.foreign = FALSE
      /\ s.added = [b \in 1 .. MaxBlock |-> 0]
  <2>1. NoSession \in Sessions
    BY NothingTyped
  <2> QED  BY <1>2, <1>3, <2>1 DEF Sessions, NoSession
<1>5. SessionTypeOK'
  BY <1>1, <1>2, <1>4 DEF SessionInv, SessionTypeOK
<1>6. PICK r \in TabStates : /\ r.dest = tab[t].dest
                             /\ tab' = [tab EXCEPT ![t] = r]
  <2>1. PICK pc \in {"failed", "loaded"} : Step(t, pc)
    BY DEF FromBundle, Start
  <2>2. PICK r \in TabStates : r = [tab[t] EXCEPT !.pc = pc] /\ tab' = [tab EXCEPT ![t] = r]
    BY <2>1, StageStepped DEF SessionInv, Stages
  <2>3. r.dest = tab[t].dest
    BY <2>2 DEF SessionInv, DownloadTypeOK, TabStates
  <2> QED  BY <2>2, <2>3
<1>7. ASSUME NEW u \in Tabs PROVE TabSessionOK(u)'
  <2>1. TabSessionOK(u)
    BY DEF SessionInv
  <2>2. CASE u = t
    <3>1. Pinned(t)' = Pinned(t) /\ session'[t] = s
      BY <1>1, <1>2, <1>6 DEF SessionInv, DownloadTypeOK, SessionTypeOK, Pinned
    <3>2. \A b \in 1 .. MaxBlock : s.added[b] = 0
      BY <1>4
    <3>3. DeltaOK(t, session[t])'
      <4>1. PICK p \in Nat : p = Pinned(t)
        BY <1>3
      <4>2. Pinned(t)' = p /\ session'[t].head = p /\ ~session'[t].foreign
        BY <1>4, <3>1, <4>1
      <4>3. \A b \in 1 .. MaxBlock : session'[t].added[b] = 0 /\ ~(p < b /\ b <= p)
        BY <3>1, <3>2, <4>1
      <4> QED  BY <4>1, <4>2, <4>3 DEF DeltaOK
    <3>4. \A l \in Lookups : lookup'[t][l].pc = "idle"
      BY <1>1, <2>1, <2>2 DEF TabSessionOK, Running
    <3> QED  BY <2>2, <3>3, <3>4 DEF TabSessionOK, Running, LookupOK
  <2>3. CASE u # t
    <3>1. tab'[u] = tab[u] /\ session'[u] = session[u] /\ lookup'[u] = lookup[u]
      BY <1>1, <1>6, <2>3 DEF SessionInv, DownloadTypeOK, SessionTypeOK
    <3> QED  BY <2>1, <3>1, TabUntouched
  <2> QED  BY <2>2, <2>3
<1> QED  BY <1>5, <1>7 DEF SessionInv

(* A lookup that runs, runs alone.                                         *)
LEMMA RunsAlone ==
    ASSUME SessionInv, NEW t \in Tabs, NEW l \in Lookups, Running(t, l)
    PROVE  /\ tab[t].pc = "loaded"
           /\ session[t] \in Sessions /\ DeltaOK(t, session[t])
           /\ lookup[t][l] \in LookupStates /\ LookupOK(t, l, lookup[t][l], session[t])
           /\ \A j \in Lookups : j # l => ~Running(t, j)
           /\ Pinned(t) \in Nat /\ SessionEpoch(t) \in 1 .. MaxEpoch
<1>1. TabSessionOK(t)
  BY DEF SessionInv
<1>2. tab[t].pc = "loaded"
  BY <1>1 DEF TabSessionOK
<1>3. session[t] \in Sessions /\ lookup[t][l] \in LookupStates
  BY DEF SessionInv, SessionTypeOK
<1>4. Pinned(t) \in Nat /\ SessionEpoch(t) \in 1 .. MaxEpoch
  BY <1>2, PinnedTyped DEF SessionInv
<1> QED  BY <1>1, <1>2, <1>3, <1>4 DEF TabSessionOK

(* A step of the one lookup that runs in a loaded tab.                     *)
LEMMA LookupStepped ==
    ASSUME SessionInv, DownloadTypeOK', UNCHANGED tab,
           NEW t \in Tabs, NEW l \in Lookups, tab[t].pc = "loaded",
           \A j \in Lookups : j # l => ~Running(t, j),
           NEW k \in LookupStates, lookup' = [lookup EXCEPT ![t] = [@ EXCEPT ![l] = k]],
           NEW s \in Sessions, session' = [session EXCEPT ![t] = s],
           DeltaOK(t, s), LookupOK(t, l, k, s)
    PROVE  SessionInv'
<1>1. PICK ks : ks = [lookup[t] EXCEPT ![l] = k]
  OBVIOUS
<1>2. lookup[t] \in [Lookups -> LookupStates]
  BY DEF SessionInv, SessionTypeOK
<1>3. ks \in [Lookups -> LookupStates] /\ ks[l] = k /\ \A j \in Lookups : j # l => ks[j] = lookup[t][j]
  BY <1>1, <1>2
<1>4. lookup' = [lookup EXCEPT ![t] = ks]
  BY <1>1
<1>5. SessionTypeOK'
  BY <1>3, <1>4 DEF SessionInv, SessionTypeOK
<1>6. session'[t] = s /\ lookup'[t] = ks
  BY <1>4 DEF SessionInv, SessionTypeOK
<1>7. ASSUME NEW u \in Tabs PROVE TabSessionOK(u)'
  <2>1. CASE u = t
    <3>1. DeltaOK(t, session[t])'
      BY <1>6 DEF DeltaOK, Pinned
    <3>2. \A j \in Lookups : j # l => lookup'[t][j].pc = "idle"
      BY <1>3, <1>6 DEF Running
    <3>3. ASSUME NEW j \in Lookups PROVE LookupOK(t, j, lookup[t][j], session[t])'
      <4>1. CASE j = l
        BY <1>3, <1>6, <4>1 DEF LookupOK, SessionEpoch
      <4>2. CASE j # l
        BY <3>2, <4>2 DEF LookupOK
      <4> QED  BY <4>1, <4>2
    <3> QED  BY <2>1, <3>1, <3>2, <3>3 DEF TabSessionOK, Running
  <2>2. CASE u # t
    <3>1. tab'[u] = tab[u] /\ session'[u] = session[u] /\ lookup'[u] = lookup[u]
      BY <1>4, <2>2 DEF SessionInv, SessionTypeOK
    <3>2. TabSessionOK(u)
      BY DEF SessionInv
    <3> QED  BY <3>1, <3>2, TabUntouched
  <2> QED  BY <2>1, <2>2
<1> QED  BY <1>5, <1>7 DEF SessionInv

(* A lookup that ends is owed nothing any more.                            *)
LEMMA SettleInv ==
    ASSUME SessionInv, DownloadTypeOK', UNCHANGED tab,
           NEW t \in Tabs, NEW l \in Lookups, Running(t, l),
           NEW outcome \in Outcomes, Settle(t, l, outcome),
           NEW s \in Sessions, session' = [session EXCEPT ![t] = s], DeltaOK(t, s)
    PROVE  SessionInv'
<1>1. PICK k : k = [Idle EXCEPT !.outcome = outcome]
  OBVIOUS
<1>2. k \in LookupStates /\ k.pc = "idle"
  <2>1. Idle \in LookupStates
    BY NothingTyped
  <2> QED  BY <1>1, <2>1 DEF Idle, LookupStates
<1>3. lookup' = [lookup EXCEPT ![t] = [@ EXCEPT ![l] = k]]
  BY <1>1 DEF Settle
<1>4. LookupOK(t, l, k, s)
  BY <1>2 DEF LookupOK
<1> QED  BY <1>2, <1>3, <1>4, RunsAlone, LookupStepped

(* The same where the session stays as it is.                              *)
LEMMA JustSettleInv ==
    ASSUME SessionInv, DownloadTypeOK', UNCHANGED <<tab, session>>,
           NEW t \in Tabs, NEW l \in Lookups, Running(t, l),
           NEW outcome \in Outcomes, Settle(t, l, outcome)
    PROVE  SessionInv'
<1>1. session' = [session EXCEPT ![t] = session[t]]
  BY DEF SessionInv, SessionTypeOK
<1> QED  BY <1>1, RunsAlone, SettleInv

(* A query is put in flight, or refused because another one is.            *)
LEMMA QueryInv ==
    ASSUME SessionInv, DownloadTypeOK', UNCHANGED tab,
           NEW t \in Tabs, NEW l \in Lookups, Running(t, l),
           NEW s \in Sessions, DeltaOK(t, s), Query(t, l, s)
    PROVE  SessionInv'
<1>1. CASE Settle(t, l, "refused") /\ session' = [session EXCEPT ![t] = s]
  BY <1>1, SettleInv DEF Outcomes
<1>2. CASE /\ lookup' = [lookup EXCEPT ![t][l].pc = "answer"]
           /\ session' = [session EXCEPT ![t] = [s EXCEPT !.inFlight = l]]
  <2>1. PICK k : k = [lookup[t][l] EXCEPT !.pc = "answer"]
    OBVIOUS
  <2>2. PICK r : r = [s EXCEPT !.inFlight = l]
    OBVIOUS
  <2>3. k \in LookupStates /\ k.pc = "answer"
    BY <2>1, RunsAlone DEF LookupStates, LookupStages
  <2>4. /\ r \in Sessions /\ r.inFlight = l /\ r.head = s.head
        /\ r.added = s.added /\ r.foreign = s.foreign
    BY <2>2 DEF Sessions
  <2>5. DeltaOK(t, r)
    BY <2>4 DEF DeltaOK
  <2>6. LookupOK(t, l, k, r)
    BY <2>3, <2>4 DEF LookupOK
  <2>7. lookup' = [lookup EXCEPT ![t] = [@ EXCEPT ![l] = k]] /\ session' = [session EXCEPT ![t] = r]
    BY <1>2, <2>1, <2>2
  <2> QED  BY <2>3, <2>4, <2>5, <2>6, <2>7, RunsAlone, LookupStepped
<1> QED  BY <1>1, <1>2 DEF Query

(* Deltas from the session's head on, of its own lineage, keep each block  *)
(* in once.                                                                *)
LEMMA IngestedOK ==
    ASSUME SessionInv, NEW t \in Tabs, NEW l \in Lookups, Running(t, l),
           NEW to \in Nat, Forward(session[t], to), EpochGate(t)
    PROVE  LET s == Ingested(t, session[t].head, to) IN
           /\ s \in Sessions /\ DeltaOK(t, s)
           /\ s.head = to /\ s.inFlight = session[t].inFlight
<1>1. /\ session[t] \in Sessions /\ DeltaOK(t, session[t])
      /\ Pinned(t) \in Nat
  BY RunsAlone
<1>2. PICK h \in Nat : h = session[t].head
  BY <1>1 DEF Sessions
<1>3. to > h
  BY <1>2 DEF Forward
<1>4. PICK added : added = [b \in 1 .. MaxBlock |->
                               session[t].added[b] + IF h < b /\ b <= to THEN 1 ELSE 0]
  OBVIOUS
<1>5. added \in Deltas
  <2>1. ASSUME NEW b \in 1 .. MaxBlock
        PROVE  session[t].added[b] + (IF h < b /\ b <= to THEN 1 ELSE 0) \in Nat
    <3>1. session[t].added \in [1 .. MaxBlock -> Nat]
      BY <1>1 DEF Sessions, Deltas
    <3>2. PICK n \in Nat : n = session[t].added[b]
      BY <3>1
    <3>3. n + (IF h < b /\ b <= to THEN 1 ELSE 0) \in Nat
      OBVIOUS
    <3> QED  BY <3>2, <3>3
  <2> QED  BY <1>4, <2>1 DEF Deltas
<1>6. PICK f \in BOOLEAN : f = (session[t].foreign \/ server.epoch # SessionEpoch(t))
  OBVIOUS
<1>7. PICK s : s = [session[t] EXCEPT !.head = to, !.foreign = f, !.added = added]
  OBVIOUS
<1>8. /\ s \in Sessions /\ s.head = to /\ s.inFlight = session[t].inFlight
      /\ s.added = added /\ s.foreign = f
  BY <1>1, <1>5, <1>7 DEF Sessions
<1>9. f = FALSE
  BY <1>1, <1>6 DEF DeltaOK, EpochGate
<1>10. PICK p \in Nat : p = Pinned(t)
  BY <1>1
<1>11. p <= h /\ \A b \in 1 .. MaxBlock : session[t].added[b] = IF p < b /\ b <= h THEN 1 ELSE 0
  BY <1>1, <1>2, <1>10 DEF DeltaOK
<1>12. \A b \in 1 .. MaxBlock : added[b] = IF p < b /\ b <= to THEN 1 ELSE 0
  <2>1. ASSUME NEW b \in 1 .. MaxBlock
        PROVE  added[b] = IF p < b /\ b <= to THEN 1 ELSE 0
    <3>1. added[b] = session[t].added[b] + IF h < b /\ b <= to THEN 1 ELSE 0
      BY <1>4
    <3>2. session[t].added[b] = IF p < b /\ b <= h THEN 1 ELSE 0
      BY <1>11
    <3>3. b \in Int
      OBVIOUS
    <3> QED  BY <1>3, <1>11, <3>1, <3>2, <3>3
  <2> QED  BY <2>1
<1>13. DeltaOK(t, s)
  BY <1>3, <1>8, <1>9, <1>10, <1>11, <1>12 DEF DeltaOK
<1>14. s = Ingested(t, session[t].head, to)
  BY <1>2, <1>4, <1>6, <1>7 DEF Ingested
<1> QED  BY <1>8, <1>13, <1>14

(* An answer of the session's lineage, to its query, at its very block.    *)
LEMMA DecodedRight ==
    ASSUME NEW t \in Tabs, NEW l \in Lookups, NEW s, DeltaOK(t, s), s.inFlight = l,
           s.head = lookup[t][l].at, lookup[t][l].by = SessionEpoch(t)
    PROVE  Decoded(t, s, l) = "right"
BY DEF Decoded, DeltaOK

(* A lookup that is submitted has asked for nothing yet.                   *)
LEMMA SubmitInv ==
    ASSUME SessionInv, ~Overlap, NEW t \in Tabs, NEW l \in Lookups, Submit(t, l), DownloadTypeOK'
    PROVE  SessionInv'
<1>1. /\ tab[t].pc = "loaded" /\ \A j \in Lookups : ~Running(t, j)
      /\ lookup' = [lookup EXCEPT ![t][l] = [Idle EXCEPT !.pc = "head"]]
      /\ UNCHANGED <<tab, session>>
  BY DEF Submit, downloadVars
<1>2. PICK k : k = [Idle EXCEPT !.pc = "head"]
  OBVIOUS
<1>3. k \in LookupStates /\ k.pc = "head"
  <2>1. Idle \in LookupStates
    BY NothingTyped
  <2> QED  BY <1>2, <2>1 DEF LookupStates, LookupStages
<1>4. lookup' = [lookup EXCEPT ![t] = [@ EXCEPT ![l] = k]]
  BY <1>1, <1>2
<1>5. session' = [session EXCEPT ![t] = session[t]] /\ session[t] \in Sessions
  BY <1>1 DEF SessionInv, SessionTypeOK
<1>6. DeltaOK(t, session[t])
  BY <1>1 DEF SessionInv, TabSessionOK
<1>7. LookupOK(t, l, k, session[t])
  BY <1>3 DEF LookupOK
<1> QED  BY <1>1, <1>3, <1>4, <1>5, <1>6, <1>7, LookupStepped

(* It asks for the deltas after the session's own block.                   *)
LEMMA FindHeadInv ==
    ASSUME SessionInv, NEW t \in Tabs, NEW l \in Lookups, FindHead(t, l), DownloadTypeOK'
    PROVE  SessionInv'
<1>1. lookup[t][l].pc = "head" /\ UNCHANGED tab
  BY DEF FindHead, downloadVars
<1>2. Running(t, l)
  BY <1>1 DEF Running
<1>3. CASE Query(t, l, session[t])
  BY <1>1, <1>2, <1>3, RunsAlone, QueryInv
<1>4. CASE /\ lookup' = [lookup EXCEPT ![t][l].pc = "sync", ![t][l].from = session[t].head,
                                       ![t][l].to = server.block]
           /\ UNCHANGED session
  <2>1. PICK h \in Nat : h = session[t].head
    BY <1>2, RunsAlone DEF Sessions
  <2>2. PICK b \in Nat : b = server.block
    BY DEF SessionInv, DownloadTypeOK
  <2>3. PICK k : k = [lookup[t][l] EXCEPT !.pc = "sync", !.from = h, !.to = b]
    OBVIOUS
  <2>4. k \in LookupStates /\ k.pc = "sync" /\ k.from = h
    <3>1. lookup[t][l] \in LookupStates
      BY <1>2, RunsAlone
    <3> QED  BY <2>3, <3>1 DEF LookupStates, LookupStages
  <2>5. LookupOK(t, l, k, session[t])
    BY <2>1, <2>4 DEF LookupOK
  <2>6. lookup' = [lookup EXCEPT ![t] = [@ EXCEPT ![l] = k]]
    BY <1>4, <2>1, <2>2, <2>3
  <2>7. session' = [session EXCEPT ![t] = session[t]]
    BY <1>4 DEF SessionInv, SessionTypeOK
  <2> QED  BY <1>1, <1>2, <2>4, <2>5, <2>6, <2>7, RunsAlone, LookupStepped
<1> QED  BY <1>3, <1>4 DEF FindHead

(* A refused lookup leaves the session; what it evicts is the database's.  *)
LEMMA StaleInv ==
    ASSUME SessionInv, NEW t \in Tabs, NEW l \in Lookups, Running(t, l), Stale(t, l), DownloadTypeOK'
    PROVE  SessionInv'
BY JustSettleInv DEF Stale, Outcomes

(* The deltas a 200 of /sync holds are put in once each.                   *)
LEMMA SyncInv ==
    ASSUME SessionInv, NEW t \in Tabs, NEW l \in Lookups, Sync(t, l), DownloadTypeOK'
    PROVE  SessionInv'
<1>1. lookup[t][l].pc = "sync"
  BY DEF Sync
<1>2. Running(t, l)
  BY <1>1 DEF Running
<1>3. PICK to \in Nat : to = lookup[t][l].to
  BY <1>2, RunsAlone DEF LookupStates
<1>4. lookup[t][l].from = session[t].head
  BY <1>1, <1>2, RunsAlone DEF LookupOK
<1>5. CASE Stale(t, l)
  BY <1>2, <1>5, StaleInv
<1>6. CASE /\ EpochGate(t) /\ Forward(session[t], to) /\ UNCHANGED tab
           /\ Query(t, l, Ingested(t, session[t].head, to))
  <2>1. PICK s : s = Ingested(t, session[t].head, to)
    OBVIOUS
  <2>2. s \in Sessions /\ DeltaOK(t, s)
    BY <1>2, <1>6, <2>1, IngestedOK
  <2> QED  BY <1>2, <1>6, <2>1, <2>2, QueryInv
<1>7. CASE Settle(t, l, "error") /\ UNCHANGED <<tab, session>>
  BY <1>2, <1>7, JustSettleInv DEF Outcomes
<1> QED  BY <1>3, <1>4, <1>5, <1>6, <1>7 DEF Sync, downloadVars

(* The answer is at the server's block, of the bundle's lineage.           *)
LEMMA AnswerInv ==
    ASSUME SessionInv, NEW t \in Tabs, NEW l \in Lookups, Answer(t, l), DownloadTypeOK'
    PROVE  SessionInv'
<1>1. lookup[t][l].pc = "answer"
  BY DEF Answer
<1>2. Running(t, l)
  BY <1>1 DEF Running
<1>3. CASE Stale(t, l)
  BY <1>2, <1>3, StaleInv
<1>4. CASE /\ EpochGate(t) /\ UNCHANGED <<tab, session>>
           /\ lookup' = [lookup EXCEPT ![t][l].pc = "answered", ![t][l].at = server.block,
                                       ![t][l].by = server.epoch]
  <2>1. PICK b \in Nat : b = server.block
    BY DEF SessionInv, DownloadTypeOK
  <2>2. PICK e \in Nat : e = server.epoch
    BY DEF SessionInv, DownloadTypeOK
  <2>3. PICK k : k = [lookup[t][l] EXCEPT !.pc = "answered", !.at = b, !.by = e]
    OBVIOUS
  <2>4. k \in LookupStates /\ k.pc = "answered" /\ k.by = e
    <3>1. lookup[t][l] \in LookupStates
      BY <1>2, RunsAlone
    <3> QED  BY <2>3, <3>1 DEF LookupStates, LookupStages
  <2>5. LookupOK(t, l, k, session[t])
    <3>1. session[t].inFlight = l
      BY <1>1, <1>2, RunsAlone DEF LookupOK
    <3> QED  BY <1>4, <2>2, <2>4, <3>1 DEF LookupOK, EpochGate
  <2>6. lookup' = [lookup EXCEPT ![t] = [@ EXCEPT ![l] = k]]
    BY <1>4, <2>1, <2>2, <2>3
  <2>7. session' = [session EXCEPT ![t] = session[t]]
    BY <1>4 DEF SessionInv, SessionTypeOK
  <2> QED  BY <1>2, <1>4, <2>4, <2>5, <2>6, <2>7, RunsAlone, LookupStepped
<1> QED  BY <1>3, <1>4 DEF Answer, downloadVars

(* It is decoded when the session stands at exactly its block.             *)
LEMMA AcceptInv ==
    ASSUME SessionInv, NEW t \in Tabs, NEW l \in Lookups, Accept(t, l), DownloadTypeOK'
    PROVE  SessionInv'
<1>1. lookup[t][l].pc = "answered" /\ UNCHANGED tab
  BY DEF Accept, downloadVars
<1>2. Running(t, l)
  BY <1>1 DEF Running
<1>3. session[t].inFlight = l /\ lookup[t][l].by = SessionEpoch(t)
  BY <1>1, <1>2, RunsAlone DEF LookupOK
<1>4. CASE /\ session[t].head = lookup[t][l].at
           /\ Settle(t, l, Decoded(t, session[t], l))
           /\ session' = [session EXCEPT ![t].inFlight = Nobody]
  <2>1. Decoded(t, session[t], l) = "right"
    BY <1>2, <1>3, <1>4, RunsAlone, DecodedRight
  <2>2. PICK s : s = [session[t] EXCEPT !.inFlight = Nobody]
    OBVIOUS
  <2>3. /\ s \in Sessions /\ s.head = session[t].head
        /\ s.added = session[t].added /\ s.foreign = session[t].foreign
    BY <1>2, <2>2, RunsAlone DEF Sessions
  <2>4. DeltaOK(t, s)
    BY <1>2, <2>3, RunsAlone DEF DeltaOK
  <2>5. session' = [session EXCEPT ![t] = s]
    BY <1>4, <2>2
  <2> QED  BY <1>1, <1>2, <1>4, <2>1, <2>3, <2>4, <2>5, SettleInv DEF Outcomes
<1>5. CASE /\ lookup' = [lookup EXCEPT ![t][l].pc = "resync", ![t][l].from = session[t].head]
           /\ UNCHANGED session
  <2>1. PICK h \in Nat : h = session[t].head
    BY <1>2, RunsAlone DEF Sessions
  <2>2. PICK k : k = [lookup[t][l] EXCEPT !.pc = "resync", !.from = h]
    OBVIOUS
  <2>3. k \in LookupStates /\ k.pc = "resync" /\ k.from = h /\ k.by = lookup[t][l].by
    <3>1. lookup[t][l] \in LookupStates
      BY <1>2, RunsAlone
    <3> QED  BY <2>2, <3>1 DEF LookupStates, LookupStages
  <2>4. LookupOK(t, l, k, session[t])
    BY <1>3, <2>1, <2>3 DEF LookupOK
  <2>5. lookup' = [lookup EXCEPT ![t] = [@ EXCEPT ![l] = k]]
    BY <1>5, <2>1, <2>2
  <2>6. session' = [session EXCEPT ![t] = session[t]]
    BY <1>5 DEF SessionInv, SessionTypeOK
  <2> QED  BY <1>1, <1>2, <2>3, <2>4, <2>5, <2>6, RunsAlone, LookupStepped
<1>6. CASE Settle(t, l, "error") /\ UNCHANGED session
  BY <1>1, <1>2, <1>6, JustSettleInv DEF Outcomes
<1> QED  BY <1>4, <1>5, <1>6 DEF Accept, Finished

(* One more sync brings the session there.                                 *)
LEMMA ResyncInv ==
    ASSUME SessionInv, NEW t \in Tabs, NEW l \in Lookups, Resync(t, l), DownloadTypeOK'
    PROVE  SessionInv'
<1>1. lookup[t][l].pc = "resync"
  BY DEF Resync
<1>2. Running(t, l)
  BY <1>1 DEF Running
<1>3. PICK at \in Nat : at = lookup[t][l].at
  BY <1>2, RunsAlone DEF LookupStates
<1>4. /\ lookup[t][l].from = session[t].head /\ session[t].inFlight = l
      /\ lookup[t][l].by = SessionEpoch(t)
  BY <1>1, <1>2, RunsAlone DEF LookupOK
<1>5. PICK s : s = Ingested(t, session[t].head, at)
  OBVIOUS
<1>6. CASE Stale(t, l)
  BY <1>2, <1>6, StaleInv
<1>7. CASE /\ EpochGate(t) /\ Forward(session[t], at) /\ UNCHANGED tab
           /\ Settle(t, l, Decoded(t, s, l))
           /\ session' = [session EXCEPT ![t] = [s EXCEPT !.inFlight = Nobody]]
  <2>1. s \in Sessions /\ DeltaOK(t, s) /\ s.head = at /\ s.inFlight = session[t].inFlight
    BY <1>2, <1>5, <1>7, IngestedOK
  <2>2. Decoded(t, s, l) = "right"
    BY <1>3, <1>4, <2>1, DecodedRight
  <2>3. PICK r : r = [s EXCEPT !.inFlight = Nobody]
    OBVIOUS
  <2>4. r \in Sessions /\ r.head = s.head /\ r.added = s.added /\ r.foreign = s.foreign
    BY <2>1, <2>3 DEF Sessions
  <2>5. DeltaOK(t, r)
    BY <2>1, <2>4 DEF DeltaOK
  <2>6. session' = [session EXCEPT ![t] = r]
    BY <1>7, <2>3
  <2> QED  BY <1>2, <1>7, <2>2, <2>4, <2>5, <2>6, SettleInv DEF Outcomes
<1>8. CASE Settle(t, l, "error") /\ UNCHANGED <<tab, session>>
  BY <1>2, <1>8, JustSettleInv DEF Outcomes
<1> QED  BY <1>3, <1>4, <1>5, <1>6, <1>7, <1>8 DEF Resync, downloadVars

(* A lookup that gives up shows nothing.                                   *)
LEMMA GiveUpInv ==
    ASSUME SessionInv, NEW t \in Tabs, NEW l \in Lookups, GiveUp(t, l), DownloadTypeOK'
    PROVE  SessionInv'
<1>1. Running(t, l)
  BY DEF GiveUp, Running
<1>2. Settle(t, l, "timeout") /\ UNCHANGED <<tab, session>>
  BY DEF GiveUp, downloadVars
<1> QED  BY <1>1, <1>2, JustSettleInv DEF Outcomes

(* Every step, as long as lookups do not overlap.                          *)
LEMMA SessionNext ==
    ASSUME ~Overlap
    PROVE  SessionInv /\ [BrowserNext]_browserVars => SessionInv'
<1> SUFFICES ASSUME SessionInv, [BrowserNext]_browserVars PROVE SessionInv'
  OBVIOUS
<1>1. CASE UNCHANGED browserVars
  BY <1>1 DEF browserVars, downloadVars, SessionInv, DownloadTypeOK, SessionTypeOK, TabSessionOK,
     DeltaOK, LookupOK, Running, Pinned, SessionEpoch
<1>2. CASE BrowserNext
  <2>1. DownloadTypeOK'
    BY <1>2, DownloadNextType DEF SessionInv
  <2>2. CASE (Block \/ Rebootstrap) /\ UNCHANGED <<session, lookup>>
    BY <2>1, <2>2, ServerInv
  <2>3. ASSUME NEW t \in Tabs, Loads(t) \/ Stall(t) \/ Break(t), UNCHANGED <<session, lookup>>
        PROVE  SessionInv'
    BY <2>1, <2>3, LoadingInv
  <2>4. ASSUME NEW t \in Tabs, FromBundle(t) PROVE SessionInv'
    BY <2>1, <2>4, FromBundleInv
  <2>5. ASSUME NEW t \in Tabs, Leave(t) \/ Reloading(t) PROVE SessionInv'
    <3>1. tab' = [tab EXCEPT ![t] = Closed] /\ Forgotten(t)
      BY <2>5 DEF Leave, Reloading, Close, Reload
    <3> QED  BY <2>1, <3>1, ForgottenInv
  <2>6. ASSUME NEW t \in Tabs, NEW l \in Lookups, Submit(t, l) \/ Lookup(t, l) PROVE SessionInv'
    BY <2>1, <2>6, SubmitInv, FindHeadInv, SyncInv, AnswerInv, AcceptInv, ResyncInv, GiveUpInv DEF Lookup
  <2> QED  BY <1>2, <2>2, <2>3, <2>4, <2>5, <2>6 DEF BrowserNext, Loading
<1> QED  BY <1>1, <1>2

(* getBalance of pir.js over one wasm session: when no lookup starts while *)
(* another one of the page runs, whatever blocks, bootstraps, stalls,      *)
(* refusals and reloads come between its awaits, what a lookup shows is    *)
(* decoded from its own answer, with each block's delta in once.           *)
THEOREM LookupsAreNeverGarbage ==
    ASSUME ~Overlap
    PROVE  BrowserSpec => []NeverMisdecoded
<1>1. SessionInv => NeverMisdecoded
  BY SessionInvImplies
<1>2. SessionInv /\ [BrowserNext]_browserVars => SessionInv'
  BY SessionNext
<1> QED  BY <1>1, <1>2, SessionInit, PTL DEF BrowserSpec

-----------------------------------------------------------------------------
(* The bundle.                                                             *)

(* The sequences of pieces cut from bundle b.                              *)
Of(b) == Seq({b})

Writing == {"receiving", "flushing", "noting", "sealing"}

ChunksOf(e, b) == \A i \in 1 .. NumChunks : e.chunks[i] \in Of(b)

(* An entry whose meta record names a bundle has pieces of that one only.  *)
EntryOK(e) ==
    /\ e.meta.etag = NoBundle => e.meta = NoMeta
    /\ e.meta.etag # NoBundle => ChunksOf(e, e.meta.etag)

(* What a tab has in hand, and the entry e it resumes or fills, are of the *)
(* bundle it has the entity tag of.                                        *)
HandOK(s, e) ==
    /\ s.cached => s.pc \in {"starting", "loaded", "failed"}
    /\ s.pc = "reading" => e.meta.etag # NoBundle /\ s.dest \in Of(e.meta.etag)
    /\ s.pc = "replaying" =>
          s.etag = e.meta.etag /\ s.etag # NoBundle /\ s.dest \in Of(s.etag)
    /\ (s.pc = "asking" /\ s.dest # <<>>) \/ s.pc \in Writing =>
          /\ s.etag # NoBundle /\ s.dest \in Of(s.etag)
          /\ e.meta.etag \in {NoBundle, s.etag} /\ ChunksOf(e, s.etag)
    /\ s.pc \in Writing => s.body = s.etag /\ s.mode = Complete(s.etag.epoch)
    /\ s.pc \in {"starting", "loaded"} => \E b \in Bundles : s.dest \in Of(b)
    /\ s.pc = "starting" =>
          s.mode = Complete(IF s.cached THEN s.epoch ELSE s.dest[1].epoch)
    /\ s.pc = "loaded" => s.mode = Complete(s.dest[1].epoch)

(* Lookups run in a loaded tab.                                            *)
LookupsLoaded(t) ==
    /\ DOMAIN lookup = Tabs
    /\ tab[t].pc # "loaded" => \A l \in Lookups : lookup[t][l].pc = "idle"

EntriesOK == \A e \in 1 .. MaxEpoch : EntryOK(stored[e])

PiecesOK(t) == EntriesOK /\ HandOK(tab[t], stored[tab[t].epoch])

PiecesInv(t) == DownloadTypeOK /\ LookupsLoaded(t) /\ PiecesOK(t)

(* Sequences of pieces of one bundle, put together and cut.                *)
LEMMA OfNothing == ASSUME NEW b PROVE <<>> \in Of(b)
BY DEF Of

(* What is put together from pieces of b is of b.                          *)
LEMMA OfJoined == ASSUME NEW b, NEW c \in Of(b), NEW d \in Of(b) PROVE c \o d \in Of(b)
BY DEF Of

(* So is what one more piece of b is added to.                             *)
LEMMA OfAppended == ASSUME NEW b, NEW c \in Of(b) PROVE Append(c, b) \in Of(b)
BY DEF Of

(* A whole one has its bundle's name on its first piece.                   *)
LEMMA OfWhole ==
    ASSUME NEW b, NEW c \in Of(b), Len(c) = Total
    PROVE  Whole(c, b) /\ c[1] = b
<1>1. c \in [1 .. Total -> {b}]
  BY DEF Of
<1>2. c = [i \in 1 .. Total |-> b]
  BY <1>1
<1>3. 1 \in 1 .. Total
  BY Sizes
<1> QED  BY <1>1, <1>2, <1>3 DEF Whole

(* FlattenSeq of chunks of one bundle.                                     *)
LEMMA OfFlattened ==
    ASSUME NEW b, NEW c, DOMAIN c = 1 .. NumChunks, Len(c) = NumChunks,
           \A i \in 1 .. NumChunks : c[i] \in Of(b)
    PROVE  FlattenSeq(c) \in Of(b)
<1> DEFINE V == Of(b)
           n == NumChunks - 1
           g == [i \in 1 .. n |-> [q \in V |-> q \o c[i + 1]]]
           Body(h, i) == IF i = 1 THEN c[i] ELSE h[i - 1] \o c[i]
           f == CHOOSE h : h = [i \in 1 .. Len(c) |-> Body(h, i)]
<1>1. n \in Nat /\ Len(c) = n + 1 /\ NumChunks = n + 1
  BY ChunkCount
<1>2. c[1] \in V
  BY <1>1
<1>3. ASSUME NEW i \in 1 .. n, NEW q \in V PROVE q \o c[i + 1] \in V
  <2>1. i + 1 \in 1 .. NumChunks
    BY <1>1
  <2>2. c[i + 1] \in V
    BY <2>1
  <2> HIDE DEF n
  <2> QED  BY <2>2, OfJoined
<1>4. g \in Rounds(n, V)
  <2> HIDE DEF V, n
  <2> QED  BY <1>3 DEF Rounds
<1>5. PICK h \in Passes(n, V, c[1], g) : TRUE
  <2> HIDE DEF V, n, g
  <2> QED  BY <1>1, <1>2, <1>4, RecursionUpToNat
<1>6. h \in [0 .. n -> V] /\ h[0] = c[1] /\ \A i \in 1 .. n : h[i] = g[i][h[i - 1]]
  <2> HIDE DEF V, n, g
  <2> QED  BY DEF Passes
<1>7. PICK k : k = [i \in 1 .. Len(c) |-> h[i - 1]]
  OBVIOUS
<1>8. k = [i \in 1 .. Len(c) |-> Body(k, i)]
  <2>1. ASSUME NEW i \in 1 .. Len(c) PROVE k[i] = Body(k, i)
    <3> HIDE DEF V
    <3>1. CASE i = 1
      BY <1>6, <1>7, <3>1
    <3>2. CASE i # 1
      <4>1. PICK j \in 1 .. n : i = j + 1
        BY <1>1, <3>2
      <4>2. j \in 1 .. Len(c) /\ j - 1 \in 0 .. n
        BY <1>1, <4>1
      <4>3. k[i] = h[j] /\ k[j] = h[j - 1] /\ h[j - 1] \in V
        <5> HIDE DEF n, g
        <5> QED  BY <1>6, <1>7, <4>1, <4>2
      <4>4. h[j] = g[j][h[j - 1]]
        <5> HIDE DEF n, g
        <5> QED  BY <1>6, <4>1
      <4>5. g[j][h[j - 1]] = h[j - 1] \o c[j + 1]
        <5> HIDE DEF n
        <5> QED  BY <4>1, <4>3
      <4>6. i - 1 = j
        BY <4>1
      <4> HIDE DEF g, n
      <4> QED  BY <3>2, <4>1, <4>3, <4>4, <4>5, <4>6
    <3> QED  BY <3>1, <3>2
  <2> HIDE DEF Body
  <2> QED  BY <1>7, <2>1
<1>9. f = [i \in 1 .. Len(c) |-> Body(f, i)]
  <2> HIDE DEF Body
  <2> QED  BY <1>8
<1>10. ASSUME NEW i \in 1 .. Len(c) PROVE f[i] = Body(f, i)
  <2> HIDE DEF Body, f
  <2> QED  BY <1>9
<1>11. f[1] = c[1]
  <2>1. 1 \in 1 .. Len(c)
    BY <1>1
  <2> HIDE DEF f
  <2> QED  BY <1>10, <2>1
<1>12. PICK m : m = [i \in 0 .. n |-> f[i + 1]]
  OBVIOUS
<1>13. m[0] \in V
  <2>1. m[0] = f[1]
    <3>1. 0 \in 0 .. n /\ 0 + 1 = 1
      BY <1>1
    <3> HIDE DEF f, n
    <3> QED  BY <1>12, <3>1
  <2> HIDE DEF f, V
  <2> QED  BY <1>2, <1>11, <2>1
<1>14. ASSUME NEW i \in 1 .. n, m[i - 1] \in V PROVE m[i] \in V
  <2>1. PICK j : j = i + 1
    OBVIOUS
  <2>2. j \in 1 .. Len(c) /\ j # 1 /\ j - 1 = i /\ i \in 0 .. n /\ i - 1 \in 0 .. n
    BY <1>1, <2>1
  <2>3. f[j] = Body(f, j)
    <3> HIDE DEF f, Body
    <3> QED  BY <1>10, <2>2
  <2>4. f[j] = f[i] \o c[j]
    <3> HIDE DEF f
    <3> QED  BY <2>2, <2>3
  <2>5. m[i] = f[j] /\ m[i - 1] = f[i]
    <3>1. (i - 1) + 1 = i
      OBVIOUS
    <3> HIDE DEF f, n
    <3> QED  BY <1>12, <2>1, <2>2, <3>1
  <2>6. f[i] \o c[i + 1] \in V
    <3> HIDE DEF f, V, n
    <3> QED  BY <1>3, <1>14, <2>5
  <2> HIDE DEF f, V
  <2> QED  BY <2>1, <2>4, <2>5, <2>6
<1>15. \A i \in 0 .. n : m[i] \in V
  <2> DEFINE W == [i \in 0 .. n |-> V]
  <2>1. m[0] \in W[0]
    <3> HIDE DEF f, V
    <3> QED  BY <1>1, <1>13
  <2>2. ASSUME NEW i \in 1 .. n, m[i - 1] \in W[i - 1] PROVE m[i] \in W[i]
    <3>1. i - 1 \in 0 .. n /\ i \in 0 .. n
      BY <1>1
    <3> HIDE DEF f, V
    <3> QED  BY <1>14, <2>2, <3>1
  <2>3. \A i \in 0 .. n : m[i] \in W[i]
    <3> HIDE DEF f, W, n
    <3> QED  BY <1>1, <2>1, <2>2, UpToNat
  <2> HIDE DEF f, V
  <2> QED  BY <2>3
<1>16. FlattenSeq(c) = f[Len(c)]
  <2>1. Len(c) # 0
    BY <1>1
  <2> QED  BY <2>1 DEF FlattenSeq
<1>17. m[n] = f[Len(c)] /\ n \in 0 .. n
  <2>1. n \in 0 .. n
    BY <1>1
  <2> HIDE DEF f, n
  <2> QED  BY <1>1, <1>12, <2>1
<1> HIDE DEF f, V, n
<1> QED  BY <1>15, <1>16, <1>17 DEF V

(* The invariant says of tabs and entries what is asked of them.           *)
LEMMA PiecesInvImplies ==
    ASSUME NEW t, Tabs = {t}
    PROVE  PiecesInv(t) => NeverSpliced
<1> SUFFICES ASSUME PiecesInv(t) PROVE NeverSpliced
  OBVIOUS
<1>1. tab[t] \in TabStates /\ TabOK(tab[t]) /\ HandOK(tab[t], stored[tab[t].epoch])
  BY DEF PiecesInv, PiecesOK, DownloadTypeOK
<1>2. tab[t].pc \in {"starting", "loaded"} => Whole(tab[t].dest, tab[t].dest[1])
  <2> SUFFICES ASSUME tab[t].pc \in {"starting", "loaded"}
               PROVE  Whole(tab[t].dest, tab[t].dest[1])
    OBVIOUS
  <2>1. PICK b \in Bundles : tab[t].dest \in Of(b)
    BY <1>1 DEF HandOK
  <2>2. Len(tab[t].dest) = Total
    BY <1>1 DEF TabOK
  <2> QED  BY <2>1, <2>2, OfWhole
<1>3. tab[t].pc = "loaded" => tab[t].mode = Complete(tab[t].dest[1].epoch)
  BY <1>1 DEF HandOK
<1>4. ASSUME NEW e \in DOMAIN stored, stored[e].meta.complete,
             Len(FlattenSeq(stored[e].chunks)) = Total
      PROVE  Whole(FlattenSeq(stored[e].chunks), stored[e].meta.etag)
  <2>1. stored[e] \in Entries /\ EntryOK(stored[e])
    BY DEF PiecesInv, PiecesOK, EntriesOK, DownloadTypeOK
  <2>2. stored[e].meta.etag # NoBundle
    BY <1>4, <2>1 DEF EntryOK, NoMeta
  <2>3. PICK c : c = stored[e].chunks
    OBVIOUS
  <2>4. DOMAIN c = 1 .. NumChunks /\ Len(c) = NumChunks
    BY <2>1, <2>3, ChunkCount DEF Entries
  <2>5. \A i \in 1 .. NumChunks : c[i] \in Of(stored[e].meta.etag)
    BY <2>1, <2>2, <2>3 DEF EntryOK, ChunksOf
  <2>6. FlattenSeq(c) \in Of(stored[e].meta.etag)
    BY <2>4, <2>5, OfFlattened
  <2> QED  BY <1>4, <2>3, <2>6, OfWhole
<1> QED  BY <1>2, <1>3, <1>4 DEF NeverSpliced

(* An empty entry, and a tab with nothing in hand.                         *)
LEMMA NothingOK ==
    /\ EntryOK(NoEntry)
    /\ \A b : ChunksOf(NoEntry, b)
    /\ \A e : HandOK(Closed, e)
<1>1. NoEntry.meta = NoMeta /\ NoMeta.etag = NoBundle
  BY DEF NoEntry, NoMeta
<1>2. ASSUME NEW b PROVE ChunksOf(NoEntry, b)
  BY OfNothing DEF ChunksOf, NoEntry
<1>3. ASSUME NEW e PROVE HandOK(Closed, e)
  BY DEF HandOK, Closed, Writing
<1> QED  BY <1>1, <1>2, <1>3 DEF EntryOK

(* An empty database and a closed tab hold no bundle at all.               *)
LEMMA PiecesInit ==
    ASSUME NEW t, Tabs = {t}
    PROVE  BrowserInit => PiecesInv(t)
<1> SUFFICES ASSUME BrowserInit PROVE PiecesInv(t)
  OBVIOUS
<1>1. DownloadTypeOK
  BY DownloadInitType DEF BrowserInit
<1>2. LookupsLoaded(t)
  BY DEF BrowserInit, LookupsLoaded, Idle
<1>3. ASSUME NEW e \in 1 .. MaxEpoch PROVE EntryOK(stored[e])
  BY NothingOK DEF BrowserInit, DownloadInit
<1>4. HandOK(tab[t], stored[tab[t].epoch])
  BY NothingOK DEF BrowserInit, DownloadInit
<1> QED  BY <1>1, <1>2, <1>3, <1>4 DEF PiecesInv, PiecesOK, EntriesOK

(* Evicting an entry leaves the others, or none.                           *)
LEMMA EvictedOK ==
    ASSUME NEW t, PiecesInv(t), NEW e, stored' = Evicted(e)
    PROVE  EntriesOK'
BY NothingOK DEF PiecesInv, PiecesOK, DownloadTypeOK, Evicted, EntriesOK

(* An entry whose meta record, or one of whose chunks, is written.         *)
LEMMA EntryPut ==
    ASSUME NEW t, PiecesInv(t), NEW e \in 1 .. MaxEpoch, NEW x, EntryOK(x),
           stored' = [stored EXCEPT ![e] = x]
    PROVE  EntriesOK' /\ stored'[e] = x
BY DEF PiecesInv, PiecesOK, DownloadTypeOK, EntriesOK

(* The stages that have nothing in hand.                                   *)
LEMMA EmptyHanded ==
    ASSUME NEW r, NEW e, ~r.cached,
           r.pc \in {"closed", "probing", "deciding", "resuming", "failed"}
              \/ (r.pc = "asking" /\ r.dest = <<>>)
    PROVE  HandOK(r, e)
BY DEF HandOK, Writing

(* A tab that moves, with what the database then holds.                    *)
LEMMA Moved ==
    ASSUME DownloadTypeOK, NEW t \in Tabs, NEW r, tab' = [tab EXCEPT ![t] = r],
           EntriesOK', HandOK(r, stored'[r.epoch])
    PROVE  PiecesOK(t)'
<1>1. tab'[t] = r
  BY DEF DownloadTypeOK
<1> QED  BY <1>1 DEF PiecesOK

(* The same where the database stays as it is.                             *)
LEMMA OnlyMoved ==
    ASSUME DownloadTypeOK, NEW t \in Tabs, NEW r, tab' = [tab EXCEPT ![t] = r], PiecesOK(t),
           UNCHANGED stored, HandOK(r, stored[r.epoch])
    PROVE  PiecesOK(t)'
<1>1. EntriesOK'
  BY DEF PiecesOK, EntriesOK
<1> QED  BY <1>1, Moved

(* What is known of a tab before it moves.                                 *)
LEMMA BeforeMove ==
    ASSUME NEW t \in Tabs, PiecesInv(t)
    PROVE  /\ tab[t] \in TabStates /\ TabOK(tab[t]) /\ HandOK(tab[t], stored[tab[t].epoch])
           /\ DownloadTypeOK /\ PiecesOK(t)
           /\ tab[t].pc \notin {"starting", "loaded", "failed"} => tab[t].cached = FALSE
<1>1. tab[t] \in TabStates /\ TabOK(tab[t]) /\ HandOK(tab[t], stored[tab[t].epoch])
  BY DEF PiecesInv, PiecesOK, DownloadTypeOK
<1>2. tab[t].cached \in BOOLEAN
  BY <1>1 DEF TabStates
<1> QED  BY <1>1, <1>2 DEF PiecesInv, HandOK

(* Each step of a load keeps pieces of one bundle together.  Opening and   *)
(* probing have none in hand.                                              *)
LEMMA ProbeHand ==
    ASSUME NEW t \in Tabs, PiecesInv(t), Open(t) \/ Probe(t)
    PROVE  PiecesOK(t)'
<1>1. /\ tab[t] \in TabStates /\ DownloadTypeOK /\ PiecesOK(t)
      /\ tab[t].pc \notin {"starting", "loaded", "failed"} => tab[t].cached = FALSE
  BY BeforeMove
<1>2. CASE Open(t)
  <2>1. tab[t].pc = "closed" /\ Step(t, "probing") /\ UNCHANGED stored
    BY <1>2 DEF Open
  <2>2. PICK r : r = [tab[t] EXCEPT !.pc = "probing"]
    OBVIOUS
  <2>3. r.pc = "probing" /\ r.cached = FALSE
    BY <1>1, <2>1, <2>2 DEF TabStates
  <2>4. tab' = [tab EXCEPT ![t] = r]
    BY <2>1, <2>2 DEF Step
  <2>5. HandOK(r, stored[r.epoch])
    BY <2>3, EmptyHanded
  <2> QED  BY <1>1, <2>1, <2>4, <2>5, OnlyMoved
<1>3. CASE Probe(t)
  <2>1. /\ tab[t].pc = "probing" /\ UNCHANGED stored
        /\ tab' = [tab EXCEPT ![t].pc = "deciding", ![t].epoch = server.epoch]
    BY <1>3 DEF Probe
  <2>2. PICK r : r = [tab[t] EXCEPT !.pc = "deciding", !.epoch = server.epoch]
    OBVIOUS
  <2>3. r.pc = "deciding" /\ r.cached = FALSE
    BY <1>1, <2>1, <2>2 DEF TabStates
  <2>4. tab' = [tab EXCEPT ![t] = r]
    BY <2>1, <2>2
  <2>5. HandOK(r, stored[r.epoch])
    BY <2>3, EmptyHanded
  <2> QED  BY <1>1, <2>1, <2>4, <2>5, OnlyMoved
<1> QED  BY <1>2, <1>3

(* The entry of a tab past its probe.                                      *)
LEMMA EntryHeld ==
    ASSUME NEW t \in Tabs, PiecesInv(t), tab[t].pc \notin {"closed", "probing", "failed"}
    PROVE  /\ tab[t].epoch \in 1 .. MaxEpoch
           /\ stored[tab[t].epoch] \in Entries /\ stored[tab[t].epoch].meta \in Metas
           /\ EntryOK(stored[tab[t].epoch])
BY EntryTyped DEF PiecesInv, PiecesOK, EntriesOK

(* A complete entry that is read back names the bundle it is of.           *)
LEMMA DecideHand ==
    ASSUME NEW t \in Tabs, PiecesInv(t), Decide(t)
    PROVE  PiecesOK(t)'
<1>1. /\ tab[t] \in TabStates /\ TabOK(tab[t]) /\ DownloadTypeOK /\ PiecesOK(t)
      /\ tab[t].pc \notin {"starting", "loaded", "failed"} => tab[t].cached = FALSE
  BY BeforeMove
<1>2. tab[t].pc = "deciding" /\ UNCHANGED stored
  BY DEF Decide
<1>3. PICK e : e = stored[tab[t].epoch]
  OBVIOUS
<1>4. PICK pc \in {"reading", "resuming"} : Step(t, pc) /\ (pc = "reading" => e.meta.complete)
  BY <1>3 DEF Decide
<1>5. PICK r : r = [tab[t] EXCEPT !.pc = pc]
  OBVIOUS
<1>6. r.pc = pc /\ r.cached = FALSE /\ r.dest = <<>> /\ r.epoch = tab[t].epoch
  BY <1>1, <1>2, <1>5 DEF TabStates, TabOK
<1>7. tab' = [tab EXCEPT ![t] = r]
  BY <1>4, <1>5 DEF Step
<1>8. HandOK(r, e)
  <2>1. CASE pc = "reading"
    <3>1. EntryOK(e)
      BY <1>2, <1>3, EntryHeld
    <3>2. e.meta.etag # NoBundle
      BY <1>4, <2>1, <3>1 DEF EntryOK, NoMeta
    <3>3. r.dest \in Of(e.meta.etag)
      BY <1>6, OfNothing
    <3> QED  BY <1>6, <2>1, <3>2, <3>3 DEF HandOK, Writing
  <2>2. CASE pc = "resuming"
    BY <1>6, <2>2, EmptyHanded
  <2> QED  BY <2>1, <2>2
<1> QED  BY <1>1, <1>2, <1>3, <1>6, <1>7, <1>8, OnlyMoved

(* So does a partial one that is resumed.                                  *)
LEMMA ResumeHand ==
    ASSUME NEW t \in Tabs, PiecesInv(t), Resume(t)
    PROVE  PiecesOK(t)'
<1>1. /\ tab[t] \in TabStates /\ TabOK(tab[t]) /\ DownloadTypeOK /\ PiecesOK(t)
      /\ tab[t].pc \notin {"starting", "loaded", "failed"} => tab[t].cached = FALSE
  BY BeforeMove
<1>2. tab[t].pc = "resuming" /\ UNCHANGED stored
  BY DEF Resume
<1>3. PICK e : e = stored[tab[t].epoch]
  OBVIOUS
<1>4. tab[t].dest = <<>>
  BY <1>1, <1>2 DEF TabOK
<1>5. CASE Step(t, "asking")
  <2>1. PICK r : r = [tab[t] EXCEPT !.pc = "asking"]
    OBVIOUS
  <2>2. r.pc = "asking" /\ r.cached = FALSE /\ r.dest = <<>>
    BY <1>1, <1>2, <1>4, <2>1 DEF TabStates
  <2>3. tab' = [tab EXCEPT ![t] = r]
    BY <1>5, <2>1 DEF Step
  <2>4. HandOK(r, stored[r.epoch])
    BY <2>2, EmptyHanded
  <2> QED  BY <1>1, <1>2, <2>3, <2>4, OnlyMoved
<1>6. CASE ~Step(t, "asking")
  <2>1. PICK n : n = e.meta.written \div ChunkLen
    OBVIOUS
  <2>2. /\ ~(e.meta.written = 0)
        /\ tab' = [tab EXCEPT ![t].pc = "replaying", ![t].etag = e.meta.etag, ![t].next = n]
    BY <1>3, <1>6, <2>1 DEF Resume
  <2>3. PICK r : r = [tab[t] EXCEPT !.pc = "replaying", !.etag = e.meta.etag, !.next = n]
    OBVIOUS
  <2>4. /\ r.pc = "replaying" /\ r.cached = FALSE /\ r.dest = <<>>
        /\ r.etag = e.meta.etag /\ r.epoch = tab[t].epoch
    BY <1>1, <1>2, <1>4, <2>3 DEF TabStates
  <2>5. tab' = [tab EXCEPT ![t] = r]
    BY <2>2, <2>3
  <2>6. e.meta.etag # NoBundle
    <3>1. EntryOK(e)
      BY <1>2, <1>3, EntryHeld
    <3> QED  BY <2>2, <3>1 DEF EntryOK, NoMeta
  <2>7. r.dest \in Of(r.etag)
    BY <2>4, OfNothing
  <2>8. HandOK(r, e)
    BY <2>4, <2>6, <2>7 DEF HandOK, Writing
  <2> QED  BY <1>1, <1>2, <1>3, <2>4, <2>5, <2>8, OnlyMoved
<1> QED  BY <1>5, <1>6

(* A tab that gave up has nothing to answer for.                           *)
LEMMA FailedHand == ASSUME NEW r, NEW e, r.pc = "failed" PROVE HandOK(r, e)
BY DEF HandOK, Writing

(* A tab that asks for the rest of a bundle, or writes it out.             *)
LEMMA FilledHand ==
    ASSUME NEW r, NEW e, r.cached = FALSE, r.pc \in {"asking"} \cup Writing,
           r.etag # NoBundle, r.dest \in Of(r.etag), e.meta.etag \in {NoBundle, r.etag},
           ChunksOf(e, r.etag),
           r.pc \in Writing => r.body = r.etag /\ r.mode = Complete(r.etag.epoch)
    PROVE  HandOK(r, e)
BY DEF HandOK, Writing

(* Reading a complete entry back joins pieces of one bundle.               *)
LEMMA ReadCachedHand ==
    ASSUME NEW t \in Tabs, PiecesInv(t), ReadCached(t)
    PROVE  PiecesOK(t)'
<1>1. /\ tab[t] \in TabStates /\ TabOK(tab[t]) /\ DownloadTypeOK /\ PiecesOK(t)
      /\ HandOK(tab[t], stored[tab[t].epoch])
      /\ tab[t].pc \notin {"starting", "loaded", "failed"} => tab[t].cached = FALSE
  BY BeforeMove
<1>2. tab[t].pc = "reading" /\ UNCHANGED stored
  BY Zenon DEF ReadCached
<1>3. PICK e : e = stored[tab[t].epoch]
  OBVIOUS
<1>4. e \in Entries /\ e.meta \in Metas /\ EntryOK(e)
  BY <1>2, <1>3, EntryHeld
<1>5. PICK b : b = e.meta.etag
  OBVIOUS
<1>6. b # NoBundle /\ tab[t].dest \in Of(b) /\ b \in Bundles
  <2>1. b # NoBundle /\ tab[t].dest \in Of(b)
    BY <1>1, <1>2, <1>3, <1>5 DEF HandOK
  <2>2. b \in Named
    BY <1>4, <1>5 DEF Metas
  <2> QED  BY <2>1, <2>2 DEF Named
<1>7. PICK chunk : chunk = e.chunks[tab[t].next + 1]
  OBVIOUS
<1>8. chunk \in Of(b)
  <2>1. tab[t].next \in Nat /\ tab[t].next < NumChunks /\ NumChunks \in Nat
    BY <1>1, <1>2, ChunkCount DEF TabOK, TabStates
  <2>2. tab[t].next + 1 \in 1 .. NumChunks
    BY <2>1
  <2> QED  BY <1>4, <1>5, <1>6, <1>7, <2>2 DEF EntryOK, ChunksOf
<1>9. PICK d : d = tab[t].dest \o chunk
  OBVIOUS
<1>10. d \in Of(b)
  BY <1>6, <1>8, <1>9, OfJoined
<1>11. \/ tab' = [tab EXCEPT ![t].pc = "resuming", ![t].dest = <<>>, ![t].next = 0]
       \/ tab' = [tab EXCEPT ![t].pc = "starting", ![t].dest = d, ![t].cached = TRUE,
                             ![t].mode = Complete(tab[t].epoch)]
       \/ tab' = [tab EXCEPT ![t].dest = d, ![t].next = @ + 1]
  BY Zenon, <1>3, <1>7, <1>9 DEF ReadCached
<1>12. CASE tab' = [tab EXCEPT ![t].pc = "resuming", ![t].dest = <<>>, ![t].next = 0]
  <2>1. PICK r : r = [tab[t] EXCEPT !.pc = "resuming", !.dest = <<>>, !.next = 0]
    OBVIOUS
  <2>2. r.pc = "resuming" /\ r.cached = FALSE
    BY <1>1, <1>2, <2>1 DEF TabStates
  <2>3. tab' = [tab EXCEPT ![t] = r]
    BY <1>12, <2>1
  <2>4. HandOK(r, stored[r.epoch])
    BY <2>2, EmptyHanded
  <2> QED  BY <1>1, <1>2, <2>3, <2>4, OnlyMoved
<1>13. CASE tab' = [tab EXCEPT ![t].pc = "starting", ![t].dest = d, ![t].cached = TRUE,
                               ![t].mode = Complete(tab[t].epoch)]
  <2>1. PICK m : m = Complete(tab[t].epoch)
    OBVIOUS
  <2>2. PICK r : r = [tab[t] EXCEPT !.pc = "starting", !.dest = d, !.cached = TRUE, !.mode = m]
    OBVIOUS
  <2>3. r.pc = "starting" /\ r.epoch = tab[t].epoch /\ r.dest = d /\ r.cached = TRUE /\ r.mode = m
    BY <1>1, <2>2 DEF TabStates
  <2>4. tab' = [tab EXCEPT ![t] = r]
    BY <1>13, <2>1, <2>2
  <2>5. HandOK(r, stored[r.epoch])
    BY <1>6, <1>10, <2>1, <2>3 DEF HandOK, Writing
  <2> QED  BY <1>1, <1>2, <2>4, <2>5, OnlyMoved
<1>14. CASE tab' = [tab EXCEPT ![t].dest = d, ![t].next = @ + 1]
  <2>1. PICK n : n = tab[t].next + 1
    OBVIOUS
  <2>2. PICK r : r = [tab[t] EXCEPT !.dest = d, !.next = n]
    OBVIOUS
  <2>3. r.pc = "reading" /\ r.epoch = tab[t].epoch /\ r.dest = d /\ r.cached = FALSE
    BY <1>1, <1>2, <2>2 DEF TabStates
  <2>4. tab' = [tab EXCEPT ![t] = r]
    BY <1>14, <2>1, <2>2
  <2>5. HandOK(r, e)
    BY <1>5, <1>6, <1>10, <2>3 DEF HandOK, Writing
  <2> QED  BY <1>1, <1>2, <1>3, <2>3, <2>4, <2>5, OnlyMoved
<1> QED  BY <1>11, <1>12, <1>13, <1>14

(* So does putting back the chunks of a partial one.                       *)
LEMMA ReplayHand ==
    ASSUME NEW t \in Tabs, PiecesInv(t), Replay(t)
    PROVE  PiecesOK(t)'
<1>1. /\ tab[t] \in TabStates /\ TabOK(tab[t]) /\ DownloadTypeOK /\ PiecesOK(t)
      /\ HandOK(tab[t], stored[tab[t].epoch])
      /\ tab[t].pc \notin {"starting", "loaded", "failed"} => tab[t].cached = FALSE
  BY BeforeMove
<1>2. tab[t].pc = "replaying"
  BY Zenon DEF Replay
<1>3. PICK e : e = stored[tab[t].epoch]
  OBVIOUS
<1>4. tab[t].epoch \in 1 .. MaxEpoch /\ e \in Entries /\ EntryOK(e)
  BY <1>2, <1>3, EntryHeld
<1>5. PICK b : b = tab[t].etag
  OBVIOUS
<1>6. b # NoBundle /\ b = e.meta.etag /\ tab[t].dest \in Of(b) /\ ChunksOf(e, b)
  BY <1>1, <1>2, <1>3, <1>4, <1>5 DEF HandOK, EntryOK
<1>7. PICK i : i = Len(tab[t].dest) \div ChunkLen + 1
  OBVIOUS
<1>8. PICK chunk : chunk = e.chunks[i]
  OBVIOUS
<1>9. PICK d : d = tab[t].dest \o chunk
  OBVIOUS
<1>10. \/ Step(t, "asking") /\ UNCHANGED stored
       \/ ~(i > tab[t].next) /\ tab' = [tab EXCEPT ![t].dest = d] /\ UNCHANGED stored
       \/ /\ tab' = [tab EXCEPT ![t].pc = "asking", ![t].dest = <<>>,
                                ![t].etag = NoBundle, ![t].next = 0]
          /\ stored' = Evicted(tab[t].epoch)
  BY Zenon, <1>3, <1>7, <1>8, <1>9 DEF Replay
<1>11. CASE Step(t, "asking") /\ UNCHANGED stored
  <2>1. PICK r : r = [tab[t] EXCEPT !.pc = "asking"]
    OBVIOUS
  <2>2. /\ r.pc = "asking" /\ r.epoch = tab[t].epoch /\ r.dest = tab[t].dest
        /\ r.cached = FALSE /\ r.etag = b
    BY <1>1, <1>2, <1>5, <2>1 DEF TabStates
  <2>3. tab' = [tab EXCEPT ![t] = r]
    BY <1>11, <2>1 DEF Step
  <2>4. HandOK(r, e)
    BY <1>6, <2>2, FilledHand DEF Writing
  <2> QED  BY <1>1, <1>3, <1>11, <2>2, <2>3, <2>4, OnlyMoved
<1>12. CASE ~(i > tab[t].next) /\ tab' = [tab EXCEPT ![t].dest = d] /\ UNCHANGED stored
  <2>1. i \in 1 .. NumChunks
    <3>1. PICK k \in Nat : k = Len(tab[t].dest) /\ tab[t].next \in Nat /\ tab[t].next <= NumChunks
      BY <1>1, <1>2 DEF TabOK, TabStates, Pieces
    <3>2. k \div ChunkLen \in Nat
      BY DownloadAssumption, DivMonotonic
    <3>3. PICK q \in Nat : q = k \div ChunkLen
      BY <3>2
    <3>4. i = q + 1
      BY <1>7, <3>1, <3>3
    <3>5. ~(i > tab[t].next)
      BY <1>12
    <3> QED  BY <3>1, <3>4, <3>5, ChunkCount
  <2>2. d \in Of(b)
    <3>1. chunk \in Of(b)
      BY <1>6, <1>8, <2>1 DEF ChunksOf
    <3> QED  BY <1>6, <1>9, <3>1, OfJoined
  <2>3. PICK r : r = [tab[t] EXCEPT !.dest = d]
    OBVIOUS
  <2>4. /\ r.pc = "replaying" /\ r.epoch = tab[t].epoch /\ r.dest = d
        /\ r.cached = FALSE /\ r.etag = b
    BY <1>1, <1>2, <1>5, <2>3 DEF TabStates
  <2>5. tab' = [tab EXCEPT ![t] = r]
    BY <1>12, <2>3
  <2>6. HandOK(r, e)
    BY <1>6, <2>2, <2>4 DEF HandOK, Writing
  <2> QED  BY <1>1, <1>3, <1>12, <2>4, <2>5, <2>6, OnlyMoved
<1>13. CASE /\ tab' = [tab EXCEPT ![t].pc = "asking", ![t].dest = <<>>,
                                  ![t].etag = NoBundle, ![t].next = 0]
            /\ stored' = Evicted(tab[t].epoch)
  <2>1. PICK r : r = [tab[t] EXCEPT !.pc = "asking", !.dest = <<>>, !.etag = NoBundle, !.next = 0]
    OBVIOUS
  <2>2. r.pc = "asking" /\ r.dest = <<>> /\ r.cached = FALSE
    BY <1>1, <1>2, <2>1 DEF TabStates
  <2>3. tab' = [tab EXCEPT ![t] = r]
    BY <1>13, <2>1
  <2>4. HandOK(r, stored'[r.epoch])
    BY <2>2, EmptyHanded
  <2>5. EntriesOK'
    BY <1>13, EvictedOK
  <2> QED  BY <1>1, <2>3, <2>4, <2>5, Moved
<1> QED  BY <1>10, <1>11, <1>12, <1>13

(* A wiped database, where the wipe does not fail.                         *)
LEMMA WipedOK ==
    ASSUME NEW t \in Tabs, PiecesInv(t), ~ClearsMayFail, Wipe
    PROVE  EntriesOK' /\ \A e \in 1 .. MaxEpoch : stored'[e] = NoEntry
<1>1. stored' = [e \in DOMAIN stored |-> NoEntry] /\ DOMAIN stored = 1 .. MaxEpoch
  BY DEF Wipe, PiecesInv, DownloadTypeOK
<1> QED  BY <1>1, NothingOK DEF EntriesOK

(* A range is honoured for the bundle in hand; otherwise the tab and the   *)
(* database have nothing of another bundle when the body begins.           *)
LEMMA AskHand ==
    ASSUME NEW t \in Tabs, PiecesInv(t), ~ClearsMayFail, Ask(t)
    PROVE  PiecesOK(t)'
<1>1. /\ tab[t] \in TabStates /\ TabOK(tab[t]) /\ DownloadTypeOK /\ PiecesOK(t)
      /\ HandOK(tab[t], stored[tab[t].epoch])
      /\ tab[t].pc \notin {"starting", "loaded", "failed"} => tab[t].cached = FALSE
  BY BeforeMove
<1>2. tab[t].pc = "asking"
  BY Zenon DEF Ask
<1>3. PICK e : e = stored[tab[t].epoch]
  OBVIOUS
<1>4. tab[t].epoch \in 1 .. MaxEpoch
  BY <1>2, EntryHeld
<1>5. PICK b \in Bundles : b = SetupBytes
  BY <1>1, SetupBytesTyped
<1>6. PICK m : m = Complete(b.epoch)
  OBVIOUS
<1>7. PICK none : none = <<>>
  OBVIOUS
<1>8. \/ /\ Len(tab[t].dest) > 0 /\ tab[t].etag = b
         /\ \E pc \in {"receiving", "failed"} :
               tab' = [tab EXCEPT ![t].pc = pc, ![t].etag = b, ![t].body = b, ![t].mode = m]
         /\ UNCHANGED stored
      \/ /\ tab' = [tab EXCEPT ![t].pc = "receiving", ![t].dest = none, ![t].next = 0,
                               ![t].etag = b, ![t].body = b, ![t].mode = m]
         /\ Wipe
  BY <1>5, <1>6, <1>7 DEF Ask, AnsweredInFull, RangeApplies
<1>9. b # NoBundle
  BY DEF Bundles, NoBundle, Bundle
<1>10. ASSUME Len(tab[t].dest) > 0, tab[t].etag = b, UNCHANGED stored,
              NEW pc \in {"receiving", "failed"},
              tab' = [tab EXCEPT ![t].pc = pc, ![t].etag = b, ![t].body = b, ![t].mode = m]
       PROVE  PiecesOK(t)'
  <2>1. PICK r : r = [tab[t] EXCEPT !.pc = pc, !.etag = b, !.body = b, !.mode = m]
    OBVIOUS
  <2>2. /\ r.pc = pc /\ r.epoch = tab[t].epoch /\ r.dest = tab[t].dest
        /\ r.cached = FALSE /\ r.etag = b /\ r.body = b /\ r.mode = m
    BY <1>1, <1>2, <2>1 DEF TabStates
  <2>3. tab[t].dest # <<>>
    BY <1>10
  <2>4. tab[t].dest \in Of(b) /\ e.meta.etag \in {NoBundle, b} /\ ChunksOf(e, b)
    BY <1>1, <1>2, <1>3, <1>10, <2>3 DEF HandOK
  <2>5. HandOK(r, e)
    <3>1. CASE pc = "receiving"
      BY <1>6, <1>9, <2>2, <2>4, <3>1, FilledHand DEF Writing
    <3>2. CASE pc = "failed"
      BY <2>2, <3>2, FailedHand
    <3> QED  BY <3>1, <3>2
  <2>6. tab' = [tab EXCEPT ![t] = r]
    BY <1>10, <2>1
  <2> QED  BY <1>1, <1>3, <1>10, <2>2, <2>5, <2>6, OnlyMoved
<1>11. CASE /\ tab' = [tab EXCEPT ![t].pc = "receiving", ![t].dest = none, ![t].next = 0,
                                  ![t].etag = b, ![t].body = b, ![t].mode = m]
            /\ Wipe
  <2>1. PICK r : r = [tab[t] EXCEPT !.pc = "receiving", !.dest = none, !.next = 0,
                                    !.etag = b, !.body = b, !.mode = m]
    OBVIOUS
  <2>2. /\ r.pc = "receiving" /\ r.epoch = tab[t].epoch /\ r.dest = none
        /\ r.cached = FALSE /\ r.etag = b /\ r.body = b /\ r.mode = m
    BY <1>1, <1>2, <2>1 DEF TabStates
  <2>3. EntriesOK' /\ stored'[r.epoch] = NoEntry
    BY <1>4, <1>11, <2>2, WipedOK
  <2>4. r.dest \in Of(b)
    BY <1>7, <2>2, OfNothing
  <2>5. NoEntry.meta.etag = NoBundle /\ ChunksOf(NoEntry, b)
    BY NothingOK DEF NoEntry, NoMeta
  <2>6. HandOK(r, NoEntry)
    BY <1>6, <1>9, <2>2, <2>4, <2>5, FilledHand DEF Writing
  <2>7. tab' = [tab EXCEPT ![t] = r]
    BY <1>11, <2>1
  <2> QED  BY <1>1, <2>3, <2>6, <2>7, Moved
<1> QED  BY <1>8, <1>10, <1>11

(* What is known while a body is received and written out.                 *)
LEMMA WritingHand ==
    ASSUME NEW t \in Tabs, PiecesInv(t), tab[t].pc \in Writing,
           NEW e, e = stored[tab[t].epoch], NEW b, b = tab[t].etag
    PROVE  /\ tab[t].epoch \in 1 .. MaxEpoch /\ e \in Entries /\ EntryOK(e)
           /\ b # NoBundle /\ b \in Bundles /\ tab[t].dest \in Of(b)
           /\ e.meta.etag \in {NoBundle, b} /\ ChunksOf(e, b)
           /\ tab[t].body = b /\ tab[t].mode = Complete(b.epoch) /\ tab[t].cached = FALSE
<1>1. /\ tab[t] \in TabStates /\ HandOK(tab[t], e)
      /\ tab[t].pc \notin {"starting", "loaded", "failed"} => tab[t].cached = FALSE
  BY BeforeMove
<1>2. tab[t].epoch \in 1 .. MaxEpoch /\ e \in Entries /\ EntryOK(e)
  BY EntryHeld DEF Writing
<1>3. /\ b # NoBundle /\ tab[t].dest \in Of(b)
      /\ e.meta.etag \in {NoBundle, b} /\ ChunksOf(e, b)
      /\ tab[t].body = b /\ tab[t].mode = Complete(b.epoch)
  BY <1>1 DEF HandOK
<1>4. b \in Bundles
  BY <1>1, <1>3 DEF TabStates, Named
<1>5. tab[t].cached = FALSE
  BY <1>1 DEF Writing
<1> QED  BY <1>2, <1>3, <1>4, <1>5

(* A piece of the body that arrives is of the bundle in hand.              *)
LEMMA ReceiveHand ==
    ASSUME NEW t \in Tabs, PiecesInv(t), Receive(t)
    PROVE  PiecesOK(t)'
<1>1. tab[t] \in TabStates /\ DownloadTypeOK /\ PiecesOK(t)
  BY BeforeMove
<1>2. tab[t].pc = "receiving" /\ UNCHANGED stored
  BY DEF Receive
<1>3. PICK e, b : e = stored[tab[t].epoch] /\ b = tab[t].etag
  OBVIOUS
<1>4. /\ b # NoBundle /\ tab[t].dest \in Of(b)
      /\ e.meta.etag \in {NoBundle, b} /\ ChunksOf(e, b)
      /\ tab[t].body = b /\ tab[t].mode = Complete(b.epoch) /\ tab[t].cached = FALSE
  BY <1>2, <1>3, WritingHand DEF Writing
<1>5. PICK d : d = Append(tab[t].dest, tab[t].body)
  OBVIOUS
<1>6. d \in Of(b)
  BY <1>4, <1>5, OfAppended
<1>7. PICK pc \in {"receiving", "flushing"} : tab' = [tab EXCEPT ![t].dest = d, ![t].pc = pc]
  BY <1>5 DEF Receive
<1>8. PICK r : r = [tab[t] EXCEPT !.dest = d, !.pc = pc]
  OBVIOUS
<1>9. /\ r.pc = pc /\ r.epoch = tab[t].epoch /\ r.body = tab[t].body /\ r.etag = b
      /\ r.dest = d /\ r.cached = tab[t].cached /\ r.mode = tab[t].mode
  BY <1>1, <1>3, <1>8 DEF TabStates
<1>10. HandOK(r, e)
  BY <1>4, <1>6, <1>9, FilledHand DEF Writing
<1>11. tab' = [tab EXCEPT ![t] = r]
  BY <1>7, <1>8
<1> QED  BY <1>1, <1>2, <1>3, <1>9, <1>10, <1>11, OnlyMoved

(* A chunk of the bundle in hand put into its entry, ...                   *)
LEMMA ChunkHeld ==
    ASSUME NEW t \in Tabs, PiecesInv(t), tab[t].pc \in Writing, NEW e, e = tab[t].epoch,
           NEW b, b = tab[t].etag, NEW n, NEW c \in Of(b),
           stored' = [stored EXCEPT ![e].chunks[n] = c]
    PROVE  /\ EntriesOK' /\ stored'[e].meta.etag \in {NoBundle, b}
           /\ ChunksOf(stored'[e], b)
<1>1. PICK y : y = stored[e]
  OBVIOUS
<1>2. /\ e \in 1 .. MaxEpoch /\ y \in Entries /\ EntryOK(y)
      /\ y.meta.etag \in {NoBundle, b} /\ ChunksOf(y, b)
  BY <1>1, WritingHand
<1>3. PICK x : x = [y EXCEPT !.chunks = [y.chunks EXCEPT ![n] = c]]
  OBVIOUS
<1>4. stored' = [stored EXCEPT ![e] = x]
  BY <1>1, <1>3
<1>5. x.meta = y.meta /\ x.chunks = [y.chunks EXCEPT ![n] = c]
  BY <1>2, <1>3 DEF Entries
<1>6. ChunksOf(x, b)
  <2>1. DOMAIN y.chunks = 1 .. NumChunks
    BY <1>2 DEF Entries
  <2>2. ASSUME NEW i \in 1 .. NumChunks PROVE x.chunks[i] \in Of(b)
    BY <1>2, <1>5, <2>1, <2>2 DEF ChunksOf
  <2> QED  BY <2>2 DEF ChunksOf
<1>7. EntryOK(x)
  BY <1>2, <1>5, <1>6 DEF EntryOK
<1>8. EntriesOK' /\ stored'[e] = x
  BY <1>2, <1>4, <1>7, EntryPut
<1>9. stored'[e].meta.etag \in {NoBundle, b}
  BY <1>2, <1>5, <1>8
<1>10. ChunksOf(stored'[e], b)
  BY <1>6, <1>8 DEF ChunksOf
<1> QED  BY <1>8, <1>9, <1>10

(* ... and a meta record that names it.                                    *)
LEMMA MetaHeld ==
    ASSUME NEW t \in Tabs, PiecesInv(t), tab[t].pc \in Writing, NEW e, e = tab[t].epoch,
           NEW b, b = tab[t].etag, NEW m, m.etag = b,
           stored' = [stored EXCEPT ![e].meta = m]
    PROVE  /\ EntriesOK' /\ stored'[e].meta.etag \in {NoBundle, b}
           /\ ChunksOf(stored'[e], b)
<1>1. PICK y : y = stored[e]
  OBVIOUS
<1>2. e \in 1 .. MaxEpoch /\ y \in Entries /\ b # NoBundle /\ ChunksOf(y, b)
  BY <1>1, WritingHand
<1>3. PICK x : x = [y EXCEPT !.meta = m]
  OBVIOUS
<1>4. stored' = [stored EXCEPT ![e] = x]
  BY <1>1, <1>3
<1>5. x.meta = m /\ x.chunks = y.chunks
  BY <1>2, <1>3 DEF Entries
<1>6. ChunksOf(x, b)
  BY <1>2, <1>5 DEF ChunksOf
<1>7. EntryOK(x)
  BY <1>2, <1>5, <1>6 DEF EntryOK
<1>8. EntriesOK' /\ stored'[e] = x
  BY <1>2, <1>4, <1>7, EntryPut
<1>9. stored'[e].meta.etag \in {NoBundle, b}
  BY <1>2, <1>5, <1>8
<1>10. ChunksOf(stored'[e], b)
  BY <1>6, <1>8 DEF ChunksOf
<1> QED  BY <1>8, <1>9, <1>10

(* A tab that goes on writing out the bundle in hand.                      *)
LEMMA WritesOn ==
    ASSUME NEW t \in Tabs, PiecesInv(t), tab[t].pc \in Writing,
           NEW pc \in Writing, NEW n, tab' = [tab EXCEPT ![t].pc = pc, ![t].next = n],
           EntriesOK', stored'[tab[t].epoch].meta.etag \in {NoBundle, tab[t].etag},
           ChunksOf(stored'[tab[t].epoch], tab[t].etag)
    PROVE  PiecesOK(t)'
<1>1. tab[t] \in TabStates /\ DownloadTypeOK /\ PiecesOK(t)
  BY BeforeMove
<1>2. PICK b : b = tab[t].etag
  OBVIOUS
<1>3. /\ b # NoBundle /\ tab[t].dest \in Of(b)
      /\ tab[t].body = b /\ tab[t].mode = Complete(b.epoch) /\ tab[t].cached = FALSE
  BY <1>2, WritingHand
<1>4. PICK r : r = [tab[t] EXCEPT !.pc = pc, !.next = n]
  OBVIOUS
<1>5. /\ r.pc = pc /\ r.epoch = tab[t].epoch /\ r.body = tab[t].body /\ r.etag = b
      /\ r.dest = tab[t].dest /\ r.cached = tab[t].cached /\ r.mode = tab[t].mode
  BY <1>1, <1>2, <1>4 DEF TabStates
<1>6. HandOK(r, stored'[r.epoch])
  BY <1>2, <1>3, <1>5, FilledHand DEF Writing
<1>7. tab' = [tab EXCEPT ![t] = r]
  BY <1>4
<1> QED  BY <1>1, <1>6, <1>7, Moved

(* The same with the counter of chunks as it is.                           *)
LEMMA StagesOn ==
    ASSUME NEW t \in Tabs, PiecesInv(t), tab[t].pc \in Writing,
           NEW pc \in Writing, Step(t, pc),
           EntriesOK', stored'[tab[t].epoch].meta.etag \in {NoBundle, tab[t].etag},
           ChunksOf(stored'[tab[t].epoch], tab[t].etag)
    PROVE  PiecesOK(t)'
<1>1. tab[t] \in TabStates /\ DownloadTypeOK
  BY BeforeMove
<1>2. PICK n : n = tab[t].next
  OBVIOUS
<1>3. PICK r : r = [tab[t] EXCEPT !.pc = pc, !.next = n]
  OBVIOUS
<1>4. r = [tab[t] EXCEPT !.pc = pc]
  BY <1>1, <1>2, <1>3 DEF TabStates
<1>5. tab' = [tab EXCEPT ![t] = r]
  BY <1>4 DEF Step
<1>6. tab' = [tab EXCEPT ![t].pc = pc, ![t].next = n]
  BY <1>3, <1>5
<1> QED  BY <1>6, WritesOn

(* What is not written leaves the entry as it was.                         *)
LEMMA NotWritten ==
    ASSUME NEW t \in Tabs, PiecesInv(t), tab[t].pc \in Writing, UNCHANGED stored
    PROVE  /\ EntriesOK' /\ stored'[tab[t].epoch].meta.etag \in {NoBundle, tab[t].etag}
           /\ ChunksOf(stored'[tab[t].epoch], tab[t].etag)
<1>1. /\ stored[tab[t].epoch].meta.etag \in {NoBundle, tab[t].etag}
      /\ ChunksOf(stored[tab[t].epoch], tab[t].etag)
  BY WritingHand
<1> QED  BY <1>1 DEF PiecesInv, PiecesOK, EntriesOK

(* A chunk is put, or is left for later.                                   *)
LEMMA FlushHand ==
    ASSUME NEW t \in Tabs, PiecesInv(t), Flush(t)
    PROVE  PiecesOK(t)'
<1>1. tab[t] \in TabStates /\ TabOK(tab[t])
  BY BeforeMove
<1>2. tab[t].pc = "flushing" /\ tab[t].pc \in Writing
  BY Zenon DEF Flush, Writing
<1>3. PICK b : b = tab[t].etag
  OBVIOUS
<1>4. tab[t].dest \in Seq({b})
  BY <1>2, <1>3, WritingHand DEF Of
<1>5. PICK n \in Nat : n = tab[t].next + 1
  BY <1>1 DEF TabStates
<1>6. PICK c : c = SubSeq(tab[t].dest, tab[t].next * ChunkLen + 1, tab[t].next * ChunkLen + ChunkLen)
  OBVIOUS
<1>7. \/ /\ stored' = [stored EXCEPT ![tab[t].epoch].chunks[n] = c]
         /\ tab' = [tab EXCEPT ![t].pc = "noting", ![t].next = n]
      \/ Step(t, "receiving") /\ UNCHANGED stored
  BY <1>3, <1>5, <1>6 DEF Flush
<1>8. c \in Of(b)
  <2>1. tab[t].next \in Nat /\ n * ChunkLen <= Len(tab[t].dest)
    BY <1>1, <1>2, <1>5 DEF TabOK, TabStates
  <2>2. ChunkLen \in Nat
    BY Sizes
  <2>3. PICK w \in Nat : w = tab[t].next * ChunkLen
    BY <2>1, <2>2, OneMore
  <2>4. PICK k \in Nat : k = n * ChunkLen
    BY <2>2, OneMore
  <2>5. (tab[t].next + 1) * ChunkLen = w + ChunkLen
    BY <2>1, <2>2, <2>3, OneMore
  <2>6. k <= Len(tab[t].dest) /\ k = w + ChunkLen
    BY <1>5, <2>1, <2>4, <2>5
  <2>7. SubSeq(tab[t].dest, w + 1, k) \in Seq({b})
    BY <1>4, <2>6, CutOut
  <2> QED  BY <1>6, <2>3, <2>6, <2>7 DEF Of
<1>9. CASE /\ stored' = [stored EXCEPT ![tab[t].epoch].chunks[n] = c]
           /\ tab' = [tab EXCEPT ![t].pc = "noting", ![t].next = n]
  <2>1. /\ EntriesOK' /\ stored'[tab[t].epoch].meta.etag \in {NoBundle, tab[t].etag}
        /\ ChunksOf(stored'[tab[t].epoch], tab[t].etag)
    BY <1>2, <1>3, <1>8, <1>9, ChunkHeld
  <2>2. "noting" \in Writing /\ tab' = [tab EXCEPT ![t].pc = "noting", ![t].next = n]
    BY <1>9 DEF Writing
  <2> QED  BY <1>2, <2>1, <2>2, WritesOn
<1>10. CASE Step(t, "receiving") /\ UNCHANGED stored
  BY <1>2, <1>10, NotWritten, StagesOn DEF Writing
<1> QED  BY <1>7, <1>9, <1>10

(* So is the meta record.                                                  *)
LEMMA NoteHand ==
    ASSUME NEW t \in Tabs, PiecesInv(t), Note(t)
    PROVE  PiecesOK(t)'
<1>1. tab[t].pc \in Writing
  BY Zenon DEF Note, Writing
<1>2. PICK m : m = Noted(tab[t], FALSE)
  OBVIOUS
<1>3. m.etag = tab[t].etag
  BY <1>2 DEF Noted
<1>4. stored' = [stored EXCEPT ![tab[t].epoch].meta = m] \/ UNCHANGED stored
  BY Zenon, <1>2 DEF Note
<1>5. /\ EntriesOK' /\ stored'[tab[t].epoch].meta.etag \in {NoBundle, tab[t].etag}
      /\ ChunksOf(stored'[tab[t].epoch], tab[t].etag)
  BY <1>1, <1>3, <1>4, MetaHeld, NotWritten
<1>6. PICK pc \in {"receiving", "flushing"} : Step(t, pc)
  BY DEF Note, Step
<1> QED  BY <1>1, <1>5, <1>6, StagesOn DEF Writing

(* And the last chunk.                                                     *)
LEMMA FinishHand ==
    ASSUME NEW t \in Tabs, PiecesInv(t), Finish(t)
    PROVE  PiecesOK(t)'
<1>1. tab[t] \in TabStates
  BY BeforeMove
<1>2. tab[t].pc \in Writing /\ Len(tab[t].dest) = Total /\ Step(t, "sealing")
  BY Zenon DEF Finish, Writing
<1>3. PICK b : b = tab[t].etag
  OBVIOUS
<1>4. tab[t].dest \in Seq({b})
  BY <1>2, <1>3, WritingHand DEF Of
<1>5. PICK c : c = SubSeq(tab[t].dest, tab[t].next * ChunkLen + 1, Total)
  OBVIOUS
<1>6. PICK n : n = tab[t].next + 1
  OBVIOUS
<1>7. UNCHANGED stored \/ stored' = [stored EXCEPT ![tab[t].epoch].chunks[n] = c]
  BY Zenon, <1>3, <1>5, <1>6 DEF Finish
<1>8. c \in Of(b)
  <2>1. tab[t].next \in Nat /\ ChunkLen \in Nat /\ Total \in Nat
    BY <1>1, Sizes DEF TabStates
  <2>2. PICK w \in Nat : w = tab[t].next * ChunkLen
    BY <2>1, OneMore
  <2>3. SubSeq(tab[t].dest, w + 1, Total) \in Seq({b})
    BY <1>2, <1>4, <2>1, CutOut
  <2> QED  BY <1>5, <2>2, <2>3 DEF Of
<1>9. /\ EntriesOK' /\ stored'[tab[t].epoch].meta.etag \in {NoBundle, tab[t].etag}
      /\ ChunksOf(stored'[tab[t].epoch], tab[t].etag)
  BY <1>2, <1>3, <1>7, <1>8, ChunkHeld, NotWritten
<1>10. "sealing" \in Writing
  BY DEF Writing
<1> QED  BY <1>2, <1>9, <1>10, StagesOn

(* A whole bundle is in hand when its entry is sealed.                     *)
LEMMA SealHand ==
    ASSUME NEW t \in Tabs, PiecesInv(t), Seal(t)
    PROVE  PiecesOK(t)'
<1>1. tab[t] \in TabStates /\ TabOK(tab[t]) /\ DownloadTypeOK
  BY BeforeMove
<1>2. tab[t].pc = "sealing" /\ tab[t].pc \in Writing /\ Step(t, "starting")
  BY Zenon DEF Seal, Writing
<1>3. PICK m : m = Noted(tab[t], TRUE)
  OBVIOUS
<1>4. m.etag = tab[t].etag
  BY <1>3 DEF Noted
<1>5. stored' = [stored EXCEPT ![tab[t].epoch].meta = m] \/ UNCHANGED stored
  BY Zenon, <1>3 DEF Seal
<1>6. EntriesOK'
  BY <1>2, <1>4, <1>5, MetaHeld, NotWritten
<1>7. PICK b : b = tab[t].etag
  OBVIOUS
<1>8. /\ b \in Bundles /\ tab[t].dest \in Of(b)
      /\ tab[t].mode = Complete(b.epoch) /\ tab[t].cached = FALSE
  BY <1>2, <1>7, WritingHand
<1>9. tab[t].dest[1] = b
  <2>1. Len(tab[t].dest) = Total
    BY <1>1, <1>2 DEF TabOK
  <2> QED  BY <1>8, <2>1, OfWhole
<1>10. PICK r : r = [tab[t] EXCEPT !.pc = "starting"]
  OBVIOUS
<1>11. r.pc = "starting" /\ r.dest = tab[t].dest /\ r.cached = tab[t].cached /\ r.mode = tab[t].mode
  BY <1>1, <1>10 DEF TabStates
<1>12. HandOK(r, stored'[r.epoch])
  BY <1>8, <1>9, <1>11 DEF HandOK, Writing
<1>13. tab' = [tab EXCEPT ![t] = r]
  BY <1>2, <1>10 DEF Step
<1> QED  BY <1>1, <1>6, <1>12, <1>13, Moved

(* A cached bundle of another epoch than its key's does not start.         *)
LEMMA StartHand ==
    ASSUME NEW t \in Tabs, PiecesInv(t), Start(t)
    PROVE  PiecesOK(t)'
<1>1. /\ tab[t] \in TabStates /\ DownloadTypeOK /\ PiecesOK(t)
      /\ HandOK(tab[t], stored[tab[t].epoch])
  BY BeforeMove
<1>2. tab[t].pc = "starting"
  BY DEF Start
<1>3. \/ Step(t, "failed") /\ stored' = Evicted(tab[t].epoch)
      \/ /\ ~(tab[t].cached /\ tab[t].dest[1].epoch # tab[t].epoch)
         /\ Step(t, "loaded") /\ UNCHANGED stored
  BY Zenon DEF Start
<1>4. CASE Step(t, "failed") /\ stored' = Evicted(tab[t].epoch)
  <2>1. PICK r : r = [tab[t] EXCEPT !.pc = "failed"]
    OBVIOUS
  <2>2. r.pc = "failed"
    BY <1>1, <2>1 DEF TabStates
  <2>3. tab' = [tab EXCEPT ![t] = r]
    BY <1>4, <2>1 DEF Step
  <2>4. EntriesOK'
    BY <1>4, EvictedOK
  <2>5. HandOK(r, stored'[r.epoch])
    BY <2>2, FailedHand
  <2> QED  BY <1>1, <2>3, <2>4, <2>5, Moved
<1>5. CASE /\ ~(tab[t].cached /\ tab[t].dest[1].epoch # tab[t].epoch)
           /\ Step(t, "loaded") /\ UNCHANGED stored
  <2>1. PICK r : r = [tab[t] EXCEPT !.pc = "loaded"]
    OBVIOUS
  <2>2. r.pc = "loaded" /\ r.dest = tab[t].dest /\ r.mode = tab[t].mode
    BY <1>1, <2>1 DEF TabStates
  <2>3. tab' = [tab EXCEPT ![t] = r]
    BY <1>5, <2>1 DEF Step
  <2>4. \E b \in Bundles : r.dest \in Of(b)
    BY <1>1, <1>2, <2>2 DEF HandOK
  <2>5. r.mode = Complete(r.dest[1].epoch)
    <3>1. tab[t].mode = Complete(IF tab[t].cached THEN tab[t].epoch ELSE tab[t].dest[1].epoch)
      BY <1>1, <1>2 DEF HandOK
    <3> QED  BY <1>5, <2>2, <3>1
  <2>6. HandOK(r, stored[r.epoch])
    BY <2>2, <2>4, <2>5 DEF HandOK, Writing
  <2> QED  BY <1>1, <1>5, <2>3, <2>6, OnlyMoved
<1> QED  BY <1>3, <1>4, <1>5

(* A download that stalls keeps what it has, and asks for the rest of it.  *)
LEMMA StallHand ==
    ASSUME NEW t \in Tabs, PiecesInv(t), Stall(t) \/ Break(t)
    PROVE  PiecesOK(t)'
<1>1. /\ tab[t] \in TabStates /\ DownloadTypeOK /\ PiecesOK(t)
      /\ HandOK(tab[t], stored[tab[t].epoch])
      /\ tab[t].pc \notin {"starting", "loaded", "failed"} => tab[t].cached = FALSE
  BY BeforeMove
<1>2. /\ tab[t].pc \in {"probing", "asking", "receiving"} /\ UNCHANGED stored
      /\ \/ Step(t, "failed")
         \/ /\ tab[t].pc # "probing" /\ tab[t].dest # <<>>
            /\ tab' = [tab EXCEPT ![t].pc = "asking", ![t].tries = @ + 1]
  BY DEF Stall, Break
<1>3. CASE Step(t, "failed")
  <2>1. PICK r : r = [tab[t] EXCEPT !.pc = "failed"]
    OBVIOUS
  <2>2. r.pc = "failed"
    BY <1>1, <2>1 DEF TabStates
  <2>3. tab' = [tab EXCEPT ![t] = r]
    BY <1>3, <2>1 DEF Step
  <2>4. HandOK(r, stored[r.epoch])
    BY <2>2, FailedHand
  <2> QED  BY <1>1, <1>2, <2>3, <2>4, OnlyMoved
<1>4. CASE /\ tab[t].pc # "probing" /\ tab[t].dest # <<>>
           /\ tab' = [tab EXCEPT ![t].pc = "asking", ![t].tries = @ + 1]
  <2>1. PICK k : k = tab[t].tries + 1
    OBVIOUS
  <2>2. PICK r : r = [tab[t] EXCEPT !.pc = "asking", !.tries = k]
    OBVIOUS
  <2>3. /\ r.pc = "asking" /\ r.epoch = tab[t].epoch /\ r.dest = tab[t].dest
        /\ r.cached = tab[t].cached /\ r.etag = tab[t].etag
    BY <1>1, <2>2 DEF TabStates
  <2>4. tab' = [tab EXCEPT ![t] = r]
    BY <1>4, <2>1, <2>2
  <2>5. PICK e : e = stored[tab[t].epoch]
    OBVIOUS
  <2>6. /\ r.etag # NoBundle /\ r.dest \in Of(r.etag)
        /\ e.meta.etag \in {NoBundle, r.etag} /\ ChunksOf(e, r.etag)
    BY <1>1, <1>2, <1>4, <2>3, <2>5 DEF HandOK, Writing
  <2>7. HandOK(r, e)
    BY <1>1, <1>2, <2>3, <2>6, FilledHand DEF Writing
  <2> QED  BY <1>1, <1>2, <2>3, <2>4, <2>5, <2>7, OnlyMoved
<1> QED  BY <1>2, <1>3, <1>4

(* A tab that is closed has nothing in hand.                               *)
LEMMA ClosedHand ==
    ASSUME NEW t \in Tabs, PiecesInv(t), tab' = [tab EXCEPT ![t] = Closed], UNCHANGED stored
    PROVE  PiecesOK(t)'
<1>1. DownloadTypeOK /\ PiecesOK(t)
  BY BeforeMove
<1> QED  BY <1>1, NothingOK, OnlyMoved

(* A loaded tab does not look at the database any more.                    *)
LEMMA LoadedHand ==
    ASSUME NEW r, NEW e, NEW f, r.pc = "loaded", HandOK(r, e)
    PROVE  HandOK(r, f)
BY DEF HandOK, Writing

(* A lookup that takes a step runs, and adds no tab.                       *)
LEMMA LookupMoves ==
    ASSUME NEW t \in Tabs, NEW l \in Lookups, Lookup(t, l)
    PROVE  lookup[t][l].pc # "idle" /\ DOMAIN lookup' = DOMAIN lookup
<1>1. CASE FindHead(t, l)
  <2>1. lookup[t][l].pc = "head"
    BY <1>1, Zenon DEF FindHead
  <2>2. DOMAIN lookup' = DOMAIN lookup
    BY <1>1 DEF FindHead, Query, Settle
  <2> QED  BY <2>1, <2>2
<1>2. CASE Sync(t, l)
  <2>1. lookup[t][l].pc = "sync"
    BY <1>2, Zenon DEF Sync
  <2>2. DOMAIN lookup' = DOMAIN lookup
    BY <1>2 DEF Sync, Stale, Query, Settle
  <2> QED  BY <2>1, <2>2
<1>3. CASE Answer(t, l)
  BY <1>3 DEF Answer, Stale, Settle
<1>4. CASE Accept(t, l)
  <2>1. lookup[t][l].pc = "answered"
    BY <1>4, Zenon DEF Accept
  <2>2. DOMAIN lookup' = DOMAIN lookup
    BY <1>4 DEF Accept, Settle
  <2> QED  BY <2>1, <2>2
<1>5. CASE Resync(t, l)
  <2>1. lookup[t][l].pc = "resync"
    BY <1>5, Zenon DEF Resync
  <2>2. DOMAIN lookup' = DOMAIN lookup
    BY <1>5 DEF Resync, Stale, Settle
  <2> QED  BY <2>1, <2>2
<1>6. CASE GiveUp(t, l)
  BY <1>6 DEF GiveUp, Settle
<1> QED  BY <1>1, <1>2, <1>3, <1>4, <1>5, <1>6 DEF Lookup

(* A lookup runs in a loaded tab, and leaves it there.                     *)
LEMMA LookupHand ==
    ASSUME NEW t \in Tabs, PiecesInv(t), NEW l \in Lookups, Submit(t, l) \/ Lookup(t, l)
    PROVE  PiecesOK(t)' /\ LookupsLoaded(t)'
<1>1. HandOK(tab[t], stored[tab[t].epoch]) /\ PiecesOK(t)
  BY BeforeMove
<1>2. UNCHANGED tab /\ (UNCHANGED stored \/ stored' = Evicted(SessionEpoch(t)))
  BY LookupDownloads
<1>3. tab[t].pc = "loaded"
  <2>1. CASE Submit(t, l)
    BY <2>1 DEF Submit
  <2>2. CASE Lookup(t, l)
    <3>1. lookup[t][l].pc # "idle"
      BY <2>2, LookupMoves
    <3> QED  BY <3>1 DEF PiecesInv, LookupsLoaded
  <2> QED  BY <2>1, <2>2
<1>4. EntriesOK'
  <2>1. CASE UNCHANGED stored
    BY <1>1, <2>1 DEF PiecesOK, EntriesOK
  <2>2. CASE stored' = Evicted(SessionEpoch(t))
    BY <2>2, EvictedOK
  <2> QED  BY <1>2, <2>1, <2>2
<1>5. HandOK(tab'[t], stored'[tab'[t].epoch])
  <2>1. HandOK(tab[t], stored'[tab[t].epoch])
    BY <1>1, <1>3, LoadedHand
  <2> QED  BY <1>2, <2>1
<1>6. DOMAIN lookup' = Tabs
  <2>1. DOMAIN lookup = Tabs
    BY DEF PiecesInv, LookupsLoaded
  <2>2. DOMAIN lookup' = DOMAIN lookup
    BY LookupMoves DEF Submit
  <2> QED  BY <2>1, <2>2
<1> QED  BY <1>2, <1>3, <1>4, <1>5, <1>6 DEF PiecesOK, LookupsLoaded

(* A step of a load, of whatever kind, has the pieces of one bundle.       *)
LEMMA LoadsHand ==
    ASSUME NEW t \in Tabs, PiecesInv(t), ~ClearsMayFail, Loads(t)
    PROVE  PiecesOK(t)'
BY ProbeHand, DecideHand, ResumeHand, ReadCachedHand, ReplayHand, AskHand, ReceiveHand,
   FlushHand, NoteHand, FinishHand, SealHand DEF Loads

(* Every step of page and server keeps pieces of one bundle together.      *)
LEMMA PiecesNext ==
    ASSUME NEW t, Tabs = {t}, ~ClearsMayFail
    PROVE  PiecesInv(t) /\ [BrowserNext]_browserVars => PiecesInv(t)'
<1> SUFFICES ASSUME PiecesInv(t), [BrowserNext]_browserVars PROVE PiecesInv(t)'
  OBVIOUS
<1> t \in Tabs
  OBVIOUS
<1>1. DownloadTypeOK /\ PiecesOK(t) /\ LookupsLoaded(t)
  BY DEF PiecesInv
<1>2. ASSUME UNCHANGED <<stored, tab>> PROVE PiecesOK(t)'
  BY <1>1, <1>2 DEF PiecesOK, EntriesOK
<1>3. ASSUME UNCHANGED lookup, tab[t].pc # "loaded" \/ UNCHANGED tab PROVE LookupsLoaded(t)'
  BY <1>1, <1>3 DEF LookupsLoaded
<1>4. ASSUME Forgotten(t) PROVE LookupsLoaded(t)'
  <2>1. DOMAIN lookup = Tabs /\ lookup' = [lookup EXCEPT ![t] = [l \in Lookups |-> Idle]]
    BY <1>1, <1>4 DEF Forgotten, LookupsLoaded
  <2>2. DOMAIN lookup' = Tabs /\ \A l \in Lookups : lookup'[t][l] = Idle
    BY <2>1
  <2> QED  BY <2>2 DEF LookupsLoaded, Idle
<1>5. CASE UNCHANGED browserVars
  <2>1. UNCHANGED <<server, stored, tab, faults, lookup>>
    BY <1>5 DEF browserVars, downloadVars
  <2>2. DownloadTypeOK'
    BY <1>1, <2>1 DEF DownloadTypeOK
  <2> QED  BY <1>2, <1>3, <2>1, <2>2 DEF PiecesInv
<1>6. CASE BrowserNext
  <2>1. DownloadTypeOK'
    BY <1>1, <1>6, DownloadNextType
  <2>2. CASE (Block \/ Rebootstrap) /\ UNCHANGED <<session, lookup>>
    <3>1. UNCHANGED <<stored, tab>>
      BY <2>2 DEF Block, Rebootstrap
    <3> QED  BY <1>2, <1>3, <2>1, <2>2, <3>1 DEF PiecesInv
  <2>3. CASE Loading(t)
    <3>1. PiecesOK(t)'
      BY <2>3, LoadsHand DEF Loading
    <3>2. tab[t].pc # "loaded" /\ UNCHANGED lookup
      BY <1>1, <2>3, LoadsTab DEF Loading
    <3> QED  BY <1>3, <2>1, <3>1, <3>2 DEF PiecesInv
  <2>4. CASE FromBundle(t)
    <3>1. PiecesOK(t)'
      BY <2>4, StartHand DEF FromBundle
    <3>2. tab[t].pc # "loaded" /\ UNCHANGED lookup
      BY <2>4 DEF FromBundle, Start
    <3> QED  BY <1>3, <2>1, <3>1, <3>2 DEF PiecesInv
  <2>5. CASE Leave(t) \/ Reloading(t)
    <3>1. tab' = [tab EXCEPT ![t] = Closed] /\ UNCHANGED stored /\ Forgotten(t)
      BY <2>5 DEF Leave, Reloading, Close, Reload
    <3> QED  BY <1>4, <2>1, <3>1, ClosedHand DEF PiecesInv
  <2>6. CASE (Stall(t) \/ Break(t)) /\ UNCHANGED <<session, lookup>>
    <3>1. PiecesOK(t)'
      BY <2>6, StallHand
    <3>2. tab[t].pc # "loaded"
      BY <1>1, <2>6, LoadsTab
    <3> QED  BY <1>3, <2>1, <2>6, <3>1, <3>2 DEF PiecesInv
  <2>7. ASSUME NEW l \in Lookups, Submit(t, l) \/ Lookup(t, l) PROVE PiecesInv(t)'
    BY <2>1, <2>7, LookupHand DEF PiecesInv
  <2> QED  BY <1>6, <2>2, <2>3, <2>4, <2>5, <2>6, <2>7 DEF BrowserNext
<1> QED  BY <1>5, <1>6

(* Where one tab has the database to itself and wiping it does not fail,   *)
(* what a tab starts from, and what a complete entry holds, is one bundle: *)
(* whatever stalls, resumes, refused writes, closed tabs and bootstraps of *)
(* the server came between the pieces.                                     *)
THEOREM BundlesAreNeverSpliced ==
    ASSUME NEW t, Tabs = {t}, ~ClearsMayFail
    PROVE  BrowserSpec => []NeverSpliced
<1>1. BrowserInit => PiecesInv(t)
  BY PiecesInit
<1>2. PiecesInv(t) /\ [BrowserNext]_browserVars => PiecesInv(t)'
  BY PiecesNext
<1>3. PiecesInv(t) => NeverSpliced
  BY PiecesInvImplies
<1> QED  BY <1>1, <1>2, <1>3, PTL DEF BrowserSpec
=============================================================================
