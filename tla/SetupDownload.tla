---------------------------- MODULE SetupDownload ----------------------------
(***************************************************************************)
(* How a browser tab gets the setup bundle: GET /setup with ranges and     *)
(* If-Range on the server's side; on the page's, a download that resumes   *)
(* after a stall, and a database of 16 MiB chunks that lets a later visit  *)
(* resume it or skip it.  A byte is a piece that remembers which bundle it *)
(* was cut from; every await of the page is a point where others may act.  *)
(***************************************************************************)
EXTENDS Integers, Sequences, SequencesExt

CONSTANTS Total,        \* length of a bundle, in pieces (fixed by the geometry)
          ChunkLen,     \* pieces of a database chunk
          MaxResumes,   \* MAX_SETUP_RESUME_ATTEMPTS
          FreshWindow,  \* blocks a cached bundle stays fresh for
          MaxBlock,     \* bound on the server's block
          MaxEpoch,     \* bound on bootstraps of the server
          MaxFaults,    \* bound on stalls, lost requests, closed tabs and refused writes
          ClearsMayFail,\* whether wiping the database may fail as well
          Tabs          \* browser tabs that share the database

ASSUME DownloadAssumption ==
    /\ {Total, ChunkLen, MaxEpoch} \subseteq Nat \ {0}
    /\ {MaxResumes, FreshWindow, MaxBlock, MaxFaults} \subseteq Nat
    /\ ClearsMayFail \in BOOLEAN

VARIABLES
    server, \* lineage epoch, block, and the bundle in the /setup cache
    stored, \* the database: per epoch, the meta record and the chunks
    tab,    \* per tab: where its load() stands
    faults  \* faults used up

downloadVars == <<server, stored, tab, faults>>

Bundle(e, b)  == [epoch |-> e, block |-> b]
NoBundle      == Bundle(0, 0)
NumChunks     == (Total + ChunkLen - 1) \div ChunkLen
NoMeta        == [etag |-> NoBundle, written |-> 0, complete |-> FALSE]
NoEntry       == [meta |-> NoMeta, chunks |-> [i \in 1 .. NumChunks |-> <<>>]]

(* Which deployments hold the complete set.                                *)
Complete(e) == e % 2 = 1

Closed == [pc |-> "closed", epoch |-> 0, dest |-> <<>>, etag |-> NoBundle, next |-> 0,
           tries |-> 0, body |-> NoBundle, cached |-> FALSE, mode |-> FALSE]

DownloadInit ==
    /\ server = [epoch |-> 1, block |-> 0, bundle |-> NoBundle]
    /\ stored = [e \in 1 .. MaxEpoch |-> NoEntry]
    /\ tab = [t \in Tabs |-> Closed]
    /\ faults = 0

Fault == /\ faults < MaxFaults
         /\ faults' = faults + 1

-----------------------------------------------------------------------------
(* The server.                                                             *)

Block == /\ server.block < MaxBlock
         /\ server' = [server EXCEPT !.block = @ + 1]
         /\ UNCHANGED <<stored, tab, faults>>

(* A new bootstrap: other seeds, hence another epoch, and an empty cache.  *)
Rebootstrap ==
    /\ server.epoch < MaxEpoch
    /\ server' = [server EXCEPT !.epoch = @ + 1, !.bundle = NoBundle]
    /\ UNCHANGED <<stored, tab, faults>>

(* The bundle /setup serves now: the cached one while it is fresh.         *)
SetupBytes ==
    IF server.bundle # NoBundle /\ server.block - server.bundle.block <= FreshWindow
    THEN server.bundle
    ELSE Bundle(server.epoch, server.block)

(* Mutant of RangeApplies: a range is honoured whatever If-Range names.    *)
RangeAlways(first, ifRange, b) == first > 0

(* A range is honoured only when If-Range names the very bundle.           *)
RangeApplies(first, ifRange, b) == first > 0 /\ ifRange = b

-----------------------------------------------------------------------------
(* The page.                                                               *)

Step(t, pc) == tab' = [tab EXCEPT ![t].pc = pc]

(* Evicting an epoch's entry wipes the whole database, if it has one.      *)
Evicted(e) == IF stored[e].meta = NoMeta THEN stored
              ELSE [f \in DOMAIN stored |-> NoEntry]

(* load() starts by asking /head for the epoch.                            *)
Open(t) ==
    /\ tab[t].pc = "closed"
    /\ Step(t, "probing")
    /\ UNCHANGED <<server, stored, faults>>

Probe(t) ==
    /\ tab[t].pc = "probing"
    /\ tab' = [tab EXCEPT ![t].pc = "deciding", ![t].epoch = server.epoch]
    /\ UNCHANGED <<server, stored, faults>>

(* A complete entry is read back; ...                                      *)
Decide(t) ==
    /\ tab[t].pc = "deciding"
    /\ Step(t, IF stored[tab[t].epoch].meta.complete THEN "reading" ELSE "resuming")
    /\ UNCHANGED <<server, stored, faults>>

(* ... the meta record is read again, and a partial one is resumed.        *)
Resume(t) ==
    LET meta == stored[tab[t].epoch].meta IN
    /\ tab[t].pc = "resuming"
    /\ IF meta.complete \/ meta.written = 0
       THEN Step(t, "asking")
       ELSE tab' = [tab EXCEPT ![t].pc = "replaying", ![t].etag = meta.etag,
                               ![t].next = meta.written \div ChunkLen]
    /\ UNCHANGED <<server, stored, faults>>

(* A complete entry is used only if its chunks make up the whole length.   *)
ReadCached(t) ==
    LET s == tab[t]
        chunk == stored[s.epoch].chunks[s.next + 1]
        dest == s.dest \o chunk
        last == s.next + 1 = NumChunks IN
    /\ s.pc = "reading"
    /\ IF chunk = <<>> \/ Len(dest) > Total \/ (last /\ Len(dest) < Total)
       THEN tab' = [tab EXCEPT ![t].pc = "resuming", ![t].dest = <<>>, ![t].next = 0]
       ELSE IF last
       THEN tab' = [tab EXCEPT ![t].pc = "starting", ![t].dest = dest, ![t].cached = TRUE,
                               ![t].mode = Complete(s.epoch)]
       ELSE tab' = [tab EXCEPT ![t].dest = dest, ![t].next = @ + 1]
    /\ UNCHANGED <<server, stored, faults>>

(* The chunks a partial entry counts are put back, each of full length;    *)
(* otherwise the entry is evicted and the download starts afresh.          *)
Replay(t) ==
    LET s == tab[t]
        i == Len(s.dest) \div ChunkLen + 1
        chunk == stored[s.epoch].chunks[i] IN
    /\ s.pc = "replaying"
    /\ IF i > s.next THEN /\ Step(t, "asking")
                          /\ UNCHANGED stored
       ELSE IF Len(chunk) = ChunkLen
       THEN /\ tab' = [tab EXCEPT ![t].dest = @ \o chunk]
            /\ UNCHANGED stored
       ELSE /\ tab' = [tab EXCEPT ![t].pc = "asking", ![t].dest = <<>>,
                                  ![t].etag = NoBundle, ![t].next = 0]
            /\ stored' = Evicted(s.epoch)
    /\ UNCHANGED <<server, faults>>

(* Before a download starts at its first byte, the database is wiped.      *)
Wipe ==
    \/ /\ stored' = [e \in DOMAIN stored |-> NoEntry]
       /\ UNCHANGED faults
    \/ /\ ClearsMayFail /\ Fault
       /\ UNCHANGED stored

(* Mutant of AnsweredInFull: a resume of a bundle that is gone just fails. *)
AnsweredInFullOrNot(t, b) ==
    /\ tab' = [tab EXCEPT ![t].pc = IF tab[t].dest = <<>> THEN "receiving" ELSE "failed",
                          ![t].etag = b, ![t].body = b, ![t].mode = Complete(b.epoch)]
    /\ IF tab[t].dest = <<>> THEN Wipe ELSE UNCHANGED <<stored, faults>>

(* A 200 may be another bundle than the one a range was asked of: what was *)
(* there of that goes, here and in the database, and its own body is read. *)
AnsweredInFull(t, b) ==
    /\ tab' = [tab EXCEPT ![t].pc = "receiving", ![t].dest = <<>>, ![t].next = 0,
                          ![t].etag = b, ![t].body = b, ![t].mode = Complete(b.epoch)]
    /\ Wipe

(* GET /setup, from the piece after the last one in hand.  A range that    *)
(* starts at the end is a 416, which ends the load.                        *)
Ask(t) ==
    LET s == tab[t]
        b == SetupBytes IN
    /\ s.pc = "asking"
    /\ server' = [server EXCEPT !.bundle = b]
    /\ IF RangeApplies(Len(s.dest), s.etag, b)
       THEN /\ tab' = [tab EXCEPT ![t].pc = IF Len(s.dest) < Total THEN "receiving" ELSE "failed",
                                  ![t].etag = b, ![t].body = b, ![t].mode = Complete(b.epoch)]
            /\ UNCHANGED <<stored, faults>>
       ELSE AnsweredInFull(t, b)

(* More of the body arrives; a chunk that is full now is written out.      *)
Receive(t) ==
    LET s == tab[t]
        dest == Append(s.dest, s.body) IN
    /\ s.pc = "receiving" /\ Len(s.dest) < Total
    /\ tab' = [tab EXCEPT ![t].dest = dest,
                  ![t].pc = IF (s.next + 1) * ChunkLen <= Len(dest) THEN "flushing" ELSE "receiving"]
    /\ UNCHANGED <<server, stored, faults>>

(* The chunk is put, under the epoch /head named; a refused write only     *)
(* means it is tried again later.                                          *)
Flush(t) ==
    LET s == tab[t]
        from == s.next * ChunkLen IN
    /\ s.pc = "flushing"
    /\ \/ /\ stored' = [stored EXCEPT ![s.epoch].chunks[s.next + 1] =
                                         SubSeq(s.dest, from + 1, from + ChunkLen)]
          /\ tab' = [tab EXCEPT ![t].pc = "noting", ![t].next = @ + 1]
          /\ UNCHANGED faults
       \/ /\ Fault
          /\ Step(t, "receiving")
          /\ UNCHANGED stored
    /\ UNCHANGED server

Noted(s, complete) ==
    [etag |-> s.etag, written |-> IF complete THEN Total ELSE s.next * ChunkLen,
     complete |-> complete]

(* The meta record follows its chunk, in a transaction of its own.         *)
Note(t) ==
    LET s == tab[t] IN
    /\ s.pc = "noting"
    /\ \/ /\ stored' = [stored EXCEPT ![s.epoch].meta = Noted(s, FALSE)]
          /\ UNCHANGED faults
       \/ /\ Fault
          /\ UNCHANGED stored
    /\ tab' = [tab EXCEPT ![t].pc = IF (s.next + 1) * ChunkLen <= Len(s.dest)
                                    THEN "flushing" ELSE "receiving"]
    /\ UNCHANGED server

(* The body ends: what no chunk holds yet is put as the last one, ...      *)
Finish(t) ==
    LET s == tab[t]
        tail == SubSeq(s.dest, s.next * ChunkLen + 1, Total) IN
    /\ s.pc = "receiving" /\ Len(s.dest) = Total
    /\ \/ /\ stored' = IF tail = <<>> THEN stored
                       ELSE [stored EXCEPT ![s.epoch].chunks[s.next + 1] = tail]
          /\ UNCHANGED faults
       \/ /\ tail # <<>> /\ Fault
          /\ UNCHANGED stored
    /\ Step(t, "sealing")
    /\ UNCHANGED server

(* ... and the entry is marked complete, whether or not that was written.  *)
Seal(t) ==
    LET s == tab[t] IN
    /\ s.pc = "sealing"
    /\ \/ /\ stored' = [stored EXCEPT ![s.epoch].meta = Noted(s, TRUE)]
          /\ UNCHANGED faults
       \/ /\ Fault
          /\ UNCHANGED stored
    /\ Step(t, "starting")
    /\ UNCHANGED server

(* risepir_init takes the epoch from the seeds in the bundle's header; a   *)
(* cached one of another epoch than its key is evicted and refused.        *)
Start(t) ==
    LET s == tab[t] IN
    /\ s.pc = "starting"
    /\ IF s.cached /\ s.dest[1].epoch # s.epoch
       THEN /\ Step(t, "failed")
            /\ stored' = Evicted(s.epoch)
       ELSE /\ Step(t, "loaded")
            /\ UNCHANGED stored
    /\ UNCHANGED <<server, faults>>

(* 45 s without a byte: a download that has some asks for the rest.        *)
Stall(t) ==
    LET s == tab[t] IN
    /\ s.pc \in {"probing", "asking", "receiving"}
    /\ Fault
    /\ IF s.pc # "probing" /\ s.dest # <<>> /\ s.tries < MaxResumes
       THEN tab' = [tab EXCEPT ![t].pc = "asking", ![t].tries = @ + 1]
       ELSE Step(t, "failed")
    /\ UNCHANGED <<server, stored>>

(* The connection breaks, or the tab is closed between any two awaits.     *)
Break(t) ==
    /\ tab[t].pc \in {"probing", "asking", "receiving"}
    /\ Fault
    /\ Step(t, "failed")
    /\ UNCHANGED <<server, stored>>

Close(t) ==
    /\ tab[t].pc \notin {"closed", "failed"}
    /\ Fault
    /\ tab' = [tab EXCEPT ![t] = Closed]
    /\ UNCHANGED <<server, stored>>

(* The visitor does what the page says: reload it.                         *)
Reload(t) ==
    /\ tab[t].pc = "failed"
    /\ tab' = [tab EXCEPT ![t] = Closed]
    /\ UNCHANGED <<server, stored, faults>>

(* One step of load(), whatever it is waiting for.                         *)
Loads(t) ==
    \/ Open(t) \/ Probe(t) \/ Decide(t) \/ Resume(t) \/ ReadCached(t) \/ Replay(t) \/ Ask(t)
    \/ Receive(t) \/ Flush(t) \/ Note(t) \/ Finish(t) \/ Seal(t)

-----------------------------------------------------------------------------
(* Whole: of full length, and every piece cut from the bundle named.       *)
Whole(pieces, b) == pieces = [i \in 1 .. Total |-> b]

(* A tab starts from one bundle, and a complete entry of the database      *)
(* whose chunks are all there holds one: never the front of a bundle       *)
(* joined to the back of another that the server encoded later, however    *)
(* often the download stalled, was resumed, or was left in between.  And   *)
(* the flag that decides whether an absent account reads as zero is that   *)
(* of the bootstrap the tab's bundle came from, even when the server was   *)
(* bootstrapped anew between /head and /setup or between two visits.       *)
NeverSpliced ==
    /\ \A t \in Tabs :
          /\ tab[t].pc \in {"starting", "loaded"} => Whole(tab[t].dest, tab[t].dest[1])
          /\ tab[t].pc = "loaded" => tab[t].mode = Complete(tab[t].dest[1].epoch)
    /\ \A e \in DOMAIN stored :
          LET pieces == FlattenSeq(stored[e].chunks) IN
          stored[e].meta.complete /\ Len(pieces) = Total => Whole(pieces, stored[e].meta.etag)
=============================================================================
