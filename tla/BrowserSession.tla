---------------------------- MODULE BrowserSession ----------------------------
(***************************************************************************)
(* The page that has loaded its bundle: getBalance of pir.js, the lookups  *)
(* app.js starts, and the one wasm session behind them, which holds one    *)
(* accumulated delta and at most one query in flight.  Each await of       *)
(* getBalance is a point where another lookup of the same page may run.    *)
(***************************************************************************)
EXTENDS SetupDownload

CONSTANTS RingCapacity, \* blocks whose deltas the server keeps
          Lookups,      \* the addresses looked up
          Overlap       \* whether a lookup may start while another runs

ASSUME BrowserAssumption ==
    /\ RingCapacity \in Nat \ {0} /\ Overlap \in BOOLEAN
    /\ Lookups \subseteq Nat \ {0}

VARIABLES
    session, \* per tab: the wasm session
    lookup   \* per tab and address: where getBalance stands, and the last outcome

browserVars == <<downloadVars, session, lookup>>

Nobody    == 0
NoSession == [head |-> 0, added |-> [b \in 1 .. MaxBlock |-> 0], foreign |-> FALSE,
              inFlight |-> Nobody]
Idle      == [pc |-> "idle", to |-> 0, from |-> 0, at |-> 0, by |-> 0, outcome |-> "none"]

BrowserInit ==
    /\ DownloadInit
    /\ session = [t \in Tabs |-> NoSession]
    /\ lookup = [t \in Tabs |-> [l \in Lookups |-> Idle]]

Pinned(t)       == tab[t].dest[1].block
SessionEpoch(t) == tab[t].dest[1].epoch

(* A session starts with an empty delta at the block of its bundle.        *)
FromBundle(t) ==
    /\ Start(t)
    /\ session' = [session EXCEPT ![t] = [NoSession EXCEPT !.head = Pinned(t)]]
    /\ UNCHANGED lookup

(* Leaving the page loses the session and whatever ran in it.              *)
Forgotten(t) ==
    /\ session' = [session EXCEPT ![t] = NoSession]
    /\ lookup' = [lookup EXCEPT ![t] = [l \in Lookups |-> Idle]]

(* The visitor closes the tab, or reloads it because a lookup said so.     *)
Leave(t) ==
    /\ \/ Close(t)
       \/ /\ \E l \in Lookups : lookup[t][l].outcome \in {"stale", "refused"}
          /\ tab' = [tab EXCEPT ![t] = Closed]
          /\ UNCHANGED <<server, stored, faults>>
    /\ Forgotten(t)

-----------------------------------------------------------------------------
(* The wasm session.                                                       *)

(* Mutant of Finished: the delta need not have reached the answer's block. *)
FinishedAnyhow(s, at) == TRUE

(* The answer is decoded once the delta reaches exactly its block.         *)
Finished(s, at) == s.head = at

(* What decoding lookup l's answer shows: the balance at its block if the  *)
(* query is l's, answer and deltas are of the hint's lineage, and each     *)
(* block's delta since the hint is in once; anything else is garbage.      *)
Decoded(t, s, l) ==
    IF /\ s.inFlight = l
       /\ ~s.foreign /\ lookup[t][l].by = SessionEpoch(t)
       /\ \A b \in 1 .. MaxBlock :
             s.added[b] = IF Pinned(t) < b /\ b <= lookup[t][l].at THEN 1 ELSE 0
    THEN "right" ELSE "garbage"

(* A delta is taken if it reaches beyond the ones before it; where it      *)
(* starts is not looked at.                                                *)
Forward(s, to) == to > s.head

Ingested(t, from, to) ==
    [session[t] EXCEPT !.head = to, !.foreign = @ \/ server.epoch # SessionEpoch(t),
              !.added = [b \in 1 .. MaxBlock |-> @[b] + IF from < b /\ b <= to THEN 1 ELSE 0]]

-----------------------------------------------------------------------------
(* The server's side of a lookup.                                          *)

(* /sync and /answer serve the lineage the page names, and no other.       *)
EpochGate(t) == server.epoch = SessionEpoch(t)

(* The deltas after from are still in the ring.                            *)
Bridged(from) == from >= server.block - RingCapacity

-----------------------------------------------------------------------------
(* getBalance.                                                             *)

Running(t, l) == lookup[t][l].pc # "idle"

(* The lookup ends; a query left in flight in the session stays there.     *)
Settle(t, l, outcome) == lookup' = [lookup EXCEPT ![t][l] = [Idle EXCEPT !.outcome = outcome]]

(* The form is submitted.  Its button is disabled while a lookup runs, but *)
(* a suggested address submits the form without it.                        *)
Submit(t, l) ==
    /\ tab[t].pc = "loaded" /\ ~Running(t, l)
    /\ Overlap \/ \A k \in Lookups : ~Running(t, k)
    /\ lookup' = [lookup EXCEPT ![t][l] = [Idle EXCEPT !.pc = "head"]]
    /\ UNCHANGED <<downloadVars, session>>

(* risepir_query: one query at a time, the session s being as given.       *)
Query(t, l, s) ==
    IF s.inFlight # Nobody
    THEN /\ Settle(t, l, "refused")
         /\ session' = [session EXCEPT ![t] = s]
    ELSE /\ lookup' = [lookup EXCEPT ![t][l].pc = "answer"]
         /\ session' = [session EXCEPT ![t] = [s EXCEPT !.inFlight = l]]

(* GET /head; if the page is behind, the deltas up to there are asked for. *)
FindHead(t, l) ==
    LET s == session[t] IN
    /\ lookup[t][l].pc = "head"
    /\ IF server.block <= s.head THEN Query(t, l, s)
       ELSE /\ lookup' = [lookup EXCEPT ![t][l].pc = "sync", ![t][l].from = s.head,
                                        ![t][l].to = server.block]
            /\ UNCHANGED session
    /\ UNCHANGED downloadVars

(* A 409: the database entry of this lineage goes with the session.        *)
Stale(t, l) ==
    /\ Settle(t, l, "stale")
    /\ stored' = Evicted(SessionEpoch(t))
    /\ UNCHANGED <<server, tab, faults, session>>

Sync(t, l) ==
    LET k == lookup[t][l] IN
    /\ k.pc = "sync"
    /\ IF ~(EpochGate(t) /\ Bridged(k.from)) THEN Stale(t, l)
       ELSE /\ IF Forward(session[t], k.to)
               THEN Query(t, l, Ingested(t, k.from, k.to))
               ELSE /\ Settle(t, l, "error")
                    /\ UNCHANGED session
            /\ UNCHANGED downloadVars

(* The server answers at the block it stands at; the answer is on its way. *)
Answer(t, l) ==
    /\ lookup[t][l].pc = "answer"
    /\ IF ~EpochGate(t) THEN Stale(t, l)
       ELSE /\ lookup' = [lookup EXCEPT ![t][l].pc = "answered", ![t][l].at = server.block,
                                        ![t][l].by = server.epoch]
            /\ UNCHANGED <<downloadVars, session>>

(* risepir_finish; an answer ahead of the delta asks for one more sync, an *)
(* answer behind it cannot be finished any more.                           *)
Accept(t, l) ==
    LET k == lookup[t][l]
        s == session[t] IN
    /\ k.pc = "answered"
    /\ IF Finished(s, k.at)
       THEN /\ Settle(t, l, Decoded(t, s, l))
            /\ session' = [session EXCEPT ![t].inFlight = Nobody]
       ELSE /\ IF k.at > s.head
               THEN lookup' = [lookup EXCEPT ![t][l].pc = "resync", ![t][l].from = s.head]
               ELSE Settle(t, l, "error")
            /\ UNCHANGED session
    /\ UNCHANGED downloadVars

(* The second sync, up to the answer's block, and the second finish.       *)
Resync(t, l) ==
    LET k == lookup[t][l]
        s == Ingested(t, k.from, k.at) IN
    /\ k.pc = "resync"
    /\ IF ~(EpochGate(t) /\ Bridged(k.from)) THEN Stale(t, l)
       ELSE /\ IF Forward(session[t], k.at)
               THEN /\ Settle(t, l, Decoded(t, s, l))
                    /\ session' = [session EXCEPT ![t] = [s EXCEPT !.inFlight = Nobody]]
               ELSE /\ Settle(t, l, "error")
                    /\ UNCHANGED session
            /\ UNCHANGED downloadVars

(* Mutant of GiveUp: a lookup that gets no answer waits for one.           *)
KeepWaiting(t, l) == /\ lookup[t][l].pc = "head"
                     /\ Settle(t, l, "timeout")
                     /\ UNCHANGED <<downloadVars, session>>

(* Silence for 45 s, or a broken connection, ends the lookup.              *)
GiveUp(t, l) ==
    /\ lookup[t][l].pc \in {"head", "sync", "answer", "resync"}
    /\ Settle(t, l, "timeout")
    /\ UNCHANGED <<downloadVars, session>>

Loading(t) == Loads(t) /\ UNCHANGED <<session, lookup>>

Reloading(t) == Reload(t) /\ Forgotten(t)

Lookup(t, l) ==
    \/ FindHead(t, l) \/ Sync(t, l) \/ Answer(t, l) \/ Accept(t, l) \/ Resync(t, l) \/ GiveUp(t, l)

BrowserNext ==
    \/ (Block \/ Rebootstrap) /\ UNCHANGED <<session, lookup>>
    \/ \E t \in Tabs :
          \/ Loading(t) \/ FromBundle(t) \/ Leave(t) \/ Reloading(t)
          \/ (Stall(t) \/ Break(t)) /\ UNCHANGED <<session, lookup>>
    \/ \E t \in Tabs, l \in Lookups : Submit(t, l) \/ Lookup(t, l)

(* A load goes on (its stalls are faults, which run out), the visitor      *)
(* reloads a page that failed, and the page's own timer ends a lookup that *)
(* waits.  No lookup is owed an answer; blocks, closed tabs and submits    *)
(* need not happen either.                                                 *)
BrowserSpec ==
    /\ BrowserInit /\ [][BrowserNext]_browserVars
    /\ \A t \in Tabs : WF_browserVars(Loading(t) \/ FromBundle(t) \/ Reloading(t))
    /\ \A t \in Tabs, l \in Lookups : WF_browserVars(Accept(t, l) \/ GiveUp(t, l))

-----------------------------------------------------------------------------
(* No lookup shows what decoding the answer of another query, the hint of  *)
(* another lineage, or a delta that misses a block or has one twice would  *)
(* show; in a complete deployment that can be a confident zero.            *)
NeverMisdecoded == \A t \in Tabs, l \in Lookups : lookup[t][l].outcome # "garbage"

(* The database counts every byte of the bundle that is served, and yet    *)
(* calls the download partial: its last chunk was full, and the mark never *)
(* followed. The page resumes it past the end and is refused, until the    *)
(* server encodes another bundle.                                          *)
NothingLeftToAskFor ==
    LET meta == stored[server.epoch].meta IN
    ~meta.complete /\ meta.written = Total /\ meta.etag = server.bundle

(* A tab that failed to load loads when it is tried again: with the one    *)
(* exception above, nothing left in the database by a download that was    *)
(* interrupted, at any await of it, keeps it from doing so (pir.js:870).   *)
AlwaysLoadsAgain == \A t \in Tabs : []<>(tab[t].pc = "loaded" \/ NothingLeftToAskFor)

(* Every lookup ends, in an answer or in an error, if only the page goes   *)
(* on: no request of it waits for ever on a server that has gone silent.   *)
LookupsSettle == \A t \in Tabs, l \in Lookups : Running(t, l) ~> ~Running(t, l)
=============================================================================
