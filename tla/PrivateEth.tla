------------------------------ MODULE PrivateEth ------------------------------
(***************************************************************************)
(* The rewind client composed with the node.  A session pins the hint it   *)
(* downloaded (base), accumulates public deltas (delta, up to head) and    *)
(* answers one eth_getBalance at a time under its session mutex, in the    *)
(* steps of try_get_balance: read the head, sync to it, query, sync to the *)
(* block the answer was computed at, decode.  The node moves, and may be   *)
(* replaced, between any two of them; any call may fail.                   *)
(***************************************************************************)
EXTENDS PirNode

CONSTANTS Clients,
          ColumnMates,   \* for each slot, the slots whose cells the same entries of a
                         \* response sum up: those at its offset in its segment
          CallsMayFail   \* transport failures happen in these runs

ASSUME ClientAssumption ==
    /\ ColumnMates \in [Slots -> SUBSET Slots]
    /\ CallsMayFail \in BOOLEAN

VARIABLES
    session,     \* what the client keeps between requests
    pc,          \* the next step of the request in progress
    req,         \* account asked for, block being synced to, and (history) the
                 \* lowest block served since the request began
    resp,        \* the response of /answer
    retried,     \* this request already re-bootstrapped once
    slot,        \* the re-bootstrap cooldown has elapsed
    outcome      \* how the last request ended

clientVars == <<session, pc, req, resp, retried, slot, outcome>>
vars == <<nodeVars, clientVars>>

NoRequest  == [acct |-> 0, target |-> 0, floor |-> 0]
NoResponse == [at |-> 0, cells |-> NoChange]
NoOutcome  == [kind |-> "none"]

Failure(why) == [kind |-> "error", why |-> why]
Balance(c, v) ==
    [kind |-> "balance", acct |-> req[c].acct, at |-> resp[c].at, bal |-> v,
     floor |-> req[c].floor, epoch |-> session[c].epoch]

(* Mutant of FromBundle: the session starts at the head instead of at the  *)
(* bundle's own block.                                                     *)
FromBundleAtHead(b) ==
    [epoch |-> epoch, base |-> b.contents, delta |-> NoChange, head |-> block,
     strict |-> ~complete]

(* A session built from a setup response, mode header included.            *)
FromBundle(b) ==
    [epoch |-> epoch, base |-> b.contents, delta |-> NoChange, head |-> b.block,
     strict |-> ~complete]

-----------------------------------------------------------------------------
ClientInit ==
    /\ session = [c \in Clients |->
                    FromBundle([block |-> block, contents |-> hinted])]
    /\ pc = [c \in Clients |-> "idle"]
    /\ req = [c \in Clients |-> NoRequest]
    /\ resp = [c \in Clients |-> NoResponse]
    /\ retried = [c \in Clients |-> FALSE]
    /\ slot = [c \in Clients |-> TRUE]
    /\ outcome = [c \in Clients |-> NoOutcome]

Init == NodeInit /\ ClientInit

Goto(c, step) == pc' = [pc EXCEPT ![c] = step]

(* The session mutex is released and the locals are gone.                  *)
Release(c) ==
    /\ Goto(c, "idle")
    /\ req' = [req EXCEPT ![c] = NoRequest]
    /\ resp' = [resp EXCEPT ![c] = NoResponse]
    /\ retried' = [retried EXCEPT ![c] = FALSE]

Return(c, result) == Release(c) /\ outcome' = [outcome EXCEPT ![c] = result]

(* sync_to: nothing to do when the target is not ahead of the session,     *)
(* otherwise one GET /sync for exactly the missing range.                  *)
SyncTo(c, ok, stalled) ==
    LET s == session[c]
        d == SyncReply(s.epoch, s.head, req[c].target)
    IN  \/ /\ req[c].target <= s.head
           /\ ok
           /\ UNCHANGED session
        \/ /\ req[c].target > s.head
           /\ d # Refused
           /\ session' = [session EXCEPT ![c].delta = Plus(@, d.cells), ![c].head = d.block]
           /\ ok
        \/ /\ req[c].target > s.head
           /\ d = Refused
           /\ stalled
           /\ UNCHANGED session

-----------------------------------------------------------------------------
(* eth_getBalance.                                                         *)

Invoke(c, a) ==
    /\ pc[c] = "idle"
    /\ Goto(c, "head")
    /\ req' = [req EXCEPT ![c] = [acct |-> a, target |-> 0, floor |-> block]]
    /\ outcome' = [outcome EXCEPT ![c] = NoOutcome]
    /\ UNCHANGED <<nodeVars, session, resp, retried, slot>>

ReadHead(c) ==
    /\ pc[c] = "head"
    /\ req' = [req EXCEPT ![c].target = block]
    /\ Goto(c, "sync")
    /\ UNCHANGED <<nodeVars, session, resp, retried, slot, outcome>>

SyncToHead(c) ==
    /\ pc[c] = "sync"
    /\ SyncTo(c, Goto(c, "answer"), Goto(c, "stalled"))
    /\ UNCHANGED <<nodeVars, req, resp, retried, slot, outcome>>

(* Mutant of Query: an answer is taken from any lineage.                   *)
QueryAnyLineage(c) ==
    /\ pc[c] = "answer"
    /\ resp' = [resp EXCEPT ![c] = AnswerReply]
    /\ req' = [req EXCEPT ![c].target = AnswerReply.at]
    /\ Goto(c, "catchup")
    /\ UNCHANGED <<nodeVars, session, retried, slot, outcome>>

(* Mutant of Query: a 409 is an error like any other.                      *)
QueryGivesUp(c) ==
    /\ pc[c] = "answer"
    /\ \/ /\ session[c].epoch = epoch
          /\ resp' = [resp EXCEPT ![c] = AnswerReply]
          /\ req' = [req EXCEPT ![c].target = AnswerReply.at]
          /\ Goto(c, "catchup")
          /\ UNCHANGED <<retried, outcome>>
       \/ /\ session[c].epoch # epoch
          /\ Return(c, Failure("Pir"))
    /\ UNCHANGED <<nodeVars, session, slot>>

(* build_query and POST /answer; a 409 from the lineage gate is a stall.   *)
Query(c) ==
    /\ pc[c] = "answer"
    /\ \/ /\ session[c].epoch = epoch
          /\ resp' = [resp EXCEPT ![c] = AnswerReply]
          /\ req' = [req EXCEPT ![c].target = AnswerReply.at]
          /\ Goto(c, "catchup")
       \/ /\ session[c].epoch # epoch
          /\ Goto(c, "stalled")
          /\ UNCHANGED <<resp, req>>
    /\ UNCHANGED <<nodeVars, session, retried, slot, outcome>>

SyncToAnswer(c) ==
    /\ pc[c] = "catchup"
    /\ SyncTo(c, Goto(c, "finish"), Goto(c, "stalled"))
    /\ UNCHANGED <<nodeVars, req, resp, retried, slot, outcome>>

(* Rewinding subtracts the accumulated delta from the response, decodes    *)
(* against the pinned hint and adds the delta back.  A slot decodes only   *)
(* where the rewound cells of its whole column are the ones the hint was   *)
(* built for; elsewhere the result is noise, which the range checks reject *)
(* or the fingerprint and tag scan does not recognise.                     *)
Readable(c, s) ==
    \A t \in ColumnMates[s] \cup {s}, a \in Accounts :
        resp[c].cells[<<t, a>>] - session[c].delta[<<t, a>>] = session[c].base[<<t, a>>]

Decoded(c) ==
    [x \in Cells |-> IF Readable(c, x[1]) THEN resp[c].cells[x] ELSE 0]

Finish(c) ==
    LET found == BalanceIn(Decoded(c), req[c].acct)
    IN  /\ pc[c] = "finish"
        /\ \/ /\ resp[c].at # session[c].head
              /\ Goto(c, "stalled")
              /\ UNCHANGED <<req, resp, retried, outcome>>
           \/ /\ resp[c].at = session[c].head
              /\ \E s \in Candidates[req[c].acct] : ~Readable(c, s)
              /\ Return(c, Failure("undecodable"))
           \/ /\ resp[c].at = session[c].head
              /\ found # 0 \/ ~session[c].strict
              /\ Return(c, Balance(c, found))
           \/ /\ resp[c].at = session[c].head
              /\ found = 0 /\ session[c].strict
              /\ Return(c, Failure("NotInTrackedSet"))
        /\ UNCHANGED <<nodeVars, session, slot>>

(* One re-bootstrap per request and per cooldown window; the slot is taken *)
(* before the download is tried.                                           *)
TakeRebootstrapSlot(c) ==
    /\ pc[c] = "stalled"
    /\ \/ /\ ~retried[c] /\ slot[c]
          /\ slot' = [slot EXCEPT ![c] = FALSE]
          /\ retried' = [retried EXCEPT ![c] = TRUE]
          /\ resp' = [resp EXCEPT ![c] = NoResponse]
          /\ Goto(c, "setup")
          /\ UNCHANGED <<req, outcome>>
       \/ /\ retried[c] \/ ~slot[c]
          /\ Return(c, Failure("Stalled"))
          /\ UNCHANGED slot
    /\ UNCHANGED <<nodeVars, session>>

(* GET /setup, and the whole session replaced by what it says.             *)
ReplaceSession(c) ==
    /\ session' = [session EXCEPT ![c] = FromBundle(SetupReply)]
    /\ setupCache' = SetupReply
    /\ UNCHANGED <<chain, serverVars, historyVars, following, pending, diskVars,
                   journaling, archive, damaged>>

Resetup(c) ==
    /\ pc[c] = "setup"
    /\ ReplaceSession(c)
    /\ Goto(c, "head")
    /\ UNCHANGED <<req, resp, retried, slot, outcome>>

CooldownElapses(c) ==
    /\ ~slot[c]
    /\ slot' = [slot EXCEPT ![c] = TRUE]
    /\ UNCHANGED <<nodeVars, session, pc, req, resp, retried, outcome>>

(* Any HTTP call may fail in transport: the request ends in an error and   *)
(* the session keeps what it had.                                          *)
NeedsCall(c) ==
    \/ pc[c] \in {"head", "answer", "setup"}
    \/ pc[c] \in {"sync", "catchup", "follow"} /\ req[c].target > session[c].head

CallFails(c) ==
    /\ CallsMayFail
    /\ NeedsCall(c)
    /\ IF pc[c] = "follow" THEN Release(c) /\ UNCHANGED outcome ELSE Return(c, Failure("Pir"))
    /\ UNCHANGED <<nodeVars, session, slot>>

-----------------------------------------------------------------------------
(* follow_once: the same catch-up on a cadence of its own.  A stall is     *)
(* reported, never repaired here.                                          *)
FollowHead(c) ==
    /\ pc[c] = "idle"
    /\ block > session[c].head
    /\ Goto(c, "follow")
    /\ req' = [req EXCEPT ![c].target = block]
    /\ UNCHANGED <<nodeVars, session, resp, retried, slot, outcome>>

FollowSync(c) ==
    /\ pc[c] = "follow"
    /\ SyncTo(c, TRUE, TRUE)
    /\ Release(c)
    /\ UNCHANGED <<nodeVars, slot, outcome>>

(* The client process starts again: a new session and no cooldown.         *)
Connect(c) ==
    /\ pc[c] = "idle"
    /\ ReplaceSession(c)
    /\ slot' = [slot EXCEPT ![c] = TRUE]
    /\ outcome' = [outcome EXCEPT ![c] = NoOutcome]
    /\ UNCHANGED <<pc, req, resp, retried>>

-----------------------------------------------------------------------------
NodeStep == WriterStep /\ UNCHANGED clientVars

(* A restart or a re-bootstrap may serve a lower block; requests in        *)
(* progress remember the lowest block that was served while they ran.      *)
Replaced ==
    /\ Restart \/ Rebootstrap
    /\ req' = [c \in Clients |->
                 [req[c] EXCEPT !.floor = IF block' < @ THEN block' ELSE @]]
    /\ UNCHANGED <<session, pc, resp, retried, slot, outcome>>

Request(c) ==
    \/ ReadHead(c) \/ SyncToHead(c) \/ Query(c) \/ SyncToAnswer(c) \/ Finish(c)
    \/ TakeRebootstrapSlot(c) \/ Resetup(c)

ClientStep(c) ==
    \/ \E a \in Accounts : Invoke(c, a)
    \/ Request(c)
    \/ CooldownElapses(c)
    \/ CallFails(c)
    \/ FollowHead(c) \/ FollowSync(c)
    \/ Connect(c)

Next == NodeStep \/ Replaced \/ \E c \in Clients : ClientStep(c)

Spec == Init /\ [][Next]_vars

(* A client keeps asking, its runtime keeps running its requests, and its  *)
(* clock advances.  Strong fairness of Invoke is the FIFO order of the     *)
(* session mutex: the follower cannot shut requests out for ever.          *)
Fairness ==
    \A c \in Clients :
        /\ SF_vars(\E a \in Accounts : Invoke(c, a))
        /\ WF_vars(Request(c)) /\ WF_vars(FollowSync(c))
        /\ WF_vars(CooldownElapses(c))

FairSpec == Spec /\ Fairness

-----------------------------------------------------------------------------
(* Properties.                                                             *)

Sessions ==
    [epoch : Nat \ {0}, base : DeltaMap, delta : DeltaMap, head : Nat \ {0}, strict : BOOLEAN]
Steps ==
    {"idle", "head", "sync", "answer", "catchup", "finish", "stalled", "setup", "follow"}
Failures == {Failure(why) : why \in {"undecodable", "NotInTrackedSet", "Stalled", "Pir"}}
BalanceReplies ==
    [kind : {"balance"}, acct : Nat, at : Nat, bal : Int, floor : Nat, epoch : Nat \ {0}]

ClientTypeOK ==
    /\ session \in [Clients -> Sessions]
    /\ pc \in [Clients -> Steps]
    /\ req \in [Clients -> [acct : Nat, target : Nat, floor : Nat]]
    /\ resp \in [Clients -> [at : Nat, cells : DeltaMap]]
    /\ retried \in [Clients -> BOOLEAN] /\ slot \in [Clients -> BOOLEAN]
    /\ outcome \in [Clients -> {NoOutcome} \cup Failures \cup BalanceReplies]

TypeOK == NodeTypeOK /\ ClientTypeOK

Answered(c) == outcome[c].kind = "balance"
IsRight(o)  == o.bal = chain[o.at].bal[o.acct]

(* The service's one promise: a balance that is returned is the chain's    *)
(* balance at the block the answer is labelled with.                       *)
NeverWrong == \A c \in Clients : Answered(c) => IsRight(outcome[c])

(* The same, for answers on a lineage that never lost an applied block and *)
(* never rejected one half-applied.                                        *)
NeverWrongUndamaged ==
    \A c \in Clients : Answered(c) /\ outcome[c].epoch \notin damaged => IsRight(outcome[c])

(* An answer is never older than every block served while the request ran. *)
NeverOlderThanServed == \A c \in Clients : Answered(c) => outcome[c].at >= outcome[c].floor

(* A session holds one lineage: its pinned hint plus its accumulated       *)
(* deltas are the state that its own lineage had at its head.              *)
SessionOnOneLineage ==
    \A c \in Clients :
      LET s == session[c]
      IN  s.epoch \notin damaged =>
            Snapshot(s.epoch, s.head, ~s.strict, Plus(s.base, s.delta)) \in archive

(* No request takes its session back: not to an older lineage, and not to  *)
(* an older block of the same one, although the bundle that a stalled      *)
(* session is replaced by may come from the cache.                         *)
NeverRewound ==
    [][\A c \in Clients :
         pc[c] # "idle" =>
           /\ session'[c].epoch >= session[c].epoch
           /\ session'[c].epoch = session[c].epoch /\ session[c].epoch \notin damaged
                => session'[c].head >= session[c].head]_vars

(* The composition implements the abstract service: what a caller sees is  *)
(* a finalized balance, fresh enough, for the account it asked about, or   *)
(* an error, and nothing it did not ask for.                               *)
ReplyOf(o) ==
    IF o.kind = "balance" THEN [kind |-> "balance", at |-> o.at, bal |-> o.bal]
    ELSE [kind |-> o.kind]

Service == INSTANCE BalanceService WITH
    ledgers <- [n \in 1 .. Len(chain) |-> chain[n].bal],
    served  <- block,
    asked   <- [c \in Clients |-> req[c].acct],
    floor   <- [c \in Clients |-> req[c].floor],
    reply   <- [c \in Clients |-> ReplyOf(outcome[c])]

ImplementsService == Service!ServiceSpec

(* A client that keeps asking is told again and again what it asked for,   *)
(* be it that a partial deployment does not track the account: a session   *)
(* left behind by an eviction or a re-bootstrap always recovers.           *)
Settled(c) == Answered(c) \/ outcome[c] = Failure("NotInTrackedSet")
AlwaysAnswersAgain == \A c \in Clients : []<>Settled(c)
=============================================================================
