------------------------------ MODULE WasmAbi -------------------------------
(* The C interface of the wasm module, and the page's calls on it. The     *)
(* module has one buffer for what goes in, one for what comes out, one for *)
(* the last error, one completeness flag and one session; lookups that     *)
(* overlap share them all. Between two awaits the page runs without        *)
(* interruption; at an await any other lookup may run. Of the session's    *)
(* sum of deltas there is here how far it reaches and whether it has a     *)
(* block twice, not what it holds.                                         *)
EXTENDS Integers, FiniteSets

CONSTANTS
    Lookers,        \* the lookups that may overlap
    Tracked, Untracked, \* addresses, and whether the deployment has them
    MaxAbiHead,     \* bound on the blocks
    MaxAsks,        \* bound on the lookups submitted
    MaxAbiFaults    \* bound on flawed and missing replies

ASSUME AbiAssumption ==
    /\ Tracked \cap Untracked = {}
    /\ {MaxAbiHead, MaxAsks, MaxAbiFaults} \subseteq Nat

VARIABLES
    abi,    \* the module's memory: in, out, err, mode, session
    app,    \* the page: its load, its lookups
    peer    \* the deployment, and the faults there were

abiVars == <<abi, app, peer>>

STATUS_FOUND == 0
STATUS_ZERO == 1
STATUS_UNTRACKED == 2
STATUS_DECODE_FAILED == 3
STATUS_ERROR == -1

NoBytes == [kind |-> "none"]
NoFlight == [held |-> FALSE]
NotInitialised == [initialised |-> FALSE]
FreshAbi == [in |-> NoBytes, out |-> NoBytes, err |-> "none", mode |-> {},
             session |-> NotInitialised, drawn |-> 0]

-----------------------------------------------------------------------------
(* The exported functions: from a memory to the memory and the value       *)
(* returned. The value of an error is STATUS_ERROR, and err says why.      *)

Ret(a, value) == [abi |-> a, ret |-> value]
SetErr(a, why) == Ret([a EXCEPT !.err = why], STATUS_ERROR)
ClearErr(a) == [a EXCEPT !.err = "none"]
PutOut(a, bytes) == [a EXCEPT !.out = bytes]
WriteIn(a, bytes) == [a EXCEPT !.in = bytes]
InRelease(a) == [a EXCEPT !.in = NoBytes]

WithSession(a, outcome) ==
    IF a.session.initialised THEN outcome ELSE SetErr(a, "not_initialised")

SetModeByte(a, value) ==
    IF value \notin {0, 1} THEN SetErr(ClearErr(a), "mode")
    ELSE Ret([ClearErr(a) EXCEPT !.mode = {value}], 0)

FromSetup(block, mode) ==
    [initialised |-> TRUE, complete |-> mode = {1}, pinned |-> block, pending |-> block,
     twice |-> FALSE, inFlight |-> NoFlight]

(* The encoded bundle is freed before the session is built from it.        *)
InitSession(a) ==
    IF a.mode = {} THEN SetErr(ClearErr(a), "mode")
    ELSE IF a.in.kind # "setup" \/ a.in.flawed THEN SetErr(ClearErr(a), "wire")
    ELSE Ret([InRelease(ClearErr(a)) EXCEPT !.session = FromSetup(a.in.block, a.mode)], 0)

EpochOut(a) == WithSession(ClearErr(a), Ret(PutOut(ClearErr(a), [kind |-> "epoch"]), 1))

(* A delta that does not reach further than the ones before is refused.    *)
(* One that does is added whatever its start: what it shares with those    *)
(* before is then in the sum twice.                                        *)
IngestDelta(a) ==
    LET c == ClearErr(a)
    IN WithSession(c,
           IF a.in.flawed THEN SetErr(c, "codec")
           ELSE IF a.in.to <= a.session.pending THEN SetErr(c, "client")
           ELSE Ret([c EXCEPT !.session.pending = a.in.to,
                              !.session.twice = @ \/ a.in.from # a.session.pending], a.in.to))

Drawn(a) ==
    LET flight == [held |-> TRUE, address |-> a.in.address, secret |-> a.drawn + 1, answer |-> NoBytes]
    IN Ret([PutOut(a, [kind |-> "query", address |-> a.in.address, secret |-> a.drawn + 1])
              EXCEPT !.session.inFlight = flight, !.drawn = @ + 1], 1)

(* A query replaces the one in flight.                                     *)
BuildQueryReplacing(a) == WithSession(ClearErr(a), Drawn(ClearErr(a)))

(* One query in flight: another is refused until that one is finished.     *)
BuildQuery(a) ==
    LET c == ClearErr(a)
    IN WithSession(c, IF a.session.inFlight.held THEN SetErr(c, "in_flight") ELSE Drawn(c))

AcceptAnswer(a) ==
    LET c == ClearErr(a)
    IN WithSession(c,
           IF a.in.flawed THEN SetErr(c, "wire")
           ELSE IF ~a.session.inFlight.held THEN SetErr(c, "no_query")
           ELSE Ret([c EXCEPT !.session.inFlight.answer = a.in], a.in.at))

(* What decoding may show: the account, if the answer is the query's own   *)
(* and each block is in the sum once; garbage shows anything. Large noise  *)
(* is seen as such.                                                        *)
Decodings(session) ==
    LET flight == session.inFlight
    IN IF session.twice \/ flight.answer.secret # flight.secret
       THEN {"found", "not_found", "failed"}
       ELSE {IF flight.address \in Tracked THEN "found" ELSE "not_found", "failed"}

Shown(over, session, seen) ==
    CASE seen = "found" ->
           Ret(PutOut(over, [kind |-> "balance", address |-> session.inFlight.address,
                             at |-> session.inFlight.answer.at]), STATUS_FOUND)
      [] seen = "failed" -> Ret(over, STATUS_DECODE_FAILED)
      [] OTHER -> Ret(over, IF session.complete THEN STATUS_ZERO ELSE STATUS_UNTRACKED)

(* The buffer is emptied first. The query is over once it can be decoded,  *)
(* whatever that gives; until then it stays in flight.                     *)
Finish(a) ==
    LET c == PutOut(ClearErr(a), NoBytes)
        flight == a.session.inFlight
        over == [c EXCEPT !.session.inFlight = NoFlight]
    IN IF ~a.session.initialised THEN {SetErr(c, "not_initialised")}
       ELSE IF ~flight.held THEN {SetErr(c, "no_query")}
       ELSE IF flight.answer = NoBytes THEN {SetErr(c, "no_answer")}
       ELSE IF flight.answer.at # a.session.pending THEN {SetErr(c, "sync")}
       ELSE {Shown(over, a.session, seen) : seen \in Decodings(a.session)}

-----------------------------------------------------------------------------
(* The page loads.                                                         *)

(* How a lookup stands, and how the last one ended; `twice` is history:    *)
(* what it showed was decoded with a block counted twice.                  *)
IdleLooker == [pc |-> "idle", address |-> "none", from |-> 0, to |-> 0, reply |-> NoBytes,
               step |-> "none", status |-> STATUS_ERROR, why |-> "none", balance |-> NoBytes,
               twice |-> FALSE]

AbiInit ==
    /\ abi = FreshAbi
    /\ app = [boot |-> "download", mode |-> {}, epoch |-> NoBytes, asks |-> 0,
               lookups |-> [l \in Lookers |-> IdleLooker]]
    /\ peer \in [head : {1}, complete : BOOLEAN, faults : {0}]

MayFail(fails) == fails => peer.faults < MaxAbiFaults
Faulted(fails) == peer' = [peer EXCEPT !.faults = @ + IF fails THEN 1 ELSE 0]

(* The bundle streams into the input buffer. An older server's reply does  *)
(* not name the mode, and the page asks for it.                            *)
SetupArrives ==
    \E flawed, named \in BOOLEAN :
        /\ app.boot = "download" /\ MayFail(flawed) /\ Faulted(flawed)
        /\ abi' = WriteIn(abi, [kind |-> "setup", block |-> peer.head, flawed |-> flawed])
        /\ app' = [app EXCEPT !.boot = IF named THEN "load" ELSE "mode",
                                !.mode = IF named THEN {IF peer.complete THEN 1 ELSE 0} ELSE {}]

(* A body that is not one byte, 0 or 1, is refused, and never guessed.     *)
ModeArrives ==
    \E flawed \in BOOLEAN :
        /\ app.boot = "mode" /\ MayFail(flawed) /\ Faulted(flawed)
        /\ app' = IF flawed THEN [app EXCEPT !.boot = "failed"]
                   ELSE [app EXCEPT !.boot = "load", !.mode = {IF peer.complete THEN 1 ELSE 0}]
        /\ UNCHANGED abi

(* Three calls in a row; the first that fails ends the load.               *)
Load ==
    LET moded == SetModeByte(abi, CHOOSE v \in app.mode : TRUE)
        begun == InitSession(moded.abi)
        named == EpochOut(begun.abi)
        last == IF moded.ret # 0 THEN moded ELSE IF begun.ret # 0 THEN begun ELSE named
    IN /\ app.boot = "load"
       /\ abi' = last.abi
       /\ app' = [app EXCEPT !.boot = IF last.ret = STATUS_ERROR THEN "failed" ELSE "ready",
                               !.epoch = last.abi.out]
       /\ UNCHANGED peer

(* The visitor tries again: a new module, with a memory of its own.        *)
BootAgain ==
    /\ app.boot = "failed"
    /\ abi' = FreshAbi
    /\ app' = [app EXCEPT !.boot = "download", !.mode = {}, !.epoch = NoBytes]
    /\ UNCHANGED peer

NodeAdvances ==
    /\ peer.head < MaxAbiHead
    /\ peer' = [peer EXCEPT !.head = @ + 1]
    /\ UNCHANGED <<abi, app>>

-----------------------------------------------------------------------------
(* A lookup, from await to await.                                          *)

Looker(l, k) == app' = [app EXCEPT !.lookups[l] = k]

(* The call of this step failed: the page throws what err says then.       *)
Thrown(l, stage, a) ==
    /\ abi' = a
    /\ Looker(l, [app.lookups[l] EXCEPT !.pc = "idle", !.step = stage, !.status = STATUS_ERROR,
                                         !.why = a.err, !.balance = NoBytes])

SubmitAsk(l) ==
    /\ app.boot = "ready" /\ app.lookups[l].pc = "idle" /\ app.asks < MaxAsks
    /\ \E address \in Tracked \cup Untracked :
          app' = [app EXCEPT !.asks = @ + 1,
                               !.lookups[l] = [IdleLooker EXCEPT !.pc = "head", !.address = address]]
    /\ UNCHANGED <<abi, peer>>

(* The query goes out as it is read from the buffer.                       *)
AskFrom(l, a) ==
    LET asked == BuildQuery(WriteIn(a, [kind |-> "address", address |-> app.lookups[l].address]))
    IN IF asked.ret = STATUS_ERROR THEN Thrown(l, "query", asked.abi)
       ELSE /\ abi' = asked.abi
            /\ Looker(l, [app.lookups[l] EXCEPT !.pc = "answer", !.reply = asked.abi.out])

HeadArrives(l) ==
    /\ app.lookups[l].pc = "head"
    /\ IF peer.head <= abi.session.pending THEN AskFrom(l, abi)
       ELSE /\ Looker(l, [app.lookups[l] EXCEPT !.pc = "sync", !.from = abi.session.pending,
                                                 !.to = peer.head])
            /\ UNCHANGED abi
    /\ UNCHANGED peer

DeltaBytes(l, flawed) ==
    [kind |-> "delta", from |-> app.lookups[l].from, to |-> app.lookups[l].to, flawed |-> flawed]

DeltaArrives(l) ==
    \E flawed \in BOOLEAN :
        LET taken == IngestDelta(WriteIn(abi, DeltaBytes(l, flawed)))
        IN /\ app.lookups[l].pc = "sync" /\ MayFail(flawed) /\ Faulted(flawed)
           /\ IF taken.ret = STATUS_ERROR THEN Thrown(l, "sync", taken.abi)
              ELSE AskFrom(l, taken.abi)

(* The node answers the query at the block it is at.                       *)
NodeReplies(l) ==
    \E flawed \in BOOLEAN :
        /\ app.lookups[l].pc = "answer" /\ MayFail(flawed) /\ Faulted(flawed)
        /\ Looker(l, [app.lookups[l] EXCEPT
               !.pc = "answered",
               !.reply = [kind |-> "answer", address |-> @.address, secret |-> @.secret,
                          at |-> peer.head, flawed |-> flawed]])
        /\ UNCHANGED abi

Settled(l, a, status) ==
    /\ abi' = a
    /\ Looker(l, [app.lookups[l] EXCEPT
           !.pc = "idle", !.step = "done", !.status = status, !.why = "none",
           !.balance = IF status = STATUS_FOUND THEN a.out ELSE NoBytes, !.twice = a.session.twice])

(* The answer's block is not the delta's: one more sync, up to it. If the  *)
(* delta is beyond it, there is nothing to fetch, and the second finish    *)
(* fails as the first; the query stays in flight.                          *)
AnswerRead(l) ==
    LET k == app.lookups[l]
        taken == AcceptAnswer(WriteIn(abi, k.reply))
    IN /\ k.pc = "answered"
       /\ \E done \in Finish(taken.abi) :
            LET noisy == taken.ret # STATUS_ERROR /\ done.ret = STATUS_DECODE_FAILED
            IN /\ MayFail(noisy) /\ Faulted(noisy)
               /\ IF taken.ret = STATUS_ERROR THEN Thrown(l, "answer", taken.abi)
                  ELSE IF done.ret # STATUS_ERROR THEN Settled(l, done.abi, done.ret)
                  ELSE IF done.abi.err # "sync" \/ taken.ret <= abi.session.pending
                       THEN \E again \in Finish(done.abi) : Thrown(l, "finish", again.abi)
                  ELSE /\ abi' = done.abi
                       /\ Looker(l, [k EXCEPT !.pc = "resync", !.from = abi.session.pending,
                                              !.to = taken.ret])

SecondDeltaArrives(l) ==
    \E flawed \in BOOLEAN :
        LET taken == IngestDelta(WriteIn(abi, DeltaBytes(l, flawed)))
        IN /\ app.lookups[l].pc = "resync"
           /\ \E done \in Finish(taken.abi) :
                LET noisy == taken.ret # STATUS_ERROR /\ done.ret = STATUS_DECODE_FAILED
                IN /\ MayFail(flawed \/ noisy) /\ Faulted(flawed \/ noisy)
                   /\ IF taken.ret = STATUS_ERROR THEN Thrown(l, "sync", taken.abi)
                      ELSE IF done.ret = STATUS_ERROR THEN Thrown(l, "finish", done.abi)
                      ELSE Settled(l, done.abi, done.ret)

(* No reply, or one of another status. The module is not told.             *)
ReplyMissing(l) ==
    /\ app.lookups[l].pc \in {"head", "sync", "answer", "resync"} /\ MayFail(TRUE) /\ Faulted(TRUE)
    /\ Looker(l, [app.lookups[l] EXCEPT !.pc = "idle", !.step = "network", !.why = "network",
                                         !.balance = NoBytes])
    /\ UNCHANGED abi

AbiNext ==
    \/ SetupArrives \/ ModeArrives \/ Load \/ BootAgain \/ NodeAdvances
    \/ \E l \in Lookers :
          \/ SubmitAsk(l) \/ HeadArrives(l) \/ DeltaArrives(l) \/ NodeReplies(l) \/ AnswerRead(l)
          \/ SecondDeltaArrives(l) \/ ReplyMissing(l)

AbiSpec == AbiInit /\ [][AbiNext]_abiVars
-----------------------------------------------------------------------------
(* A page that is ready has a session of the deployment's own mode; the    *)
(* bundle does not stay in the module's memory behind it.                  *)
ReadyIsInitialised ==
    app.boot = "ready" => /\ abi.session.initialised /\ abi.session.complete = peer.complete
                           /\ app.epoch.kind = "epoch" /\ abi.in.kind # "setup"

(* The queries on their way are the session's own, so there is one at most.*)
OneQueryInFlight ==
    \A l \in Lookers : app.lookups[l].pc \in {"answer", "answered", "resync"} =>
        /\ abi.session.inFlight.held
        /\ abi.session.inFlight.secret = app.lookups[l].reply.secret

(* A lookup shows what its own calls gave, whatever ran between its        *)
(* awaits: a balance is its address's at its answer's block, a zero or an  *)
(* untracked account is one the deployment does not have, and which of the *)
(* two is the deployment's mode; an error is the one of the call it threw. *)
(* Whether there is an account is left open where an overlapping lookup    *)
(* made the session count a block twice (double_count shows that it does). *)
ShowsItsOwn(k) ==
    /\ k.status = STATUS_FOUND =>
          /\ k.balance.kind = "balance" /\ k.balance.address = k.address
          /\ k.balance.at = k.reply.at /\ (k.address \in Tracked \/ k.twice)
    /\ k.status \in {STATUS_ZERO, STATUS_UNTRACKED} =>
          (k.address \in Untracked \/ k.twice) /\ (k.status = STATUS_ZERO <=> peer.complete)
    /\ k.step = "sync"   => k.why \in {"codec", "client"}
    /\ k.step = "query"  => k.why = "in_flight"
    /\ k.step = "answer" => k.why = "wire"
    /\ k.step = "finish" => k.why = "sync"

LookupsReadTheirOwn ==
    /\ ReadyIsInitialised /\ OneQueryInFlight
    /\ \A l \in Lookers : ShowsItsOwn(app.lookups[l])
=============================================================================
