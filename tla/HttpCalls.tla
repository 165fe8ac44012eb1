------------------------------- MODULE HttpCalls -------------------------------
(***************************************************************************)
(* The calls of a native client, one after another: what the node answers  *)
(* to each, how the body is read chunk by chunk within a bound, and what a *)
(* NetSink is told of it for the measurements.                             *)
(***************************************************************************)
EXTENDS Integers, Sequences, FiniteSets, SequencesExt

CONSTANTS MaxCalls, \* bound on the calls
          MaxChunks \* bound on the chunks of a body, and on their bytes

ASSUME CallsAssumption == {MaxCalls, MaxChunks} \subseteq Nat

VARIABLES
    call,   \* the call that runs
    inbox,  \* the response, of which `came` has been read
    sink,   \* the NetSink: per route
    ended   \* history: the calls that have ended, with their outcome

callVars == <<call, inbox, sink, ended>>

Routes == {"setup", "head", "mode", "sync", "answer", "recent"}

(* A body's bound per route: tiny bodies, and the others.                  *)
MaxLen(route) == IF route \in {"head", "mode"} THEN 1 ELSE 2

NoStats == [calls |-> 0, request |-> 0, response |-> 0, declared |-> -1]
NoCall == [route |-> "none"]
NoResponse == [status |-> 0]

CallsInit ==
    /\ call = NoCall /\ inbox = NoResponse
    /\ sink = [route \in Routes |-> NoStats] /\ ended = <<>>

-----------------------------------------------------------------------------
(* The node.                                                               *)

EpochBound == {"sync", "answer"}

(* A request: the lineage it names, whether the node can read it, has what *)
(* it asks for, and is done in time.                                       *)
Requests(route) ==
    [route : {route},
     epoch : IF route \in EpochBound THEN {"right", "wrong", "missing"} ELSE {"missing"},
     readable : IF route \in EpochBound THEN BOOLEAN ELSE {TRUE},
     retained : IF route = "sync" THEN BOOLEAN ELSE {TRUE},
     inTime : BOOLEAN]

(* The timeout cuts any handler off; /sync and /answer check the lineage,  *)
(* then the request, and /sync its window: both refusals are a conflict.   *)
Status(r) ==
    IF ~r.inTime THEN 408
    ELSE IF r.route \notin EpochBound THEN 200
    ELSE IF r.epoch # "right" THEN 409
    ELSE IF ~r.readable THEN 400
    ELSE IF ~r.retained THEN 409
    ELSE 200

-----------------------------------------------------------------------------
(* The client.                                                             *)

Ask ==
    /\ call = NoCall /\ Len(ended) < MaxCalls
    /\ \E route \in Routes : \E r \in Requests(route) : call' = r
    /\ UNCHANGED <<inbox, sink, ended>>

RequestBytes(r) == IF r.route = "answer" THEN 1 ELSE 0

(* The body of a success. Of an error's the client reads what it can, up to*)
(* a cap, for its message alone: no outcome and no counter depends on it.  *)
BodiesOf(status) ==
    IF status = 200 THEN UNION {[1 .. n -> 1 .. MaxChunks] : n \in 0 .. MaxChunks} ELSE {<<>>}

(* The declared length is that of the body, where there is one.            *)
Respond ==
    /\ call # NoCall /\ inbox = NoResponse
    /\ \E body \in BodiesOf(Status(call)), tells \in BOOLEAN :
          LET length == FoldLeft(+, 0, body) IN
          inbox' = [status |-> Status(call), body |-> body, came |-> 0, bytes |-> 0,
                    declared |-> IF tells THEN length ELSE -1]
    /\ UNCHANGED <<call, sink, ended>>

(* Mutant of CallRecorded: only what succeeds is recorded.                     *)
CallRecordedIfWhole(r, bytes, declared) ==
    IF bytes > 0 THEN [sink EXCEPT ![r.route] = [calls |-> @.calls + 1, request |-> @.request + RequestBytes(r),
                                                 response |-> @.response + bytes, declared |-> declared]]
    ELSE sink

(* `record`: once per call, on whatever path it ends.                      *)
CallRecorded(r, bytes, declared) ==
    [sink EXCEPT ![r.route] = [calls |-> @.calls + 1, request |-> @.request + RequestBytes(r),
                               response |-> @.response + bytes, declared |-> declared]]

CallEnds(outcome, bytes, declared) ==
    /\ sink' = CallRecorded(call, bytes, declared)
    /\ ended' = Append(ended, [request |-> call, outcome |-> outcome, bytes |-> bytes])
    /\ call' = NoCall /\ inbox' = NoResponse

(* The request cannot be sent, or no response comes.                       *)
NoAnswer ==
    /\ call # NoCall /\ inbox = NoResponse
    /\ CallEnds("network", 0, -1)

(* A conflict on /sync is an answer: a resync is due.                      *)
Conflict ==
    /\ inbox # NoResponse /\ inbox.came = 0
    /\ inbox.status = 409 /\ call.route = "sync"
    /\ CallEnds("resync", 0, inbox.declared)

OtherStatus ==
    /\ inbox # NoResponse /\ inbox.came = 0
    /\ inbox.status # 200 /\ ~(inbox.status = 409 /\ call.route = "sync")
    /\ CallEnds("status", 0, inbox.declared)

Reading == inbox # NoResponse /\ inbox.status = 200

(* A body that is said to be too long is not read.                         *)
TooLong == inbox.declared > MaxLen(call.route)

DeclaredTooLong == Reading /\ inbox.came = 0 /\ TooLong /\ CallEnds("wire", 0, inbox.declared)

(* read_capped.                                                            *)
Chunk ==
    /\ Reading /\ ~TooLong /\ inbox.came < Len(inbox.body)
    /\ LET length == inbox.bytes + inbox.body[inbox.came + 1] IN
       IF length > MaxLen(call.route)
       THEN CallEnds("wire", 0, inbox.declared)
       ELSE /\ inbox' = [inbox EXCEPT !.came = @ + 1, !.bytes = length]
            /\ UNCHANGED <<call, sink, ended>>

(* The connection breaks, or stalls for READ_STALL_TIMEOUT.                *)
Breaks == Reading /\ ~TooLong /\ CallEnds("network", 0, inbox.declared)

BodyRead == Reading /\ ~TooLong /\ inbox.came = Len(inbox.body) /\ CallEnds("body", inbox.bytes, inbox.declared)

CallsNext ==
    \/ Ask \/ Respond \/ NoAnswer \/ Conflict \/ OtherStatus
    \/ DeclaredTooLong \/ Chunk \/ Breaks \/ BodyRead

CallsSpec == CallsInit /\ [][CallsNext]_callVars

-----------------------------------------------------------------------------
(* What the calls of a route come to.                                      *)
NoFigures == [calls |-> 0, request |-> 0, response |-> 0]

Tallied(route, f, e) ==
    IF e.request.route # route THEN f
    ELSE [calls |-> f.calls + 1, request |-> f.request + RequestBytes(e.request),
          response |-> f.response + e.bytes]

FiguresOf(route, calls) == FoldLeft(LAMBDA f, e : Tallied(route, f, e), NoFigures, calls)

(* Every call is told right and measured once: a body is only handed on    *)
(* whole, within its bound, to a request the node accepts; a session is    *)
(* told to resync exactly when the node refuses its lineage or window; and *)
(* a route's figures are those of its calls, the ones that failed too.     *)
CallsAreTold ==
    /\ \A i \in DOMAIN ended :
          LET e == ended[i] IN
          /\ e.outcome = "body" => Status(e.request) = 200 /\ e.bytes <= MaxLen(e.request.route)
          /\ e.outcome = "resync" => /\ e.request.route = "sync"
                                     /\ e.request.epoch # "right" \/ ~e.request.retained
          /\ e.outcome \notin {"network", "resync"} /\ e.request.route = "sync"
                => Status(e.request) # 409
    /\ \A route \in Routes :
          LET f == FiguresOf(route, ended) IN
          /\ sink[route].calls = f.calls /\ sink[route].request = f.request
          /\ sink[route].response = f.response
=============================================================================
