------------------------------ MODULE JsonRpc -------------------------------
(* The JSON-RPC front end: POST / is parsed, refused, forwarded to the     *)
(* opt-in upstream, or answered from the one private session that all      *)
(* callers share. Requests run side by side and each may be cut off by the *)
(* service's timeout at any call it awaits.                                *)
EXTENDS Integers, FiniteSets

CONSTANTS Callers,
          MaxRpcHead, \* bound on the deployment's block
          MaxPosts    \* bound on the requests of a caller

ASSUME RpcAssumption ==
    /\ {MaxRpcHead, MaxPosts} \subseteq Nat
    /\ "no_one" \notin Callers

VARIABLES
    pir,      \* the deployment: its block, and whether it is partial
    upstream, \* --proxy-upstream, and the bodies it was sent
    holder,   \* who has the session's mutex
    request   \* per caller

rpcVars == <<pir, upstream, holder, request>>

NoOne == "no_one"
Anything == -1 \* latest, pending, safe or finalized

(* What a body may be: not JSON; an array or another value; an object with *)
(* no method; a method, with parameters that parse or do not.              *)
Bodies == {"garbage", "batch", "methodless", "eth_call", "eth_chainId", "eth_blockNumber",
           "eth_getBalance", "eth_getBalance_bad_params"}

KNOWN_METHODS == {"eth_chainId", "eth_blockNumber", "eth_getBalance",
                  "eth_getBalance_bad_params"}

Idle == [stage |-> "idle", body |-> "garbage", block |-> Anything, posted |-> 0, locked |-> 0,
         reply |-> "none", at |-> 0, nth |-> 0]

(* The front starts once it has the bundle and knows whether the           *)
(* deployment is partial; anything else ends the process.                  *)
RpcInit ==
    /\ pir \in {[head |-> 1, partial |-> p] : p \in BOOLEAN}
    /\ upstream \in {[configured |-> c, sent |-> {}] : c \in BOOLEAN}
    /\ holder = NoOne
    /\ request = [c \in Callers |-> Idle]

BlockApplies ==
    /\ pir.head < MaxRpcHead
    /\ pir' = [pir EXCEPT !.head = @ + 1]
    /\ UNCHANGED <<upstream, holder, request>>

Post(c) ==
    /\ request[c].stage = "idle" /\ request[c].nth < MaxPosts
    /\ \E body \in Bodies, block \in {Anything} \cup 0..MaxRpcHead :
          /\ body # "eth_getBalance" => block = Anything
          /\ request' = [request EXCEPT ![c] = [Idle EXCEPT
                !.stage = "handle", !.body = body, !.block = block,
                !.posted = pir.head, !.nth = request[c].nth + 1]]
    /\ UNCHANGED <<pir, upstream, holder>>

Replies(c, reply, at) ==
    request' = [request EXCEPT ![c].stage = "replied", ![c].reply = reply, ![c].at = at]

Goes(c, stage) == request' = [request EXCEPT ![c].stage = stage]

-----------------------------------------------------------------------------

Malformed(c) ==
    /\ request[c].stage = "handle"
    /\ \/ request[c].body = "garbage" /\ Replies(c, "parse_error", 0)
       \/ request[c].body \in {"batch", "methodless"} /\ Replies(c, "invalid_request", 0)
    /\ UNCHANGED <<pir, upstream, holder>>

NotOurs(c) ==
    /\ request[c].stage = "handle"
    /\ request[c].body \notin KNOWN_METHODS \cup {"garbage", "batch", "methodless"}
    /\ IF upstream.configured
       THEN Goes(c, "forward") /\ upstream' = [upstream EXCEPT !.sent = @ \cup {request[c].body}]
       ELSE Replies(c, "method_not_found", 0) /\ upstream' = upstream
    /\ UNCHANGED <<pir, holder>>

(* The upstream's status and body as they are, or a 502.                   *)
Forwarded(c) ==
    /\ request[c].stage = "forward"
    /\ \E reply \in {"upstreams", "bad_gateway"} : Replies(c, reply, 0)
    /\ UNCHANGED <<pir, upstream, holder>>

Dispatch(c) ==
    /\ request[c].stage = "handle" /\ request[c].body \in KNOWN_METHODS
    /\ CASE request[c].body = "eth_chainId" -> Replies(c, "chain_id", 0)
         [] request[c].body = "eth_getBalance_bad_params" -> Replies(c, "invalid_params", 0)
         [] OTHER -> Goes(c, "head")
    /\ UNCHANGED <<pir, upstream, holder>>

(* Mutant of Classified: a block behind the head is close enough.          *)
ClassifiedLoosely(block, head) ==
    IF block > head THEN "future" ELSE "ok"

Classified(block, head) ==
    CASE block \in {Anything, head} -> "ok"
      [] block # Anything /\ block < head -> "historical"
      [] OTHER -> "future"

HeadKnown(c) ==
    /\ request[c].stage = "head"
    /\ LET class == Classified(request[c].block, pir.head)
       IN CASE request[c].body = "eth_blockNumber" -> Replies(c, "block_number", pir.head)
            [] class = "ok" -> Goes(c, "lock")
            [] OTHER -> Replies(c, class, pir.head)
    /\ UNCHANGED <<pir, upstream, holder>>

(* The session's mutex is held through the whole lookup, calls included.   *)
LockSession(c) ==
    /\ request[c].stage = "lock" /\ holder = NoOne
    /\ holder' = c
    /\ request' = [request EXCEPT ![c].stage = "lookup", ![c].locked = pir.head]
    /\ UNCHANGED <<pir, upstream>>

(* What the session finds, at a block the deployment reached since; an     *)
(* account that is not stored has balance zero only if all are.            *)
LookedUp(c) ==
    /\ request[c].stage = "lookup"
    /\ \E at \in request[c].locked..pir.head :
          \E reply \in {"balance", "decode_failed", "stalled",
                        IF pir.partial THEN "not_tracked" ELSE "zero"} : Replies(c, reply, at)
    /\ holder' = NoOne
    /\ UNCHANGED <<pir, upstream>>

(* A call fails: -32603, or -32000 for what the session itself reports.    *)
CallFails(c) ==
    /\ request[c].stage \in {"head", "lookup"}
    /\ Replies(c, "internal", 0)
    /\ holder' = IF holder = c THEN NoOne ELSE holder
    /\ UNCHANGED <<pir, upstream>>

(* The handler is dropped where it waits, the guard it holds with it.      *)
TimesOut(c) ==
    /\ request[c].stage \in {"forward", "head", "lock", "lookup"}
    /\ Replies(c, "timeout", 0)
    /\ holder' = IF holder = c THEN NoOne ELSE holder
    /\ UNCHANGED <<pir, upstream>>

ReplyRead(c) ==
    /\ request[c].stage = "replied"
    /\ Goes(c, "idle")
    /\ UNCHANGED <<pir, upstream, holder>>

RpcNext ==
    \/ BlockApplies
    \/ \E c \in Callers :
          \/ Post(c) \/ Malformed(c) \/ NotOurs(c) \/ Forwarded(c) \/ Dispatch(c) \/ HeadKnown(c)
          \/ LockSession(c) \/ LookedUp(c) \/ CallFails(c) \/ TimesOut(c) \/ ReplyRead(c)

RpcSpec == RpcInit /\ [][RpcNext]_rpcVars

-----------------------------------------------------------------------------

(* A balance is never one of before the request came, whoever held the     *)
(* session meanwhile; a request that names a block gets one only if that   *)
(* block was the deployment's head at a moment of the request, and an      *)
(* error only if it was not at one; a partial deployment never says zero;  *)
(* and no body that names an account or that is refused here is sent to    *)
(* the upstream (rpc.rs:191, 254, 282). That the balance is the one at the *)
(* block named is left out: NamedBlockIsAnswered does not hold.            *)
RepliesAreTrue ==
    /\ upstream.sent \subseteq Bodies \ KNOWN_METHODS
    /\ upstream.sent # {} => upstream.configured /\ upstream.sent = {"eth_call"}
    /\ \A c \in Callers : LET r == request[c] IN
          r.stage = "replied" =>
             /\ holder # c
             /\ r.reply \in {"balance", "zero", "not_tracked"} =>
                   /\ r.posted <= r.at
                   /\ r.block # Anything => r.posted <= r.block /\ r.block <= r.at
             /\ r.reply = "zero" => ~pir.partial
             /\ r.reply = "historical" => r.block < r.at
             /\ r.reply = "future" => r.posted < r.block

(* A request that names a block is answered with the balance at that very  *)
(* block, or with an error: another block is never close enough            *)
(* (rpc.rs:277-281).                                                       *)
NamedBlockIsAnswered ==
    \A c \in Callers : LET r == request[c] IN
        /\ r.stage = "replied" /\ r.reply \in {"balance", "zero", "not_tracked"}
        /\ r.block # Anything
        => r.at = r.block
=============================================================================
