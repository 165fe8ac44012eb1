----------------------------- MODULE Edges_proofs -----------------------------
(***************************************************************************)
(* The edges of a deployment, each with the inductive invariant its        *)
(* promise needs.                                                          *)
(* The feed (FeedInv): a fetch is "done" only at an endpoint on the        *)
(* expected chain that has the block, so whatever the loop takes out of    *)
(* the window is that chain's; and the window never leaves the blocks      *)
(* between the last applied one and the head, although an endpoint that    *)
(* lags may lower the head.                                                *)
(* The JSON-RPC front end: the stage of a request tells how the block it   *)
(* named, the block at which it was posted and the one at which it locked  *)
(* the session follow each other.                                          *)
(* The wasm module (AbiInv): whatever query is in flight between two       *)
(* awaits is that of the lookup that waits, and the error thrown is that   *)
(* of the call just made.                                                  *)
(* The page (PageInv): what is shown goes with the lookups and polls under *)
(* way.                                                                    *)
(* The native client's calls (CallsInv): the NetSink's figures are a fold  *)
(* over the calls that ended.                                              *)
(* The start (StartInv): a file's number is that of a save or of none, so  *)
(* that a journal that names it goes on from it.                           *)
(***************************************************************************)
EXTENDS BlockFeed, JsonRpc, WasmAbi, WebPage, HttpCalls, Startup, NaturalLemmas

(* The feed.                                                               *)

Window == IF Depth = 0 THEN 1 ELSE Depth

FetchesOK ==
    /\ verified \subseteq OnChain
    /\ \A b \in DOMAIN inflight :
          /\ inflight[b].block = b
          /\ inflight[b].state = "done" =>
                inflight[b].at \in OnChain /\ b <= tip[inflight[b].at]

FeedInv == FeedTypeOK /\ FetchesOK /\ WindowBounded /\ AppliedIsTheChain

(* The arithmetic facts the constants give.                                *)
LEMMA FeedConstants ==
    /\ NumEndpoints \in Nat \ {0} /\ Depth \in Nat /\ MaxFaults \in Nat /\ MaxBlock \in Nat
    /\ Window \in Nat \ {0} /\ OnChain \subseteq Endpoints /\ 1 \in Endpoints
BY FeedAssumption DEF Window, Endpoints

(* The window that starts at the next block ends at or below the head.     *)
LEMMA ThroughBounds ==
    ASSUME last \in Nat, head \in Nat, last < head
    PROVE  /\ Through(last + 1) \in last + 1 .. head
           /\ Through(last + 1) <= last + Window
BY FeedConstants DEF Through, Window

(* The invariant holds initially.                                          *)
LEMMA FeedInitInv == FeedInit => FeedInv
<1> SUFFICES ASSUME FeedInit PROVE FeedInv
  OBVIOUS
<1>1. DOMAIN inflight = {} /\ DOMAIN source = {} /\ last = 0 /\ head = 0 /\ awaited = 0
  BY DEF FeedInit, NoFetch
<1>2. FeedTypeOK
  BY <1>1, FeedConstants DEF FeedInit, FeedTypeOK
<1>3. FetchesOK
  BY <1>1 DEF FeedInit, FetchesOK
<1>4. WindowBounded /\ AppliedIsTheChain
  BY <1>1 DEF WindowBounded, AppliedIsTheChain
<1> QED
  BY <1>2, <1>3, <1>4 DEF FeedInv

(* An endpoint that learns of a block keeps everything it had.             *)
LEMMA AdvanceKeepsInv == \A e \in Endpoints : FeedInv /\ Advance(e) => FeedInv'
<1> SUFFICES ASSUME NEW e \in Endpoints, FeedInv, Advance(e) PROVE FeedInv'
  OBVIOUS
<1>1. /\ tip' \in [Endpoints -> 0 .. MaxBlock]
      /\ \A f \in Endpoints : tip[f] <= tip'[f] /\ tip[f] \in Nat /\ tip'[f] \in Nat
  BY FeedConstants DEF FeedInv, FeedTypeOK, Advance
<1>2. FeedTypeOK'
  BY <1>1 DEF FeedInv, FeedTypeOK, Advance
<1>3. FetchesOK'
  <2>1. \A b \in DOMAIN inflight : b \in Nat /\ inflight[b].at \in Endpoints
    BY DEF FeedInv, FeedTypeOK, Fetch, Blocks
  <2> QED
    BY <1>1, <2>1 DEF FeedInv, FetchesOK, Advance
<1>4. AppliedIsTheChain'
  <2>1. \A b \in DOMAIN source : b \in Nat /\ source[b].at \in Endpoints
    BY DEF FeedInv, FeedTypeOK, Fetch, Blocks
  <2> QED
    BY <1>1, <2>1 DEF FeedInv, AppliedIsTheChain, Advance
<1>5. WindowBounded'
  BY DEF FeedInv, WindowBounded, Advance
<1> QED
  BY <1>2, <1>3, <1>4, <1>5 DEF FeedInv

(* A head that is lowered takes the fetches above it out of the window.    *)
LEMMA PollKeepsInv == FeedInv /\ Poll => FeedInv'
<1> SUFFICES ASSUME FeedInv, Poll PROVE FeedInv'
  OBVIOUS
<1>1. PICK e \in Endpoints, also \in SUBSET OnChain :
        /\ e \in verified \/ ChainVerified(e)
        /\ verified' = verified \cup also \cup {e}
        /\ head' \in {head, tip[e]}
        /\ inflight' = KeptUpTo(head')
  BY DEF Poll
<1>2. /\ awaited = 0 /\ awaited' = 0 /\ tip' = tip /\ last' = last /\ source' = source
      /\ faults' = faults /\ following' = following
  BY DEF Poll
<1>3. verified' \subseteq OnChain
  BY <1>1 DEF FeedInv, FetchesOK, ChainVerified
<1>4. head' \in 0 .. MaxBlock
  BY <1>1 DEF FeedInv, FeedTypeOK
<1>5. /\ DOMAIN inflight' = {b \in DOMAIN inflight : b <= head'}
      /\ \A b \in DOMAIN inflight' : inflight'[b] = inflight[b]
  BY <1>1 DEF KeptUpTo
<1>6. FeedTypeOK'
  BY <1>2, <1>3, <1>4, <1>5, FeedConstants DEF FeedInv, FeedTypeOK
<1>7. FetchesOK'
  BY <1>2, <1>3, <1>5 DEF FeedInv, FetchesOK
<1>8. WindowBounded'
  <2>1. ASSUME NEW b \in DOMAIN inflight' PROVE b \in last + 1 .. head' /\ b <= last + Window
    <3>1. b \in last + 1 .. head /\ b <= head' /\ b <= last + Window
      BY <1>5 DEF FeedInv, WindowBounded, Window
    <3>2. last \in Nat /\ head \in Nat /\ head' \in Nat
      BY <1>4, FeedConstants DEF FeedInv, FeedTypeOK
    <3> QED
      BY <3>1, <3>2
  <2> QED
    BY <1>2, <2>1 DEF WindowBounded, Window
<1>9. AppliedIsTheChain'
  BY <1>2 DEF FeedInv, AppliedIsTheChain
<1> QED
  BY <1>6, <1>7, <1>8, <1>9 DEF FeedInv

(* The fetches that are spawned are of the window, and the block the loop  *)
(* waits for is among them.                                                *)
LEMMA FetchNextKeepsInv == FeedInv /\ FetchNext => FeedInv'
<1> SUFFICES ASSUME FeedInv, FetchNext PROVE FeedInv'
  OBVIOUS
<1>1. /\ last < head /\ awaited' = last + 1
      /\ tip' = tip /\ verified' = verified /\ head' = head /\ last' = last
      /\ source' = source /\ faults' = faults /\ following' = following
  BY DEF FetchNext
<1>2. PICK end : end = Through(last + 1)
  OBVIOUS
<1>3. /\ DOMAIN inflight' = DOMAIN inflight \cup (last + 1 .. end)
      /\ \A b \in DOMAIN inflight' :
            inflight'[b] = IF b \in DOMAIN inflight THEN inflight[b] ELSE Started(b)
  BY <1>2 DEF FetchNext
<1>4. /\ last \in Nat /\ head \in Nat /\ head <= MaxBlock
      /\ end \in last + 1 .. head /\ end <= last + Window
  <2>1. last \in Nat /\ head \in Nat /\ head <= MaxBlock
    BY FeedConstants DEF FeedInv, FeedTypeOK
  <2> QED
    BY <1>1, <1>2, <2>1, ThroughBounds
<1>5. last + 1 .. end \subseteq Blocks /\ last + 1 \in last + 1 .. end
  BY <1>4, FeedConstants DEF Blocks
<1>6. ASSUME NEW b \in Blocks
      PROVE  /\ Started(b) \in Fetch
             /\ Started(b).block = b /\ Started(b).state # "done"
  BY FeedConstants DEF Started, Fetch
<1>7. FeedTypeOK'
  <2>1. DOMAIN inflight' \subseteq Blocks /\ \A b \in DOMAIN inflight' : inflight'[b] \in Fetch
    BY <1>3, <1>5, <1>6 DEF FeedInv, FeedTypeOK
  <2>2. awaited' \in 0 .. MaxBlock
    BY <1>1, <1>4, FeedConstants
  <2> QED
    BY <1>1, <2>1, <2>2 DEF FeedInv, FeedTypeOK
<1>8. FetchesOK'
  BY <1>1, <1>3, <1>5, <1>6 DEF FeedInv, FetchesOK
<1>9. WindowBounded'
  <2>1. ASSUME NEW b \in DOMAIN inflight' PROVE b \in last + 1 .. head /\ b <= last + Window
    <3>1. CASE b \in DOMAIN inflight
      BY <3>1 DEF FeedInv, WindowBounded, Window
    <3>2. CASE b \in last + 1 .. end
      BY <3>2, <1>4, FeedConstants
    <3> QED
      BY <3>1, <3>2, <1>3
  <2> QED
    BY <1>1, <1>3, <1>5, <2>1 DEF WindowBounded, Window
<1>10. AppliedIsTheChain'
  BY <1>1 DEF FeedInv, AppliedIsTheChain
<1> QED
  BY <1>7, <1>8, <1>9, <1>10 DEF FeedInv

(* What a step of one fetch may do: the fetch goes on elsewhere, ends, or  *)
(* learns of an endpoint's chain; it is done only where the block is.      *)
Moved(b) ==
    /\ b \in DOMAIN inflight
    /\ DOMAIN inflight' = DOMAIN inflight
    /\ \A c \in DOMAIN inflight : c # b => inflight'[c] = inflight[c]
    /\ inflight'[b] \in Fetch /\ inflight'[b].block = inflight[b].block
    /\ inflight'[b].state = "done" =>
          \/ inflight'[b] = inflight[b]
          \/ inflight'[b].at \in verified /\ b <= tip[inflight'[b].at]
    /\ verified' \in SUBSET OnChain
    /\ faults' \in 0 .. MaxFaults
    /\ UNCHANGED <<tip, head, last, awaited, source, following>>

(* Every step of the fetch of block b, and its panic, is such a move.      *)
LEMMA FetchMoves ==
    ASSUME NEW b \in Blocks, FeedInv, FetchStep(b) \/ FetchPanics(b)
    PROVE  Moved(b)
<1>1. /\ b \in DOMAIN inflight /\ inflight[b].state = "running"
      /\ inflight[b] \in Fetch /\ faults \in 0 .. MaxFaults /\ faults \in Nat
      /\ verified \in SUBSET OnChain
  <2>1. b \in DOMAIN inflight /\ inflight[b].state = "running"
    BY DEF FetchStep, EndpointVerified, EndpointNotVerified, Fetched, FetchFails, FetchPanics, Running
  <2> QED
    BY <2>1, FeedConstants DEF FeedInv, FeedTypeOK, FetchesOK
<1>2. PICK f : f = inflight[b]
  OBVIOUS
<1>3. f \in Fetch /\ f.state = "running" /\ f.at \in Endpoints
  BY <1>1, <1>2 DEF Fetch
<1>4. /\ Elsewhere(f) \in Fetch /\ Elsewhere(f).block = f.block
      /\ Elsewhere(f).state # "done"
  BY <1>3, FeedConstants DEF Elsewhere, Fetch, Endpoints
<1>5. Fault => faults' \in 0 .. MaxFaults
  BY <1>1, FeedConstants DEF Fault
<1>6. CASE EndpointVerified(b)
  BY <1>1, <1>2, <1>3, <1>6 DEF EndpointVerified, ChainVerified, Moved
<1>7. CASE EndpointNotVerified(b) \/ FetchFails(b)
  <2>1. /\ inflight' = [inflight EXCEPT ![b] = Elsewhere(@)]
        /\ Fault \/ faults' = faults
        /\ UNCHANGED <<tip, verified, head, last, awaited, source, following>>
    BY <1>7 DEF EndpointNotVerified, FetchFails
  <2>2. /\ DOMAIN inflight' = DOMAIN inflight /\ inflight'[b] = Elsewhere(f)
        /\ \A c \in DOMAIN inflight : c # b => inflight'[c] = inflight[c]
    BY <1>1, <1>2, <2>1
  <2> QED
    BY <1>1, <1>2, <1>4, <1>5, <2>1, <2>2 DEF Moved
<1>8. CASE Fetched(b)
  <2>1. /\ inflight' = [inflight EXCEPT ![b].state = "done"]
        /\ f.at \in verified /\ b <= tip[f.at]
        /\ UNCHANGED <<tip, verified, head, last, awaited, source, faults, following>>
    BY <1>2, <1>8 DEF Fetched
  <2>2. /\ DOMAIN inflight' = DOMAIN inflight /\ inflight'[b] = [f EXCEPT !.state = "done"]
        /\ \A c \in DOMAIN inflight : c # b => inflight'[c] = inflight[c]
    BY <1>1, <1>2, <2>1
  <2>3. PICK g : g = [f EXCEPT !.state = "done"]
    OBVIOUS
  <2>4. g \in Fetch /\ g.block = f.block /\ g.at = f.at
    BY <1>3, <2>3 DEF Fetch
  <2> QED
    BY <1>1, <1>2, <2>1, <2>2, <2>3, <2>4 DEF Moved
<1>9. CASE FetchPanics(b)
  <2>1. /\ inflight' = [inflight EXCEPT ![b].state = "panicked"]
        /\ Fault
        /\ UNCHANGED <<tip, verified, head, last, awaited, source, following>>
    BY <1>9 DEF FetchPanics
  <2>2. /\ DOMAIN inflight' = DOMAIN inflight /\ inflight'[b] = [f EXCEPT !.state = "panicked"]
        /\ \A c \in DOMAIN inflight : c # b => inflight'[c] = inflight[c]
    BY <1>1, <1>2, <2>1
  <2>3. PICK g : g = [f EXCEPT !.state = "panicked"]
    OBVIOUS
  <2>4. g \in Fetch /\ g.block = f.block /\ g.state # "done"
    BY <1>3, <2>3 DEF Fetch
  <2> QED
    BY <1>1, <1>2, <1>5, <2>1, <2>2, <2>3, <2>4 DEF Moved
<1> QED
  BY <1>6, <1>7, <1>8, <1>9 DEF FetchStep

(* Such a move keeps the invariant: it neither applies nor takes a block.  *)
LEMMA FetchKeepsInv ==
    \A b \in Blocks : FeedInv /\ (FetchStep(b) \/ FetchPanics(b)) => FeedInv'
<1> SUFFICES ASSUME NEW b \in Blocks, FeedInv, FetchStep(b) \/ FetchPanics(b) PROVE FeedInv'
  OBVIOUS
<1>1. Moved(b)
  BY FetchMoves
<1>2. FeedTypeOK'
  BY <1>1, FeedConstants DEF FeedInv, FeedTypeOK, Moved
<1>3. FetchesOK'
  BY <1>1 DEF FeedInv, FetchesOK, Moved
<1>4. WindowBounded' /\ AppliedIsTheChain'
  BY <1>1 DEF FeedInv, WindowBounded, AppliedIsTheChain, Moved
<1> QED
  BY <1>2, <1>3, <1>4 DEF FeedInv

(* The block the loop awaited is the next one, and when its fetch is done  *)
(* it is the chain's.                                                      *)
LEMMA AwaitKeepsInv == FeedInv /\ Await => FeedInv'
<1> SUFFICES ASSUME FeedInv, Await PROVE FeedInv'
  OBVIOUS
<1>1. /\ awaited # 0 /\ awaited' = 0 /\ tip' = tip /\ verified' = verified /\ head' = head
      /\ faults' = faults /\ following' = following
  BY DEF Await
<1>2. /\ awaited = last + 1 /\ awaited \in DOMAIN inflight
      /\ last \in Nat /\ head \in Nat /\ awaited \in Blocks /\ inflight[awaited] \in Fetch
  BY <1>1, FeedConstants DEF FeedInv, FeedTypeOK, WindowBounded
<1>3. /\ DOMAIN inflight' = DOMAIN inflight \ {awaited}
      /\ \A b \in DOMAIN inflight' : inflight'[b] = inflight[b]
  BY DEF Await, AfterAwait, Without
<1>4. FetchesOK'
  BY <1>1, <1>3 DEF FeedInv, FetchesOK
<1>5. ASSUME NEW b \in DOMAIN inflight'
      PROVE  /\ b \in last + 1 .. head /\ b <= last + Window
             /\ b \in (last + 1) + 1 .. head /\ b <= (last + 1) + Window
  <2>1. b \in last + 1 .. head /\ b <= last + Window /\ b # last + 1
    BY <1>2, <1>3 DEF FeedInv, WindowBounded, Window
  <2> QED
    BY <1>2, <2>1, FeedConstants
<1>6. last' \in {last, last + 1}
  BY <1>2 DEF Await
<1>7. WindowBounded'
  BY <1>1, <1>5, <1>6 DEF WindowBounded, Window
<1>8. FeedTypeOK' /\ AppliedIsTheChain'
  <2>1. last' \in 0 .. MaxBlock
    BY <1>2, <1>6, FeedConstants DEF FeedInv, FeedTypeOK, Blocks
  <2>2. CASE inflight[awaited].state = "done"
    <3>1. /\ last' = last + 1
          /\ DOMAIN source' = DOMAIN source \cup {last + 1}
          /\ \A b \in DOMAIN source' :
                source'[b] = IF b = last + 1 THEN inflight[b] ELSE source[b]
      BY <1>2, <2>2 DEF Await
    <3>2. /\ inflight[last + 1].block = last + 1 /\ inflight[last + 1].at \in OnChain
          /\ last + 1 <= tip[inflight[last + 1].at]
      BY <1>2, <2>2 DEF FeedInv, FetchesOK
    <3>3. AppliedIsTheChain'
      <4>1. DOMAIN source' = 1 .. last + 1
        BY <1>2, <3>1 DEF FeedInv, AppliedIsTheChain
      <4> QED
        BY <1>1, <3>1, <3>2, <4>1 DEF FeedInv, AppliedIsTheChain
    <3>4. FeedTypeOK'
      <4>1. DOMAIN source' \subseteq Blocks /\ \A b \in DOMAIN source' : source'[b] \in Fetch
        BY <1>2, <3>1 DEF FeedInv, FeedTypeOK
      <4> QED
        BY <1>1, <1>3, <2>1, <4>1, FeedConstants DEF FeedInv, FeedTypeOK
    <3> QED
      BY <3>3, <3>4
  <2>3. CASE inflight[awaited].state # "done"
    <3>1. last' = last /\ source' = source
      BY <2>3 DEF Await
    <3> QED
      BY <1>1, <1>3, <2>1, <3>1, FeedConstants DEF FeedInv, FeedTypeOK, AppliedIsTheChain
  <2> QED
    BY <2>2, <2>3
<1> QED
  BY <1>4, <1>7, <1>8 DEF FeedInv

(* A loop that returns leaves nothing in the window.                       *)
LEMMA StopKeepsInv == FeedInv /\ StopFollowing => FeedInv'
<1> SUFFICES ASSUME FeedInv, StopFollowing PROVE FeedInv'
  OBVIOUS
<1>1. DOMAIN inflight' = {} /\ awaited' = 0 /\ awaited = 0
  BY DEF StopFollowing, NoFetch
<1>2. FeedTypeOK'
  BY <1>1 DEF FeedInv, FeedTypeOK, StopFollowing
<1>3. FetchesOK' /\ WindowBounded' /\ AppliedIsTheChain'
  BY <1>1 DEF FeedInv, FetchesOK, WindowBounded, AppliedIsTheChain, StopFollowing
<1> QED
  BY <1>2, <1>3 DEF FeedInv

(* The window and what was applied from it are always as FeedInv says.     *)
THEOREM FeedInvariant == FeedSpec => []FeedInv
<1>1. FeedInit => FeedInv
  BY FeedInitInv
<1>2. FeedInv /\ [FeedNext]_feedVars => FeedInv'
  <2> SUFFICES ASSUME FeedInv, [FeedNext]_feedVars PROVE FeedInv'
    OBVIOUS
  <2>1. CASE UNCHANGED feedVars
    BY <2>1 DEF FeedInv, FeedTypeOK, FetchesOK, WindowBounded, AppliedIsTheChain, feedVars
  <2> QED
    BY <2>1, AdvanceKeepsInv, PollKeepsInv, FetchNextKeepsInv, FetchKeepsInv, AwaitKeepsInv,
       StopKeepsInv DEF FeedNext
<1> QED
  BY <1>1, <1>2, PTL DEF FeedSpec

(* At most --prefetch fetches are in flight, none above the head, and the  *)
(* block the loop awaits is the next one and among them.                   *)
THEOREM WindowAlwaysBounded == FeedSpec => []WindowBounded
<1>1. FeedInv => WindowBounded
  BY DEF FeedInv
<1> QED
  BY <1>1, FeedInvariant, PTL

(* Whatever fails, panics, lags or is on another chain, the applied blocks *)
(* are the expected chain's, each once and without a gap.                  *)
THEOREM AppliedIsAlwaysTheChain == FeedSpec => []AppliedIsTheChain
<1>1. FeedInv => AppliedIsTheChain
  BY DEF FeedInv
<1> QED
  BY <1>1, FeedInvariant, PTL

-----------------------------------------------------------------------------
(* The JSON-RPC front end.                                                 *)

Replying ==
    {"none", "parse_error", "invalid_request", "method_not_found", "upstreams", "bad_gateway",
     "chain_id", "invalid_params", "block_number", "historical", "future", "balance",
     "decode_failed", "stalled", "not_tracked", "zero", "internal", "timeout"}

(* A request in handling: what its stage says of it.                       *)
RpcRequests ==
    [stage : {"idle", "handle", "forward", "head", "lock", "lookup", "replied"}, body : Bodies,
     block : Int, posted : Nat, locked : Nat, reply : Replying, at : Nat, nth : Nat]

RpcTypeOK ==
    /\ pir \in [head : Nat, partial : BOOLEAN]
    /\ upstream \in [configured : BOOLEAN, sent : SUBSET Bodies]
    /\ holder \in Callers \cup {NoOne}
    /\ request \in [Callers -> RpcRequests]

(* Requests were posted no later than now; who looks up holds the session, *)
(* and the session's lock is taken no earlier than the block was named.    *)
RequestOK(c) ==
    LET r == request[c] IN
    /\ r.posted <= pir.head
    /\ holder = c <=> r.stage = "lookup"
    /\ r.stage = "lock" /\ r.block # Anything => r.posted <= r.block /\ r.block <= pir.head
    /\ r.stage = "lookup" =>
          /\ r.posted <= r.locked /\ r.locked <= pir.head
          /\ r.block # Anything => r.posted <= r.block /\ r.block <= r.locked
    /\ r.stage = "forward" => upstream.configured

Answered(q, reply, at) == [q EXCEPT !.stage = "replied", !.reply = reply, !.at = at]

ReplyOK(r) ==
    /\ r.reply \in {"balance", "zero", "not_tracked"} =>
          /\ r.posted <= r.at
          /\ r.block # Anything => r.posted <= r.block /\ r.block <= r.at
    /\ r.reply = "zero" => ~pir.partial
    /\ r.reply = "historical" => r.block < r.at
    /\ r.reply = "future" => r.posted < r.block

SentOK ==
    /\ upstream.sent \subseteq {"eth_call"}
    /\ upstream.sent # {} => upstream.configured

RpcInv ==
    /\ RpcTypeOK /\ SentOK
    /\ \A c \in Callers : RequestOK(c) /\ (request[c].stage = "replied" => ReplyOK(request[c]))

(* The invariant says of the replies what RepliesAreTrue asks.             *)
LEMMA RpcInvImplies == RpcInv => RepliesAreTrue
<1> SUFFICES ASSUME RpcInv PROVE RepliesAreTrue
  OBVIOUS
<1> USE DEF RpcInv
<1>1. upstream.sent \subseteq Bodies \ KNOWN_METHODS
  <2>1. upstream.sent \subseteq {"eth_call"}
    BY DEF SentOK
  <2>2. "eth_call" \in Bodies /\ "eth_call" \notin KNOWN_METHODS
    BY DEF Bodies, KNOWN_METHODS
  <2> QED
    BY <2>1, <2>2
<1>2. upstream.sent # {} => upstream.configured /\ upstream.sent = {"eth_call"}
  BY DEF SentOK
<1>3. ASSUME NEW c \in Callers, request[c].stage = "replied"
      PROVE  holder # c /\ ReplyOK(request[c])
  BY <1>3 DEF RequestOK
<1> QED
  <2> HIDE DEF RpcInv
  <2> QED
    BY <1>1, <1>2, <1>3 DEF RepliesAreTrue, ReplyOK

(* Nothing is requested, held or sent at first.                            *)
LEMMA RpcInitInv == RpcInit => RpcInv
<1> SUFFICES ASSUME RpcInit PROVE RpcInv
  OBVIOUS
<1> USE DEF RpcInit
<1>1. Idle \in RpcRequests /\ Idle.stage = "idle" /\ Idle.posted = 0
  BY DEF Idle, RpcRequests, Anything, Bodies, Replying
<1>2. RpcTypeOK /\ SentOK
  BY <1>1 DEF RpcTypeOK, SentOK
<1>3. \A c \in Callers : RequestOK(c) /\ request[c].stage # "replied"
  <2>1. \A c \in Callers : NoOne # c
    BY RpcAssumption, Zenon DEF NoOne
  <2>2. \A c \in Callers : request[c] = Idle /\ holder # c
    BY <2>1, Zenon
  <2> QED
    BY <1>1, <2>2 DEF RequestOK
<1> QED
  BY <1>2, <1>3 DEF RpcInv

(* A step of caller c that leaves the deployment and the others' requests  *)
(* as they are keeps what the others have.                                 *)
LEMMA OthersKept ==
    ASSUME RpcInv, NEW c \in Callers, UNCHANGED pir,
           NEW r \in RpcRequests, request' = [request EXCEPT ![c] = r],
           upstream' \in [configured : {upstream.configured}, sent : SUBSET {"eth_call"}],
           upstream'.sent # {} => upstream.configured,
           holder' \in Callers \cup {NoOne},
           \A d \in Callers \ {c} : (holder' = d) <=> (holder = d),
           RequestOK(c)', request'[c].stage = "replied" => ReplyOK(request[c])'
    PROVE  RpcInv'
<1>1. RpcTypeOK'
  <2>1. upstream' \in [configured : BOOLEAN, sent : SUBSET Bodies]
    <3>1. "eth_call" \in Bodies /\ upstream.configured \in BOOLEAN
      BY DEF RpcInv, RpcTypeOK, Bodies
    <3> QED
      BY <3>1
  <2>2. request' \in [Callers -> RpcRequests]
    BY DEF RpcInv, RpcTypeOK
  <2> QED
    BY <2>1, <2>2 DEF RpcInv, RpcTypeOK
<1>2. SentOK'
  BY DEF SentOK
<1>3. ASSUME NEW d \in Callers, d # c
      PROVE  RequestOK(d)' /\ (request'[d].stage = "replied" => ReplyOK(request[d])')
  <2>1. request'[d] = request[d]
    BY <1>3 DEF RpcInv, RpcTypeOK
  <2>2. upstream'.configured = upstream.configured
    OBVIOUS
  <2>3. RequestOK(d) /\ (request[d].stage = "replied" => ReplyOK(request[d]))
    BY DEF RpcInv
  <2> QED
    <3>1. /\ holder' = d <=> holder = d
          /\ pir' = pir
      BY <1>3
    <3>2. RequestOK(d)'
      BY <2>1, <2>2, <2>3, <3>1 DEF RequestOK
    <3>3. request'[d].stage = "replied" => ReplyOK(request[d])'
      BY <2>1, <2>3, <3>1 DEF ReplyOK
    <3> QED
      BY <3>2, <3>3
<1> QED
  BY <1>1, <1>2, <1>3 DEF RpcInv

(* A block moves the head on, and no request's.                            *)
LEMMA BlockAppliesInv == ASSUME RpcInv, BlockApplies PROVE RpcInv'
<1>1. /\ pir' = [pir EXCEPT !.head = @ + 1] /\ UNCHANGED <<upstream, holder, request>>
      /\ pir \in [head : Nat, partial : BOOLEAN]
  BY DEF BlockApplies, RpcInv, RpcTypeOK
<1>2. pir'.head = pir.head + 1 /\ pir'.partial = pir.partial /\ pir.head \in Nat
  BY <1>1
<1>3. RpcTypeOK' /\ SentOK'
  BY <1>1, <1>2 DEF RpcInv, RpcTypeOK, SentOK
<1>4. ASSUME NEW c \in Callers
      PROVE  RequestOK(c)' /\ (request'[c].stage = "replied" => ReplyOK(request[c])')
  <2>1. request[c] \in RpcRequests
    BY DEF RpcInv, RpcTypeOK
  <2>2. RequestOK(c) /\ (request[c].stage = "replied" => ReplyOK(request[c]))
    BY DEF RpcInv
  <2>3. RequestOK(c)'
    BY <1>1, <1>2, <2>1, <2>2 DEF RequestOK, RpcRequests
  <2>4. request'[c].stage = "replied" => ReplyOK(request[c])'
    BY <1>1, <1>2, <2>2 DEF ReplyOK
  <2> QED
    BY <2>3, <2>4
<1> QED
  BY <1>3, <1>4 DEF RpcInv

(* A step that only answers: c held the session or did not, and it lets go *)
(* of it.                                                                  *)
LEMMA RepliesInv ==
    ASSUME RpcInv, NEW c \in Callers, NEW reply \in Replying, NEW at \in Nat,
           UNCHANGED <<pir, upstream>>, Replies(c, reply, at),
           holder' = IF holder = c THEN NoOne ELSE holder,
           NEW r, r = Answered(request[c], reply, at), ReplyOK(r)
    PROVE  RpcInv'
<1>1. r = Answered(request[c], reply, at)
  OBVIOUS
<1>2. request[c] \in RpcRequests
  BY DEF RpcInv, RpcTypeOK
<1>3. /\ r \in RpcRequests /\ r.stage = "replied" /\ r.posted = request[c].posted
  BY <1>1, <1>2 DEF RpcRequests, Answered
<1>4. request' = [request EXCEPT ![c] = r]
  BY <1>1, Zenon DEF Replies, Answered
<1>5. request'[c] = r
  BY <1>4 DEF RpcInv, RpcTypeOK
<1>6. /\ holder' # c /\ holder' \in Callers \cup {NoOne}
      /\ \A d \in Callers \ {c} : (holder' = d) <=> (holder = d)
  BY RpcAssumption DEF RpcInv, RpcTypeOK, NoOne
<1>7. RequestOK(c)'
  <2>1. request[c].posted <= pir.head
    BY DEF RpcInv, RequestOK
  <2> QED
    BY <1>3, <1>5, <1>6, <2>1 DEF RequestOK
<1>8. ReplyOK(request[c])'
  BY <1>5 DEF ReplyOK
<1>9. /\ upstream' \in [configured : {upstream.configured}, sent : SUBSET {"eth_call"}]
      /\ upstream'.sent # {} => upstream.configured
  BY DEF RpcInv, RpcTypeOK, SentOK
<1> QED
  BY <1>3, <1>4, <1>6, <1>7, <1>8, <1>9, OthersKept

(* Most replies carry no block, and say nothing that RepliesAreTrue limits.*)
LEMMA PlainReply ==
    ASSUME RpcInv, NEW c \in Callers,
           NEW reply \in Replying \ {"balance", "zero", "not_tracked", "historical", "future"},
           NEW at, NEW r, r = Answered(request[c], reply, at)
    PROVE  ReplyOK(r)
<1>1. request[c] \in RpcRequests
  BY DEF RpcInv, RpcTypeOK
<1>2. r.reply = reply
  BY <1>1 DEF RpcRequests, Answered
<1> QED
  BY <1>2 DEF ReplyOK

(* A step from one stage to the next.                                      *)
LEMMA GoesInv ==
    ASSUME RpcInv, NEW c \in Callers, NEW stage \in {"idle", "forward", "head", "lock"},
           UNCHANGED <<pir, holder>>, Goes(c, stage), request[c].stage # "lookup",
           upstream' \in [configured : {upstream.configured}, sent : SUBSET {"eth_call"}],
           upstream'.sent # {} => upstream.configured,
           stage = "forward" => upstream.configured,
           stage = "lock" /\ request[c].block # Anything => request[c].block = pir.head
    PROVE  RpcInv'
<1>1. PICK r : r = [request[c] EXCEPT !.stage = stage]
  OBVIOUS
<1>2. request[c] \in RpcRequests /\ pir.head \in Nat
  BY DEF RpcInv, RpcTypeOK
<1>3. /\ r \in RpcRequests /\ r.stage = stage /\ r.posted = request[c].posted
      /\ r.block = request[c].block /\ r.posted \in Nat
  BY <1>1, <1>2 DEF RpcRequests
<1>4. request' = [request EXCEPT ![c] = r]
  BY <1>1, Zenon DEF Goes
<1>5. request'[c] = r
  BY <1>4 DEF RpcInv, RpcTypeOK
<1>6. holder # c /\ request[c].posted <= pir.head
  BY DEF RpcInv, RequestOK
<1>7. RequestOK(c)'
  BY <1>2, <1>3, <1>5, <1>6 DEF RequestOK
<1>8. holder' \in Callers \cup {NoOne} /\ \A d \in Callers \ {c} : (holder' = d) <=> (holder = d)
  BY DEF RpcInv, RpcTypeOK
<1> QED
  BY <1>3, <1>4, <1>5, <1>7, <1>8, OthersKept

(* A request comes in at the head that it is posted at.                    *)
LEMMA PostInv == ASSUME RpcInv, NEW c \in Callers, Post(c) PROVE RpcInv'
<1>1. PICK body \in Bodies, block \in {Anything} \cup 0 .. MaxRpcHead :
         request' = [request EXCEPT ![c] = [Idle EXCEPT
            !.stage = "handle", !.body = body, !.block = block,
            !.posted = pir.head, !.nth = request[c].nth + 1]]
  BY Zenon DEF Post
<1>2. PICK r : r = [Idle EXCEPT
            !.stage = "handle", !.body = body, !.block = block,
            !.posted = pir.head, !.nth = request[c].nth + 1]
  OBVIOUS
<1>3. request[c] \in RpcRequests /\ pir.head \in Nat /\ request[c].nth \in Nat
  BY DEF RpcInv, RpcTypeOK, RpcRequests
<1>4. block \in Int
  BY RpcAssumption DEF Anything
<1>5. r \in RpcRequests /\ r.stage = "handle" /\ r.posted = pir.head
  <2>1. PICK i : i = Idle
    OBVIOUS
  <2>2. i \in RpcRequests
    BY <2>1 DEF Idle, RpcRequests, Replying, Anything, Bodies
  <2>3. PICK n \in Nat : n = request[c].nth + 1
    BY <1>3
  <2>4. r = [i EXCEPT !.stage = "handle", !.body = body, !.block = block,
                      !.posted = pir.head, !.nth = n]
    BY <1>2, <2>1, <2>3, Zenon
  <2> QED
    BY <1>3, <1>4, <2>2, <2>4 DEF RpcRequests
<1>6. request' = [request EXCEPT ![c] = r]
  BY <1>1, <1>2, Zenon
<1>7. request'[c] = r
  BY <1>6 DEF RpcInv, RpcTypeOK
<1>8. request[c].stage = "idle" /\ UNCHANGED <<pir, upstream, holder>>
  BY DEF Post
<1>9. holder # c
  BY <1>8 DEF RpcInv, RequestOK
<1>10. RequestOK(c)'
  BY <1>3, <1>5, <1>7, <1>8, <1>9 DEF RequestOK
<1>11. /\ holder' \in Callers \cup {NoOne} /\ \A d \in Callers \ {c} : (holder' = d) <=> (holder = d)
       /\ upstream' \in [configured : {upstream.configured}, sent : SUBSET {"eth_call"}]
       /\ (upstream'.sent # {} => upstream.configured) /\ pir' = pir
  BY <1>8 DEF RpcInv, RpcTypeOK, SentOK
<1>12. request'[c].stage # "replied"
  BY <1>5, <1>7
<1> QED
  BY <1>5, <1>6, <1>10, <1>11, <1>12, OthersKept

(* What the dispatcher answers at once, and what it passes on.             *)
LEMMA DispatchInv ==
    ASSUME RpcInv, NEW c \in Callers, Malformed(c) \/ NotOurs(c) \/ Forwarded(c) \/ Dispatch(c)
    PROVE  RpcInv'
<1> DEFINE Plain == Replying \ {"balance", "zero", "not_tracked", "historical", "future"}
<1>1. /\ request[c].stage \in {"handle", "forward"}
      /\ pir' = pir /\ holder' = holder /\ holder # c
  <2>1. request[c].stage \in {"handle", "forward"} /\ pir' = pir /\ holder' = holder
    BY DEF Malformed, NotOurs, Forwarded, Dispatch
  <2> QED
    BY <2>1 DEF RpcInv, RequestOK
<1>2. ASSUME NEW reply \in Plain, Replies(c, reply, 0), UNCHANGED upstream PROVE RpcInv'
  <2>1. reply \in Replying
    OBVIOUS
  <2>2. PICK r : r = Answered(request[c], reply, 0)
    OBVIOUS
  <2>4. ReplyOK(r)
    BY <2>2, PlainReply
  <2>3. holder' = IF holder = c THEN NoOne ELSE holder
    BY <1>1
  <2> QED
    BY <1>1, <1>2, <2>1, <2>2, <2>3, <2>4, RepliesInv
<1>3. ASSUME NEW stage \in {"forward", "head"}, Goes(c, stage),
             upstream' \in [configured : {upstream.configured}, sent : SUBSET {"eth_call"}],
             upstream'.sent # {} => upstream.configured,
             stage = "forward" => upstream.configured
      PROVE  RpcInv'
  <2>1. stage \in {"idle", "forward", "head", "lock"} /\ stage # "lock" /\ request[c].stage # "lookup"
    BY <1>1
  <2> QED
    BY <1>1, <1>3, <2>1, GoesInv
<1>4. /\ upstream \in [configured : {upstream.configured}, sent : SUBSET {"eth_call"}]
      /\ upstream.sent # {} => upstream.configured
  BY DEF RpcInv, RpcTypeOK, SentOK
<1>5. ASSUME Malformed(c) PROVE RpcInv'
  <2>1. {"parse_error", "invalid_request"} \subseteq Plain
    BY DEF Replying
  <2>2. UNCHANGED upstream /\ \E reply \in {"parse_error", "invalid_request"} : Replies(c, reply, 0)
    BY <1>5 DEF Malformed
  <2> HIDE DEF Plain
  <2> QED
    BY <1>2, <2>1, <2>2
<1>6. ASSUME NotOurs(c) PROVE RpcInv'
  <2>1. request[c].body = "eth_call"
    <3>1. request[c].body \in Bodies
      BY DEF RpcInv, RpcTypeOK, RpcRequests
    <3> QED
      BY <1>6, <3>1 DEF NotOurs, Bodies, KNOWN_METHODS
  <2>2. CASE upstream.configured
    <3>1. Goes(c, "forward") /\ upstream' = [upstream EXCEPT !.sent = @ \cup {"eth_call"}]
      BY <1>6, <2>1, <2>2 DEF NotOurs
    <3>2. upstream' \in [configured : {upstream.configured}, sent : SUBSET {"eth_call"}]
      BY <1>4, <3>1
    <3> QED
      BY <1>3, <2>2, <3>1, <3>2
  <2>3. CASE ~upstream.configured
    <3>1. Replies(c, "method_not_found", 0) /\ upstream' = upstream
      BY <1>6, <2>3 DEF NotOurs
    <3>2. "method_not_found" \in Plain
      BY DEF Replying
    <3> QED
      BY <1>2, <3>1, <3>2
  <2> QED
    BY <2>2, <2>3
<1>7. ASSUME Forwarded(c) PROVE RpcInv'
  <2>1. {"upstreams", "bad_gateway"} \subseteq Plain
    BY DEF Replying
  <2>2. UNCHANGED upstream /\ \E reply \in {"upstreams", "bad_gateway"} : Replies(c, reply, 0)
    BY <1>7 DEF Forwarded
  <2> HIDE DEF Plain
  <2> QED
    BY <1>2, <2>1, <2>2
<1>8. ASSUME Dispatch(c) PROVE RpcInv'
  <2>1. {"chain_id", "invalid_params"} \subseteq Plain
    BY DEF Replying
  <2>2. /\ upstream' = upstream
        /\ (\E reply \in {"chain_id", "invalid_params"} : Replies(c, reply, 0)) \/ Goes(c, "head")
    BY <1>8 DEF Dispatch
  <2>3. CASE Goes(c, "head")
    BY <1>3, <1>4, <2>2, <2>3
  <2>4. CASE \E reply \in {"chain_id", "invalid_params"} : Replies(c, reply, 0)
    <3> HIDE DEF Plain
    <3> QED
      BY <1>2, <2>1, <2>2, <2>4
  <2> QED
    BY <2>2, <2>3, <2>4
<1> QED
  BY <1>5, <1>6, <1>7, <1>8

(* The head the deployment is at now classifies the block that was named.  *)
LEMMA HeadKnownInv == ASSUME RpcInv, NEW c \in Callers, HeadKnown(c) PROVE RpcInv'
<1>1. /\ request[c].stage = "head" /\ UNCHANGED <<pir, upstream, holder>>
      /\ request[c] \in RpcRequests /\ pir.head \in Nat
      /\ holder # c /\ request[c].posted <= pir.head
  BY DEF HeadKnown, RpcInv, RpcTypeOK, RequestOK
<1> DEFINE k == Classified(request[c].block, pir.head)
<1>2. request[c].block \in Int /\ request[c].posted \in Nat
  BY <1>1 DEF RpcRequests
<1>3. \/ k = "ok" /\ request[c].block \in {Anything, pir.head}
      \/ k = "historical" /\ request[c].block < pir.head
      \/ k = "future" /\ pir.head < request[c].block
  BY <1>1, <1>2 DEF Classified, Anything
<1> HIDE DEF k
<1>4. \/ Replies(c, "block_number", pir.head)
      \/ k = "ok" /\ Goes(c, "lock")
      \/ k # "ok" /\ Replies(c, k, pir.head)
  BY DEF HeadKnown, k
<1>5. ASSUME NEW reply \in Replying, Replies(c, reply, pir.head),
             NEW r, r = Answered(request[c], reply, pir.head), ReplyOK(r)
      PROVE  RpcInv'
  <2>1. holder' = IF holder = c THEN NoOne ELSE holder
    BY <1>1
  <2> QED
    BY <1>1, <1>5, <2>1, RepliesInv
<1>6. CASE Replies(c, "block_number", pir.head)
  <2>1. "block_number" \in Replying \ {"balance", "zero", "not_tracked", "historical", "future"}
    BY DEF Replying
  <2>2. PICK r : r = Answered(request[c], "block_number", pir.head)
    OBVIOUS
  <2>3. ReplyOK(r)
    BY <2>1, <2>2, PlainReply
  <2> QED
    BY <1>5, <1>6, <2>1, <2>2, <2>3
<1>7. CASE k = "ok" /\ Goes(c, "lock")
  <2>1. /\ upstream' \in [configured : {upstream.configured}, sent : SUBSET {"eth_call"}]
        /\ upstream'.sent # {} => upstream.configured
    BY <1>1 DEF RpcInv, RpcTypeOK, SentOK
  <2>2. request[c].block # Anything => request[c].block = pir.head
    BY <1>3, <1>7
  <2>3. "lock" \in {"idle", "forward", "head", "lock"} /\ "lock" # "forward"
        /\ request[c].stage # "lookup" /\ pir' = pir /\ holder' = holder
    BY <1>1
  <2> QED
    BY <1>7, <2>1, <2>2, <2>3, GoesInv
<1>8. CASE k # "ok" /\ Replies(c, k, pir.head)
  <2>1. k \in Replying
    BY <1>3, <1>8 DEF Replying
  <2>2. PICK r : r = Answered(request[c], k, pir.head)
    OBVIOUS
  <2>3. r.reply = k /\ r.at = pir.head /\ r.block = request[c].block /\ r.posted = request[c].posted
    BY <1>1, <2>2 DEF RpcRequests, Answered
  <2>4. ReplyOK(r)
    BY <1>1, <1>2, <1>3, <1>8, <2>3 DEF ReplyOK
  <2> QED
    BY <1>5, <1>8, <2>1, <2>2, <2>4
<1> QED
  BY <1>4, <1>6, <1>7, <1>8

(* One caller at a time gets the session, at a head no earlier than its.   *)
LEMMA LockSessionInv == ASSUME RpcInv, NEW c \in Callers, LockSession(c) PROVE RpcInv'
<1>1. /\ request[c].stage = "lock" /\ holder = NoOne /\ holder' = c /\ UNCHANGED <<pir, upstream>>
      /\ request' = [request EXCEPT ![c].stage = "lookup", ![c].locked = pir.head]
      /\ request[c] \in RpcRequests /\ pir.head \in Nat
  BY DEF LockSession, RpcInv, RpcTypeOK
<1>2. PICK r : r = [request[c] EXCEPT !.stage = "lookup", !.locked = pir.head]
  OBVIOUS
<1>3. /\ r \in RpcRequests /\ r.stage = "lookup" /\ r.locked = pir.head
      /\ r.posted = request[c].posted /\ r.block = request[c].block
      /\ r.posted \in Nat /\ r.block \in Int
  BY <1>1, <1>2 DEF RpcRequests
<1>4. request' = [request EXCEPT ![c] = r]
  BY <1>1, <1>2 DEF RpcInv, RpcTypeOK
<1>5. request'[c] = r
  BY <1>4 DEF RpcInv, RpcTypeOK
<1>6. RequestOK(c)'
  <2>1. /\ request[c].posted <= pir.head
        /\ request[c].block # Anything => request[c].posted <= request[c].block /\ request[c].block <= pir.head
    BY <1>1 DEF RpcInv, RequestOK
  <2> QED
    BY <1>1, <1>3, <1>5, <2>1 DEF RequestOK
<1>7. /\ holder' \in Callers \cup {NoOne} /\ \A d \in Callers \ {c} : (holder' = d) <=> (holder = d)
      /\ upstream' \in [configured : {upstream.configured}, sent : SUBSET {"eth_call"}]
      /\ (upstream'.sent # {} => upstream.configured) /\ pir' = pir
  BY <1>1, RpcAssumption DEF RpcInv, RpcTypeOK, SentOK, NoOne
<1>8. request'[c].stage # "replied"
  BY <1>3, <1>5
<1> QED
  BY <1>3, <1>4, <1>6, <1>7, <1>8, OthersKept

(* What the session finds is of a block between the lock and now.          *)
LEMMA LookedUpInv == ASSUME RpcInv, NEW c \in Callers, LookedUp(c) PROVE RpcInv'
<1>1. /\ request[c].stage = "lookup" /\ holder' = NoOne /\ UNCHANGED <<pir, upstream>>
      /\ request[c] \in RpcRequests /\ pir.head \in Nat /\ holder = c
  BY DEF LookedUp, RpcInv, RpcTypeOK, RequestOK
<1>2. PICK at \in request[c].locked .. pir.head :
        \E reply \in {"balance", "decode_failed", "stalled",
                      IF pir.partial THEN "not_tracked" ELSE "zero"} : Replies(c, reply, at)
  BY DEF LookedUp
<1>3. PICK reply \in {"balance", "decode_failed", "stalled",
                      IF pir.partial THEN "not_tracked" ELSE "zero"} : Replies(c, reply, at)
  BY <1>2
<1>4. /\ request[c].locked \in Nat /\ request[c].posted \in Nat /\ request[c].block \in Int
      /\ at \in Nat /\ request[c].locked <= at
  BY <1>1, <1>2 DEF RpcRequests
<1>5. reply \in Replying /\ (reply = "zero" => ~pir.partial)
      /\ reply \notin {"historical", "future"}
  BY <1>3 DEF Replying
<1>6. /\ request[c].posted <= request[c].locked
      /\ request[c].block # Anything => request[c].posted <= request[c].block /\ request[c].block <= request[c].locked
  BY <1>1 DEF RpcInv, RequestOK
<1>7. PICK r : r = Answered(request[c], reply, at)
  OBVIOUS
<1>8. r.reply = reply /\ r.at = at /\ r.block = request[c].block /\ r.posted = request[c].posted
  BY <1>1, <1>7 DEF RpcRequests, Answered
<1>9. ReplyOK(r)
  BY <1>4, <1>5, <1>6, <1>8 DEF ReplyOK
<1>10. holder' = IF holder = c THEN NoOne ELSE holder
  BY <1>1
<1> QED
  BY <1>1, <1>3, <1>4, <1>5, <1>7, <1>9, <1>10, RepliesInv

(* A failed call and a timeout drop the lookup, the lock with it.          *)
LEMMA DroppedInv ==
    ASSUME RpcInv, NEW c \in Callers, CallFails(c) \/ TimesOut(c)
    PROVE  RpcInv'
<1>1. PICK reply \in {"internal", "timeout"} : Replies(c, reply, 0)
  BY DEF CallFails, TimesOut
<1>2. reply \in Replying /\ reply \in Replying \ {"balance", "zero", "not_tracked", "historical", "future"}
  BY DEF Replying
<1>5. PICK r : r = Answered(request[c], reply, 0)
  OBVIOUS
<1>3. ReplyOK(r)
  BY <1>2, <1>5, PlainReply
<1>4. (holder' = IF holder = c THEN NoOne ELSE holder) /\ UNCHANGED <<pir, upstream>>
  BY DEF CallFails, TimesOut
<1> QED
  BY <1>1, <1>2, <1>3, <1>4, <1>5, RepliesInv

(* Every step of a caller, of the chain and of the clock keeps it.         *)
LEMMA RpcNextInv == RpcInv /\ [RpcNext]_rpcVars => RpcInv'
<1> SUFFICES ASSUME RpcInv, [RpcNext]_rpcVars PROVE RpcInv'
  OBVIOUS
<1>1. ASSUME NEW c \in Callers, ReplyRead(c) PROVE RpcInv'
  <2>1. /\ Goes(c, "idle") /\ request[c].stage # "lookup" /\ pir' = pir /\ holder' = holder
        /\ "idle" \in {"idle", "forward", "head", "lock"}
    BY <1>1 DEF ReplyRead
  <2>2. /\ upstream' \in [configured : {upstream.configured}, sent : SUBSET {"eth_call"}]
        /\ upstream'.sent # {} => upstream.configured
    BY <1>1 DEF ReplyRead, RpcInv, RpcTypeOK, SentOK
  <2> QED
    BY <2>1, <2>2, GoesInv
<1>2. CASE UNCHANGED rpcVars
  BY <1>2 DEF rpcVars, RpcInv, RpcTypeOK, SentOK, RequestOK, ReplyOK
<1> QED
  BY <1>1, <1>2, BlockAppliesInv, PostInv, DispatchInv, HeadKnownInv, LockSessionInv, LookedUpInv,
     DroppedInv DEF RpcNext

(* No balance older than the request, none for a block named that was not  *)
(* the head meanwhile (though it may be a later block's), no zero from a   *)
(* partial deployment, and nothing private at the upstream: in every order *)
(* of callers, blocks, failures and timeouts (rpc.rs:191).                 *)
THEOREM RepliesAreAlwaysTrue == RpcSpec => []RepliesAreTrue
<1>1. RpcInv => RepliesAreTrue
  BY RpcInvImplies
<1> QED
  BY <1>1, RpcInitInv, RpcNextInv, PTL DEF RpcSpec

-----------------------------------------------------------------------------
(* The wasm module and its page.                                           *)

(* A memory with a session, and what that has in flight.                   *)
Flight(f) ==
    \/ f = NoFlight
    \/ f = [held |-> TRUE, address |-> f.address, secret |-> f.secret, answer |-> f.answer]

Begun(s) ==
    /\ s = [initialised |-> TRUE, complete |-> s.complete, pinned |-> s.pinned,
            pending |-> s.pending, twice |-> s.twice, inFlight |-> s.inFlight]
    /\ Flight(s.inFlight)

Live(a) ==
    /\ a = [in |-> a.in, out |-> a.out, err |-> a.err, mode |-> a.mode,
            session |-> a.session, drawn |-> a.drawn]
    /\ Begun(a.session)

(* A call on memory a that leaves b: input and mode stay as they were.     *)
Stays(a, b) == Live(b) /\ b.in = a.in /\ b.session.complete = a.session.complete

(* Emptying an error, or writing what goes in, changes nothing else.       *)
LEMMA CallBegins ==
    ASSUME NEW a, Live(a)
    PROVE  LET c == ClearErr(a) IN
           /\ Stays(a, c) /\ c.session = a.session /\ c.drawn = a.drawn /\ c.mode = a.mode
           /\ c.out = a.out
BY DEF Live, ClearErr, Stays

(* What goes in is written to the one buffer, and nothing else moves.      *)
LEMMA InputWritten ==
    ASSUME NEW a, Live(a), NEW bytes
    PROVE  LET c == WriteIn(a, bytes) IN
           Live(c) /\ c.in = bytes /\ c.session = a.session
BY DEF Live, WriteIn

(* What comes out is put in the other buffer, and nothing else moves.      *)
LEMMA OutputPut ==
    ASSUME NEW a, Live(a), NEW bytes
    PROVE  LET c == PutOut(a, bytes) IN
           Stays(a, c) /\ c.out = bytes /\ c.session = a.session
BY DEF Live, PutOut, Stays

(* A call that fails says why, and leaves the session as it was.           *)
LEMMA ErrorSet ==
    ASSUME NEW a, Live(a), NEW why
    PROVE  LET r == SetErr(a, why) IN
           /\ Stays(a, r.abi) /\ r.abi.session = a.session /\ r.abi.err = why
           /\ r.ret = STATUS_ERROR
BY DEF Live, SetErr, Ret, Stays

(* What is in flight is the session's to replace.                          *)
LEMMA FlightPut ==
    ASSUME NEW s, Begun(s), NEW f, Flight(f)
    PROVE  LET t == [s EXCEPT !.inFlight = f] IN
           Begun(t) /\ t.inFlight = f /\ t.complete = s.complete
<1>1. PICK t : t = [s EXCEPT !.inFlight = f]
  OBVIOUS
<1>2. /\ t.inFlight = f /\ t.complete = s.complete /\ t.initialised = TRUE
      /\ t = [initialised |-> t.initialised, complete |-> t.complete, pinned |-> t.pinned,
              pending |-> t.pending, twice |-> t.twice, inFlight |-> t.inFlight]
  BY <1>1 DEF Begun
<1> QED  BY <1>1, <1>2 DEF Begun

(* A memory is given another session, and keeps both its buffers.          *)
LEMMA SessionPut ==
    ASSUME NEW a, Live(a), NEW s, Begun(s)
    PROVE  LET b == [a EXCEPT !.session = s] IN
           Live(b) /\ b.session = s /\ b.in = a.in /\ b.out = a.out
BY DEF Live

(* Ingesting a delta leaves the query alone.                               *)
LEMMA IngestIs ==
    ASSUME NEW a, Live(a), a.in.to \in Nat
    PROVE  LET r == IngestDelta(a) IN
           /\ Stays(a, r.abi) /\ r.abi.session.inFlight = a.session.inFlight
           /\ r.ret = STATUS_ERROR => r.abi.err \in {"codec", "client"}
<1>1. PICK c : c = ClearErr(a)
  OBVIOUS
<1>2. Stays(a, c) /\ c.session = a.session
  BY <1>1, CallBegins
<1>3. a.session.initialised /\ c.session.initialised /\ Live(c) /\ c.in = a.in
  BY <1>2 DEF Live, Stays, Begun
<1>4. PICK r : r = IngestDelta(a)
  OBVIOUS
<1>5. \/ r = SetErr(c, "codec") \/ r = SetErr(c, "client")
      \/ r = Ret([c EXCEPT !.session.pending = a.in.to,
                           !.session.twice = @ \/ a.in.from # a.session.pending], a.in.to)
  BY <1>1, <1>3, <1>4 DEF IngestDelta, WithSession
<1>6. ASSUME NEW why \in {"codec", "client"}, r = SetErr(c, why)
      PROVE  /\ Stays(a, r.abi) /\ r.abi.session.inFlight = a.session.inFlight
             /\ r.abi.err \in {"codec", "client"}
  BY <1>2, <1>3, <1>6, ErrorSet DEF Stays
<1>7. CASE r = Ret([c EXCEPT !.session.pending = a.in.to,
                            !.session.twice = @ \/ a.in.from # a.session.pending], a.in.to)
  <2>1. PICK s : s = [c.session EXCEPT !.pending = a.in.to,
                                       !.twice = @ \/ a.in.from # a.session.pending]
    OBVIOUS
  <2>2. r.abi = [c EXCEPT !.session = s] /\ r.ret = a.in.to
    BY <1>7, <2>1 DEF Ret
  <2>3. Begun(s) /\ s.inFlight = a.session.inFlight /\ s.complete = a.session.complete
    BY <1>2, <1>3, <2>1 DEF Live, Begun
  <2>4. Live(r.abi) /\ r.abi.session = s /\ r.abi.in = a.in
    BY <1>3, <2>2, <2>3, SessionPut
  <2>5. r.ret # STATUS_ERROR
    BY <2>2 DEF STATUS_ERROR
  <2> QED  BY <1>4, <2>3, <2>4, <2>5 DEF Stays
<1> QED  BY <1>4, <1>5, <1>6, <1>7

(* A query is drawn if none is in flight, and is then the one in flight.   *)
LEMMA QueryIs ==
    ASSUME NEW a, Live(a)
    PROVE  LET r == BuildQuery(a)
               f == r.abi.session.inFlight IN
           /\ Stays(a, r.abi)
           /\ r.ret = STATUS_ERROR => r.abi.err = "in_flight" /\ f = a.session.inFlight
           /\ r.ret # STATUS_ERROR =>
                 /\ ~a.session.inFlight.held /\ f.held /\ f.address = a.in.address
                 /\ r.abi.out.secret = f.secret /\ r.abi.out.address = f.address
<1>1. PICK c : c = ClearErr(a)
  OBVIOUS
<1>2. Stays(a, c) /\ c.session = a.session
  BY <1>1, CallBegins
<1>3. c.session.initialised /\ Live(c) /\ c.in = a.in
  BY <1>2 DEF Live, Stays, Begun
<1>4. PICK r : r = BuildQuery(a)
  OBVIOUS
<1>5. \/ r = SetErr(c, "in_flight")
      \/ ~a.session.inFlight.held /\ r = Drawn(c)
  BY <1>1, <1>2, <1>3, <1>4 DEF BuildQuery, WithSession
<1>6. CASE r = SetErr(c, "in_flight")
  BY <1>2, <1>3, <1>4, <1>6, ErrorSet DEF Stays
<1>7. CASE ~a.session.inFlight.held /\ r = Drawn(c)
  <2>1. PICK f : f = [held |-> TRUE, address |-> c.in.address, secret |-> c.drawn + 1,
                      answer |-> NoBytes]
    OBVIOUS
  <2>2. PICK q : q = [kind |-> "query", address |-> c.in.address, secret |-> c.drawn + 1]
    OBVIOUS
  <2>3. PICK p : p = PutOut(c, q)
    OBVIOUS
  <2>4. Stays(c, p) /\ p.out = q /\ p.session = c.session
    BY <1>3, <2>3, OutputPut
  <2>5. PICK s : s = [c.session EXCEPT !.inFlight = f]
    OBVIOUS
  <2>6. PICK n : n = p.drawn + 1
    OBVIOUS
  <2>7. PICK o : o = [p EXCEPT !.session = s]
    OBVIOUS
  <2>8. r.abi = [p EXCEPT !.session = s, !.drawn = n] /\ r.ret = 1
    BY <1>7, <2>1, <2>2, <2>3, <2>4, <2>5, <2>6 DEF Drawn, Ret
  <2>9. r.abi = [o EXCEPT !.drawn = n]
    BY <2>7, <2>8
  <2>10. Flight(f)
    BY <2>1 DEF Flight
  <2>11. Begun(s) /\ s.inFlight = f /\ s.complete = a.session.complete
    BY <1>2, <1>3, <2>5, <2>10, FlightPut DEF Live
  <2>12. Live(p) /\ p.in = a.in
    BY <1>3, <2>4 DEF Stays
  <2>13. Live(o) /\ o.session = s /\ o.in = a.in /\ o.out = q
    BY <2>4, <2>7, <2>11, <2>12, SessionPut
  <2>14. Live(r.abi) /\ r.abi.session = s /\ r.abi.in = a.in /\ r.abi.out = q
    BY <2>9, <2>13 DEF Live
  <2>15. f.held /\ f.address = a.in.address /\ q.secret = f.secret /\ q.address = f.address
    BY <1>3, <2>1, <2>2
  <2>16. r.ret # STATUS_ERROR
    BY <2>8 DEF STATUS_ERROR
  <2> QED  BY <1>4, <1>7, <2>11, <2>14, <2>15, <2>16 DEF Stays
<1> QED  BY <1>5, <1>6, <1>7

(* An answer is kept with the query in flight, if it can be read.          *)
LEMMA AcceptIs ==
    ASSUME NEW a, Live(a), a.session.inFlight.held, a.in.at \in Nat
    PROVE  LET r == AcceptAnswer(a)
               f == r.abi.session.inFlight IN
           /\ Stays(a, r.abi)
           /\ r.ret = STATUS_ERROR => r.abi.err = "wire" /\ f = a.session.inFlight
           /\ r.ret # STATUS_ERROR =>
                 /\ r.ret = a.in.at /\ f.held /\ f.answer = a.in
                 /\ f.address = a.session.inFlight.address /\ f.secret = a.session.inFlight.secret
<1>1. PICK c : c = ClearErr(a)
  OBVIOUS
<1>2. Stays(a, c) /\ c.session = a.session
  BY <1>1, CallBegins
<1>3. c.session.initialised /\ Live(c) /\ c.in = a.in
  BY <1>2 DEF Live, Stays, Begun
<1>4. PICK r : r = AcceptAnswer(a)
  OBVIOUS
<1>5. \/ r = SetErr(c, "wire")
      \/ r = Ret([c EXCEPT !.session.inFlight.answer = a.in], a.in.at)
  BY <1>1, <1>2, <1>3, <1>4 DEF AcceptAnswer, WithSession
<1>6. CASE r = SetErr(c, "wire")
  BY <1>2, <1>3, <1>4, <1>6, ErrorSet DEF Stays
<1>7. CASE r = Ret([c EXCEPT !.session.inFlight.answer = a.in], a.in.at)
  <2>1. PICK g : g = a.session.inFlight
    OBVIOUS
  <2>2. g = [held |-> TRUE, address |-> g.address, secret |-> g.secret, answer |-> g.answer]
    BY <2>1 DEF Live, Begun, Flight, NoFlight
  <2>3. PICK f : f = [g EXCEPT !.answer = a.in]
    OBVIOUS
  <2>4. /\ Flight(f)
        /\ f.held /\ f.answer = a.in /\ f.address = g.address /\ f.secret = g.secret
    <3>1. PICK given : given = a.in
      OBVIOUS
    <3>2. f = [g EXCEPT !.answer = given]
      BY <2>3, <3>1
    <3>3. /\ f.held = TRUE /\ f.answer = given /\ f.address = g.address
          /\ f.secret = g.secret
      BY <2>2, <3>2
    <3>4. f = [held |-> TRUE, address |-> f.address, secret |-> f.secret, answer |-> f.answer]
      BY <2>2, <3>2, <3>3
    <3> QED  BY <3>1, <3>3, <3>4 DEF Flight
  <2>5. PICK s : s = [c.session EXCEPT !.inFlight = f]
    OBVIOUS
  <2>6. r.abi = [c EXCEPT !.session = s] /\ r.ret = a.in.at
    BY <1>2, <1>7, <2>1, <2>3, <2>5 DEF Ret
  <2>7. Begun(s) /\ s.inFlight = f /\ s.complete = a.session.complete
    BY <1>2, <1>3, <2>4, <2>5, FlightPut DEF Live
  <2>8. Live(r.abi) /\ r.abi.session = s /\ r.abi.in = a.in
    BY <1>3, <2>6, <2>7, SessionPut
  <2>9. r.ret # STATUS_ERROR
    BY <2>6 DEF STATUS_ERROR
  <2> QED  BY <1>4, <2>1, <2>4, <2>6, <2>7, <2>8, <2>9 DEF Stays
<1> QED  BY <1>5, <1>6, <1>7

(* Finishing decodes the query in flight and ends it, or says that the     *)
(* delta is of another block.                                              *)
LEMMA FinishIs ==
    ASSUME NEW a, Live(a), a.session.inFlight.held, a.session.inFlight.answer.kind = "answer",
           NEW r \in Finish(a)
    PROVE  LET f == a.session.inFlight IN
           /\ Stays(a, r.abi)
           /\ f.answer.at # a.session.pending => r.ret = STATUS_ERROR
           /\ r.ret = STATUS_ERROR =>
                 /\ r.abi.err = "sync" /\ r.abi.session = a.session
                 /\ f.answer.at # a.session.pending
           /\ r.ret # STATUS_ERROR => r.abi.session.twice = a.session.twice
           /\ r.ret # STATUS_ERROR =>
                 \/ /\ r.ret = STATUS_FOUND /\ "found" \in Decodings(a.session)
                    /\ r.abi.out = [kind |-> "balance", address |-> f.address, at |-> f.answer.at]
                 \/ r.ret = STATUS_DECODE_FAILED
                 \/ /\ r.ret = IF a.session.complete THEN STATUS_ZERO ELSE STATUS_UNTRACKED
                    /\ "not_found" \in Decodings(a.session)
<1>1. PICK b : b = ClearErr(a)
  OBVIOUS
<1>2. Stays(a, b) /\ b.session = a.session /\ Live(b)
  BY <1>1, CallBegins DEF Stays
<1>3. PICK c : c = PutOut(b, NoBytes)
  OBVIOUS
<1>4. Stays(b, c) /\ c.session = a.session
  BY <1>2, <1>3, OutputPut
<1>5. Stays(a, c) /\ c.session.initialised /\ Live(c)
  BY <1>2, <1>4 DEF Live, Stays, Begun
<1>6. PICK f : f = a.session.inFlight
  OBVIOUS
<1>7. PICK s : s = [c.session EXCEPT !.inFlight = NoFlight]
  OBVIOUS
<1>8. PICK over : over = [c EXCEPT !.session = s]
  OBVIOUS
<1>9. over = [c EXCEPT !.session.inFlight = NoFlight]
  BY <1>7, <1>8
<1>10. PICK shown : shown = [kind |-> "balance", address |-> f.address, at |-> f.answer.at]
  OBVIOUS
<1>11. f.held /\ f.answer # NoBytes /\ a.session.initialised
  BY <1>4, <1>5, <1>6 DEF NoBytes
<1>12. r \in IF f.answer.at # a.session.pending THEN {SetErr(c, "sync")}
             ELSE {Shown(over, a.session, seen) : seen \in Decodings(a.session)}
  BY <1>1, <1>3, <1>6, <1>9, <1>11 DEF Finish
<1>13. Stays(a, over) /\ over.session.twice = a.session.twice
  <2>1. Begun(s) /\ s.complete = a.session.complete
    BY <1>4, <1>5, <1>7, FlightPut DEF Live, Flight
  <2>2. s.twice = a.session.twice
    BY <1>4, <1>5, <1>7 DEF Live, Begun
  <2>3. Live(over) /\ over.session = s /\ over.in = c.in
    BY <1>5, <1>8, <2>1, SessionPut
  <2> QED  BY <1>5, <2>1, <2>2, <2>3 DEF Stays
<1>14. CASE f.answer.at # a.session.pending
  <2>1. r = SetErr(c, "sync")
    BY <1>12, <1>14
  <2> QED  BY <1>4, <1>5, <1>6, <1>14, <2>1, ErrorSet DEF Stays
<1>15. CASE f.answer.at = a.session.pending
  <2>1. PICK seen \in Decodings(a.session) : r = Shown(over, a.session, seen)
    BY <1>12, <1>15
  <2>2. seen \in {"found", "not_found", "failed"}
    BY <2>1 DEF Decodings
  <2>3. CASE seen = "found"
    <3>1. r = Ret(PutOut(over, shown), STATUS_FOUND)
      BY <1>6, <1>10, <2>1, <2>3 DEF Shown
    <3>2. r.abi = PutOut(over, shown) /\ r.ret = STATUS_FOUND
      BY <3>1 DEF Ret
    <3>3. Stays(over, r.abi) /\ r.abi.out = shown /\ r.abi.session = over.session
      BY <1>13, <3>2, OutputPut DEF Stays
    <3>4. Stays(a, r.abi)
      BY <1>13, <3>3 DEF Stays
    <3>5. r.ret # STATUS_ERROR
      BY <3>2 DEF STATUS_ERROR, STATUS_FOUND
    <3> QED  BY <1>6, <1>10, <1>13, <1>15, <2>1, <2>3, <3>2, <3>3, <3>4, <3>5
  <2>4. CASE seen = "failed"
    <3>1. r = Ret(over, STATUS_DECODE_FAILED)
      BY <2>1, <2>4 DEF Shown
    <3> QED  BY <1>6, <1>13, <1>15, <3>1 DEF Ret, STATUS_ERROR, STATUS_DECODE_FAILED
  <2>5. CASE seen = "not_found"
    <3>1. r = Ret(over, IF a.session.complete THEN STATUS_ZERO ELSE STATUS_UNTRACKED)
      BY <2>1, <2>5 DEF Shown
    <3> QED  BY <1>6, <1>13, <1>15, <2>1, <2>5, <3>1
             DEF Ret, STATUS_ERROR, STATUS_ZERO, STATUS_UNTRACKED
  <2> QED  BY <2>2, <2>3, <2>4, <2>5
<1> QED  BY <1>14, <1>15

(* A lookup by itself: what it shows is its own, it shows nothing before   *)
(* it ends, and what it has read at each stage can be used.                *)
InQuery(k) == k.pc \in {"answer", "answered", "resync"}

LookupOk(k) ==
    /\ k = [pc |-> k.pc, address |-> k.address, from |-> k.from, to |-> k.to, reply |-> k.reply,
            step |-> k.step, status |-> k.status, why |-> k.why, balance |-> k.balance, twice |-> k.twice]
    /\ ShowsItsOwn(k)
    /\ k.pc # "idle" =>
          /\ k.status = STATUS_ERROR /\ k.step = "none" /\ k.address \in Tracked \cup Untracked
    /\ k.pc \in {"sync", "resync"} => k.to \in Nat
    /\ k.pc \in {"answered", "resync"} => k.reply.kind = "answer" /\ k.reply.at \in Nat

(* The query a lookup waits on is the one the session has in flight.       *)
Asked(k, f) ==
    InQuery(k) =>
        /\ f.held /\ f.secret = k.reply.secret /\ f.address = k.address
        /\ k.pc = "resync" => f.answer = k.reply

Shapes ==
    /\ app = [boot |-> app.boot, mode |-> app.mode, epoch |-> app.epoch, asks |-> app.asks,
              lookups |-> app.lookups]
    /\ app.lookups = [l \in Lookers |-> app.lookups[l]]
    /\ peer = [head |-> peer.head, complete |-> peer.complete, faults |-> peer.faults]
    /\ peer.head \in Nat /\ peer.complete \in BOOLEAN

Loading ==
    /\ app.boot = "download" => abi = FreshAbi
    /\ app.boot \in {"mode", "load"} =>
          abi = [FreshAbi EXCEPT !.in = abi.in] /\ abi.in.kind = "setup"
    /\ app.boot = "load" => app.mode = {IF peer.complete THEN 1 ELSE 0}
    /\ app.boot # "ready" => \A l \in Lookers : app.lookups[l] = IdleLooker

Lookups ==
    /\ \A l \in Lookers : LookupOk(app.lookups[l])
    /\ \A l, m \in Lookers : InQuery(app.lookups[l]) /\ InQuery(app.lookups[m]) => l = m
    /\ app.boot = "ready" =>
          /\ Live(abi) /\ abi.session.complete = peer.complete
          /\ app.epoch.kind = "epoch" /\ abi.in.kind # "setup"
          /\ \A l \in Lookers : Asked(app.lookups[l], abi.session.inFlight)

AbiInv == Shapes /\ Loading /\ Lookups

(* What a step leaves of the deployment: only its head and faults move.    *)
PeerStays ==
    /\ peer' = [head |-> peer'.head, complete |-> peer'.complete, faults |-> peer'.faults]
    /\ peer'.complete = peer.complete /\ peer'.head \in Nat

(* A reply, flawed or not, leaves the deployment at its block.             *)
LEMMA PeerFaulted ==
    ASSUME Shapes, NEW fails, Faulted(fails) \/ UNCHANGED peer
    PROVE  PeerStays /\ peer'.head = peer.head
<1>1. CASE Faulted(fails)
  <2>1. PICK n : n = peer.faults + IF fails THEN 1 ELSE 0
    OBVIOUS
  <2>2. peer' = [peer EXCEPT !.faults = n]
    BY <1>1, <2>1 DEF Faulted, Shapes
  <2>3. /\ peer'.head = peer.head /\ peer'.complete = peer.complete
        /\ peer' = [head |-> peer'.head, complete |-> peer'.complete, faults |-> peer'.faults]
    BY <2>2 DEF Shapes
  <2> QED  BY <2>3 DEF PeerStays, Shapes
<1>2. CASE UNCHANGED peer
  BY <1>2 DEF PeerStays, Shapes
<1> QED  BY <1>1, <1>2

(* Only one lookup of the page changes.                                    *)
LEMMA LookerPut ==
    ASSUME Shapes, NEW l \in Lookers, NEW k, Looker(l, k)
    PROVE  /\ app' = [boot |-> app'.boot, mode |-> app'.mode, epoch |-> app'.epoch,
                      asks |-> app'.asks, lookups |-> app'.lookups]
           /\ app'.boot = app.boot /\ app'.epoch = app.epoch
           /\ app'.lookups = [m \in Lookers |-> IF m = l THEN k ELSE app.lookups[m]]
<1>1. PICK all : all = [app.lookups EXCEPT ![l] = k]
  OBVIOUS
<1>2. app' = [app EXCEPT !.lookups = all]
  BY <1>1 DEF Looker
<1>3. all = [m \in Lookers |-> IF m = l THEN k ELSE app.lookups[m]]
  BY <1>1 DEF Shapes
<1>4. /\ app'.boot = app.boot /\ app'.epoch = app.epoch /\ app'.lookups = all
      /\ app' = [boot |-> app'.boot, mode |-> app'.mode, epoch |-> app'.epoch,
                 asks |-> app'.asks, lookups |-> app'.lookups]
  BY <1>2 DEF Shapes
<1> QED  BY <1>3, <1>4

(* A step of one lookup of a ready page keeps the invariant if it leaves   *)
(* that lookup in order and disturbs no query but its own.                 *)
LEMMA LookupSteps ==
    ASSUME AbiInv, app.boot = "ready", PeerStays,
           NEW l \in Lookers, NEW k, Looker(l, k), LookupOk(k),
           Live(abi'), abi'.session.complete = abi.session.complete, abi'.in.kind # "setup",
           Asked(k, abi'.session.inFlight),
           \/ /\ abi'.session.inFlight = abi.session.inFlight
              /\ InQuery(k) => InQuery(app.lookups[l])
           \/ \A m \in Lookers : InQuery(app.lookups[m]) => m = l
    PROVE  AbiInv'
<1>1. /\ app' = [boot |-> app'.boot, mode |-> app'.mode, epoch |-> app'.epoch,
                 asks |-> app'.asks, lookups |-> app'.lookups]
      /\ app'.boot = "ready" /\ app'.epoch = app.epoch
      /\ app'.lookups = [m \in Lookers |-> IF m = l THEN k ELSE app.lookups[m]]
  BY LookerPut DEF AbiInv
<1>2. /\ app'.lookups[l] = k
      /\ \A m \in Lookers : m # l => app'.lookups[m] = app.lookups[m]
      /\ app'.lookups = [m \in Lookers |-> app'.lookups[m]]
  BY <1>1
<1>3. Shapes'
  <2>1. peer.complete \in BOOLEAN
    BY DEF AbiInv, Shapes
  <2> QED  BY <1>1, <1>2, <2>1 DEF Shapes, PeerStays
<1>4. Loading'
  BY <1>1 DEF Loading
<1>5. ASSUME NEW m \in Lookers
      PROVE  LookupOk(app.lookups[m])' /\ Asked(app.lookups[m], abi.session.inFlight)'
  <2>1. CASE m = l
    BY <1>2, <2>1 DEF LookupOk, ShowsItsOwn, Asked, InQuery, PeerStays
  <2>2. CASE m # l
    <3>1. LookupOk(app.lookups[m]) /\ Asked(app.lookups[m], abi.session.inFlight)
      BY DEF AbiInv, Lookups
    <3>2. app'.lookups[m] = app.lookups[m]
      BY <1>2, <2>2
    <3>3. LookupOk(app.lookups[m])'
      BY <3>1, <3>2 DEF LookupOk, ShowsItsOwn, PeerStays
    <3>4. Asked(app.lookups[m], abi.session.inFlight)'
      BY <2>2, <3>1, <3>2 DEF Asked, InQuery
    <3> QED  BY <3>3, <3>4
  <2> QED  BY <2>1, <2>2
<1>6. ASSUME NEW m \in Lookers, NEW n \in Lookers,
             InQuery(app.lookups[m])', InQuery(app.lookups[n])'
      PROVE  m = n
  <2>1. \A o \in Lookers : o # l /\ InQuery(app.lookups[o])' => InQuery(app.lookups[o])
    BY <1>2 DEF InQuery
  <2>2. InQuery(app.lookups[l])' <=> InQuery(k)
    BY <1>2 DEF InQuery
  <2> QED  BY <1>6, <2>1, <2>2 DEF AbiInv, Lookups
<1>7. Lookups'
  BY <1>1, <1>5, <1>6 DEF Lookups, AbiInv, PeerStays
<1> QED  BY <1>3, <1>4, <1>7 DEF AbiInv

(* The error a step throws is the one of the call that step made.          *)
Why(stage) == CASE stage = "sync" -> {"codec", "client"} [] stage = "query" -> {"in_flight"}
                [] stage = "answer" -> {"wire"} [] stage = "finish" -> {"sync"}

(* A lookup that fails is over, and the query it had may stay in flight.   *)
LEMMA ThrownKeepsInv ==
    ASSUME AbiInv, app.boot = "ready", PeerStays, NEW l \in Lookers,
           NEW stage \in {"sync", "query", "answer", "finish"}, NEW a, Thrown(l, stage, a),
           Live(a), a.session.complete = abi.session.complete, a.in.kind # "setup",
           a.err \in Why(stage),
           \/ a.session.inFlight = abi.session.inFlight
           \/ InQuery(app.lookups[l])
    PROVE  AbiInv'
<1>1. PICK j : j = app.lookups[l]
  OBVIOUS
<1>2. PICK k : k = [j EXCEPT !.pc = "idle", !.step = stage, !.status = STATUS_ERROR,
                             !.why = a.err, !.balance = NoBytes]
  OBVIOUS
<1>3. abi' = a /\ Looker(l, k)
  BY <1>1, <1>2 DEF Thrown
<1>4. LookupOk(j)
  BY <1>1 DEF AbiInv, Lookups
<1>5. /\ k = [pc |-> k.pc, address |-> k.address, from |-> k.from, to |-> k.to, reply |-> k.reply,
             step |-> k.step, status |-> k.status, why |-> k.why, balance |-> k.balance, twice |-> k.twice]
      /\ k.pc = "idle" /\ k.step = stage /\ k.status = STATUS_ERROR /\ k.why = a.err
  BY <1>2, <1>4 DEF LookupOk
<1>6. k.status # STATUS_FOUND /\ k.status \notin {STATUS_ZERO, STATUS_UNTRACKED}
  BY <1>5 DEF STATUS_ERROR, STATUS_FOUND, STATUS_ZERO, STATUS_UNTRACKED
<1>7. /\ k.step = "sync"   => k.why \in {"codec", "client"}
      /\ k.step = "query"  => k.why = "in_flight"
      /\ k.step = "answer" => k.why = "wire"
      /\ k.step = "finish" => k.why = "sync"
  BY <1>5 DEF Why
<1>8. LookupOk(k)
  BY <1>5, <1>6, <1>7 DEF LookupOk, ShowsItsOwn
<1>9. ~InQuery(k) /\ Asked(k, a.session.inFlight)
  BY <1>5 DEF InQuery, Asked
<1>10. InQuery(app.lookups[l]) => \A m \in Lookers : InQuery(app.lookups[m]) => m = l
  BY DEF AbiInv, Lookups
<1> QED  BY <1>3, <1>8, <1>9, <1>10, LookupSteps

(* A query is drawn only when no lookup waits on one.                      *)
LEMMA AskKeepsInv ==
    ASSUME AbiInv, app.boot = "ready", PeerStays, NEW l \in Lookers,
           app.lookups[l].pc \in {"head", "sync"}, NEW a, AskFrom(l, a),
           Live(a), a.session.complete = abi.session.complete,
           a.session.inFlight = abi.session.inFlight
    PROVE  AbiInv'
<1>1. PICK j : j = app.lookups[l]
  OBVIOUS
<1>2. PICK given : given = [kind |-> "address", address |-> j.address]
  OBVIOUS
<1>3. PICK b : b = WriteIn(a, given)
  OBVIOUS
<1>4. Live(b) /\ b.in = given /\ b.session = a.session
  BY <1>3, InputWritten
<1>5. PICK r : r = BuildQuery(b)
  OBVIOUS
<1>6. /\ Live(r.abi) /\ r.abi.in = given /\ r.abi.session.complete = abi.session.complete
      /\ r.ret = STATUS_ERROR =>
            r.abi.err = "in_flight" /\ r.abi.session.inFlight = abi.session.inFlight
      /\ r.ret # STATUS_ERROR =>
            /\ ~abi.session.inFlight.held /\ r.abi.session.inFlight.held
            /\ r.abi.session.inFlight.address = given.address
            /\ r.abi.out.secret = r.abi.session.inFlight.secret
  BY <1>4, <1>5, QueryIs DEF Stays
<1>7. given.kind # "setup" /\ given.address = j.address
  BY <1>2
<1>8. CASE r.ret = STATUS_ERROR
  <2>1. Thrown(l, "query", r.abi)
    BY <1>1, <1>2, <1>3, <1>5, <1>8 DEF AskFrom
  <2> QED  BY <1>6, <1>7, <1>8, <2>1, ThrownKeepsInv DEF Why
<1>9. CASE r.ret # STATUS_ERROR
  <2>1. PICK k : k = [j EXCEPT !.pc = "answer", !.reply = r.abi.out]
    OBVIOUS
  <2>2. abi' = r.abi /\ Looker(l, k)
    BY <1>1, <1>2, <1>3, <1>5, <1>9, <2>1 DEF AskFrom
  <2>3. LookupOk(j) /\ j.pc \in {"head", "sync"}
    BY <1>1 DEF AbiInv, Lookups
  <2>4. /\ k = [pc |-> k.pc, address |-> k.address, from |-> k.from, to |-> k.to, reply |-> k.reply,
               step |-> k.step, status |-> k.status, why |-> k.why, balance |-> k.balance, twice |-> k.twice]
        /\ k.pc = "answer" /\ k.step = j.step /\ k.status = j.status /\ k.why = j.why
        /\ k.address = j.address /\ k.balance = j.balance /\ k.reply = r.abi.out
    BY <2>1, <2>3 DEF LookupOk
  <2>5. j.status = STATUS_ERROR /\ j.step = "none"
    BY <2>3 DEF LookupOk
  <2>6. LookupOk(k)
    <3>1. k.status # STATUS_FOUND /\ k.status \notin {STATUS_ZERO, STATUS_UNTRACKED}
      BY <2>4, <2>5 DEF STATUS_ERROR, STATUS_FOUND, STATUS_ZERO, STATUS_UNTRACKED
    <3>2. ShowsItsOwn(k)
      BY <2>4, <2>5, <3>1 DEF ShowsItsOwn
    <3> QED  BY <2>3, <2>4, <2>5, <3>2 DEF LookupOk
  <2>7. Asked(k, r.abi.session.inFlight)
    BY <1>6, <1>7, <1>9, <2>4 DEF Asked
  <2>8. \A m \in Lookers : ~InQuery(app.lookups[m])
    BY <1>6, <1>9 DEF AbiInv, Lookups, Asked
  <2> QED  BY <1>6, <1>7, <2>2, <2>6, <2>7, <2>8, LookupSteps
<1> QED  BY <1>8, <1>9

(* A lookup that ends shows what its own query decoded to.                 *)
LEMMA SettledKeepsInv ==
    ASSUME AbiInv, app.boot = "ready", PeerStays, NEW l \in Lookers,
           app.lookups[l].pc \in {"answered", "resync"}, NEW a, Live(a), a.session.complete = abi.session.complete, a.in.kind # "setup",
           a.session.inFlight.held, a.session.inFlight.answer = app.lookups[l].reply,
           a.session.inFlight.secret = app.lookups[l].reply.secret,
           a.session.inFlight.address = app.lookups[l].address,
           NEW r \in Finish(a), r.ret # STATUS_ERROR, Settled(l, r.abi, r.ret)
    PROVE  AbiInv'
<1>1. PICK j : j = app.lookups[l]
  OBVIOUS
<1>2. LookupOk(j) /\ j.pc \in {"answered", "resync"}
  BY <1>1 DEF AbiInv, Lookups
<1>3. j.reply.kind = "answer" /\ j.address \in Tracked \cup Untracked
  BY <1>2 DEF LookupOk
<1>4. PICK f : f = a.session.inFlight
  OBVIOUS
<1>5. f.held /\ f.answer = j.reply /\ f.secret = j.reply.secret /\ f.address = j.address
  BY <1>1, <1>4
<1>6. PICK twice : twice = a.session.twice
  OBVIOUS
<1>7. /\ Stays(a, r.abi) /\ r.abi.session.twice = twice
      /\ \/ /\ r.ret = STATUS_FOUND /\ "found" \in Decodings(a.session)
            /\ r.abi.out = [kind |-> "balance", address |-> f.address, at |-> f.answer.at]
         \/ r.ret = STATUS_DECODE_FAILED
         \/ /\ r.ret = IF a.session.complete THEN STATUS_ZERO ELSE STATUS_UNTRACKED
            /\ "not_found" \in Decodings(a.session)
  BY <1>3, <1>4, <1>5, <1>6, FinishIs
<1>8. /\ "found" \in Decodings(a.session) => j.address \in Tracked \/ twice
      /\ "not_found" \in Decodings(a.session) => j.address \in Untracked \/ twice
  BY <1>3, <1>4, <1>5, <1>6, AbiAssumption DEF Decodings
<1>9. PICK shown : shown = IF r.ret = STATUS_FOUND THEN r.abi.out ELSE NoBytes
  OBVIOUS
<1>10. PICK k : k = [j EXCEPT !.pc = "idle", !.step = "done", !.status = r.ret, !.why = "none",
                              !.balance = shown, !.twice = twice]
  OBVIOUS
<1>11. abi' = r.abi /\ Looker(l, k)
  BY <1>1, <1>7, <1>9, <1>10 DEF Settled
<1>12. /\ k = [pc |-> k.pc, address |-> k.address, from |-> k.from, to |-> k.to, reply |-> k.reply,
              step |-> k.step, status |-> k.status, why |-> k.why, balance |-> k.balance, twice |-> k.twice]
       /\ k.pc = "idle" /\ k.step = "done" /\ k.status = r.ret /\ k.why = "none"
       /\ k.balance = shown /\ k.address = j.address /\ k.reply = j.reply /\ k.twice = twice
  BY <1>2, <1>10 DEF LookupOk
<1>13. a.session.complete = peer.complete
  BY DEF AbiInv, Lookups
<1>14. k.status = STATUS_FOUND =>
          /\ k.balance.kind = "balance" /\ k.balance.address = k.address
          /\ k.balance.at = k.reply.at /\ (k.address \in Tracked \/ k.twice)
  <2>1. ASSUME r.ret = STATUS_FOUND
        PROVE  /\ "found" \in Decodings(a.session)
               /\ r.abi.out = [kind |-> "balance", address |-> f.address, at |-> f.answer.at]
    BY <1>7, <2>1 DEF STATUS_FOUND, STATUS_DECODE_FAILED, STATUS_ZERO, STATUS_UNTRACKED
  <2> QED  BY <1>5, <1>8, <1>9, <1>12, <2>1
<1>15. k.status \in {STATUS_ZERO, STATUS_UNTRACKED} =>
          (k.address \in Untracked \/ k.twice) /\ (k.status = STATUS_ZERO <=> peer.complete)
  <2>1. ASSUME r.ret \in {STATUS_ZERO, STATUS_UNTRACKED}
        PROVE  /\ "not_found" \in Decodings(a.session)
               /\ r.ret = IF a.session.complete THEN STATUS_ZERO ELSE STATUS_UNTRACKED
    BY <1>7, <2>1 DEF STATUS_FOUND, STATUS_DECODE_FAILED, STATUS_ZERO, STATUS_UNTRACKED
  <2>2. STATUS_ZERO # STATUS_UNTRACKED
    BY DEF STATUS_ZERO, STATUS_UNTRACKED
  <2> QED  BY <1>8, <1>12, <1>13, <2>1, <2>2
<1>16. LookupOk(k)
  BY <1>12, <1>14, <1>15 DEF LookupOk, ShowsItsOwn
<1>17. ~InQuery(k) /\ Asked(k, r.abi.session.inFlight)
  BY <1>12 DEF InQuery, Asked
<1>18. \A m \in Lookers : InQuery(app.lookups[m]) => m = l
  BY <1>1, <1>2 DEF AbiInv, Lookups, InQuery
<1> QED  BY <1>7, <1>11, <1>16, <1>17, <1>18, LookupSteps DEF Stays

(* A lookup under way is that of a ready page.                             *)
LEMMA UnderWay ==
    ASSUME AbiInv, NEW l \in Lookers, app.lookups[l].pc # "idle"
    PROVE  /\ app.boot = "ready" /\ Live(abi) /\ abi.session.complete = peer.complete
           /\ abi.in.kind # "setup" /\ LookupOk(app.lookups[l])
           /\ Asked(app.lookups[l], abi.session.inFlight)
           /\ app.lookups[l].address \in Tracked \cup Untracked
<1>1. app.boot = "ready"
  BY DEF AbiInv, Loading, IdleLooker
<1> QED  BY <1>1 DEF AbiInv, Lookups, LookupOk

(* A lookup submitted starts from nothing, beside those under way.         *)
LEMMA SubmitKeepsInv ==
    ASSUME AbiInv, NEW l \in Lookers, SubmitAsk(l)
    PROVE  AbiInv'
<1>1. PICK address \in Tracked \cup Untracked :
          app' = [app EXCEPT !.asks = @ + 1,
                             !.lookups[l] = [IdleLooker EXCEPT !.pc = "head",
                                                               !.address = address]]
  BY Zenon DEF SubmitAsk
<1>2. PICK k : k = [IdleLooker EXCEPT !.pc = "head", !.address = address]
  OBVIOUS
<1>3. PICK n : n = app.asks + 1
  OBVIOUS
<1>4. PICK all : all = [app.lookups EXCEPT ![l] = k]
  OBVIOUS
<1>5. app' = [app EXCEPT !.asks = n, !.lookups = all]
  BY <1>1, <1>2, <1>3, <1>4
<1>6. /\ app'.boot = app.boot /\ app'.epoch = app.epoch /\ app'.lookups = all
      /\ app' = [boot |-> app'.boot, mode |-> app'.mode, epoch |-> app'.epoch,
                 asks |-> app'.asks, lookups |-> app'.lookups]
  BY <1>5 DEF AbiInv, Shapes
<1>7. /\ all = [m \in Lookers |-> all[m]] /\ all[l] = k
      /\ \A m \in Lookers : m # l => all[m] = app.lookups[m]
  BY <1>4 DEF AbiInv, Shapes
<1>8. app.boot = "ready" /\ UNCHANGED <<abi, peer>>
  BY Zenon DEF SubmitAsk
<1>9. /\ k = [pc |-> k.pc, address |-> k.address, from |-> k.from, to |-> k.to, reply |-> k.reply,
             step |-> k.step, status |-> k.status, why |-> k.why, balance |-> k.balance, twice |-> k.twice]
      /\ k.pc = "head" /\ k.step = "none" /\ k.status = STATUS_ERROR /\ k.address = address
  BY <1>2 DEF IdleLooker
<1>10. k.status # STATUS_FOUND /\ k.status \notin {STATUS_ZERO, STATUS_UNTRACKED}
  BY <1>9 DEF STATUS_ERROR, STATUS_FOUND, STATUS_ZERO, STATUS_UNTRACKED
<1>11. LookupOk(k)' /\ ~InQuery(k)
  BY <1>9, <1>10 DEF LookupOk, ShowsItsOwn, InQuery
<1>12. Shapes' /\ Loading'
  BY <1>6, <1>7, <1>8 DEF AbiInv, Shapes, Loading
<1>13. ASSUME NEW m \in Lookers
       PROVE  LookupOk(app.lookups[m])' /\ Asked(app.lookups[m], abi.session.inFlight)'
  <2>1. CASE m = l
    BY <1>6, <1>7, <1>11, <2>1 DEF LookupOk, ShowsItsOwn, Asked, InQuery
  <2>2. CASE m # l
    <3>1. LookupOk(app.lookups[m]) /\ Asked(app.lookups[m], abi.session.inFlight)
      BY <1>8 DEF AbiInv, Lookups
    <3>2. app'.lookups[m] = app.lookups[m]
      BY <1>6, <1>7, <2>2
    <3> QED  BY <1>8, <3>1, <3>2 DEF LookupOk, ShowsItsOwn, Asked, InQuery
  <2> QED  BY <2>1, <2>2
<1>14. \A m \in Lookers : InQuery(app.lookups[m])' => InQuery(app.lookups[m])
  BY <1>6, <1>7, <1>11 DEF InQuery
<1>15. Lookups'
  BY <1>6, <1>8, <1>13, <1>14 DEF AbiInv, Lookups
<1> QED  BY <1>12, <1>15 DEF AbiInv

(* A head the session has reached lets the query go; one beyond it is read *)
(* as the block to sync to.                                                *)
LEMMA HeadKeepsInv ==
    ASSUME AbiInv, NEW l \in Lookers, HeadArrives(l)
    PROVE  AbiInv'
<1>1. PICK j : j = app.lookups[l]
  OBVIOUS
<1>2. j.pc = "head" /\ UNCHANGED peer
  BY <1>1 DEF HeadArrives
<1>3. /\ app.boot = "ready" /\ Live(abi) /\ abi.in.kind # "setup" /\ LookupOk(j)
  BY <1>1, <1>2, UnderWay
<1>4. PeerStays
  BY <1>2, PeerFaulted DEF AbiInv
<1>5. CASE AskFrom(l, abi)
  BY <1>1, <1>2, <1>3, <1>4, <1>5, AskKeepsInv
<1>6. CASE /\ Looker(l, [app.lookups[l] EXCEPT !.pc = "sync", !.from = abi.session.pending,
                                               !.to = peer.head])
           /\ UNCHANGED abi
  <2>1. PICK k : k = [j EXCEPT !.pc = "sync", !.from = abi.session.pending, !.to = peer.head]
    OBVIOUS
  <2>2. Looker(l, k)
    BY <1>1, <1>6, <2>1
  <2>3. /\ k = [pc |-> k.pc, address |-> k.address, from |-> k.from, to |-> k.to, reply |-> k.reply,
               step |-> k.step, status |-> k.status, why |-> k.why, balance |-> k.balance, twice |-> k.twice]
        /\ k.pc = "sync" /\ k.step = j.step /\ k.status = j.status /\ k.why = j.why
        /\ k.address = j.address /\ k.balance = j.balance /\ k.reply = j.reply
        /\ k.to = peer.head
    BY <1>3, <2>1 DEF LookupOk
  <2>4. /\ k.status = STATUS_ERROR /\ k.step = "none"
        /\ k.address \in Tracked \cup Untracked /\ k.to \in Nat
    BY <1>2, <1>3, <2>3 DEF LookupOk, AbiInv, Shapes
  <2>5. k.status # STATUS_FOUND /\ k.status \notin {STATUS_ZERO, STATUS_UNTRACKED}
    BY <2>4 DEF STATUS_ERROR, STATUS_FOUND, STATUS_ZERO, STATUS_UNTRACKED
  <2>6. LookupOk(k)
    BY <2>3, <2>4, <2>5 DEF LookupOk, ShowsItsOwn
  <2>7. ~InQuery(k) /\ Asked(k, abi'.session.inFlight)
    BY <2>3 DEF InQuery, Asked
  <2> QED  BY <1>3, <1>4, <1>6, <2>2, <2>6, <2>7, LookupSteps
<1> QED  BY <1>5, <1>6 DEF HeadArrives

(* A delta written to the buffer and ingested: the query is left alone.    *)
LEMMA DeltaIs ==
    ASSUME AbiInv, NEW l \in Lookers, app.lookups[l].pc \in {"sync", "resync"},
           NEW flawed \in BOOLEAN
    PROVE  LET t == IngestDelta(WriteIn(abi, DeltaBytes(l, flawed))) IN
           /\ Live(t.abi) /\ t.abi.session.complete = abi.session.complete
           /\ t.abi.in.kind # "setup"
           /\ t.abi.session.inFlight = abi.session.inFlight
           /\ t.ret = STATUS_ERROR => t.abi.err \in {"codec", "client"}
<1>1. PICK bytes : bytes = DeltaBytes(l, flawed)
  OBVIOUS
<1>2. bytes.kind = "delta" /\ bytes.to = app.lookups[l].to
  BY <1>1 DEF DeltaBytes
<1>3. Live(abi) /\ bytes.to \in Nat
  BY <1>2, UnderWay DEF LookupOk
<1>4. PICK b : b = WriteIn(abi, bytes)
  OBVIOUS
<1>5. Live(b) /\ b.in = bytes /\ b.session = abi.session
  BY <1>3, <1>4, InputWritten
<1>6. PICK t : t = IngestDelta(b)
  OBVIOUS
<1>7. /\ Stays(b, t.abi) /\ t.abi.session.inFlight = b.session.inFlight
      /\ t.ret = STATUS_ERROR => t.abi.err \in {"codec", "client"}
  BY <1>3, <1>5, <1>6, IngestIs
<1>8. /\ Live(t.abi) /\ t.abi.session.complete = abi.session.complete
      /\ t.abi.in.kind # "setup" /\ t.abi.session.inFlight = abi.session.inFlight
  BY <1>2, <1>5, <1>7 DEF Stays
<1> QED  BY <1>1, <1>4, <1>6, <1>7, <1>8

(* The first delta is ingested and the query drawn without an await        *)
(* between the two.                                                        *)
LEMMA DeltaKeepsInv ==
    ASSUME AbiInv, NEW l \in Lookers, DeltaArrives(l)
    PROVE  AbiInv'
<1>1. PICK flawed \in BOOLEAN :
          LET taken == IngestDelta(WriteIn(abi, DeltaBytes(l, flawed)))
          IN /\ app.lookups[l].pc = "sync" /\ MayFail(flawed) /\ Faulted(flawed)
             /\ IF taken.ret = STATUS_ERROR THEN Thrown(l, "sync", taken.abi)
                ELSE AskFrom(l, taken.abi)
  BY DEF DeltaArrives
<1>2. PICK t : t = IngestDelta(WriteIn(abi, DeltaBytes(l, flawed)))
  OBVIOUS
<1>3. /\ app.lookups[l].pc = "sync" /\ Faulted(flawed)
      /\ IF t.ret = STATUS_ERROR THEN Thrown(l, "sync", t.abi) ELSE AskFrom(l, t.abi)
  BY <1>1, <1>2
<1>4. /\ Live(t.abi) /\ t.abi.session.complete = abi.session.complete
      /\ t.abi.in.kind # "setup" /\ t.abi.session.inFlight = abi.session.inFlight
      /\ t.ret = STATUS_ERROR => t.abi.err \in {"codec", "client"}
  BY <1>2, <1>3, DeltaIs
<1>5. PeerStays /\ app.boot = "ready"
  BY <1>3, PeerFaulted, UnderWay DEF AbiInv
<1>6. CASE t.ret = STATUS_ERROR
  BY <1>3, <1>4, <1>5, <1>6, ThrownKeepsInv DEF Why
<1>7. CASE t.ret # STATUS_ERROR
  BY <1>3, <1>4, <1>5, <1>7, AskKeepsInv
<1> QED  BY <1>6, <1>7

(* The node repeats the secret of the query it answers.                    *)
LEMMA ReplyKeepsInv ==
    ASSUME AbiInv, NEW l \in Lookers, NodeReplies(l)
    PROVE  AbiInv'
<1>1. PICK j : j = app.lookups[l]
  OBVIOUS
<1>2. PICK flawed \in BOOLEAN :
          /\ app.lookups[l].pc = "answer" /\ MayFail(flawed) /\ Faulted(flawed)
          /\ Looker(l, [app.lookups[l] EXCEPT
                 !.pc = "answered",
                 !.reply = [kind |-> "answer", address |-> @.address, secret |-> @.secret,
                            at |-> peer.head, flawed |-> flawed]])
          /\ UNCHANGED abi
  BY Zenon DEF NodeReplies
<1>3. PICK sent : sent = [kind |-> "answer", address |-> j.reply.address,
                          secret |-> j.reply.secret, at |-> peer.head, flawed |-> flawed]
  OBVIOUS
<1>4. PICK k : k = [j EXCEPT !.pc = "answered", !.reply = sent]
  OBVIOUS
<1>5. Looker(l, k)
  BY <1>1, <1>2, <1>3, <1>4
<1>6. /\ app.boot = "ready" /\ Live(abi) /\ abi.in.kind # "setup" /\ LookupOk(j)
      /\ Asked(j, abi.session.inFlight) /\ j.pc = "answer"
  BY <1>1, <1>2, UnderWay
<1>7. PeerStays
  BY <1>2, PeerFaulted DEF AbiInv
<1>8. /\ k = [pc |-> k.pc, address |-> k.address, from |-> k.from, to |-> k.to, reply |-> k.reply,
             step |-> k.step, status |-> k.status, why |-> k.why, balance |-> k.balance, twice |-> k.twice]
      /\ k.pc = "answered" /\ k.step = j.step /\ k.status = j.status /\ k.why = j.why
      /\ k.address = j.address /\ k.balance = j.balance /\ k.reply = sent
  BY <1>4, <1>6 DEF LookupOk
<1>9. sent.kind = "answer" /\ sent.secret = j.reply.secret /\ sent.at = peer.head
  BY <1>3
<1>10. j.status = STATUS_ERROR /\ j.step = "none" /\ j.address \in Tracked \cup Untracked
  BY <1>6 DEF LookupOk
<1>11. k.status # STATUS_FOUND /\ k.status \notin {STATUS_ZERO, STATUS_UNTRACKED}
  BY <1>8, <1>10 DEF STATUS_ERROR, STATUS_FOUND, STATUS_ZERO, STATUS_UNTRACKED
<1>12. ShowsItsOwn(k)
  BY <1>8, <1>10, <1>11 DEF ShowsItsOwn
<1>13. LookupOk(k)
  BY <1>8, <1>9, <1>10, <1>12 DEF LookupOk, AbiInv, Shapes
<1>14. Asked(k, abi'.session.inFlight) /\ InQuery(j)
  BY <1>2, <1>6, <1>8, <1>9 DEF Asked, InQuery
<1> QED  BY <1>1, <1>2, <1>5, <1>6, <1>7, <1>13, <1>14, LookupSteps

(* A reply that is missing ends the lookup; the query stays in flight.     *)
LEMMA MissingKeepsInv ==
    ASSUME AbiInv, NEW l \in Lookers, ReplyMissing(l)
    PROVE  AbiInv'
<1>1. PICK j : j = app.lookups[l]
  OBVIOUS
<1>2. PICK k : k = [j EXCEPT !.pc = "idle", !.step = "network", !.why = "network",
                             !.balance = NoBytes]
  OBVIOUS
<1>3. /\ j.pc \in {"head", "sync", "answer", "resync"} /\ Faulted(TRUE) /\ Looker(l, k)
      /\ UNCHANGED abi
  BY <1>1, <1>2 DEF ReplyMissing
<1>4. app.boot = "ready" /\ Live(abi) /\ abi.in.kind # "setup" /\ LookupOk(j)
  BY <1>1, <1>3, UnderWay
<1>5. PeerStays
  BY <1>3, PeerFaulted DEF AbiInv
<1>6. /\ k = [pc |-> k.pc, address |-> k.address, from |-> k.from, to |-> k.to, reply |-> k.reply,
             step |-> k.step, status |-> k.status, why |-> k.why, balance |-> k.balance, twice |-> k.twice]
      /\ k.pc = "idle" /\ k.step = "network" /\ k.status = j.status
  BY <1>2, <1>4 DEF LookupOk
<1>7. j.status = STATUS_ERROR
  BY <1>3, <1>4 DEF LookupOk
<1>8. k.status # STATUS_FOUND /\ k.status \notin {STATUS_ZERO, STATUS_UNTRACKED}
  BY <1>6, <1>7 DEF STATUS_ERROR, STATUS_FOUND, STATUS_ZERO, STATUS_UNTRACKED
<1>9. LookupOk(k)
  BY <1>6, <1>8 DEF LookupOk, ShowsItsOwn
<1>10. ~InQuery(k) /\ Asked(k, abi'.session.inFlight)
  BY <1>6 DEF InQuery, Asked
<1> QED  BY <1>3, <1>4, <1>5, <1>9, <1>10, LookupSteps

(* The answer read is that of the query in flight, so it decodes to what   *)
(* this lookup asked; or the block is another, twice, and the error is the *)
(* one of the second call; or a second delta is asked for.                 *)
LEMMA AnswerKeepsInv ==
    ASSUME AbiInv, NEW l \in Lookers, AnswerRead(l)
    PROVE  AbiInv'
<1>1. PICK j : j = app.lookups[l]
  OBVIOUS
<1>2. PICK b : b = WriteIn(abi, j.reply)
  OBVIOUS
<1>3. PICK t : t = AcceptAnswer(b)
  OBVIOUS
<1>4. /\ j.pc = "answered"
      /\ \E done \in Finish(t.abi) :
           LET noisy == t.ret # STATUS_ERROR /\ done.ret = STATUS_DECODE_FAILED
           IN /\ MayFail(noisy) /\ Faulted(noisy)
              /\ IF t.ret = STATUS_ERROR THEN Thrown(l, "answer", t.abi)
                 ELSE IF done.ret # STATUS_ERROR THEN Settled(l, done.abi, done.ret)
                 ELSE IF done.abi.err # "sync" \/ t.ret <= abi.session.pending
                      THEN \E again \in Finish(done.abi) : Thrown(l, "finish", again.abi)
                 ELSE /\ abi' = done.abi
                      /\ Looker(l, [j EXCEPT !.pc = "resync", !.from = abi.session.pending,
                                             !.to = t.ret])
  BY Zenon, <1>1, <1>2, <1>3 DEF AnswerRead
<1>5. PICK r \in Finish(t.abi) :
           LET noisy == t.ret # STATUS_ERROR /\ r.ret = STATUS_DECODE_FAILED
           IN /\ MayFail(noisy) /\ Faulted(noisy)
              /\ IF t.ret = STATUS_ERROR THEN Thrown(l, "answer", t.abi)
                 ELSE IF r.ret # STATUS_ERROR THEN Settled(l, r.abi, r.ret)
                 ELSE IF r.abi.err # "sync" \/ t.ret <= abi.session.pending
                      THEN \E again \in Finish(r.abi) : Thrown(l, "finish", again.abi)
                 ELSE /\ abi' = r.abi
                      /\ Looker(l, [j EXCEPT !.pc = "resync", !.from = abi.session.pending,
                                             !.to = t.ret])
  BY Zenon, <1>4
<1>6. PICK noisy : noisy = (t.ret # STATUS_ERROR /\ r.ret = STATUS_DECODE_FAILED)
  OBVIOUS
<1>7. /\ j.pc = "answered" /\ Faulted(noisy)
      /\ IF t.ret = STATUS_ERROR THEN Thrown(l, "answer", t.abi)
         ELSE IF r.ret # STATUS_ERROR THEN Settled(l, r.abi, r.ret)
         ELSE IF r.abi.err # "sync" \/ t.ret <= abi.session.pending
              THEN \E again \in Finish(r.abi) : Thrown(l, "finish", again.abi)
         ELSE /\ abi' = r.abi
              /\ Looker(l, [j EXCEPT !.pc = "resync", !.from = abi.session.pending,
                                     !.to = t.ret])
  BY Zenon, <1>4, <1>5, <1>6
<1>8. /\ app.boot = "ready" /\ Live(abi) /\ LookupOk(j) /\ Asked(j, abi.session.inFlight)
      /\ PeerStays
  BY <1>1, <1>7, UnderWay, PeerFaulted DEF AbiInv
<1>9. /\ InQuery(j) /\ abi.session.inFlight.held
      /\ abi.session.inFlight.secret = j.reply.secret
      /\ abi.session.inFlight.address = j.address
      /\ j.reply.kind = "answer" /\ j.reply.at \in Nat
      /\ j.status = STATUS_ERROR /\ j.step = "none" /\ j.address \in Tracked \cup Untracked
  BY <1>7, <1>8 DEF LookupOk, Asked, InQuery
<1>10. Live(b) /\ b.in = j.reply /\ b.session = abi.session
  BY <1>2, <1>8, InputWritten
<1>11. /\ Stays(b, t.abi)
       /\ t.ret = STATUS_ERROR =>
             t.abi.err = "wire" /\ t.abi.session.inFlight = abi.session.inFlight
       /\ t.ret # STATUS_ERROR =>
             /\ t.ret = j.reply.at /\ t.abi.session.inFlight.held
             /\ t.abi.session.inFlight.answer = j.reply
             /\ t.abi.session.inFlight.address = j.address
             /\ t.abi.session.inFlight.secret = j.reply.secret
  BY <1>3, <1>9, <1>10, AcceptIs
<1>12. /\ Live(t.abi) /\ t.abi.in = j.reply
       /\ t.abi.session.complete = abi.session.complete
       /\ t.abi.in.kind # "setup"
  BY <1>9, <1>10, <1>11 DEF Stays
<1>13. CASE t.ret = STATUS_ERROR
  <2>1. Thrown(l, "answer", t.abi)
    BY <1>7, <1>13
  <2> QED  BY <1>8, <1>11, <1>12, <1>13, <2>1, ThrownKeepsInv DEF Why
<1>14. CASE t.ret # STATUS_ERROR /\ r.ret # STATUS_ERROR
  <2>1. Settled(l, r.abi, r.ret)
    BY <1>7, <1>14
  <2> QED  BY <1>1, <1>5, <1>7, <1>8, <1>11, <1>12, <1>14, <2>1, SettledKeepsInv
<1>15. CASE t.ret # STATUS_ERROR /\ r.ret = STATUS_ERROR
  <2>1. /\ Stays(t.abi, r.abi) /\ r.abi.err = "sync" /\ r.abi.session = t.abi.session
        /\ t.abi.session.inFlight.answer.at # t.abi.session.pending
    <3>1. t.abi.session.inFlight.held /\ t.abi.session.inFlight.answer.kind = "answer"
      BY <1>9, <1>11, <1>15
    <3>2. /\ Stays(t.abi, r.abi)
          /\ r.ret = STATUS_ERROR =>
                /\ r.abi.err = "sync" /\ r.abi.session = t.abi.session
                /\ t.abi.session.inFlight.answer.at # t.abi.session.pending
      BY <1>5, <1>12, <3>1, FinishIs
    <3> QED  BY <1>15, <3>2
  <2>2. /\ Live(r.abi) /\ r.abi.session.complete = abi.session.complete
        /\ r.abi.in.kind # "setup"
    BY <1>12, <2>1 DEF Stays
  <2>3. CASE t.ret <= abi.session.pending
    <3>1. PICK again \in Finish(r.abi) : Thrown(l, "finish", again.abi)
      BY <1>7, <1>15, <2>3
    <3>2. /\ r.abi.session.inFlight.held /\ r.abi.session.inFlight.answer.kind = "answer"
          /\ r.abi.session.inFlight.answer.at # r.abi.session.pending
      BY <1>9, <1>11, <1>15, <2>1
    <3>3. /\ Stays(r.abi, again.abi)
          /\ again.ret = STATUS_ERROR => again.abi.err = "sync"
          /\ again.ret = STATUS_ERROR
      BY <2>2, <3>2, FinishIs
    <3>4. /\ Live(again.abi) /\ again.abi.session.complete = abi.session.complete
          /\ again.abi.in.kind # "setup"
      BY <2>2, <3>3 DEF Stays
    <3> QED  BY <1>1, <1>8, <1>9, <3>1, <3>3, <3>4, ThrownKeepsInv DEF Why
  <2>4. CASE ~(t.ret <= abi.session.pending)
    <3>1. PICK k : k = [j EXCEPT !.pc = "resync", !.from = abi.session.pending, !.to = t.ret]
      OBVIOUS
    <3>2. abi' = r.abi /\ Looker(l, k)
      BY <1>7, <1>15, <2>1, <2>4, <3>1
    <3>3. /\ k = [pc |-> k.pc, address |-> k.address, from |-> k.from, to |-> k.to, reply |-> k.reply,
                 step |-> k.step, status |-> k.status, why |-> k.why, balance |-> k.balance, twice |-> k.twice]
          /\ k.pc = "resync" /\ k.step = j.step /\ k.status = j.status /\ k.why = j.why
          /\ k.address = j.address /\ k.balance = j.balance /\ k.reply = j.reply
          /\ k.to = t.ret
      BY <1>8, <3>1 DEF LookupOk
    <3>4. k.status # STATUS_FOUND /\ k.status \notin {STATUS_ZERO, STATUS_UNTRACKED}
      BY <1>9, <3>3 DEF STATUS_ERROR, STATUS_FOUND, STATUS_ZERO, STATUS_UNTRACKED
    <3>5. ShowsItsOwn(k)
      BY <1>9, <3>3, <3>4 DEF ShowsItsOwn
    <3>6. LookupOk(k)
      BY <1>9, <1>11, <1>15, <3>3, <3>5 DEF LookupOk
    <3>7. Asked(k, r.abi.session.inFlight)
      BY <1>11, <1>15, <2>1, <3>3 DEF Asked
    <3>8. \A m \in Lookers : InQuery(app.lookups[m]) => m = l
      BY <1>1, <1>9 DEF AbiInv, Lookups
    <3> QED  BY <1>8, <2>2, <3>2, <3>6, <3>7, <3>8, LookupSteps
  <2> QED  BY <2>3, <2>4
<1> QED  BY <1>13, <1>14, <1>15

(* The second delta finds the query, its answer kept, still in flight.     *)
LEMMA SecondDeltaKeepsInv ==
    ASSUME AbiInv, NEW l \in Lookers, SecondDeltaArrives(l)
    PROVE  AbiInv'
<1>1. PICK flawed \in BOOLEAN :
          LET taken == IngestDelta(WriteIn(abi, DeltaBytes(l, flawed)))
          IN /\ app.lookups[l].pc = "resync"
             /\ \E done \in Finish(taken.abi) :
                  LET noisy == taken.ret # STATUS_ERROR /\ done.ret = STATUS_DECODE_FAILED
                  IN /\ MayFail(flawed \/ noisy) /\ Faulted(flawed \/ noisy)
                     /\ IF taken.ret = STATUS_ERROR THEN Thrown(l, "sync", taken.abi)
                        ELSE IF done.ret = STATUS_ERROR THEN Thrown(l, "finish", done.abi)
                        ELSE Settled(l, done.abi, done.ret)
  BY Zenon DEF SecondDeltaArrives
<1>2. PICK t : t = IngestDelta(WriteIn(abi, DeltaBytes(l, flawed)))
  OBVIOUS
<1>3. PICK r \in Finish(t.abi) :
          LET noisy == t.ret # STATUS_ERROR /\ r.ret = STATUS_DECODE_FAILED
          IN /\ MayFail(flawed \/ noisy) /\ Faulted(flawed \/ noisy)
             /\ IF t.ret = STATUS_ERROR THEN Thrown(l, "sync", t.abi)
                ELSE IF r.ret = STATUS_ERROR THEN Thrown(l, "finish", r.abi)
                ELSE Settled(l, r.abi, r.ret)
  BY Zenon, <1>1, <1>2
<1>13. PICK bad : bad = (flawed \/ (t.ret # STATUS_ERROR /\ r.ret = STATUS_DECODE_FAILED))
  OBVIOUS
<1>4. /\ app.lookups[l].pc = "resync" /\ Faulted(bad)
      /\ IF t.ret = STATUS_ERROR THEN Thrown(l, "sync", t.abi)
         ELSE IF r.ret = STATUS_ERROR THEN Thrown(l, "finish", r.abi)
         ELSE Settled(l, r.abi, r.ret)
  BY Zenon, <1>1, <1>3, <1>13
<1>5. /\ Live(t.abi) /\ t.abi.session.complete = abi.session.complete
      /\ t.abi.in.kind # "setup" /\ t.abi.session.inFlight = abi.session.inFlight
      /\ t.ret = STATUS_ERROR => t.abi.err \in {"codec", "client"}
  BY <1>2, <1>4, DeltaIs
<1>6. PICK j : j = app.lookups[l]
  OBVIOUS
<1>7. /\ app.boot = "ready" /\ LookupOk(j) /\ Asked(j, abi.session.inFlight) /\ PeerStays
  BY <1>4, <1>6, UnderWay, PeerFaulted DEF AbiInv
<1>8. PICK f : f = abi.session.inFlight
  OBVIOUS
<1>9. /\ InQuery(j) /\ f.held /\ f.secret = j.reply.secret /\ f.address = j.address
      /\ f.answer = j.reply /\ j.reply.kind = "answer" /\ t.abi.session.inFlight = f
  BY <1>4, <1>5, <1>6, <1>7, <1>8 DEF LookupOk, Asked, InQuery
<1>10. CASE t.ret = STATUS_ERROR
  BY <1>4, <1>5, <1>7, <1>10, ThrownKeepsInv DEF Why
<1>11. CASE t.ret # STATUS_ERROR /\ r.ret = STATUS_ERROR
  <2>1. Thrown(l, "finish", r.abi)
    BY <1>4, <1>11
  <2>2. t.abi.session.inFlight.held /\ t.abi.session.inFlight.answer.kind = "answer"
    BY <1>9
  <2>3. /\ Stays(t.abi, r.abi)
        /\ r.ret = STATUS_ERROR => r.abi.err = "sync"
    BY <1>3, <1>5, <2>2, FinishIs
  <2>4. /\ Live(r.abi) /\ r.abi.session.complete = abi.session.complete
        /\ r.abi.in.kind # "setup"
    BY <1>5, <2>3 DEF Stays
  <2> QED  BY <1>6, <1>7, <1>9, <1>11, <2>1, <2>3, <2>4, ThrownKeepsInv DEF Why
<1>12. CASE t.ret # STATUS_ERROR /\ r.ret # STATUS_ERROR
  <2>1. Settled(l, r.abi, r.ret)
    BY <1>4, <1>12
  <2> QED  BY <1>3, <1>4, <1>5, <1>6, <1>7, <1>9, <1>12, <2>1, SettledKeepsInv
<1> QED  BY <1>10, <1>11, <1>12

(* While the page loads no lookup runs; what the load leaves decides       *)
(* whether the page is ready.                                              *)
LEMMA BootSteps ==
    ASSUME AbiInv, app.boot # "ready", PeerStays,
           app' = [boot |-> app'.boot, mode |-> app'.mode, epoch |-> app'.epoch,
                   asks |-> app'.asks, lookups |-> app.lookups],
           Loading',
           app'.boot = "ready" =>
              /\ Live(abi') /\ abi'.session.complete = peer.complete
              /\ app'.epoch.kind = "epoch" /\ abi'.in.kind # "setup"
    PROVE  AbiInv'
<1>1. app'.lookups = app.lookups
  OBVIOUS
<1>2. Shapes'
  BY <1>1 DEF AbiInv, Shapes, PeerStays
<1>3. PICK k : k = IdleLooker
  OBVIOUS
<1>4. \A l \in Lookers : app.lookups[l] = k /\ app'.lookups[l] = k
  BY <1>1, <1>3 DEF AbiInv, Loading
<1>5. k.pc = "idle"
  BY <1>3 DEF IdleLooker
<1>6. ASSUME NEW l \in Lookers
      PROVE  /\ LookupOk(app.lookups[l])' /\ ~InQuery(app.lookups[l])'
             /\ Asked(app.lookups[l], abi.session.inFlight)'
  <2>1. LookupOk(app.lookups[l])
    BY DEF AbiInv, Lookups
  <2>2. LookupOk(app.lookups[l])'
    BY <1>1, <2>1 DEF LookupOk, ShowsItsOwn, PeerStays
  <2> QED  BY <1>4, <1>5, <2>2 DEF InQuery, Asked
<1>7. Lookups'
  BY <1>6 DEF Lookups, PeerStays
<1> QED  BY <1>2, <1>7 DEF AbiInv

(* The bundle is written to a fresh memory.                                *)
LEMMA SetupKeepsInv ==
    ASSUME AbiInv, SetupArrives
    PROVE  AbiInv'
<1>1. PICK flawed \in BOOLEAN, named \in BOOLEAN :
        /\ app.boot = "download" /\ MayFail(flawed) /\ Faulted(flawed)
        /\ abi' = WriteIn(abi, [kind |-> "setup", block |-> peer.head, flawed |-> flawed])
        /\ app' = [app EXCEPT !.boot = IF named THEN "load" ELSE "mode",
                              !.mode = IF named THEN {IF peer.complete THEN 1 ELSE 0} ELSE {}]
  BY Zenon DEF SetupArrives
<1>2. PeerStays
  BY <1>1, PeerFaulted DEF AbiInv
<1>3. PICK stage : stage = IF named THEN "load" ELSE "mode"
  OBVIOUS
<1>4. PICK mode : mode = IF named THEN {IF peer.complete THEN 1 ELSE 0} ELSE {}
  OBVIOUS
<1>5. app' = [app EXCEPT !.boot = stage, !.mode = mode]
  BY <1>1, <1>3, <1>4
<1>6. /\ app' = [boot |-> app'.boot, mode |-> app'.mode, epoch |-> app'.epoch,
                 asks |-> app'.asks, lookups |-> app.lookups]
      /\ app'.boot = stage /\ app'.mode = mode /\ app'.lookups = app.lookups
  BY <1>5 DEF AbiInv, Shapes
<1>7. stage \in {"mode", "load"} /\ (stage = "load" => mode = {IF peer.complete THEN 1 ELSE 0})
  BY <1>3, <1>4
<1>8. PICK bytes : bytes = [kind |-> "setup", block |-> peer.head, flawed |-> flawed]
  OBVIOUS
<1>9. abi' = [FreshAbi EXCEPT !.in = bytes] /\ bytes.kind = "setup"
  BY <1>1, <1>8 DEF WriteIn, AbiInv, Loading
<1>10. abi' = [FreshAbi EXCEPT !.in = abi'.in] /\ abi'.in.kind = "setup"
  BY <1>9 DEF FreshAbi
<1>11. Loading'
  BY <1>1, <1>2, <1>6, <1>7, <1>10 DEF AbiInv, Loading, PeerStays
<1> QED  BY <1>1, <1>2, <1>6, <1>7, <1>11, BootSteps

(* The mode the page is told, if it can be read, is the deployment's.      *)
LEMMA ModeKeepsInv ==
    ASSUME AbiInv, ModeArrives
    PROVE  AbiInv'
<1>1. PICK flawed \in BOOLEAN :
        /\ app.boot = "mode" /\ MayFail(flawed) /\ Faulted(flawed)
        /\ app' = IF flawed THEN [app EXCEPT !.boot = "failed"]
                  ELSE [app EXCEPT !.boot = "load", !.mode = {IF peer.complete THEN 1 ELSE 0}]
        /\ UNCHANGED abi
  BY Zenon DEF ModeArrives
<1>2. PeerStays
  BY <1>1, PeerFaulted DEF AbiInv
<1>3. PICK mode : mode = {IF peer.complete THEN 1 ELSE 0}
  OBVIOUS
<1>4. app' = [app EXCEPT !.boot = "failed"] \/ app' = [app EXCEPT !.boot = "load", !.mode = mode]
  BY <1>1, <1>3
<1>5. /\ app' = [boot |-> app'.boot, mode |-> app'.mode, epoch |-> app'.epoch,
                 asks |-> app'.asks, lookups |-> app.lookups]
      /\ app'.lookups = app.lookups
      /\ app'.boot = "failed" \/ (app'.boot = "load" /\ app'.mode = mode)
  BY <1>4 DEF AbiInv, Shapes
<1>6. Loading'
  BY <1>1, <1>2, <1>3, <1>5 DEF AbiInv, Loading, PeerStays
<1> QED  BY <1>1, <1>2, <1>5, <1>6, BootSteps

(* Trying again starts from a fresh memory.                                *)
LEMMA BootAgainKeepsInv ==
    ASSUME AbiInv, BootAgain
    PROVE  AbiInv'
<1>1. /\ app' = [boot |-> app'.boot, mode |-> app'.mode, epoch |-> app'.epoch,
                 asks |-> app'.asks, lookups |-> app.lookups]
      /\ app'.boot = "download" /\ app'.lookups = app.lookups
  BY DEF BootAgain, AbiInv, Shapes
<1>2. app.boot = "failed" /\ abi' = FreshAbi /\ UNCHANGED peer
  BY DEF BootAgain
<1>3. PeerStays
  BY <1>2, PeerFaulted DEF AbiInv
<1>4. Loading'
  BY <1>1, <1>2 DEF AbiInv, Loading
<1> QED  BY <1>1, <1>2, <1>3, <1>4, BootSteps

(* A page becomes ready with the mode it was told, which is the            *)
(* deployment's, and with nothing left of the bundle in the input buffer.  *)
LEMMA LoadKeepsInv ==
    ASSUME AbiInv, Load
    PROVE  AbiInv'
<1>1. PICK value : value = CHOOSE v \in app.mode : TRUE
  OBVIOUS
<1>2. PICK moded : moded = SetModeByte(abi, value)
  OBVIOUS
<1>3. PICK begun : begun = InitSession(moded.abi)
  OBVIOUS
<1>4. PICK named : named = EpochOut(begun.abi)
  OBVIOUS
<1>5. PICK final : final = IF moded.ret # 0 THEN moded ELSE IF begun.ret # 0 THEN begun ELSE named
  OBVIOUS
<1>6. PICK stage : stage = IF final.ret = STATUS_ERROR THEN "failed" ELSE "ready"
  OBVIOUS
<1>7. PICK epoch : epoch = final.abi.out
  OBVIOUS
<1>8. /\ app.boot = "load" /\ abi' = final.abi /\ UNCHANGED peer
      /\ app' = [app EXCEPT !.boot = stage, !.epoch = epoch]
  BY <1>1, <1>2, <1>3, <1>4, <1>5, <1>6, <1>7 DEF Load
<1>9. /\ app' = [boot |-> app'.boot, mode |-> app'.mode, epoch |-> app'.epoch,
                 asks |-> app'.asks, lookups |-> app.lookups]
      /\ app'.boot = stage /\ app'.epoch = epoch /\ app'.lookups = app.lookups
  BY <1>8 DEF AbiInv, Shapes
<1>10. stage \in {"failed", "ready"}
  BY <1>6
<1>11. PeerStays
  BY <1>8, PeerFaulted DEF AbiInv
<1>12. Loading'
  BY <1>8, <1>9, <1>10 DEF AbiInv, Loading
<1>13. ASSUME stage = "ready"
       PROVE  /\ Live(abi') /\ abi'.session.complete = peer.complete
              /\ epoch.kind = "epoch" /\ abi'.in.kind # "setup"
  <2>1. value = (IF peer.complete THEN 1 ELSE 0) /\ value \in {0, 1}
    BY <1>1, <1>8 DEF AbiInv, Loading
  <2>2. /\ abi = [in |-> abi.in, out |-> NoBytes, err |-> "none", mode |-> {},
                  session |-> NotInitialised, drawn |-> 0]
        /\ abi.in.kind = "setup"
    BY <1>8 DEF AbiInv, Loading, FreshAbi
  <2>3. PICK modes : modes = {value}
    OBVIOUS
  <2>4. PICK m : m = [in |-> abi.in, out |-> NoBytes, err |-> "none", mode |-> modes,
                      session |-> NotInitialised, drawn |-> 0]
    OBVIOUS
  <2>5. moded.abi = m /\ moded.ret = 0
    <3>1. ClearErr(abi) = abi
      BY <2>2 DEF ClearErr
    <3>2. [abi EXCEPT !.mode = modes] = m
      BY <2>2, <2>4
    <3>3. moded = Ret(m, 0)
      BY <1>2, <2>1, <2>3, <3>1, <3>2 DEF SetModeByte
    <3> QED  BY <3>3 DEF Ret
  <2>6. PICK s : s = FromSetup(m.in.block, m.mode)
    OBVIOUS
  <2>7. /\ s = [initialised |-> TRUE, complete |-> s.complete, pinned |-> s.pinned,
                pending |-> s.pending, twice |-> s.twice, inFlight |-> s.inFlight]
        /\ s.complete = (value = 1) /\ s.inFlight = NoFlight
    BY <2>3, <2>4, <2>6 DEF FromSetup
  <2>8. Begun(s) /\ s.complete = peer.complete
    BY <2>1, <2>7 DEF Begun, Flight, AbiInv, Shapes
  <2>9. PICK i : i = [in |-> NoBytes, out |-> NoBytes, err |-> "none", mode |-> modes,
                      session |-> s, drawn |-> 0]
    OBVIOUS
  <2>10. begun = Ret(i, 0) \/ begun.ret = STATUS_ERROR
    <3>1. \/ begun = SetErr(ClearErr(m), "mode") \/ begun = SetErr(ClearErr(m), "wire")
          \/ begun = Ret([InRelease(ClearErr(m)) EXCEPT !.session = s], 0)
      BY <1>3, <2>5, <2>6 DEF InitSession
    <3>2. [InRelease(ClearErr(m)) EXCEPT !.session = s] = i
      <4>1. ClearErr(m) = m
        BY <2>4 DEF ClearErr
      <4>2. PICK freed : freed = [in |-> NoBytes, out |-> NoBytes, err |-> "none", mode |-> modes,
                                  session |-> NotInitialised, drawn |-> 0]
        OBVIOUS
      <4>3. InRelease(m) = freed
        BY <2>4, <4>2 DEF InRelease
      <4>4. [freed EXCEPT !.session = s] = i
        BY <2>9, <4>2
      <4> QED  BY <4>1, <4>3, <4>4
    <3> QED  BY <3>1, <3>2 DEF SetErr, Ret
  <2>11. begun = Ret(i, 0)
    BY <1>5, <1>6, <1>13, <2>5, <2>10 DEF STATUS_ERROR
  <2>12. begun.abi = i /\ begun.ret = 0 /\ final = named
    BY <1>5, <2>5, <2>11 DEF Ret
  <2>13. Live(i) /\ i.session = s /\ i.in = NoBytes
    BY <2>8, <2>9 DEF Live
  <2>14. PICK c : c = ClearErr(i)
    OBVIOUS
  <2>15. Live(c) /\ c.session = s /\ c.in = NoBytes
    BY <2>13, <2>14, CallBegins DEF Stays
  <2>16. PICK bytes : bytes = [kind |-> "epoch"]
    OBVIOUS
  <2>17. named = Ret(PutOut(c, bytes), 1)
    BY <1>4, <2>8, <2>12, <2>14, <2>15, <2>16 DEF EpochOut, WithSession, Begun
  <2>18. PICK p : p = PutOut(c, bytes)
    OBVIOUS
  <2>19. Live(p) /\ p.session = s /\ p.in = NoBytes /\ p.out = bytes
    BY <2>15, <2>18, OutputPut DEF Stays
  <2>20. abi' = p
    BY <1>8, <2>12, <2>17, <2>18 DEF Ret
  <2> QED  BY <1>7, <1>8, <2>8, <2>16, <2>19, <2>20 DEF NoBytes
<1> QED  BY <1>8, <1>9, <1>11, <1>12, <1>13, BootSteps

(* A new block at the deployment changes nothing at the page.              *)
LEMMA AdvanceKeepsAbi ==
    ASSUME AbiInv, NodeAdvances
    PROVE  AbiInv'
<1>1. PICK n : n = peer.head + 1
  OBVIOUS
<1>2. peer' = [peer EXCEPT !.head = n] /\ n \in Nat /\ UNCHANGED <<abi, app>>
  BY <1>1 DEF NodeAdvances, AbiInv, Shapes
<1>3. PeerStays
  BY <1>2 DEF PeerStays, AbiInv, Shapes
<1>4. Shapes' /\ Loading'
  BY <1>2, <1>3 DEF AbiInv, Shapes, Loading, PeerStays
<1>5. \A l \in Lookers : LookupOk(app.lookups[l])'
  BY <1>2, <1>3 DEF AbiInv, Lookups, LookupOk, ShowsItsOwn, PeerStays
<1>6. Lookups'
  BY <1>2, <1>3, <1>5 DEF AbiInv, Lookups, PeerStays, InQuery, Asked
<1> QED  BY <1>4, <1>6 DEF AbiInv

(* Nothing has been loaded at first, and nobody looks anything up.         *)
LEMMA AbiInitInv == AbiInit => AbiInv
<1> SUFFICES ASSUME AbiInit PROVE AbiInv
  OBVIOUS
<1>1. PICK k : k = IdleLooker
  OBVIOUS
<1>2. /\ app = [boot |-> "download", mode |-> {}, epoch |-> NoBytes, asks |-> 0,
                lookups |-> [l \in Lookers |-> k]]
      /\ abi = FreshAbi /\ peer \in [head : {1}, complete : BOOLEAN, faults : {0}]
  BY <1>1 DEF AbiInit
<1>3. /\ k = [pc |-> k.pc, address |-> k.address, from |-> k.from, to |-> k.to, reply |-> k.reply,
             step |-> k.step, status |-> k.status, why |-> k.why, balance |-> k.balance, twice |-> k.twice]
      /\ k.pc = "idle" /\ k.step = "none" /\ k.status = STATUS_ERROR
  BY <1>1 DEF IdleLooker
<1>4. k.status # STATUS_FOUND /\ k.status \notin {STATUS_ZERO, STATUS_UNTRACKED}
  BY <1>3 DEF STATUS_ERROR, STATUS_FOUND, STATUS_ZERO, STATUS_UNTRACKED
<1>5. LookupOk(k) /\ ~InQuery(k)
  BY <1>3, <1>4 DEF LookupOk, ShowsItsOwn, InQuery
<1>6. app.boot = "download" /\ \A l \in Lookers : app.lookups[l] = k
  BY <1>2
<1>7. Shapes
  BY <1>2 DEF Shapes
<1>8. Loading /\ Lookups
  BY <1>1, <1>2, <1>5, <1>6 DEF Loading, Lookups
<1> QED  BY <1>7, <1>8 DEF AbiInv

(* No step takes the lookups out of the invariant.                         *)
LEMMA AbiNextInv == AbiInv /\ [AbiNext]_abiVars => AbiInv'
<1> SUFFICES ASSUME AbiInv, [AbiNext]_abiVars PROVE AbiInv'
  OBVIOUS
<1>1. CASE SetupArrives  BY <1>1, SetupKeepsInv
<1>2. CASE ModeArrives   BY <1>2, ModeKeepsInv
<1>3. CASE Load          BY <1>3, LoadKeepsInv
<1>4. CASE BootAgain     BY <1>4, BootAgainKeepsInv
<1>5. CASE NodeAdvances  BY <1>5, AdvanceKeepsAbi
<1>6. ASSUME NEW l \in Lookers,
             \/ SubmitAsk(l) \/ HeadArrives(l) \/ DeltaArrives(l) \/ NodeReplies(l)
             \/ AnswerRead(l) \/ SecondDeltaArrives(l) \/ ReplyMissing(l)
      PROVE  AbiInv'
  BY <1>6, SubmitKeepsInv, HeadKeepsInv, DeltaKeepsInv, ReplyKeepsInv, AnswerKeepsInv,
     SecondDeltaKeepsInv, MissingKeepsInv
<1>7. CASE UNCHANGED abiVars
  BY <1>7 DEF abiVars, AbiInv, Shapes, Loading, Lookups, LookupOk, ShowsItsOwn, InQuery, Asked
<1> QED  BY <1>1, <1>2, <1>3, <1>4, <1>5, <1>6, <1>7 DEF AbiNext

(* The invariant is more than what the page promises.                      *)
LEMMA AbiInvShows == AbiInv => LookupsReadTheirOwn
<1> SUFFICES ASSUME AbiInv PROVE LookupsReadTheirOwn
  OBVIOUS
<1>1. ReadyIsInitialised
  BY DEF AbiInv, Lookups, Live, Begun, ReadyIsInitialised
<1>2. OneQueryInFlight
  <2> SUFFICES ASSUME NEW l \in Lookers, InQuery(app.lookups[l])
               PROVE  /\ abi.session.inFlight.held
                      /\ abi.session.inFlight.secret = app.lookups[l].reply.secret
    BY DEF OneQueryInFlight, InQuery
  <2> QED  BY UnderWay DEF InQuery, Asked
<1>3. \A l \in Lookers : ShowsItsOwn(app.lookups[l])
  BY DEF AbiInv, Lookups, LookupOk
<1> QED  BY <1>1, <1>2, <1>3 DEF LookupsReadTheirOwn

(* The promise of the page's lookups, whatever ran between their awaits:   *)
(* a balance is of the address asked for and of the answer's block, and an *)
(* error the one of the very call that failed, although every lookup       *)
(* shares the module's buffers, its error slot and its one query           *)
(* (crates/risepir-wasm/src/abi.rs); and unless an overlap made the        *)
(* session add a delta it had in part (session.rs:304), the account is     *)
(* shown as present only if it is, and as zero or untracked only if not.   *)
THEOREM LookupsAlwaysReadTheirOwn == AbiSpec => []LookupsReadTheirOwn
<1>1. AbiInit => AbiInv
  BY AbiInitInv
<1>2. AbiInv /\ [AbiNext]_abiVars => AbiInv'
  BY AbiNextInv
<1>3. AbiInv => LookupsReadTheirOwn
  BY AbiInvShows
<1> QED  BY <1>1, <1>2, <1>3, PTL DEF AbiSpec

-----------------------------------------------------------------------------
(* The page: what each part of it may hold, and what a panel that is filled*)
(* and a lookup that has ended leave behind.                               *)
PageTypeOK ==
    /\ boot \in [stage : {"preflight", "gate", "connect", "failed", "state", "suggestions",
                          "ready"}, insisted : BOOLEAN]
    /\ node \in [head : Nat]
    /\ form \in [enabled : BOOLEAN, shown : Outcomes \cup {"nothing", "querying"}]
    /\ lookups \in Seq(Outcomes \cup {"running"})
    /\ polls \in Seq([asked : Nat, out : BOOLEAN])
    /\ panel \in [pill : {"hidden", "unreachable", "following"}, at : Nat, highest : Nat]

AskedFirst ==
    boot.stage \notin {"preflight", "gate"} =>
        \/ boot.insisted \/ device.hint = 0 \/ Verdict(device) = "ok"

PanelFilled == boot.stage \in {"suggestions", "ready"} => panel.pill # "hidden"

PanelTrue == panel.at <= node.head /\ panel.at <= panel.highest

FormTrue ==
    (\A i \in 1..Len(lookups) : ~Runs(i)) => form.enabled /\ form.shown # "querying"

PageInv == PageTypeOK /\ AskedFirst /\ PanelFilled /\ PanelTrue /\ FormTrue

(* A refusal is on a figure the device reported.                           *)
LEMMA RefusedOnAFigure == Verdict(device) = "refuse" => device.memory > 0
<1>1. Base(device) \in {"refuse", "ok", "warn"} /\ (Base(device) = "refuse" => device.memory > 0)
  BY DEF Base
<1> QED  BY <1>1 DEF Verdict

(* The page opens on the preflight, its form empty.                        *)
LEMMA PageInitInv == PageInit => PageInv
BY DEF PageInit, PageInv, PageTypeOK, AskedFirst, PanelFilled, PanelTrue, FormTrue, Outcomes

(* What a poll was asked at, and whether it waits.                         *)
LEMMA PollIs ==
    ASSUME PageTypeOK, NEW i \in 1..Len(polls)
    PROVE  polls[i] \in [asked : Nat, out : BOOLEAN]
<1>1. PICK S : S = [asked : Nat, out : BOOLEAN]
  OBVIOUS
<1>2. polls \in Seq(S)
  BY <1>1 DEF PageTypeOK
<1>3. polls[i] \in S
  BY <1>2
<1> QED  BY <1>1, <1>3

(* The parts that a step leaves alone stay as they should be.              *)
LEMMA FormStays ==
    ASSUME FormTrue, UNCHANGED <<form, lookups>>
    PROVE  FormTrue'
BY DEF FormTrue, Runs

(* A poll more is a poll that waits, asked at the block of the moment.     *)
LEMMA StateAsked ==
    ASSUME PageTypeOK, AskState
    PROVE  polls' \in Seq([asked : Nat, out : BOOLEAN])
<1>1. PICK p : p = [asked |-> node.head, out |-> TRUE]
  OBVIOUS
<1>2. p \in [asked : Nat, out : BOOLEAN] /\ polls' = Append(polls, p)
  BY <1>1 DEF AskState, PageTypeOK
<1> QED  BY <1>2 DEF PageTypeOK

(* The boot moves on by its stage alone.                                   *)
LEMMA StageMoved ==
    ASSUME PageTypeOK, NEW from, NEW to, Stage(from, to)
    PROVE  /\ boot.stage = from /\ boot'.stage = to /\ boot'.insisted = boot.insisted
           /\ boot' = [stage |-> boot'.stage, insisted |-> boot'.insisted]
BY DEF Stage, PageTypeOK

(* The panel names no block above the server's when that rises.            *)
LEMMA HeadRisesKeepsPage ==
    ASSUME PageInv, HeadRises
    PROVE  PageInv'
<1>1. PICK n : n = node.head + 1
  OBVIOUS
<1>2. node' = [node EXCEPT !.head = n]
  BY <1>1 DEF HeadRises
<1>3. node' \in [head : Nat] /\ node'.head = node.head + 1 /\ node.head \in Nat
  BY <1>1, <1>2 DEF PageInv, PageTypeOK
<1>4. UNCHANGED <<device, boot, form, lookups, polls, panel>>
  BY DEF HeadRises
<1>5. PanelTrue'
  BY <1>3, <1>4 DEF PageInv, PageTypeOK, PanelTrue
<1> QED  BY <1>3, <1>4, <1>5, FormStays DEF PageInv, PageTypeOK, AskedFirst, PanelFilled

(* The visitor is asked, or there was nothing to ask about.                *)
LEMMA PreflightKeepsPage ==
    ASSUME PageInv, Preflight
    PROVE  PageInv'
<1>1. PICK to : to = IF device.hint = 0 \/ Verdict(device) = "ok" THEN "connect" ELSE "gate"
  OBVIOUS
<1>2. Stage("preflight", to) /\ UNCHANGED <<device, node, form, lookups, polls, panel>>
  BY <1>1 DEF Preflight
<1>3. /\ boot'.stage = to /\ boot'.insisted = boot.insisted
      /\ boot' = [stage |-> boot'.stage, insisted |-> boot'.insisted]
  BY <1>2, StageMoved DEF PageInv
<1>4. PageTypeOK'
  BY <1>1, <1>2, <1>3 DEF PageInv, PageTypeOK
<1>5. AskedFirst' /\ PanelFilled'
  BY <1>1, <1>2, <1>3 DEF AskedFirst, PanelFilled
<1> QED  BY <1>2, <1>4, <1>5, FormStays DEF PageInv, PanelTrue

(* The visitor who goes on has been asked.                                 *)
LEMMA AnywayKeepsPage ==
    ASSUME PageInv, DownloadAnyway
    PROVE  PageInv'
<1>1. /\ boot' = [stage |-> "connect", insisted |-> TRUE]
      /\ UNCHANGED <<device, node, form, lookups, polls, panel>>
  BY DEF DownloadAnyway
<1>2. PageTypeOK'
  BY <1>1 DEF PageInv, PageTypeOK
<1>3. AskedFirst' /\ PanelFilled'
  BY <1>1 DEF AskedFirst, PanelFilled
<1> QED  BY <1>1, <1>2, <1>3, FormStays DEF PageInv, PanelTrue

(* The connection ends in an error, or in the boot's own poll.             *)
LEMMA ConnectedKeepsPage ==
    ASSUME PageInv, Connected
    PROVE  PageInv'
<1>1. PICK to \in {"failed", "state"} : Stage("connect", to)
  BY DEF Connected
<1>2. UNCHANGED <<device, node, form, lookups, panel>>
  BY DEF Connected
<1>3. /\ boot.stage = "connect" /\ boot'.stage = to /\ boot'.insisted = boot.insisted
      /\ boot' = [stage |-> boot'.stage, insisted |-> boot'.insisted]
  BY <1>1, StageMoved DEF PageInv
<1>4. polls' \in Seq([asked : Nat, out : BOOLEAN])
  BY StateAsked DEF Connected, PageInv, PageTypeOK
<1>5. PageTypeOK'
  BY <1>2, <1>3, <1>4 DEF PageInv, PageTypeOK
<1>6. AskedFirst' /\ PanelFilled'
  BY <1>2, <1>3 DEF PageInv, AskedFirst, PanelFilled
<1> QED  BY <1>2, <1>5, <1>6, FormStays DEF PageInv, PanelTrue

(* A poll fills the panel with a block the server has reached, and lets    *)
(* the boot that waited for it go on.                                      *)
LEMMA PollKeepsPage ==
    ASSUME PageInv, PollEnds
    PROVE  PageInv'
<1>1. PICK i \in 1..Len(polls) :
          /\ polls' = [polls EXCEPT ![i].out = FALSE]
          /\ \/ panel' = [panel EXCEPT !.pill = "unreachable", !.at = 0]
             \/ \E seen \in polls[i].asked..node.head :
                   panel' = [pill |-> "following", at |-> seen,
                             highest |-> IF seen > panel.highest THEN seen ELSE panel.highest]
  BY DEF PollEnds
<1>2. UNCHANGED <<device, node, form, lookups>>
  BY DEF PollEnds
<1>3. polls' \in Seq([asked : Nat, out : BOOLEAN])
  <2>1. PICK p : p = [polls[i] EXCEPT !.out = FALSE]
    OBVIOUS
  <2>2. p \in [asked : Nat, out : BOOLEAN]
    BY <2>1, PollIs DEF PageInv
  <2>3. polls' = [polls EXCEPT ![i] = p]
    BY <1>1, <2>1
  <2> QED  BY <2>2, <2>3 DEF PageInv, PageTypeOK
<1>4. /\ panel' \in [pill : {"hidden", "unreachable", "following"}, at : Nat, highest : Nat]
      /\ panel'.pill # "hidden" /\ panel'.at <= node.head /\ panel'.at <= panel'.highest
  <2>1. polls[i].asked \in Nat /\ node.head \in Nat /\ panel.highest \in Nat
    BY PollIs DEF PageInv, PageTypeOK
  <2>2. CASE panel' = [panel EXCEPT !.pill = "unreachable", !.at = 0]
    <3>1. panel' = [pill |-> "unreachable", at |-> 0, highest |-> panel.highest]
      BY <2>2 DEF PageInv, PageTypeOK
    <3> QED  BY <2>1, <3>1
  <2>3. ASSUME NEW seen \in polls[i].asked..node.head,
               panel' = [pill |-> "following", at |-> seen,
                         highest |-> IF seen > panel.highest THEN seen ELSE panel.highest]
        PROVE  /\ panel' \in [pill : {"hidden", "unreachable", "following"}, at : Nat,
                              highest : Nat]
               /\ panel'.pill # "hidden" /\ panel'.at <= node.head
               /\ panel'.at <= panel'.highest
    BY <2>1, <2>3
  <2> QED  BY <1>1, <2>2, <2>3
<1>5. /\ boot' \in [stage : {"preflight", "gate", "connect", "failed", "state", "suggestions",
                             "ready"}, insisted : BOOLEAN]
      /\ boot'.insisted = boot.insisted
      /\ boot'.stage = boot.stage \/ (boot.stage = "state" /\ boot'.stage = "suggestions")
  BY DEF PollEnds, PageInv, PageTypeOK
<1>6. PageTypeOK'
  BY <1>2, <1>3, <1>4, <1>5 DEF PageInv, PageTypeOK
<1>7. AskedFirst' /\ PanelFilled' /\ PanelTrue'
  BY <1>2, <1>4, <1>5 DEF PageInv, AskedFirst, PanelFilled, PanelTrue
<1> QED  BY <1>2, <1>6, <1>7, FormStays DEF PageInv

(* The form is revealed beside a panel that is filled.                     *)
LEMMA RevealKeepsPage ==
    ASSUME PageInv, Reveal
    PROVE  PageInv'
<1>1. UNCHANGED <<device, node, form, lookups, polls, panel>> /\ Stage("suggestions", "ready")
  BY DEF Reveal
<1>2. /\ boot.stage = "suggestions" /\ boot'.stage = "ready" /\ boot'.insisted = boot.insisted
      /\ boot' = [stage |-> boot'.stage, insisted |-> boot'.insisted]
  BY <1>1, StageMoved DEF PageInv
<1>3. PageTypeOK'
  BY <1>1, <1>2 DEF PageInv, PageTypeOK
<1>4. AskedFirst' /\ PanelFilled'
  BY <1>1, <1>2 DEF PageInv, AskedFirst, PanelFilled
<1> QED  BY <1>1, <1>3, <1>4, FormStays DEF PageInv, PanelTrue

(* The timer polls, and touches nothing else.                              *)
LEMMA TimerKeepsPage ==
    ASSUME PageInv, TimerPolls
    PROVE  PageInv'
<1>1. UNCHANGED <<device, boot, node, form, lookups, panel>> /\ AskState
  BY DEF TimerPolls
<1>2. PageTypeOK'
  BY <1>1, StateAsked DEF PageInv, PageTypeOK
<1> QED  BY <1>1, <1>2, FormStays DEF PageInv, AskedFirst, PanelFilled, PanelTrue

(* A lookup submitted runs, so the page may say that it queries.           *)
LEMMA SubmitKeepsPage ==
    ASSUME PageInv, SubmitLookup
    PROVE  PageInv'
<1>1. /\ lookups' = Append(lookups, "running")
      /\ form' = [enabled |-> FALSE, shown |-> "querying"]
      /\ UNCHANGED <<device, boot, node, polls, panel>>
  BY DEF SubmitLookup
<1>2. /\ lookups' \in Seq(Outcomes \cup {"running"}) /\ Len(lookups) \in Nat
      /\ Len(lookups') = Len(lookups) + 1 /\ lookups'[Len(lookups')] = "running"
  BY <1>1 DEF PageInv, PageTypeOK
<1>3. form'.shown = "querying"
      /\ form' \in [enabled : BOOLEAN, shown : Outcomes \cup {"nothing", "querying"}]
  BY <1>1
<1>4. FormTrue'
  BY <1>2, <1>3 DEF FormTrue, Runs
<1>5. PageTypeOK'
  BY <1>1, <1>2, <1>3 DEF PageInv, PageTypeOK
<1> QED  BY <1>1, <1>4, <1>5 DEF PageInv, AskedFirst, PanelFilled, PanelTrue

(* Whatever a lookup came to, the button is given back and it is shown.    *)
LEMMA EndedKeepsPage ==
    ASSUME PageInv, LookupEnds
    PROVE  PageInv'
<1>1. PICK i \in 1..Len(lookups), outcome \in Outcomes :
          /\ lookups' = [lookups EXCEPT ![i] = outcome]
          /\ form' = [enabled |-> Enabled(outcome), shown |-> outcome]
          /\ IF outcome \in {"timed_out", "stale", "error"} THEN UNCHANGED polls ELSE AskState
  BY DEF LookupEnds
<1>2. UNCHANGED <<device, boot, node, panel>>
  BY DEF LookupEnds
<1>3. lookups' \in Seq(Outcomes \cup {"running"})
  BY <1>1 DEF PageInv, PageTypeOK
<1>4. /\ form' \in [enabled : BOOLEAN, shown : Outcomes \cup {"nothing", "querying"}]
      /\ form'.enabled /\ form'.shown = outcome
  BY <1>1 DEF Enabled
<1>5. outcome # "querying"
  BY DEF Outcomes
<1>6. FormTrue'
  BY <1>4, <1>5 DEF FormTrue
<1>7. polls' \in Seq([asked : Nat, out : BOOLEAN])
  BY <1>1, StateAsked DEF PageInv, PageTypeOK
<1>8. PageTypeOK'
  BY <1>2, <1>3, <1>4, <1>7 DEF PageInv, PageTypeOK
<1> QED  BY <1>2, <1>6, <1>8 DEF PageInv, AskedFirst, PanelFilled, PanelTrue

(* No step takes the page out of the invariant.                            *)
LEMMA PageNextInv == PageInv /\ [PageNext]_pageVars => PageInv'
<1> SUFFICES ASSUME PageInv, [PageNext]_pageVars PROVE PageInv'
  OBVIOUS
<1>1. CASE UNCHANGED pageVars
  BY <1>1, FormStays DEF pageVars, PageInv, PageTypeOK, AskedFirst, PanelFilled, PanelTrue
<1> QED
  BY <1>1, HeadRisesKeepsPage, PreflightKeepsPage, AnywayKeepsPage, ConnectedKeepsPage,
     PollKeepsPage, RevealKeepsPage, TimerKeepsPage, SubmitKeepsPage, EndedKeepsPage DEF PageNext

(* The page never downloads unasked what the device said it cannot hold,   *)
(* reveals its form on a filled panel, names no block the server was not   *)
(* at, and no order in which overlapping lookups end leaves it querying, or*)
(* its button dead, with no lookup running (app.js:620).                   *)
THEOREM PageIsAlwaysHonest == PageSpec => []PageIsHonest
<1>1. PageInit => PageInv
  BY PageInitInv
<1>2. PageInv /\ [PageNext]_pageVars => PageInv'
  BY PageNextInv
<1>3. PageInv => PageIsHonest
  BY RefusedOnAFigure DEF PageInv, AskedFirst, PanelFilled, PanelTrue, FormTrue, PageIsHonest
<1> QED  BY <1>1, <1>2, <1>3, PTL DEF PageSpec

-----------------------------------------------------------------------------
(* The calls of a native client.                                           *)

(* The figures of a route, and the calls they are of.                      *)
Figures == [calls : Nat, request : Nat, response : Nat]

(* How a call ends, and what is asked.                                     *)
Endings == {"network", "resync", "status", "wire", "body"}

Sent == UNION {Requests(route) : route \in Routes}

Calls == [request : Sent, outcome : Endings, bytes : Nat]

(* A call is tallied into figures.                                         *)
LEMMA TalliedIs ==
    ASSUME NEW route, NEW f \in Figures, NEW e \in Calls
    PROVE  Tallied(route, f, e) \in Figures
BY DEF Tallied, Figures, Calls, RequestBytes

(* The rounds of the fold: one per call.                                   *)
TallyOf(route, s) == [i \in 1 .. Len(s) |-> [f \in Figures |-> Tallied(route, f, s[i])]]

(* The figures are what a loop over the calls adds up.                     *)
LEMMA FoldTallies ==
    ASSUME NEW route, NEW s \in Seq(Calls)
    PROVE  /\ TallyOf(route, s) \in Rounds(Len(s), Figures)
           /\ \E p \in Passes(Len(s), Figures, NoFigures, TallyOf(route, s)) :
                 FiguresOf(route, s) = p[Len(s)]
<1>1. PICK n : n = Len(s)
  OBVIOUS
<1>2. n \in Nat /\ DOMAIN s = 1 .. n /\ \A i \in 1 .. n : s[i] \in Calls
  BY <1>1
<1>3. PICK g : g = TallyOf(route, s)
  OBVIOUS
<1>4. \A i \in 1 .. n : \A f \in Figures : g[i][f] = Tallied(route, f, s[i])
  BY <1>1, <1>3 DEF TallyOf
<1>5. g \in Rounds(n, Figures)
  BY <1>1, <1>2, <1>3, TalliedIs DEF TallyOf, Rounds
<1>6. NoFigures \in Figures
  BY DEF NoFigures, Figures
<1>7. PICK p : p \in Passes(n, Figures, NoFigures, g)
  BY <1>2, <1>5, <1>6, RecursionUpToNat
<1>8. PICK h \in [SUBSET (1 .. n) -> Figures] : Unfolds(h, n, NoFigures, g)
  BY <1>2, <1>5, <1>6, FoldExists
<1>9. h = [t \in SUBSET DOMAIN s |->
             IF t = {} THEN NoFigures ELSE Tallied(route, h[t \ {Top(t)}], s[Top(t)])]
  <2>1. ASSUME NEW t \in SUBSET (1 .. n), t # {}
        PROVE  h[t] = Tallied(route, h[t \ {Top(t)}], s[Top(t)])
    <3>1. Top(t) \in 1 .. n /\ t \ {Top(t)} \in SUBSET (1 .. n)
      BY <1>2, <2>1, TopIs
    <3>2. h[t] = g[Top(t)][h[t \ {Top(t)}]]
      BY <1>8, <2>1 DEF Unfolds
    <3> QED  BY <1>4, <3>1, <3>2
  <2>2. h[{}] = NoFigures
    BY <1>8 DEF Unfolds
  <2> QED  BY <1>2, <2>1, <2>2
<1>10. PICK k : /\ k = [t \in SUBSET DOMAIN s |->
                      IF t = {} THEN NoFigures ELSE Tallied(route, k[t \ {Top(t)}], s[Top(t)])]
               /\ FiguresOf(route, s) = k[DOMAIN s]
  BY <1>9, Zenon DEF FiguresOf, FoldLeft, MapThenFoldSet, Top, Max
<1>11. k[1 .. 0] = NoFigures
  <2>1. 1 .. 0 = {} /\ {} \in SUBSET DOMAIN s
    OBVIOUS
  <2> QED  BY <1>10, <2>1
<1>12. ASSUME NEW i \in 1 .. n, k[1 .. (i - 1)] \in Figures
       PROVE  k[1 .. i] = g[i][k[1 .. (i - 1)]]
  <2>1. /\ (1 .. i) \in SUBSET DOMAIN s /\ (1 .. i) # {} /\ Top(1 .. i) = i
        /\ (1 .. i) \ {i} = 1 .. (i - 1)
    BY <1>2, TopOfFirst
  <2>2. k[1 .. i] = Tallied(route, k[1 .. (i - 1)], s[i])
    BY <1>10, <2>1
  <2> QED  BY <1>4, <1>12, <2>2
<1>13. k[1 .. n] = p[n]
  BY <1>2, <1>5, <1>6, <1>7, <1>11, <1>12, FoldIsTheLoop
<1> QED  BY <1>1, <1>2, <1>3, <1>5, <1>7, <1>10, <1>13

(* One call more is tallied on top of the figures before it.               *)
LEMMA FiguresAppend ==
    ASSUME NEW route, NEW s \in Seq(Calls), NEW e \in Calls
    PROVE  /\ FiguresOf(route, s) \in Figures
           /\ FiguresOf(route, Append(s, e)) = Tallied(route, FiguresOf(route, s), e)
<1>1. PICK n : n = Len(s)
  OBVIOUS
<1>2. PICK u : u = Append(s, e)
  OBVIOUS
<1>3. n \in Nat /\ u \in Seq(Calls) /\ Len(u) = n + 1 /\ u[n + 1] = e
      /\ \A i \in 1 .. n : u[i] = s[i]
  BY <1>1, <1>2
<1>4. PICK g : g = TallyOf(route, s)
  OBVIOUS
<1>5. PICK h : h = TallyOf(route, u)
  OBVIOUS
<1>6. PICK p \in Passes(n, Figures, NoFigures, g) : FiguresOf(route, s) = p[n]
  BY <1>1, <1>4, FoldTallies
<1>7. PICK q \in Passes(n + 1, Figures, NoFigures, h) : FiguresOf(route, u) = q[n + 1]
  BY <1>3, <1>5, FoldTallies
<1>8. g \in Rounds(n, Figures) /\ h \in Rounds(n + 1, Figures) /\ NoFigures \in Figures
  BY <1>1, <1>3, <1>4, <1>5, FoldTallies DEF NoFigures, Figures
<1>9. \A i \in 1 .. n : g[i] = h[i]
  BY <1>1, <1>3, <1>4, <1>5 DEF TallyOf
<1>10. p[n] \in Figures /\ q[n + 1] = h[n + 1][p[n]]
  BY <1>3, <1>6, <1>7, <1>8, <1>9, PassesExtend
<1>11. h[n + 1][p[n]] = Tallied(route, p[n], e)
  BY <1>3, <1>5, <1>10 DEF TallyOf
<1> QED  BY <1>2, <1>6, <1>7, <1>10, <1>11

(* A call that has ended, and a response that is being read.               *)
ToldRight(e) ==
    /\ e.outcome = "body" => Status(e.request) = 200 /\ e.bytes <= MaxLen(e.request.route)
    /\ e.outcome = "resync" => /\ e.request.route = "sync"
                               /\ e.request.epoch # "right" \/ ~e.request.retained
    /\ e.outcome \notin {"network", "resync"} /\ e.request.route = "sync"
          => Status(e.request) # 409

InboxOk ==
    inbox # NoResponse =>
        /\ call # NoCall
        /\ inbox = [status |-> inbox.status, body |-> inbox.body, came |-> inbox.came,
                    bytes |-> inbox.bytes, declared |-> inbox.declared]
        /\ inbox.status = Status(call)
        /\ inbox.came \in Nat /\ inbox.bytes \in Nat /\ inbox.bytes <= MaxLen(call.route)
        /\ inbox.body \in Seq(Nat)

(* A route's figures are those of its calls; and the inductive invariant.  *)
FiguresMatch ==
    \A route \in Routes :
        LET f == FiguresOf(route, ended) IN
        /\ sink[route].calls = f.calls /\ sink[route].request = f.request
        /\ sink[route].response = f.response

CallsInv ==
    /\ call \in Sent \cup {NoCall}
    /\ InboxOk
    /\ ended \in Seq(Calls) /\ \A i \in 1 .. Len(ended) : ToldRight(ended[i])
    /\ sink = [route \in Routes |-> sink[route]] /\ FiguresMatch

(* A request names its route, and is no absence of one.                    *)
LEMMA RequestIs ==
    ASSUME NEW r \in Sent
    PROVE  r.route \in Routes /\ r # NoCall
<1>1. PICK route \in Routes : r \in Requests(route)
  BY DEF Sent
<1>2. r.route = route
  BY <1>1 DEF Requests
<1>3. NoCall.route \notin Routes
  BY DEF NoCall, Routes
<1> QED  BY <1>2, <1>3

(* However a call ends, it is told once and measured once.                 *)
LEMMA EndKeepsInv ==
    ASSUME CallsInv, call # NoCall, NEW outcome \in Endings, NEW bytes \in Nat, NEW declared,
           ToldRight([request |-> call, outcome |-> outcome, bytes |-> bytes]),
           CallEnds(outcome, bytes, declared)
    PROVE  CallsInv'
<1>1. PICK e : e = [request |-> call, outcome |-> outcome, bytes |-> bytes]
  OBVIOUS
<1>2. /\ sink' = CallRecorded(call, bytes, declared) /\ ended' = Append(ended, e)
      /\ call' = NoCall /\ inbox' = NoResponse
  BY <1>1 DEF CallEnds
<1>3. /\ call \in Sent /\ call.route \in Routes
      /\ ended \in Seq(Calls)
  BY RequestIs DEF CallsInv
<1>4. e \in Calls /\ e.request = call /\ e.bytes = bytes /\ ToldRight(e)
  BY <1>1, <1>3 DEF Calls
<1>5. PICK S : S = Calls
  OBVIOUS
<1>6. /\ ended' \in Seq(S) /\ Len(ended') = Len(ended) + 1 /\ Len(ended) \in Nat
      /\ ended'[Len(ended) + 1] = e /\ \A i \in 1 .. Len(ended) : ended'[i] = ended[i]
  BY <1>2, <1>3, <1>4, <1>5
<1>7. ASSUME NEW i \in 1 .. Len(ended') PROVE ToldRight(ended'[i])
  <2>1. CASE i = Len(ended) + 1
    BY <1>4, <1>6, <2>1
  <2>2. CASE i # Len(ended) + 1
    <3>1. i \in 1 .. Len(ended)
      BY <1>6, <2>2
    <3> QED  BY <1>6, <3>1 DEF CallsInv
  <2> QED  BY <2>1, <2>2
<1>8. PICK now : now = [calls |-> sink[call.route].calls + 1,
                        request |-> sink[call.route].request + RequestBytes(call),
                        response |-> sink[call.route].response + bytes,
                        declared |-> declared]
  OBVIOUS
<1>9. sink' = [sink EXCEPT ![call.route] = now]
  BY <1>2, <1>8 DEF CallRecorded
<1>10. /\ sink' = [route \in Routes |-> sink'[route]] /\ sink'[call.route] = now
       /\ \A route \in Routes : route # call.route => sink'[route] = sink[route]
  BY <1>3, <1>9 DEF CallsInv
<1>11. ASSUME NEW route \in Routes
       PROVE  LET f == FiguresOf(route, ended') IN
              /\ sink'[route].calls = f.calls /\ sink'[route].request = f.request
              /\ sink'[route].response = f.response
  <2>1. PICK f : f = FiguresOf(route, ended)
    OBVIOUS
  <2>2. FiguresOf(route, ended') = Tallied(route, f, e)
    BY <1>2, <1>3, <1>4, <2>1, FiguresAppend
  <2>3. /\ sink[route].calls = f.calls /\ sink[route].request = f.request
        /\ sink[route].response = f.response
    BY <2>1 DEF CallsInv, FiguresMatch
  <2>4. CASE route = call.route
    BY <1>4, <1>8, <1>10, <2>2, <2>3, <2>4 DEF Tallied
  <2>5. CASE route # call.route
    BY <1>4, <1>10, <2>2, <2>3, <2>5 DEF Tallied
  <2> QED  BY <2>4, <2>5
<1>12. InboxOk' /\ FiguresMatch'
  BY <1>2, <1>11 DEF InboxOk, FiguresMatch
<1> QED  BY <1>2, <1>5, <1>6, <1>7, <1>10, <1>12 DEF CallsInv

(* Nothing has been measured at first.                                     *)
LEMMA CallsInitInv == CallsInit => CallsInv
<1> SUFFICES ASSUME CallsInit PROVE CallsInv
  OBVIOUS
<1>1. ended = <<>> /\ ended \in Seq(Calls) /\ Len(ended) = 0
  BY DEF CallsInit
<1>2. ASSUME NEW route \in Routes PROVE FiguresOf(route, ended) = NoFigures
  <2>1. PICK p \in Passes(Len(ended), Figures, NoFigures, TallyOf(route, ended)) :
            FiguresOf(route, ended) = p[Len(ended)]
    BY <1>1, FoldTallies
  <2> QED  BY <1>1, <2>1 DEF Passes
<1>3. FiguresMatch
  BY <1>2 DEF FiguresMatch, CallsInit, NoFigures, NoStats
<1> QED  BY <1>1, <1>3 DEF CallsInit, CallsInv, InboxOk

(* A request is one of the routes'.                                        *)
LEMMA AskKeepsCalls ==
    ASSUME CallsInv, Ask
    PROVE  CallsInv'
<1>1. /\ call' \in Sent
      /\ call = NoCall /\ UNCHANGED <<inbox, sink, ended>>
  BY DEF Ask, Sent
<1>2. InboxOk'
  BY <1>1 DEF CallsInv, InboxOk
<1> QED  BY <1>1, <1>2 DEF CallsInv, FiguresMatch

(* A response has the status the node gives the call, and nothing is read  *)
(* yet.                                                                    *)
LEMMA RespondKeepsCalls ==
    ASSUME CallsInv, Respond
    PROVE  CallsInv'
<1>1. /\ call # NoCall /\ UNCHANGED <<call, sink, ended>>
      /\ \E body \in BodiesOf(Status(call)) : \E length :
            inbox' = [status |-> Status(call), body |-> body, came |-> 0, bytes |-> 0,
                      declared |-> length]
  BY Zenon DEF Respond
<1>2. PICK body, length :
          /\ body \in BodiesOf(Status(call))
          /\ inbox' = [status |-> Status(call), body |-> body, came |-> 0, bytes |-> 0,
                       declared |-> length]
  BY <1>1
<1>3. body \in Seq(Nat)
  <2>1. CASE Status(call) = 200
    <3>1. PICK n \in 0 .. MaxChunks : body \in [1 .. n -> 1 .. MaxChunks]
      BY <1>2, <2>1 DEF BodiesOf
    <3>2. n \in Nat /\ (1 .. MaxChunks) \subseteq Nat
      BY CallsAssumption
    <3>3. body \in [1 .. n -> Nat]
      BY <3>1, <3>2
    <3> QED  BY <3>2, <3>3
  <2>2. CASE Status(call) # 200
    BY <1>2, <2>2 DEF BodiesOf
  <2> QED  BY <2>1, <2>2
<1>4. MaxLen(call.route) >= 0
  BY DEF MaxLen
<1>5. InboxOk'
  BY <1>1, <1>2, <1>3, <1>4 DEF InboxOk
<1> QED  BY <1>1, <1>5 DEF CallsInv, FiguresMatch

(* The request cannot be sent, or no response comes.                       *)
LEMMA NoAnswerKeepsCalls ==
    ASSUME CallsInv, NoAnswer
    PROVE  CallsInv'
<1>0. call # NoCall
  BY DEF NoAnswer
<1>1. ToldRight([request |-> call, outcome |-> "network", bytes |-> 0])
  BY DEF ToldRight
<1>3. CallEnds("network", 0, -1)
  BY DEF NoAnswer
<1>4. "network" \in Endings /\ 0 \in Nat
  BY DEF Endings
<1> QED  BY <1>0, <1>1, <1>3, <1>4, EndKeepsInv

(* The node refuses a request to sync for its lineage or its window.       *)
LEMMA ConflictKeepsCalls ==
    ASSUME CallsInv, Conflict
    PROVE  CallsInv'
<1>1. /\ call # NoCall /\ call \in Sent
      /\ Status(call) = 409 /\ call.route = "sync"
  BY DEF CallsInv, InboxOk, Conflict
<1>2. call.epoch # "right" \/ ~call.retained
  BY <1>1 DEF Status, EpochBound
<1>3. ToldRight([request |-> call, outcome |-> "resync", bytes |-> 0])
  BY <1>1, <1>2 DEF ToldRight
<1>4. CallEnds("resync", 0, inbox.declared)
  BY DEF Conflict
<1>5. "resync" \in Endings /\ 0 \in Nat
  BY DEF Endings
<1> QED  BY <1>1, <1>3, <1>4, <1>5, EndKeepsInv

(* Another refusal is no call to resync.                                   *)
LEMMA OtherStatusKeepsCalls ==
    ASSUME CallsInv, OtherStatus
    PROVE  CallsInv'
<1>1. call # NoCall /\ ~(Status(call) = 409 /\ call.route = "sync")
  BY DEF CallsInv, InboxOk, OtherStatus
<1>2. ToldRight([request |-> call, outcome |-> "status", bytes |-> 0])
  BY <1>1 DEF ToldRight
<1>3. CallEnds("status", 0, inbox.declared)
  BY DEF OtherStatus
<1>4. "status" \in Endings /\ 0 \in Nat
  BY DEF Endings
<1> QED  BY <1>1, <1>2, <1>3, <1>4, EndKeepsInv

(* A body is read only of a success.                                       *)
LEMMA ReadingIs ==
    ASSUME CallsInv, Reading
    PROVE  /\ call # NoCall /\ Status(call) = 200
           /\ inbox = [status |-> inbox.status, body |-> inbox.body, came |-> inbox.came,
                       bytes |-> inbox.bytes, declared |-> inbox.declared]
           /\ inbox.came \in Nat /\ inbox.bytes \in Nat /\ inbox.bytes <= MaxLen(call.route)
           /\ inbox.body \in Seq(Nat)
BY DEF CallsInv, InboxOk, Reading

(* A body said to be too long is not handed on.                            *)
LEMMA TooLongKeepsCalls ==
    ASSUME CallsInv, DeclaredTooLong
    PROVE  CallsInv'
<1>1. call # NoCall /\ Status(call) = 200
  BY ReadingIs DEF DeclaredTooLong
<1>2. ToldRight([request |-> call, outcome |-> "wire", bytes |-> 0])
  BY <1>1 DEF ToldRight
<1>3. CallEnds("wire", 0, inbox.declared)
  BY DEF DeclaredTooLong
<1>4. "wire" \in Endings /\ 0 \in Nat
  BY DEF Endings
<1> QED  BY <1>1, <1>2, <1>3, <1>4, EndKeepsInv

(* A chunk that fits is kept; one that does not ends the call.             *)
LEMMA ChunkKeepsCalls ==
    ASSUME CallsInv, Chunk
    PROVE  CallsInv'
<1>1. /\ call # NoCall /\ Status(call) = 200
      /\ inbox = [status |-> inbox.status, body |-> inbox.body, came |-> inbox.came,
                  bytes |-> inbox.bytes, declared |-> inbox.declared]
      /\ inbox.came \in Nat /\ inbox.bytes \in Nat /\ inbox.body \in Seq(Nat)
      /\ inbox.came < Len(inbox.body) /\ inbox.status = Status(call)
  BY ReadingIs DEF Chunk, CallsInv, InboxOk, Reading
<1>2. PICK length : length = inbox.bytes + inbox.body[inbox.came + 1]
  OBVIOUS
<1>3. length \in Nat
  BY <1>1, <1>2
<1>4. CASE length > MaxLen(call.route)
  <2>1. CallEnds("wire", 0, inbox.declared)
    BY <1>2, <1>4 DEF Chunk
  <2>2. ToldRight([request |-> call, outcome |-> "wire", bytes |-> 0])
    BY <1>1 DEF ToldRight
  <2>3. "wire" \in Endings /\ 0 \in Nat
    BY DEF Endings
  <2> QED  BY <1>1, <2>1, <2>2, <2>3, EndKeepsInv
<1>5. CASE ~(length > MaxLen(call.route))
  <2>1. PICK n : n = inbox.came + 1
    OBVIOUS
  <2>2. inbox' = [inbox EXCEPT !.came = n, !.bytes = length] /\ UNCHANGED <<call, sink, ended>>
    BY <1>2, <1>5, <2>1 DEF Chunk
  <2>3. MaxLen(call.route) \in Nat
    BY DEF MaxLen
  <2>4. /\ inbox'.status = inbox.status /\ inbox'.came = n /\ inbox'.bytes = length
        /\ inbox'.body = inbox.body
        /\ inbox' = [status |-> inbox'.status, body |-> inbox'.body, came |-> inbox'.came,
                     bytes |-> inbox'.bytes, declared |-> inbox'.declared]
    BY <1>1, <2>2
  <2>5. InboxOk'
    BY <1>1, <1>3, <1>5, <2>1, <2>2, <2>3, <2>4 DEF InboxOk
  <2> QED  BY <2>2, <2>5 DEF CallsInv, FiguresMatch
<1> QED  BY <1>4, <1>5

(* A body that breaks off is not handed on.                                *)
LEMMA BreaksKeepsCalls ==
    ASSUME CallsInv, Breaks
    PROVE  CallsInv'
<1>1. call # NoCall
  BY ReadingIs DEF Breaks
<1>2. ToldRight([request |-> call, outcome |-> "network", bytes |-> 0])
  BY DEF ToldRight
<1>3. CallEnds("network", 0, inbox.declared)
  BY DEF Breaks
<1>4. "network" \in Endings /\ 0 \in Nat
  BY DEF Endings
<1> QED  BY <1>1, <1>2, <1>3, <1>4, EndKeepsInv

(* A body handed on is within its bound, and of a success.                 *)
LEMMA BodyKeepsCalls ==
    ASSUME CallsInv, BodyRead
    PROVE  CallsInv'
<1>1. /\ call # NoCall /\ Status(call) = 200 /\ inbox.bytes \in Nat
      /\ inbox.bytes <= MaxLen(call.route)
  BY ReadingIs DEF BodyRead
<1>2. ToldRight([request |-> call, outcome |-> "body", bytes |-> inbox.bytes])
  BY <1>1 DEF ToldRight
<1>3. CallEnds("body", inbox.bytes, inbox.declared)
  BY DEF BodyRead
<1>4. "body" \in Endings
  BY DEF Endings
<1> QED  BY <1>1, <1>2, <1>3, <1>4, EndKeepsInv

(* Every step keeps the invariant.                                         *)
LEMMA CallsNextInv == CallsInv /\ [CallsNext]_callVars => CallsInv'
<1> SUFFICES ASSUME CallsInv, [CallsNext]_callVars PROVE CallsInv'
  OBVIOUS
<1>1. CASE UNCHANGED callVars
  BY <1>1 DEF callVars, CallsInv, InboxOk, FiguresMatch
<1> QED
  BY <1>1, AskKeepsCalls, RespondKeepsCalls, NoAnswerKeepsCalls, ConflictKeepsCalls,
     OtherStatusKeepsCalls, TooLongKeepsCalls, ChunkKeepsCalls, BreaksKeepsCalls,
     BodyKeepsCalls DEF CallsNext

(* Every call is told right and measured once: a body is handed on only    *)
(* whole, within its bound, of a request the node accepts; the session is  *)
(* told to resync exactly when the node refuses its lineage or its window; *)
(* and a route's figures in the NetSink are those of all its calls         *)
(* (crates/risepir-http/src/client.rs).                                    *)
THEOREM CallsAreAlwaysTold == CallsSpec => []CallsAreTold
<1>1. CallsInit => CallsInv
  BY CallsInitInv
<1>2. CallsInv /\ [CallsNext]_callVars => CallsInv'
  BY CallsNextInv
<1>3. CallsInv => CallsAreTold
  <2> SUFFICES ASSUME CallsInv PROVE CallsAreTold
    OBVIOUS
  <2>1. DOMAIN ended = 1 .. Len(ended)
    BY DEF CallsInv
  <2> QED  BY <2>1 DEF CallsInv, ToldRight, FiguresMatch, CallsAreTold
<1> QED  BY <1>1, <1>2, <1>3, PTL DEF CallsSpec

-----------------------------------------------------------------------------
(* How a deployment starts, ends and starts again.                         *)

(* What the flags of a command line may set.                               *)
Values(line) ==
    {line[i].value : i \in DOMAIN line}
    \cup {"drpc", "merkle", "tenderly", "blastapi", "none"} \cup {-1, 1, 21600}

Configs(line) ==
    [exit : {"no", "usage", "help"}, feeds : Seq(Values(line)), feedSeen : BOOLEAN,
     refresh : Seq(Values(line)), refreshSeen : BOOLEAN, checks : BOOLEAN, snapshot : BOOLEAN,
     snapshotBlock : Values(line), state : Values(line), partial : BOOLEAN,
     interval : Values(line), explicit : BOOLEAN, restore : BOOLEAN, prefetch : Values(line)]

(* What a command line comes to, before the interval follows the mode.     *)
Settings(line) == FoldLeft(WithFlag, Defaults, line)

(* A flag keeps the settings what they may be: the interval is set by its  *)
(* own flag alone, the journal's mode by its two; and a line that is       *)
(* refused stays refused.                                                  *)
LEMMA FlagSets ==
    ASSUME NEW line, NEW i \in DOMAIN line, NEW cfg \in Configs(line)
    PROVE  /\ WithFlag(cfg, line[i]) \in Configs(line)
           /\ cfg.exit # "no" => WithFlag(cfg, line[i]).exit # "no"
           /\ cfg.exit = "no" /\ line[i].name = "--save-interval" =>
                 LET now == WithFlag(cfg, line[i]) IN
                 now.interval = line[i].value /\ now.explicit /\ now.restore = cfg.restore
           /\ cfg.exit = "no" /\ line[i].name \in JournalModes =>
                 LET now == WithFlag(cfg, line[i]) IN
                 /\ now.interval = cfg.interval /\ now.explicit = cfg.explicit
                 /\ now.restore <=> line[i].name = "--journal-restore"
           /\ cfg.exit = "no" /\ line[i].name \notin JournalModes \cup {"--save-interval"} =>
                 LET now == WithFlag(cfg, line[i]) IN
                 /\ now.interval = cfg.interval /\ now.explicit = cfg.explicit
                 /\ now.restore = cfg.restore
<1>1. PICK flag : flag = line[i]
  OBVIOUS
<1>2. PICK V : V = Values(line)
  OBVIOUS
<1>3. flag.value \in V
  BY <1>1, <1>2 DEF Values
<1>4. PICK now : now = WithFlag(cfg, flag)
  OBVIOUS
<1>5. cfg \in [exit : {"no", "usage", "help"}, feeds : Seq(V), feedSeen : BOOLEAN,
     refresh : Seq(V), refreshSeen : BOOLEAN, checks : BOOLEAN, snapshot : BOOLEAN,
     snapshotBlock : V, state : V, partial : BOOLEAN,
     interval : V, explicit : BOOLEAN, restore : BOOLEAN, prefetch : V]
  BY <1>2 DEF Configs
<1>6. ASSUME NEW s \in Seq(V), NEW b \in BOOLEAN
      PROVE  Append(IF b THEN s ELSE <<>>, flag.value) \in Seq(V)
  BY <1>3
<1> DEFINE Others == now.interval = cfg.interval /\ now.explicit = cfg.explicit /\ now.restore = cfg.restore
<1>7. CASE cfg.exit # "no"
  <2>1. now = cfg
    BY <1>4, <1>7 DEF WithFlag
  <2> QED  BY <1>1, <1>4, <1>7, <2>1
<1>8. CASE cfg.exit = "no" /\ flag.name = "--feed-url"
  <2>1. PICK s : s = Append(IF cfg.feedSeen THEN cfg.feeds ELSE <<>>, flag.value)
    OBVIOUS
  <2>2. s \in Seq(V)
    BY <1>5, <1>6, <2>1
  <2>3. now = [cfg EXCEPT !.feeds = s, !.feedSeen = TRUE]
    BY <1>4, <1>8, <2>1 DEF WithFlag
  <2>4. now \in Configs(line)
    BY <1>2, <1>5, <2>2, <2>3 DEF Configs
  <2>5. Others
    BY <1>5, <2>3
  <2> QED  BY <1>1, <1>4, <1>8, <2>4, <2>5 DEF JournalModes
<1>9. CASE cfg.exit = "no" /\ flag.name = "--refresh-url"
  <2>1. PICK s : s = Append(IF cfg.refreshSeen THEN cfg.refresh ELSE <<>>, flag.value)
    OBVIOUS
  <2>2. s \in Seq(V)
    BY <1>5, <1>6, <2>1
  <2>3. now = [cfg EXCEPT !.refresh = s, !.refreshSeen = TRUE]
    BY <1>4, <1>9, <2>1 DEF WithFlag
  <2>4. now \in Configs(line)
    BY <1>2, <1>5, <2>2, <2>3 DEF Configs
  <2>5. Others
    BY <1>5, <2>3
  <2> QED  BY <1>1, <1>4, <1>9, <2>4, <2>5 DEF JournalModes
<1>10. CASE cfg.exit = "no" /\ flag.name = "--hard-refresh"
  <2>1. now = [cfg EXCEPT !.checks = TRUE]
    BY <1>4, <1>10 DEF WithFlag
  <2>2. now \in Configs(line) /\ Others
    BY <1>2, <1>3, <1>5, <2>1 DEF Configs
  <2> QED  BY <1>1, <1>4, <1>10, <2>2 DEF JournalModes
<1>11. CASE cfg.exit = "no" /\ flag.name = "--snapshot"
  <2>1. now = [cfg EXCEPT !.snapshot = TRUE]
    BY <1>4, <1>11 DEF WithFlag
  <2>2. now \in Configs(line) /\ Others
    BY <1>2, <1>3, <1>5, <2>1 DEF Configs
  <2> QED  BY <1>1, <1>4, <1>11, <2>2 DEF JournalModes
<1>12. CASE cfg.exit = "no" /\ flag.name = "--snapshot-block"
  <2>1. now = [cfg EXCEPT !.snapshotBlock = flag.value]
    BY <1>4, <1>12 DEF WithFlag
  <2>2. now \in Configs(line) /\ Others
    BY <1>2, <1>3, <1>5, <2>1 DEF Configs
  <2> QED  BY <1>1, <1>4, <1>12, <2>2 DEF JournalModes
<1>13. CASE cfg.exit = "no" /\ flag.name = "--state"
  <2>1. now = [cfg EXCEPT !.state = flag.value]
    BY <1>4, <1>13 DEF WithFlag
  <2>2. now \in Configs(line) /\ Others
    BY <1>2, <1>3, <1>5, <2>1 DEF Configs
  <2> QED  BY <1>1, <1>4, <1>13, <2>2 DEF JournalModes
<1>14. CASE cfg.exit = "no" /\ flag.name = "--partial"
  <2>1. now = [cfg EXCEPT !.partial = TRUE]
    BY <1>4, <1>14 DEF WithFlag
  <2>2. now \in Configs(line) /\ Others
    BY <1>2, <1>3, <1>5, <2>1 DEF Configs
  <2> QED  BY <1>1, <1>4, <1>14, <2>2 DEF JournalModes
<1>15. CASE cfg.exit = "no" /\ flag.name = "--save-interval"
  <2>1. now = [cfg EXCEPT !.interval = flag.value, !.explicit = TRUE]
    BY <1>4, <1>15 DEF WithFlag
  <2>2. /\ now \in Configs(line)
        /\ now.interval = flag.value /\ now.explicit /\ now.restore = cfg.restore
    BY <1>2, <1>3, <1>5, <2>1 DEF Configs
  <2> QED  BY <1>1, <1>4, <1>15, <2>2 DEF JournalModes
<1>16. CASE cfg.exit = "no" /\ flag.name \in JournalModes
  <2>1. now = [cfg EXCEPT !.restore = (flag.name = "--journal-restore")]
    BY <1>4, <1>16 DEF WithFlag, JournalModes
  <2>2. /\ now \in Configs(line) /\ now.interval = cfg.interval /\ now.explicit = cfg.explicit
        /\ now.restore <=> flag.name = "--journal-restore"
    BY <1>2, <1>5, <2>1 DEF Configs
  <2> QED  BY <1>1, <1>4, <1>16, <2>2 DEF JournalModes
<1>17. CASE /\ cfg.exit = "no"
            /\ flag.name \notin JournalModes \cup {"--feed-url", "--refresh-url", "--hard-refresh",
                  "--snapshot", "--snapshot-block", "--state", "--partial", "--save-interval"}
  <2>1. \/ now = [cfg EXCEPT !.prefetch = flag.value]
        \/ now = [cfg EXCEPT !.exit = "usage"]
        \/ now = [cfg EXCEPT !.exit = "help"]
    <3>1. CASE flag.name = "--prefetch"
      BY <1>4, <1>17, <3>1 DEF WithFlag, Exits
    <3>2. CASE flag.name = "--help"
      BY <1>4, <1>17, <3>2 DEF WithFlag, Exits
    <3>3. CASE flag.name \notin {"--prefetch", "--help"}
      <4>1. now = Exits(cfg, "usage")
        BY <1>4, <1>17, <3>3 DEF WithFlag, JournalModes
      <4> QED  BY <4>1 DEF Exits
    <3> QED  BY <3>1, <3>2, <3>3
  <2>2. now \in Configs(line) /\ Others
    BY <1>2, <1>3, <1>5, <2>1 DEF Configs
  <2> QED  BY <1>1, <1>4, <1>17, <2>2 DEF JournalModes
<1> QED
  BY <1>7, <1>8, <1>9, <1>10, <1>11, <1>12, <1>13, <1>14, <1>15, <1>16, <1>17 DEF JournalModes

(* The rounds of the fold: one per flag.                                   *)
Turns(line, n) == [i \in 1 .. n |-> [cfg \in Configs(line) |-> WithFlag(cfg, line[i])]]

(* The settings are what a loop over the flags arrives at.                 *)
LEMMA SettingsAreALoop ==
    ASSUME NEW line, NEW n \in Nat, DOMAIN line = 1 .. n
    PROVE  /\ Turns(line, n) \in Rounds(n, Configs(line))
           /\ \E p \in Passes(n, Configs(line), Defaults, Turns(line, n)) : Settings(line) = p[n]
<1>1. PICK V : V = Configs(line)
  OBVIOUS
<1>2. PICK g : g = Turns(line, n)
  OBVIOUS
<1>3. \A i \in 1 .. n : \A cfg \in V : g[i][cfg] = WithFlag(cfg, line[i])
  BY <1>1, <1>2 DEF Turns
<1>4. g \in Rounds(n, V)
  BY <1>1, <1>2, FlagSets DEF Turns, Rounds
<1>5. Defaults \in V
  BY <1>1 DEF Defaults, Configs, Values
<1>6. PICK p : p \in Passes(n, V, Defaults, g)
  BY <1>4, <1>5, RecursionUpToNat
<1>7. PICK h \in [SUBSET (1 .. n) -> V] : Unfolds(h, n, Defaults, g)
  BY <1>4, <1>5, FoldExists
<1>8. h = [t \in SUBSET DOMAIN line |->
             IF t = {} THEN Defaults ELSE WithFlag(h[t \ {Top(t)}], line[Top(t)])]
  <2>1. ASSUME NEW t \in SUBSET (1 .. n), t # {}
        PROVE  h[t] = WithFlag(h[t \ {Top(t)}], line[Top(t)])
    <3>1. Top(t) \in 1 .. n /\ t \ {Top(t)} \in SUBSET (1 .. n)
      BY <2>1, TopIs
    <3>2. h[t] = g[Top(t)][h[t \ {Top(t)}]]
      BY <1>7, <2>1 DEF Unfolds
    <3> QED  BY <1>3, <3>1, <3>2
  <2>2. h[{}] = Defaults
    BY <1>7 DEF Unfolds
  <2> QED  BY <2>1, <2>2
<1>9. PICK k : /\ k = [t \in SUBSET DOMAIN line |->
                      IF t = {} THEN Defaults ELSE WithFlag(k[t \ {Top(t)}], line[Top(t)])]
               /\ Settings(line) = k[DOMAIN line]
  BY <1>8, Zenon DEF Settings, FoldLeft, MapThenFoldSet, Top, Max
<1>10. k[1 .. 0] = Defaults
  <2>1. 1 .. 0 = {} /\ {} \in SUBSET DOMAIN line
    OBVIOUS
  <2> QED  BY <1>9, <2>1
<1>11. ASSUME NEW i \in 1 .. n, k[1 .. (i - 1)] \in V
       PROVE  k[1 .. i] = g[i][k[1 .. (i - 1)]]
  <2>1. /\ (1 .. i) \in SUBSET DOMAIN line /\ (1 .. i) # {} /\ Top(1 .. i) = i
        /\ (1 .. i) \ {i} = 1 .. (i - 1)
    BY TopOfFirst
  <2>2. k[1 .. i] = WithFlag(k[1 .. (i - 1)], line[i])
    BY <1>9, <2>1
  <2> QED  BY <1>3, <1>11, <2>2
<1>12. k[1 .. n] = p[n]
  BY <1>4, <1>5, <1>6, <1>10, <1>11, FoldIsTheLoop
<1> QED  BY <1>1, <1>2, <1>4, <1>6, <1>9, <1>12

(* The last of the named flags among the first k.                          *)
LastUpTo(line, names, k) ==
    {i \in 1 .. k : line[i].name \in names /\ \A j \in (i + 1) .. k : line[j].name \notin names}

(* A flag more is the last of its kind, and of no other.                   *)
LEMMA LastMoves ==
    ASSUME NEW line, NEW names, NEW k \in Nat \ {0}
    PROVE  /\ line[k].name \in names => LastUpTo(line, names, k) = {k}
           /\ line[k].name \notin names => LastUpTo(line, names, k) = LastUpTo(line, names, k - 1)
BY DEF LastUpTo

(* What the first k flags have settled.                                    *)
SetSoFar(line, cfg, k) ==
    LET given == LastUpTo(line, {"--save-interval"}, k)
        modes == LastUpTo(line, JournalModes, k)
    IN cfg.exit = "no" =>
       /\ cfg.explicit <=> given # {}
       /\ \A i \in given : cfg.interval = line[i].value
       /\ ~cfg.restore <=> \E i \in modes : line[i].name = "--no-journal-restore"

(* A flag more settles what it is about and nothing else.                  *)
LEMMA FlagSettles ==
    ASSUME NEW line, NEW n \in Nat, DOMAIN line = 1 .. n, NEW k \in 1 .. n,
           NEW cfg \in Configs(line), SetSoFar(line, cfg, k - 1)
    PROVE  SetSoFar(line, WithFlag(cfg, line[k]), k)
<1>1. PICK now : now = WithFlag(cfg, line[k])
  OBVIOUS
<1>2. SUFFICES ASSUME now.exit = "no" PROVE SetSoFar(line, now, k)
  BY <1>1 DEF SetSoFar
<1>3. cfg.exit = "no"
  BY <1>1, <1>2, FlagSets
<1>4. PICK given : given = LastUpTo(line, {"--save-interval"}, k - 1)
  OBVIOUS
<1>5. PICK modes : modes = LastUpTo(line, JournalModes, k - 1)
  OBVIOUS
<1>6. /\ cfg.explicit <=> given # {}
      /\ \A i \in given : cfg.interval = line[i].value
      /\ ~cfg.restore <=> \E i \in modes : line[i].name = "--no-journal-restore"
  BY <1>3, <1>4, <1>5 DEF SetSoFar
<1>0. k \in Nat \ {0}
  OBVIOUS
<1>7. CASE line[k].name = "--save-interval"
  <2>1. now.interval = line[k].value /\ now.explicit /\ now.restore = cfg.restore
    BY <1>1, <1>3, <1>7, FlagSets
  <2>2. /\ LastUpTo(line, {"--save-interval"}, k) = {k}
        /\ LastUpTo(line, JournalModes, k) = modes
    <3>1. line[k].name \in {"--save-interval"} /\ line[k].name \notin JournalModes
      BY <1>7 DEF JournalModes
    <3> QED  BY <1>0, <1>5, <3>1, LastMoves
  <2> QED  BY <1>6, <2>1, <2>2 DEF SetSoFar
<1>8. CASE line[k].name \in JournalModes
  <2>1. /\ now.interval = cfg.interval /\ now.explicit = cfg.explicit
        /\ now.restore <=> line[k].name = "--journal-restore"
    BY <1>1, <1>3, <1>8, FlagSets
  <2>2. /\ LastUpTo(line, {"--save-interval"}, k) = given
        /\ LastUpTo(line, JournalModes, k) = {k}
    <3>1. line[k].name \notin {"--save-interval"} /\ line[k].name \in JournalModes
      BY <1>8 DEF JournalModes
    <3>2. PICK S : S = {"--save-interval"}
      OBVIOUS
    <3>3. LastUpTo(line, S, k) = LastUpTo(line, S, k - 1)
      BY <1>0, <3>1, <3>2, LastMoves
    <3>4. LastUpTo(line, JournalModes, k) = {k}
      BY <1>0, <3>1, LastMoves
    <3> QED  BY <1>4, <3>2, <3>3, <3>4
  <2> QED  BY <1>6, <1>8, <2>1, <2>2 DEF SetSoFar, JournalModes
<1>9. CASE line[k].name \notin JournalModes \cup {"--save-interval"}
  <2>1. /\ now.interval = cfg.interval /\ now.explicit = cfg.explicit
        /\ now.restore = cfg.restore
    BY <1>1, <1>3, <1>9, FlagSets
  <2>2. /\ LastUpTo(line, {"--save-interval"}, k) = given
        /\ LastUpTo(line, JournalModes, k) = modes
    BY <1>4, <1>5, <1>9, LastMoves
  <2> QED  BY <1>6, <2>1, <2>2 DEF SetSoFar
<1> QED  BY <1>7, <1>8, <1>9

(* Whatever the flags and their order, the settings are those of the last  *)
(* flag of each kind.                                                      *)
LEMMA SettingsAreTheLast ==
    ASSUME NEW line, NEW n \in Nat, DOMAIN line = 1 .. n
    PROVE  SetSoFar(line, Settings(line), n) /\ Settings(line) \in Configs(line)
<1>1. PICK V : V = Configs(line)
  OBVIOUS
<1>2. PICK g : g = Turns(line, n)
  OBVIOUS
<1>3. g \in Rounds(n, V) /\ \A i \in 1 .. n : \A cfg \in V : g[i][cfg] = WithFlag(cfg, line[i])
  BY <1>1, <1>2, SettingsAreALoop DEF Turns
<1>4. PICK p \in Passes(n, V, Defaults, g) : Settings(line) = p[n]
  BY <1>1, <1>2, SettingsAreALoop
<1>5. p \in [0 .. n -> V] /\ p[0] = Defaults /\ \A i \in 1 .. n : p[i] = g[i][p[i - 1]]
  BY <1>4 DEF Passes
<1>6. PICK W : W = [i \in 0 .. n |-> {cfg \in V : SetSoFar(line, cfg, i)}]
  OBVIOUS
<1>7. \A i \in 0 .. n : \A cfg : cfg \in W[i] <=> cfg \in V /\ SetSoFar(line, cfg, i)
  BY <1>6
<1>8. p[0] \in W[0]
  <2>1. LastUpTo(line, {"--save-interval"}, 0) = {} /\ LastUpTo(line, JournalModes, 0) = {}
    BY DEF LastUpTo
  <2>2. SetSoFar(line, Defaults, 0)
    BY <2>1 DEF SetSoFar, Defaults
  <2> QED  BY <1>5, <1>7, <2>2
<1>9. ASSUME NEW i \in 1 .. n, p[i - 1] \in W[i - 1]
      PROVE  p[i] \in W[i]
  <2>1. i - 1 \in 0 .. n /\ i \in 0 .. n
    OBVIOUS
  <2>2. p[i - 1] \in V /\ SetSoFar(line, p[i - 1], i - 1) /\ p[i] \in V
    BY <1>5, <1>7, <1>9, <2>1
  <2>3. p[i] = WithFlag(p[i - 1], line[i])
    BY <1>3, <1>5, <2>2
  <2>4. SetSoFar(line, p[i], i)
    BY <1>1, <2>2, <2>3, FlagSettles
  <2> QED  BY <1>7, <2>1, <2>2, <2>4
<1>10. \A i \in 0 .. n : p[i] \in W[i]
  BY <1>8, <1>9, UpToNat
<1>11. n \in 0 .. n
  OBVIOUS
<1> QED  BY <1>1, <1>4, <1>7, <1>10, <1>11

(* The interval a process that has started saves at.                       *)
LEMMA IntervalIsTheLast ==
    ASSUME NEW line \in CommandLines, Parsed(line).exit = "no"
    PROVE  /\ \A i \in LastOf(line, {"--save-interval"}) : Parsed(line).interval = line[i].value
           /\ LastOf(line, {"--save-interval"}) = {} =>
                 Parsed(line).interval =
                    IF \E i \in LastOf(line, JournalModes) : line[i].name = "--no-journal-restore"
                    THEN 1800 ELSE 21600
<1>1. PICK n : n = Len(line)
  OBVIOUS
<1>2. n \in Nat /\ DOMAIN line = 1 .. n
  <2>1. PICK S : line \in Seq(S)
    BY StartupAssumption
  <2> QED  BY <1>1, <2>1
<1>3. PICK cfg : cfg = Settings(line)
  OBVIOUS
<1>4. Parsed(line) = IF cfg.explicit THEN cfg
                     ELSE [cfg EXCEPT !.interval = IF cfg.restore THEN 21600 ELSE 1800]
  BY <1>3 DEF Parsed, Settings
<1>5. cfg \in Configs(line) /\ SetSoFar(line, cfg, n)
  BY <1>2, <1>3, SettingsAreTheLast
<1>6. \A names : LastOf(line, names) = LastUpTo(line, names, n)
  BY <1>1, <1>2 DEF LastOf, LastUpTo
<1>7. CASE cfg.explicit
  <2>1. Parsed(line) = cfg
    BY <1>4, <1>7
  <2> QED  BY <1>5, <1>6, <1>7, <2>1 DEF SetSoFar
<1>8. CASE ~cfg.explicit
  <2>1. /\ Parsed(line).exit = cfg.exit
        /\ Parsed(line).interval = IF cfg.restore THEN 21600 ELSE 1800
    BY <1>4, <1>5, <1>8 DEF Configs
  <2> QED  BY <1>5, <1>6, <1>8, <2>1 DEF SetSoFar
<1> QED  BY <1>7, <1>8

Serving == {"node", "pir", "up"}

(* A file as it was saved: one that this binary can read tells truly where *)
(* its table comes from.                                                   *)
SavedRight(c) ==
    c.magic = "RPST3" /\ c.geometry =>
        c.table.current /\ (c.flag = 1 <=> c.table.from = "snapshot")

(* A number is that of a save of this deployment or of none, and the       *)
(* journal of a file goes on from it.                                      *)
FileRight ==
    disk.file.present =>
        /\ disk.file = [present |-> TRUE, number |-> disk.file.number, saved |-> disk.file.saved,
                        found |-> disk.file.found]
        /\ disk.file.number \in 1 .. started.saves \/ disk.file.number \notin Nat
        /\ SavedRight(disk.file.saved)
        /\ JournalUsable => disk.journal.from = disk.file.saved.block

DiskRight ==
    /\ started = [starts |-> started.starts, saves |-> started.saves] /\ started.saves \in Nat
    /\ disk = [file |-> disk.file, journal |-> disk.journal]
    /\ disk.journal = [of |-> disk.journal.of, from |-> disk.journal.from, to |-> disk.journal.to]
    /\ disk.journal.of \in 0 .. started.saves
    /\ FileRight

(* What a process that serves says of its table, and what its journal has. *)
TableRight(p) == (p.complete <=> p.table.from = "snapshot") /\ p.table.current

JournalRight(p) ==
    p.journals => /\ disk.file.present /\ JournalUsable
                  /\ disk.journal.from = disk.file.saved.block
                  /\ disk.journal.to = p.block

(* What a process has passed, phase by phase.                              *)
ProcessRight ==
    /\ process = [phase |-> process.phase, table |-> process.table, complete |-> process.complete,
                  block |-> process.block, journals |-> process.journals]
    /\ process.phase \notin {"down", "exit"} => args \in CommandLines /\ config.exit = "no"
    /\ process.phase \in {"urls", "table"} \cup Serving => config.state \notin RESERVED
    /\ process.phase \in Serving => TableRight(process) /\ JournalRight(process)

(* The inductive invariant.                                                *)
StartInv == DiskRight /\ ProcessRight

(* Nothing has been saved at first, and a foreign file has no journal      *)
(* here.                                                                   *)
LEMMA StartupInitRight == StartupInit => StartInv
<1> SUFFICES ASSUME StartupInit PROVE StartInv
  OBVIOUS
<1>1. /\ process = NoProcess /\ started = [starts |-> 0, saves |-> 0]
      /\ disk \in [file : {NoFile} \cup ForeignFiles, journal : {NoJournal}]
  BY DEF StartupInit
<1>2. disk = [file |-> disk.file, journal |-> disk.journal] /\ disk.journal = NoJournal
      /\ disk.file \in {NoFile} \cup ForeignFiles
  BY <1>1
<1>3. FileRight
  <2>1. CASE disk.file = NoFile
    BY <2>1 DEF FileRight, NoFile
  <2>2. CASE disk.file \in ForeignFiles
    <3>1. PICK f : f = disk.file
      OBVIOUS
    <3>2. /\ f = [present |-> TRUE, number |-> f.number, saved |-> f.saved, found |-> f.saved]
          /\ f.number \notin Nat /\ SavedRight(f.saved)
      BY <2>2, <3>1, ForeignAssumption DEF SavedRight
    <3>3. ~JournalUsable
      BY <1>2, <3>1, <3>2 DEF JournalUsable, NoJournal
    <3>4. f.found = f.saved
      BY <3>2
    <3> QED  BY <3>1, <3>2, <3>3, <3>4 DEF FileRight
  <2> QED  BY <1>2, <2>1, <2>2
<1>4. DiskRight
  BY <1>1, <1>2, <1>3 DEF DiskRight, NoJournal
<1>5. ProcessRight
  BY <1>1 DEF ProcessRight, NoProcess, Serving
<1> QED  BY <1>4, <1>5 DEF StartInv

(* A step that leaves the disk and the saves alone.                        *)
LEMMA DiskStays ==
    ASSUME DiskRight, UNCHANGED <<disk, started>>
    PROVE  DiskRight'
BY DEF DiskRight, FileRight, JournalUsable

(* A phase more, with the same table.                                      *)
LEMMA PhaseMoves ==
    ASSUME StartInv, NEW from, NEW to, Phase(from, to), UNCHANGED <<args, disk, started>>,
           from \notin {"down", "exit"}, from \in Serving \/ to \notin Serving,
           to = "lock" \/ from \in {"urls", "table"} \cup Serving \/ config.state \notin RESERVED
    PROVE  StartInv'
<1>1. /\ process.phase = from /\ process' = [process EXCEPT !.phase = to]
      /\ config' = config
  BY DEF Phase, config
<1>2. /\ process'.phase = to /\ process'.table = process.table
      /\ process'.complete = process.complete /\ process'.block = process.block
      /\ process'.journals = process.journals
      /\ process' = [phase |-> process'.phase, table |-> process'.table,
                     complete |-> process'.complete, block |-> process'.block,
                     journals |-> process'.journals]
  BY <1>1 DEF StartInv, ProcessRight
<1>3. DiskRight'
  BY DiskStays DEF StartInv
<1>4. to \in Serving => TableRight(process)' /\ JournalRight(process)'
  <2>1. SUFFICES ASSUME to \in Serving PROVE TableRight(process)' /\ JournalRight(process)'
    OBVIOUS
  <2>2. TableRight(process) /\ JournalRight(process)
    BY <1>1, <2>1 DEF StartInv, ProcessRight
  <2> QED  BY <1>2, <2>2 DEF TableRight, JournalRight, JournalUsable
<1>5. /\ args' \in CommandLines /\ config'.exit = "no"
      /\ to = "lock" \/ config'.state \notin RESERVED
  BY <1>1 DEF StartInv, ProcessRight
<1> QED  BY <1>2, <1>3, <1>4, <1>5 DEF StartInv, ProcessRight, Serving

(* A process that is gone has nothing left to say.                         *)
LEMMA GoneIsRight ==
    ASSUME StartInv, process' = NoProcess, UNCHANGED <<disk, started>>
    PROVE  StartInv'
<1>1. DiskRight'
  BY DiskStays DEF StartInv
<1> QED  BY <1>1 DEF StartInv, ProcessRight, NoProcess, Serving

(* A table is there, with the block and the journal that go with it.       *)
LEMMA TableComes ==
    ASSUME StartInv, process.phase = "table", UNCHANGED <<args, disk, started>>,
           NEW p, process' = p,
           p = [phase |-> "node", table |-> p.table, complete |-> p.complete, block |-> p.block,
                journals |-> p.journals],
           TableRight(p), JournalRight(p)
    PROVE  StartInv'
<1>1. config' = config
  BY DEF config
<1>2. DiskRight'
  BY DiskStays DEF StartInv
<1>3. TableRight(process)' /\ JournalRight(process)'
  BY DEF TableRight, JournalRight, JournalUsable
<1>4. args' \in CommandLines /\ config'.exit = "no" /\ config'.state \notin RESERVED
  BY <1>1 DEF StartInv, ProcessRight
<1>5. process'.phase = "node"
  OBVIOUS
<1> QED  BY <1>2, <1>3, <1>4, <1>5 DEF StartInv, ProcessRight

(* A save puts the table there as it is, beside a fresh journal or none    *)
(* that goes with it.                                                      *)
LEMMA SaveIsRight ==
    ASSUME StartInv, process.phase \in {"table"} \cup Serving, UNCHANGED args,
           NEW p, NEW rotated \in BOOLEAN, Saved(p, rotated), TableRight(p),
           p = [phase |-> p.phase, table |-> p.table, complete |-> p.complete,
                block |-> p.block, journals |-> p.journals]
    PROVE  StartInv'
<1>1. PICK number : number = started.saves + 1
  OBVIOUS
<1>2. /\ started' = [started EXCEPT !.saves = @ + 1]
      /\ disk' = [file |-> Written(p.complete, p.table, p.block, number),
                  journal |-> IF rotated THEN [of |-> number, from |-> p.block, to |-> p.block]
                              ELSE disk.journal]
      /\ process' = [p EXCEPT !.journals = rotated]
  BY <1>1 DEF Saved
<1>3. /\ started' = [starts |-> started'.starts, saves |-> started'.saves]
      /\ started'.saves = number /\ number \in Nat /\ number \in 1 .. number
      /\ number = started.saves + 1 /\ started.saves \in Nat
      /\ disk.journal.of \in 0 .. started.saves
      /\ disk.journal = [of |-> disk.journal.of, from |-> disk.journal.from, to |-> disk.journal.to]
  BY <1>1, <1>2 DEF StartInv, DiskRight
<1>4. /\ disk'.file = [present |-> TRUE, number |-> number, saved |-> disk'.file.saved,
                       found |-> disk'.file.found]
      /\ disk'.file.present /\ disk'.file.number = number
      /\ disk'.file.saved = Contents(p.complete, p.table, p.block)
      /\ disk' = [file |-> disk'.file, journal |-> disk'.journal]
      /\ disk'.journal = IF rotated THEN [of |-> number, from |-> p.block, to |-> p.block]
                         ELSE disk.journal
  BY <1>2 DEF Written
<1>5. SavedRight(disk'.file.saved)
  <2>1. PICK c : c = Contents(p.complete, p.table, p.block)
    OBVIOUS
  <2>2. c.table = p.table /\ c.flag = IF p.complete THEN 1 ELSE 0
    BY <2>1 DEF Contents
  <2>3. c.flag = 1 <=> p.complete
    BY <2>2
  <2> QED  BY <1>4, <2>1, <2>2, <2>3 DEF SavedRight, TableRight
<1>6. disk'.file.saved.block = p.block
  BY <1>4 DEF Contents
<1>7. /\ JournalUsable' <=> rotated
      /\ rotated => disk'.journal.from = p.block /\ disk'.journal.to = p.block
      /\ disk'.journal.of \in 0 .. number
      /\ disk'.journal = [of |-> disk'.journal.of, from |-> disk'.journal.from,
                          to |-> disk'.journal.to]
  <2>1. CASE rotated
    BY <1>3, <1>4, <2>1 DEF JournalUsable
  <2>2. CASE ~rotated
    <3>1. disk'.journal = disk.journal
      BY <1>4, <2>2
    <3>2. disk.journal.of # number /\ disk.journal.of \in 0 .. number
      BY <1>3
    <3>3. ~JournalUsable'
      BY <1>4, <3>1, <3>2 DEF JournalUsable
    <3> QED  BY <1>3, <2>2, <3>1, <3>2, <3>3
  <2> QED  BY <2>1, <2>2
<1>8. DiskRight'
  BY <1>3, <1>4, <1>5, <1>6, <1>7 DEF DiskRight, FileRight
<1>9. /\ process'.phase = p.phase /\ process'.table = p.table /\ process'.complete = p.complete
      /\ process'.block = p.block /\ process'.journals = rotated
      /\ process' = [phase |-> process'.phase, table |-> process'.table,
                     complete |-> process'.complete, block |-> process'.block,
                     journals |-> process'.journals]
  BY <1>2
<1>10. TableRight(process)' /\ JournalRight(process)'
  BY <1>4, <1>6, <1>7, <1>9 DEF TableRight, JournalRight
<1>11. args' \in CommandLines /\ config'.exit = "no" /\ config'.state \notin RESERVED
  <2>1. config' = config
    BY DEF config
  <2> QED  BY <2>1 DEF StartInv, ProcessRight, Serving
<1> QED  BY <1>8, <1>9, <1>10, <1>11 DEF StartInv, ProcessRight

(* A process starts on the line it was given, or not at all.               *)
LEMMA LaunchIsRight ==
    ASSUME StartInv, Launch
    PROVE  StartInv'
<1>1. PICK to : to = IF Parsed(args').exit = "no" THEN "feed" ELSE "down"
  OBVIOUS
<1>2. /\ args' \in CommandLines /\ process' = [process EXCEPT !.phase = to]
      /\ started' = [started EXCEPT !.starts = @ + 1] /\ disk' = disk
  BY <1>1 DEF Launch
<1>3. /\ started'.saves = started.saves
      /\ started' = [starts |-> started'.starts, saves |-> started'.saves]
  BY <1>2 DEF StartInv, DiskRight
<1>4. DiskRight'
  BY <1>2, <1>3 DEF StartInv, DiskRight, FileRight, JournalUsable
<1>5. /\ process'.phase = to
      /\ process' = [phase |-> process'.phase, table |-> process'.table,
                     complete |-> process'.complete, block |-> process'.block,
                     journals |-> process'.journals]
  BY <1>2 DEF StartInv, ProcessRight
<1>6. to = "down" \/ (to = "feed" /\ Parsed(args').exit = "no")
  BY <1>1
<1> QED  BY <1>2, <1>4, <1>5, <1>6 DEF StartInv, ProcessRight, Serving, config

(* What is read back is what was saved, so the table is as the file said.  *)
LEMMA LoadedIsRight ==
    ASSUME StartInv, disk.file.present, Readable(disk.file), NEW block, NEW journals \in BOOLEAN,
           journals => JournalUsable /\ disk.journal.to = block
    PROVE  LET p == Loaded(block, journals) IN
           /\ TableRight(p) /\ JournalRight(p)
           /\ p = [phase |-> "node", table |-> p.table, complete |-> p.complete,
                   block |-> p.block, journals |-> p.journals]
<1>1. PICK c : c = disk.file.found
  OBVIOUS
<1>2. c = disk.file.saved /\ c.magic = "RPST3" /\ c.geometry
  BY <1>1 DEF Readable
<1>3. c.table.current /\ (c.flag = 1 <=> c.table.from = "snapshot")
  BY <1>2 DEF StartInv, DiskRight, FileRight, SavedRight
<1>4. PICK p : p = Loaded(block, journals)
  OBVIOUS
<1>5. /\ p.table = c.table /\ (p.complete <=> c.flag = 1) /\ p.block = block
      /\ p.journals = journals
      /\ p = [phase |-> "node", table |-> p.table, complete |-> p.complete,
              block |-> p.block, journals |-> p.journals]
  BY <1>1, <1>4 DEF Loaded
<1>6. JournalUsable => disk.journal.from = disk.file.saved.block
  BY DEF StartInv, DiskRight, FileRight
<1> QED  BY <1>3, <1>4, <1>5, <1>6 DEF TableRight, JournalRight

(* A start that replays goes on where the journal ends.                    *)
LEMMA LoadWithJournalIsRight ==
    ASSUME StartInv, LoadWithJournal
    PROVE  StartInv'
<1>1. /\ process.phase = "table" /\ disk.file.present /\ Readable(disk.file)
      /\ UNCHANGED <<args, disk, started>>
  BY DEF LoadWithJournal, FileThere
<1>2. PICK adopted \in BOOLEAN :
         process' = IF JournalUsable THEN Loaded(disk.journal.to, adopted)
                    ELSE Loaded(disk.file.found.block, FALSE)
  BY Zenon DEF LoadWithJournal
<1>3. \E block : \E journals \in BOOLEAN :
         /\ process' = Loaded(block, journals)
         /\ journals => JournalUsable /\ disk.journal.to = block
  BY <1>2
<1>4. PICK block : \E journals \in BOOLEAN :
         /\ process' = Loaded(block, journals)
         /\ journals => JournalUsable /\ disk.journal.to = block
  BY <1>3
<1>5. PICK journals \in BOOLEAN :
         /\ process' = Loaded(block, journals)
         /\ journals => JournalUsable /\ disk.journal.to = block
  BY <1>4
<1>6. PICK p : p = Loaded(block, journals)
  OBVIOUS
<1>7. /\ TableRight(p) /\ JournalRight(p)
      /\ p = [phase |-> "node", table |-> p.table, complete |-> p.complete,
              block |-> p.block, journals |-> p.journals]
  BY <1>1, <1>5, <1>6, LoadedIsRight
<1> QED  BY <1>1, <1>5, <1>6, <1>7, TableComes

(* A start that does not replay appends only to a journal that adds        *)
(* nothing.                                                                *)
LEMMA LoadBaseIsRight ==
    ASSUME StartInv, LoadBase
    PROVE  StartInv'
<1>1. /\ process.phase = "table" /\ disk.file.present /\ Readable(disk.file)
      /\ UNCHANGED <<args, disk, started>>
  BY DEF LoadBase, FileThere
<1>2. PICK block : block = disk.file.found.block
  OBVIOUS
<1>3. PICK adopted \in BOOLEAN :
         process' = Loaded(block, adopted /\ JournalUsable /\ disk.journal.to = block)
  BY <1>2, Zenon DEF LoadBase
<1>4. PICK journals \in BOOLEAN : journals = (adopted /\ JournalUsable /\ disk.journal.to = block)
  OBVIOUS
<1>5. process' = Loaded(block, journals) /\ (journals => JournalUsable /\ disk.journal.to = block)
  BY <1>3, <1>4
<1>6. PICK p : p = Loaded(block, journals)
  OBVIOUS
<1>7. /\ TableRight(p) /\ JournalRight(p)
      /\ p = [phase |-> "node", table |-> p.table, complete |-> p.complete,
              block |-> p.block, journals |-> p.journals]
  BY <1>1, <1>5, <1>6, LoadedIsRight
<1> QED  BY <1>1, <1>5, <1>6, <1>7, TableComes

(* The table of a snapshot is complete.                                    *)
LEMMA IngestIsRight ==
    ASSUME StartInv, IngestSnapshot
    PROVE  StartInv'
<1>1. PICK p : p = [phase |-> "node", table |-> Table("snapshot"), complete |-> TRUE,
                    block |-> config.snapshotBlock, journals |-> FALSE]
  OBVIOUS
<1>2. /\ process.phase = "table" /\ UNCHANGED args
      /\ \/ \E rotated \in BOOLEAN : Saved(p, rotated)
         \/ process' = p /\ UNCHANGED <<disk, started>>
  BY <1>1, Zenon DEF IngestSnapshot
<1>3. /\ TableRight(p) /\ JournalRight(p)
      /\ p = [phase |-> "node", table |-> p.table, complete |-> p.complete,
              block |-> p.block, journals |-> p.journals] /\ p.phase = "node"
  BY <1>1 DEF TableRight, JournalRight, Table
<1>4. CASE \E rotated \in BOOLEAN : Saved(p, rotated)
  <2>1. PICK rotated \in BOOLEAN : Saved(p, rotated)
    BY <1>4
  <2>2. process.phase \in {"table"} \cup Serving
    BY <1>2
  <2>3. p = [phase |-> p.phase, table |-> p.table, complete |-> p.complete,
             block |-> p.block, journals |-> p.journals]
    BY <1>3
  <2> QED  BY <1>2, <1>3, <2>1, <2>2, <2>3, SaveIsRight
<1>5. CASE process' = p /\ UNCHANGED <<disk, started>>
  BY <1>2, <1>3, <1>5, TableComes
<1> QED  BY <1>2, <1>4, <1>5

(* An empty table is not.                                                  *)
LEMMA StartEmptyIsRight ==
    ASSUME StartInv, StartEmpty
    PROVE  StartInv'
<1>1. PICK p : p = [phase |-> "node", table |-> Table("empty"), complete |-> FALSE,
                    block |-> latest, journals |-> FALSE]
  OBVIOUS
<1>2. process.phase = "table" /\ UNCHANGED <<args, disk, started>> /\ process' = p
  BY <1>1 DEF StartEmpty
<1>3. /\ TableRight(p) /\ JournalRight(p)
      /\ p = [phase |-> "node", table |-> p.table, complete |-> p.complete,
              block |-> p.block, journals |-> p.journals]
  BY <1>1 DEF TableRight, JournalRight, Table
<1> QED  BY <1>2, <1>3, TableComes

(* The journal gains the block that the table gains.                       *)
LEMMA FollowIsRight ==
    ASSUME StartInv, FollowBlock
    PROVE  StartInv'
<1>1. PICK next : next = process.block + 1
  OBVIOUS
<1>2. /\ process' = [process EXCEPT !.block = next] /\ UNCHANGED <<args, started>>
      /\ process.phase \in Serving
      /\ disk' = IF process.journals THEN [disk EXCEPT !.journal.to = @ + 1] ELSE disk
  BY <1>1 DEF FollowBlock, Follows, Serving
<1>3. /\ process'.block = next /\ process'.phase = process.phase
      /\ process'.table = process.table /\ process'.complete = process.complete
      /\ process'.journals = process.journals
      /\ process' = [phase |-> process'.phase, table |-> process'.table,
                     complete |-> process'.complete, block |-> process'.block,
                     journals |-> process'.journals]
      /\ TableRight(process) /\ JournalRight(process)
  BY <1>2 DEF StartInv, ProcessRight
<1>4. /\ disk'.file = disk.file /\ disk' = [file |-> disk'.file, journal |-> disk'.journal]
      /\ disk'.journal = [of |-> disk'.journal.of, from |-> disk'.journal.from,
                          to |-> disk'.journal.to]
      /\ disk'.journal.of = disk.journal.of /\ disk'.journal.from = disk.journal.from
      /\ process.journals => disk'.journal.to = disk.journal.to + 1
  BY <1>2 DEF StartInv, DiskRight
<1>5. JournalUsable' <=> JournalUsable
  BY <1>4 DEF JournalUsable
<1>6. DiskRight'
  BY <1>2, <1>4, <1>5 DEF StartInv, DiskRight, FileRight
<1>7. TableRight(process)' /\ JournalRight(process)'
  BY <1>1, <1>3, <1>4, <1>5 DEF TableRight, JournalRight
<1>8. config' = config
  BY <1>2 DEF config
<1> QED  BY <1>2, <1>3, <1>6, <1>7, <1>8 DEF StartInv, ProcessRight

(* A save while it serves.                                                 *)
LEMMA AutosaveIsRight ==
    ASSUME StartInv, AutosaveDue
    PROVE  StartInv'
<1>1. PICK rotated \in BOOLEAN : Saved(process, rotated)
  BY DEF AutosaveDue
<1>2. process.phase \in Serving /\ UNCHANGED args
  BY DEF AutosaveDue, Follows, Serving
<1>3. /\ TableRight(process)
      /\ process = [phase |-> process.phase, table |-> process.table,
                    complete |-> process.complete, block |-> process.block,
                    journals |-> process.journals]
  BY <1>2 DEF StartInv, ProcessRight
<1>4. process.phase \in {"table"} \cup Serving
  BY <1>2
<1> QED  BY <1>1, <1>2, <1>3, <1>4, SaveIsRight

(* The last save, or its failure.                                          *)
LEMMA SignalIsRight ==
    ASSUME StartInv, SignalSaves
    PROVE  StartInv'
<1>1. PICK p : p = [process EXCEPT !.phase = "exit"]
  OBVIOUS
<1>2. /\ process.phase \in Serving /\ UNCHANGED args
      /\ \/ \E rotated \in BOOLEAN : Saved(p, rotated)
         \/ process' = p /\ UNCHANGED <<disk, started>>
  BY <1>1, Zenon DEF SignalSaves, Serving
<1>3. /\ p.phase = "exit" /\ p.table = process.table /\ p.complete = process.complete
      /\ p = [phase |-> p.phase, table |-> p.table, complete |-> p.complete,
              block |-> p.block, journals |-> p.journals]
      /\ TableRight(process)
  BY <1>1, <1>2 DEF StartInv, ProcessRight
<1>4. TableRight(p)
  BY <1>3 DEF TableRight
<1>5. CASE \E rotated \in BOOLEAN : Saved(p, rotated)
  <2>1. PICK rotated \in BOOLEAN : Saved(p, rotated)
    BY <1>5
  <2>2. process.phase \in {"table"} \cup Serving
    BY <1>2
  <2> QED  BY <1>2, <1>3, <1>4, <2>1, <2>2, SaveIsRight
<1>6. CASE process' = p /\ UNCHANGED <<disk, started>>
  <2>1. DiskRight'
    BY <1>6, DiskStays DEF StartInv
  <2> QED  BY <1>3, <1>6, <2>1 DEF StartInv, ProcessRight, Serving
<1> QED  BY <1>2, <1>5, <1>6

(* What is spoilt is what is found; what was saved is remembered.          *)
LEMMA SpoiltIsRight ==
    ASSUME StartInv, FileSpoilt
    PROVE  StartInv'
<1>1. PICK f : disk' = [disk EXCEPT !.file.found = f]
  BY DEF FileSpoilt
<1>2. process.phase = "down" /\ disk.file.present /\ UNCHANGED <<args, process, started>>
  BY DEF FileSpoilt
<1>3. /\ disk'.file = [disk.file EXCEPT !.found = f] /\ disk'.journal = disk.journal
      /\ disk' = [file |-> disk'.file, journal |-> disk'.journal]
  BY <1>1 DEF StartInv, DiskRight
<1>4. /\ disk'.file.number = disk.file.number /\ disk'.file.saved = disk.file.saved
      /\ disk'.file = [present |-> TRUE, number |-> disk'.file.number,
                       saved |-> disk'.file.saved, found |-> disk'.file.found]
  BY <1>2, <1>3 DEF StartInv, DiskRight, FileRight
<1>5. DiskRight'
  BY <1>2, <1>3, <1>4 DEF StartInv, DiskRight, FileRight, JournalUsable
<1> QED  BY <1>2, <1>5 DEF StartInv, ProcessRight, Serving

(* The journal of a file that is moved aside goes with no later one.       *)
LEMMA MovedIsRight ==
    ASSUME StartInv, FileMovedAside
    PROVE  StartInv'
<1>1. disk' = [disk EXCEPT !.file = NoFile] /\ process.phase = "down"
      /\ UNCHANGED <<args, process, started>>
  BY DEF FileMovedAside
<1>2. /\ disk'.file = NoFile /\ disk'.journal = disk.journal
      /\ disk' = [file |-> disk'.file, journal |-> disk'.journal]
  BY <1>1 DEF StartInv, DiskRight
<1>3. ~disk'.file.present
  BY <1>2 DEF NoFile
<1>4. DiskRight'
  BY <1>1, <1>2, <1>3 DEF StartInv, DiskRight, FileRight
<1> QED  BY <1>1, <1>4 DEF StartInv, ProcessRight, Serving

(* No step takes the start out of the invariant.                           *)
LEMMA StartupNextRight == StartInv /\ [StartupNext]_startupVars => StartInv'
<1> SUFFICES ASSUME StartInv, [StartupNext]_startupVars PROVE StartInv'
  OBVIOUS
<1>1. CASE UNCHANGED <<args, process, disk, started>>
  <2>1. DiskRight' /\ config' = config
    BY <1>1, DiskStays DEF StartInv, config
  <2> QED  BY <1>1, <2>1 DEF StartInv, ProcessRight, TableRight, JournalRight, JournalUsable
<1>2. CASE \/ RefusedStart \/ LoadFails \/ Exited \/ ProcessEnds
  <2>1. process' = NoProcess /\ UNCHANGED <<disk, started>>
    BY <1>2 DEF RefusedStart, LoadFails, Exited, ProcessEnds, Ends
  <2> QED  BY <2>1, GoneIsRight
<1>3. CASE FeedVerified
  <2>1. Phase("feed", "lock") /\ UNCHANGED <<args, disk, started>>
    BY <1>3 DEF FeedVerified
  <2> QED  BY <2>1, PhaseMoves DEF Serving
<1>4. CASE StatePathAcquired
  <2>1. Phase("lock", "urls") /\ UNCHANGED <<args, disk, started>> /\ config.state \notin RESERVED
    BY <1>4 DEF StatePathAcquired
  <2> QED  BY <2>1, PhaseMoves DEF Serving
<1>5. CASE RefreshUrlsValid
  <2>1. Phase("urls", "table") /\ UNCHANGED <<args, disk, started>>
    BY <1>5 DEF RefreshUrlsValid
  <2> QED  BY <2>1, PhaseMoves DEF Serving
<1>6. CASE ServePir
  <2>1. Phase("node", "pir") /\ UNCHANGED <<args, disk, started>>
    BY <1>6 DEF ServePir
  <2> QED  BY <2>1, PhaseMoves DEF Serving
<1>7. CASE ServeRpc
  <2>1. Phase("pir", "up") /\ UNCHANGED <<args, disk, started>>
    BY <1>7 DEF ServeRpc
  <2> QED  BY <2>1, PhaseMoves DEF Serving
<1>8. CASE LatestRises
  BY <1>1, <1>8 DEF LatestRises
<1> QED
  BY <1>1, <1>2, <1>3, <1>4, <1>5, <1>6, <1>7, <1>8, LaunchIsRight, LoadWithJournalIsRight,
     LoadBaseIsRight, IngestIsRight, StartEmptyIsRight, FollowIsRight, AutosaveIsRight,
     SignalIsRight, SpoiltIsRight, MovedIsRight DEF StartupNext, startupVars

(* A deployment that serves is complete exactly if its balances came from  *)
(* a snapshot once, reads its cells as they were laid out, journals        *)
(* without a hole behind the file on disk, and saves at the interval its   *)
(* command line asked for, whatever the flags' order, the saves, the       *)
(* crashes, the spoilt files and the restarts (crates/risepir-             *)
(* rpc/src/mainnet.rs).                                                    *)
THEOREM DeploymentsAreAlwaysAsSaid == StartupSpec => []DeploymentIsAsSaid
<1>1. StartupInit => StartInv
  BY StartupInitRight
<1>2. StartInv /\ [StartupNext]_startupVars => StartInv'
  BY StartupNextRight
<1>3. StartInv => DeploymentIsAsSaid
  <2> SUFFICES ASSUME StartInv, process.phase \in Serving PROVE DeploymentIsAsSaid
    BY DEF DeploymentIsAsSaid, Serving
  <2>1. args \in CommandLines /\ Parsed(args).exit = "no" /\ config.state \notin RESERVED
    BY DEF StartInv, ProcessRight, Serving, config
  <2>2. TableRight(process) /\ JournalRight(process)
    BY DEF StartInv, ProcessRight
  <2> QED  BY <2>1, <2>2, IntervalIsTheLast DEF TableRight, JournalRight, DeploymentIsAsSaid, config
<1> QED  BY <1>1, <1>2, <1>3, PTL DEF StartupSpec
===============================================================================
