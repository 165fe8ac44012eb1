------------------------------ MODULE BlockFeed ------------------------------
(***************************************************************************)
(* The feed of finalized blocks and the window of fetches in front of the  *)
(* follow loop.  RpcFeed asks its endpoints one after the other and uses   *)
(* none before it has reported the right chain id; BlockPrefetch keeps     *)
(* fetches of the next blocks in flight, which end in any order, fail or   *)
(* panic; the loop awaits the block it needs and retries it until it comes.*)
(***************************************************************************)
EXTENDS Integers, FiniteSets

CONSTANTS NumEndpoints, \* --feed-url, in order
          OnChain,      \* the endpoints that are on the expected chain
          Depth,        \* --prefetch
          MaxFaults,    \* bound on calls that fail though the endpoint could answer
          MaxBlock      \* bound on the chain's length

Endpoints == 1 .. NumEndpoints
Blocks    == 1 .. MaxBlock

ASSUME FeedAssumption ==
    /\ NumEndpoints \in Nat \ {0} /\ {Depth, MaxFaults, MaxBlock} \subseteq Nat
    /\ 1 \in OnChain /\ OnChain \subseteq Endpoints

VARIABLES
    tip,      \* the finalized block each endpoint has
    verified, \* endpoints whose chain id was found right
    head,     \* the finalized block the loop follows up to
    last,     \* the block applied last
    inflight, \* each block being fetched: the endpoint tried, and how it stands
    awaited,  \* the block the loop awaits, 0 for none
    source,   \* the fetch each applied block was taken from
    faults,   \* calls that failed or panicked though they need not have
    following \* FALSE once the loop has returned

feedVars == <<tip, verified, head, last, inflight, awaited, source, faults, following>>

Fetch      == [block : Blocks, at : Endpoints, state : {"running", "done", "failed", "panicked"}]
NoFetch    == [b \in {} |-> Fetch]
Started(b) == [block |-> b, at |-> 1, state |-> "running"]

(* An endpoint that could not be reached at the start is kept, unverified; *)
(* the first one must verify, and a wrong chain id anywhere is fatal.      *)
FeedInit ==
    /\ tip \in [Endpoints -> {0}]
    /\ verified \in {v \in SUBSET OnChain : 1 \in v}
    /\ head = 0 /\ last = 0
    /\ inflight = NoFetch /\ awaited = 0
    /\ source = [b \in {} |-> Fetch]
    /\ faults = 0
    /\ following = TRUE

(* An endpoint learns of a finalized block; they need not keep pace.       *)
Advance(e) ==
    /\ tip[e] < MaxBlock
    /\ tip' = [tip EXCEPT ![e] = @ + 1]
    /\ UNCHANGED <<verified, head, last, inflight, awaited, source, faults, following>>

-----------------------------------------------------------------------------
(* Mutant of ChainVerified: an unreachable endpoint passes as verified.    *)
ChainAssumed(e) == e \in Endpoints

(* Asking for the chain id may fail, and does not pass on another chain.   *)
ChainVerified(e) == e \in OnChain

(* The endpoints that may have been verified when those below e failed.    *)
TriedBelow(e) == {f \in Endpoints : f < e /\ ChainVerified(f)}

(* The fetches that a head lowered below them does not abort.              *)
KeptUpTo(h) == [b \in {c \in DOMAIN inflight : c <= h} |-> inflight[b]]

(* The head is that of the first endpoint which is verified and answers;   *)
(* a fall-back may lag behind one that answered before.                    *)
Poll ==
    /\ following /\ awaited = 0 /\ last >= head
    /\ \E e \in Endpoints, also \in SUBSET OnChain :
          /\ e \in verified \/ ChainVerified(e)
          /\ also \subseteq TriedBelow(e)
          /\ verified' = verified \cup also \cup {e}
          /\ head' \in {head, tip[e]}
          /\ inflight' = KeptUpTo(head')
    /\ UNCHANGED <<tip, last, awaited, source, faults, following>>

(* Mutant of Through: the window is not cut at the head.                   *)
ThroughUncut(n) == n + (IF Depth = 0 THEN 1 ELSE Depth) - 1

(* The last block of the window that starts at block n.                    *)
Through(n) ==
    LET depth == IF Depth = 0 THEN 1 ELSE Depth
    IN  CASE n + depth - 1 <= head -> n + depth - 1
          [] n <= head /\ head < n + depth - 1 -> head
          [] OTHER -> n

(* The loop asks for the next block: every fetch missing in the window is  *)
(* spawned, and this block's is awaited.                                   *)
FetchNext ==
    /\ following /\ awaited = 0 /\ last < head
    /\ inflight' = [b \in DOMAIN inflight \cup (last + 1 .. Through(last + 1)) |->
                      IF b \in DOMAIN inflight THEN inflight[b] ELSE Started(b)]
    /\ awaited' = last + 1
    /\ UNCHANGED <<tip, verified, head, last, source, faults, following>>

-----------------------------------------------------------------------------
(* One fetch, concurrent with all the others.                              *)

Running(b) == b \in DOMAIN inflight /\ inflight[b].state = "running"

(* On to the next endpoint, or failed when there is none.                  *)
Elsewhere(f) ==
    IF f.at < NumEndpoints THEN [f EXCEPT !.at = @ + 1] ELSE [f EXCEPT !.state = "failed"]

Fault ==
    /\ faults < MaxFaults
    /\ faults' = faults + 1

EndpointVerified(b) ==
    /\ Running(b)
    /\ inflight[b].at \notin verified
    /\ ChainVerified(inflight[b].at)
    /\ verified' = verified \cup {inflight[b].at}
    /\ UNCHANGED <<tip, head, last, inflight, awaited, source, faults, following>>

EndpointNotVerified(b) ==
    /\ Running(b)
    /\ inflight[b].at \notin verified
    /\ inflight' = [inflight EXCEPT ![b] = Elsewhere(@)]
    /\ IF ChainVerified(inflight[b].at) THEN Fault ELSE UNCHANGED faults
    /\ UNCHANGED <<tip, verified, head, last, awaited, source, following>>

(* Header and trace of the block, from one endpoint.                       *)
Fetched(b) ==
    /\ Running(b)
    /\ inflight[b].at \in verified
    /\ b <= tip[inflight[b].at]
    /\ inflight' = [inflight EXCEPT ![b].state = "done"]
    /\ UNCHANGED <<tip, verified, head, last, awaited, source, faults, following>>

(* The block is not there yet; or either call fails, or what came back     *)
(* does not parse.                                                         *)
FetchFails(b) ==
    /\ Running(b)
    /\ inflight[b].at \in verified
    /\ inflight' = [inflight EXCEPT ![b] = Elsewhere(@)]
    /\ IF b <= tip[inflight[b].at] THEN Fault ELSE UNCHANGED faults
    /\ UNCHANGED <<tip, verified, head, last, awaited, source, following>>

FetchPanics(b) ==
    /\ Running(b)
    /\ Fault
    /\ inflight' = [inflight EXCEPT ![b].state = "panicked"]
    /\ UNCHANGED <<tip, verified, head, last, awaited, source, following>>

-----------------------------------------------------------------------------
Without(b) == [c \in DOMAIN inflight \ {b} |-> inflight[c]]

(* Mutant of AfterAwait: a fetch that failed stays where it is.            *)
AfterAwaitKept(b) == IF inflight[b].state = "done" THEN Without(b) ELSE inflight

(* Whatever became of it, the awaited fetch is out of the window.          *)
AfterAwait(b) == Without(b)

(* The loop has its block and applies it, or sleeps and asks for it again. *)
Await ==
    /\ following /\ awaited # 0
    /\ ~Running(awaited)
    /\ inflight' = AfterAwait(awaited)
    /\ awaited' = 0
    /\ IF inflight[awaited].state = "done"
       THEN /\ last' = awaited
            /\ source' = [b \in DOMAIN source \cup {awaited} |->
                            IF b = awaited THEN inflight[b] ELSE source[b]]
       ELSE UNCHANGED <<last, source>>
    /\ UNCHANGED <<tip, verified, head, faults, following>>

(* The loop returns for good (a block refused, a comparison failed) before *)
(* it asks for another block, and dropping the window aborts every fetch.  *)
StopFollowing ==
    /\ following /\ awaited = 0
    /\ following' = FALSE
    /\ inflight' = NoFetch
    /\ UNCHANGED <<tip, verified, head, last, awaited, source, faults>>

FetchStep(b) == EndpointVerified(b) \/ EndpointNotVerified(b) \/ Fetched(b) \/ FetchFails(b)

FeedNext ==
    \/ \E e \in Endpoints : Advance(e)
    \/ Poll \/ FetchNext \/ Await \/ StopFollowing
    \/ \E b \in Blocks : FetchStep(b) \/ FetchPanics(b)

(* The loop never rests, and the runtime polls every fetch.                *)
FeedFairness ==
    /\ WF_feedVars(FetchNext) /\ WF_feedVars(Await)
    /\ \A b \in Blocks : WF_feedVars(FetchStep(b))

FeedSpec     == FeedInit /\ [][FeedNext]_feedVars
FeedLiveSpec == FeedSpec /\ FeedFairness

-----------------------------------------------------------------------------
FeedTypeOK ==
    /\ tip \in [Endpoints -> 0 .. MaxBlock]
    /\ verified \in SUBSET Endpoints
    /\ head \in 0 .. MaxBlock /\ last \in 0 .. MaxBlock /\ awaited \in 0 .. MaxBlock
    /\ DOMAIN inflight \subseteq Blocks /\ \A b \in DOMAIN inflight : inflight[b] \in Fetch
    /\ DOMAIN source \subseteq Blocks   /\ \A b \in DOMAIN source : source[b] \in Fetch
    /\ faults \in 0 .. MaxFaults /\ following \in BOOLEAN

(* At most Depth fetches are in flight, of blocks that follow the last     *)
(* applied one without a gap the loop would stall on, and none above the   *)
(* head; what the loop awaits is the next block and is among them.         *)
WindowBounded ==
    /\ \A b \in DOMAIN inflight : b \in last + 1 .. head /\ b <= last + (IF Depth = 0 THEN 1 ELSE Depth)
    /\ awaited # 0 => awaited = last + 1 /\ awaited \in DOMAIN inflight

(* Every applied block is that block, each exactly once up to the last,    *)
(* and came from an endpoint on the expected chain which had it.           *)
AppliedIsTheChain ==
    /\ DOMAIN source = 1 .. last
    /\ \A b \in DOMAIN source : /\ source[b].block = b
                                /\ source[b].at \in OnChain
                                /\ b <= tip[source[b].at]

(* No failure, panic or lagging endpoint makes the loop skip a block or    *)
(* wait for ever: what it follows up to is applied, unless it returned.    *)
EveryBlockIsApplied == \A b \in Blocks : (head >= b /\ following) ~> (last >= b \/ ~following)
=============================================================================
