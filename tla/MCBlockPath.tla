----------------------------- MODULE MCBlockPath -----------------------------
(* Small instances, for TLC and in one run, of the two ends of a block's   *)
(* way through the node: the feed that it comes from and the store that it *)
(* changes.  The two share no state: a behavior is about one of them,      *)
(* `part`, while the other stays in one initial state.                     *)
EXTENDS BlockFeed, VerifiedStore, TLC

VARIABLE part

vars == <<part, feedVars, storeVars>>

(* Accounts 1 and 2 collide on the fingerprint, 2 and 3 on the key tag.    *)
CollidingProbes == (1 :> <<1, 2>>) @@ (2 :> <<1, 2>>) @@ (3 :> <<3, 2>>)
OneFingerprint  == (1 :> 7) @@ (2 :> 7) @@ (3 :> 8)
TwoTags         == (1 :> 1) @@ (2 :> 2) @@ (3 :> 2)

(* Every pair of a change and a further change or a credit.                *)
Change == [kind : {"set"}, account : Accounts, amount : Amounts]
Credit == [kind : {"credit"}, account : Accounts, amount : Amounts]
ShortBlocks == {<<w, x>> : w \in Change, x \in Change \cup Credit}

Init ==
    /\ part \in {"feed", "store"}
    /\ FeedInit
    /\ part = "feed" \/ verified = {1}
    /\ StoreInit

Next ==
    /\ UNCHANGED part
    /\ \/ part = "feed"  /\ FeedNext  /\ UNCHANGED storeVars
       \/ part = "store" /\ StoreNext /\ UNCHANGED feedVars

(* The fairness is that of the feed: where it rests, none of its fair      *)
(* actions is enabled.                                                     *)
Spec == Init /\ [][Next]_vars /\ FeedFairness
=============================================================================
