---------------------------- MODULE BalanceService ----------------------------
(***************************************************************************)
(* What the private eth_getBalance service promises its callers, with no   *)
(* hint, delta, lineage or transport in it: a question about an account is *)
(* answered by the balance the chain has for it at some finalized block,   *)
(* not below every block that was served since the question was put, or by *)
(* an error.                                                               *)
(***************************************************************************)
EXTENDS Integers, Sequences

CONSTANTS Accounts, Clients

VARIABLES
    ledgers,    \* balances after each finalized block
    served,     \* block the deployment serves
    asked,      \* the account of each client's open question, if any
    floor,      \* lowest block served since the question was put
    reply       \* how each client's last question ended

serviceVars == <<ledgers, served, asked, floor, reply>>

NoQuestion == 0
NoReply    == [kind |-> "none"]
Error      == [kind |-> "error"]

ServiceInit ==
    /\ Len(ledgers) = 1 /\ served = 1
    /\ asked = [c \in Clients |-> NoQuestion]
    /\ floor = [c \in Clients |-> 0]
    /\ reply = [c \in Clients |-> NoReply]

(* The chain grows, and the deployment may come to serve another block of  *)
(* it, a lower one included; open questions remember the lowest.           *)
Serve ==
    /\ \/ ledgers' = ledgers
       \/ Len(ledgers') = Len(ledgers) + 1 /\ SubSeq(ledgers', 1, Len(ledgers)) = ledgers
    /\ served' \in 1 .. Len(ledgers')
    /\ floor' = [c \in Clients |-> IF served' < floor[c] THEN served' ELSE floor[c]]
    /\ UNCHANGED <<asked, reply>>

Ask(c) ==
    /\ asked[c] = NoQuestion
    /\ \E a \in Accounts : asked' = [asked EXCEPT ![c] = a]
    /\ floor' = [floor EXCEPT ![c] = served]
    /\ reply' = [reply EXCEPT ![c] = NoReply]
    /\ UNCHANGED <<ledgers, served>>

Close(c) ==
    /\ asked[c] # NoQuestion
    /\ asked' = [asked EXCEPT ![c] = NoQuestion]
    /\ floor' = [floor EXCEPT ![c] = 0]
    /\ UNCHANGED <<ledgers, served>>

Answer(c) ==
    /\ Close(c)
    /\ \E at \in 1 .. Len(ledgers) :
         /\ at >= floor[c]
         /\ reply' = [reply EXCEPT ![c] = [kind |-> "balance", at |-> at, bal |-> ledgers[at][asked[c]]]]

Fail(c) == Close(c) /\ reply' = [reply EXCEPT ![c] = Error]

(* A client that is not waiting forgets the last reply.                    *)
Forget(c) ==
    /\ asked[c] = NoQuestion
    /\ reply' = [reply EXCEPT ![c] = NoReply]
    /\ UNCHANGED <<ledgers, served, asked, floor>>

ServiceNext == Serve \/ \E c \in Clients : Ask(c) \/ Answer(c) \/ Fail(c) \/ Forget(c)

ServiceSpec == ServiceInit /\ [][ServiceNext]_serviceVars
=============================================================================
