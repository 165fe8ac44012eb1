------------------------ MODULE VerifiedStore_proofs -------------------------
(***************************************************************************)
(* The store implements a map from accounts to balances, for every layout  *)
(* of the candidate buckets, every set of fingerprint collisions and every *)
(* sequence of blocks.                                                     *)
(*                                                                         *)
(* The argument.  In a Sound table every account has at most one record,   *)
(* and it is in one of its candidate slots.  The only slot of a sound      *)
(* table that matches an account's fingerprint and tag is then its own     *)
(* (OwnIsTagged), so a scan finds the account's record or nothing.  When   *)
(* the scan says Own, the first fingerprint match is that slot             *)
(* (FirstIsOwn), so that update and delete, which act on the first         *)
(* fingerprint match, touch no other record; inserts move records but keep *)
(* them sound (InsertedIsSound).                                           *)
(*                                                                         *)
(* The second part is about a store that starts from somebody else's       *)
(* export.  The invariant says how far each balance of the replay is from  *)
(* the chain's: not at all once a block has written the account, and as    *)
(* far as the export's row was before (Replayed).  The audit counts rows   *)
(* that were sampled once each and are told, being checked, or still to    *)
(* do, never two of these (Checking); and a line on /healthz or on disk is *)
(* of an earlier start, or of this one's checks after they are over        *)
(* (LineFor).                                                              *)
(***************************************************************************)
EXTENDS VerifiedStore, SnapshotAudit, NaturalLemmas, FiniteSetTheorems, TLAPS

Holds(T, s, a) == s \in Slots /\ T[s] # Empty /\ T[s].account = a

Sound(T) ==
    /\ T \in [Slots -> Records \cup {Empty}]
    /\ \A s, t \in Slots :
          T[s] # Empty /\ T[t] # Empty /\ T[s].account = T[t].account => s = t
    /\ \A s \in Slots : T[s] # Empty => s \in SlotsOf(T[s].account)

-----------------------------------------------------------------------------
(* Scans of a sound table.                                                 *)

(* A candidate slot is a slot, and a slot's record is one of Records.      *)
LEMMA ProbeTyped ==
    ASSUME NEW T, Sound(T), NEW a \in Accounts, NEW i \in DOMAIN Probes[a]
    PROVE  /\ Probes[a][i] \in Slots
           /\ i \in Nat
           /\ T[Probes[a][i]] # Empty => T[Probes[a][i]] \in Records
<1>1. Probes[a] \in Seq(Slots)
  BY StoreAssumption
<1>2. Probes[a][i] \in Slots /\ i \in Nat
  BY <1>1
<1> QED  BY <1>2 DEF Sound

(* A slot that matches an account's fingerprint and tag is the account's.  *)
LEMMA TaggedIsOwn ==
    ASSUME NEW T, Sound(T), NEW a \in Accounts, NEW i \in Tagged(T, a)
    PROVE  i \in DOMAIN Probes[a] /\ Holds(T, Probes[a][i], a)
<1> DEFINE s == Probes[a][i]
           b == T[s].account
<1>1. i \in DOMAIN Probes[a] /\ T[s] # Empty
      /\ Fingerprint[b] = Fingerprint[a] /\ KeyTag[b] = KeyTag[a]
  BY DEF Tagged, FpMatches
<1>2. s \in Slots /\ T[s] \in Records
  BY <1>1, ProbeTyped
<1>3. b \in Accounts
  BY <1>2 DEF Records
<1>4. s \in SlotsOf(b)
  BY <1>1, <1>2 DEF Sound
<1>5. PICK j \in DOMAIN Probes[b] : Probes[b][j] = s
  BY <1>4 DEF SlotsOf
<1>6. a = b
  <2>1. SUFFICES ASSUME a # b PROVE FALSE
    OBVIOUS
  <2>2. Probes[a][i] = Probes[b][j]
    BY <1>5
  <2>3. Fingerprint[a] # Fingerprint[b] \/ KeyTag[a] # KeyTag[b]
    BY <1>1, <1>3, <1>5, <2>1, <2>2, StoreAssumption
  <2> QED  BY <1>1, <2>3
<1> QED  BY <1>1, <1>2, <1>6 DEF Holds

(* An account's own slot is its only match.                                *)
LEMMA OwnIsTagged ==
    ASSUME NEW T, Sound(T), NEW a \in Accounts, NEW s, Holds(T, s, a)
    PROVE  \E i \in DOMAIN Probes[a] : Probes[a][i] = s /\ Tagged(T, a) = {i}
<1>1. s \in SlotsOf(a)
  BY DEF Sound, Holds
<1>2. PICK i \in DOMAIN Probes[a] : Probes[a][i] = s
  BY <1>1 DEF SlotsOf
<1>3. i \in Tagged(T, a)
  BY <1>2 DEF Holds, Tagged, FpMatches
<1>4. ASSUME NEW j \in Tagged(T, a) PROVE j = i
  <2>1. j \in DOMAIN Probes[a] /\ Holds(T, Probes[a][j], a)
    BY TaggedIsOwn
  <2>2. Probes[a][j] = Probes[a][i]
    BY <1>2, <2>1 DEF Sound, Holds
  <2> QED  BY <1>2, <2>1, <2>2, StoreAssumption
<1> QED  BY <1>2, <1>3, <1>4

(* The scans of an account that has a record find its balance.             *)
LEMMA LookedHeld ==
    ASSUME NEW T, Sound(T), NEW a \in Accounts, NEW s, Holds(T, s, a)
    PROVE  /\ Looked(T, a) = T[s].balance
           /\ BalanceOf(T, a) = T[s].balance
           /\ T[s].balance \in 1 .. MaxBalance
           /\ Tagged(T, a) # {}
<1>1. PICK i \in DOMAIN Probes[a] : Probes[a][i] = s /\ Tagged(T, a) = {i}
  BY OwnIsTagged
<1>2. BalanceOf(T, a) = T[s].balance
  <2>1. (CHOOSE j \in Tagged(T, a) : TRUE) = i
    BY <1>1
  <2> QED  BY <1>1, <2>1 DEF BalanceOf
<1>3. Looked(T, a) = T[s].balance
  BY <1>1, <1>2 DEF Looked
<1>4. T[s] \in Records
  BY DEF Sound, Holds
<1> QED  BY <1>1, <1>2, <1>3, <1>4 DEF Records

(* The scans of an account that has none find nothing.                     *)
LEMMA LookedAbsent ==
    ASSUME NEW T, Sound(T), NEW a \in Accounts, ~ \E s \in Slots : Holds(T, s, a)
    PROVE  Looked(T, a) = 0 /\ BalanceOf(T, a) = 0 /\ Tagged(T, a) = {}
<1>1. Tagged(T, a) = {}
  BY TaggedIsOwn DEF Holds
<1> QED  BY <1>1 DEF Looked, BalanceOf

(* The two scans agree, on a balance that the codec can encode or on 0.    *)
LEMMA LookedTyped ==
    ASSUME NEW T, Sound(T), NEW a \in Accounts
    PROVE  Looked(T, a) = BalanceOf(T, a) /\ Looked(T, a) \in Nat
<1>1. CASE \E s \in Slots : Holds(T, s, a)
  <2>1. PICK s \in Slots : Holds(T, s, a)
    BY <1>1
  <2> QED  BY <2>1, LookedHeld, StoreAssumption
<1>2. CASE ~ \E s \in Slots : Holds(T, s, a)
  BY <1>2, LookedAbsent
<1> QED  BY <1>1, <1>2

(* What a scan finds depends on the record and not on its slot.            *)
LEMMA LookedMoved ==
    ASSUME NEW T, Sound(T), NEW U, Sound(U), NEW a \in Accounts,
           \A s \in Slots : Holds(T, s, a) =>
              \E t \in Slots : Holds(U, t, a) /\ U[t] = T[s],
           \A t \in Slots : Holds(U, t, a) => \E s \in Slots : Holds(T, s, a)
    PROVE  Looked(U, a) = Looked(T, a)
<1>1. CASE \E s \in Slots : Holds(T, s, a)
  <2>1. PICK s \in Slots : Holds(T, s, a)
    BY <1>1
  <2>2. PICK t \in Slots : Holds(U, t, a) /\ U[t] = T[s]
    BY <2>1
  <2> QED  BY <2>1, <2>2, LookedHeld
<1>2. CASE ~ \E s \in Slots : Holds(T, s, a)
  BY <1>2, LookedAbsent
<1> QED  BY <1>1, <1>2

-----------------------------------------------------------------------------
(* Writes to a sound table.                                                *)

(* When the scan says Own, the first fingerprint match is the account's    *)
(* own slot, the one that update and delete act on.                        *)
LEMMA FirstIsOwn ==
    ASSUME NEW T, Sound(T), NEW a \in Accounts, Located(T, a) = "Own"
    PROVE  Holds(T, Probes[a][FirstFpMatch(T, a)], a)
<1>1. Tagged(T, a) # {} /\ ~ \E i \in Tagged(T, a), j \in FpMatches(T, a) : j < i
  BY DEF Located
<1>2. PICK i : i \in Tagged(T, a)
  BY <1>1
<1>3. i \in FpMatches(T, a) /\ \A j \in FpMatches(T, a) : i <= j /\ j \in Nat /\ i \in Nat
  <2>1. i \in FpMatches(T, a)
    BY <1>2 DEF Tagged
  <2>2. \A j \in FpMatches(T, a) : j \in Nat
    BY ProbeTyped DEF FpMatches
  <2> QED  BY <1>1, <1>2, <2>1, <2>2
<1>4. FirstFpMatch(T, a) = i
  BY <1>3 DEF FirstFpMatch
<1> QED  BY <1>2, <1>4, TaggedIsOwn

(* The tables a write may leave: sound, and changed for one account only.  *)
WritesOnly(T, U, a, v) ==
    /\ Sound(U)
    /\ Looked(U, a) = v
    /\ \A b \in Accounts \ {a} : Looked(U, b) = Looked(T, b)

LEMMA DeletedIsSound ==
    ASSUME NEW T, Sound(T), NEW a \in Accounts, Located(T, a) = "Own"
    PROVE  WritesOnly(T, Deleted(T, a), a, 0)
<1> DEFINE s == Probes[a][FirstFpMatch(T, a)]
           U == Deleted(T, a)
<1>1. Holds(T, s, a)
  BY FirstIsOwn
<1>2. U = [T EXCEPT ![s] = Empty]
  BY DEF Deleted
<1> HIDE DEF s, U
<1>3. s \in Slots /\ U[s] = Empty /\ \A t \in Slots \ {s} : U[t] = T[t]
  BY <1>1, <1>2 DEF Holds, Sound
<1>4. U \in [Slots -> Records \cup {Empty}]
  BY <1>2 DEF Sound
<1>5. Sound(U)
  BY <1>3, <1>4 DEF Sound
<1>6. ~ \E t \in Slots : Holds(U, t, a)
  BY <1>1, <1>3 DEF Holds, Sound
<1>7. ASSUME NEW b \in Accounts \ {a} PROVE Looked(U, b) = Looked(T, b)
  <2>1. \A t \in Slots : Holds(T, t, b) => Holds(U, t, b) /\ U[t] = T[t]
    BY <1>1, <1>3 DEF Holds
  <2>2. \A t \in Slots : Holds(U, t, b) => Holds(T, t, b)
    BY <1>3 DEF Holds
  <2> QED  BY <1>5, <2>1, <2>2, LookedMoved
<1>8. WritesOnly(T, U, a, 0)
  BY <1>5, <1>6, <1>7, LookedAbsent DEF WritesOnly
<1> QED  BY <1>8 DEF U

LEMMA UpdatedIsSound ==
    ASSUME NEW T, Sound(T), NEW a \in Accounts, NEW v \in 1 .. MaxBalance,
           Located(T, a) = "Own"
    PROVE  WritesOnly(T, Updated(T, a, v), a, v)
<1> DEFINE s == Probes[a][FirstFpMatch(T, a)]
           U == Updated(T, a, v)
           r == [account |-> a, balance |-> v]
<1>1. Holds(T, s, a)
  BY FirstIsOwn
<1>2. U = [T EXCEPT ![s] = r]
  BY DEF Updated
<1>3. r \in Records /\ r # Empty /\ r.account = a /\ r.balance = v
  <2>1. a # Nobody
    BY StoreAssumption
  <2> QED  BY <2>1 DEF Records, Empty
<1> HIDE DEF s, U, r
<1>4. s \in Slots /\ U[s] = r /\ \A t \in Slots \ {s} : U[t] = T[t]
  BY <1>1, <1>2 DEF Holds, Sound
<1>5. Sound(U)
  <2>1. U \in [Slots -> Records \cup {Empty}]
    BY <1>2, <1>3 DEF Sound
  <2>2. \A t \in Slots : U[t] # Empty <=> T[t] # Empty
    BY <1>1, <1>3, <1>4 DEF Holds
  <2>3. \A t \in Slots : U[t] # Empty => U[t].account = T[t].account
    BY <1>1, <1>3, <1>4 DEF Holds
  <2> QED  BY <2>1, <2>2, <2>3 DEF Sound
<1>6. Looked(U, a) = v
  BY <1>3, <1>4, <1>5, LookedHeld DEF Holds
<1>7. ASSUME NEW b \in Accounts \ {a} PROVE Looked(U, b) = Looked(T, b)
  <2>1. \A t \in Slots : Holds(T, t, b) => Holds(U, t, b) /\ U[t] = T[t]
    BY <1>1, <1>4 DEF Holds
  <2>2. \A t \in Slots : Holds(U, t, b) => Holds(T, t, b)
    BY <1>3, <1>4 DEF Holds
  <2> QED  BY <1>5, <2>1, <2>2, LookedMoved
<1>8. WritesOnly(T, U, a, v)
  BY <1>5, <1>6, <1>7 DEF WritesOnly
<1> QED  BY <1>8 DEF U

LEMMA InsertedIsSound ==
    ASSUME NEW T, Sound(T), NEW a \in Accounts, NEW v \in 1 .. MaxBalance,
           Located(T, a) = "Absent", NEW U \in Inserted(T, a, v)
    PROVE  WritesOnly(T, U, a, v)
<1> DEFINE r == [account |-> a, balance |-> v]
<1>0. PICK s \in SlotsOf(a) : \E to \in Relocations(T, s) : U = Placed(T, to, s, r)
  BY DEF Inserted
<1>1. PICK to \in Relocations(T, s) : U = Placed(T, to, s, r)
  BY <1>0
<1>2. s \in Slots
  BY <1>0, StoreAssumption DEF SlotsOf
<1>3. r \in Records /\ r # Empty /\ r.account = a /\ r.balance = v
  <2>1. a # Nobody
    BY StoreAssumption
  <2> QED  BY <2>1 DEF Records, Empty
<1> HIDE DEF r
<1>4. /\ to \in [Occupied(T) -> Slots \ {s}]
      /\ \A y \in Occupied(T) : to[y] \in SlotsOf(T[y].account)
      /\ \A x, y \in Occupied(T) : to[x] = to[y] => x = y
  BY <1>1 DEF Relocations
<1>5. U[s] = r
  BY <1>1, <1>2 DEF Placed
<1>6. \A y \in Occupied(T) : to[y] \in Slots /\ U[to[y]] = T[y]
  <2>1. SUFFICES ASSUME NEW y \in Occupied(T) PROVE to[y] \in Slots /\ U[to[y]] = T[y]
    OBVIOUS
  <2>2. to[y] \in Slots /\ to[y] # s
    BY <1>4
  <2>3. (CHOOSE z \in Occupied(T) : to[z] = to[y]) = y
    BY <1>4
  <2>4. U[to[y]] = T[CHOOSE z \in Occupied(T) : to[z] = to[y]]
    BY <1>1, <2>2 DEF Placed
  <2> QED  BY <2>2, <2>3, <2>4
<1>7. \A x \in Slots : U[x] # Empty =>
         \/ x = s /\ U[x] = r
         \/ \E y \in Occupied(T) : to[y] = x /\ U[x] = T[y]
  <2>1. SUFFICES ASSUME NEW x \in Slots, U[x] # Empty, x # s
                 PROVE  \E y \in Occupied(T) : to[y] = x /\ U[x] = T[y]
    BY <1>5
  <2>2. \E y \in Occupied(T) : to[y] = x
    BY <1>1, <2>1 DEF Placed
  <2> QED  BY <1>6, <2>2
<1>8. ~ \E y \in Occupied(T) : T[y].account = a
  <2>1. Tagged(T, a) = {}
    BY DEF Located
  <2> QED  BY <2>1, LookedHeld DEF Occupied, Holds
<1>9. Sound(U)
  <2>1. U \in [Slots -> Records \cup {Empty}]
    <3>1. \A x \in Slots : U[x] \in Records \cup {Empty}
      BY <1>3, <1>7 DEF Sound, Occupied
    <3>2. U = [x \in Slots |-> U[x]]
      BY <1>1 DEF Placed
    <3> QED  BY <3>1, <3>2
  <2>2. ASSUME NEW x \in Slots, NEW z \in Slots,
               U[x] # Empty, U[z] # Empty, U[x].account = U[z].account
        PROVE  x = z
    <3>1. CASE x = s /\ U[x] = r
      BY <3>1, <1>3, <1>7, <1>8, <2>2
    <3>2. CASE z = s /\ U[z] = r
      BY <3>2, <1>3, <1>7, <1>8, <2>2
    <3>3. CASE /\ \E y \in Occupied(T) : to[y] = x /\ U[x] = T[y]
               /\ \E y \in Occupied(T) : to[y] = z /\ U[z] = T[y]
      BY <3>3, <2>2 DEF Sound, Occupied
    <3> QED  BY <1>7, <2>2, <3>1, <3>2, <3>3
  <2>3. \A x \in Slots : U[x] # Empty => x \in SlotsOf(U[x].account)
    BY <1>1, <1>3, <1>4, <1>7
  <2> QED  BY <2>1, <2>2, <2>3 DEF Sound
<1>10. Looked(U, a) = v
  BY <1>2, <1>3, <1>5, <1>9, LookedHeld DEF Holds
<1>11. ASSUME NEW b \in Accounts \ {a} PROVE Looked(U, b) = Looked(T, b)
  <2>1. \A x \in Slots : Holds(T, x, b) => \E z \in Slots : Holds(U, z, b) /\ U[z] = T[x]
    BY <1>6 DEF Holds, Occupied
  <2>2. \A z \in Slots : Holds(U, z, b) => \E x \in Slots : Holds(T, x, b)
    BY <1>3, <1>7 DEF Holds, Occupied
  <2> QED  BY <1>9, <2>1, <2>2, LookedMoved
<1> QED  BY <1>9, <1>10, <1>11 DEF WritesOnly

(* Whatever a write leaves, it is sound and changes the account it names.  *)
LEMMA WrittenIsSound ==
    ASSUME Sound(table), NEW a \in Accounts, NEW v \in Nat, NEW U \in Written(a, v)
    PROVE  WritesOnly(table, U, a, v)
<1>1. CASE v = 0 /\ Located(table, a) = "Own"
  <2>1. U = Deleted(table, a)
    BY <1>1 DEF Written
  <2> QED  BY <1>1, <2>1, DeletedIsSound
<1>2. CASE v = 0 /\ Located(table, a) = "Absent"
  <2>1. U = table
    BY <1>2 DEF Written
  <2>2. Tagged(table, a) = {}
    BY <1>2 DEF Located
  <2>3. Looked(table, a) = 0
    BY <2>2 DEF Looked
  <2> QED  BY <1>2, <2>1, <2>3 DEF WritesOnly
<1>3. CASE v \in 1 .. MaxBalance /\ Located(table, a) = "Own"
  <2>1. U = Updated(table, a, v)
    BY <1>3 DEF Written
  <2> QED  BY <1>3, <2>1, UpdatedIsSound
<1>4. CASE v \in 1 .. MaxBalance /\ Located(table, a) = "Absent"
  <2>1. U \in Inserted(table, a, v)
    BY <1>4 DEF Written
  <2> QED  BY <1>4, <2>1, InsertedIsSound
<1> QED  BY <1>1, <1>2, <1>3, <1>4 DEF Written

-----------------------------------------------------------------------------
(* The invariant and the refinement.                                       *)

Writes == [kind : {"set", "credit"}, account : Accounts, amount : Amounts]

Inv == Sound(table) /\ todo \in Seq(Writes) /\ refused \in BOOLEAN

Balances == [a \in Accounts |-> Looked(table, a)]

LEMMA InitInv == StoreInit => Inv
<1> SUFFICES ASSUME StoreInit PROVE Inv
  OBVIOUS
<1>1. table = [s \in Slots |-> Empty] /\ todo = <<>> /\ refused = FALSE
  BY DEF StoreInit
<1>2. \A s \in Slots : table[s] = Empty
  BY <1>1
<1>3. Sound(table)
  BY <1>1, <1>2 DEF Sound
<1>4. todo \in Seq(Writes)
  BY <1>1
<1>5. refused \in BOOLEAN
  BY <1>1
<1> QED  BY <1>3, <1>4, <1>5 DEF Inv

(* A write in hand asks for the balance that the abstract map computes.    *)
LEMMA WantedIsOutcome ==
    ASSUME Inv, todo # <<>>
    PROVE  /\ Head(todo).account \in Accounts
           /\ Wanted(Head(todo)) = Map!Outcome(Head(todo))
           /\ Wanted(Head(todo)) \in Nat
           /\ Tail(todo) \in Seq(Writes)
<1>1. Head(todo) \in Writes /\ Tail(todo) \in Seq(Writes)
  BY DEF Inv
<1>2. Head(todo).account \in Accounts /\ Head(todo).amount \in Nat
  BY <1>1, StoreAssumption DEF Writes
<1>3. /\ Looked(table, Head(todo).account) = BalanceOf(table, Head(todo).account)
      /\ Looked(table, Head(todo).account) \in Nat
  BY <1>2, LookedTyped DEF Inv
<1> QED  BY <1>1, <1>2, <1>3 DEF Wanted, Map!Outcome

LEMMA ApplyStep ==
    ASSUME Inv, Apply
    PROVE  Inv' /\ Map!CarryOut
<1> DEFINE a == Head(todo).account
           v == Wanted(Head(todo))
<1>1. /\ a \in Accounts /\ v \in Nat
      /\ v = Map!Outcome(Head(todo))
      /\ Tail(todo) \in Seq(Writes)
  BY WantedIsOutcome DEF Apply
<1>2. table' \in Written(a, v) /\ todo' = Tail(todo) /\ refused' = refused /\ todo # <<>>
  BY DEF Apply
<1> HIDE DEF a, v
<1>3. WritesOnly(table, table', a, v)
  BY <1>1, <1>2, WrittenIsSound DEF Inv
<1>4. Inv'
  BY <1>1, <1>2, <1>3 DEF Inv, WritesOnly
<1>5. Balances' = [Balances EXCEPT ![a] = v]
  BY <1>1, <1>3 DEF Balances, WritesOnly
<1>6. Map!CarryOut
  BY <1>1, <1>2, <1>5 DEF Map!CarryOut, Balances, a
<1> QED  BY <1>4, <1>6

LEMMA NextInv == Inv /\ [StoreNext]_storeVars => Inv'
<1> SUFFICES ASSUME Inv, [StoreNext]_storeVars PROVE Inv'
  OBVIOUS
<1>1. CASE Receive
  BY <1>1, StoreAssumption DEF Receive, Inv, Writes
<1>2. CASE Apply
  BY <1>2, ApplyStep
<1>3. CASE Reject
  BY <1>3 DEF Reject, Inv
<1>4. CASE UNCHANGED storeVars
  BY <1>4 DEF storeVars, Inv
<1> QED  BY <1>1, <1>2, <1>3, <1>4 DEF StoreNext

LEMMA AlwaysInv == StoreSpec => []Inv
  BY InitInv, NextInv, PTL DEF StoreSpec

(* Type correctness of the store (its records are never zero: ADR-0015).   *)
THEOREM StoreTypeCorrect == StoreSpec => []StoreTypeOK
<1>1. Inv => StoreTypeOK
  BY DEF Inv, StoreTypeOK, Sound, Writes
<1> QED  BY <1>1, AlwaysInv, PTL

(* The client's scan (finish_observed) and the server's verified read find *)
(* the same balance for every account, in every reachable table.           *)
THEOREM ScansAlwaysAgree == StoreSpec => []ScansAgree
<1>1. Inv => ScansAgree
  BY LookedTyped DEF Inv, ScansAgree
<1> QED  BY <1>1, AlwaysInv, PTL

(* apply_change, through its verified scan, carries out exactly the writes *)
(* of a block on the balances that clients can look up.                    *)
THEOREM StoreIsAMap == StoreSpec => ImplementsMap
<1>1. StoreInit => Map!MapInit
  <2> SUFFICES ASSUME StoreInit PROVE Map!MapInit
    OBVIOUS
  <2>1. Sound(table)
    BY InitInv DEF Inv
  <2>2. ~ \E s \in Slots : table[s] # Empty
    BY DEF StoreInit
  <2>3. \A a \in Accounts : Looked(table, a) = 0
    BY <2>1, <2>2, LookedAbsent DEF Holds
  <2> QED  BY <2>3 DEF StoreInit, Map!MapInit
<1>2. Inv /\ [StoreNext]_storeVars => [Map!Receive \/ Map!CarryOut \/ Map!Refuse]_(Map!mapVars)
  <2> SUFFICES ASSUME Inv, [StoreNext]_storeVars
               PROVE  [Map!Receive \/ Map!CarryOut \/ Map!Refuse]_(Map!mapVars)
    OBVIOUS
  <2>1. CASE Receive
    BY <2>1 DEF Receive, Map!Receive
  <2>2. CASE Apply
    BY <2>2, ApplyStep
  <2>3. CASE Reject
    BY <2>3 DEF Reject, Map!Refuse
  <2>4. CASE UNCHANGED storeVars
    BY <2>4 DEF storeVars, Map!mapVars
  <2> QED  BY <2>1, <2>2, <2>3, <2>4 DEF StoreNext
<1> QED  BY <1>1, <1>2, AlwaysInv, PTL DEF StoreSpec, ImplementsMap, Map!MapSpec

-----------------------------------------------------------------------------
(* A store that is filled from somebody else's export, and the audit of    *)
(* that export.                                                            *)

(* The chain: a block's balances follow from those of the block before.    *)
RowBalances == [Rows -> Int]

BlockIs(block) ==
    /\ \A a \in DOMAIN block.written : block.written[a] \in Nat
    /\ \A a \in DOMAIN block.credited : block.credited[a] \in Nat

Chain == world.blocks

(* What a chain is.                                                        *)
LEMMA WorldIs ==
    ASSUME world \in Worlds
    PROVE  /\ world.genesis \in RowBalances /\ HeadBlock \in Nat /\ DOMAIN Chain = 1 .. HeadBlock
           /\ SNAPSHOT_BLOCK \in 1 .. HeadBlock /\ \A n \in 1 .. HeadBlock : BlockIs(Chain[n])
<1>1. PICK blocks : blocks = world.blocks
  OBVIOUS
<1>2. /\ blocks \in Seq(ToSet(blocks)) /\ SNAPSHOT_BLOCK <= Len(blocks)
      /\ world.genesis \in [Rows -> Nat]
      /\ \A block \in ToSet(blocks) : BlockIs(block)
  BY <1>1, ChainAssumption DEF BlockIs
<1>3. Len(blocks) \in Nat /\ DOMAIN blocks = 1 .. Len(blocks)
  <2>1. PICK S : S = ToSet(blocks)
    OBVIOUS
  <2>2. blocks \in Seq(S)
    BY <1>2, <2>1
  <2> QED  BY <2>2
<1>4. \A n \in 1 .. Len(blocks) : BlockIs(blocks[n])
  BY <1>2, <1>3 DEF ToSet
<1>5. world.genesis \in RowBalances
  BY <1>2 DEF RowBalances
<1> QED  BY <1>1, <1>2, <1>3, <1>4, <1>5, SnapshotAssumption DEF HeadBlock, Chain

(* Balances stay balances.                                                 *)
LEMMA AfterBlocksIs ==
    ASSUME NEW balances \in RowBalances, NEW block, BlockIs(block)
    PROVE  AfterBlocks(balances, block) \in RowBalances
BY DEF AfterBlocks, RowBalances, BlockIs

(* The rounds of the fold: one per block.                                  *)
Days(n) == [i \in 1 .. n |-> [balances \in RowBalances |-> AfterBlocks(balances, Chain[i])]]

Follow(b, s) == FoldLeft(AfterBlocks, b, s)

(* The truth at a block is what a loop over the blocks arrives at.         *)
LEMMA TruthIsALoop ==
    ASSUME world \in Worlds, NEW n \in 0 .. HeadBlock
    PROVE  /\ Days(n) \in Rounds(n, RowBalances)
           /\ \E p \in Passes(n, RowBalances, world.genesis, Days(n)) : TruthAt(n) = p[n]
<1>1. PICK V : V = RowBalances
  OBVIOUS
<1>2. PICK g : g = Days(n)
  OBVIOUS
<1>3. PICK b : b = world.genesis
  OBVIOUS
<1>4. PICK s : s = SubSeq(world.blocks, 1, n)
  OBVIOUS
<1>5. /\ n \in Nat /\ DOMAIN s = 1 .. n /\ \A i \in 1 .. n : s[i] = Chain[i]
      /\ \A i \in 1 .. n : BlockIs(s[i])
  <2>1. PICK S : S = ToSet(world.blocks)
    OBVIOUS
  <2>2. world.blocks \in Seq(S)
    BY <2>1, ChainAssumption
  <2>3. n \in 0 .. Len(world.blocks)
    BY DEF HeadBlock
  <2>4. n \in Nat /\ DOMAIN s = 1 .. n /\ \A i \in 1 .. n : s[i] = world.blocks[i]
    BY <1>4, <2>2, <2>3
  <2>5. \A i \in 1 .. n : i \in 1 .. HeadBlock
    BY <2>2, <2>3 DEF HeadBlock
  <2> QED  BY <2>4, <2>5, WorldIs DEF Chain
<1>6. \A i \in 1 .. n : \A balances \in V : g[i][balances] = AfterBlocks(balances, s[i])
  BY <1>1, <1>2, <1>5 DEF Days
<1>7. g \in Rounds(n, V)
  <2>1. \A i \in 1 .. n : [balances \in V |-> AfterBlocks(balances, Chain[i])] \in [V -> V]
    BY <1>1, <1>5, AfterBlocksIs
  <2> QED  BY <1>1, <1>2, <2>1 DEF Days, Rounds
<1>8. b \in V
  BY <1>1, <1>3, WorldIs
<1>9. PICK p : p \in Passes(n, V, b, g)
  BY <1>5, <1>7, <1>8, RecursionUpToNat
<1>10. PICK h \in [SUBSET (1 .. n) -> V] : Unfolds(h, n, b, g)
  BY <1>5, <1>7, <1>8, FoldExists
<1>11. h = [t \in SUBSET DOMAIN s |->
              IF t = {} THEN b ELSE AfterBlocks(h[t \ {Top(t)}], s[Top(t)])]
  <2>1. ASSUME NEW t \in SUBSET (1 .. n), t # {}
        PROVE  h[t] = AfterBlocks(h[t \ {Top(t)}], s[Top(t)])
    <3>1. Top(t) \in 1 .. n /\ t \ {Top(t)} \in SUBSET (1 .. n)
      BY <1>5, <2>1, TopIs
    <3>2. h[t] = g[Top(t)][h[t \ {Top(t)}]]
      BY <1>10, <2>1 DEF Unfolds
    <3> QED  BY <1>6, <3>1, <3>2
  <2>2. h[{}] = b
    BY <1>10 DEF Unfolds
  <2> QED  BY <1>5, <2>1, <2>2
<1>12. PICK k : /\ k = [t \in SUBSET DOMAIN s |->
                       IF t = {} THEN b ELSE AfterBlocks(k[t \ {Top(t)}], s[Top(t)])]
                /\ Follow(b, s) = k[DOMAIN s]
  BY <1>11, Zenon DEF Follow, FoldLeft, MapThenFoldSet, Top, Max
<1>16. TruthAt(n) = Follow(b, s)
  BY <1>3, <1>4 DEF TruthAt, Follow
<1>13. k[1 .. 0] = b
  <2>1. 1 .. 0 = {} /\ {} \in SUBSET DOMAIN s
    OBVIOUS
  <2> QED  BY <1>12, <2>1
<1>14. ASSUME NEW i \in 1 .. n, k[1 .. (i - 1)] \in V
       PROVE  k[1 .. i] = g[i][k[1 .. (i - 1)]]
  <2>1. /\ (1 .. i) \in SUBSET DOMAIN s /\ (1 .. i) # {} /\ Top(1 .. i) = i
        /\ (1 .. i) \ {i} = 1 .. (i - 1)
    BY <1>5, TopOfFirst
  <2>2. k[1 .. i] = AfterBlocks(k[1 .. (i - 1)], s[i])
    BY <1>12, <2>1
  <2> QED  BY <1>6, <1>14, <2>2
<1>15. k[1 .. n] = p[n]
  BY <1>5, <1>7, <1>8, <1>9, <1>13, <1>14, FoldIsTheLoop
<1> QED  BY <1>1, <1>2, <1>3, <1>5, <1>7, <1>9, <1>12, <1>15, <1>16

(* The truth at a block is the truth at the one before, and the block.     *)
LEMMA TruthSteps ==
    ASSUME world \in Worlds
    PROVE  /\ \A n \in 0 .. HeadBlock : TruthAt(n) \in RowBalances
           /\ \A n \in 1 .. HeadBlock : TruthAt(n) = AfterBlocks(TruthAt(n - 1), Chain[n])
<1>1. PICK V : V = RowBalances
  OBVIOUS
<1>2. PICK b : b = world.genesis
  OBVIOUS
<1>3. b \in V /\ HeadBlock \in Nat
  BY <1>1, <1>2, WorldIs
<1>4. ASSUME NEW n \in 0 .. HeadBlock PROVE TruthAt(n) \in V
  <2>1. PICK p \in Passes(n, V, b, Days(n)) : TruthAt(n) = p[n]
    BY <1>1, <1>2, TruthIsALoop
  <2> QED  BY <1>3, <2>1 DEF Passes
<1>5. ASSUME NEW n \in 1 .. HeadBlock PROVE TruthAt(n) = AfterBlocks(TruthAt(n - 1), Chain[n])
  <2>1. PICK m : m = n - 1
    OBVIOUS
  <2>2. m \in Nat /\ m \in 0 .. HeadBlock /\ n \in 0 .. HeadBlock /\ n = m + 1
    BY <1>3, <2>1
  <2>3. PICK g : g = Days(m)
    OBVIOUS
  <2>4. PICK h : h = Days(m + 1)
    OBVIOUS
  <2>5. PICK p \in Passes(m, V, b, g) : TruthAt(m) = p[m]
    BY <1>1, <1>2, <2>2, <2>3, TruthIsALoop
  <2>6. PICK q \in Passes(m + 1, V, b, h) : TruthAt(n) = q[m + 1]
    BY <1>1, <1>2, <2>2, <2>4, TruthIsALoop
  <2>7. g \in Rounds(m, V) /\ h \in Rounds(m + 1, V)
    BY <1>1, <2>2, <2>3, <2>4, TruthIsALoop
  <2>8. \A i \in 1 .. m : g[i] = h[i]
    BY <2>2, <2>3, <2>4 DEF Days
  <2>9. p[m] \in V /\ q[m + 1] = h[m + 1][p[m]]
    BY <1>3, <2>2, <2>5, <2>6, <2>7, <2>8, PassesExtend
  <2>10. h[m + 1][p[m]] = AfterBlocks(p[m], Chain[m + 1])
    BY <1>1, <2>2, <2>4, <2>9 DEF Days
  <2> QED  BY <2>1, <2>2, <2>5, <2>6, <2>9, <2>10
<1> QED  BY <1>1, <1>4, <1>5

(* An account that no block touches keeps its balance.                     *)
Untouched(a, n) == a \notin DOMAIN Chain[n].written /\ a \notin DOMAIN Chain[n].credited

(* Blocks that neither write nor credit an account leave its balance.      *)
LEMMA TruthStays ==
    ASSUME world \in Worlds, NEW a \in Rows, NEW g \in Nat, NEW e \in g .. HeadBlock,
           \A n \in (g + 1) .. e : Untouched(a, n)
    PROVE  TruthAt(e)[a] = TruthAt(g)[a]
<1>1. HeadBlock \in Nat /\ e - g \in Nat
  BY WorldIs
<1>2. PICK m : m = e - g
  OBVIOUS
<1>3. PICK f : f = [i \in 0 .. m |-> TruthAt(g + i)[a]]
  OBVIOUS
<1>4. PICK W : W = [i \in 0 .. m |-> {TruthAt(g)[a]}]
  OBVIOUS
<1>5. m \in Nat /\ 0 \in 0 .. m /\ g + 0 = g /\ m \in 0 .. m /\ g + m = e
  BY <1>1, <1>2
<1>6. f[0] \in W[0]
  BY <1>3, <1>4, <1>5
<1>7. ASSUME NEW i \in 1 .. m, f[i - 1] \in W[i - 1] PROVE f[i] \in W[i]
  <2>1. i - 1 \in 0 .. m /\ i \in 0 .. m
    BY <1>5
  <2>2. PICK n : n = g + i
    OBVIOUS
  <2>3. /\ n \in 1 .. HeadBlock /\ n \in (g + 1) .. e /\ n - 1 = g + (i - 1)
        /\ n - 1 \in 0 .. HeadBlock
    BY <1>1, <1>5, <2>1, <2>2
  <2>4. TruthAt(n) = AfterBlocks(TruthAt(n - 1), Chain[n]) /\ TruthAt(n - 1) \in RowBalances
    BY <2>3, TruthSteps
  <2>5. Untouched(a, n)
    BY <2>3
  <2>6. TruthAt(n)[a] = TruthAt(n - 1)[a]
    BY <2>4, <2>5 DEF AfterBlocks, Untouched, RowBalances
  <2>7. f[i - 1] = TruthAt(n - 1)[a] /\ f[i] = TruthAt(n)[a]
    BY <1>3, <2>1, <2>2, <2>3
  <2> QED  BY <1>4, <1>7, <2>1, <2>6, <2>7
<1>8. \A i \in 0 .. m : f[i] \in W[i]
  BY <1>5, <1>6, <1>7, UpToNat
<1>9. f[m] = TruthAt(e)[a] /\ W[m] = {TruthAt(g)[a]}
  BY <1>3, <1>4, <1>5
<1> QED  BY <1>5, <1>8, <1>9

(* What a replay from block SNAPSHOT_BLOCK - rewind up to block at makes of*)
(* the export: once a block has written an account it is right; before, it *)
(* is as far from the truth as the export's row was from the truth there.  *)
WrittenIn(a, from, to) == \E n \in (from + 1) .. to : a \in DOMAIN Chain[n].written

Replayed(store, at, rewind) ==
    /\ store \in RowBalances /\ rewind \in 0 .. (SNAPSHOT_BLOCK - 1)
    /\ at \in Genesis(rewind) .. HeadBlock
    /\ \A a \in Rows :
          IF WrittenIn(a, Genesis(rewind), at) THEN store[a] = TruthAt(at)[a]
          ELSE store[a] - export.balance[a] = TruthAt(at)[a] - TruthAt(Genesis(rewind))[a]

(* The block the replay starts after.                                      *)
LEMMA GenesisIs ==
    ASSUME world \in Worlds, NEW rewind \in 0 .. (SNAPSHOT_BLOCK - 1)
    PROVE  /\ Genesis(rewind) \in 1 .. HeadBlock /\ Genesis(rewind) \in Nat /\ HeadBlock \in Nat
           /\ Genesis(rewind) <= SNAPSHOT_BLOCK
BY WorldIs DEF Genesis

(* A block more.                                                           *)
LEMMA ReplayOne ==
    ASSUME world \in Worlds, export.balance \in RowBalances, NEW store, NEW at, NEW rewind,
           Replayed(store, at, rewind), at < HeadBlock
    PROVE  Replayed(AfterBlocks(store, Chain[at + 1]), at + 1, rewind)
<1>1. PICK g : g = Genesis(rewind)
  OBVIOUS
<1>2. PICK n : n = at + 1
  OBVIOUS
<1>3. PICK next : next = AfterBlocks(store, Chain[n])
  OBVIOUS
<1>4. /\ store \in RowBalances /\ rewind \in 0 .. (SNAPSHOT_BLOCK - 1)
      /\ at \in g .. HeadBlock /\ g \in Nat /\ g \in 1 .. HeadBlock /\ HeadBlock \in Nat
  BY <1>1, GenesisIs DEF Replayed
<1>5. n \in g .. HeadBlock /\ n \in 1 .. HeadBlock /\ n - 1 = at /\ at \in 0 .. HeadBlock
  BY <1>2, <1>4
<1>6. next \in RowBalances
  BY <1>3, <1>4, <1>5, WorldIs, AfterBlocksIs
<1>7. /\ TruthAt(n) = AfterBlocks(TruthAt(at), Chain[n]) /\ TruthAt(at) \in RowBalances
      /\ TruthAt(n) \in RowBalances /\ TruthAt(g) \in RowBalances
  <2>1. g \in 0 .. HeadBlock /\ n \in 0 .. HeadBlock
    BY <1>4, <1>5
  <2> QED  BY <1>5, <2>1, TruthSteps
<1>8. ASSUME NEW a \in Rows
      PROVE  IF WrittenIn(a, g, n) THEN next[a] = TruthAt(n)[a]
             ELSE next[a] - export.balance[a] = TruthAt(n)[a] - TruthAt(g)[a]
  <2>1. PICK t : t = TruthAt(at)
    OBVIOUS
  <2>2. PICK u : u = TruthAt(n)
    OBVIOUS
  <2>3. PICK c : c = IF a \in DOMAIN Chain[n].credited THEN Chain[n].credited[a] ELSE 0
    OBVIOUS
  <2>4. c \in Int
    BY <1>5, <2>3, WorldIs DEF BlockIs
  <2>5. CASE a \in DOMAIN Chain[n].written
    <3>1. next[a] = u[a]
      BY <1>3, <1>7, <2>1, <2>2, <2>5 DEF AfterBlocks
    <3>2. WrittenIn(a, g, n)
      BY <1>4, <1>5, <2>5 DEF WrittenIn
    <3> QED  BY <2>2, <3>1, <3>2
  <2>6. CASE a \notin DOMAIN Chain[n].written
    <3>1. next[a] = store[a] + c /\ u[a] = t[a] + c
      BY <1>3, <1>7, <2>1, <2>2, <2>3, <2>6 DEF AfterBlocks
    <3>2. WrittenIn(a, g, n) <=> WrittenIn(a, g, at)
      BY <1>2, <1>4, <1>5, <2>6 DEF WrittenIn
    <3>3. IF WrittenIn(a, g, at) THEN store[a] = t[a]
          ELSE store[a] - export.balance[a] = t[a] - TruthAt(g)[a]
      BY <1>1, <2>1 DEF Replayed
    <3>4. /\ store[a] \in Int /\ t[a] \in Int /\ TruthAt(g)[a] \in Int
          /\ export.balance[a] \in Int
      BY <1>4, <1>7, <2>1 DEF RowBalances
    <3>5. CASE WrittenIn(a, g, at)
      BY <2>2, <3>1, <3>2, <3>3, <3>5
    <3>6. CASE ~WrittenIn(a, g, at)
      <4>1. next[a] - export.balance[a] = u[a] - TruthAt(g)[a]
        BY <2>4, <3>1, <3>3, <3>4, <3>6
      <4> QED  BY <2>2, <3>2, <3>6, <4>1
    <3> QED  BY <3>5, <3>6
  <2> QED  BY <2>5, <2>6
<1> QED  BY <1>1, <1>2, <1>3, <1>4, <1>5, <1>6, <1>8 DEF Replayed

(* Before any block, the replay is the export.                             *)
LEMMA ReplayNone ==
    ASSUME world \in Worlds, NEW store \in RowBalances, NEW rewind \in 0 .. (SNAPSHOT_BLOCK - 1),
           \A a \in Rows : store[a] = export.balance[a]
    PROVE  Replayed(store, Genesis(rewind), rewind)
<1>1. PICK g : g = Genesis(rewind)
  OBVIOUS
<1>2. g \in 1 .. HeadBlock /\ g \in 0 .. HeadBlock /\ g \in g .. HeadBlock /\ g \in Nat
  BY <1>1, GenesisIs
<1>3. TruthAt(g) \in RowBalances
  BY <1>2, TruthSteps
<1>4. \A a \in Rows : ~WrittenIn(a, g, g)
  BY <1>2 DEF WrittenIn
<1>5. \A a \in Rows : store[a] - export.balance[a] = TruthAt(g)[a] - TruthAt(g)[a]
  BY <1>3 DEF RowBalances
<1> QED  BY <1>1, <1>2, <1>4, <1>5 DEF Replayed

(* The promise of the rewind, from what the replay makes.                  *)
LEMMA ReplayHeals ==
    ASSUME world \in Worlds, export.balance \in RowBalances, export.exact \in Int,
           Replayed(deploy.store, deploy.at, deploy.rewind)
    PROVE  RewindHeals
<1>1. PICK g : g = Genesis(deploy.rewind)
  OBVIOUS
<1>2. PICK e : e = export.exact
  OBVIOUS
<1>3. PICK at : at = deploy.at
  OBVIOUS
<1>4. g = SNAPSHOT_BLOCK - deploy.rewind
  BY <1>1 DEF Genesis
<1>5. /\ deploy.store \in RowBalances /\ at \in g .. HeadBlock /\ g \in Nat /\ HeadBlock \in Nat
      /\ deploy.rewind \in 0 .. (SNAPSHOT_BLOCK - 1)
  BY <1>1, <1>3, GenesisIs DEF Replayed
<1>6. SUFFICES ASSUME g <= e, e <= at, e \in Int, NEW a \in Rows
               PROVE  \/ deploy.store[a] = TruthAt(at)[a]
                      \/ CreditedTwice(a)
                      \/ /\ export.balance[a] # TruthAt(e)[a]
                         /\ \A w \in (g + 1) .. at : a \notin DOMAIN world.blocks[w].written
  BY <1>2, <1>3, <1>4 DEF RewindHeals
<1>7. SUFFICES ASSUME ~WrittenIn(a, g, at), export.balance[a] = TruthAt(e)[a], ~CreditedTwice(a)
               PROVE  deploy.store[a] = TruthAt(at)[a]
  BY <1>1, <1>3 DEF Replayed, WrittenIn, Chain
<1>8. \A w \in (g + 1) .. at : a \notin DOMAIN Chain[w].written
  BY <1>7 DEF WrittenIn
<1>9. ASSUME NEW n \in (g + 1) .. e PROVE Untouched(a, n)
  <2>1. n \in (g + 1) .. at /\ \A w \in n .. at : w \in (g + 1) .. at
    BY <1>5, <1>6
  <2>2. \A w \in n .. at : a \notin DOMAIN world.blocks[w].written
    BY <1>8, <2>1 DEF Chain
  <2>3. a \notin DOMAIN world.blocks[n].credited
    BY <1>2, <1>3, <1>4, <1>7, <2>2 DEF CreditedTwice
  <2> QED  BY <1>8, <2>1, <2>3 DEF Untouched, Chain
<1>10. TruthAt(e)[a] = TruthAt(g)[a]
  <2>1. e \in g .. HeadBlock
    BY <1>5, <1>6
  <2> QED  BY <1>5, <1>9, <2>1, TruthStays
<1>11. deploy.store[a] - export.balance[a] = TruthAt(at)[a] - TruthAt(g)[a]
  BY <1>1, <1>3, <1>7 DEF Replayed
<1>12. deploy.store[a] \in Int /\ TruthAt(at)[a] \in Int /\ TruthAt(g)[a] \in Int
  <2>1. TruthAt(at) \in RowBalances /\ TruthAt(g) \in RowBalances
    <3>1. at \in 0 .. HeadBlock /\ g \in 0 .. HeadBlock
      BY <1>5
    <3> QED  BY <3>1, TruthSteps
  <2> QED  BY <1>5, <2>1 DEF RowBalances
<1> QED  BY <1>7, <1>10, <1>11, <1>12

(* The audit.  A line is right if it counts what has been told, and those  *)
(* of them that the export has wrong.                                      *)
Wrong(S) == {a \in S : export.balance[a] # TruthAt(SNAPSHOT_BLOCK)[a]}

RightLine(line) ==
    /\ line.checked = Cardinality(told) /\ line.checked <= SampleCapacity
    /\ line.disagreed = Cardinality(Wrong(told))

(* A line is of an earlier start, or this start's checks are over and it is*)
(* right.                                                                  *)
LineFor(line) ==
    line.known =>
        /\ line.of \in 0 .. deploy.lineage
        /\ line.of = deploy.lineage =>
              audit.phase # "checks" /\ deploy.phase # "ingest" /\ RightLine(line)

IsLine(line) ==
    line = NoLine \/ line = [known |-> TRUE, torn |-> line.torn, checked |-> line.checked,
                             disagreed |-> line.disagreed, of |-> line.of]

LinesRight ==
    /\ IsLine(healthz) /\ IsLine(sidecar)
    /\ healthz.known => deploy.phase = "up" /\ LineFor(healthz)
    /\ sidecar.known => sidecar.of \in 0 .. deploy.lineage
    /\ deploy.phase # "down" \/ state # NoState => LineFor(sidecar)

ExportRight == export.balance \in RowBalances /\ export.exact \in 1 .. SNAPSHOT_BLOCK

IngestRight ==
    /\ deploy.row \in 1 .. (Len(RowOrder) + 1)
    /\ deploy.store \in RowBalances /\ deploy.rewind \in 0 .. (SNAPSHOT_BLOCK - 1)
    /\ deploy.at = Genesis(deploy.rewind)
    /\ \A i \in 1 .. (deploy.row - 1) : deploy.store[RowOrder[i]] = export.balance[RowOrder[i]]
    /\ \A k \in DOMAIN sampler : \E i \in 1 .. (deploy.row - 1) : sampler[k] = RowOrder[i]
    /\ audit = NoAudit /\ told = {} /\ state = NoState

DeployRight ==
    /\ deploy = [phase |-> deploy.phase, row |-> deploy.row, store |-> deploy.store,
                 at |-> deploy.at, rewind |-> deploy.rewind, lineage |-> deploy.lineage]
    /\ deploy.phase \in {"down", "ingest", "up"} /\ deploy.lineage \in Nat
    /\ deploy.phase = "ingest" => IngestRight
    /\ deploy.phase = "up" => Replayed(deploy.store, deploy.at, deploy.rewind)
    /\ state # NoState =>
          /\ state.lineage = deploy.lineage
          /\ Replayed(state.store, state.at, state.rewind)

Injective(s) == \A i, j \in DOMAIN s : s[i] = s[j] => i = j

SamplerRight == sampler \in Seq(Rows) /\ Len(sampler) <= SampleCapacity /\ Injective(sampler)

(* While checks run, what is told, what runs and what is to do are apart.  *)
Checking ==
    /\ deploy.phase = "up"
    /\ told \subseteq ToSet(sampler) /\ audit.running \subseteq ToSet(sampler)
    /\ ToSet(audit.todo) \subseteq ToSet(sampler) /\ Injective(audit.todo)
    /\ audit.running \cap told = {} /\ ToSet(audit.todo) \cap (told \cup audit.running) = {}
    /\ audit.checked = Cardinality(told) /\ audit.disagreed = Cardinality(Wrong(told))

AuditRight ==
    /\ audit = [phase |-> audit.phase, todo |-> audit.todo, running |-> audit.running,
                checked |-> audit.checked, disagreed |-> audit.disagreed]
    /\ audit.phase \in {"none", "checks", "reported"} /\ audit.todo \in Seq(Rows)
    /\ audit.phase # "checks" => audit.running = {}
    /\ audit.phase = "checks" => Checking
    /\ audit.phase = "reported" => deploy.phase = "up"
    /\ IsFiniteSet(told) /\ Cardinality(told) <= SampleCapacity

AuditInv ==
    /\ world \in Worlds /\ ExportRight
    /\ DeployRight /\ SamplerRight /\ AuditRight /\ LinesRight

(* An export has every account's balance, at a block up to the declared    *)
(* one.                                                                    *)
LEMMA ExportsAre ==
    ASSUME world \in Worlds, NEW x \in Exports
    PROVE  x.balance \in RowBalances /\ x.exact \in 1 .. SNAPSHOT_BLOCK
<1>1. PICK e \in 1 .. SNAPSHOT_BLOCK : \E w \in SUBSET Rows : x = Exported(e, w)
  BY DEF Exports
<1>2. PICK w \in SUBSET Rows : x = Exported(e, w)
  BY <1>1
<1>3. e \in 0 .. HeadBlock
  BY WorldIs
<1>4. PICK t : t = TruthAt(e)
  OBVIOUS
<1>5. t \in RowBalances
  BY <1>3, <1>4, TruthSteps
<1> QED  BY <1>2, <1>4, <1>5 DEF Exported, RowBalances

(* What a replay has made of an export stays so while neither changes.     *)
LEMMA ReplayedStays ==
    ASSUME UNCHANGED <<world, export>>, NEW store, NEW at, NEW rewind, Replayed(store, at, rewind)
    PROVE  Replayed(store, at, rewind)'
BY DEF Replayed, WrittenIn, Chain, TruthAt, HeadBlock

(* Nothing that lines are about has changed.                               *)
LEMMA LinesStay ==
    ASSUME LinesRight, UNCHANGED <<world, export, told, healthz, sidecar>>,
           deploy'.phase = deploy.phase, deploy'.lineage = deploy.lineage,
           audit'.phase # "checks" \/ audit'.phase = audit.phase,
           state' = state \/ deploy.phase # "down"
    PROVE  LinesRight'
<1>1. \A line : RightLine(line) => RightLine(line)'
  BY DEF RightLine, Wrong, TruthAt
<1>2. \A line : LineFor(line) => LineFor(line)'
  BY <1>1 DEF LineFor
<1> QED  BY <1>2 DEF LinesRight, LineFor, IsLine, RightLine, Wrong, TruthAt

(* A process that is down.                                                 *)
LEMMA DownIs == Down = [phase |-> "down", row |-> 0, store |-> [a \in Rows |-> 0], at |-> 0,
                        rewind |-> 0, lineage |-> 0] /\ Down.store \in RowBalances
BY DEF Down, RowBalances

(* No audit is right.                                                      *)
LEMMA NoAuditRight ==
    ASSUME audit' = NoAudit, IsFiniteSet(told'), Cardinality(told') <= SampleCapacity
    PROVE  AuditRight'
BY DEF AuditRight, NoAudit

(* The invariant holds initially.                                          *)
LEMMA SnapshotInitRight == SnapshotInit => AuditInv
<1> SUFFICES ASSUME SnapshotInit PROVE AuditInv
  OBVIOUS
<1>1. /\ world \in Worlds /\ export \in Exports /\ deploy = Down /\ sampler = <<>>
      /\ audit = NoAudit /\ healthz = NoLine /\ state = NoState /\ sidecar = NoLine /\ told = {}
  BY DEF SnapshotInit
<1>2. ExportRight
  BY <1>1, ExportsAre DEF ExportRight
<1>3. DeployRight
  BY <1>1, DownIs DEF DeployRight
<1>4. SamplerRight
  BY <1>1, SnapshotAssumption DEF SamplerRight, Injective
<1>5. AuditRight
  <2>1. IsFiniteSet(told) /\ Cardinality(told) = 0 /\ SampleCapacity \in Nat
    BY <1>1, FS_EmptySet, SnapshotAssumption
  <2> QED  BY <1>1, <2>1 DEF AuditRight, NoAudit
<1>6. LinesRight
  BY <1>1, DownIs DEF LinesRight, LineFor, IsLine, NoLine
<1> QED  BY <1>1, <1>2, <1>3, <1>4, <1>5, <1>6 DEF AuditInv

(* An ingest begins with nothing in hand, and lines are of earlier starts. *)
LEMMA IngestKeeps ==
    ASSUME AuditInv, Ingest
    PROVE  AuditInv'
<1>1. /\ deploy.phase = "down" /\ state = NoState /\ sampler' = <<>> /\ audit' = NoAudit
      /\ told' = {} /\ UNCHANGED <<world, export, healthz, state, sidecar>>
  BY Zenon DEF Ingest
<1>2. PICK rewind \in 0 .. (SNAPSHOT_BLOCK - 1) :
         deploy' = [Down EXCEPT !.phase = "ingest", !.row = 1, !.at = Genesis(rewind),
                                !.rewind = rewind, !.lineage = deploy.lineage + 1]
  BY Zenon DEF Ingest
<1>3. /\ deploy' = [phase |-> "ingest", row |-> 1, store |-> Down.store, at |-> Genesis(rewind),
                    rewind |-> rewind, lineage |-> deploy.lineage + 1]
      /\ Down.store \in RowBalances
  BY <1>2, DownIs
<1>4. /\ deploy.lineage \in Nat /\ RowOrder \in Seq(Rows) /\ SampleCapacity \in Nat
      /\ Len(RowOrder) \in Nat
  BY ChainAssumption, SnapshotAssumption DEF AuditInv, DeployRight
<1>5. IngestRight'
  <2>1. Genesis(rewind)' = Genesis(rewind)
    BY DEF Genesis
  <2> QED  BY <1>1, <1>3, <1>4, <2>1 DEF IngestRight, NoAudit, NoState, Genesis, RowBalances
<1>6. DeployRight'
  <2>1. PICK g : g = Genesis(rewind)
    OBVIOUS
  <2>2. /\ deploy' = [phase |-> "ingest", row |-> 1, store |-> Down.store, at |-> g,
                      rewind |-> rewind, lineage |-> deploy.lineage + 1]
        /\ deploy.lineage + 1 \in Nat /\ state' = NoState
    BY <1>1, <1>3, <1>4, <2>1
  <2>3. PICK d : d = deploy'
    OBVIOUS
  <2>4. /\ d = [phase |-> d.phase, row |-> d.row, store |-> d.store, at |-> d.at,
                rewind |-> d.rewind, lineage |-> d.lineage]
        /\ d.phase = "ingest" /\ d.lineage \in Nat
    BY <2>2, <2>3
  <2> QED  BY <1>5, <2>2, <2>3, <2>4 DEF DeployRight
<1>7. SamplerRight' /\ AuditRight'
  <2>1. IsFiniteSet(told') /\ Cardinality(told') = 0
    BY <1>1, FS_EmptySet
  <2>2. AuditRight'
    BY <1>1, <1>4, <2>1, NoAuditRight
  <2> QED  BY <1>1, <1>4, <2>2 DEF SamplerRight, Injective
<1>8. LinesRight'
  BY <1>1, <1>3, <1>4 DEF AuditInv, LinesRight, LineFor, IsLine
<1> QED  BY <1>1, <1>6, <1>7, <1>8 DEF AuditInv, ExportRight, RowBalances

(* A sequence and one element more.                                        *)
LEMMA OneMore ==
    ASSUME NEW R, NEW s \in Seq(R), NEW a \in R, NEW u, u = Append(s, a)
    PROVE  /\ u \in Seq(R) /\ Len(u) = Len(s) + 1
           /\ DOMAIN u = 1 .. (Len(s) + 1) /\ u[Len(s) + 1] = a
           /\ \A k \in 1 .. Len(s) : u[k] = s[k]
OBVIOUS

(* The sample stays one of rows seen, each at most once, however the dice  *)
(* fall.                                                                   *)
LEMMA SampleIs ==
    ASSUME SamplerRight, NEW row \in 1 .. Len(RowOrder), NEW next,
           next = sampler \/ next \in Sampled(sampler, Seen(row), RowOrder[row]),
           \A k \in DOMAIN sampler : \E i \in 1 .. (row - 1) : sampler[k] = RowOrder[i]
    PROVE  /\ next \in Seq(Rows) /\ Len(next) <= SampleCapacity /\ Injective(next)
           /\ \A k \in DOMAIN next : \E i \in 1 .. row : next[k] = RowOrder[i]
<1>1. PICK a : a = RowOrder[row]
  OBVIOUS
<1>2. /\ a \in Rows /\ RowOrder \in Seq(Rows) /\ Len(RowOrder) \in Nat /\ SampleCapacity \in Nat
      /\ sampler \in Seq(Rows) /\ Len(sampler) \in Nat /\ DOMAIN sampler = 1 .. Len(sampler)
      /\ DOMAIN RowOrder = 1 .. Len(RowOrder) /\ Len(sampler) <= SampleCapacity
      /\ Injective(sampler) /\ Injective(RowOrder)
  BY <1>1, ChainAssumption, SnapshotAssumption DEF SamplerRight, Injective
<1>3. \A k \in DOMAIN sampler : sampler[k] # a
  BY <1>1, <1>2 DEF Injective
<1>4. CASE next = sampler
  BY <1>2, <1>4
<1>5. CASE Len(sampler) < SampleCapacity /\ next = Append(sampler, a)
  <2>1. /\ next \in Seq(Rows) /\ Len(next) = Len(sampler) + 1
        /\ \A k \in 1 .. Len(sampler) : next[k] = sampler[k]
        /\ DOMAIN next = 1 .. (Len(sampler) + 1) /\ next[Len(sampler) + 1] = a
    <3>1. sampler \in Seq(Rows)
      BY <1>2
    <3>2. a \in Rows
      BY <1>2
    <3>3. next = Append(sampler, a)
      BY <1>5
    <3> HIDE DEF Rows
    <3> QED  BY <3>1, <3>2, <3>3, OneMore
  <2>2. PICK n : n = Len(sampler)
    OBVIOUS
  <2>3. /\ n \in Nat /\ DOMAIN sampler = 1 .. n /\ DOMAIN next = 1 .. (n + 1) /\ next[n + 1] = a
        /\ \A k \in 1 .. n : next[k] = sampler[k] /\ sampler[k] # a
        /\ \A k \in 1 .. (n + 1) : k \in 1 .. n \/ k = n + 1
    BY <1>2, <1>3, <2>1, <2>2
  <2>4. Injective(next)
    BY <1>2, <2>3 DEF Injective
  <2>5. ASSUME NEW k \in DOMAIN next PROVE \E i \in 1 .. row : next[k] = RowOrder[i]
    <3>1. CASE k \in 1 .. n
      <4>1. PICK i \in 1 .. (row - 1) : sampler[k] = RowOrder[i]
        BY <2>3, <3>1
      <4>2. i \in 1 .. row
        BY <4>1
      <4> QED  BY <2>3, <3>1, <4>1, <4>2
    <3>2. CASE k = n + 1
      <4>1. row \in 1 .. row
        OBVIOUS
      <4> QED  BY <1>1, <2>3, <3>2, <4>1
    <3> QED  BY <2>3, <2>5, <3>1, <3>2
  <2>6. Len(next) <= SampleCapacity
    <3>1. n < SampleCapacity /\ Len(next) = n + 1
      BY <1>5, <2>1, <2>2
    <3> QED  BY <1>2, <2>3, <3>1
  <2> QED  BY <2>1, <2>4, <2>5, <2>6
<1>6. ASSUME Len(sampler) = SampleCapacity, NEW j \in Nat, j < SampleCapacity,
             next = [sampler EXCEPT ![j + 1] = a]
      PROVE  /\ next \in Seq(Rows) /\ Len(next) <= SampleCapacity /\ Injective(next)
             /\ \A k \in DOMAIN next : \E i \in 1 .. row : next[k] = RowOrder[i]
  <2>1. PICK m : m = j + 1
    OBVIOUS
  <2>2. m \in 1 .. Len(sampler) /\ next = [sampler EXCEPT ![m] = a]
    BY <1>2, <1>6, <2>1
  <2>3. /\ next \in Seq(Rows) /\ Len(next) = Len(sampler) /\ DOMAIN next = 1 .. Len(sampler)
        /\ next[m] = a /\ \A k \in 1 .. Len(sampler) : k # m => next[k] = sampler[k]
    BY <1>2, <2>2
  <2>4. Injective(next)
    BY <1>2, <1>3, <2>3 DEF Injective
  <2>5. \A k \in DOMAIN next : \E i \in 1 .. row : next[k] = RowOrder[i]
    BY <1>1, <1>2, <2>3
  <2> QED  BY <1>2, <2>3, <2>4, <2>5
<1>7. CASE next \in Sampled(sampler, Seen(row), a)
  <2>1. Seen(row) \in Nat
    <3>1. IsFiniteSet(1 .. row)
      BY FS_Interval
    <3>2. PICK S : S = {i \in 1 .. row : export.balance[RowOrder[i]] # 0}
      OBVIOUS
    <3>3. IsFiniteSet(S)
      BY <3>1, <3>2, FS_Subset
    <3> QED  BY <3>2, <3>3, FS_CardinalityType DEF Seen
  <2>2. \/ next = sampler
        \/ Len(sampler) < SampleCapacity /\ next = Append(sampler, a)
        \/ /\ Len(sampler) = SampleCapacity
           /\ \E j \in Nat : j < SampleCapacity /\ next = [sampler EXCEPT ![j + 1] = a]
    BY <1>2, <1>7, <2>1 DEF Sampled
  <2> QED  BY <1>4, <1>5, <1>6, <2>2
<1> QED  BY <1>1, <1>4, <1>7

(* The row's balance is in the store, and perhaps the row in the sample.   *)
LEMMA IngestRowKeeps ==
    ASSUME AuditInv, IngestRow
    PROVE  AuditInv'
<1>1. PICK row : row = deploy.row
  OBVIOUS
<1>2. PICK a : a = RowOrder[row]
  OBVIOUS
<1>3. PICK balance : balance = export.balance[a]
  OBVIOUS
<1>4. /\ deploy.phase = "ingest" /\ row <= Len(RowOrder)
      /\ deploy' = [deploy EXCEPT !.row = @ + 1, !.store[a] = balance]
      /\ sampler' = sampler \/ sampler' \in Sampled(sampler, Seen(row), RowOrder[row])
      /\ UNCHANGED <<world, export, audit, healthz, state, sidecar, told>>
  BY <1>1, <1>2, <1>3, Zenon DEF IngestRow
<1>5. /\ IngestRight /\ RowOrder \in Seq(Rows) /\ Len(RowOrder) \in Nat
      /\ DOMAIN RowOrder = 1 .. Len(RowOrder) /\ SampleCapacity \in Nat
      /\ row \in 1 .. Len(RowOrder) /\ deploy.lineage \in Nat
  BY <1>1, <1>4, ChainAssumption, SnapshotAssumption DEF AuditInv, DeployRight, IngestRight
<1>6. a \in Rows /\ deploy.store \in RowBalances /\ balance \in Int
  BY <1>2, <1>3, <1>5 DEF IngestRight, AuditInv, ExportRight, RowBalances
<1>7. PICK store : store = [deploy.store EXCEPT ![a] = balance]
  OBVIOUS
<1>8. deploy' = [phase |-> "ingest", row |-> row + 1, store |-> store, at |-> deploy.at,
                 rewind |-> deploy.rewind, lineage |-> deploy.lineage]
  BY <1>1, <1>4, <1>7 DEF AuditInv, DeployRight
<1>9. /\ store \in RowBalances /\ store[a] = balance
      /\ \A b \in Rows : b # a => store[b] = deploy.store[b]
  BY <1>6, <1>7 DEF RowBalances
<1>10. /\ sampler' \in Seq(Rows) /\ Len(sampler') <= SampleCapacity /\ Injective(sampler')
       /\ \A k \in DOMAIN sampler' : \E i \in 1 .. row : sampler'[k] = RowOrder[i]
  <2>1. PICK next : next = sampler'
    OBVIOUS
  <2>2. \A k \in DOMAIN sampler : \E i \in 1 .. (row - 1) : sampler[k] = RowOrder[i]
    BY <1>1, <1>5 DEF IngestRight
  <2>3. SamplerRight
    BY DEF AuditInv
  <2>4. next = sampler \/ next \in Sampled(sampler, Seen(row), RowOrder[row])
    BY <1>4, <2>1
  <2>5. /\ next \in Seq(Rows) /\ Len(next) <= SampleCapacity /\ Injective(next)
        /\ \A k \in DOMAIN next : \E i \in 1 .. row : next[k] = RowOrder[i]
    BY <1>5, <2>2, <2>3, <2>4, SampleIs
  <2> QED  BY <2>1, <2>5
<1>11. IngestRight'
  <2>1. \A i \in 1 .. row : store[RowOrder[i]] = export.balance[RowOrder[i]]
    <3>1. SUFFICES ASSUME NEW i \in 1 .. row PROVE store[RowOrder[i]] = export.balance[RowOrder[i]]
      OBVIOUS
    <3>2. CASE RowOrder[i] = a
      BY <1>3, <1>9, <3>2
    <3>3. CASE RowOrder[i] # a
      <4>1. i \in 1 .. (row - 1) /\ i \in 1 .. Len(RowOrder)
        BY <1>2, <1>5, <3>1, <3>3
      <4>2. RowOrder[i] \in Rows
        BY <1>5, <4>1
      <4>3. deploy.store[RowOrder[i]] = export.balance[RowOrder[i]]
        BY <1>1, <1>5, <4>1 DEF IngestRight
      <4> QED  BY <1>9, <3>3, <4>2, <4>3
    <3> QED  BY <3>2, <3>3
  <2>2. /\ deploy'.row = row + 1 /\ deploy'.store = store /\ deploy'.at = deploy.at
        /\ deploy'.rewind = deploy.rewind
    BY <1>8
  <2>3. row + 1 \in 1 .. (Len(RowOrder) + 1) /\ deploy'.row - 1 = row
    <3>1. PICK m : m = Len(RowOrder)
      OBVIOUS
    <3>2. m \in Nat /\ row \in 1 .. m
      BY <1>5, <3>1
    <3> QED  BY <2>2, <3>1, <3>2
  <2>4. deploy.rewind \in 0 .. (SNAPSHOT_BLOCK - 1) /\ deploy.at = Genesis(deploy.rewind)
    BY <1>5 DEF IngestRight
  <2>5. audit' = NoAudit /\ told' = {} /\ state' = NoState /\ export' = export
    BY <1>4, <1>5 DEF IngestRight
  <2>6. \A i \in 1 .. (deploy'.row - 1) : deploy'.store[RowOrder[i]] = export'.balance[RowOrder[i]]
    BY <2>1, <2>2, <2>3, <2>5
  <2>7. \A k \in DOMAIN sampler' : \E i \in 1 .. (deploy'.row - 1) : sampler'[k] = RowOrder[i]
    BY <1>10, <2>3
  <2>8. /\ deploy'.at = Genesis(deploy'.rewind) /\ deploy'.store \in RowBalances
        /\ deploy'.row \in 1 .. (Len(RowOrder) + 1) /\ deploy'.rewind \in 0 .. (SNAPSHOT_BLOCK - 1)
    BY <1>9, <2>2, <2>3, <2>4
  <2> QED  BY <2>5, <2>6, <2>7, <2>8 DEF IngestRight, Genesis, RowBalances, NoAudit, NoState
<1>12. DeployRight'
  <2>1. PICK d : d = deploy'
    OBVIOUS
  <2>2. /\ d = [phase |-> d.phase, row |-> d.row, store |-> d.store, at |-> d.at,
                rewind |-> d.rewind, lineage |-> d.lineage]
        /\ d.phase = "ingest" /\ d.lineage \in Nat
    BY <1>5, <1>8, <2>1
  <2>3. state' = NoState
    BY <1>4, <1>5 DEF IngestRight
  <2> QED  BY <1>11, <2>1, <2>2, <2>3 DEF DeployRight
<1>13. AuditRight'
  <2>1. audit' = NoAudit /\ told' = {} /\ IsFiniteSet(told') /\ Cardinality(told') = 0
    BY <1>4, <1>5, FS_EmptySet DEF IngestRight
  <2> QED  BY <1>5, <2>1, NoAuditRight
<1>14. LinesRight'
  BY <1>4, <1>8, LinesStay DEF AuditInv
<1>15. SamplerRight'
  BY <1>10 DEF SamplerRight, Injective
<1> QED  BY <1>4, <1>12, <1>13, <1>14, <1>15 DEF AuditInv, ExportRight, RowBalances

(* A sequence cut in two.                                                  *)
LEMMA CutInTwo ==
    ASSUME NEW R, NEW s \in Seq(R), Injective(s), NEW w \in 0 .. Len(s)
    PROVE  LET u == SubSeq(s, 1, w)
               v == SubSeq(s, w + 1, Len(s)) IN
           /\ v \in Seq(R) /\ Injective(v) /\ ToSet(u) \subseteq ToSet(s)
           /\ ToSet(v) \subseteq ToSet(s) /\ ToSet(v) \cap ToSet(u) = {}
<1>u. PICK u : u = SubSeq(s, 1, w)
  OBVIOUS
<1>v. PICK v : v = SubSeq(s, w + 1, Len(s))
  OBVIOUS
<1>1. PICK n : n = Len(s)
  OBVIOUS
<1>2. n \in Nat /\ w \in 0 .. n /\ DOMAIN s = 1 .. n /\ n - w \in Nat
  BY <1>1
<1>3. u \in Seq(R) /\ DOMAIN u = 1 .. w /\ \A i \in 1 .. w : u[i] = s[i]
  BY <1>u, <1>1, <1>2
<1>4. v \in Seq(R) /\ DOMAIN v = 1 .. (n - w) /\ \A i \in 1 .. (n - w) : v[i] = s[w + i]
  BY <1>v, <1>1, <1>2
<1>5. \A i \in 1 .. w : i \in 1 .. n
  BY <1>2
<1>6. \A i \in 1 .. (n - w) : w + i \in 1 .. n /\ w + i \notin 1 .. w
  BY <1>2
<1>7. Injective(v)
  <2>1. SUFFICES ASSUME NEW i \in 1 .. (n - w), NEW j \in 1 .. (n - w), v[i] = v[j] PROVE i = j
    BY <1>4 DEF Injective
  <2>2. s[w + i] = s[w + j] /\ w + i \in DOMAIN s /\ w + j \in DOMAIN s
    BY <1>2, <1>4, <1>6, <2>1
  <2>3. w + i = w + j
    BY <2>2 DEF Injective
  <2> QED  BY <1>2, <2>3
<1>8. ToSet(u) \subseteq ToSet(s) /\ ToSet(v) \subseteq ToSet(s)
  BY <1>2, <1>3, <1>4, <1>5, <1>6 DEF ToSet
<1>9. ASSUME NEW x, x \in ToSet(u), x \in ToSet(v) PROVE FALSE
  <2>1. PICK i \in 1 .. w : x = s[i]
    BY <1>3, <1>9 DEF ToSet
  <2>2. PICK j \in 1 .. (n - w) : x = s[w + j]
    BY <1>4, <1>9 DEF ToSet
  <2>3. i = w + j
    BY <1>2, <1>5, <1>6, <2>1, <2>2 DEF Injective
  <2> QED  BY <1>6, <2>3
<1> QED  BY <1>u, <1>v, <1>4, <1>7, <1>8, <1>9

(* A sequence without its head.                                            *)
LEMMA OneLess ==
    ASSUME NEW R, NEW s \in Seq(R), Injective(s), s # <<>>, NEW v, v = Tail(s)
    PROVE  /\ v \in Seq(R) /\ Injective(v) /\ ToSet(s) = ToSet(v) \cup {Head(s)}
           /\ Head(s) \notin ToSet(v)
<1>1. PICK n : n = Len(s)
  OBVIOUS
<1>2. n \in Nat /\ DOMAIN s = 1 .. n /\ n \in Nat \ {0}
  BY <1>1
<1>3. v \in Seq(R) /\ DOMAIN v = 1 .. (n - 1) /\ \A i \in 1 .. (n - 1) : v[i] = s[i + 1]
  BY <1>1, <1>2
<1>4. Head(s) = s[1] /\ 1 \in 1 .. n
  BY <1>2
<1>5. \A i \in 1 .. (n - 1) : i + 1 \in 1 .. n /\ i + 1 # 1
  BY <1>2
<1>6. \A j \in 1 .. n : j = 1 \/ (j - 1 \in 1 .. (n - 1) /\ v[j - 1] = s[j])
  BY <1>2, <1>3
<1>7. Injective(v)
  BY <1>2, <1>3, <1>5 DEF Injective
<1>8. \A x : x \in ToSet(v) <=> \E i \in 1 .. (n - 1) : x = s[i + 1]
  BY <1>3 DEF ToSet
<1>9. \A x : x \in ToSet(s) <=> \E i \in 1 .. n : x = s[i]
  BY <1>2 DEF ToSet
<1>10. \A x : x \in ToSet(v) => x \in ToSet(s) /\ x # s[1]
  BY <1>2, <1>4, <1>5, <1>8, <1>9 DEF Injective
<1>11. \A x : x \in ToSet(s) => x \in ToSet(v) \/ x = s[1]
  <2>1. SUFFICES ASSUME NEW j \in 1 .. n, j # 1 PROVE s[j] \in ToSet(v)
    BY <1>9
  <2>2. j - 1 \in 1 .. (n - 1) /\ v[j - 1] = s[j]
    BY <1>6, <2>1
  <2> QED  BY <1>3, <2>2 DEF ToSet
<1>12. s[1] \in ToSet(s)
  BY <1>4, <1>9
<1> QED  BY <1>3, <1>4, <1>7, <1>10, <1>11, <1>12

(* An audit whose process, sample and truth stay is as right as before.    *)
LEMMA AuditStays ==
    ASSUME AuditRight, UNCHANGED <<world, export, sampler, audit, told>>,
           deploy'.phase = deploy.phase
    PROVE  AuditRight'
<1>1. Wrong(told)' = Wrong(told) /\ ToSet(sampler)' = ToSet(sampler)
      /\ ToSet(audit.todo)' = ToSet(audit.todo) /\ Injective(audit.todo)' = Injective(audit.todo)
  BY DEF Wrong, TruthAt, ToSet, Injective
<1>2. Checking => Checking'
  BY <1>1 DEF Checking
<1> QED  BY <1>2 DEF AuditRight

(* An audit that does not check is right, whatever the process does.       *)
LEMMA IdleAuditStays ==
    ASSUME AuditRight, UNCHANGED <<audit, told>>, audit.phase = "none"
    PROVE  AuditRight'
BY DEF AuditRight

(* What a sample is of is no more than it has places.                      *)
LEMMA SampleFits ==
    ASSUME SamplerRight
    PROVE  IsFiniteSet(ToSet(sampler)) /\ Cardinality(ToSet(sampler)) <= SampleCapacity
<1>1. PICK n : n = Len(sampler)
  OBVIOUS
<1>2. /\ n \in Nat /\ DOMAIN sampler = 1 .. n /\ n <= SampleCapacity /\ SampleCapacity \in Nat
      /\ sampler = [i \in 1 .. n |-> sampler[i]]
  BY <1>1, SnapshotAssumption DEF SamplerRight
<1>3. PICK T : T = ToSet(sampler)
  OBVIOUS
<1>4. sampler \in [1 .. n -> T] /\ \A x \in T : \E i \in 1 .. n : sampler[i] = x
  BY <1>2, <1>3 DEF ToSet
<1>5. ExistsSurjection(1 .. n, T)
  BY <1>4 DEF ExistsSurjection, Surjection
<1>6. IsFiniteSet(T)
  BY <1>2, <1>5, FS_NatSurjection
<1>7. Cardinality(T) <= n /\ Cardinality(T) \in Nat
  BY <1>2, <1>5, <1>6, FS_SurjCardinalityBound, FS_CardinalityType
<1> QED  BY <1>2, <1>3, <1>6, <1>7

(* All rows are in.                                                        *)
LEMMA IngestIsDone ==
    ASSUME AuditInv, deploy.phase = "ingest", deploy.row > Len(RowOrder)
    PROVE  Replayed(deploy.store, deploy.at, deploy.rewind)
<1>1. /\ IngestRight /\ world \in Worlds /\ Len(RowOrder) \in Nat
      /\ DOMAIN RowOrder = 1 .. Len(RowOrder)
  BY ChainAssumption DEF AuditInv, DeployRight
<1>2. PICK n : n = Len(RowOrder)
  OBVIOUS
<1>3. \A i \in 1 .. n : i \in 1 .. (deploy.row - 1)
  BY <1>1, <1>2 DEF IngestRight
<1>4. ASSUME NEW a \in Rows PROVE deploy.store[a] = export.balance[a]
  <2>1. PICK i \in 1 .. n : a = RowOrder[i]
    BY <1>1, <1>2, <1>4 DEF Rows, Range
  <2> QED  BY <1>1, <1>3, <2>1 DEF IngestRight
<1>5. /\ deploy.store \in RowBalances /\ deploy.rewind \in 0 .. (SNAPSHOT_BLOCK - 1)
      /\ deploy.at = Genesis(deploy.rewind)
  BY <1>1 DEF IngestRight
<1> QED  BY <1>1, <1>4, <1>5, ReplayNone

(* The deployment is up with the export's balances, and checks the first   *)
(* rows of the sample.                                                     *)
LEMMA ServeKeeps ==
    ASSUME AuditInv, Serve
    PROVE  AuditInv'
<1>1. /\ deploy.phase = "ingest" /\ deploy.row > Len(RowOrder)
      /\ deploy' = [deploy EXCEPT !.phase = "up"]
      /\ state' \in {StateOf(deploy), NoState} /\ healthz' = LineOf(sidecar)
      /\ UNCHANGED <<world, export, sampler, sidecar, told>>
  BY Zenon DEF Serve
<1>2. IngestRight /\ Replayed(deploy.store, deploy.at, deploy.rewind) /\ SamplerRight
  BY <1>1, IngestIsDone DEF AuditInv, DeployRight
<1>3. /\ deploy' = [phase |-> "up", row |-> deploy.row, store |-> deploy.store, at |-> deploy.at,
                    rewind |-> deploy.rewind, lineage |-> deploy.lineage]
      /\ deploy.lineage \in Nat
  BY <1>1 DEF AuditInv, DeployRight
<1>4. Replayed(deploy.store, deploy.at, deploy.rewind)'
  <2>1. PICK store : store = deploy.store
    OBVIOUS
  <2>2. PICK at : at = deploy.at
    OBVIOUS
  <2>3. PICK rewind : rewind = deploy.rewind
    OBVIOUS
  <2>4. Replayed(store, at, rewind)'
    BY <1>1, <1>2, <2>1, <2>2, <2>3, ReplayedStays
  <2>5. deploy'.store = store /\ deploy'.at = at /\ deploy'.rewind = rewind
    BY <1>3, <2>1, <2>2, <2>3
  <2> QED  BY <2>4, <2>5
<1>5. state' # NoState =>
         /\ state'.lineage = deploy'.lineage /\ state'.store = deploy'.store
         /\ state'.at = deploy'.at /\ state'.rewind = deploy'.rewind
  BY <1>1, <1>3 DEF StateOf
<1>6. DeployRight'
  <2>1. PICK d : d = deploy'
    OBVIOUS
  <2>2. /\ d = [phase |-> d.phase, row |-> d.row, store |-> d.store, at |-> d.at,
                rewind |-> d.rewind, lineage |-> d.lineage]
        /\ d.phase = "up" /\ d.lineage \in Nat
    BY <1>3, <2>1
  <2>3. state' # NoState =>
           state'.lineage = deploy'.lineage /\ Replayed(state.store, state.at, state.rewind)'
    BY <1>4, <1>5
  <2> QED  BY <1>4, <2>1, <2>2, <2>3 DEF DeployRight, NoState
<1>7. SamplerRight'
  BY <1>1, <1>2 DEF SamplerRight, Injective
<1>8. told = {} /\ told' = {} /\ audit = NoAudit
  BY <1>1, <1>2 DEF IngestRight
<1>9. AuditRight'
  <2>1. /\ IsFiniteSet(told') /\ Cardinality(told') = 0 /\ Cardinality(told') <= SampleCapacity
        /\ Cardinality(Wrong(told)') = 0
    <3>1. Wrong(told)' = {}
      BY <1>8 DEF Wrong
    <3> QED  BY <1>8, <3>1, FS_EmptySet, SnapshotAssumption
  <2>2. CASE sampler = <<>>
    <3>1. audit' = NoAudit
      BY <2>2, Zenon DEF Serve
    <3> QED  BY <2>1, <3>1, NoAuditRight
  <2>3. CASE sampler # <<>>
    <3>1. PICK n : n = Len(sampler)
      OBVIOUS
    <3>2. PICK w : w = IF n < AUDIT_CONCURRENCY THEN n ELSE AUDIT_CONCURRENCY
      OBVIOUS
    <3>3. n \in Nat /\ w \in 0 .. n
      BY <1>2, <3>1, <3>2, SnapshotAssumption DEF SamplerRight
    <3>4. PICK u : u = SubSeq(sampler, 1, w)
      OBVIOUS
    <3>5. PICK v : v = SubSeq(sampler, w + 1, Len(sampler))
      OBVIOUS
    <3>6. audit' = [NoAudit EXCEPT !.phase = "checks", !.running = ToSet(u), !.todo = v]
      BY <2>3, <3>1, <3>2, <3>4, <3>5, Zenon DEF Serve
    <3>7. audit' = [phase |-> "checks", todo |-> v, running |-> ToSet(u), checked |-> 0,
                    disagreed |-> 0]
      BY <3>6 DEF NoAudit
    <3>8. /\ v \in Seq(Rows) /\ Injective(v) /\ ToSet(u) \subseteq ToSet(sampler)
          /\ ToSet(v) \subseteq ToSet(sampler) /\ ToSet(v) \cap ToSet(u) = {}
      <4>1. sampler \in Seq(Rows)
        BY <1>2 DEF SamplerRight
      <4>2. Injective(sampler)
        BY <1>2 DEF SamplerRight
      <4>3. w \in 0 .. Len(sampler)
        BY <3>1, <3>3
      <4>4. PICK R : R = Rows
        OBVIOUS
      <4>5. PICK s : s = sampler
        OBVIOUS
      <4>6. s \in Seq(R)
        BY <4>1, <4>4, <4>5
      <4>7. Injective(s)
        BY <4>2, <4>5
      <4>8. w \in 0 .. Len(s)
        BY <4>3, <4>5
      <4>9. /\ SubSeq(s, w + 1, Len(s)) \in Seq(R) /\ Injective(SubSeq(s, w + 1, Len(s)))
            /\ ToSet(SubSeq(s, 1, w)) \subseteq ToSet(s)
            /\ ToSet(SubSeq(s, w + 1, Len(s))) \subseteq ToSet(s)
            /\ ToSet(SubSeq(s, w + 1, Len(s))) \cap ToSet(SubSeq(s, 1, w)) = {}
        BY <4>6, <4>7, <4>8, CutInTwo, Zenon
      <4> QED  BY <3>4, <3>5, <4>4, <4>5, <4>9
    <3>9. PICK x : x = audit'
      OBVIOUS
    <3>10. /\ x.phase = "checks" /\ x.todo = v /\ x.running = ToSet(u) /\ x.checked = 0
           /\ x.disagreed = 0
           /\ x = [phase |-> x.phase, todo |-> x.todo, running |-> x.running,
                   checked |-> x.checked, disagreed |-> x.disagreed]
      BY <3>7, <3>9
    <3>11. Checking'
      <4>1. /\ Injective(audit.todo)' /\ ToSet(audit.todo)' = ToSet(v)
            /\ ToSet(sampler)' = ToSet(sampler)
        BY <1>1, <3>8, <3>9, <3>10 DEF Injective, ToSet
      <4>2. deploy'.phase = "up"
        BY <1>3
      <4> QED  BY <1>8, <2>1, <3>8, <3>9, <3>10, <4>1, <4>2 DEF Checking
    <3> QED
      <4>1. v \in Seq(Rows)'
        BY <3>8 DEF Rows
      <4> QED  BY <2>1, <3>9, <3>10, <3>11, <4>1 DEF AuditRight
  <2> QED  BY <2>2, <2>3
<1>10. LinesRight'
  <2>1. sidecar.known => sidecar.of \in 0 .. deploy.lineage /\ sidecar.of # deploy.lineage
    BY <1>1 DEF AuditInv, LinesRight, LineFor
  <2>2. healthz' = NoLine \/ healthz' = sidecar
    BY <1>1 DEF LineOf
  <2>3. sidecar' = sidecar /\ deploy'.lineage = deploy.lineage /\ deploy'.phase = "up"
    BY <1>1, <1>3
  <2>4. LineFor(sidecar)'
    BY <2>1, <2>3 DEF LineFor
  <2>5. healthz'.known => LineFor(healthz)'
    BY <2>1, <2>2, <2>3 DEF LineFor, NoLine
  <2>6. IsLine(sidecar)' /\ IsLine(healthz)'
    BY <2>2, <2>3 DEF AuditInv, LinesRight, IsLine
  <2> QED  BY <2>1, <2>3, <2>4, <2>5, <2>6 DEF LinesRight
<1> QED  BY <1>1, <1>6, <1>7, <1>9, <1>10 DEF AuditInv, ExportRight, RowBalances

(* A check ends: its row is told, or was not checked, and the next begins. *)
LEMMA CheckedKeeps ==
    ASSUME AuditInv, NEW a \in audit.running, NEW agreed \in BOOLEAN, Checked(a, agreed)
    PROVE  AuditInv'
<1>1. /\ UNCHANGED <<world, export, deploy, sampler, healthz, state, sidecar>>
      /\ told' = IF agreed THEN told \cup {a} ELSE told
      /\ audit' = [audit EXCEPT
            !.running = (@ \ {a}) \cup (IF audit.todo = <<>> THEN {} ELSE {Head(audit.todo)}),
            !.todo = IF @ = <<>> THEN @ ELSE Tail(@),
            !.checked = @ + (IF agreed THEN 1 ELSE 0),
            !.disagreed = @ + (IF agreed /\ TruthAt(AuditedAt)[a] # export.balance[a]
                               THEN 1 ELSE 0)]
  BY Zenon DEF Checked
<1>2. /\ Checking /\ audit.phase = "checks" /\ AuditRight /\ SamplerRight
      /\ audit.todo \in Seq(Rows) /\ deploy.phase = "up"
  BY DEF AuditInv, AuditRight, Checking
<1>3. PICK next : next = IF audit.todo = <<>> THEN {} ELSE {Head(audit.todo)}
  OBVIOUS
<1>4. PICK v : v = IF audit.todo = <<>> THEN audit.todo ELSE Tail(audit.todo)
  OBVIOUS
<1>5. PICK c : c = IF agreed THEN 1 ELSE 0
  OBVIOUS
<1>6. PICK d : d = IF agreed /\ TruthAt(AuditedAt)[a] # export.balance[a] THEN 1 ELSE 0
  OBVIOUS
<1>7. audit' = [phase |-> "checks", todo |-> v, running |-> (audit.running \ {a}) \cup next,
                checked |-> audit.checked + c, disagreed |-> audit.disagreed + d]
  <2>1. audit' = [audit EXCEPT !.running = (@ \ {a}) \cup next, !.todo = v,
                               !.checked = @ + c, !.disagreed = @ + d]
    BY <1>1, <1>3, <1>4, <1>5, <1>6
  <2> QED  BY <1>2, <2>1 DEF AuditRight
<1>8. /\ v \in Seq(Rows) /\ Injective(v) /\ ToSet(audit.todo) = ToSet(v) \cup next
      /\ next \cap ToSet(v) = {}
  <2>1. Injective(audit.todo)
    BY <1>2 DEF Checking
  <2>2. CASE audit.todo = <<>>
    <3>1. ToSet(v) = ToSet(audit.todo) /\ next = {} /\ v = audit.todo
      BY <1>3, <1>4, <2>2
    <3> QED  BY <1>2, <2>1, <3>1
  <2>3. CASE audit.todo # <<>>
    <3>1. PICK s : s = audit.todo
      OBVIOUS
    <3>2. s \in Seq(Rows)
      BY <1>2, <3>1
    <3>3. Injective(s)
      BY <2>1, <3>1
    <3>4. s # <<>>
      BY <2>3, <3>1
    <3>5. v = Tail(s)
      BY <1>4, <2>3, <3>1
    <3> HIDE DEF Rows
    <3>6. /\ v \in Seq(Rows) /\ Injective(v) /\ ToSet(s) = ToSet(v) \cup {Head(s)}
          /\ Head(s) \notin ToSet(v)
      BY <3>2, <3>3, <3>4, <3>5, OneLess, Zenon
    <3>7. next = {Head(s)}
      BY <1>3, <2>3, <3>1
    <3> QED  BY <3>1, <3>6, <3>7
  <2> QED  BY <2>2, <2>3
<1>9. PICK T : T = told'
  OBVIOUS
<1>10. /\ told \subseteq T /\ T \subseteq told \cup {a} /\ (a \in T <=> agreed) /\ a \notin told
       /\ T \subseteq ToSet(sampler)
  BY <1>1, <1>2, <1>9 DEF Checking
<1>11. IsFiniteSet(told) /\ Cardinality(told) \in Nat
  BY <1>2, FS_CardinalityType DEF AuditRight
<1>12. IsFiniteSet(T) /\ Cardinality(T) = Cardinality(told) + c /\ Cardinality(T) <= SampleCapacity
  <2>1. IsFiniteSet(T) /\ Cardinality(T) <= Cardinality(ToSet(sampler))
        /\ IsFiniteSet(ToSet(sampler)) /\ Cardinality(ToSet(sampler)) <= SampleCapacity
    BY <1>2, <1>10, SampleFits, FS_Subset
  <2>2. Cardinality(T) \in Nat /\ Cardinality(ToSet(sampler)) \in Nat
    BY <2>1, FS_CardinalityType
  <2>3. Cardinality(T) = Cardinality(told) + c
    <3>1. CASE agreed
      <4>1. T = told \cup {a}
        BY <1>1, <1>9, <3>1
      <4>2. Cardinality(T) = Cardinality(told) + 1
        BY <1>10, <1>11, <4>1, FS_AddElement
      <4> QED  BY <1>5, <3>1, <4>2
    <3>2. CASE ~agreed
      BY <1>1, <1>5, <1>9, <1>11, <3>2
    <3> QED  BY <3>1, <3>2
  <2> QED  BY <2>1, <2>2, <2>3, SnapshotAssumption
<1>13. Cardinality(Wrong(T)) = Cardinality(Wrong(told)) + d
  <2>1. IsFiniteSet(Wrong(told)) /\ Cardinality(Wrong(told)) \in Nat
    <3>1. Wrong(told) \in SUBSET told
      BY DEF Wrong
    <3> QED  BY <1>11, <3>1, FS_Subset, FS_CardinalityType
  <2>2. PICK bad : bad = (export.balance[a] # TruthAt(SNAPSHOT_BLOCK)[a])
    OBVIOUS
  <2>3. d = IF agreed /\ bad THEN 1 ELSE 0
    BY <1>6, <2>2 DEF AuditedAt
  <2>4. CASE agreed /\ bad
    <3>1. Wrong(T) = Wrong(told) \cup {a} /\ a \notin Wrong(told)
      BY <1>10, <2>2, <2>4 DEF Wrong
    <3>2. Cardinality(Wrong(T)) = Cardinality(Wrong(told)) + 1
      BY <2>1, <3>1, FS_AddElement
    <3> QED  BY <2>3, <2>4, <3>2
  <2>5. CASE ~(agreed /\ bad)
    <3>1. Wrong(T) = Wrong(told)
      BY <1>10, <2>2, <2>5 DEF Wrong
    <3> QED  BY <2>1, <2>3, <2>5, <3>1
  <2> QED  BY <2>4, <2>5
<1>14. Wrong(told)' = Wrong(T)
  BY <1>1, <1>9 DEF Wrong, TruthAt
<1>15. PICK x : x = audit'
  OBVIOUS
<1>16. /\ x.phase = "checks" /\ x.todo = v /\ x.running = (audit.running \ {a}) \cup next
       /\ x.checked = audit.checked + c /\ x.disagreed = audit.disagreed + d
       /\ x = [phase |-> x.phase, todo |-> x.todo, running |-> x.running,
               checked |-> x.checked, disagreed |-> x.disagreed]
  BY <1>7, <1>15
<1>17. Checking'
  <2>1. /\ Injective(audit.todo)' /\ ToSet(audit.todo)' = ToSet(v)
        /\ ToSet(sampler)' = ToSet(sampler)
    <3>1. audit'.todo = v /\ sampler' = sampler
      BY <1>1, <1>15, <1>16
    <3>2. Injective(v)
      BY <1>8
    <3> QED  BY <3>1, <3>2 DEF Injective, ToSet
  <2>2. PICK S : S = ToSet(sampler)
    OBVIOUS
  <2>3. PICK V : V = ToSet(v)
    OBVIOUS
  <2>4. PICK W : W = ToSet(audit.todo)
    OBVIOUS
  <2>5. PICK R : R = audit.running
    OBVIOUS
  <2>6. /\ W = V \cup next /\ next \cap V = {} /\ W \subseteq S /\ R \subseteq S
        /\ R \cap told = {} /\ W \cap (told \cup R) = {} /\ a \in R
    BY <1>2, <1>8, <2>2, <2>3, <2>4, <2>5 DEF Checking
  <2>7. /\ T \subseteq S /\ (R \ {a}) \cup next \subseteq S /\ V \subseteq S
        /\ ((R \ {a}) \cup next) \cap T = {}
        /\ V \cap (T \cup (R \ {a}) \cup next) = {}
    BY <1>10, <2>2, <2>6
  <2>8. x.checked = Cardinality(T) /\ x.disagreed = Cardinality(Wrong(T))
    BY <1>2, <1>12, <1>13, <1>16 DEF Checking
  <2>9. deploy'.phase = "up"
    BY <1>1, <1>2
  <2>10. x.running = (R \ {a}) \cup next
    BY <1>16, <2>5
  <2> QED  BY <1>9, <1>14, <1>15, <2>1, <2>2, <2>3, <2>7, <2>8, <2>9, <2>10 DEF Checking
<1>18. AuditRight'
  <2>1. v \in Seq(Rows)'
    BY <1>8 DEF Rows
  <2> QED  BY <1>9, <1>12, <1>15, <1>16, <1>17, <2>1 DEF AuditRight
<1>19. LinesRight'
  <2>1. /\ deploy.phase = "up" /\ LineFor(sidecar) /\ (healthz.known => LineFor(healthz))
        /\ IsLine(healthz) /\ IsLine(sidecar)
    BY <1>2 DEF AuditInv, LinesRight
  <2>2. \A line : LineFor(line) => LineFor(line)'
    BY <1>1, <1>2 DEF LineFor
  <2> QED  BY <1>1, <2>1, <2>2 DEF AuditInv, LinesRight, LineFor, IsLine
<1>20. DeployRight'
  <2>1. Replayed(deploy.store, deploy.at, deploy.rewind)'
    <3>1. Replayed(deploy.store, deploy.at, deploy.rewind)
      BY <1>2 DEF AuditInv, DeployRight
    <3> QED  BY <1>1, <3>1 DEF Replayed, WrittenIn, Chain, TruthAt, HeadBlock
  <2>2. state # NoState => Replayed(state.store, state.at, state.rewind)'
    <3>1. state # NoState => Replayed(state.store, state.at, state.rewind)
      BY DEF AuditInv, DeployRight
    <3> QED  BY <1>1, <3>1 DEF Replayed, WrittenIn, Chain, TruthAt, HeadBlock
  <2> QED  BY <1>1, <1>2, <2>1, <2>2 DEF AuditInv, DeployRight, NoState
<1>21. SamplerRight'
  BY <1>1, <1>2 DEF SamplerRight, Injective
<1> QED  BY <1>1, <1>18, <1>19, <1>20, <1>21 DEF AuditInv, ExportRight, RowBalances

(* The deployment and what is saved stay as right as before.               *)
LEMMA DeployStays ==
    ASSUME DeployRight, deploy.phase # "ingest", UNCHANGED <<world, export, deploy, state>>
    PROVE  DeployRight'
<1>1. deploy.phase = "up" => Replayed(deploy.store, deploy.at, deploy.rewind)'
  <2>1. deploy.phase = "up" => Replayed(deploy.store, deploy.at, deploy.rewind)
    BY DEF DeployRight
  <2> QED  BY <2>1 DEF Replayed, WrittenIn, Chain, TruthAt, HeadBlock
<1>2. state # NoState => Replayed(state.store, state.at, state.rewind)'
  <2>1. state # NoState => Replayed(state.store, state.at, state.rewind)
    BY DEF DeployRight
  <2> QED  BY <2>1 DEF Replayed, WrittenIn, Chain, TruthAt, HeadBlock
<1> QED  BY <1>1, <1>2 DEF DeployRight, NoState

(* The line of this start's audit.                                         *)
LEMMA ReportKeeps ==
    ASSUME AuditInv, Report
    PROVE  AuditInv'
<1>1. /\ audit.phase = "checks" /\ audit.running = {}
      /\ audit' = [audit EXCEPT !.phase = "reported"]
      /\ healthz' = [known |-> TRUE, torn |-> FALSE, checked |-> audit.checked,
                     disagreed |-> audit.disagreed, of |-> deploy.lineage]
      /\ UNCHANGED <<world, export, deploy, sampler, state, sidecar, told>>
  BY Zenon DEF Report
<1>2. Checking /\ AuditRight /\ LinesRight /\ deploy.phase = "up" /\ deploy.lineage \in Nat
  BY <1>1 DEF AuditInv, AuditRight, Checking, DeployRight
<1>3. audit' = [phase |-> "reported", todo |-> audit.todo, running |-> {},
                checked |-> audit.checked, disagreed |-> audit.disagreed]
  BY <1>1, <1>2 DEF AuditRight
<1>4. AuditRight'
  <2>1. PICK x : x = audit'
    OBVIOUS
  <2>2. /\ x.phase = "reported" /\ x.todo = audit.todo /\ x.running = {}
        /\ x = [phase |-> x.phase, todo |-> x.todo, running |-> x.running,
                checked |-> x.checked, disagreed |-> x.disagreed]
    BY <1>3, <2>1
  <2>3. x.todo \in Seq(Rows)'
    BY <1>2, <2>2 DEF AuditRight, Rows
  <2> QED  BY <1>1, <1>2, <2>1, <2>2, <2>3 DEF AuditRight
<1>5. LinesRight'
  <2>1. LineFor(sidecar)'
    <3>1. LineFor(sidecar)
      BY <1>2 DEF LinesRight
    <3>2. sidecar.known => sidecar.of \in 0 .. deploy.lineage /\ sidecar.of # deploy.lineage
      BY <1>1, <3>1 DEF LineFor
    <3> QED  BY <1>1, <3>2 DEF LineFor
  <2>2. Wrong(told)' = Wrong(told)
    BY <1>1 DEF Wrong, TruthAt
  <2>3. RightLine(healthz)'
    <3>1. healthz'.checked = Cardinality(told) /\ healthz'.disagreed = Cardinality(Wrong(told))
      BY <1>1, <1>2 DEF Checking
    <3>2. Cardinality(told) <= SampleCapacity
      BY <1>2 DEF AuditRight
    <3> QED  BY <1>1, <2>2, <3>1, <3>2 DEF RightLine
  <2>4. LineFor(healthz)'
    <3>1. /\ healthz'.of \in 0 .. deploy'.lineage /\ audit'.phase # "checks"
          /\ deploy'.phase # "ingest"
      BY <1>1, <1>2, <1>3
    <3> QED  BY <2>3, <3>1 DEF LineFor
  <2>5. IsLine(healthz)' /\ IsLine(sidecar)'
    <3>1. PICK h : h = healthz'
      OBVIOUS
    <3>2. h = [known |-> TRUE, torn |-> h.torn, checked |-> h.checked,
               disagreed |-> h.disagreed, of |-> h.of]
      BY <1>1, <3>1
    <3>3. IsLine(sidecar)
      BY <1>2 DEF LinesRight
    <3> QED  BY <1>1, <3>1, <3>2, <3>3 DEF IsLine
  <2> QED  BY <1>1, <1>2, <2>1, <2>4, <2>5 DEF LinesRight
<1>6. DeployRight'
  BY <1>1, <1>2, DeployStays DEF AuditInv
<1>7. SamplerRight'
  BY <1>1 DEF AuditInv, SamplerRight, Injective
<1> QED  BY <1>1, <1>4, <1>5, <1>6, <1>7 DEF AuditInv, ExportRight, RowBalances

(* The line is on disk, or could not be written.                           *)
LEMMA WriteSidecarKeeps ==
    ASSUME AuditInv, WriteSidecar
    PROVE  AuditInv'
<1>1. /\ audit.phase = "reported" /\ audit' = [audit EXCEPT !.phase = "none"]
      /\ sidecar' \in {sidecar, healthz}
      /\ UNCHANGED <<world, export, deploy, sampler, healthz, state, told>>
  BY Zenon DEF WriteSidecar
<1>2. AuditRight /\ LinesRight /\ deploy.phase = "up"
  BY <1>1 DEF AuditInv, AuditRight
<1>3. audit' = [phase |-> "none", todo |-> audit.todo, running |-> {},
                checked |-> audit.checked, disagreed |-> audit.disagreed]
  BY <1>1, <1>2 DEF AuditRight
<1>4. AuditRight'
  <2>1. PICK x : x = audit'
    OBVIOUS
  <2>2. /\ x.phase = "none" /\ x.todo = audit.todo /\ x.running = {}
        /\ x = [phase |-> x.phase, todo |-> x.todo, running |-> x.running,
                checked |-> x.checked, disagreed |-> x.disagreed]
    BY <1>3, <2>1
  <2>3. x.todo \in Seq(Rows)'
    BY <1>2, <2>2 DEF AuditRight, Rows
  <2> QED  BY <1>1, <1>2, <2>1, <2>2, <2>3 DEF AuditRight
<1>5. LinesRight'
  <2>1. audit'.phase = "none"
    BY <1>3
  <2>2. ASSUME NEW line, LineFor(line) PROVE LineFor(line)'
    <3>1. RightLine(line) => RightLine(line)'
      BY <1>1 DEF RightLine, Wrong, TruthAt
    <3> QED  BY <1>1, <2>1, <2>2, <3>1 DEF LineFor
  <2>3. /\ LineFor(sidecar) /\ (healthz.known => LineFor(healthz))
        /\ IsLine(healthz) /\ IsLine(sidecar)
    BY <1>2 DEF LinesRight
  <2>4. LineFor(healthz)
    BY <2>3 DEF LineFor
  <2>5. PICK s : s = sidecar'
    OBVIOUS
  <2>6. LineFor(s) /\ IsLine(s)
    BY <1>1, <2>3, <2>4, <2>5
  <2>7. LineFor(sidecar)' /\ IsLine(sidecar)'
    BY <2>2, <2>5, <2>6 DEF LineFor, IsLine, RightLine, Wrong
  <2>8. LineFor(healthz)' /\ IsLine(healthz)'
    BY <1>1, <2>2, <2>3, <2>4 DEF LineFor, IsLine, RightLine, Wrong
  <2>9. sidecar'.known => sidecar'.of \in 0 .. deploy'.lineage
    BY <2>7 DEF LineFor
  <2> QED  BY <1>1, <1>2, <2>7, <2>8, <2>9 DEF LinesRight
<1>6. DeployRight'
  BY <1>1, <1>2, DeployStays DEF AuditInv
<1>7. SamplerRight'
  BY <1>1 DEF AuditInv, SamplerRight, Injective
<1> QED  BY <1>1, <1>4, <1>5, <1>6, <1>7 DEF AuditInv, ExportRight, RowBalances

(* The follow loop is one block further.                                   *)
LEMMA ReplayBlockKeeps ==
    ASSUME AuditInv, ReplayBlock
    PROVE  AuditInv'
<1>1. /\ deploy.phase = "up" /\ deploy.at < HeadBlock
      /\ deploy' = [deploy EXCEPT !.store = AfterBlocks(@, world.blocks[deploy.at + 1]),
                                  !.at = @ + 1]
      /\ UNCHANGED <<world, export, sampler, audit, healthz, state, sidecar, told>>
  BY Zenon DEF ReplayBlock
<1>2. PICK store : store = AfterBlocks(deploy.store, Chain[deploy.at + 1])
  OBVIOUS
<1>3. PICK at : at = deploy.at + 1
  OBVIOUS
<1>4. PICK rewind : rewind = deploy.rewind
  OBVIOUS
<1>5. /\ deploy' = [phase |-> "up", row |-> deploy.row, store |-> store, at |-> at,
                    rewind |-> rewind, lineage |-> deploy.lineage]
      /\ deploy.lineage \in Nat
  BY <1>1, <1>2, <1>3, <1>4 DEF AuditInv, DeployRight, Chain
<1>6. Replayed(store, at, rewind)
  <2>1. /\ Replayed(deploy.store, deploy.at, deploy.rewind) /\ world \in Worlds
        /\ export.balance \in RowBalances
    BY <1>1 DEF AuditInv, DeployRight, ExportRight
  <2> QED  BY <1>1, <1>2, <1>3, <1>4, <2>1, ReplayOne
<1>7. Replayed(deploy.store, deploy.at, deploy.rewind)'
  <2>1. Replayed(store, at, rewind)'
    BY <1>1, <1>6, ReplayedStays
  <2>2. deploy'.store = store /\ deploy'.at = at /\ deploy'.rewind = rewind
    BY <1>5
  <2> QED  BY <2>1, <2>2
<1>8. state # NoState => Replayed(state.store, state.at, state.rewind)'
  <2>1. state # NoState => Replayed(state.store, state.at, state.rewind)
    BY DEF AuditInv, DeployRight
  <2> QED  BY <1>1, <2>1 DEF Replayed, WrittenIn, Chain, TruthAt, HeadBlock
<1>9. DeployRight'
  <2>1. PICK d : d = deploy'
    OBVIOUS
  <2>2. /\ d = [phase |-> d.phase, row |-> d.row, store |-> d.store, at |-> d.at,
                rewind |-> d.rewind, lineage |-> d.lineage]
        /\ d.phase = "up" /\ d.lineage = deploy.lineage /\ d.lineage \in Nat
    BY <1>5, <2>1
  <2>3. state # NoState => state.lineage = deploy.lineage
    BY DEF AuditInv, DeployRight
  <2> QED  BY <1>1, <1>7, <1>8, <2>1, <2>2, <2>3 DEF DeployRight, NoState
<1>10. LinesRight' /\ AuditRight'
  BY <1>1, <1>5, LinesStay, AuditStays DEF AuditInv
<1>11. SamplerRight'
  BY <1>1 DEF AuditInv, SamplerRight, Injective
<1> QED  BY <1>1, <1>9, <1>10, <1>11 DEF AuditInv, ExportRight, RowBalances

(* The state is saved.                                                     *)
LEMMA SaveAgainKeeps ==
    ASSUME AuditInv, SaveAgain
    PROVE  AuditInv'
<1>1. /\ deploy.phase = "up" /\ state' = StateOf(deploy)
      /\ UNCHANGED <<world, export, deploy, sampler, audit, healthz, sidecar, told>>
  BY Zenon DEF SaveAgain
<1>2. Replayed(deploy.store, deploy.at, deploy.rewind)'
  <2>1. Replayed(deploy.store, deploy.at, deploy.rewind)
    BY <1>1 DEF AuditInv, DeployRight
  <2> QED  BY <1>1, <2>1 DEF Replayed, WrittenIn, Chain, TruthAt, HeadBlock
<1>3. /\ state'.lineage = deploy'.lineage /\ state'.store = deploy'.store
      /\ state'.at = deploy'.at /\ state'.rewind = deploy'.rewind
  BY <1>1 DEF StateOf
<1>4. Replayed(state.store, state.at, state.rewind)'
  BY <1>2, <1>3
<1>5. DeployRight'
  BY <1>1, <1>2, <1>3, <1>4 DEF AuditInv, DeployRight
<1>6. LinesRight' /\ AuditRight'
  BY <1>1, LinesStay, AuditStays DEF AuditInv
<1>7. SamplerRight'
  BY <1>1 DEF AuditInv, SamplerRight, Injective
<1> QED  BY <1>1, <1>5, <1>6, <1>7 DEF AuditInv, ExportRight, RowBalances

(* What was on disk stays; a torn line is of the start it was of.          *)
LEMMA KilledKeeps ==
    ASSUME AuditInv, Killed
    PROVE  AuditInv'
<1>1. /\ deploy.phase # "down" /\ deploy' = [Down EXCEPT !.lineage = deploy.lineage]
      /\ sampler' = <<>> /\ audit' = NoAudit /\ healthz' = NoLine
      /\ sidecar' \in {sidecar, IF sidecar.known THEN [sidecar EXCEPT !.torn = TRUE] ELSE sidecar}
      /\ UNCHANGED <<world, export, state, told>>
  BY Zenon DEF Killed
<1>2. /\ deploy' = [phase |-> "down", row |-> 0, store |-> Down.store, at |-> 0,
                    rewind |-> 0, lineage |-> deploy.lineage]
      /\ deploy.lineage \in Nat /\ SampleCapacity \in Nat
  BY <1>1, DownIs, SnapshotAssumption DEF AuditInv, DeployRight
<1>3. DeployRight'
  <2>1. state # NoState => Replayed(state.store, state.at, state.rewind)'
    <3>1. state # NoState => Replayed(state.store, state.at, state.rewind)
      BY DEF AuditInv, DeployRight
    <3> QED  BY <1>1, <3>1 DEF Replayed, WrittenIn, Chain, TruthAt, HeadBlock
  <2>2. PICK d : d = deploy'
    OBVIOUS
  <2>3. /\ d = [phase |-> d.phase, row |-> d.row, store |-> d.store, at |-> d.at,
                rewind |-> d.rewind, lineage |-> d.lineage]
        /\ d.phase = "down" /\ d.lineage = deploy.lineage /\ d.lineage \in Nat
    BY <1>2, <2>2
  <2>4. state # NoState => state.lineage = deploy.lineage
    BY DEF AuditInv, DeployRight
  <2> QED  BY <1>1, <2>1, <2>2, <2>3, <2>4 DEF DeployRight, NoState
<1>4. SamplerRight'
  BY <1>1, <1>2 DEF SamplerRight, Injective
<1>5. AuditRight'
  <2>1. IsFiniteSet(told') /\ Cardinality(told') <= SampleCapacity
    BY <1>1 DEF AuditInv, AuditRight
  <2> QED  BY <1>1, <2>1, NoAuditRight
<1>6. LinesRight'
  <2>1. PICK s : s = sidecar'
    OBVIOUS
  <2>2. LineFor(sidecar) /\ IsLine(sidecar)
    BY <1>1 DEF AuditInv, LinesRight
  <2>3. s = sidecar \/ (sidecar.known /\ s = [sidecar EXCEPT !.torn = TRUE])
    BY <1>1, <2>1
  <2>6. LineFor(s) /\ IsLine(s)
    <3>1. CASE s = sidecar
      BY <2>2, <3>1
    <3>2. CASE sidecar.known /\ s = [sidecar EXCEPT !.torn = TRUE]
      <4>1. sidecar = [known |-> TRUE, torn |-> sidecar.torn, checked |-> sidecar.checked,
                       disagreed |-> sidecar.disagreed, of |-> sidecar.of]
        BY <2>2, <3>2 DEF IsLine, NoLine
      <4>2. s = [known |-> TRUE, torn |-> TRUE, checked |-> sidecar.checked,
                 disagreed |-> sidecar.disagreed, of |-> sidecar.of]
        BY <3>2, <4>1
      <4>3. s.known /\ s.of = sidecar.of /\ s.checked = sidecar.checked
            /\ s.disagreed = sidecar.disagreed
            /\ s = [known |-> TRUE, torn |-> s.torn, checked |-> s.checked,
                    disagreed |-> s.disagreed, of |-> s.of]
        BY <4>2
      <4> QED  BY <2>2, <3>2, <4>3 DEF LineFor, RightLine, IsLine
    <3> QED  BY <2>3, <3>1, <3>2
  <2>7. /\ audit'.phase = "none" /\ deploy'.phase = "down" /\ deploy'.lineage = deploy.lineage
        /\ Wrong(told)' = Wrong(told)
    BY <1>1, <1>2 DEF NoAudit, Wrong, TruthAt
  <2>8. LineFor(sidecar)'
    BY <1>1, <2>1, <2>6, <2>7 DEF LineFor, RightLine
  <2>9. IsLine(sidecar)' /\ IsLine(healthz)' /\ ~healthz'.known
    BY <1>1, <2>1, <2>6 DEF IsLine, NoLine
  <2> QED  BY <2>7, <2>8, <2>9 DEF LinesRight, LineFor
<1> QED  BY <1>1, <1>3, <1>4, <1>5, <1>6 DEF AuditInv, ExportRight, RowBalances

(* A start from the state file goes on from what was saved.                *)
LEMMA LoadStateKeeps ==
    ASSUME AuditInv, LoadState
    PROVE  AuditInv'
<1>1. /\ deploy.phase = "down" /\ state # NoState
      /\ deploy' = [deploy EXCEPT !.phase = "up", !.store = state.store, !.at = state.at,
                                  !.rewind = state.rewind, !.lineage = state.lineage]
      /\ healthz' = LineOf(sidecar)
      /\ UNCHANGED <<world, export, sampler, audit, state, sidecar, told>>
  BY Zenon DEF LoadState
<1>2. /\ state.lineage = deploy.lineage /\ deploy.lineage \in Nat
      /\ Replayed(state.store, state.at, state.rewind)
  BY <1>1 DEF AuditInv, DeployRight
<1>3. deploy' = [phase |-> "up", row |-> deploy.row, store |-> state.store, at |-> state.at,
                 rewind |-> state.rewind, lineage |-> deploy.lineage]
  BY <1>1, <1>2 DEF AuditInv, DeployRight
<1>4. Replayed(state.store, state.at, state.rewind)'
  BY <1>1, <1>2 DEF Replayed, WrittenIn, Chain, TruthAt, HeadBlock
<1>5. /\ deploy'.store = state'.store /\ deploy'.at = state'.at /\ deploy'.rewind = state'.rewind
      /\ deploy'.lineage = state'.lineage /\ deploy'.lineage = deploy.lineage
  BY <1>1, <1>2, <1>3
<1>6. DeployRight'
  <2>1. PICK d : d = deploy'
    OBVIOUS
  <2>2. /\ d = [phase |-> d.phase, row |-> d.row, store |-> d.store, at |-> d.at,
                rewind |-> d.rewind, lineage |-> d.lineage]
        /\ d.phase = "up" /\ d.lineage \in Nat
    BY <1>2, <1>3, <2>1
  <2>3. Replayed(deploy.store, deploy.at, deploy.rewind)'
    BY <1>4, <1>5
  <2> QED  BY <1>4, <1>5, <2>1, <2>2, <2>3 DEF DeployRight, NoState
<1>7. audit.phase = "none"
  BY <1>1 DEF AuditInv, AuditRight, Checking
<1>8. AuditRight'
  BY <1>1, <1>7, IdleAuditStays DEF AuditInv
<1>9. SamplerRight'
  BY <1>1 DEF AuditInv, SamplerRight, Injective
<1>10. LinesRight'
  <2>1. LineFor(sidecar) /\ IsLine(sidecar)
    BY <1>1 DEF AuditInv, LinesRight
  <2>2. healthz' = NoLine \/ healthz' = sidecar
    BY <1>1 DEF LineOf
  <2>3. /\ sidecar' = sidecar /\ deploy'.phase = "up" /\ audit'.phase = "none"
        /\ deploy'.lineage = deploy.lineage /\ Wrong(told)' = Wrong(told)
    <3>1. Wrong(told)' = Wrong(told)
      BY <1>1 DEF Wrong, TruthAt
    <3>2. deploy'.phase = "up" /\ deploy'.lineage = deploy.lineage
      BY <1>3
    <3>3. sidecar' = sidecar /\ audit' = audit
      BY <1>1
    <3> QED  BY <1>7, <3>1, <3>2, <3>3
  <2>4. LineFor(sidecar)'
    BY <1>1, <2>1, <2>3 DEF LineFor, RightLine
  <2>5. healthz'.known => LineFor(healthz)'
    BY <1>1, <2>1, <2>2, <2>3 DEF LineFor, RightLine, NoLine
  <2>6. IsLine(healthz)' /\ IsLine(sidecar)'
    BY <2>1, <2>2, <2>3 DEF IsLine
  <2>7. sidecar'.known => sidecar'.of \in 0 .. deploy'.lineage
    BY <2>4 DEF LineFor
  <2> QED  BY <2>3, <2>4, <2>5, <2>6, <2>7 DEF LinesRight
<1> QED  BY <1>1, <1>6, <1>8, <1>9, <1>10 DEF AuditInv, ExportRight, RowBalances

(* Another export has no state and no line yet.                            *)
LEMMA ReplacedKeeps ==
    ASSUME AuditInv, Replaced
    PROVE  AuditInv'
<1>1. /\ deploy.phase = "down" /\ state' = NoState /\ export' \in Exports
      /\ UNCHANGED <<world, deploy, sampler, audit, healthz, sidecar, told>>
  BY Zenon DEF Replaced
<1>2. ExportRight'
  <2>1. PICK x : x = export'
    OBVIOUS
  <2>2. world \in Worlds /\ x \in Exports
    BY <1>1, <2>1 DEF AuditInv
  <2>3. x.balance \in RowBalances /\ x.exact \in 1 .. SNAPSHOT_BLOCK
    BY <2>2, ExportsAre
  <2> QED  BY <2>1, <2>3 DEF ExportRight, RowBalances
<1>3. DeployRight'
  BY <1>1 DEF AuditInv, DeployRight, NoState
<1>4. AuditRight'
  <2>1. audit.phase = "none"
    BY <1>1 DEF AuditInv, AuditRight, Checking
  <2> QED  BY <1>1, <2>1, IdleAuditStays DEF AuditInv
<1>5. SamplerRight'
  BY <1>1 DEF AuditInv, SamplerRight, Injective
<1>6. LinesRight'
  BY <1>1 DEF AuditInv, LinesRight, IsLine
<1> QED  BY <1>1, <1>2, <1>3, <1>4, <1>5, <1>6 DEF AuditInv

(* The inductive step.                                                     *)
LEMMA SnapshotNextRight == AuditInv /\ [SnapshotNext]_snapshotVars => AuditInv'
<1> SUFFICES ASSUME AuditInv, [SnapshotNext]_snapshotVars PROVE AuditInv'
  OBVIOUS
<1>1. CASE SnapshotNext
  <2>1. CASE CheckAgreed
    <3>1. PICK a \in audit.running : Checked(a, TRUE)
      BY <2>1 DEF CheckAgreed
    <3>2. TRUE \in BOOLEAN
      OBVIOUS
    <3> QED  BY <3>1, <3>2, CheckedKeeps
  <2>2. CASE CheckWithoutQuorum
    <3>1. PICK a \in audit.running : Checked(a, FALSE)
      BY <2>2 DEF CheckWithoutQuorum
    <3>2. FALSE \in BOOLEAN
      OBVIOUS
    <3> QED  BY <3>1, <3>2, CheckedKeeps
  <2> QED
    BY <1>1, <2>1, <2>2, IngestKeeps, IngestRowKeeps, ServeKeeps, ReportKeeps, WriteSidecarKeeps,
       ReplayBlockKeeps, SaveAgainKeeps, KilledKeeps, LoadStateKeeps, ReplacedKeeps
    DEF SnapshotNext
<1>2. CASE UNCHANGED snapshotVars
  <2>1. UNCHANGED <<world, export, deploy, sampler, audit, healthz, state, sidecar, upsets, told>>
    BY <1>2 DEF snapshotVars
  <2>2. AuditRight'
    BY <2>1, AuditStays DEF AuditInv
  <2>3. LinesRight'
    BY <2>1, LinesStay DEF AuditInv
  <2>4. DeployRight'
    <3>1. CASE deploy.phase # "ingest"
      BY <2>1, <3>1, DeployStays DEF AuditInv
    <3>2. CASE deploy.phase = "ingest"
      <4>1. IngestRight
        BY <3>2 DEF AuditInv, DeployRight
      <4>2. IngestRight'
        BY <2>1, <4>1 DEF IngestRight, Genesis, RowBalances, NoAudit, NoState
      <4> QED  BY <2>1, <3>2, <4>1, <4>2 DEF AuditInv, DeployRight, IngestRight, NoState
    <3> QED  BY <3>1, <3>2
  <2>5. SamplerRight'
    BY <2>1 DEF AuditInv, SamplerRight, Injective
  <2> QED  BY <2>1, <2>2, <2>3, <2>4, <2>5 DEF AuditInv, ExportRight, RowBalances
<1> QED  BY <1>1, <1>2

(* A deployment that starts from somebody else's export of every balance   *)
(* (snapshot_rewind.rs, mainnet.rs:860, snapshot_audit.rs:466) heals, and  *)
(* its /healthz counts what the providers said of that very export: for    *)
(* every chain, order of rows, depth of rewind, size of the sample and of  *)
(* the window of checks, and through any kills, restarts and replacements. *)
THEOREM AuditIsAlwaysTrue == SnapshotSpec => []AuditIsTrue
<1>1. SnapshotInit => AuditInv
  BY SnapshotInitRight
<1>2. AuditInv /\ [SnapshotNext]_snapshotVars => AuditInv'
  BY SnapshotNextRight
<1>3. AuditInv => AuditIsTrue
  <2> SUFFICES ASSUME AuditInv PROVE AuditIsTrue
    OBVIOUS
  <2>1. RewindHeals
    <3>1. CASE deploy.phase = "up"
      <4>1. /\ world \in Worlds /\ export.balance \in RowBalances /\ export.exact \in Int
            /\ Replayed(deploy.store, deploy.at, deploy.rewind)
        BY <3>1, SnapshotAssumption DEF AuditInv, ExportRight, DeployRight
      <4> QED  BY <4>1, ReplayHeals
    <3>2. CASE deploy.phase # "up"
      BY <3>2 DEF RewindHeals
    <3> QED  BY <3>1, <3>2
  <2>2. CountsAreTheExports
    BY DEF AuditInv, LinesRight, LineFor, RightLine, Wrong, CountsAreTheExports
  <2> QED  BY <2>1, <2>2 DEF AuditIsTrue
<1> QED  BY <1>1, <1>2, <1>3, PTL DEF SnapshotSpec
=============================================================================
