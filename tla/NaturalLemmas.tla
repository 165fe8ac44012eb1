---------------------------- MODULE NaturalLemmas -----------------------------
(***************************************************************************)
(* Least and greatest elements of sets of natural numbers, induction,      *)
(* functions defined by recursion, and what a fold of the community modules*)
(* over a sequence computes.                                               *)
(***************************************************************************)
EXTENDS Integers, WellFoundedInduction, TLAPS

(* The order of the natural numbers is well founded.                       *)
LEMMA NatLess == IsWellFoundedOn({ss \in Nat \X Nat : ss[1] < ss[2]}, Nat)
BY NatLessThanWellFounded DEF OpToRel

(* A nonempty set of natural numbers has a least element.                  *)
LEMMA LeastNat ==
    ASSUME NEW T \in SUBSET Nat, T # {}
    PROVE  \E m \in T : \A k \in T : m <= k
<1> DEFINE R == {ss \in Nat \X Nat : ss[1] < ss[2]}
<1>1. IsWellFoundedOn(R, Nat)
  BY NatLess
<1> HIDE DEF R
<1>2. PICK m \in T : \A k \in T : ~(<<k, m>> \in R)
  BY <1>1, WFMin, Zenon
<1>3. \A k \in T : ~(k < m)
  BY <1>2 DEF R
<1> QED
  BY <1>3

(* A nonempty bounded set of natural numbers has a greatest element.       *)
LEMMA GreatestNat ==
    ASSUME NEW T \in SUBSET Nat, T # {}, NEW bound \in Nat, \A k \in T : k <= bound
    PROVE  \E m \in T : \A k \in T : k <= m
<1> DEFINE D == {bound - k : k \in T}
<1>1. \A k \in T : k \in Nat /\ bound - k \in Nat
  OBVIOUS
<1>2. D \in SUBSET Nat
  BY <1>1
<1>3. D # {}
  OBVIOUS
<1> HIDE DEF D
<1>4. PICK d \in D : \A e \in D : d <= e
  BY <1>2, <1>3, LeastNat
<1>5. PICK m \in T : d = bound - m
  BY DEF D
<1>6. ASSUME NEW k \in T PROVE k <= m
  <2>1. bound - k \in D
    BY DEF D
  <2>2. bound - m <= bound - k
    BY <1>4, <1>5, <2>1
  <2> QED
    BY <1>1, <2>2
<1> QED
  BY <1>6

(* What holds of 0, and of every number up to n when it holds of the one   *)
(* before, holds of all of them.  W lists the numbers' properties, as sets *)
(* of which the i-th contains f[i].                                        *)
LEMMA UpToNat ==
    ASSUME NEW n \in Nat, NEW W, NEW f, f[0] \in W[0],
           \A i \in 1 .. n : f[i - 1] \in W[i - 1] => f[i] \in W[i]
    PROVE  \A i \in 0 .. n : f[i] \in W[i]
<1> DEFINE T == {i \in 0 .. n : f[i] \notin W[i]}
<1> SUFFICES ASSUME T # {} PROVE FALSE
  OBVIOUS
<1>1. T \in SUBSET Nat
  OBVIOUS
<1>2. PICK m \in T : \A k \in T : m <= k
  <2> HIDE DEF T
  <2> QED
    BY <1>1, LeastNat
<1>3. m \in 0 .. n /\ f[m] \notin W[m]
  OBVIOUS
<1>4. m # 0
  BY <1>3
<1>5. m \in 1 .. n /\ m - 1 \in 0 .. n
  BY <1>3, <1>4
<1>6. m - 1 \notin T
  BY <1>2, <1>3
<1>7. f[m - 1] \in W[m - 1]
  BY <1>5, <1>6
<1> QED
  BY <1>3, <1>5, <1>7

(* A loop with n rounds over values of V: what each round makes of a       *)
(* value, and the values that it goes through from b on.                   *)
Rounds(n, V) == [1 .. n -> [V -> V]]

Passes(n, V, b, g) ==
    {f \in [0 .. n -> V] : f[0] = b /\ \A i \in 1 .. n : f[i] = g[i][f[i - 1]]}

(* A function on 0 .. n may be defined by its value at 0 and by how each   *)
(* value follows from the one before.                                      *)
LEMMA RecursionUpToNat ==
    ASSUME NEW n \in Nat, NEW V, NEW b \in V, NEW g \in Rounds(n, V)
    PROVE  Passes(n, V, b, g) # {}
<1> USE DEF Rounds
<1> DEFINE Up(k) == {f \in [0 .. k -> V] : f[0] = b /\ \A i \in 1 .. k : f[i] = g[i][f[i - 1]]}
           T == {k \in 0 .. n : Up(k) = {}}
<1>13. SUFFICES T = {}
  <2>1. n \in 0 .. n /\ Up(n) = Passes(n, V, b, g)
    BY DEF Passes
  <2> HIDE DEF Up
  <2> QED
    BY <1>13, <2>1
<1> SUFFICES ASSUME T # {} PROVE FALSE
  OBVIOUS
<1>1. T \in SUBSET Nat
  OBVIOUS
<1>2. PICK m \in T : \A k \in T : m <= k
  <2> HIDE DEF T
  <2> QED
    BY <1>1, LeastNat
<1>3. m \in 0 .. n /\ Up(m) = {}
  OBVIOUS
<1>4. m # 0
  <2>1. [i \in 0 .. 0 |-> b] \in Up(0)
    OBVIOUS
  <2> QED
    BY <1>3, <2>1
<1>5. m \in 1 .. n /\ m - 1 \in 0 .. n /\ m - 1 \notin T
  <2>1. m \in 1 .. n /\ m - 1 \in 0 .. n /\ ~(m <= m - 1)
    BY <1>3, <1>4
  <2> HIDE DEF T
  <2> QED
    BY <1>2, <2>1
<1>6. PICK f : f \in Up(m - 1)
  BY <1>5
<1>7. PICK h : h = [i \in 0 .. m |-> IF i = m THEN g[m][f[m - 1]] ELSE f[i]]
  OBVIOUS
<1>8. f \in [0 .. m - 1 -> V] /\ f[0] = b /\ \A i \in 1 .. m - 1 : f[i] = g[i][f[i - 1]]
  BY <1>6
<1>9. f[m - 1] \in V /\ g[m] \in [V -> V]
  BY <1>5, <1>8
<1>10. h \in [0 .. m -> V] /\ h[0] = b
  BY <1>5, <1>7, <1>8, <1>9
<1>11. ASSUME NEW i \in 1 .. m PROVE h[i] = g[i][h[i - 1]]
  <2>1. CASE i = m
    BY <1>5, <1>7, <2>1
  <2>2. CASE i # m
    <3>1. i \in 1 .. m - 1 /\ i - 1 \in 0 .. m - 1 /\ i - 1 # m
      BY <1>5, <2>2
    <3>2. h[i] = f[i] /\ h[i - 1] = f[i - 1]
      BY <1>5, <1>7, <2>2, <3>1
    <3> QED
      BY <1>8, <3>1, <3>2
  <2> QED
    BY <2>1, <2>2
<1>12. h \in Up(m)
  BY <1>10, <1>11
<1> QED
  BY <1>3, <1>12

(* Two loops that agree on what they start from and on their first rounds  *)
(* go through the same values.                                             *)
LEMMA PassesAgree ==
    ASSUME NEW n \in Nat, NEW V, NEW b \in V, NEW g \in Rounds(n, V),
           NEW m \in Nat, NEW h \in Rounds(m, V), NEW f \in Passes(n, V, b, g),
           NEW e \in Passes(m, V, b, h), NEW k \in 0 .. n, k <= m,
           \A i \in 1 .. k : g[i] = h[i]
    PROVE  \A i \in 0 .. k : f[i] = e[i] /\ f[i] \in V
<1>1. PICK W : W = [i \in 0 .. k |-> {v \in V : v = e[i]}]
  OBVIOUS
<1>2. /\ f \in [0 .. n -> V] /\ f[0] = b /\ \A i \in 1 .. n : f[i] = g[i][f[i - 1]]
      /\ e \in [0 .. m -> V] /\ e[0] = b /\ \A i \in 1 .. m : e[i] = h[i][e[i - 1]]
  BY DEF Passes
<1>3. \A i \in 0 .. k : \A v : v \in W[i] <=> v \in V /\ v = e[i]
  BY <1>1
<1>4. f[0] \in W[0]
  BY <1>2, <1>3
<1>5. ASSUME NEW i \in 1 .. k, f[i - 1] \in W[i - 1]
      PROVE  f[i] \in W[i]
  <2>1. i - 1 \in 0 .. k /\ i \in 0 .. k /\ i \in 1 .. n /\ i \in 1 .. m /\ i \in 0 .. n
    OBVIOUS
  <2>2. f[i - 1] = e[i - 1] /\ g[i] = h[i]
    BY <1>3, <1>5, <2>1
  <2>3. f[i] = e[i] /\ f[i] \in V
    BY <1>2, <2>1, <2>2
  <2> QED  BY <1>3, <2>1, <2>3
<1>6. k \in Nat
  OBVIOUS
<1>7. \A i \in 0 .. k : f[i] \in W[i]
  BY <1>4, <1>5, <1>6, UpToNat
<1> QED  BY <1>3, <1>7

(* One round more is one step more from where the loop was.                *)
LEMMA PassesExtend ==
    ASSUME NEW n \in Nat, NEW V, NEW b \in V, NEW g \in Rounds(n, V),
           NEW h \in Rounds(n + 1, V), NEW f \in Passes(n, V, b, g),
           NEW e \in Passes(n + 1, V, b, h), \A i \in 1 .. n : g[i] = h[i]
    PROVE  f[n] \in V /\ e[n + 1] = h[n + 1][f[n]]
<1>1. PICK m : m = n + 1
  OBVIOUS
<1>2. /\ m \in Nat /\ n \in 0 .. n /\ n <= m /\ m \in 1 .. m /\ m - 1 = n
      /\ h \in Rounds(m, V) /\ e \in Passes(m, V, b, h)
  BY <1>1
<1>3. \A i \in 0 .. n : f[i] = e[i] /\ f[i] \in V
  <2>1. \A i \in 1 .. n : g[i] = h[i]
    OBVIOUS
  <2> QED  BY <1>2, <2>1, PassesAgree, SMTT(60)
<1>4. e[m] = h[m][e[m - 1]]
  BY <1>2 DEF Passes
<1> QED  BY <1>1, <1>2, <1>3, <1>4

(* A loop changes nothing in the rounds that leave every value.            *)
LEMMA PassesIdle ==
    ASSUME NEW n \in Nat, NEW V, NEW b \in V, NEW g \in Rounds(n, V),
           NEW f \in Passes(n, V, b, g), NEW k \in 0 .. n,
           \A i \in k + 1 .. n : \A v \in V : g[i][v] = v
    PROVE  f[n] = f[k] /\ f[k] \in V
<1>1. /\ f \in [0 .. n -> V] /\ f[0] = b /\ \A i \in 1 .. n : f[i] = g[i][f[i - 1]]
  BY DEF Passes
<1>2. PICK W : W = [i \in 0 .. n |-> {v \in V : i >= k => v = f[k]}]
  OBVIOUS
<1>3. \A i \in 0 .. n : \A v : v \in W[i] <=> v \in V /\ (i >= k => v = f[k])
  BY <1>2
<1>4. f[0] \in W[0]
  BY <1>1, <1>3
<1>5. ASSUME NEW i \in 1 .. n, f[i - 1] \in W[i - 1]
      PROVE  f[i] \in W[i]
  <2>1. i - 1 \in 0 .. n /\ i \in 0 .. n
    OBVIOUS
  <2>2. f[i] \in V /\ f[i - 1] \in V
    BY <1>1, <2>1
  <2>3. CASE i <= k
    BY <1>3, <2>1, <2>2, <2>3
  <2>4. CASE i > k
    <3>1. i \in k + 1 .. n /\ i - 1 >= k
      BY <2>4
    <3>2. f[i - 1] = f[k]
      BY <1>3, <1>5, <2>1, <3>1
    <3>3. f[i] = f[i - 1]
      BY <1>1, <2>2, <3>1
    <3> QED  BY <1>3, <2>1, <2>2, <3>2, <3>3
  <2> QED  BY <2>3, <2>4
<1>6. \A i \in 0 .. n : f[i] \in W[i]
  BY <1>4, <1>5, UpToNat
<1>7. n \in 0 .. n /\ n >= k
  OBVIOUS
<1> QED  BY <1>1, <1>3, <1>6, <1>7

-----------------------------------------------------------------------------
(* The community modules fold from the left by the greatest element of a   *)
(* set of positions.                                                       *)
Top(t) == CHOOSE x \in t : \A y \in t : x >= y

Unfolds(k, n, b, g) ==
    k = [t \in SUBSET (1 .. n) |-> IF t = {} THEN b ELSE g[Top(t)][k[t \ {Top(t)}]]]

(* It is one of them, and none is greater.                                 *)
LEMMA TopIs ==
    ASSUME NEW n \in Nat, NEW t \in SUBSET (1 .. n), t # {}
    PROVE  /\ Top(t) \in t /\ \A y \in t : Top(t) >= y
<1>1. t \in SUBSET Nat /\ \A k \in t : k <= n
  OBVIOUS
<1>2. PICK m \in t : \A k \in t : k <= m
  BY <1>1, GreatestNat
<1>3. \A y \in t : m >= y
  BY <1>1, <1>2
<1> QED  BY <1>2, <1>3 DEF Top

(* There is such a fold: over a set, the loop that skips the rounds outside*)
(* the set.                                                                *)
LEMMA FoldExists ==
    ASSUME NEW n \in Nat, NEW V, NEW b \in V, NEW g \in Rounds(n, V)
    PROVE  \E k \in [SUBSET (1 .. n) -> V] : Unfolds(k, n, b, g)
<1> DEFINE Within(t) == [i \in 1 .. n |-> IF i \in t THEN g[i] ELSE [v \in V |-> v]]
<1> DEFINE Through(t) == CHOOSE f : f \in Passes(n, V, b, Within(t))
<1>1. \A t : Within(t) \in Rounds(n, V)
  BY DEF Rounds
<1>2. \A t : \A i \in 1 .. n : (i \in t => Within(t)[i] = g[i])
                            /\ (i \notin t => \A v \in V : Within(t)[i][v] = v)
  OBVIOUS
<1>3. ASSUME NEW t, NEW u, NEW i \in 1 .. n, i \in t <=> i \in u
      PROVE  Within(t)[i] = Within(u)[i]
  BY <1>3
<1> HIDE DEF Within
<1>4. \A t : Through(t) \in Passes(n, V, b, Within(t))
  <2> SUFFICES ASSUME NEW t PROVE Through(t) \in Passes(n, V, b, Within(t))
    OBVIOUS
  <2>1. PICK f : f \in Passes(n, V, b, Within(t))
    BY <1>1, RecursionUpToNat
  <2> QED  BY <2>1
<1> HIDE DEF Through
<1>5. PICK k : k = [t \in SUBSET (1 .. n) |-> Through(t)[n]]
  OBVIOUS
<1>6. k[{}] = b
  <2>1. Through({}) \in Passes(n, V, b, Within({})) /\ {} \in SUBSET (1 .. n) /\ 0 \in 0 .. n
    BY <1>4
  <2>2. \A i \in 0 + 1 .. n : \A v \in V : Within({})[i][v] = v
    BY <1>2
  <2>3. Through({})[n] = Through({})[0]
    BY <1>1, <2>1, <2>2, PassesIdle
  <2> QED  BY <1>5, <2>1, <2>3 DEF Passes
<1>7. ASSUME NEW t \in SUBSET (1 .. n), t # {}
      PROVE  k[t] = g[Top(t)][k[t \ {Top(t)}]]
  <2>1. PICK m : m = Top(t)
    OBVIOUS
  <2>2. m \in t /\ m \in 1 .. n /\ \A y \in t : m >= y
    BY <1>7, <2>1, TopIs
  <2>3. PICK u : u = t \ {m}
    OBVIOUS
  <2>4. u \in SUBSET (1 .. n) /\ m - 1 \in 0 .. n /\ m \in 0 .. n
    BY <2>2, <2>3
  <2>5. PICK f : f = Through(t)
    OBVIOUS
  <2>6. PICK e : e = Through(u)
    OBVIOUS
  <2>7. f \in Passes(n, V, b, Within(t)) /\ e \in Passes(n, V, b, Within(u))
    BY <1>4, <2>5, <2>6
  <2>8. \A i \in m + 1 .. n : \A v \in V : Within(t)[i][v] = v
    <3>1. \A i \in m + 1 .. n : i \in 1 .. n /\ i \notin t
      BY <2>2
    <3> QED  BY <1>2, <3>1
  <2>9. f[n] = f[m]
    BY <1>1, <2>4, <2>7, <2>8, PassesIdle
  <2>10. \A i \in (m - 1) + 1 .. n : \A v \in V : Within(u)[i][v] = v
    <3>1. \A i \in (m - 1) + 1 .. n : i \in 1 .. n /\ i \notin u
      BY <2>2, <2>3
    <3> QED  BY <1>2, <3>1
  <2>11. e[n] = e[m - 1]
    BY <1>1, <2>4, <2>7, <2>10, PassesIdle
  <2>12. \A i \in 1 .. m - 1 : Within(t)[i] = Within(u)[i]
    <3>1. \A i \in 1 .. m - 1 : i \in 1 .. n /\ (i \in t <=> i \in u)
      BY <2>2, <2>3
    <3> QED  BY <1>3, <3>1
  <2>13. f[m - 1] = e[m - 1]
    <3>1. m - 1 \in 0 .. m - 1 /\ m - 1 <= n
      BY <2>2
    <3>2. \A i \in 0 .. m - 1 : f[i] = e[i]
      BY <1>1, <2>4, <2>7, <2>12, <3>1, PassesAgree
    <3> QED  BY <3>1, <3>2
  <2>14. f[m] = g[m][f[m - 1]]
    BY <1>2, <2>2, <2>7 DEF Passes
  <2>15. k[t] = f[n] /\ k[u] = e[n]
    BY <1>5, <2>4, <2>5, <2>6
  <2> QED  BY <2>1, <2>3, <2>9, <2>11, <2>13, <2>14, <2>15
<1>8. k = [t \in SUBSET (1 .. n) |-> IF t = {} THEN b ELSE g[Top(t)][k[t \ {Top(t)}]]]
  BY <1>5, <1>6, <1>7
<1>9. \A t : Through(t)[n] \in V
  BY <1>4 DEF Passes
<1> QED  BY <1>5, <1>8, <1>9 DEF Unfolds

(* The positions up to one, and the greatest of them.                      *)
LEMMA TopOfFirst ==
    ASSUME NEW n \in Nat, NEW i \in 1 .. n
    PROVE  /\ (1 .. i) \in SUBSET (1 .. n) /\ (1 .. i) # {} /\ Top(1 .. i) = i
           /\ (1 .. i) \ {i} = 1 .. (i - 1)
<1>1. PICK t : t = 1 .. i
  OBVIOUS
<1>2. t \in SUBSET (1 .. n) /\ t # {} /\ i \in t /\ \A y \in t : y <= i
  BY <1>1
<1>3. Top(t) \in t /\ Top(t) >= i
  BY <1>2, TopIs
<1>4. Top(t) = i
  BY <1>1, <1>3
<1> QED  BY <1>1, <1>2, <1>4

(* And whatever unfolds so along the positions is the loop.                *)
LEMMA FoldIsTheLoop ==
    ASSUME NEW n \in Nat, NEW V, NEW b \in V, NEW g \in Rounds(n, V),
           NEW f \in Passes(n, V, b, g), NEW k, k[1 .. 0] = b,
           \A i \in 1 .. n :
               k[1 .. (i - 1)] \in V => k[1 .. i] = g[i][k[1 .. (i - 1)]]
    PROVE  k[1 .. n] = f[n]
<1>1. /\ f \in [0 .. n -> V] /\ f[0] = b /\ \A i \in 1 .. n : f[i] = g[i][f[i - 1]]
  BY DEF Passes
<1>2. PICK c : c = [i \in 0 .. n |-> k[1 .. i]]
  OBVIOUS
<1>3. PICK W : W = [i \in 0 .. n |-> {f[i]}]
  OBVIOUS
<1>4. c[0] \in W[0]
  BY <1>1, <1>2, <1>3
<1>5. ASSUME NEW i \in 1 .. n, c[i - 1] \in W[i - 1] PROVE c[i] \in W[i]
  <2>1. i - 1 \in 0 .. n /\ i \in 0 .. n
    OBVIOUS
  <2>2. k[1 .. (i - 1)] = f[i - 1] /\ f[i - 1] \in V
    BY <1>1, <1>2, <1>3, <1>5, <2>1
  <2>3. k[1 .. i] = f[i]
    BY <1>1, <2>2
  <2> QED  BY <1>2, <1>3, <2>1, <2>3
<1>6. \A i \in 0 .. n : c[i] \in W[i]
  BY <1>4, <1>5, UpToNat
<1>7. n \in 0 .. n
  OBVIOUS
<1> QED  BY <1>2, <1>3, <1>6, <1>7
-----------------------------------------------------------------------------
(* What a loop leaves behind, from b on.                                   *)
Looped(n, V, b, g) == (CHOOSE p : p \in Passes(n, V, b, g))[n]

(* It is the last value of any pass.                                       *)
LEMMA LoopedIs ==
    ASSUME NEW n \in Nat, NEW V, NEW b \in V, NEW g \in Rounds(n, V)
    PROVE  /\ Looped(n, V, b, g) \in V
           /\ \A p \in Passes(n, V, b, g) : Looped(n, V, b, g) = p[n]
<1>1. PICK q : q = CHOOSE p : p \in Passes(n, V, b, g)
  OBVIOUS
<1>2. q \in Passes(n, V, b, g) /\ Looped(n, V, b, g) = q[n]
  <2>1. Passes(n, V, b, g) # {}
    BY RecursionUpToNat
  <2> QED  BY <1>1, <2>1 DEF Looped
<1>3. n \in 0 .. n /\ n <= n /\ \A i \in 1 .. n : g[i] = g[i]
  OBVIOUS
<1>4. ASSUME NEW p \in Passes(n, V, b, g) PROVE q[n] = p[n] /\ q[n] \in V
  BY <1>2, <1>3, PassesAgree, SMTT(60)
<1> QED  BY <1>2, <1>4

(* No round leaves the value that the loop starts from.                    *)
LEMMA LoopedNone ==
    ASSUME NEW V, NEW b \in V, NEW g \in Rounds(0, V)
    PROVE  Looped(0, V, b, g) = b
<1>1. PICK p : p \in Passes(0, V, b, g)
  BY RecursionUpToNat
<1>2. Looped(0, V, b, g) = p[0]
  BY <1>1, LoopedIs
<1> QED  BY <1>1, <1>2 DEF Passes

(* One round more.                                                         *)
LEMMA LoopedMore ==
    ASSUME NEW n \in Nat, NEW V, NEW b \in V, NEW g \in Rounds(n, V),
           NEW h \in Rounds(n + 1, V), \A i \in 1 .. n : g[i] = h[i]
    PROVE  Looped(n + 1, V, b, h) = h[n + 1][Looped(n, V, b, g)]
<1>1. PICK p : p \in Passes(n, V, b, g)
  BY RecursionUpToNat
<1>2. PICK q : q \in Passes(n + 1, V, b, h)
  <2>1. n + 1 \in Nat
    OBVIOUS
  <2> QED  BY <2>1, RecursionUpToNat
<1>3. Looped(n, V, b, g) = p[n]
  BY <1>1, LoopedIs
<1>4. Looped(n + 1, V, b, h) = q[n + 1]
  <2>1. n + 1 \in Nat
    OBVIOUS
  <2> QED  BY <1>2, <2>1, LoopedIs
<1>5. q[n + 1] = h[n + 1][p[n]]
  BY <1>1, <1>2, PassesExtend
<1> QED  BY <1>3, <1>4, <1>5

(* A fold over positions is what its loop leaves.                          *)
FoldsBy(k, n, V, b, g) ==
    /\ k[{}] = b
    /\ \A t \in SUBSET (1 .. n) :
          t # {} /\ k[t \ {Top(t)}] \in V => k[t] = g[Top(t)][k[t \ {Top(t)}]]

(* So a fold is a loop.                                                    *)
LEMMA FoldIsLooped ==
    ASSUME NEW n \in Nat, NEW V, NEW b \in V, NEW g \in Rounds(n, V), NEW k,
           FoldsBy(k, n, V, b, g)
    PROVE  k[1 .. n] = Looped(n, V, b, g)
<1>1. PICK p : p \in Passes(n, V, b, g)
  BY RecursionUpToNat
<1>2. k[1 .. 0] = b
  <2>1. 1 .. 0 = {}
    OBVIOUS
  <2> QED  BY <2>1 DEF FoldsBy
<1>3. ASSUME NEW i \in 1 .. n, k[1 .. (i - 1)] \in V
      PROVE  k[1 .. i] = g[i][k[1 .. (i - 1)]]
  <2>1. /\ (1 .. i) \in SUBSET (1 .. n) /\ (1 .. i) # {} /\ Top(1 .. i) = i
        /\ (1 .. i) \ {i} = 1 .. (i - 1)
    BY TopOfFirst
  <2>2. PICK t : t = 1 .. i
    OBVIOUS
  <2>3. k[t \ {Top(t)}] \in V
    BY <1>3, <2>1, <2>2
  <2>4. k[t] = g[Top(t)][k[t \ {Top(t)}]]
    BY <2>1, <2>2, <2>3 DEF FoldsBy
  <2> QED  BY <2>1, <2>2, <2>4
<1>4. k[1 .. n] = p[n]
  BY <1>1, <1>2, <1>3, FoldIsTheLoop
<1> QED  BY <1>1, <1>4, LoopedIs

(* What holds before a round holds after it, round after round: of the     *)
(* values that the sets of W allow, a loop leaves one of the last.         *)
LEMMA LoopedWithin ==
    ASSUME NEW n \in Nat, NEW V, NEW b \in V, NEW g \in Rounds(n, V), NEW W, b \in W[0],
           \A i \in 1 .. n : \A v \in V : v \in W[i - 1] => g[i][v] \in W[i]
    PROVE  Looped(n, V, b, g) \in W[n]
<1>1. PICK p : p \in Passes(n, V, b, g)
  BY RecursionUpToNat
<1>2. /\ p \in [0 .. n -> V] /\ p[0] = b /\ \A i \in 1 .. n : p[i] = g[i][p[i - 1]]
  BY <1>1 DEF Passes
<1>3. p[0] \in W[0]
  BY <1>2
<1>4. ASSUME NEW i \in 1 .. n, p[i - 1] \in W[i - 1] PROVE p[i] \in W[i]
  <2>1. p[i - 1] \in V /\ p[i] = g[i][p[i - 1]]
    BY <1>2
  <2> QED  BY <1>4, <2>1
<1>5. \A i \in 0 .. n : p[i] \in W[i]
  BY <1>3, <1>4, UpToNat
<1>6. Looped(n, V, b, g) = p[n] /\ n \in 0 .. n
  BY <1>1, LoopedIs
<1> QED  BY <1>5, <1>6
===============================================================================
