--------------------------- MODULE TimerWheelProofs ---------------------------
(***************************************************************************)
(* Theorems about TimerWheel, for any number and size of wheels, any       *)
(* granule, any intervals and any lag.                                     *)
(*                                                                         *)
(* The argument: wheel k has turned (ticks \div Round(k)) times, and each  *)
(* node in it has a turn, not yet made, at which it leaves its spoke, and  *)
(* that is not after its dead_time (InTime).  Every call keeps that, and   *)
(* keeps each task in one list (Homes): Place, Deal, Cascade, Carry,       *)
(* TurnOn and OneSpokeOn have a lemma each, up to Wound, the invariant.    *)
(***************************************************************************)
EXTENDS TimerWheel, SequenceTheorems, WellFoundedInduction, TLAPS

(* Induction.  A set of naturals that is not empty has a least element;    *)
LEMMA Least ==
    ASSUME NEW T, T \subseteq Nat, T # {}
    PROVE  \E x \in T : \A y \in T : x <= y
<1> DEFINE R == OpToRel(<, Nat)
<1>1. R = {ss \in Nat \X Nat : ss[1] < ss[2]}
  BY DEF OpToRel
<1>2. IsWellFoundedOn(R, Nat)
  BY NatLessThanWellFounded
<1> HIDE DEF R
<1>3. PICK x \in T : \A y \in T : ~ (<<y, x>> \in R)
  BY <1>2, WFMin
<1>4. \A y \in T : ~(y < x)
  BY <1>1, <1>3
<1> QED
  BY <1>3, <1>4

(* so a set of numbers that is closed under "one more" up to n has them    *)
(* all, if it has 0.                                                       *)
LEMMA Induct ==
    ASSUME NEW T, NEW n \in Nat, 0 \in T, \A i \in 0..n - 1 : i \in T => i + 1 \in T
    PROVE  \A i \in 0..n : i \in T
<1> DEFINE U == {i \in Nat : i <= n /\ i \notin T}
<1>1. ASSUME U # {} PROVE FALSE
  <2>1. PICK m \in U : \A y \in U : m <= y
    BY <1>1, Least
  <2>2. m \in Nat /\ m <= n /\ m # 0
    OBVIOUS
  <2>3. m - 1 \in 0..n - 1 /\ m - 1 \in Nat /\ m - 1 <= n /\ ~(m <= m - 1) /\ (m - 1) + 1 = m
    BY <2>2
  <2>4. m - 1 \in T
    BY <2>1, <2>3
  <2> QED
    BY <2>3, <2>4
<1> QED
  BY <1>1

(* What holds first, and after each step if it held before it, holds last. *)
LEMMA Steps ==
    ASSUME NEW n \in Nat, NEW D, NEW f, f[0] \in D[0],
           \A i \in 1..n : f[i - 1] \in D[i - 1] => f[i] \in D[i]
    PROVE  \A i \in 0..n : f[i] \in D[i]
<1> DEFINE T == {i \in Nat : i <= n => f[i] \in D[i]}
<1>1. 0 \in T
  OBVIOUS
<1>2. ASSUME NEW i \in 0..n - 1, i \in T PROVE i + 1 \in T
  <2>1. i + 1 \in 1..n /\ (i + 1) - 1 = i /\ i \in Nat /\ i <= n
    OBVIOUS
  <2>2. f[i] \in D[i]
    BY <1>2, <2>1
  <2>3. f[i + 1] \in D[i + 1]
    BY <2>1, <2>2
  <2> QED
    BY <2>1, <2>3
<1> HIDE DEF T
<1>3. \A i \in 0..n : i \in T
  BY <1>1, <1>2, Induct
<1> QED
  BY <1>3 DEF T

(* A recursive function that starts with b and goes on by H, and stays in  *)
(* the sets D, exists.                                                     *)
Chain(g, b, H, D, n) ==
    /\ g = [i \in 0..n |-> IF i = 0 THEN b ELSE H[<<i, g[i - 1]>>]]
    /\ \A i \in 0..n : g[i] \in D[i]

LEMMA Recursion ==
    ASSUME NEW n \in Nat, NEW D, NEW H, NEW b \in D[0],
           \A i \in 1..n : \A y \in D[i - 1] : H[<<i, y>>] \in D[i]
    PROVE  \E g : Chain(g, b, H, D, n)
<1> DEFINE T == {m \in Nat : m <= n => \E g : Chain(g, b, H, D, m)}
<1>1. 0 \in T
  <2> DEFINE g == [i \in 0..0 |-> b]
  <2>1. g = [i \in 0..0 |-> IF i = 0 THEN b ELSE H[<<i, g[i - 1]>>]] /\ g[0] = b
    OBVIOUS
  <2>2. Chain(g, b, H, D, 0)
    BY <2>1 DEF Chain
  <2> QED
    BY <2>2
<1>2. ASSUME NEW m \in 0..n - 1, m \in T PROVE m + 1 \in T
  <2>0. m \in Nat /\ m + 1 \in Nat /\ m <= n /\ m + 1 \in 1..n /\ (m + 1) - 1 = m
        /\ m + 1 # 0 /\ m \in 0..m
    OBVIOUS
  <2>1. PICK g : Chain(g, b, H, D, m)
    BY <1>2, <2>0
  <2>2. /\ \A i \in 0..m : g[i] = IF i = 0 THEN b ELSE H[<<i, g[i - 1]>>]
        /\ \A i \in 0..m : g[i] \in D[i]
    BY <2>1 DEF Chain
  <2>3. PICK e \in D[m + 1] : e = H[<<m + 1, g[m]>>]
    BY <2>0, <2>2
  <2> DEFINE f == [i \in 0..m + 1 |-> IF i = m + 1 THEN e ELSE g[i]]
  <2>4. f[m + 1] = e /\ \A i \in 0..m : f[i] = g[i]
    BY <2>0
  <2>5. f = [i \in 0..m + 1 |-> f[i]]
    OBVIOUS
  <2> HIDE DEF f
  <2>6. ASSUME NEW i \in 0..m + 1
        PROVE  f[i] \in D[i] /\ f[i] = IF i = 0 THEN b ELSE H[<<i, f[i - 1]>>]
    <3>1. CASE i = m + 1
      BY <2>0, <2>3, <2>4, <3>1
    <3>2. CASE i # m + 1
      <4>1. i \in 0..m /\ (i # 0 => i - 1 \in 0..m)
        BY <2>0, <3>2
      <4> QED
        BY <2>2, <2>4, <4>1
    <3> QED
      BY <3>1, <3>2
  <2>7. [i \in 0..m + 1 |-> f[i]] = [i \in 0..m + 1 |-> IF i = 0 THEN b ELSE H[<<i, f[i - 1]>>]]
    BY <2>6
  <2>8. Chain(f, b, H, D, m + 1)
    BY <2>5, <2>6, <2>7 DEF Chain
  <2> QED
    BY <2>0, <2>8
<1> HIDE DEF T
<1>3. \A i \in 0..n : i \in T
  BY <1>1, <1>2, Induct
<1>4. n \in T
  BY <1>3
<1> QED
  BY <1>4 DEF T

-----------------------------------------------------------------------------
(* Lists of nodes by name, and what it is to wait in one of them.          *)
Nodes == [id : Nat, dead : Nat, interval : Nat, circle : BOOLEAN]

Names == Spokes \cup {Ready}
Lists == [Names -> Seq(Nodes)]

At(F, p, i, v) == i \in 1..Len(F[p]) /\ F[p][i] = v

(* Nodes that are told apart by their ids wait in the lists, each in one   *)
(* place, and S are their ids (OneHome).                                   *)
Apart(F) ==
    \A p, q \in Names : \A i, j \in Nat : \A u, v \in Nodes :
        At(F, p, i, u) /\ At(F, q, j, v) /\ u.id = v.id => p = q /\ i = j

Holds(F, S) ==
    \A d : d \in S <=> \E p \in Names : \E i \in Nat : \E v \in Nodes : At(F, p, i, v) /\ v.id = d

Homes(F, S) == Apart(F) /\ Holds(F, S)

(* G differs from F in no list but those of P.                             *)
SameBut(F, G, P) == \A q \in Names : q \notin P => G[q] = F[q]

(* Who waits in a list is a node, at one place.                            *)
LEMMA AtIs ==
    ASSUME NEW F \in Lists, NEW p \in Names, NEW i, NEW v, At(F, p, i, v)
    PROVE  i \in Nat /\ i >= 1 /\ v \in Nodes /\ \A u : At(F, p, i, u) => u = v
BY DEF At, Lists

LEMMA ListIs ==
    ASSUME NEW F \in Lists, NEW p \in Names
    PROVE  F[p] \in Seq(Nodes) /\ Len(F[p]) \in Nat
BY DEF Lists

(* A node more at the end of a list,                                       *)
LEMMA AppendAt ==
    ASSUME NEW F \in Lists, NEW G, NEW p \in Names, NEW node \in Nodes,
           G[p] = Append(F[p], node), SameBut(F, G, {p}),
           NEW q \in Names, NEW i \in Nat, NEW v \in Nodes
    PROVE  At(G, q, i, v) <=> At(F, q, i, v) \/ (q = p /\ i = Len(F[p]) + 1 /\ v = node)
<1>1. PICK f \in Seq(Nodes), m \in Nat : f = F[p] /\ m = Len(f)
  BY ListIs
<1>2. /\ Len(Append(f, node)) = m + 1 /\ Append(f, node)[m + 1] = node
      /\ \A k \in 1..m : Append(f, node)[k] = f[k]
  BY <1>1, AppendProperties
<1> QED
  BY <1>1, <1>2 DEF At, SameBut

(* a list that is emptied,                                                 *)
LEMMA EmptyAt ==
    ASSUME NEW F \in Lists, NEW G, NEW p \in Names, G[p] = <<>>, SameBut(F, G, {p}),
           NEW q \in Names, NEW i \in Nat, NEW v \in Nodes
    PROVE  At(G, q, i, v) <=> At(F, q, i, v) /\ q # p
BY DEF At, SameBut

(* a list that is put behind another,                                      *)
Spliced(F, G, r, p) == p # r /\ G[r] = F[r] \o F[p] /\ G[p] = <<>> /\ SameBut(F, G, {p, r})

LEMMA SpliceAt ==
    ASSUME NEW F \in Lists, NEW G, NEW r \in Names, NEW p \in Names, Spliced(F, G, r, p),
           NEW q \in Names, NEW i \in Nat, NEW v \in Nodes
    PROVE  At(G, q, i, v) <=> \/ At(F, q, i, v) /\ q # p
                              \/ q = r /\ i > Len(F[r]) /\ At(F, p, i - Len(F[r]), v)
<1>1. PICK f \in Seq(Nodes), m \in Nat : f = F[r] /\ m = Len(f)
  BY ListIs
<1>2. PICK g \in Seq(Nodes), n \in Nat : g = F[p] /\ n = Len(g)
  BY ListIs
<1>3. PICK h \in Seq(Nodes) : h = f \o g
  BY ConcatProperties
<1>4. Len(h) = m + n /\ \A k \in 1..m + n : h[k] = IF k <= m THEN f[k] ELSE g[k - m]
  <2>1. /\ Len(f \o g) = Len(f) + Len(g)
        /\ \A k \in 1..Len(f) + Len(g) :
               (f \o g)[k] = IF k <= Len(f) THEN f[k] ELSE g[k - Len(f)]
    BY ConcatProperties
  <2> QED
    BY <1>1, <1>2, <1>3, <2>1, Zenon
<1>5. CASE q = r
  <2>1. At(G, q, i, v) <=> i \in 1..m + n /\ h[i] = v
    BY <1>1, <1>2, <1>3, <1>4, <1>5 DEF At, Spliced
  <2>2. At(F, q, i, v) <=> i \in 1..m /\ f[i] = v
    BY <1>1, <1>5 DEF At
  <2>3. At(F, p, i - m, v) <=> i - m \in 1..n /\ g[i - m] = v
    BY <1>2 DEF At
  <2>4. CASE i <= m
    BY <1>1, <1>4, <1>5, <2>1, <2>2, <2>4 DEF Spliced
  <2>5. CASE i > m
    <3>1. i \in 1..m + n <=> i - m \in 1..n
      BY <2>5
    <3>2. i \in 1..m + n => h[i] = g[i - m]
      BY <1>4, <2>5
    <3>3. i \notin 1..m
      BY <2>5
    <3> QED
      BY <1>1, <1>5, <2>1, <2>2, <2>3, <2>5, <3>1, <3>2, <3>3
  <2> QED
    BY <2>4, <2>5
<1>6. CASE q # r
  BY <1>6 DEF At, SameBut, Spliced
<1> QED
  BY <1>5, <1>6

(* a list without its first node,                                          *)
LEMMA TailAt ==
    ASSUME NEW F \in Lists, NEW G, NEW r \in Names, F[r] # <<>>,
           G[r] = Tail(F[r]), SameBut(F, G, {r}),
           NEW q \in Names, NEW i \in Nat, NEW v \in Nodes
    PROVE  /\ At(G, q, i, v) <=> IF q = r THEN i >= 1 /\ At(F, r, i + 1, v) ELSE At(F, q, i, v)
           /\ At(F, r, 1, Head(F[r])) /\ Head(F[r]) \in Nodes
<1>1. PICK f \in Seq(Nodes), m \in Nat : f = F[r] /\ m = Len(f) /\ m >= 1
  BY ListIs
<1>2. PICK h \in Seq(Nodes) : h = Tail(f)
  BY <1>1, HeadTailProperties
<1>3. /\ Len(h) = m - 1 /\ \A k \in 1..m - 1 : h[k] = f[k + 1]
      /\ Head(f) = f[1] /\ Head(f) \in Nodes
  <2>1. f # <<>>
    BY <1>1
  <2>2. /\ Head(f) \in Nodes /\ Len(Tail(f)) = Len(f) - 1
        /\ \A k \in 1..Len(Tail(f)) : Tail(f)[k] = f[k + 1]
    BY <2>1, HeadTailProperties
  <2> QED
    BY <1>1, <1>2, <2>2
<1>4. CASE q = r
  <2>1. At(G, q, i, v) <=> i \in 1..m - 1 /\ h[i] = v
    BY <1>1, <1>2, <1>3, <1>4 DEF At
  <2>2. At(F, r, i + 1, v) <=> i + 1 \in 1..m /\ f[i + 1] = v
    BY <1>1 DEF At
  <2>3. i \in 1..m - 1 <=> i >= 1 /\ i + 1 \in 1..m
    BY <1>1
  <2> QED
    BY <1>1, <1>3, <1>4, <2>1, <2>2, <2>3 DEF At
<1>5. CASE q # r
  BY <1>1, <1>3, <1>5 DEF At, SameBut
<1> QED
  BY <1>4, <1>5

(* a list without the node at a place,                                     *)
LEMMA RemoveAtIs ==
    ASSUME NEW f \in Seq(Nodes), NEW k \in 1..Len(f)
    PROVE  /\ RemoveAt(f, k) \in Seq(Nodes) /\ Len(RemoveAt(f, k)) = Len(f) - 1
           /\ \A i \in 1..Len(f) - 1 : RemoveAt(f, k)[i] = IF i < k THEN f[i] ELSE f[i + 1]
<1>1. PICK m \in Nat : m = Len(f)
  OBVIOUS
<1>2. PICK a : a = SubSeq(f, 1, k - 1)
  OBVIOUS
<1>3. a \in Seq(Nodes) /\ Len(a) = k - 1 /\ \A i \in 1..k - 1 : a[i] = f[i]
  <2>1. \A i \in 1..k - 1 : f[i] \in Nodes
    BY <1>1
  <2>2. /\ SubSeq(f, 1, k - 1) \in Seq(Nodes)
        /\ Len(SubSeq(f, 1, k - 1)) = IF 1 <= k - 1 THEN k - 1 - 1 + 1 ELSE 0
        /\ \A i \in 1..k - 1 - 1 + 1 : SubSeq(f, 1, k - 1)[i] = f[1 + i - 1]
    BY <2>1, SubSeqProperties
  <2>3. \A i \in 1..k - 1 : i \in 1..k - 1 - 1 + 1 /\ 1 + i - 1 = i
    OBVIOUS
  <2>4. (IF 1 <= k - 1 THEN k - 1 - 1 + 1 ELSE 0) = k - 1
    OBVIOUS
  <2> QED
    BY <1>2, <2>2, <2>3, <2>4
<1>4. PICK b : b = SubSeq(f, k + 1, m)
  OBVIOUS
<1>5. b \in Seq(Nodes) /\ Len(b) = m - k /\ \A i \in 1..m - k : b[i] = f[k + i]
  <2>1. \A i \in k + 1..m : f[i] \in Nodes
    BY <1>1
  <2>2. /\ SubSeq(f, k + 1, m) \in Seq(Nodes)
        /\ Len(SubSeq(f, k + 1, m)) = IF k + 1 <= m THEN m - (k + 1) + 1 ELSE 0
        /\ \A i \in 1..m - (k + 1) + 1 : SubSeq(f, k + 1, m)[i] = f[k + 1 + i - 1]
    BY <2>1, SubSeqProperties
  <2>3. \A i \in 1..m - k : i \in 1..m - (k + 1) + 1 /\ k + 1 + i - 1 = k + i
    BY <1>1
  <2>4. (IF k + 1 <= m THEN m - (k + 1) + 1 ELSE 0) = m - k
    BY <1>1
  <2> QED
    BY <1>4, <2>2, <2>3, <2>4
<1>6. RemoveAt(f, k) = a \o b
  BY <1>1, <1>2, <1>4 DEF RemoveAt
<1>7. /\ a \o b \in Seq(Nodes) /\ Len(a \o b) = Len(a) + Len(b)
      /\ \A i \in 1..Len(a) + Len(b) : (a \o b)[i] = IF i <= Len(a) THEN a[i] ELSE b[i - Len(a)]
  BY <1>3, <1>5, ConcatProperties
<1>8. PICK h : h = a \o b
  OBVIOUS
<1>9. h \in Seq(Nodes) /\ Len(h) = Len(a) + Len(b)
  BY <1>7, <1>8
<1>10. ASSUME NEW i \in 1..m - 1 PROVE h[i] = IF i < k THEN f[i] ELSE f[i + 1]
  <2>1. h[i] = IF i <= k - 1 THEN a[i] ELSE b[i - (k - 1)]
    BY <1>1, <1>3, <1>5, <1>7, <1>8
  <2>2. CASE i < k
    BY <1>3, <2>1, <2>2
  <2>3. CASE ~(i < k)
    <3>1. i - (k - 1) \in 1..m - k /\ k + (i - (k - 1)) = i + 1
      BY <1>1, <2>3
    <3>2. b[i - (k - 1)] = f[i + 1]
      BY <1>5, <3>1
    <3> QED
      BY <2>1, <2>3, <3>2
  <2> QED
    BY <2>2, <2>3
<1> QED
  BY <1>1, <1>3, <1>5, <1>6, <1>8, <1>9, <1>10

(* and the lists without the node of an id, wherever it waits.             *)
LEMMA WithoutAt ==
    ASSUME NEW F \in Lists, Apart(F), NEW G, NEW p \in Names, NEW k \in Nat, NEW u \in Nodes,
           At(F, p, k, u), \A q \in Names : G[q] = Without(F[q], u.id)
    PROVE  /\ \A q \in Names : G[q] \in Seq(Nodes)
           /\ \A q \in Names : \A i \in Nat : \A v \in Nodes :
                  At(G, q, i, v) <=> IF q = p THEN i >= 1 /\ At(F, p, IF i < k THEN i ELSE i + 1, v)
                                     ELSE At(F, q, i, v)
<1> DEFINE links(q) == {i \in DOMAIN F[q] : F[q][i].id = u.id}
<1>1. ASSUME NEW q \in Names, q # p PROVE G[q] = F[q]
  <2>1. ASSUME NEW i \in links(q) PROVE FALSE
    <3>1. At(F, q, i, F[q][i]) /\ F[q][i] \in Nodes /\ i \in Nat
      BY ListIs DEF At
    <3>2. F[q][i].id = u.id
      OBVIOUS
    <3> QED
      BY <1>1, <3>1, <3>2 DEF Apart
  <2>2. links(q) = {}
    BY <2>1
  <2> QED
    BY <2>2 DEF Without
<1>2. PICK f \in Seq(Nodes), m \in Nat : f = F[p] /\ m = Len(f)
  BY ListIs
<1>3. k \in 1..m /\ f[k] = u
  BY <1>2 DEF At
<1>4. links(p) = {k}
  <2>1. ASSUME NEW i \in links(p) PROVE i = k
    <3>1. At(F, p, i, F[p][i]) /\ F[p][i] \in Nodes /\ i \in Nat
      BY ListIs DEF At
    <3>2. F[p][i].id = u.id
      OBVIOUS
    <3> QED
      BY <3>1, <3>2 DEF Apart
  <2>2. k \in links(p)
    BY <1>2, <1>3
  <2> QED
    BY <2>1, <2>2
<1>5. (CHOOSE i \in links(p) : TRUE) = k
  BY <1>4
<1>6. G[p] = RemoveAt(f, k)
  <2> HIDE DEF links
  <2>1. G[p] = IF links(p) = {} THEN F[p] ELSE RemoveAt(F[p], CHOOSE i \in links(p) : TRUE)
    BY DEF Without, links
  <2> QED
    BY <1>2, <1>4, <1>5, <2>1
<1> HIDE DEF links
<1>7. /\ G[p] \in Seq(Nodes) /\ Len(G[p]) = m - 1
      /\ \A i \in 1..m - 1 : G[p][i] = IF i < k THEN f[i] ELSE f[i + 1]
  <2>1. k \in 1..Len(f)
    BY <1>2, <1>3
  <2>2. /\ RemoveAt(f, k) \in Seq(Nodes) /\ Len(RemoveAt(f, k)) = Len(f) - 1
        /\ \A i \in 1..Len(f) - 1 : RemoveAt(f, k)[i] = IF i < k THEN f[i] ELSE f[i + 1]
    BY <2>1, RemoveAtIs
  <2> QED
    BY <1>2, <1>6, <2>2, Zenon
<1>8. \A q \in Names : G[q] \in Seq(Nodes)
  BY <1>1, <1>7, ListIs
<1>9. ASSUME NEW q \in Names, NEW i \in Nat, NEW v \in Nodes
      PROVE  At(G, q, i, v) <=> IF q = p THEN i >= 1 /\ At(F, p, IF i < k THEN i ELSE i + 1, v)
                                ELSE At(F, q, i, v)
  <2>1. CASE q # p
    BY <1>1, <2>1 DEF At
  <2>2. CASE q = p
    <3>1. At(G, q, i, v) <=> i \in 1..m - 1 /\ (IF i < k THEN f[i] ELSE f[i + 1]) = v
      BY <1>7, <2>2 DEF At
    <3>2. CASE i < k
      BY <1>2, <1>3, <2>2, <3>1, <3>2 DEF At
    <3>3. CASE ~(i < k)
      BY <1>2, <1>3, <2>2, <3>1, <3>3 DEF At
    <3> QED
      BY <3>2, <3>3
  <2> QED
    BY <2>1, <2>2
<1> QED
  BY <1>8, <1>9

(* What each of these does to the homes.                                   *)
LEMMA AppendHomes ==
    ASSUME NEW F \in Lists, NEW G, NEW S, Homes(F, S), NEW p \in Names, NEW node \in Nodes,
           node.id \notin S, G[p] = Append(F[p], node), SameBut(F, G, {p})
    PROVE  Homes(G, S \cup {node.id})
<1>1. \A q \in Names : \A i \in Nat : \A v \in Nodes :
          At(G, q, i, v) <=> At(F, q, i, v) \/ (q = p /\ i = Len(F[p]) + 1 /\ v = node)
  BY AppendAt
<1>2. \A q \in Names : \A i \in Nat : \A v \in Nodes : At(F, q, i, v) => v.id # node.id
  BY DEF Homes, Holds
<1>3. Apart(G)
  <2>1. SUFFICES ASSUME NEW q \in Names, NEW r \in Names, NEW i \in Nat, NEW j \in Nat,
                        NEW u \in Nodes, NEW v \in Nodes,
                        At(G, q, i, u), At(G, r, j, v), u.id = v.id
                 PROVE  q = r /\ i = j
    BY DEF Apart
  <2>2. At(F, q, i, u) /\ At(F, r, j, v) => q = r /\ i = j
    BY <2>1 DEF Homes, Apart
  <2> QED
    BY <1>1, <1>2, <2>1, <2>2
<1>4. Len(F[p]) + 1 \in Nat
  BY ListIs
<1>5. Holds(G, S \cup {node.id})
  <2> SUFFICES ASSUME NEW d
               PROVE  d \in S \cup {node.id}
                          <=> \E q \in Names : \E i \in Nat : \E v \in Nodes : At(G, q, i, v) /\ v.id = d
    BY DEF Holds
  <2>1. d \in S <=> \E q \in Names : \E i \in Nat : \E v \in Nodes : At(F, q, i, v) /\ v.id = d
    BY DEF Homes, Holds
  <2> QED
    BY <1>1, <1>4, <2>1
<1> QED
  BY <1>3, <1>5 DEF Homes

(* Emptying a list takes its tasks, and no others, from those that wait.   *)
LEMMA EmptyHomes ==
    ASSUME NEW F \in Lists, NEW G, NEW S, Homes(F, S), NEW p \in Names,
           G[p] = <<>>, SameBut(F, G, {p})
    PROVE  Homes(G, S \ {F[p][i].id : i \in 1..Len(F[p])})
<1>1. \A q \in Names : \A i \in Nat : \A v \in Nodes : At(G, q, i, v) <=> At(F, q, i, v) /\ q # p
  BY EmptyAt
<1>2. Apart(G)
  <2>1. SUFFICES ASSUME NEW q \in Names, NEW r \in Names, NEW i \in Nat, NEW j \in Nat,
                        NEW u \in Nodes, NEW v \in Nodes,
                        At(G, q, i, u), At(G, r, j, v), u.id = v.id
                 PROVE  q = r /\ i = j
    BY DEF Apart
  <2> QED
    BY <1>1, <2>1 DEF Homes, Apart
<1> DEFINE L == {F[p][i].id : i \in 1..Len(F[p])}
<1>3. ASSUME NEW d
      PROVE  d \in L <=> \E i \in Nat : \E v \in Nodes : At(F, p, i, v) /\ v.id = d
  <2>1. ASSUME NEW i \in 1..Len(F[p]) PROVE i \in Nat /\ At(F, p, i, F[p][i]) /\ F[p][i] \in Nodes
    BY ListIs DEF At
  <2>2. \A i \in Nat : \A v \in Nodes : At(F, p, i, v) => i \in 1..Len(F[p]) /\ F[p][i] = v
    BY DEF At
  <2> QED
    BY <2>1, <2>2
<1>4. Holds(G, S \ L)
  <2> HIDE DEF L
  <2> SUFFICES ASSUME NEW d
               PROVE  d \in S \ L
                          <=> \E q \in Names : \E i \in Nat : \E v \in Nodes : At(G, q, i, v) /\ v.id = d
    BY DEF Holds
  <2>1. d \in S <=> \E q \in Names : \E i \in Nat : \E v \in Nodes : At(F, q, i, v) /\ v.id = d
    BY DEF Homes, Holds
  <2>2. ASSUME NEW q \in Names, NEW i \in Nat, NEW v \in Nodes, At(G, q, i, v), v.id = d
        PROVE  d \in S \ L
    <3>1. At(F, q, i, v) /\ q # p
      BY <1>1, <2>2
    <3>2. d \in S
      BY <2>1, <2>2, <3>1
    <3>3. \A j \in Nat : \A u \in Nodes : At(F, p, j, u) => u.id # d
      BY <2>2, <3>1 DEF Homes, Apart
    <3> QED
      BY <1>3, <3>2, <3>3
  <2>3. ASSUME d \in S \ L
        PROVE  \E q \in Names : \E i \in Nat : \E v \in Nodes : At(G, q, i, v) /\ v.id = d
    <3>1. PICK q \in Names : \E i \in Nat : \E v \in Nodes : At(F, q, i, v) /\ v.id = d
      BY <2>1, <2>3
    <3>2. PICK i \in Nat : \E v \in Nodes : At(F, q, i, v) /\ v.id = d
      BY <3>1
    <3>3. PICK v \in Nodes : At(F, q, i, v) /\ v.id = d
      BY <3>2
    <3>4. q # p
      BY <1>3, <2>3, <3>3
    <3> QED
      BY <1>1, <3>3, <3>4
  <2> QED
    BY <2>2, <2>3
<1> QED
  BY <1>2, <1>4 DEF Homes

(* Splicing a list moves its tasks: the same ones wait, each once.         *)
LEMMA SpliceHomes ==
    ASSUME NEW F \in Lists, NEW G, NEW S, Homes(F, S), NEW r \in Names, NEW p \in Names,
           Spliced(F, G, r, p)
    PROVE  Homes(G, S)
<1>0. PICK m \in Nat : m = Len(F[r])
  BY ListIs
<1>1. \A q \in Names : \A i \in Nat : \A v \in Nodes :
          At(G, q, i, v) <=> \/ At(F, q, i, v) /\ q # p
                             \/ q = r /\ i > m /\ At(F, p, i - m, v)
  <2>1. \A q \in Names : \A i \in Nat : \A v \in Nodes :
            At(G, q, i, v) <=> \/ At(F, q, i, v) /\ q # p
                               \/ q = r /\ i > Len(F[r]) /\ At(F, p, i - Len(F[r]), v)
    BY SpliceAt
  <2> QED
    BY <1>0, <2>1
<1>2. \A i \in Nat : i > m => i - m \in Nat
  OBVIOUS
<1>3. \A i \in Nat : \A v \in Nodes : At(F, r, i, v) => i <= m
  BY <1>0 DEF At
<1>4. Apart(G)
  <2>1. SUFFICES ASSUME NEW q \in Names, NEW t \in Names, NEW i \in Nat, NEW j \in Nat,
                        NEW u \in Nodes, NEW v \in Nodes,
                        At(G, q, i, u), At(G, t, j, v), u.id = v.id
                 PROVE  q = t /\ i = j
    BY DEF Apart
  <2>2. \A a, b \in Names : \A c, d \in Nat :
            At(F, a, c, u) /\ At(F, b, d, v) => a = b /\ c = d
    BY <2>1 DEF Homes, Apart
  <2>3. CASE At(F, q, i, u) /\ q # p /\ At(F, t, j, v) /\ t # p
    BY <2>2, <2>3
  <2>4. CASE At(F, q, i, u) /\ q # p /\ t = r /\ j > m /\ At(F, p, j - m, v)
    BY <1>2, <2>2, <2>4
  <2>5. CASE q = r /\ i > m /\ At(F, p, i - m, u) /\ At(F, t, j, v) /\ t # p
    BY <1>2, <2>2, <2>5
  <2>6. CASE q = r /\ i > m /\ At(F, p, i - m, u) /\ t = r /\ j > m /\ At(F, p, j - m, v)
    <3>1. i - m = j - m
      BY <1>2, <2>2, <2>6
    <3> QED
      BY <2>6, <3>1
  <2> QED
    BY <1>1, <2>1, <2>3, <2>4, <2>5, <2>6
<1>5. Holds(G, S)
  <2> SUFFICES ASSUME NEW d
               PROVE  d \in S
                          <=> \E q \in Names : \E i \in Nat : \E v \in Nodes : At(G, q, i, v) /\ v.id = d
    BY DEF Holds
  <2>1. d \in S <=> \E q \in Names : \E i \in Nat : \E v \in Nodes : At(F, q, i, v) /\ v.id = d
    BY DEF Homes, Holds
  <2>2. ASSUME NEW q \in Names, NEW i \in Nat, NEW v \in Nodes, At(F, q, i, v)
        PROVE  \E t \in Names : \E j \in Nat : At(G, t, j, v)
    <3>1. CASE q # p
      BY <1>1, <2>2, <3>1
    <3>2. CASE q = p
      <4>1. i >= 1
        BY <2>2, AtIs
      <4>2. i + m \in Nat /\ i + m > m /\ (i + m) - m = i
        BY <4>1
      <4>3. At(G, r, i + m, v)
        BY <1>1, <2>2, <3>2, <4>2
      <4> QED
        BY <4>2, <4>3
    <3> QED
      BY <3>1, <3>2
  <2>3. ASSUME NEW q \in Names, NEW i \in Nat, NEW v \in Nodes, At(G, q, i, v)
        PROVE  \E t \in Names : \E j \in Nat : At(F, t, j, v)
    BY <1>1, <1>2, <2>3
  <2> QED
    BY <2>1, <2>2, <2>3
<1> QED
  BY <1>4, <1>5 DEF Homes

(* Taking the first node of a list takes its task, which did wait.         *)
LEMMA TailHomes ==
    ASSUME NEW F \in Lists, NEW G, NEW S, Homes(F, S), NEW r \in Names, F[r] # <<>>,
           G[r] = Tail(F[r]), SameBut(F, G, {r})
    PROVE  Homes(G, S \ {Head(F[r]).id}) /\ Head(F[r]).id \in S
<1>1. \A q \in Names : \A i \in Nat : \A v \in Nodes :
          At(G, q, i, v) <=> IF q = r THEN i >= 1 /\ At(F, r, i + 1, v) ELSE At(F, q, i, v)
  BY TailAt
<1>2. PICK h \in Nodes : h = Head(F[r]) /\ At(F, r, 1, h)
  <2>1. Head(F[r]) \in Nodes
    BY ListIs, HeadTailProperties
  <2>2. 0 \in Nat
    OBVIOUS
  <2>3. At(F, r, 1, Head(F[r]))
    BY <2>1, <2>2, TailAt
  <2> QED
    BY <2>1, <2>3
<1>3. Apart(G)
  <2>1. SUFFICES ASSUME NEW q \in Names, NEW t \in Names, NEW i \in Nat, NEW j \in Nat,
                        NEW u \in Nodes, NEW v \in Nodes,
                        At(G, q, i, u), At(G, t, j, v), u.id = v.id
                 PROVE  q = t /\ i = j
    BY DEF Apart
  <2>2. \A a, b \in Names : \A c, d \in Nat :
            At(F, a, c, u) /\ At(F, b, d, v) => a = b /\ c = d
    BY <2>1 DEF Homes, Apart
  <2>3. i + 1 \in Nat /\ j + 1 \in Nat /\ (i + 1 = j + 1 => i = j)
    OBVIOUS
  <2> QED
    BY <1>1, <2>1, <2>2, <2>3
<1>4. Holds(G, S \ {h.id}) /\ h.id \in S
  <2>0. h.id \in S
    BY <1>2 DEF Homes, Holds
  <2> SUFFICES ASSUME NEW d
               PROVE  d \in S \ {h.id}
                          <=> \E q \in Names : \E i \in Nat : \E v \in Nodes : At(G, q, i, v) /\ v.id = d
    BY <2>0 DEF Holds
  <2>1. d \in S <=> \E q \in Names : \E i \in Nat : \E v \in Nodes : At(F, q, i, v) /\ v.id = d
    BY DEF Homes, Holds
  <2>2. ASSUME NEW q \in Names, NEW i \in Nat, NEW v \in Nodes, At(F, q, i, v), v.id # h.id
        PROVE  \E j \in Nat : At(G, q, j, v)
    <3>1. CASE q # r
      BY <1>1, <2>2, <3>1
    <3>2. CASE q = r
      <4>1. i >= 1 /\ i # 1
        BY <1>2, <2>2, <3>2, AtIs
      <4>2. i - 1 \in Nat /\ i - 1 >= 1 /\ (i - 1) + 1 = i
        BY <4>1
      <4>3. At(G, r, i - 1, v)
        BY <1>1, <2>2, <3>2, <4>2
      <4> QED
        BY <3>2, <4>2, <4>3
    <3> QED
      BY <3>1, <3>2
  <2>3. ASSUME NEW q \in Names, NEW i \in Nat, NEW v \in Nodes, At(G, q, i, v)
        PROVE  v.id # h.id /\ \E j \in Nat : At(F, q, j, v)
    <3>1. \A j \in Nat : At(F, q, j, v) /\ v.id = h.id => q = r /\ j = 1
      BY <1>2 DEF Homes, Apart
    <3>2. i + 1 \in Nat /\ (i >= 1 => i + 1 # 1)
      OBVIOUS
    <3> QED
      BY <1>1, <2>3, <3>1, <3>2
  <2> QED
    BY <2>1, <2>2, <2>3
<1> QED
  BY <1>2, <1>3, <1>4 DEF Homes

(* Taking the node of an id from every list takes that one task.           *)
LEMMA WithoutHomes ==
    ASSUME NEW F \in Lists, NEW G, NEW S, Homes(F, S), NEW id \in S,
           \A q \in Names : G[q] = Without(F[q], id)
    PROVE  /\ Homes(G, S \ {id})
           /\ \A q \in Names : G[q] \in Seq(Nodes)
           /\ \A q \in Names : \A i \in Nat : \A v \in Nodes :
                  At(G, q, i, v) => \E j \in Nat : At(F, q, j, v)
<1>1. PICK p \in Names : \E k \in Nat : \E u \in Nodes : At(F, p, k, u) /\ u.id = id
  BY DEF Homes, Holds
<1>2. PICK k \in Nat : \E u \in Nodes : At(F, p, k, u) /\ u.id = id
  BY <1>1
<1>3. PICK u \in Nodes : At(F, p, k, u) /\ u.id = id
  BY <1>2
<1>4. /\ \A q \in Names : G[q] \in Seq(Nodes)
      /\ \A q \in Names : \A i \in Nat : \A v \in Nodes :
             At(G, q, i, v) <=> IF q = p THEN i >= 1 /\ At(F, p, IF i < k THEN i ELSE i + 1, v)
                                ELSE At(F, q, i, v)
  <2>1. Apart(F) /\ \A q \in Names : G[q] = Without(F[q], u.id)
    BY <1>3 DEF Homes
  <2> QED
    BY <1>3, <2>1, WithoutAt
<1>5. Apart(G)
  <2>1. SUFFICES ASSUME NEW q \in Names, NEW t \in Names, NEW i \in Nat, NEW j \in Nat,
                        NEW a \in Nodes, NEW b \in Nodes,
                        At(G, q, i, a), At(G, t, j, b), a.id = b.id
                 PROVE  q = t /\ i = j
    BY DEF Apart
  <2>2. \A c, d \in Names : \A l, m \in Nat :
            At(F, c, l, a) /\ At(F, d, m, b) => c = d /\ l = m
    BY <2>1 DEF Homes, Apart
  <2> DEFINE up(n) == IF n < k THEN n ELSE n + 1
  <2>3. up(i) \in Nat /\ up(j) \in Nat /\ (up(i) = up(j) => i = j)
    OBVIOUS
  <2>4. /\ At(G, q, i, a) <=> IF q = p THEN i >= 1 /\ At(F, p, up(i), a) ELSE At(F, q, i, a)
        /\ At(G, t, j, b) <=> IF t = p THEN j >= 1 /\ At(F, p, up(j), b) ELSE At(F, t, j, b)
    BY <1>4
  <2> HIDE DEF up
  <2> QED
    BY <2>1, <2>2, <2>3, <2>4
<1>6. ASSUME NEW q \in Names, NEW i \in Nat, NEW v \in Nodes, At(G, q, i, v)
      PROVE  v.id # id /\ \E j \in Nat : At(F, q, j, v)
  <2> DEFINE up == IF i < k THEN i ELSE i + 1
  <2>1. up \in Nat /\ up # k
    OBVIOUS
  <2>2. IF q = p THEN i >= 1 /\ At(F, p, up, v) ELSE At(F, q, i, v)
    BY <1>4, <1>6
  <2> HIDE DEF up
  <2>3. \A j \in Nat : At(F, q, j, v) /\ v.id = id => q = p /\ j = k
    BY <1>3 DEF Homes, Apart
  <2> QED
    BY <2>1, <2>2, <2>3
<1>7. ASSUME NEW q \in Names, NEW i \in Nat, NEW v \in Nodes, At(F, q, i, v), v.id # id
      PROVE  \E j \in Nat : At(G, q, j, v)
  <2>1. CASE q # p
    BY <1>4, <1>7, <2>1
  <2>2. CASE q = p
    <3>1. i >= 1 /\ i # k /\ k >= 1
      BY <1>3, <1>7, <2>2, AtIs
    <3> DEFINE down == IF i < k THEN i ELSE i - 1
    <3>2. down \in Nat /\ down >= 1 /\ (IF down < k THEN down ELSE down + 1) = i
      BY <3>1
    <3> HIDE DEF down
    <3>3. At(G, p, down, v)
      BY <1>4, <1>7, <2>2, <3>2
    <3> QED
      BY <2>2, <3>2, <3>3
  <2> QED
    BY <2>1, <2>2
<1>8. Holds(G, S \ {id})
  <2> SUFFICES ASSUME NEW d
               PROVE  d \in S \ {id}
                          <=> \E q \in Names : \E i \in Nat : \E v \in Nodes : At(G, q, i, v) /\ v.id = d
    BY DEF Holds
  <2>1. d \in S <=> \E q \in Names : \E i \in Nat : \E v \in Nodes : At(F, q, i, v) /\ v.id = d
    BY DEF Homes, Holds
  <2> QED
    BY <1>6, <1>7, <2>1
<1> QED
  BY <1>4, <1>5, <1>6, <1>8 DEF Homes

-----------------------------------------------------------------------------
(* The constants, without the sets they are given in.                      *)
LEMMA Constants ==
    /\ Granularity \in Nat \ {0} /\ Size1 \in Nat \ {0} /\ Size2 \in Nat \ {0}
    /\ WheelNum \in Nat /\ WheelNum >= 2 /\ MaxLag \in Nat \ {0} /\ MaxNow \in Nat
    /\ Intervals \subseteq Nat
    /\ 0 \in Wheels /\ 1 \in Wheels /\ WheelNum \notin Wheels
    /\ \A k \in Wheels : k \in Nat /\ Size(k) \in Nat \ {0}
BY WheelAssumption DEF Wheels, Size

(* A spoke is a wheel and a place on it; the ready list is none.           *)
LEMMA SpokesAre ==
    /\ \A k \in Wheels : \A j \in 0..Size(k) - 1 : <<k, j>> \in Spokes /\ <<k, j>> # Ready
    /\ \A p \in Spokes : \E k \in Wheels : \E j \in 0..Size(k) - 1 : p = <<k, j>>
    /\ Ready \notin Spokes
BY Constants DEF Spokes, Ready

(* Quotient and remainder of a natural.                                    *)
LEMMA DivMod ==
    ASSUME NEW v \in Nat, NEW d \in Nat \ {0}
    PROVE  \E b \in Nat, r \in 0..d - 1 : b = v \div d /\ r = v % d /\ v = b * d + r
OBVIOUS

(* They are the only such.                                                 *)
LEMMA DivIs ==
    ASSUME NEW v \in Nat, NEW d \in Nat \ {0}, NEW b \in Nat, NEW r \in 0..d - 1, v = b * d + r
    PROVE  v \div d = b /\ v % d = r
OBVIOUS

(* Products, where only their order matters.                               *)
LEMMA Products ==
    ASSUME NEW a \in Nat, NEW b \in Nat, NEW d \in Nat
    PROVE  /\ a * d \in Nat /\ (a + b) * d = a * d + b * d
           /\ a <= b => a * d <= b * d
           /\ a < b => a * d + d <= b * d
           /\ 1 * d = d /\ 0 * d = 0 /\ a * d = d * a
OBVIOUS

(* One more: the remainder goes up, or round.                              *)
LEMMA ModUp ==
    ASSUME NEW v \in Nat, NEW d \in Nat \ {0}
    PROVE  /\ (v % d) + 1 < d => (v + 1) % d = (v % d) + 1 /\ (v + 1) \div d = v \div d
           /\ (v % d) + 1 >= d => (v + 1) % d = 0 /\ (v + 1) \div d = (v \div d) + 1 /\ (v % d) + 1 = d
           /\ (v + 1) % d # 0 => (v + 1) \div d = v \div d
           /\ (v + 1) % d = 0 => (v + 1) \div d = (v \div d) + 1
<1>1. PICK b \in Nat, r \in 0..d - 1 : b = v \div d /\ r = v % d /\ v = b * d + r
  BY DivMod
<1>2. PICK z \in Nat : z = v + 1
  OBVIOUS
<1>3. CASE r + 1 < d
  <2>1. r + 1 \in 0..d - 1 /\ z = b * d + (r + 1)
    BY <1>1, <1>2, <1>3, Products
  <2>2. z \div d = b /\ z % d = r + 1
    BY <2>1, DivIs
  <2> QED
    BY <1>1, <1>2, <1>3, <2>2
<1>4. CASE r + 1 >= d
  <2>1. r + 1 = d
    BY <1>4
  <2>2. b * d \in Nat /\ (b + 1) * d = b * d + d
    BY Products
  <2>3. 0 \in 0..d - 1 /\ z = (b + 1) * d + 0 /\ b + 1 \in Nat
    BY <1>1, <1>2, <2>1, <2>2
  <2>4. z \div d = b + 1 /\ z % d = 0
    BY <2>3, DivIs
  <2> QED
    BY <1>1, <1>2, <1>4, <2>1, <2>4
<1> QED
  BY <1>3, <1>4

(* Numbers with one remainder keep it when the same is added.              *)
LEMMA ModAdd ==
    ASSUME NEW a \in Nat, NEW b \in Nat, NEW n \in Nat, NEW d \in Nat \ {0}, a % d = b % d
    PROVE  (n + a) % d = (n + b) % d
<1>1. PICK e \in Nat, r \in 0..d - 1 : r = a % d /\ a = e * d + r
  BY DivMod
<1>2. PICK f \in Nat, s \in 0..d - 1 : s = b % d /\ b = f * d + s
  BY DivMod
<1>3. PICK g \in Nat, t \in 0..d - 1 : n + r = g * d + t
  <2>1. n + r \in Nat
    OBVIOUS
  <2> QED
    BY <2>1, DivMod
<1>4. PICK u \in Nat, y \in Nat : u = n + a /\ y = n + b
  OBVIOUS
<1>5. u = (e + g) * d + t /\ e + g \in Nat
  <2>1. PICK p \in Nat, q \in Nat : p = e * d /\ q = g * d /\ (e + g) * d = p + q
    BY Products
  <2>2. u = p + q + t
    BY <1>1, <1>3, <1>4, <2>1
  <2> QED
    BY <2>1, <2>2
<1>6. y = (f + g) * d + t /\ f + g \in Nat
  <2>1. PICK p \in Nat, q \in Nat : p = f * d /\ q = g * d /\ (f + g) * d = p + q
    BY Products
  <2>2. y = p + s + n
    BY <1>2, <1>4, <2>1
  <2>3. s = r
    BY <1>1, <1>2
  <2>4. n + r = q + t
    BY <1>3, <2>1
  <2>5. y = p + q + t
    BY <2>2, <2>3, <2>4
  <2> QED
    BY <2>1, <2>5
<1>7. u % d = t
  BY <1>5, DivIs
<1>8. y % d = t
  BY <1>6, DivIs
<1> QED
  BY <1>4, <1>7, <1>8

Same(a, b, d) == a % d = b % d

LEMMA SameAdd ==
    ASSUME NEW a \in Nat, NEW b \in Nat, NEW n \in Nat, NEW d \in Nat \ {0}, Same(a, b, d)
    PROVE  Same(n + a, n + b, d)
BY ModAdd, Zenon DEF Same

(* Of d numbers that follow each other, only the first has its remainder.  *)
LEMMA ModFirst ==
    ASSUME NEW a \in Nat, NEW b \in Nat, NEW d \in Nat \ {0}, a % d = b % d, a <= b, b < a + d
    PROVE  a = b
<1>1. PICK e \in Nat, r \in 0..d - 1 : r = a % d /\ a = e * d + r
  BY DivMod
<1>2. PICK f \in Nat, s \in 0..d - 1 : s = b % d /\ b = f * d + s
  BY DivMod
<1>3. /\ e * d \in Nat /\ f * d \in Nat
      /\ f < e => f * d + d <= e * d
      /\ e < f => e * d + d <= f * d
  BY Products
<1>4. e = f
  BY <1>1, <1>2, <1>3
<1> QED
  BY <1>1, <1>2, <1>4

-----------------------------------------------------------------------------
(* The ticks that a spoke of a wheel takes, a spoke of the innermost one.  *)
Round(k) == IF k = 0 THEN 1 ELSE Threshold[k]

(* A round of a wheel is a spoke of the next.                              *)
LEMMA Rounds ==
    /\ Threshold[0] = 0 /\ \A k \in Wheels : Threshold[k] \in Nat
    /\ \A k \in Wheels : Round(k) \in Nat \ {0} /\ (k # 0 => Threshold[k] = Round(k))
    /\ Round(0) = 1
    /\ \A k \in Wheels : k + 1 \in Wheels => Round(k + 1) = Size(k) * Round(k)
<1>1. PICK n \in Nat : n = WheelNum - 1 /\ n >= 1 /\ Wheels = 0..n
  BY Constants DEF Wheels
<1> DEFINE T(f) == f = [k \in Wheels |-> IF k = 0 THEN 0 ELSE IF k = 1 THEN Size1
                                                 ELSE Size2 * f[k - 1]]
           H == [z \in (1..n) \X Nat |-> IF z[1] = 1 THEN Size1 ELSE Size2 * z[2]]
           D == [i \in 0..n |-> Nat]
<1>2. \E f : T(f)
  <2>1. \A i \in 1..n : D[i - 1] = Nat /\ D[i] = Nat
    BY <1>1
  <2>2. \A k \in 1..n : \A y \in Nat : H[<<k, y>>] = IF k = 1 THEN Size1 ELSE Size2 * y
    OBVIOUS
  <2>3. \A k \in 1..n : \A y \in D[k - 1] : H[<<k, y>>] \in D[k]
    <3>1. \A y \in Nat : Size2 * y \in Nat
      BY Constants
    <3>2. \A k \in 1..n : \A y \in Nat : H[<<k, y>>] \in Nat
      BY <2>2, <3>1, Constants
    <3> HIDE DEF H, D
    <3> QED
      BY <2>1, <3>2
  <2>0. 0 \in D[0] /\ \A i \in 0..n : D[i] = Nat
    BY <1>1
  <2> HIDE DEF H, D
  <2>4. PICK f : Chain(f, 0, H, D, n)
    BY <2>0, <2>3, Recursion
  <2>5. \A k \in 0..n : f[k] = IF k = 0 THEN 0 ELSE IF k = 1 THEN Size1 ELSE Size2 * f[k - 1]
    <3>1. /\ \A k \in 0..n : f[k] = IF k = 0 THEN 0 ELSE H[<<k, f[k - 1]>>]
          /\ \A k \in 0..n : f[k] \in Nat
      BY <2>0, <2>4 DEF Chain
    <3>2. ASSUME NEW k \in 1..n PROVE H[<<k, f[k - 1]>>] = IF k = 1 THEN Size1 ELSE Size2 * f[k - 1]
      <4>1. f[k - 1] \in Nat
        BY <3>1
      <4> QED
        BY <2>2, <4>1
    <3>3. \A k \in 0..n : k = 0 \/ k \in 1..n
      OBVIOUS
    <3> QED
      BY <3>1, <3>2, <3>3, Zenon
  <2>6. f = [k \in 0..n |-> f[k]]
    BY <2>4 DEF Chain
  <2>7. [k \in 0..n |-> f[k]]
            = [k \in 0..n |-> IF k = 0 THEN 0 ELSE IF k = 1 THEN Size1 ELSE Size2 * f[k - 1]]
    BY <2>5
  <2>8. T(f)
    BY <1>1, <2>6, <2>7, Zenon
  <2> QED
    BY <2>8
<1>3. Threshold = CHOOSE fn : T(fn)
  BY DEF Threshold
<1>4. T(Threshold)
  BY <1>2, <1>3
<1>5. \A k \in 0..n : Threshold[k] = IF k = 0 THEN 0 ELSE IF k = 1 THEN Size1
                                      ELSE Size2 * Threshold[k - 1]
  BY <1>1, <1>4
<1> HIDE DEF T, H
<1>6. Threshold[0] = 0 /\ Threshold[1] = Size1
  BY <1>1, <1>5
<1> DEFINE P == {k \in Nat : k # 0 => Threshold[k] \in Nat \ {0}}
<1>7. \A k \in 0..n : k \in P
  <2>1. 0 \in P
    OBVIOUS
  <2>2. ASSUME NEW k \in 0..n - 1, k \in P PROVE k + 1 \in P
    <3>1. k + 1 \in 0..n /\ (k + 1) - 1 = k /\ k + 1 # 0
      BY <1>1
    <3>2. Threshold[k + 1] = IF k + 1 = 1 THEN Size1 ELSE Size2 * Threshold[k]
      BY <1>5, <3>1
    <3>3. k # 0 => Size2 * Threshold[k] \in Nat \ {0}
      BY <2>2, Constants
    <3> QED
      BY <3>2, <3>3, Constants
  <2> HIDE DEF P
  <2>3. \A k \in 0..n - 1 : k \in P => k + 1 \in P
    BY <2>2
  <2> QED
    BY <2>1, <2>3, Induct
<1>8. \A k \in Wheels : (k # 0 => Threshold[k] \in Nat \ {0})
  BY <1>1, <1>7
<1>9. ASSUME NEW k \in Wheels, k + 1 \in Wheels PROVE Round(k + 1) = Size(k) * Round(k)
  <2>1. k \in Nat /\ k + 1 \in 0..n /\ (k + 1) - 1 = k /\ k + 1 # 0
    BY <1>1, <1>9
  <2>2. Threshold[k + 1] = IF k + 1 = 1 THEN Size1 ELSE Size2 * Threshold[k]
    BY <1>5, <2>1
  <2>3. CASE k = 0
    BY <1>6, <2>1, <2>3, Constants DEF Round, Size
  <2>4. CASE k # 0
    BY <2>1, <2>2, <2>4 DEF Round, Size
  <2> QED
    BY <2>3, <2>4
<1>10. \A k \in Wheels : Round(k) \in Nat \ {0} /\ (k # 0 => Threshold[k] = Round(k))
  BY <1>8 DEF Round
<1> QED
  BY <1>6, <1>8, <1>9, <1>10 DEF Round

(* add_timer_node finds a wheel, and on the innermost one a spoke that the *)
(* wheel has not come to.                                                  *)
LEMMA LevelIs ==
    ASSUME NEW n \in Nat
    PROVE  /\ Level(n) \in Wheels /\ n >= Threshold[Level(n)]
           /\ Level(n) = 0 => n < Size1
<1> DEFINE U == {d \in Nat : d < WheelNum /\ n >= Threshold[(WheelNum - 1) - d]}
<1>1. U # {}
  <2>1. WheelNum - 1 \in Nat /\ WheelNum - 1 < WheelNum /\ (WheelNum - 1) - (WheelNum - 1) = 0
    BY Constants
  <2> QED
    BY <2>1, Rounds
<1>2. PICK d \in U : \A y \in U : d <= y
  BY <1>1, Least
<1>3. PICK k \in Wheels : k = (WheelNum - 1) - d
  BY Constants DEF Wheels
<1>4. n >= Threshold[k]
  BY <1>3
<1>5. ASSUME NEW j \in Wheels, j > k PROVE n < Threshold[j]
  <2>1. (WheelNum - 1) - j \in Nat /\ (WheelNum - 1) - j < d /\ (WheelNum - 1) - j < WheelNum
        /\ (WheelNum - 1) - ((WheelNum - 1) - j) = j
    BY <1>3, <1>5, Constants DEF Wheels
  <2>2. (WheelNum - 1) - j \notin U
    BY <1>2, <2>1
  <2>3. ~(n >= Threshold[j])
    BY <2>1, <2>2
  <2> QED
    BY <2>3, Rounds
<1>6. /\ Level(n) \in Wheels /\ n >= Threshold[Level(n)]
      /\ \A j \in Wheels : j > Level(n) => n < Threshold[j]
  BY <1>4, <1>5 DEF Level
<1>7. Threshold[1] = Size1
  <2>1. 0 + 1 = 1 /\ Size(0) = Size1 /\ Size1 * 1 = Size1
    BY Constants DEF Size
  <2> QED
    BY <2>1, Constants, Rounds
<1> QED
  BY <1>6, <1>7, Constants

-----------------------------------------------------------------------------
(* The wheels, and their lists and the ready list by name.                 *)
Works == [spokes : [Spokes -> Seq(Nodes)], index : [Wheels -> Nat], check : Nat, ready : Seq(Nodes)]

Of(x) == [p \in Names |-> IF p = Ready THEN x.ready ELSE x.spokes[p]]

(* The wheels have made t[0] ticks, and wheel k has turned t[k] times. A   *)
(* node in spoke j of wheel k leaves it when the wheel turns for the q-th  *)
(* time, not after its dead_time; from the innermost wheel, it leaves not  *)
(* much before it either.                                                  *)
InTime(t, k, j, v) ==
    \E q \in Nat :
        /\ q >= t[k] /\ q % Size(k) = j
        /\ (Round(k) * (q + 1) - 1) * Granularity <= v.dead
        /\ k = 0 => q < t[0] + Size1 /\ v.dead < (q + 1) * Granularity + MaxLag

Timed(x, t) ==
    /\ \A k \in Wheels : x.index[k] % Size(k) = t[k] % Size(k)
    /\ \A k \in Wheels : \A j \in 0..Size(k) - 1 : \A i \in Nat : \A v \in Nodes :
           At(Of(x), <<k, j>>, i, v) => InTime(t, k, j, v)
    /\ \A i \in Nat : \A v \in Nodes : At(Of(x), Ready, i, v) => v.dead < now + MaxLag

(* No wheel is ahead of the ticks, nor they of the clock, which is not far *)
(* ahead of them.                                                          *)
Behind(t) ==
    /\ t \in [Wheels -> Nat] /\ now \in Nat
    /\ t[0] * Granularity <= now /\ now <= t[0] * Granularity + MaxLag
    /\ \A k \in Wheels : Round(k) * t[k] <= t[0]

(* The lists by name are those of the wheels.                              *)
LEMMA OfIs ==
    ASSUME NEW x \in Works
    PROVE  /\ Of(x) \in Lists /\ Of(x)[Ready] = x.ready
           /\ \A p \in Spokes : Of(x)[p] = x.spokes[p]
           /\ Ready \in Names /\ Spokes \subseteq Names
BY SpokesAre DEF Works, Of, Lists, Names

(* add_timer_node links the node into one spoke,                           *)
Linked(x, y, k, j, node) ==
    /\ k \in Wheels /\ j \in 0..Size(k) - 1
    /\ y \in Works /\ y.index = x.index /\ y.check = x.check
    /\ Of(y)[<<k, j>>] = Append(Of(x)[<<k, j>>], node) /\ SameBut(Of(x), Of(y), {<<k, j>>})

(* and in time.                                                            *)
LEMMA PlaceDoes ==
    ASSUME NEW x \in Works, NEW t, Behind(t), Timed(x, t), NEW ms \in Nat, NEW node \in Nodes,
           node.dead = now + ms
    PROVE  \E k, j : Linked(x, Place(x, ms, node), k, j, node) /\ InTime(t, k, j, node)
<1>1. PICK n \in Nat : n = ms \div Granularity
  <2>1. ms \div Granularity \in Nat
    BY Constants
  <2> QED
    BY <2>1
<1>2. PICK k : k = Level(n)
  OBVIOUS
<1>3. PICK j : j = Spoke(x, k, n)
  OBVIOUS
<1>4. PICK y : y = Place(x, ms, node)
  OBVIOUS
<1>5. Linked(x, y, k, j, node)
  <2>1. k \in Wheels /\ k \in Nat /\ Size(k) \in Nat \ {0} /\ n >= Threshold[k] /\ 0 \in Wheels
    BY <1>2, Constants, LevelIs
  <2>2. j \in 0..Size(k) - 1
    <3>1. x.index[k] \in Nat /\ x.index[0] \in Nat
      BY <2>1, Constants DEF Works
    <3>2. k # 0 => Threshold[k] \in Nat \ {0}
      BY <2>1, Rounds
    <3>3. k # 0 => n - Threshold[k] \in Nat
      BY <2>1, <3>2
    <3>4. k # 0 => (n - Threshold[k]) \div Threshold[k] \in Nat
      BY <3>2, <3>3
    <3>5. PICK z \in Nat : z = IF k = 0 THEN n + x.index[0]
                               ELSE (n - Threshold[k]) \div Threshold[k] + x.index[k]
      BY <3>1, <3>4
    <3>6. j = z % Size(k)
      BY <1>3, <3>5 DEF Spoke
    <3> QED
      BY <2>1, <3>6
  <2>3. <<k, j>> \in Spokes /\ <<k, j>> # Ready
    BY <2>1, <2>2, SpokesAre
  <2>4. y = [x EXCEPT !.spokes[<<k, j>>] = Append(@, node)]
    BY <1>1, <1>2, <1>3, <1>4 DEF Place
  <2>5. PICK p \in Spokes : p = <<k, j>> /\ p # Ready
    BY <2>3
  <2>6. Append(x.spokes[p], node) \in Seq(Nodes)
    BY DEF Works
  <2>7. y \in Works /\ y.index = x.index /\ y.check = x.check /\ y.ready = x.ready
        /\ y.spokes[p] = Append(x.spokes[p], node)
        /\ \A q \in Spokes : q # p => y.spokes[q] = x.spokes[q]
    <3>1. x.spokes \in [Spokes -> Seq(Nodes)]
      BY DEF Works
    <3>2. PICK f \in [Spokes -> Seq(Nodes)] : f = [x.spokes EXCEPT ![p] = Append(@, node)]
      BY <2>6, <3>1
    <3>3. f[p] = Append(x.spokes[p], node) /\ \A q \in Spokes : q # p => f[q] = x.spokes[q]
      BY <3>1, <3>2
    <3>4. y = [x EXCEPT !.spokes = f]
      BY <2>4, <2>5, <3>2
    <3>5. y \in Works /\ y.spokes = f /\ y.index = x.index /\ y.check = x.check /\ y.ready = x.ready
      BY <3>4 DEF Works
    <3> QED
      BY <3>3, <3>5
  <2>8. Of(y)[p] = Append(Of(x)[p], node) /\ SameBut(Of(x), Of(y), {p})
    BY <2>5, <2>7, OfIs DEF SameBut, Names
  <2> QED
    BY <2>1, <2>2, <2>5, <2>7, <2>8 DEF Linked
<1>6. InTime(t, k, j, node)
  <2>1. /\ k \in Wheels /\ k \in Nat /\ Size(k) \in Nat \ {0} /\ n >= Threshold[k]
        /\ 0 \in Wheels /\ (k = 0 => n < Size1)
    BY <1>2, Constants, LevelIs
  <2>2. PICK g \in Nat \ {0} : g = Granularity
    BY Constants
  <2>3. PICK a \in Nat, r \in 0..g - 1 : a = n * g /\ ms = a + r
    <3>1. PICK b \in Nat, r \in 0..g - 1 : b = ms \div g /\ ms = b * g + r
      BY <2>2, DivMod
    <3>2. b = n
      BY <1>1, <2>2, <3>1
    <3>3. b * g \in Nat
      OBVIOUS
    <3> QED
      BY <3>1, <3>2, <3>3
  <2>4. PICK c \in Nat : c = t[0] /\ now \in Nat
    BY <2>1 DEF Behind
  <2>5. PICK e \in Nat : e = c * g /\ e <= now /\ now <= e + MaxLag
    <3>1. c * g \in Nat
      OBVIOUS
    <3> QED
      BY <2>2, <2>4, <3>1 DEF Behind
  <2>6. PICK u \in Nat, m \in Nat, l \in Nat \ {0} :
            u = t[k] /\ m = x.index[k] /\ l = Size(k) /\ m % l = u % l
    BY <2>1 DEF Behind, Works, Timed
  <2>7. node.dead \in Nat /\ node.dead = now + a + r /\ MaxLag \in Nat
    BY <2>3, <2>4, Constants DEF Nodes
  <2>8. CASE k = 0
    <3>1. PICK q \in Nat : q = n + c
      OBVIOUS
    <3>2. q >= t[k] /\ q < t[0] + Size1
      BY <2>1, <2>4, <2>8, <3>1, Constants
    <3>3. q % Size(k) = j
      <4>1. j = (n + m) % l
        BY <1>3, <2>6, <2>8 DEF Spoke
      <4>2. (n + m) % l = (n + u) % l
        <5>1. Same(m, u, l)
          BY <2>6 DEF Same
        <5>2. Same(n + m, n + u, l)
          BY <5>1, SameAdd
        <5> QED
          BY <5>2 DEF Same
      <4> QED
        BY <2>4, <2>6, <2>8, <3>1, <4>1, <4>2
    <3>4. q * g = a + e /\ (q + 1) * g = a + e + g
      <4>1. (n + c) * g = n * g + c * g /\ (q + 1) * g = q * g + 1 * g /\ 1 * g = g
        BY Products
      <4> QED
        BY <2>3, <2>5, <3>1, <4>1
    <3>5. Round(k) * (q + 1) - 1 = q
      BY <2>8, Rounds
    <3>6. (Round(k) * (q + 1) - 1) * g <= node.dead
      <4>1. a + e <= node.dead
        BY <2>4, <2>5, <2>7
      <4> QED
        BY <3>4, <3>5, <4>1, Zenon
    <3>7. node.dead < (q + 1) * g + MaxLag
      <4>1. node.dead < a + e + g + MaxLag
        BY <2>2, <2>4, <2>5, <2>7
      <4> QED
        BY <3>4, <4>1, Zenon
    <3> QED
      BY <2>2, <3>2, <3>3, <3>6, <3>7 DEF InTime
  <2>9. CASE k # 0
    <3>1. PICK h \in Nat \ {0} : h = Threshold[k] /\ h = Round(k)
      BY <2>1, <2>9, Rounds
    <3>2. PICK d \in Nat, s \in 0..h - 1 : d = (n - h) \div h /\ n - h = d * h + s
      <4>1. PICK z \in Nat : z = n - h
        BY <2>1, <3>1
      <4>2. PICK d \in Nat, s \in 0..h - 1 : d = z \div h /\ z = d * h + s
        BY DivMod
      <4> QED
        BY <4>1, <4>2
    <3>3. PICK q \in Nat : q = d + u
      OBVIOUS
    <3>4. q >= t[k]
      BY <2>6, <3>3
    <3>5. q % Size(k) = j
      <4>1. j = (d + m) % l
        BY <1>3, <2>6, <2>9, <3>1, <3>2 DEF Spoke
      <4>2. (d + m) % l = (d + u) % l
        <5>1. Same(m, u, l)
          BY <2>6 DEF Same
        <5>2. Same(d + m, d + u, l)
          BY <5>1, SameAdd
        <5> QED
          BY <5>2 DEF Same
      <4> QED
        BY <2>6, <3>3, <4>1, <4>2
    <3>6. h * (q + 1) <= c + n
      <4>1. PICK p \in Nat, o \in Nat : p = d * h /\ o = u * h
        BY Products
      <4>2. (q + 1) * h = p + o + h
        <5>1. (d + u) * h = d * h + u * h /\ (q + 1) * h = q * h + 1 * h /\ 1 * h = h
          BY Products
        <5> QED
          BY <3>3, <4>1, <5>1
      <4>3. o <= c
        <5>1. h * u <= c
          BY <2>1, <2>4, <2>6, <3>1 DEF Behind
        <5>2. u * h = h * u
          BY Products
        <5> QED
          BY <4>1, <5>1, <5>2, Zenon
      <4>4. p + o + h <= c + n
        BY <3>2, <4>1, <4>3
      <4>5. h * (q + 1) = (q + 1) * h
        BY Products
      <4> QED
        BY <4>2, <4>4, <4>5, Zenon
    <3>7. (h * (q + 1) - 1) * g <= node.dead
      <4>1. PICK z \in Nat : z = h * (q + 1) /\ z >= 1 /\ z <= c + n
        <5>1. h * (q + 1) \in Nat /\ h * (q + 1) >= 1
          OBVIOUS
        <5> QED
          BY <3>6, <5>1
      <4>2. (z - 1) * g <= (c + n) * g /\ (c + n) * g = e + a
        <5>1. z - 1 \in Nat /\ c + n \in Nat /\ z - 1 <= c + n
          BY <4>1
        <5>2. (z - 1) * g <= (c + n) * g
          BY <5>1, Products
        <5>3. (c + n) * g = c * g + n * g
          BY Products
        <5> QED
          BY <2>3, <2>5, <5>2, <5>3, Zenon
      <4>3. e + a <= node.dead
        BY <2>4, <2>5, <2>7
      <4>4. PICK r1 \in Nat : r1 = (z - 1) * g
        BY <4>1
      <4>5. r1 <= node.dead
        BY <4>2, <4>3, <4>4, <2>7
      <4> QED
        BY <4>1, <4>4, <4>5, Zenon
    <3> QED
      BY <2>2, <2>9, <3>1, <3>4, <3>5, <3>7 DEF InTime
  <2> QED
    BY <2>8, <2>9
<1> QED
  BY <1>4, <1>5, <1>6
-----------------------------------------------------------------------------
(* What every operation keeps: S are the tasks that wait.                  *)
Sound(x, t, S) == x \in Works /\ Timed(x, t) /\ Homes(Of(x), S)

LEMMA PlaceKeeps ==
    ASSUME NEW x, NEW t, NEW S, Sound(x, t, S), Behind(t), NEW ms \in Nat, NEW node \in Nodes,
           node.dead = now + ms, node.id \notin S
    PROVE  /\ Sound(Place(x, ms, node), t, S \cup {node.id})
           /\ Place(x, ms, node).index = x.index /\ Place(x, ms, node).check = x.check
<1>1. PICK y : y = Place(x, ms, node)
  OBVIOUS
<1>4. x \in Works /\ Timed(x, t) /\ Homes(Of(x), S)
  BY DEF Sound
<1>2. PICK k, j : Linked(x, y, k, j, node) /\ InTime(t, k, j, node)
  BY <1>1, <1>4, PlaceDoes
<1>5. /\ k \in Wheels /\ j \in 0..Size(k) - 1
      /\ y \in Works /\ y.index = x.index /\ y.check = x.check
      /\ Of(y)[<<k, j>>] = Append(Of(x)[<<k, j>>], node) /\ SameBut(Of(x), Of(y), {<<k, j>>})
  BY <1>2 DEF Linked
<1>6. InTime(t, k, j, node)
  BY <1>2
<1>7. PICK p \in Spokes : p = <<k, j>> /\ p # Ready
  BY <1>5, SpokesAre
<1>8. /\ Of(x) \in Lists /\ Ready \in Names /\ Spokes \subseteq Names
  BY <1>4, OfIs
<1>9. Homes(Of(y), S \cup {node.id})
  BY <1>4, <1>5, <1>7, <1>8, AppendHomes
<1>10. \A q \in Names : \A i \in Nat : \A v \in Nodes :
           At(Of(y), q, i, v) => At(Of(x), q, i, v) \/ (q = p /\ v = node)
  BY <1>5, <1>7, <1>8, AppendAt
<1>11. Timed(y, t)
  <2>1. \A l \in Wheels : y.index[l] % Size(l) = t[l] % Size(l)
    BY <1>4, <1>5 DEF Timed
  <2>2. ASSUME NEW l \in Wheels, NEW m \in 0..Size(l) - 1, NEW i \in Nat, NEW v \in Nodes,
               At(Of(y), <<l, m>>, i, v)
        PROVE  InTime(t, l, m, v)
    <3>1. <<l, m>> \in Names
      BY <1>8, SpokesAre
    <3>2. At(Of(x), <<l, m>>, i, v) \/ (<<l, m>> = p /\ v = node)
      BY <1>10, <2>2, <3>1
    <3>3. <<l, m>> = p => l = k /\ m = j
      BY <1>7
    <3> QED
      BY <1>4, <1>6, <3>2, <3>3 DEF Timed
  <2>3. \A i \in Nat : \A v \in Nodes : At(Of(y), Ready, i, v) => v.dead < now + MaxLag
    BY <1>4, <1>7, <1>8, <1>10 DEF Timed
  <2> QED
    BY <2>1, <2>2, <2>3 DEF Timed
<1> QED
  BY <1>1, <1>5, <1>9, <1>11 DEF Sound

(* A node that is dealt again is ready, or is placed in time.              *)
LEMMA DealKeeps ==
    ASSUME NEW x, NEW t, NEW S, Sound(x, t, S), Behind(t), NEW node \in Nodes,
           node.id \notin S
    PROVE  /\ Sound(Deal(x, node), t, S \cup {node.id})
           /\ Deal(x, node).index = x.index /\ Deal(x, node).check = x.check
<1> DEFINE y == Deal(x, node)
<1>1. node.dead \in Nat /\ now \in Nat /\ MaxLag \in Nat \ {0}
  BY Constants DEF Nodes, Behind
<1>2. CASE node.dead <= now
  <2>1. y = [x EXCEPT !.ready = Append(@, node)]
    BY <1>2 DEF Deal
  <2>2. x \in Works /\ Timed(x, t) /\ Homes(Of(x), S) /\ Append(x.ready, node) \in Seq(Nodes)
    BY DEF Sound, Works
  <2>3. y \in Works /\ y.index = x.index /\ y.check = x.check /\ y.spokes = x.spokes
        /\ y.ready = Append(x.ready, node)
    BY <2>1, <2>2 DEF Works
  <2>4. Of(y)[Ready] = Append(Of(x)[Ready], node) /\ SameBut(Of(x), Of(y), {Ready})
    BY <2>2, <2>3, OfIs DEF SameBut, Names
  <2>5. Of(x) \in Lists /\ Ready \in Names /\ Spokes \subseteq Names
    BY <2>2, OfIs
  <2>6. Homes(Of(y), S \cup {node.id})
    BY <2>2, <2>4, <2>5, AppendHomes
  <2>7. \A q \in Names : \A i \in Nat : \A v \in Nodes :
            At(Of(y), q, i, v) => At(Of(x), q, i, v) \/ (q = Ready /\ v = node)
    BY <2>4, <2>5, AppendAt
  <2>8. Timed(y, t)
    <3>1. \A l \in Wheels : y.index[l] % Size(l) = t[l] % Size(l)
      BY <2>2, <2>3 DEF Timed
    <3>2. ASSUME NEW l \in Wheels, NEW m \in 0..Size(l) - 1, NEW i \in Nat, NEW v \in Nodes,
                 At(Of(y), <<l, m>>, i, v)
          PROVE  InTime(t, l, m, v)
      <4>1. <<l, m>> \in Names /\ <<l, m>> # Ready
        BY <2>5, SpokesAre
      <4>2. At(Of(x), <<l, m>>, i, v)
        BY <2>7, <3>2, <4>1
      <4> QED
        BY <2>2, <4>2 DEF Timed
    <3>3. ASSUME NEW i \in Nat, NEW v \in Nodes, At(Of(y), Ready, i, v)
          PROVE  v.dead < now + MaxLag
      <4>1. At(Of(x), Ready, i, v) \/ v = node
        BY <2>5, <2>7, <3>3
      <4>2. node.dead < now + MaxLag
        BY <1>1, <1>2
      <4> QED
        BY <2>2, <4>1, <4>2 DEF Timed
    <3> QED
      BY <3>1, <3>2, <3>3 DEF Timed
  <2> QED
    BY <2>3, <2>6, <2>8 DEF Sound
<1>3. CASE ~(node.dead <= now)
  <2>1. PICK ms \in Nat : ms = node.dead - now /\ node.dead = now + ms
    BY <1>1, <1>3
  <2>2. y = Place(x, ms, node)
    BY <1>3, <2>1 DEF Deal
  <2>3. /\ Sound(Place(x, ms, node), t, S \cup {node.id})
        /\ Place(x, ms, node).index = x.index /\ Place(x, ms, node).check = x.check
    BY <2>1, PlaceKeeps
  <2> QED
    BY <2>2, <2>3
<1> QED
  BY <1>2, <1>3


(* The list that cascade takes: its nodes wait nowhere, the others as      *)
(* before, and none of those left in the wheel leaves it with this turn.   *)
Taken(x, k) == [x EXCEPT !.spokes[<<k, x.index[k]>>] = <<>>, !.index[k] = @ + 1]
Turn(t, k)  == [t EXCEPT ![k] = @ + 1]
From(list, i) == {list[j].id : j \in i + 1..Len(list)}

LEMMA TakenKeeps ==
    ASSUME NEW x, NEW t, NEW S, Sound(x, t, S), t \in [Wheels -> Nat],
           NEW k \in Wheels, k # 0, x.index[k] < Size(k)
    PROVE  /\ <<k, x.index[k]>> \in Spokes
           /\ Sound(Taken(x, k), Turn(t, k), S \ From(x.spokes[<<k, x.index[k]>>], 0))
<1>0. PICK p : p = <<k, x.index[k]>>
  OBVIOUS
<1>1. x \in Works /\ Timed(x, t) /\ Homes(Of(x), S)
  BY DEF Sound
<1>2. PICK m \in Nat, d \in Nat \ {0}, a \in Nat :
          m = x.index[k] /\ d = Size(k) /\ a = t[k] /\ m < d
  BY <1>1, Constants DEF Works
<1>3. m % d = m /\ Same(m, a, d)
  BY <1>1, <1>2 DEF Timed, Same
<1>4. p \in Spokes /\ p # Ready
  <2>1. m \in 0..d - 1
    <3>1. m \in Nat /\ d \in Nat /\ m < d
      BY <1>2
    <3> QED
      BY <3>1
  <2> QED
    BY <1>0, <1>2, <2>1, SpokesAre
<1>5. PICK y : y = Taken(x, k) /\ y = [x EXCEPT !.spokes[p] = <<>>, !.index[k] = @ + 1]
  BY <1>0 DEF Taken
<1>6. PICK u : u = Turn(t, k) /\ u = [t EXCEPT ![k] = @ + 1]
  BY DEF Turn
<1>7. u \in [Wheels -> Nat] /\ u[k] = a + 1 /\ \A l \in Wheels : l # k => u[l] = t[l]
  BY <1>2, <1>6
<1>8. y \in Works /\ y.index = [x.index EXCEPT ![k] = m + 1] /\ y.ready = x.ready
      /\ y.spokes[p] = <<>> /\ \A q \in Spokes : q # p => y.spokes[q] = x.spokes[q]
  <2>1. x.spokes \in [Spokes -> Seq(Nodes)] /\ x.index \in [Wheels -> Nat] /\ <<>> \in Seq(Nodes)
    BY <1>1 DEF Works
  <2>2. PICK f \in [Spokes -> Seq(Nodes)] : f = [x.spokes EXCEPT ![p] = <<>>]
    BY <1>4, <2>1
  <2>3. PICK h \in [Wheels -> Nat] : h = [x.index EXCEPT ![k] = m + 1]
    <3>0. PICK g \in [Wheels -> Nat] : g = x.index
      BY <2>1
    <3>1. PICK e \in Nat : e = m + 1
      BY m \in Nat
    <3>2. [g EXCEPT ![k] = e] \in [Wheels -> Nat]
      OBVIOUS
    <3> QED
      BY <3>0, <3>1, <3>2
  <2>4. y = [x EXCEPT !.spokes = f, !.index = h]
    BY <1>2, <1>5, <2>2, <2>3
  <2>5. y \in Works /\ y.spokes = f /\ y.index = h /\ y.ready = x.ready
    BY <1>1, <2>4 DEF Works
  <2>6. f[p] = <<>> /\ \A q \in Spokes : q # p => f[q] = x.spokes[q]
    BY <1>4, <2>1, <2>2
  <2> QED
    BY <2>3, <2>5, <2>6
<1>9. Of(y)[p] = <<>> /\ SameBut(Of(x), Of(y), {p})
  BY <1>1, <1>4, <1>8, OfIs DEF SameBut, Names
<1>10. Of(x) \in Lists /\ Ready \in Names /\ Spokes \subseteq Names
  BY <1>1, OfIs
<1>11. Homes(Of(y), S \ {Of(x)[p][i].id : i \in 1..Len(Of(x)[p])})
  BY <1>1, <1>4, <1>9, <1>10, EmptyHomes
<1>12. \A q \in Names : \A i \in Nat : \A v \in Nodes :
           At(Of(y), q, i, v) => At(Of(x), q, i, v) /\ q # p
  <2>1. PICK F, G : F = Of(x) /\ G = Of(y)
    OBVIOUS
  <2>2. F \in Lists /\ p \in Names /\ G[p] = <<>> /\ SameBut(F, G, {p})
    BY <1>4, <1>9, <1>10, <2>1
  <2>3. \A q \in Names : \A i \in Nat : \A v \in Nodes : At(G, q, i, v) => At(F, q, i, v) /\ q # p
    BY <2>2 DEF At, SameBut
  <2> QED
    BY <2>1, <2>3
<1>13. ASSUME NEW l \in Wheels PROVE y.index[l] % Size(l) = u[l] % Size(l)
  <2>1. CASE l = k
    <3>2. Same(1 + m, 1 + a, d)
      BY <1>3, SameAdd
    <3>3. 1 + m = m + 1 /\ 1 + a = a + 1 /\ y.index[k] = m + 1
      BY <1>1, <1>8 DEF Works
    <3> QED
      BY <1>2, <1>7, <2>1, <3>2, <3>3 DEF Same
  <2>2. CASE l # k
    BY <1>1, <1>7, <1>8, <2>2 DEF Works, Timed
  <2> QED
    BY <2>1, <2>2
<1>14. ASSUME NEW l \in Wheels, NEW j \in 0..Size(l) - 1, NEW i \in Nat, NEW v \in Nodes,
              At(Of(y), <<l, j>>, i, v)
       PROVE  InTime(u, l, j, v)
  <2>1. <<l, j>> \in Names
    BY <1>10, SpokesAre
  <2>2. At(Of(x), <<l, j>>, i, v) /\ <<l, j>> # p
    BY <1>12, <1>14, <2>1
  <2>3. InTime(t, l, j, v)
    BY <1>1, <2>2 DEF Timed
  <2>4. PICK q \in Nat :
            /\ q >= t[l] /\ q % Size(l) = j
            /\ (Round(l) * (q + 1) - 1) * Granularity <= v.dead
            /\ l = 0 => q < t[0] + Size1 /\ v.dead < (q + 1) * Granularity + MaxLag
    BY <2>3 DEF InTime
  <2>5. q >= u[l]
    <3>1. CASE l = k
      <4>1. j # m
        BY <1>0, <1>2, <2>2, <3>1
      <4>2. q % d = j
        BY <1>2, <2>4, <3>1
      <4>3. q # a
        BY <1>2, <1>3, <4>1, <4>2 DEF Same
      <4>4. q >= a
        BY <1>2, <2>4, <3>1
      <4> QED
        BY <1>7, <3>1, <4>3, <4>4
    <3>2. CASE l # k
      BY <1>7, <2>4, <3>2
    <3> QED
      BY <3>1, <3>2
  <2>6. l = 0 => u[0] = t[0]
    BY <1>7
  <2> QED
    BY <2>4, <2>5, <2>6, Zenon DEF InTime
<1>15. \A i \in Nat : \A v \in Nodes : At(Of(y), Ready, i, v) => v.dead < now + MaxLag
  BY <1>1, <1>10, <1>12 DEF Timed
<1>16. Timed(y, u)
  BY <1>13, <1>14, <1>15 DEF Timed
<1>17. From(x.spokes[p], 0) = {Of(x)[p][i].id : i \in 1..Len(Of(x)[p])}
  BY <1>1, <1>4, OfIs DEF From
<1> QED
  BY <1>0, <1>4, <1>5, <1>6, <1>8, <1>11, <1>16, <1>17, Zenon DEF Sound

(* cascade turns its wheel and loses no task.                              *)
LEMMA CascadeKeeps ==
    ASSUME NEW x, NEW t, NEW S, Sound(x, t, S), NEW k \in Wheels, k # 0, x.index[k] < Size(k),
           Behind(t), Behind(Turn(t, k))
    PROVE  /\ Sound(Cascade(x, k), Turn(t, k), S)
           /\ Cascade(x, k).index = [x.index EXCEPT ![k] = @ + 1]
           /\ Cascade(x, k).check = x.check
<1>1. PICK u : u = Turn(t, k) /\ Behind(u)
  OBVIOUS
<1>2. PICK p : p = <<k, x.index[k]>>
  OBVIOUS
<1>3. PICK b : b = Taken(x, k) /\ b = [x EXCEPT !.spokes[p] = <<>>, !.index[k] = @ + 1]
  BY <1>2 DEF Taken
<1>4. PICK list : list = x.spokes[p]
  OBVIOUS
<1>5. p \in Spokes /\ Sound(b, u, S \ From(list, 0))
  <2>1. t \in [Wheels -> Nat]
    BY DEF Behind
  <2>2. /\ <<k, x.index[k]>> \in Spokes
        /\ Sound(Taken(x, k), Turn(t, k), S \ From(x.spokes[<<k, x.index[k]>>], 0))
    BY <2>1, TakenKeeps
  <2> QED
    BY <1>1, <1>2, <1>3, <1>4, <2>2
<1>6. b.index = [x.index EXCEPT ![k] = @ + 1] /\ b.check = x.check
  BY <1>3 DEF Sound, Works
<1>7. PICK n \in Nat : n = Len(list) /\ list \in Seq(Nodes) /\ list = Of(x)[p]
  BY <1>4, <1>5, OfIs, ListIs DEF Sound
<1>8. ASSUME NEW i \in 1..n
      PROVE  /\ list[i] \in Nodes /\ list[i].id \notin S \ From(list, i - 1)
             /\ (S \ From(list, i - 1)) \cup {list[i].id} = S \ From(list, i)
  <2>1. i \in 1..Len(list) /\ (i - 1) + 1 = i
    BY <1>7
  <2>2. \A j \in 1..n : list[j] \in Nodes /\ j \in Nat /\ At(Of(x), p, j, list[j])
    BY <1>7 DEF At
  <2>3. p \in Names /\ Apart(Of(x)) /\ Holds(Of(x), S)
    BY <1>5, OfIs DEF Sound, Homes
  <2>4. list[i].id \in S
    BY <2>2, <2>3 DEF Holds
  <2>5. \A j \in 1..n : list[j].id = list[i].id => j = i
    BY <2>2, <2>3 DEF Apart
  <2>6. From(list, i - 1) = From(list, i) \cup {list[i].id}
    <3>1. \A j : j \in (i - 1) + 1..Len(list) <=> j \in i + 1..Len(list) \/ j = i
      BY <2>1
    <3> QED
      BY <3>1 DEF From
  <2>7. list[i].id \notin From(list, i)
    <3>1. \A j \in i + 1..Len(list) : j \in 1..n /\ j # i
      BY <1>7
    <3> QED
      BY <2>5, <3>1 DEF From
  <2> QED
    BY <2>1, <2>2, <2>4, <2>6, <2>7
<1> DEFINE P(y, i) == Sound(y, u, S \ From(list, i)) /\ y.index = b.index /\ y.check = b.check
           D == [i \in 0..n |-> {y \in Works : P(y, i)}]
           H == [z \in (1..n) \X Works |-> Deal(z[2], list[z[1]])]
           T(f) == f = [i \in 0..Len(list) |-> IF i = 0 THEN b ELSE Deal(f[i - 1], list[i])]
<1>9. ASSUME NEW i \in 1..n, NEW y \in Works, P(y, i - 1) PROVE Deal(y, list[i]) \in Works /\ P(Deal(y, list[i]), i)
  <2>0. PICK node, R : /\ node \in Nodes /\ node = list[i]
                       /\ R = S \ From(list, i - 1) /\ node.id \notin R /\ Sound(y, u, R)
    BY <1>8, <1>9
  <2>1. /\ Sound(Deal(y, list[i]), u, (S \ From(list, i - 1)) \cup {list[i].id})
        /\ Deal(y, list[i]).index = y.index /\ Deal(y, list[i]).check = y.check
    <3>1. /\ Sound(Deal(y, node), u, R \cup {node.id})
          /\ Deal(y, node).index = y.index /\ Deal(y, node).check = y.check
      BY <1>1, <2>0, DealKeeps
    <3> QED
      BY <2>0, <3>1
  <2>2. Sound(Deal(y, list[i]), u, S \ From(list, i))
    BY <1>8, <2>1
  <2> QED
    BY <1>9, <2>1, <2>2 DEF Sound
<1>10. b \in Works /\ P(b, 0)
  BY <1>5 DEF Sound
<1> HIDE DEF P
<1>11. /\ \A i \in 0..n : \A y : y \in D[i] <=> y \in Works /\ P(y, i)
       /\ \A i \in 1..n : \A y \in Works : H[<<i, y>>] = Deal(y, list[i])
       /\ \A i \in 1..n : i - 1 \in 0..n
  OBVIOUS
<1> HIDE DEF D, H
<1>12. b \in D[0] /\ \A i \in 1..n : \A y \in D[i - 1] : y \in Works /\ Deal(y, list[i]) \in D[i]
  BY <1>9, <1>10, <1>11
<1>13. \E f : T(f)
  <2>1. \A i \in 1..n : \A y \in D[i - 1] : H[<<i, y>>] \in D[i]
    BY <1>11, <1>12
  <2>2. PICK g : Chain(g, b, H, D, n)
    BY <1>12, <2>1, Recursion
  <2>3. \A i \in 1..n : H[<<i, g[i - 1]>>] = Deal(g[i - 1], list[i])
    BY <1>11, <1>12, <2>2 DEF Chain
  <2>4. [i \in 0..n |-> IF i = 0 THEN b ELSE H[<<i, g[i - 1]>>]]
            = [i \in 0..n |-> IF i = 0 THEN b ELSE Deal(g[i - 1], list[i])]
    <3>1. \A i \in 0..n : i = 0 \/ i \in 1..n
      OBVIOUS
    <3> QED
      BY <2>3, <3>1
  <2>5. g = [i \in 0..Len(list) |-> IF i = 0 THEN b ELSE Deal(g[i - 1], list[i])]
    BY <1>7, <2>2, <2>4, Zenon DEF Chain
  <2> QED
    BY <2>5
<1>14. PICK f : f = CHOOSE fn : T(fn)
  OBVIOUS
<1>15. Cascade(x, k) = f[n]
  BY <1>2, <1>3, <1>4, <1>7, <1>14 DEF Cascade
<1>16. T(f)
  BY <1>13, <1>14
<1>17. f[0] = b /\ \A i \in 1..n : f[i] = Deal(f[i - 1], list[i])
  BY <1>7, <1>16
<1>18. f[n] \in D[n]
  <2> HIDE DEF T
  <2>1. f[0] \in D[0]
    BY <1>12, <1>17
  <2>2. \A i \in 1..n : f[i - 1] \in D[i - 1] => f[i] \in D[i]
    BY <1>12, <1>17
  <2>3. \A i \in 0..n : f[i] \in D[i]
    BY <2>1, <2>2, Steps
  <2> QED
    BY <2>3
<1>19. P(f[n], n)
  BY <1>11, <1>18
<1>20. From(list, n) = {}
  BY <1>7 DEF From
<1> QED
  BY <1>1, <1>6, <1>15, <1>19, <1>20 DEF P

-----------------------------------------------------------------------------
(* At a tick a wheel ends a round iff the one before it does, and has been *)
(* at its last spoke.                                                      *)
LEMMA Carries ==
    ASSUME NEW c \in Nat, NEW l \in Wheels, l + 1 \in Wheels
    PROVE  (c + 1) % Round(l + 1) = 0
               <=> (c + 1) % Round(l) = 0 /\ ((c \div Round(l)) % Size(l)) + 1 = Size(l)
<1>0. PICK r \in Nat \ {0}, d \in Nat \ {0}, q \in Nat \ {0} :
          r = Round(l) /\ d = Size(l) /\ q = Round(l + 1) /\ q = d * r
  BY Constants, Rounds
<1>1. PICK z \in Nat : z = c + 1
  OBVIOUS
<1>2. PICK a \in Nat : a = c \div r
  OBVIOUS
<1>3. PICK b \in Nat, s \in 0..d - 1 : b = (a + 1) \div d /\ s = (a + 1) % d /\ a + 1 = b * d + s
  <2>1. a + 1 \in Nat
    OBVIOUS
  <2> QED
    BY <2>1, DivMod
<1>4. s = 0 <=> (a % d) + 1 = d
  <2>1. PICK g \in Nat : g = a % d /\ g + 1 <= d
    <3>1. a % d \in 0..d - 1
      OBVIOUS
    <3> QED
      BY <3>1
  <2>2. /\ g + 1 < d => s = g + 1
        /\ g + 1 >= d => s = 0
    BY <1>3, <2>1, ModUp
  <2> QED
    BY <2>1, <2>2
<1>5. z % r = 0 => (z % q = 0 <=> (a % d) + 1 = d)
  <2>0. SUFFICES ASSUME z % r = 0 PROVE z % q = 0 <=> (a % d) + 1 = d
    OBVIOUS
  <2>1. z = (a + 1) * r
    <3>1. PICK e \in Nat, o \in 0..r - 1 : e = z \div r /\ o = z % r /\ z = e * r + o
      BY DivMod
    <3>2. e = a + 1
      BY <1>1, <1>2, <2>0, <3>1, ModUp
    <3> QED
      BY <2>0, <3>1, <3>2
  <2>2. PICK p \in Nat : p = b * d /\ a + 1 = p + s
    BY <1>3
  <2>3. PICK y \in Nat : y = s * r
    OBVIOUS
  <2>4. p * r = b * q
    <3>1. p * r = (b * d) * r /\ (b * d) * r = b * (d * r)
      BY <2>2
    <3> QED
      BY <1>0, <3>1
  <2>5. z = b * q + y
    <3>1. (p + s) * r = p * r + s * r
      BY Products
    <3> QED
      BY <2>1, <2>2, <2>3, <2>4, <3>1, Zenon
  <2>6. y \in 0..q - 1
    <3>1. s < d /\ d \in Nat /\ s \in Nat
      OBVIOUS
    <3>2. s * r + r <= d * r
      BY <3>1, Products
    <3>3. y + r <= q
      BY <1>0, <2>3, <3>2
    <3> QED
      BY <3>3
  <2>7. z % q = y
    BY <2>5, <2>6, DivIs
  <2>8. y = 0 <=> s = 0
    <3>1. s # 0 => 1 * r <= s * r
      BY Products
    <3>2. s = 0 => s * r = 0
      BY Products
    <3>3. 1 * r = r
      OBVIOUS
    <3> QED
      BY <2>3, <3>1, <3>2, <3>3
  <2> QED
    BY <1>4, <2>0, <2>7, <2>8
<1>6. z % r # 0 => z % q # 0
  <2>0. SUFFICES ASSUME z % r # 0 PROVE z % q # 0
    OBVIOUS
  <2>1. ASSUME z % q = 0 PROVE FALSE
    <3>1. PICK e \in Nat, o \in 0..q - 1 : e = z \div q /\ o = z % q /\ z = e * q + o
      BY DivMod, Zenon
    <3>2. PICK f \in Nat : f = e * d
      OBVIOUS
    <3>3. f * r = e * q
      BY <1>0, <3>2
    <3>4. 0 \in 0..r - 1 /\ z = f * r + 0
      BY <2>1, <3>1, <3>3
    <3>5. z % r = 0
      BY <3>4, DivIs
    <3> QED
      BY <2>0, <3>5
  <2> QED
    BY <2>0, <2>1
<1>7. z % q = 0 <=> z % r = 0 /\ (a % d) + 1 = d
  BY <1>1, <1>2, <1>5, <1>6
<1> QED
  BY <1>0, <1>1, <1>2, <1>7, Zenon

(* At tick c + 1, when the wheels before k have been turned for it.        *)
Turns(c, k) == [m \in Wheels |-> IF m < k THEN (c + 1) \div Round(m) ELSE c \div Round(m)]

(* The ticks that the clock has gone through.                              *)
Ticked(c) == now \in Nat /\ c * Granularity <= now /\ now <= c * Granularity + MaxLag

(* They are never ahead of the ticks, and differ by the turn of one        *)
(* wheel.                                                                  *)
LEMMA TurnsAre ==
    ASSUME NEW c \in Nat, Ticked(c + 1), NEW k \in Nat, k # 0
    PROVE  /\ Behind(Turns(c, k))
           /\ k \in Wheels => /\ (c + 1) % Round(k) = 0 => Turns(c, k + 1) = Turn(Turns(c, k), k)
                              /\ (c + 1) % Round(k) # 0 => Turns(c, k + 1) = Turns(c, k)
<1>1. PICK t : t = Turns(c, k)
  OBVIOUS
<1>2. PICK z \in Nat : z = c + 1 /\ c < z
  OBVIOUS
<1>3. ASSUME NEW m \in Wheels
      PROVE  /\ z \div Round(m) \in Nat /\ c \div Round(m) \in Nat
             /\ Round(m) * (z \div Round(m)) <= z /\ Round(m) * (c \div Round(m)) <= c
  <2>1. PICK r \in Nat \ {0} : r = Round(m)
    BY Rounds
  <2>2. PICK b \in Nat, o \in 0..r - 1 : b = z \div r /\ z = b * r + o
    BY DivMod
  <2>3. PICK e \in Nat, f \in 0..r - 1 : e = c \div r /\ c = e * r + f
    BY DivMod
  <2>4. b * r = r * b /\ e * r = r * e /\ b * r \in Nat /\ e * r \in Nat
    BY Products
  <2>5. r * b <= z /\ r * e <= c
    BY <2>2, <2>3, <2>4
  <2> QED
    BY <2>1, <2>2, <2>3, <2>5
<1>4. \A m \in Wheels : t[m] = IF m < k THEN z \div Round(m) ELSE c \div Round(m)
  BY <1>1, <1>2 DEF Turns
<1>5. t \in [Wheels -> Nat]
  BY <1>1, <1>2, <1>3 DEF Turns
<1>6. t[0] = z
  <2>1. 0 < k /\ 0 \in Wheels /\ Round(0) = 1 /\ z \div 1 = z
    BY Constants, Rounds
  <2> QED
    BY <1>4, <2>1
<1>7. ASSUME NEW m \in Wheels PROVE Round(m) * t[m] <= t[0]
  <2>1. CASE m < k
    BY <1>3, <1>4, <1>6, <2>1
  <2>2. CASE ~(m < k)
    <3>1. PICK y : y = Round(m) * (c \div Round(m)) /\ y \in Nat
      BY <1>3, Rounds
    <3>2. y <= c
      BY <1>3, <3>1
    <3>3. y <= z
      BY <1>2, <3>1, <3>2
    <3> QED
      BY <1>4, <1>6, <2>2, <3>1, <3>3
  <2> QED
    BY <2>1, <2>2
<1>8. Behind(t)
  BY <1>2, <1>5, <1>6, <1>7 DEF Behind, Ticked
<1>9. ASSUME k \in Wheels
      PROVE  /\ z % Round(k) = 0 => Turns(c, k + 1) = Turn(t, k)
             /\ z % Round(k) # 0 => Turns(c, k + 1) = t
  <2>1. PICK u : u = Turns(c, k + 1)
    OBVIOUS
  <2>2. \A m \in Wheels : u[m] = IF m < k + 1 THEN z \div Round(m) ELSE c \div Round(m)
    BY <1>2, <2>1 DEF Turns
  <2>3. u \in [Wheels -> Nat]
    BY <1>2, <1>3, <2>1 DEF Turns
  <2>4. \A m \in Wheels : m # k => u[m] = t[m]
    <3>1. \A m \in Wheels : m # k => (m < k <=> m < k + 1)
      BY Constants
    <3> QED
      BY <1>4, <2>2, <3>1
  <2>5. u[k] = z \div Round(k) /\ t[k] = c \div Round(k)
    BY <1>4, <1>9, <2>2
  <2>6. PICK r \in Nat \ {0} : r = Round(k)
    BY <1>9, Rounds
  <2>7. /\ z % r # 0 => z \div r = c \div r
        /\ z % r = 0 => z \div r = (c \div r) + 1
    BY <1>2, ModUp
  <2>8. z % r = 0 => u = Turn(t, k)
    <3>1. ASSUME z % r = 0 PROVE u[k] = t[k] + 1
      BY <2>5, <2>6, <2>7, <3>1
    <3> QED
      BY <1>5, <1>9, <2>3, <2>4, <3>1 DEF Turn
  <2>9. z % r # 0 => u = t
    <3>1. ASSUME z % r # 0 PROVE u[k] = t[k]
      BY <2>5, <2>6, <2>7, <3>1
    <3>2. z % r # 0 => \A m \in Wheels : u[m] = t[m]
      BY <2>4, <3>1
    <3> QED
      BY <1>5, <2>3, <3>2
  <2> QED
    BY <2>1, <2>6, <2>8, <2>9
<1> QED
  BY <1>1, <1>2, <1>8, <1>9

(* A wheel that has gone round starts over,                                *)
Zeroed(x, k) == [x EXCEPT !.index[k] = 0]

LEMMA StartsOver ==
    ASSUME NEW x, NEW t, NEW S, Sound(x, t, S), NEW k \in Wheels, x.index[k] = Size(k)
    PROVE  /\ Sound(Zeroed(x, k), t, S) /\ Zeroed(x, k).check = x.check
           /\ Zeroed(x, k).index \in [Wheels -> Nat] /\ Zeroed(x, k).index[k] = 0
           /\ \A m \in Wheels : m # k => Zeroed(x, k).index[m] = x.index[m]
<1>0. PICK y : y = Zeroed(x, k) /\ y = [x EXCEPT !.index[k] = 0]
  BY DEF Zeroed
<1>1. x \in Works /\ Timed(x, t) /\ Homes(Of(x), S)
  BY DEF Sound
<1>2. PICK g \in [Wheels -> Nat] : g = x.index
  BY <1>1 DEF Works
<1>3. PICK f \in [Wheels -> Nat] : f = [g EXCEPT ![k] = 0]
  OBVIOUS
<1>4. y = [x EXCEPT !.index = f]
  BY <1>0, <1>2, <1>3
<1>5. y \in Works /\ y.index = f /\ y.check = x.check /\ y.spokes = x.spokes /\ y.ready = x.ready
  BY <1>1, <1>4 DEF Works
<1>6. Of(y) = Of(x)
  BY <1>5 DEF Of
<1>7. f[k] = 0 /\ \A m \in Wheels : m # k => f[m] = g[m]
  BY <1>2, <1>3
<1>8. ASSUME NEW m \in Wheels PROVE y.index[m] % Size(m) = t[m] % Size(m)
  <2>1. CASE m = k
    <3>1. PICK d \in Nat \ {0} : d = Size(k)
      BY Constants
    <3>2. 0 % d = 0 /\ d % d = 0
      <4>1. 0 \in 0..d - 1 /\ 0 = 0 * d + 0 /\ d = 1 * d + 0
        OBVIOUS
      <4> QED
        BY <4>1, DivIs
    <3>3. g[k] % d = t[k] % d
      BY <1>1, <1>2, <3>1 DEF Timed
    <3> QED
      BY <1>2, <1>5, <1>7, <2>1, <3>1, <3>2, <3>3
  <2>2. CASE m # k
    BY <1>1, <1>2, <1>5, <1>7, <2>2 DEF Timed
  <2> QED
    BY <2>1, <2>2
<1>9. Timed(y, t)
  BY <1>1, <1>6, <1>8 DEF Timed
<1> QED
  BY <1>0, <1>1, <1>2, <1>5, <1>6, <1>7, <1>9 DEF Sound

(* and the next one turns: the wheels after the first k have been seen to. *)
Midway(y, c, k, S, h) ==
    /\ Sound(y, Turns(c, k + 1), S) /\ y.check = h
    /\ \A m \in Wheels : m # k => y.index[m] < Size(m)
    /\ k \in Wheels =>
           y.index[k] = ((c \div Round(k)) % Size(k)) + (IF (c + 1) % Round(k) = 0 THEN 1 ELSE 0)

LEMMA CarryKeeps ==
    ASSUME NEW c \in Nat, Ticked(c + 1), NEW l \in Wheels, NEW y, NEW S, NEW h,
           Midway(y, c, l, S, h)
    PROVE  Midway(Carry(y, l + 1), c, l + 1, S, h)
<1>1. PICK k \in Nat : k = l + 1 /\ k # 0 /\ k - 1 = l /\ l # k /\ (k \in Wheels \/ k = WheelNum)
  BY Constants DEF Wheels
<1>2. PICK t : t = Turns(c, k) /\ Sound(y, t, S) /\ Behind(t)
  <2>1. Sound(y, Turns(c, k), S)
    BY <1>1 DEF Midway
  <2>2. Behind(Turns(c, k))
    BY <1>1, TurnsAre
  <2> QED
    BY <2>1, <2>2
<1>3. PICK d \in Nat \ {0}, r \in Nat \ {0} : d = Size(l) /\ r = Round(l)
  BY Constants, Rounds
<1>4. PICK g \in [Wheels -> Nat], i \in Nat : g = y.index /\ i = g[l]
  BY <1>2 DEF Sound, Works
<1>5. PICK s \in 0..d - 1 : s = (c \div r) % d
  <2>1. c \div r \in Nat
    OBVIOUS
  <2> QED
    BY <2>1
<1>6. i = s + (IF (c + 1) % r = 0 THEN 1 ELSE 0)
  BY <1>3, <1>4, <1>5 DEF Midway
<1>7. i <= d /\ (i = d <=> (c + 1) % r = 0 /\ s + 1 = d)
  BY <1>5, <1>6
<1>8. k \in Wheels => ((c + 1) % Round(k) = 0 <=> i = d)
  <2> SUFFICES ASSUME k \in Wheels PROVE (c + 1) % Round(k) = 0 <=> i = d
    OBVIOUS
  <2>1. (c + 1) % Round(l + 1) = 0
            <=> (c + 1) % Round(l) = 0 /\ ((c \div Round(l)) % Size(l)) + 1 = Size(l)
    BY <1>1, Carries
  <2>2. (c + 1) % Round(k) = 0 <=> (c + 1) % r = 0 /\ s + 1 = d
    BY <1>1, <1>3, <1>5, <2>1, Zenon
  <2> QED
    BY <1>7, <2>2
<1>9. \A m \in Wheels : m # l => g[m] < Size(m)
  BY <1>4 DEF Midway
<1>10. k \in Wheels => g[k] = (c \div Round(k)) % Size(k)
  <2>1. SUFFICES ASSUME k \in Wheels PROVE g[k] = (c \div Round(k)) % Size(k)
    OBVIOUS
  <2>2. PICK e \in Nat \ {0}, u \in Nat, v \in Nat : e = Size(k) /\ u = g[k] /\ v = t[k]
    BY <1>2, <2>1, Constants DEF Behind
  <2>3. u % e = v % e
    BY <1>2, <1>4, <2>1, <2>2 DEF Sound, Timed
  <2>4. u < e
    BY <1>1, <1>9, <2>1, <2>2
  <2>5. u % e = u
    BY <2>4
  <2>6. v = c \div Round(k)
    BY <1>1, <1>2, <2>1, <2>2 DEF Turns
  <2> QED
    BY <2>2, <2>3, <2>5, <2>6
<1>11. /\ k \in Wheels /\ i = d => Turns(c, k + 1) = Turn(t, k)
       /\ k \in Wheels /\ i # d => Turns(c, k + 1) = t
       /\ k = WheelNum => Turns(c, k + 1) = t
  <2>1. k = WheelNum => Turns(c, k + 1) = t
    <3>1. k = WheelNum => \A m \in Wheels : m < k /\ m < k + 1
      BY <1>1, Constants DEF Wheels
    <3> QED
      BY <1>2, <3>1 DEF Turns
  <2>2. k \in Wheels => /\ (c + 1) % Round(k) = 0 => Turns(c, k + 1) = Turn(Turns(c, k), k)
                        /\ (c + 1) % Round(k) # 0 => Turns(c, k + 1) = Turns(c, k)
    BY <1>1, TurnsAre
  <2> QED
    BY <1>2, <1>8, <2>1, <2>2
<1>12. y.check = h
  BY DEF Midway
<1>13. PICK o : o = Carry(y, k)
  OBVIOUS
<1>14. CASE i # d
  <2>1. i < d
    BY <1>7, <1>14
  <2>2. o = y
    BY <1>1, <1>3, <1>4, <1>13, <2>1 DEF Carry
  <2>3. Sound(o, Turns(c, k + 1), S)
    BY <1>1, <1>2, <1>11, <1>14, <2>2
  <2>4. \A m \in Wheels : o.index[m] < Size(m)
    BY <1>3, <1>4, <1>9, <2>1, <2>2
  <2>5. k \in Wheels => o.index[k] = ((c \div Round(k)) % Size(k)) + (IF (c + 1) % Round(k) = 0 THEN 1 ELSE 0)
    <3>1. ASSUME k \in Wheels PROVE (c + 1) % Round(k) # 0 /\ g[k] \in Nat
      BY <1>8, <1>14, <3>1
    <3>2. ASSUME k \in Wheels PROVE g[k] + 0 = g[k]
      BY <3>1, <3>2
    <3> QED
      BY <1>4, <1>10, <2>2, <3>1, <3>2
  <2>6. Midway(o, c, k, S, h)
    BY <1>12, <2>2, <2>3, <2>4, <2>5 DEF Midway
  <2> QED
    BY <1>1, <1>13, <2>6
<1>15. CASE i = d
  <2>1. PICK z : z = Zeroed(y, l)
    OBVIOUS
  <2>2. /\ Sound(z, t, S) /\ z.check = y.check
        /\ z.index \in [Wheels -> Nat] /\ z.index[l] = 0
        /\ \A m \in Wheels : m # l => z.index[m] = y.index[m]
    BY <1>2, <1>3, <1>4, <1>15, <2>1, StartsOver
  <2>3. \A m \in Wheels : z.index[m] < Size(m)
    <3>1. ASSUME NEW m \in Wheels PROVE z.index[m] < Size(m)
      <4>1. CASE m = l
        BY <1>3, <2>2, <4>1
      <4>2. CASE m # l
        BY <1>4, <1>9, <2>2, <4>2
      <4> QED
        BY <4>1, <4>2
    <3> QED
      BY <3>1
  <2>4. o = IF k = WheelNum THEN z ELSE Cascade(z, k)
    <3>1. ~(y.index[k - 1] < Size(k - 1))
      <4>1. ~(d < d)
        OBVIOUS
      <4>2. y.index[l] = d /\ Size(l) = d /\ k - 1 = l
        BY <1>1, <1>3, <1>4, <1>15
      <4> QED
        BY <4>1, <4>2, Zenon
    <3>2. o = IF k = WheelNum THEN [y EXCEPT !.index[k - 1] = 0] ELSE Cascade([y EXCEPT !.index[k - 1] = 0], k)
      BY <1>13, <3>1, Zenon DEF Carry
    <3> QED
      BY <1>1, <2>1, <3>2 DEF Zeroed
  <2>5. CASE k = WheelNum
    <3>1. o = z /\ k \notin Wheels
      BY <2>4, <2>5, Constants
    <3>2. Sound(o, Turns(c, k + 1), S)
      BY <1>11, <2>2, <2>5, <3>1
    <3>3. Midway(o, c, k, S, h)
      BY <1>12, <2>2, <2>3, <3>1, <3>2 DEF Midway
    <3> QED
      BY <1>1, <1>13, <3>3
  <2>6. CASE k # WheelNum
    <3>1. k \in Wheels /\ o = Cascade(z, k)
      BY <1>1, <2>4, <2>6
    <3>2. Turns(c, k + 1) = Turn(t, k)
      BY <1>11, <1>15, <3>1
    <3>3. Behind(Turn(t, k))
      <4>1. k + 1 \in Nat /\ k + 1 # 0
        OBVIOUS
      <4>2. Behind(Turns(c, k + 1))
        BY <4>1, TurnsAre
      <4> QED
        BY <3>2, <4>2
    <3>4. /\ Sound(o, Turn(t, k), S)
          /\ o.index = [z.index EXCEPT ![k] = @ + 1] /\ o.check = z.check
      BY <1>1, <1>2, <2>2, <2>3, <3>1, <3>3, CascadeKeeps
    <3>5. o.index[k] = z.index[k] + 1 /\ \A m \in Wheels : m # k => o.index[m] = z.index[m]
      BY <2>2, <3>1, <3>4
    <3>6. o.index[k] = ((c \div Round(k)) % Size(k)) + (IF (c + 1) % Round(k) = 0 THEN 1 ELSE 0)
      <4>1. z.index[k] = (c \div Round(k)) % Size(k)
        BY <1>1, <1>4, <1>10, <2>2, <3>1
      <4>2. (c + 1) % Round(k) = 0
        BY <1>8, <1>15, <3>1
      <4> QED
        BY <3>5, <4>1, <4>2, Zenon
    <3>7. Midway(o, c, k, S, h)
      BY <1>12, <2>2, <2>3, <3>2, <3>4, <3>5, <3>6 DEF Midway
    <3> QED
      BY <1>1, <1>13, <3>7
  <2> QED
    BY <2>5, <2>6
<1> QED
  BY <1>14, <1>15

(* The wheels turn as far as one has gone round.                           *)
LEMMA TurnOnKeeps ==
    ASSUME NEW c \in Nat, Ticked(c + 1), NEW x, NEW S, Midway(x, c, 0, S, x.check)
    PROVE  /\ Sound(TurnOn(x), Turns(c, WheelNum), S) /\ TurnOn(x).check = x.check
           /\ \A m \in Wheels : TurnOn(x).index[m] < Size(m)
<1>1. PICK n \in Nat : n = WheelNum /\ n # 0 /\ \A k \in 1..n : k - 1 \in Wheels /\ (k - 1) + 1 = k
  BY Constants DEF Wheels
<1>2. PICK h : h = x.check
  OBVIOUS
<1> DEFINE D == [k \in 0..n |-> {y \in Works : Midway(y, c, k, S, h)}]
           H == [z \in (1..n) \X Works |-> Carry(z[2], z[1])]
           T(f) == f = [k \in 0..WheelNum |-> IF k = 0 THEN x ELSE Carry(f[k - 1], k)]
<1>3. ASSUME NEW k \in 1..n, NEW y \in Works, Midway(y, c, k - 1, S, h)
      PROVE  Carry(y, k) \in Works /\ Midway(Carry(y, k), c, k, S, h)
  <2>1. PICK l \in Wheels : l = k - 1 /\ l + 1 = k
    BY <1>1
  <2>2. Midway(y, c, l, S, h)
    BY <1>3, <2>1
  <2>3. Midway(Carry(y, l + 1), c, l + 1, S, h)
    BY <2>2, CarryKeeps
  <2>4. Midway(Carry(y, k), c, k, S, h)
    BY <2>1, <2>3
  <2> QED
    BY <2>4 DEF Midway, Sound
<1>4. x \in Works /\ Midway(x, c, 0, S, h)
  BY <1>2 DEF Midway, Sound
<1>5. /\ \A k \in 0..n : \A y : y \in D[k] <=> y \in Works /\ Midway(y, c, k, S, h)
      /\ \A k \in 1..n : \A y \in Works : H[<<k, y>>] = Carry(y, k)
      /\ \A k \in 1..n : k - 1 \in 0..n
  OBVIOUS
<1> HIDE DEF D, H
<1>6. x \in D[0] /\ \A k \in 1..n : \A y \in D[k - 1] : y \in Works /\ Carry(y, k) \in D[k]
  BY <1>3, <1>4, <1>5
<1>7. \E f : T(f)
  <2>1. \A k \in 1..n : \A y \in D[k - 1] : H[<<k, y>>] \in D[k]
    BY <1>5, <1>6
  <2>2. PICK g : Chain(g, x, H, D, n)
    BY <1>6, <2>1, Recursion
  <2>3. \A k \in 1..n : H[<<k, g[k - 1]>>] = Carry(g[k - 1], k)
    BY <1>5, <1>6, <2>2 DEF Chain
  <2>4. [k \in 0..n |-> IF k = 0 THEN x ELSE H[<<k, g[k - 1]>>]]
            = [k \in 0..n |-> IF k = 0 THEN x ELSE Carry(g[k - 1], k)]
    <3>1. \A k \in 0..n : k = 0 \/ k \in 1..n
      OBVIOUS
    <3> QED
      BY <2>3, <3>1
  <2>5. g = [k \in 0..WheelNum |-> IF k = 0 THEN x ELSE Carry(g[k - 1], k)]
    BY <1>1, <2>2, <2>4, Zenon DEF Chain
  <2> QED
    BY <2>5
<1>8. PICK f : f = CHOOSE fn : T(fn)
  OBVIOUS
<1>9. TurnOn(x) = f[n]
  BY <1>1, <1>8 DEF TurnOn
<1>10. T(f)
  BY <1>7, <1>8
<1>11. f[0] = x /\ \A k \in 1..n : f[k] = Carry(f[k - 1], k)
  BY <1>1, <1>10
<1>12. f[n] \in D[n]
  <2> HIDE DEF T
  <2>1. f[0] \in D[0]
    BY <1>6, <1>11
  <2>2. \A k \in 1..n : f[k - 1] \in D[k - 1] => f[k] \in D[k]
    BY <1>6, <1>11
  <2>3. \A k \in 0..n : f[k] \in D[k]
    BY <2>1, <2>2, Steps
  <2> QED
    BY <2>3
<1>13. Midway(f[n], c, n, S, h)
  BY <1>5, <1>12
<1>14. Turns(c, n + 1) = Turns(c, n)
  <2>1. \A m \in Wheels : m < n /\ m < n + 1
    BY <1>1 DEF Wheels
  <2> QED
    BY <2>1 DEF Turns
<1>15. n \notin Wheels
  BY <1>1, Constants
<1> QED
  BY <1>1, <1>2, <1>9, <1>13, <1>14, <1>15 DEF Midway

-----------------------------------------------------------------------------
(* Between two calls: c ticks have been made, each wheel stands on one of  *)
(* its spokes, and S are the tasks that wait.                              *)
Settled(x, c, S) ==
    /\ Sound(x, Turns(c, 0), S) /\ x.check = c * Granularity
    /\ \A m \in Wheels : x.index[m] < Size(m)

(* The innermost wheel gives up a spoke.                                   *)
Given(x) ==
    [x EXCEPT !.ready = @ \o x.spokes[<<0, x.index[0]>>],
              !.spokes[<<0, x.index[0]>>] = <<>>,
              !.index[0] = @ + 1]

(* Its nodes go behind the ready ones.                                     *)
LEMMA GivenIs ==
    ASSUME NEW x \in Works, NEW p \in Spokes, p = <<0, x.index[0]>>
    PROVE  /\ Given(x) \in Works /\ Given(x).check = x.check
           /\ Given(x).index = [x.index EXCEPT ![0] = @ + 1]
           /\ Spliced(Of(x), Of(Given(x)), Ready, p)
<1>1. x.spokes \in [Spokes -> Seq(Nodes)] /\ x.ready \in Seq(Nodes) /\ 0 \in Wheels
  BY Constants DEF Works
<1>2. PICK g \in [Wheels -> Nat], a \in Nat : g = x.index /\ a = g[0]
  BY <1>1 DEF Works
<1>3. PICK e \in Nat : e = a + 1
  OBVIOUS
<1>4. PICK h \in [Wheels -> Nat] : h = [g EXCEPT ![0] = e]
  OBVIOUS
<1>5. PICK f \in [Spokes -> Seq(Nodes)] : f = [x.spokes EXCEPT ![p] = <<>>]
  <2>1. PICK s \in [Spokes -> Seq(Nodes)] : s = x.spokes
    BY <1>1
  <2>2. [s EXCEPT ![p] = <<>>] \in [Spokes -> Seq(Nodes)]
    OBVIOUS
  <2> QED
    BY <2>1, <2>2
<1>6. f[p] = <<>> /\ \A q \in Spokes : q # p => f[q] = x.spokes[q]
  BY <1>1, <1>5
<1>7. PICK l \in Seq(Nodes) : l = x.ready \o x.spokes[p]
  <2>1. x.spokes[p] \in Seq(Nodes)
    BY <1>1
  <2>2. x.ready \o x.spokes[p] \in Seq(Nodes)
    BY <1>1, <2>1, ConcatProperties
  <2> QED
    BY <2>2
<1>8. PICK y : y = Given(x)
  OBVIOUS
<1>9. y = [x EXCEPT !.ready = l, !.spokes = f, !.index = h]
  <2>1. y = [x EXCEPT !.ready = x.ready \o x.spokes[p],
                      !.spokes = [x.spokes EXCEPT ![p] = <<>>],
                      !.index = [x.index EXCEPT ![0] = x.index[0] + 1]]
    BY <1>8 DEF Given, Works
  <2> QED
    BY <1>2, <1>3, <1>4, <1>5, <1>7, <2>1, Zenon
<1>10. y \in Works /\ y.check = x.check /\ y.index = h /\ y.spokes = f /\ y.ready = l
  BY <1>9 DEF Works
<1>11. p # Ready /\ Ready \notin Spokes
  BY SpokesAre
<1>12. PICK F, G : F = Of(x) /\ G = Of(y)
  OBVIOUS
<1>13. /\ F[Ready] = x.ready /\ \A q \in Spokes : F[q] = x.spokes[q]
       /\ G[Ready] = l /\ \A q \in Spokes : G[q] = f[q]
  BY <1>10, <1>12, OfIs
<1>14. SameBut(F, G, {p, Ready})
  BY <1>6, <1>13 DEF SameBut, Names
<1>15. G[Ready] = F[Ready] \o F[p] /\ G[p] = <<>>
  BY <1>6, <1>7, <1>13
<1>16. Spliced(Of(x), Of(y), Ready, p)
  BY <1>11, <1>12, <1>14, <1>15 DEF Spliced
<1> QED
  BY <1>2, <1>3, <1>4, <1>8, <1>10, <1>16

(* Its tasks are those of this tick: none is much too early.               *)
LEMMA GivenKeeps ==
    ASSUME NEW c \in Nat, Ticked(c + 1), NEW x, NEW S, Settled(x, c, S)
    PROVE  Midway(Given(x), c, 0, S, Given(x).check) /\ Given(x).check = x.check
<1>1. /\ x \in Works /\ Timed(x, Turns(c, 0)) /\ Homes(Of(x), S)
      /\ \A m \in Wheels : x.index[m] < Size(m)
  BY DEF Settled, Sound
<1>2. PICK t, u : t = Turns(c, 0) /\ u = Turns(c, 1)
  OBVIOUS
<1>3. /\ \A m \in Wheels : t[m] = c \div Round(m)
      /\ \A m \in Wheels : m # 0 => u[m] = t[m]
      /\ t[0] = c /\ u[0] = c + 1
  <2>1. 0 \in Wheels /\ Round(0) = 1 /\ c \div 1 = c /\ (c + 1) \div 1 = c + 1 /\ 0 < 1
    BY Constants, Rounds
  <2>2. \A m \in Wheels : ~(m < 0) /\ (m # 0 => ~(m < 1))
    BY Constants
  <2>3. /\ \A m \in Wheels : t[m] = IF m < 0 THEN (c + 1) \div Round(m) ELSE c \div Round(m)
        /\ \A m \in Wheels : u[m] = IF m < 1 THEN (c + 1) \div Round(m) ELSE c \div Round(m)
    BY <1>2 DEF Turns
  <2> QED
    BY <2>1, <2>2, <2>3
<1>4. PICK d \in Nat \ {0}, a \in Nat : d = Size1 /\ d = Size(0) /\ a = x.index[0] /\ a < d
  BY <1>1, Constants DEF Size, Works
<1>5. a % d = a /\ Same(a, c, d)
  <2>1. a % d = a
    BY <1>4
  <2>2. a % d = c % d
    BY <1>1, <1>2, <1>3, <1>4, Constants DEF Timed
  <2> QED
    BY <2>1, <2>2 DEF Same
<1>6. PICK p \in Spokes : p = <<0, x.index[0]>> /\ p # Ready
  <2>1. a \in 0..d - 1
    BY <1>4
  <2>2. <<0, a>> \in Spokes /\ <<0, a>> # Ready
    BY <1>4, <2>1, Constants, SpokesAre
  <2> QED
    BY <1>4, <2>2, Zenon
<1>7. PICK y : y = Given(x)
  OBVIOUS
<1>8. /\ y \in Works /\ y.check = x.check /\ y.index = [x.index EXCEPT ![0] = @ + 1]
      /\ Spliced(Of(x), Of(y), Ready, p)
  BY <1>1, <1>6, <1>7, GivenIs
<1>9. y.index[0] = a + 1 /\ \A m \in Wheels : m # 0 => y.index[m] = x.index[m]
  BY <1>1, <1>4, <1>8, Constants DEF Works
<1>10. PICK F, G : /\ F \in Lists /\ F = Of(x) /\ G = Of(y)
                    /\ Spliced(F, G, Ready, p) /\ Ready \in Names /\ p \in Names
  BY <1>1, <1>8, OfIs
<1>11. Homes(G, S)
  BY <1>1, <1>10, SpliceHomes
<1>12. PICK n \in Nat : n = Len(F[Ready])
  BY <1>10, ListIs
<1>13. \A q \in Names : \A i \in Nat : \A v \in Nodes :
           At(G, q, i, v) <=> \/ At(F, q, i, v) /\ q # p
                              \/ q = Ready /\ i > n /\ At(F, p, i - n, v)
  <2>1. \A q \in Names : \A i \in Nat : \A v \in Nodes :
            At(G, q, i, v) <=> \/ At(F, q, i, v) /\ q # p
                               \/ q = Ready /\ i > Len(F[Ready]) /\ At(F, p, i - Len(F[Ready]), v)
    BY <1>10, SpliceAt
  <2> QED
    BY <1>12, <2>1
<1>14. ASSUME NEW m \in Wheels PROVE y.index[m] % Size(m) = u[m] % Size(m)
  <2>1. CASE m = 0
    <3>1. Same(1 + a, 1 + c, d)
      BY <1>5, SameAdd
    <3>2. 1 + a = a + 1 /\ 1 + c = c + 1
      OBVIOUS
    <3> QED
      BY <1>3, <1>4, <1>9, <2>1, <3>1, <3>2 DEF Same
  <2>2. CASE m # 0
    BY <1>1, <1>2, <1>3, <1>9, <2>2 DEF Timed
  <2> QED
    BY <2>1, <2>2
<1>15. ASSUME NEW l \in Wheels, NEW j \in 0..Size(l) - 1, NEW i \in Nat, NEW v \in Nodes,
              At(G, <<l, j>>, i, v)
       PROVE  InTime(u, l, j, v)
  <2>1. <<l, j>> \in Names /\ <<l, j>> # Ready
    BY SpokesAre DEF Names
  <2>2. At(F, <<l, j>>, i, v) /\ <<l, j>> # p
    BY <1>13, <1>15, <2>1
  <2>3. InTime(t, l, j, v)
    BY <1>1, <1>2, <1>10, <2>2 DEF Timed
  <2>4. PICK q \in Nat :
            /\ q >= t[l] /\ q % Size(l) = j
            /\ (Round(l) * (q + 1) - 1) * Granularity <= v.dead
            /\ l = 0 => q < t[0] + Size1 /\ v.dead < (q + 1) * Granularity + MaxLag
    BY <2>3 DEF InTime
  <2>5. q >= u[l] /\ (l = 0 => q < u[0] + Size1)
    <3>1. CASE l = 0
      <4>1. j # a
        BY <1>4, <1>6, <2>2, <3>1
      <4>2. q % d = j
        BY <1>4, <2>4, <3>1
      <4>3. q # c
        BY <1>5, <4>1, <4>2 DEF Same
      <4>4. q >= c /\ q < c + d
        BY <1>3, <1>4, <2>4, <3>1
      <4>5. q >= c + 1 /\ q < (c + 1) + d
        BY <4>3, <4>4
      <4> QED
        BY <1>3, <1>4, <3>1, <4>5
    <3>2. CASE l # 0
      BY <1>3, <2>4, <3>2
    <3> QED
      BY <3>1, <3>2
  <2> QED
    BY <2>4, <2>5, Zenon DEF InTime
<1>16. ASSUME NEW i \in Nat, NEW v \in Nodes, At(G, Ready, i, v)
       PROVE  v.dead < now + MaxLag
  <2>1. CASE At(F, Ready, i, v)
    BY <1>1, <1>10, <2>1 DEF Timed
  <2>2. CASE i > n /\ At(F, p, i - n, v)
    <3>1. PICK k \in Nat : k = i - n /\ At(F, p, k, v)
      BY <2>2
    <3>2. a \in 0..Size(0) - 1 /\ 0 \in Wheels /\ p = <<0, a>>
      BY <1>4, <1>6, Constants
    <3>3. InTime(t, 0, a, v)
      BY <1>1, <1>2, <1>10, <3>1, <3>2 DEF Timed
    <3>4. PICK q \in Nat : q >= c /\ q % d = a /\ q < c + d /\ v.dead < (q + 1) * Granularity + MaxLag
      BY <1>3, <1>4, <3>3 DEF InTime
    <3>5. q = c
      <4>1. c % d = q % d
        BY <1>5, <3>4 DEF Same
      <4> QED
        BY <3>4, <4>1, ModFirst
    <3>6. PICK g \in Nat : g = (c + 1) * Granularity
      BY Constants
    <3>7. g <= now /\ now \in Nat /\ v.dead < g + MaxLag /\ MaxLag \in Nat /\ v.dead \in Nat
      BY <3>4, <3>5, <3>6, Constants DEF Ticked, Nodes
    <3> QED
      BY <3>7
  <2> QED
    BY <1>10, <1>13, <1>16, <2>1, <2>2
<1>17. Timed(y, u)
  BY <1>10, <1>14, <1>15, <1>16 DEF Timed
<1>18. Sound(y, Turns(c, 0 + 1), S)
  <2>1. 0 + 1 = 1
    OBVIOUS
  <2> QED
    BY <1>2, <1>8, <1>10, <1>11, <1>17, <2>1 DEF Sound
<1>19. \A m \in Wheels : m # 0 => y.index[m] < Size(m)
  BY <1>1, <1>9
<1>20. y.index[0] = ((c \div Round(0)) % Size(0)) + (IF (c + 1) % Round(0) = 0 THEN 1 ELSE 0)
  <2>1. Round(0) = 1 /\ c \div 1 = c /\ (c + 1) % 1 = 0
    BY Rounds
  <2>2. c % d = a
    BY <1>5 DEF Same
  <2> QED
    BY <1>4, <1>9, <2>1, <2>2, Zenon
<1> QED
  BY <1>7, <1>8, <1>18, <1>19, <1>20 DEF Midway

(* One turn of detect_timer_list's loop.                                   *)
LEMMA SpokeOnKeeps ==
    ASSUME NEW c \in Nat, Ticked(c + 1), NEW x, NEW S, Settled(x, c, S)
    PROVE  Settled(OneSpokeOn(x), c + 1, S)
<1>1. PICK y : y = Given(x)
  OBVIOUS
<1>2. Midway(y, c, 0, S, y.check) /\ y.check = x.check
  BY <1>1, GivenKeeps
<1>3. PICK z : z = TurnOn(y)
  OBVIOUS
<1>4. Sound(z, Turns(c, WheelNum), S) /\ z.check = x.check /\ \A m \in Wheels : z.index[m] < Size(m)
  BY <1>2, <1>3, TurnOnKeeps
<1>5. PICK o : o = OneSpokeOn(x)
  OBVIOUS
<1>6. o = [z EXCEPT !.check = z.check + Granularity]
  BY <1>1, <1>3, <1>5 DEF OneSpokeOn, Given, Later
<1>7. Turns(c, WheelNum) = Turns(c + 1, 0)
  <2>1. \A m \in Wheels : m < WheelNum /\ ~(m < 0)
    BY Constants DEF Wheels
  <2> QED
    BY <2>1 DEF Turns
<1>8. z \in Works /\ Timed(z, Turns(c + 1, 0)) /\ Homes(Of(z), S)
  BY <1>4, <1>7 DEF Sound
<1>9. z.check + Granularity = (c + 1) * Granularity /\ z.check + Granularity \in Nat
  <2>1. z.check = c * Granularity
    BY <1>4 DEF Settled
  <2>2. (c + 1) * Granularity = c * Granularity + 1 * Granularity /\ 1 * Granularity = Granularity
        /\ c * Granularity \in Nat
    BY Constants, Products
  <2> QED
    BY <2>1, <2>2, Constants
<1>10. o \in Works /\ o.spokes = z.spokes /\ o.ready = z.ready /\ o.index = z.index
       /\ o.check = (c + 1) * Granularity
  BY <1>6, <1>8, <1>9 DEF Works
<1>11. Of(o) = Of(z)
  BY <1>10 DEF Of
<1>12. Timed(o, Turns(c + 1, 0))
  BY <1>8, <1>10, <1>11 DEF Timed
<1> QED
  BY <1>4, <1>5, <1>8, <1>10, <1>11, <1>12 DEF Settled, Sound

(* The loop of detect_timer_list makes the ticks that are due.             *)
LEMMA DetectedKeeps ==
    ASSUME NEW c \in Nat, Ticked(c), NEW S, Settled(w, c, S)
    PROVE  \E e \in Nat : Ticked(e) /\ Settled(Detected, e, S)
<1>1. PICK g \in Nat \ {0} : g = Granularity
  BY Constants
<1>2. PICK a \in Nat : a = c * g /\ w.check = a
  BY <1>1 DEF Settled
<1>3. now \in Nat /\ a <= now /\ now <= a + MaxLag /\ MaxLag \in Nat
  BY <1>1, <1>2, Constants DEF Ticked
<1>4. PICK n : n = IF now > w.check THEN (now - w.check) \div Granularity ELSE 0
  OBVIOUS
<1>5. n \in Nat /\ n * g <= now - a
  <2>1. PICK z \in Nat : z = now - a
    BY <1>3
  <2>2. PICK b \in Nat, r \in 0..g - 1 : b = z \div g /\ z = b * g + r
    BY DivMod
  <2>3. b * g \in Nat /\ 0 * g = 0
    BY Products
  <2>4. b * g <= z /\ 0 * g <= z
    BY <2>2, <2>3
  <2>5. n = b \/ n = 0
    BY <1>1, <1>2, <1>4, <2>1, <2>2, Zenon
  <2> QED
    BY <2>1, <2>4, <2>5
<1>6. ASSUME NEW i \in 0..n PROVE c + i \in Nat /\ Ticked(c + i)
  <2>1. PICK p \in Nat, q \in Nat : p = i * g /\ q = n * g /\ p <= q /\ (c + i) * g = c * g + p
    BY <1>5, Products
  <2>2. a + p <= now /\ now <= (a + p) + MaxLag
    BY <1>3, <1>5, <2>1
  <2>3. (c + i) * g = a + p
    BY <1>2, <2>1
  <2>4. (c + i) * Granularity <= now /\ now <= (c + i) * Granularity + MaxLag
    BY <1>1, <2>2, <2>3, Zenon
  <2> QED
    BY <1>3, <1>5, <2>4 DEF Ticked
<1> DEFINE D == [i \in 0..n |-> {x \in Works : Settled(x, c + i, S)}]
           H == [z \in (1..n) \X Works |-> OneSpokeOn(z[2])]
           T(f) == f = [i \in 0..n |-> IF i = 0 THEN w ELSE OneSpokeOn(f[i - 1])]
<1>7. ASSUME NEW i \in 1..n, NEW x \in Works, Settled(x, c + (i - 1), S)
      PROVE  OneSpokeOn(x) \in Works /\ Settled(OneSpokeOn(x), c + i, S)
  <2>1. PICK e \in Nat : e = c + (i - 1) /\ e + 1 = c + i
    BY <1>5
  <2>2. Ticked(e + 1)
    BY <1>5, <1>6, <2>1
  <2>3. Settled(OneSpokeOn(x), e + 1, S)
    BY <1>7, <2>1, <2>2, SpokeOnKeeps
  <2> QED
    BY <2>1, <2>3 DEF Settled, Sound
<1>8. w \in Works /\ Settled(w, c + 0, S)
  <2>1. c + 0 = c
    OBVIOUS
  <2> QED
    BY <2>1 DEF Settled, Sound
<1>9. /\ \A i \in 0..n : \A x : x \in D[i] <=> x \in Works /\ Settled(x, c + i, S)
      /\ \A i \in 1..n : \A x \in Works : H[<<i, x>>] = OneSpokeOn(x)
      /\ \A i \in 1..n : i - 1 \in 0..n
      /\ 0 \in 0..n
  BY <1>5
<1> HIDE DEF D, H
<1>10. w \in D[0] /\ \A i \in 1..n : \A x \in D[i - 1] : x \in Works /\ OneSpokeOn(x) \in D[i]
  <2>1. w \in D[0]
    BY <1>8, <1>9, Zenon
  <2>2. ASSUME NEW i \in 1..n, NEW x \in D[i - 1] PROVE x \in Works /\ OneSpokeOn(x) \in D[i]
    <3>1. x \in Works /\ Settled(x, c + (i - 1), S)
      BY <1>9
    <3>2. i \in 0..n
      BY <1>5
    <3> QED
      BY <1>7, <1>9, <3>1, <3>2
  <2> QED
    BY <2>1, <2>2
<1>11. \E f : T(f)
  <2>1. \A i \in 1..n : \A x \in D[i - 1] : H[<<i, x>>] \in D[i]
    BY <1>9, <1>10
  <2>2. PICK f : Chain(f, w, H, D, n)
    BY <1>5, <1>10, <2>1, Recursion
  <2>3. \A i \in 1..n : H[<<i, f[i - 1]>>] = OneSpokeOn(f[i - 1])
    BY <1>9, <1>10, <2>2 DEF Chain
  <2>4. [i \in 0..n |-> IF i = 0 THEN w ELSE H[<<i, f[i - 1]>>]]
            = [i \in 0..n |-> IF i = 0 THEN w ELSE OneSpokeOn(f[i - 1])]
    <3>1. \A i \in 0..n : i = 0 \/ i \in 1..n
      BY <1>5
    <3> QED
      BY <2>3, <3>1
  <2>5. f = [i \in 0..n |-> IF i = 0 THEN w ELSE OneSpokeOn(f[i - 1])]
    BY <2>2, <2>4, Zenon DEF Chain
  <2> QED
    BY <2>5
<1>12. PICK f : f = CHOOSE fn : T(fn)
  OBVIOUS
<1>13. Detected = f[n]
  BY <1>4, <1>12 DEF Detected
<1>14. T(f)
  BY <1>11, <1>12
<1>15. f[0] = w /\ \A i \in 1..n : f[i] = OneSpokeOn(f[i - 1])
  BY <1>5, <1>14
<1>16. f[n] \in D[n]
  <2> HIDE DEF T
  <2>1. f[0] \in D[0]
    BY <1>10, <1>15
  <2>2. \A i \in 1..n : f[i - 1] \in D[i - 1] => f[i] \in D[i]
    BY <1>10, <1>15
  <2>3. \A i \in 0..n : f[i] \in D[i]
    BY <1>5, <2>1, <2>2, Steps
  <2> QED
    BY <1>5, <2>3
<1>17. n \in 0..n
  BY <1>5
<1> QED
  BY <1>6, <1>9, <1>13, <1>16, <1>17

-----------------------------------------------------------------------------
(* The inductive invariant.                                                *)
Wound ==
    /\ now \in 0..MaxNow
    /\ \E c \in Nat : Ticked(c) /\ Settled(w, c, ids.live)
    /\ ids \in [live : SUBSET Nat, last : Nat] /\ ids.live \subseteq 1..ids.last

(* Between two calls no wheel is ahead of the ticks.                       *)
LEMMA BehindNow ==
    ASSUME NEW c \in Nat, Ticked(c)
    PROVE  Behind(Turns(c, 0)) /\ \A m \in Wheels : Turns(c, 0)[m] = c \div Round(m)
<1>1. PICK t : t = Turns(c, 0)
  OBVIOUS
<1>2. ASSUME NEW m \in Wheels
      PROVE  c \div Round(m) \in Nat /\ Round(m) * (c \div Round(m)) <= c
  <2>1. PICK r \in Nat \ {0} : r = Round(m)
    BY Rounds
  <2>2. PICK e \in Nat, f \in 0..r - 1 : e = c \div r /\ c = e * r + f
    BY DivMod
  <2>3. e * r = r * e /\ e * r \in Nat
    BY Products
  <2>4. r * e <= c
    BY <2>2, <2>3
  <2> QED
    BY <2>1, <2>2, <2>4
<1>3. \A m \in Wheels : ~(m < 0)
  BY Constants
<1>4. \A m \in Wheels : t[m] = c \div Round(m)
  BY <1>1, <1>3 DEF Turns
<1>5. t \in [Wheels -> Nat]
  BY <1>1, <1>2, <1>3 DEF Turns
<1>6. t[0] = c
  <2>1. 0 \in Wheels /\ Round(0) = 1 /\ c \div 1 = c
    BY Constants, Rounds
  <2> QED
    BY <1>4, <2>1
<1>7. \A m \in Wheels : Round(m) * t[m] <= t[0]
  BY <1>2, <1>4, <1>6
<1> QED
  BY <1>1, <1>4, <1>5, <1>6, <1>7 DEF Behind, Ticked

(* Init, add_task, remove_task, detect_timer_list, do_timeout_callback     *)
(* and the clock keep the invariant.                                       *)
LEMMA WoundInit == Init => Wound
<1> SUFFICES ASSUME Init PROVE Wound
  OBVIOUS
<1>1. now = 0 /\ ids = [live |-> {}, last |-> 0]
      /\ w.spokes = [p \in Spokes |-> <<>>] /\ w.index = [k \in Wheels |-> 0]
      /\ w.check = 0 /\ w.ready = <<>> /\ w \in Works
  BY DEF Init, Works
<1>2. Ticked(0)
  BY <1>1, Constants DEF Ticked
<1>3. \A p \in Names : Of(w)[p] = <<>>
  BY <1>1, OfIs DEF Names
<1>4. \A p \in Names : \A i \in Nat : \A v \in Nodes : ~At(Of(w), p, i, v)
  BY <1>3 DEF At
<1>5. Homes(Of(w), {})
  BY <1>4 DEF Homes, Apart, Holds
<1>6. ASSUME NEW m \in Wheels PROVE w.index[m] % Size(m) = Turns(0, 0)[m] % Size(m) /\ w.index[m] < Size(m)
  <2>1. PICK r \in Nat \ {0} : r = Round(m)
    BY Rounds
  <2>2. 0 \div r = 0
    <3>1. 0 \in 0..r - 1 /\ 0 = 0 * r + 0
      OBVIOUS
    <3> QED
      BY <3>1, DivIs
  <2>3. Turns(0, 0)[m] = 0
    BY <1>2, <2>1, <2>2, BehindNow
  <2> QED
    BY <1>1, <2>3, Constants
<1>7. Timed(w, Turns(0, 0))
  <2>1. ASSUME NEW k \in Wheels, NEW j \in 0..Size(k) - 1 PROVE <<k, j>> \in Names
    BY SpokesAre DEF Names
  <2>2. Ready \in Names
    BY DEF Names
  <2> QED
    BY <1>4, <1>6, <2>1, <2>2 DEF Timed
<1>8. Settled(w, 0, ids.live)
  <2>1. 0 * Granularity = 0
    BY Constants
  <2> QED
    BY <1>1, <1>5, <1>6, <1>7, <2>1 DEF Settled, Sound
<1> QED
  BY <1>1, <1>2, <1>8, Constants DEF Wound

(* A call at a standing clock that leaves the wheels settled.              *)
LEMMA StandingClock ==
    ASSUME Wound, now' = now,
           ids' \in [live : SUBSET Nat, last : Nat], ids'.live \subseteq 1..ids'.last,
           \E c \in Nat : Ticked(c) /\ Settled(w', c, ids'.live)
    PROVE  Wound'
<1>1. PICK c \in Nat : Ticked(c) /\ Settled(w', c, ids'.live)
  OBVIOUS
<1>2. Ticked(c)'
  BY <1>1 DEF Ticked
<1>3. Settled(w, c, ids.live)'
  BY <1>1 DEF Settled, Sound, Timed
<1> QED
  BY <1>2, <1>3 DEF Wound

(* add_task: the new id is no task that waits, and its node is placed in   *)
(* time.                                                                   *)
LEMMA WoundAddTask ==
    ASSUME Wound, NEW i \in Intervals, NEW circle \in BOOLEAN, AddTask(i, circle)
    PROVE  Wound'
<1>1. PICK c \in Nat : Ticked(c) /\ Settled(w, c, ids.live)
  BY DEF Wound
<1>2. PICK t : t = Turns(c, 0) /\ Behind(t) /\ Sound(w, t, ids.live)
  BY <1>1, BehindNow DEF Settled
<1>3. PICK n \in Nat : n = ids.last + 1
  BY DEF Wound
<1>4. ids' = [live |-> ids.live \cup {n}, last |-> n] /\ now' = now
  BY <1>3 DEF AddTask
<1>5. PICK node \in Nodes : node = Node(n, i, circle) /\ node.id = n /\ node.dead = now + i
  <2>1. now \in Nat /\ i \in Nat /\ now + i \in Nat
    BY Constants DEF Wound
  <2>2. Node(n, i, circle) \in Nodes
    BY <2>1 DEF Node, Nodes
  <2> QED
    BY <2>2 DEF Node
<1>6. w' = Place(w, i, node)
  BY <1>3, <1>5 DEF AddTask
<1>7. n \notin ids.live
  <2>1. \A d \in ids.live : d <= ids.last
    BY DEF Wound
  <2>2. ~(n <= ids.last)
    BY <1>3 DEF Wound
  <2> QED
    BY <2>1, <2>2
<1>8. Sound(w', t, ids.live \cup {n}) /\ w'.index = w.index /\ w'.check = w.check
  <2>1. i \in Nat
    BY Constants
  <2>2. /\ Sound(Place(w, i, node), t, ids.live \cup {node.id})
        /\ Place(w, i, node).index = w.index /\ Place(w, i, node).check = w.check
    BY <1>2, <1>5, <1>7, <2>1, PlaceKeeps
  <2> QED
    BY <1>5, <1>6, <2>2
<1>9. Settled(w', c, ids'.live)
  BY <1>1, <1>2, <1>4, <1>8 DEF Settled
<1>10. ids' \in [live : SUBSET Nat, last : Nat] /\ ids'.live \subseteq 1..ids'.last
  <2>1. ids.live \subseteq 1..n /\ n \in 1..n
    BY <1>3 DEF Wound
  <2>2. ids.live \cup {n} \in SUBSET Nat
    BY <2>1
  <2> QED
    BY <1>4, <2>1, <2>2
<1> QED
  BY <1>1, <1>4, <1>9, <1>10, StandingClock

(* remove_task: the node of the task, wherever it is linked, and no other  *)
(* goes.                                                                   *)
LEMMA WoundRemoveTask ==
    ASSUME Wound, NEW id \in ids.live, RemoveTask(id)
    PROVE  Wound'
<1>1. PICK c \in Nat : Ticked(c) /\ Settled(w, c, ids.live)
  BY DEF Wound
<1>2. PICK t : t = Turns(c, 0) /\ w \in Works /\ Timed(w, t) /\ Homes(Of(w), ids.live)
  BY <1>1 DEF Settled, Sound
<1>3. PICK f : f = [p \in Spokes |-> Without(w.spokes[p], id)]
  OBVIOUS
<1>4. PICK r : r = Without(w.ready, id)
  OBVIOUS
<1>5. w' = [w EXCEPT !.spokes = f, !.ready = r]
  BY <1>3, <1>4 DEF RemoveTask, Unlinked
<1>6. /\ w'.spokes = f /\ w'.ready = r /\ w'.index = w.index /\ w'.check = w.check
      /\ w' = [spokes |-> f, index |-> w.index, check |-> w.check, ready |-> r]
  BY <1>2, <1>5 DEF Works
<1>7. PICK F \in Lists : F = Of(w) /\ F[Ready] = w.ready /\ \A p \in Spokes : F[p] = w.spokes[p]
  BY <1>2, OfIs
<1>8. PICK G : G = Of(w')
  OBVIOUS
<1>9. /\ \A p \in Spokes : G[p] = f[p] /\ p # Ready
      /\ G[Ready] = r
  BY <1>6, <1>8, SpokesAre DEF Of, Names
<1>10. \A q \in Names : G[q] = Without(F[q], id)
  BY <1>3, <1>4, <1>7, <1>9 DEF Names
<1>11. /\ Homes(G, ids.live \ {id})
       /\ \A q \in Names : G[q] \in Seq(Nodes)
       /\ \A q \in Names : \A i \in Nat : \A v \in Nodes :
              At(G, q, i, v) => \E j \in Nat : At(F, q, j, v)
  BY <1>2, <1>7, <1>10, WithoutHomes
<1>12. w' \in Works
  <2>1. f \in [Spokes -> Seq(Nodes)] /\ r \in Seq(Nodes)
    <3>1. \A p \in Spokes : f[p] \in Seq(Nodes)
      BY <1>9, <1>11 DEF Names
    <3>2. r \in Seq(Nodes)
      BY <1>9, <1>11 DEF Names
    <3> QED
      BY <1>3, <3>1, <3>2
  <2> QED
    BY <1>2, <1>6, <2>1 DEF Works
<1>13. Timed(w', t)
  <2>1. ASSUME NEW k \in Wheels, NEW j \in 0..Size(k) - 1, NEW i \in Nat, NEW v \in Nodes,
               At(G, <<k, j>>, i, v)
        PROVE  InTime(t, k, j, v)
    <3>1. <<k, j>> \in Names
      BY SpokesAre DEF Names
    <3>2. PICK l \in Nat : At(F, <<k, j>>, l, v)
      BY <1>11, <2>1, <3>1
    <3> QED
      BY <1>2, <1>7, <3>2 DEF Timed
  <2>2. ASSUME NEW i \in Nat, NEW v \in Nodes, At(G, Ready, i, v)
        PROVE  v.dead < now + MaxLag
    <3>1. Ready \in Names
      BY DEF Names
    <3>2. PICK l \in Nat : At(F, Ready, l, v)
      BY <1>11, <2>2, <3>1
    <3> QED
      BY <1>2, <1>7, <3>2 DEF Timed
  <2>3. \A k \in Wheels : w'.index[k] % Size(k) = t[k] % Size(k)
    BY <1>2, <1>6 DEF Timed
  <2> QED
    BY <1>8, <2>1, <2>2, <2>3 DEF Timed
<1>14. ids'.live = ids.live \ {id} /\ ids'.last = ids.last /\ now' = now
  BY DEF RemoveTask, Wound
<1>16. ids' \in [live : SUBSET Nat, last : Nat] /\ ids'.live \subseteq 1..ids'.last
  BY <1>14 DEF RemoveTask, Wound
<1>15. Settled(w', c, ids'.live)
  BY <1>1, <1>2, <1>6, <1>8, <1>11, <1>12, <1>13, <1>14 DEF Settled, Sound
<1> QED
  BY <1>1, <1>14, <1>15, <1>16, StandingClock

(* detect_timer_list: the ticks that are due, one after the other.         *)
LEMMA WoundDetectTimerList ==
    ASSUME Wound, DetectTimerList
    PROVE  Wound'
<1>1. PICK c \in Nat : Ticked(c) /\ Settled(w, c, ids.live)
  BY DEF Wound
<1>2. PICK e \in Nat : Ticked(e) /\ Settled(Detected, e, ids.live)
  BY <1>1, DetectedKeeps
<1>3. w' = Detected /\ ids' = ids /\ now' = now
  BY DEF DetectTimerList
<1> QED
  BY <1>2, <1>3, StandingClock DEF Wound

(* What do_timeout_callback takes from the ready list.                     *)
LEMMA CallbackTakes ==
    ASSUME Wound, w.ready # <<>>
    PROVE  /\ Head(w.ready) \in Nodes /\ Head(w.ready).id \in ids.live
           /\ Head(w.ready).dead < now + MaxLag
           /\ \E c \in Nat : /\ Ticked(c)
                             /\ Settled([w EXCEPT !.ready = Tail(@)], c, ids.live \ {Head(w.ready).id})
<1>1. PICK c \in Nat : Ticked(c) /\ Settled(w, c, ids.live)
  BY DEF Wound
<1>2. PICK t : t = Turns(c, 0) /\ w \in Works /\ Timed(w, t) /\ Homes(Of(w), ids.live)
  BY <1>1 DEF Settled, Sound
<1>3. PICK f \in Seq(Nodes) : f = w.ready /\ f # <<>>
  BY <1>2 DEF Works
<1>4. PICK h \in Nodes, g \in Seq(Nodes) : h = Head(f) /\ g = Tail(f)
  BY <1>3, HeadTailProperties
<1>5. PICK y : y = [w EXCEPT !.ready = g] /\ y = [w EXCEPT !.ready = Tail(@)]
  BY <1>3, <1>4
<1>6. y \in Works /\ y.ready = g /\ y.spokes = w.spokes /\ y.index = w.index /\ y.check = w.check
  BY <1>2, <1>5 DEF Works
<1>7. PICK F, G : F \in Lists /\ F = Of(w) /\ G = Of(y)
  BY <1>2, OfIs
<1>8. Ready \in Names /\ F[Ready] = f /\ G[Ready] = g /\ SameBut(F, G, {Ready})
  BY <1>2, <1>3, <1>6, <1>7, OfIs DEF SameBut, Names
<1>9. F[Ready] # <<>> /\ G[Ready] = Tail(F[Ready]) /\ Head(F[Ready]) = h
  BY <1>3, <1>4, <1>8
<1>10. Homes(G, ids.live \ {h.id}) /\ h.id \in ids.live
  BY <1>2, <1>7, <1>8, <1>9, TailHomes
<1>11. \A q \in Names : \A i \in Nat : \A v \in Nodes :
           /\ At(G, q, i, v) <=> IF q = Ready THEN i >= 1 /\ At(F, Ready, i + 1, v) ELSE At(F, q, i, v)
           /\ At(F, Ready, 1, h)
  BY <1>7, <1>8, <1>9, TailAt
<1>12. h.dead < now + MaxLag
  <2>1. 1 \in Nat /\ At(F, Ready, 1, h)
    BY <1>8, <1>11
  <2> QED
    BY <1>2, <1>7, <2>1 DEF Timed
<1>13. Timed(y, t)
  <2>1. ASSUME NEW k \in Wheels, NEW j \in 0..Size(k) - 1, NEW i \in Nat, NEW v \in Nodes,
               At(G, <<k, j>>, i, v)
        PROVE  InTime(t, k, j, v)
    <3>1. <<k, j>> \in Names /\ <<k, j>> # Ready
      BY SpokesAre DEF Names
    <3>2. At(F, <<k, j>>, i, v)
      BY <1>11, <2>1, <3>1
    <3> QED
      BY <1>2, <1>7, <3>2 DEF Timed
  <2>2. ASSUME NEW i \in Nat, NEW v \in Nodes, At(G, Ready, i, v)
        PROVE  v.dead < now + MaxLag
    <3>1. i + 1 \in Nat /\ At(F, Ready, i + 1, v)
      BY <1>8, <1>11, <2>2
    <3> QED
      BY <1>2, <1>7, <3>1 DEF Timed
  <2>3. \A k \in Wheels : y.index[k] % Size(k) = t[k] % Size(k)
    BY <1>2, <1>6 DEF Timed
  <2> QED
    BY <1>7, <2>1, <2>2, <2>3 DEF Timed
<1>14. Settled(y, c, ids.live \ {h.id})
  BY <1>1, <1>2, <1>6, <1>7, <1>10, <1>13 DEF Settled, Sound
<1> QED
  BY <1>1, <1>3, <1>4, <1>5, <1>10, <1>12, <1>14

(* do_timeout_callback: the task of the node leaves the map, or waits      *)
(* again.                                                                  *)
LEMMA WoundCallback ==
    ASSUME Wound, Callback
    PROVE  Wound'
<1>1. w.ready # <<>> /\ now' = now
  BY DEF Callback
<1>2. PICK h \in Nodes : h = Head(w.ready) /\ h.id \in ids.live
  BY <1>1, CallbackTakes
<1>3. PICK y : y = [w EXCEPT !.ready = Tail(@)]
  OBVIOUS
<1>4. PICK c \in Nat : Ticked(c) /\ Settled(y, c, ids.live \ {h.id})
  BY <1>1, <1>2, <1>3, CallbackTakes
<1>7. IF h.circle
      THEN /\ w' = Place(y, h.interval, Node(h.id, h.interval, TRUE))
           /\ ids' = [ids EXCEPT !.live = @ \cup {h.id}]
      ELSE w' = y /\ ids' = [ids EXCEPT !.live = @ \ {h.id}]
  BY <1>2, <1>3, Zenon DEF Callback
<1>8. ids' = [ids EXCEPT !.live = @ \cup {h.id}] => ids' = ids
  BY <1>2 DEF Wound
<1>5. CASE h.circle
  <2>1. PICK node \in Nodes : node = Node(h.id, h.interval, TRUE) /\ node.id = h.id
                              /\ node.dead = now + h.interval
    <3>1. now \in Nat /\ h.interval \in Nat /\ now + h.interval \in Nat /\ h.id \in Nat
      BY DEF Wound, Nodes
    <3>2. Node(h.id, h.interval, TRUE) \in Nodes
      BY <3>1 DEF Node, Nodes
    <3> QED
      BY <3>2 DEF Node
  <2>2. w' = Place(y, h.interval, node) /\ ids' = ids
    BY <1>5, <1>7, <1>8, <2>1
  <2>3. PICK t, S : t = Turns(c, 0) /\ S = ids.live \ {h.id} /\ Behind(t) /\ Sound(y, t, S)
    BY <1>4, BehindNow DEF Settled
  <2>4. h.interval \in Nat /\ node.id \notin S
    BY <2>1, <2>3 DEF Nodes
  <2>5. /\ Sound(Place(y, h.interval, node), t, S \cup {node.id})
        /\ Place(y, h.interval, node).index = y.index /\ Place(y, h.interval, node).check = y.check
    BY <2>1, <2>3, <2>4, PlaceKeeps
  <2>6. S \cup {node.id} = ids.live /\ ids'.live = ids.live
    BY <1>2, <2>1, <2>2, <2>3
  <2>7. Settled(w', c, ids'.live)
    BY <1>4, <2>2, <2>3, <2>5, <2>6 DEF Settled
  <2> QED
    BY <1>1, <1>4, <2>2, <2>6, <2>7, StandingClock DEF Wound
<1>6. CASE ~h.circle
  <2>1. w' = y /\ ids' = [ids EXCEPT !.live = @ \ {h.id}]
    BY <1>6, <1>7
  <2>2. /\ ids'.live = ids.live \ {h.id} /\ ids'.live \subseteq 1..ids'.last
        /\ ids' \in [live : SUBSET Nat, last : Nat]
    BY <2>1 DEF Wound
  <2> QED
    BY <1>1, <1>4, <2>1, <2>2, StandingClock
<1> QED
  BY <1>5, <1>6

(* The clock goes on, not further than the lag allows.                     *)
LEMMA WoundTimePasses ==
    ASSUME Wound, NEW d \in 1..MaxLag, TimePasses(d)
    PROVE  Wound'
<1>1. PICK c \in Nat : Ticked(c) /\ Settled(w, c, ids.live)
  BY DEF Wound
<1>2. PICK a \in Nat : a = c * Granularity
  BY Constants
<1>3. now' = now + d /\ now' <= MaxNow /\ now' - a <= MaxLag /\ w' = w /\ ids' = ids
  <2>1. w.check = a
    BY <1>1, <1>2 DEF Settled
  <2>2. now' = now + d /\ now + d <= MaxNow /\ now + d - w.check <= MaxLag /\ w' = w /\ ids' = ids
    BY DEF TimePasses
  <2>3. PICK z \in Nat : z = now + d
    BY DEF Wound
  <2>4. now' = z /\ z <= MaxNow /\ now + d - a <= MaxLag
    BY <2>1, <2>2, <2>3, Zenon
  <2>5. z - a <= MaxLag
    <3>1. now \in Nat /\ d \in Nat /\ MaxLag \in Nat
      BY Constants DEF Wound
    <3> QED
      BY <2>3, <2>4, <3>1
  <2> QED
    BY <2>2, <2>4, <2>5, Zenon
<1>4. now \in Nat /\ now' \in Nat /\ now <= now' /\ MaxLag \in Nat
  BY <1>3, Constants DEF Wound
<1>5. Ticked(c)'
  <2>1. a <= now' /\ now' <= a + MaxLag
    BY <1>1, <1>2, <1>3, <1>4 DEF Ticked
  <2> QED
    BY <1>2, <1>4, <2>1 DEF Ticked
<1>6. Timed(w, Turns(c, 0)) => Timed(w, Turns(c, 0))'
  <2> SUFFICES ASSUME Timed(w, Turns(c, 0)) PROVE Timed(w, Turns(c, 0))'
    OBVIOUS
  <2>1. \A i \in Nat : \A v \in Nodes : At(Of(w), Ready, i, v) => v.dead < now' + MaxLag
    <3>1. ASSUME NEW i \in Nat, NEW v \in Nodes, At(Of(w), Ready, i, v) PROVE v.dead < now' + MaxLag
      <4>1. v.dead < now + MaxLag
        BY <3>1 DEF Timed
      <4>2. v.dead \in Nat
        BY DEF Nodes
      <4> QED
        BY <1>4, <4>1, <4>2
    <3> QED
      BY <3>1
  <2> QED
    BY <1>3, <2>1 DEF Timed
<1>7. Settled(w, c, ids.live)'
  BY <1>1, <1>3, <1>6 DEF Settled, Sound
<1> QED
  BY <1>3, <1>4, <1>5, <1>7 DEF Wound

(* The wheels of timer keep their invariant under every call and           *)
(* callback, whenever and however late detect_timer_list is called.        *)
THEOREM WoundInvariant == Spec => []Wound
<1>1. Init => Wound
  BY WoundInit
<1>2. Wound /\ [Next]_vars => Wound'
  <2> SUFFICES ASSUME Wound, [Next]_vars PROVE Wound'
    OBVIOUS
  <2>1. CASE \E i \in Intervals, circle \in BOOLEAN : AddTask(i, circle)
    BY <2>1, WoundAddTask
  <2>2. CASE \E id \in ids.live : RemoveTask(id)
    BY <2>2, WoundRemoveTask
  <2>3. CASE DetectTimerList
    BY <2>3, WoundDetectTimerList
  <2>4. CASE Callback
    BY <2>4, WoundCallback
  <2>5. CASE CallbackReturns \/ UNCHANGED vars
    <3>1. now' = now /\ w' = w /\ ids' = ids
      BY <2>5 DEF CallbackReturns, vars
    <3> QED
      BY <3>1, StandingClock DEF Wound
  <2>6. CASE \E d \in 1..MaxLag : TimePasses(d)
    BY <2>6, WoundTimePasses
  <2> QED
    BY <2>1, <2>2, <2>3, <2>4, <2>5, <2>6 DEF Next
<1> QED
  BY <1>1, <1>2, PTL DEF Spec

(* Each wheel's spoke_index stays inside of the wheel, also while a        *)
(* cascade reads it, and checktime_ never gets ahead of the clock          *)
(* (detect_timer_list).                                                    *)
THEOREM WheelsStandOnSpokes == Spec => []TypeOK
<1>1. Wound => TypeOK
  <2> SUFFICES ASSUME Wound PROVE TypeOK
    OBVIOUS
  <2>1. PICK c \in Nat : Ticked(c) /\ Settled(w, c, ids.live)
    BY DEF Wound
  <2>2. ASSUME NEW k \in Wheels PROVE w.index[k] \in 0..Size(k) - 1
    <3>1. w.index[k] \in Nat /\ w.index[k] < Size(k) /\ Size(k) \in Nat
      BY <2>1, Constants DEF Settled, Sound, Works
    <3> QED
      BY <3>1
  <2>3. w.check \in 0..now
    <3>1. w.check \in Nat /\ w.check <= now /\ now \in Nat
      BY <2>1 DEF Settled, Sound, Works, Ticked
    <3> QED
      BY <3>1
  <2> QED
    BY <2>2, <2>3 DEF Wound, TypeOK
<1> QED
  BY <1>1, WoundInvariant, PTL

(* What OneHome calls a link is a node in a list.                          *)
LEMMA LinksAre ==
    ASSUME Wound
    PROVE  /\ \A p \in Names : ListAt(p) = Of(w)[p]
           /\ \A l : l \in Links => /\ l[1] \in Names /\ l[2] \in Nat /\ NodeAt(l) \in Nodes
                                    /\ l = <<l[1], l[2]>> /\ At(Of(w), l[1], l[2], NodeAt(l))
           /\ \A p \in Names : \A i \in Nat : \A v \in Nodes :
                  At(Of(w), p, i, v) => <<p, i>> \in Links /\ NodeAt(<<p, i>>) = v
<1>1. PICK F \in Lists : F = Of(w) /\ w \in Works
  BY OfIs DEF Wound, Settled, Sound
<1>2. \A p \in Names : ListAt(p) = F[p]
  BY <1>1, OfIs DEF ListAt, Names
<1>3. \A p \in Names : DOMAIN F[p] = 1..Len(F[p]) /\ Len(F[p]) \in Nat /\ F[p] \in Seq(Nodes)
  BY ListIs
<1>4. ASSUME NEW l \in Links
      PROVE  /\ l[1] \in Names /\ l[2] \in Nat /\ NodeAt(l) \in Nodes
             /\ l = <<l[1], l[2]>> /\ At(F, l[1], l[2], NodeAt(l))
  <2>1. PICK p \in Names : l \in {p} \X DOMAIN ListAt(p)
    BY DEF Links, Names
  <2>2. PICK i \in DOMAIN F[p] : l = <<p, i>>
    BY <1>2, <2>1
  <2>3. NodeAt(l) = F[p][i]
    BY <1>2, <2>2 DEF NodeAt
  <2>4. i \in 1..Len(F[p]) /\ F[p][i] \in Nodes
    BY <1>3
  <2> QED
    BY <2>2, <2>3, <2>4 DEF At
<1>5. ASSUME NEW p \in Names, NEW i \in Nat, NEW v \in Nodes, At(F, p, i, v)
      PROVE  <<p, i>> \in Links /\ NodeAt(<<p, i>>) = v
  <2>1. i \in DOMAIN ListAt(p)
    BY <1>2, <1>3, <1>5 DEF At
  <2> QED
    BY <1>2, <1>5, <2>1 DEF Links, NodeAt, At, Names
<1> QED
  BY <1>1, <1>2, <1>4, <1>5

(* The spokes, the ready list and timer_map_ agree at all times: what      *)
(* remove_task unlinks is linked once, and nothing is left in a list that  *)
(* is not in the map.                                                      *)
THEOREM EveryTaskHasOneHome == Spec => []OneHome
<1>1. Wound => OneHome
  <2> SUFFICES ASSUME Wound PROVE OneHome
    OBVIOUS
  <2>1. Apart(Of(w)) /\ Holds(Of(w), ids.live)
    BY DEF Wound, Settled, Sound, Homes
  <2>2. {NodeAt(l).id : l \in Links} = ids.live
    <3>1. ASSUME NEW l \in Links PROVE NodeAt(l).id \in ids.live
      BY <2>1, LinksAre DEF Holds
    <3>2. ASSUME NEW d \in ids.live PROVE \E l \in Links : NodeAt(l).id = d
      <4>1. PICK p \in Names : \E i \in Nat : \E v \in Nodes : At(Of(w), p, i, v) /\ v.id = d
        BY <2>1 DEF Holds
      <4>2. PICK i \in Nat : \E v \in Nodes : At(Of(w), p, i, v) /\ v.id = d
        BY <4>1
      <4>3. PICK v \in Nodes : At(Of(w), p, i, v) /\ v.id = d
        BY <4>2
      <4>4. <<p, i>> \in Links /\ NodeAt(<<p, i>>) = v
        BY <4>3, LinksAre
      <4> QED
        BY <4>3, <4>4
    <3> QED
      BY <3>1, <3>2
  <2>3. ASSUME NEW l \in Links, NEW m \in Links, NodeAt(l).id = NodeAt(m).id PROVE l = m
    <3>1. /\ l[1] \in Names /\ l[2] \in Nat /\ NodeAt(l) \in Nodes
          /\ l = <<l[1], l[2]>> /\ At(Of(w), l[1], l[2], NodeAt(l))
      BY LinksAre
    <3>2. /\ m[1] \in Names /\ m[2] \in Nat /\ NodeAt(m) \in Nodes
          /\ m = <<m[1], m[2]>> /\ At(Of(w), m[1], m[2], NodeAt(m))
      BY LinksAre
    <3>3. l[1] = m[1] /\ l[2] = m[2]
      BY <2>1, <2>3, <3>1, <3>2 DEF Apart
    <3> QED
      BY <3>1, <3>2, <3>3
  <2> QED
    BY <2>2, <2>3 DEF OneHome
<1> QED
  BY <1>1, WoundInvariant, PTL

(* No spoke of any wheel keeps a task that was due before checktime_:      *)
(* add_timer_node and cascade never place a node behind the wheel's hand.  *)
THEOREM NoTaskIsOverlooked == Spec => []NoneOverdue
<1>1. Wound => NoneOverdue
  <2> SUFFICES ASSUME Wound, NEW l \in Links, l[1] # Ready PROVE w.check <= NodeAt(l).dead
    BY DEF NoneOverdue
  <2>1. PICK c \in Nat : Ticked(c) /\ Settled(w, c, ids.live)
    BY DEF Wound
  <2>2. /\ l[1] \in Names /\ l[2] \in Nat /\ NodeAt(l) \in Nodes
        /\ At(Of(w), l[1], l[2], NodeAt(l))
    BY LinksAre
  <2>3. PICK k, j : k \in Wheels /\ j \in 0..Size(k) - 1 /\ l[1] = <<k, j>>
    BY <2>2, SpokesAre DEF Names
  <2>4. PICK v \in Nodes : v = NodeAt(l)
    BY <2>2
  <2>5. InTime(Turns(c, 0), k, j, v)
    BY <2>1, <2>2, <2>3, <2>4 DEF Settled, Sound, Timed
  <2>6. PICK q \in Nat : q >= c \div Round(k) /\ (Round(k) * (q + 1) - 1) * Granularity <= v.dead
    BY <2>1, <2>3, <2>5, BehindNow DEF InTime
  <2>7. PICK r \in Nat \ {0}, g \in Nat : r = Round(k) /\ g = Granularity
    BY <2>3, Constants, Rounds
  <2>8. c <= r * (q + 1) - 1
    <3>1. PICK e \in Nat, f \in 0..r - 1 : e = c \div r /\ c = e * r + f
      BY DivMod
    <3>2. PICK y \in Nat : y = e * r
      BY Products
    <3>3. e < q + 1 /\ q + 1 \in Nat
      BY <2>6, <2>7, <3>1
    <3>4. y + r <= (q + 1) * r
      BY <3>2, <3>3, Products
    <3>5. PICK z \in Nat : z = r * (q + 1) /\ z = (q + 1) * r
      BY <3>3, Products
    <3>6. c <= z - 1
      BY <3>1, <3>2, <3>4, <3>5
    <3> QED
      BY <3>5, <3>6
  <2>9. PICK z \in Nat : z = r * (q + 1) - 1
    BY <2>8
  <2>10. c * g <= z * g
    BY <2>8, <2>9, Products
  <2>11. z * g <= v.dead
    BY <2>6, <2>7, <2>9, Zenon
  <2>12. c * g \in Nat /\ z * g \in Nat /\ v.dead \in Nat
    BY Products DEF Nodes
  <2>13. c * g <= v.dead
    BY <2>10, <2>11, <2>12
  <2>14. w.check = c * g
    BY <2>1, <2>7 DEF Settled
  <2> QED
    BY <2>4, <2>13, <2>14
<1> QED
  BY <1>1, WoundInvariant, PTL

(* A callback of do_timeout_callback starts before the dead_time of its    *)
(* task by less than the longest lag of detect_timer_list.                 *)
THEOREM EarlyByNoMoreThanTheLag == Spec => EarlyOnlyByLag
<1>1. Wound /\ [Next]_vars => [running' # running /\ running' # NoNode => running'.dead - now < MaxLag]_vars
  <2> SUFFICES ASSUME Wound, [Next]_vars, running' # running, running' # NoNode
               PROVE  running'.dead - now < MaxLag
    OBVIOUS
  <2>1. Callback
    BY DEF Next, vars, AddTask, RemoveTask, DetectTimerList, CallbackReturns, TimePasses
  <2>2. running' = Head(w.ready) /\ w.ready # <<>>
    BY <2>1 DEF Callback
  <2>3. running' \in Nodes /\ running'.dead < now + MaxLag
    BY <2>2, CallbackTakes
  <2>4. running'.dead \in Nat /\ now \in Nat /\ MaxLag \in Nat
    BY <2>3, Constants DEF Nodes, Wound
  <2> QED
    BY <2>3, <2>4
<1> QED
  BY <1>1, WoundInvariant, PTL DEF Spec, EarlyOnlyByLag
=============================================================================
