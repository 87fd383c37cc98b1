------------------------ MODULE ProbeMemStoreProofs ------------------------
(***************************************************************************)
(* Proofs about ProbeMemStore, for every set of handlers and tokens and    *)
(* every limit and time to live.                                           *)
(***************************************************************************)
EXTENDS ProbeMemStore, FiniteSetTheorems, WellFoundedInduction, TLAPS

(* The elements of a concatenation.                                        *)
LEMMA ConcatElements ==
    ASSUME NEW S, NEW p \in Seq(S), NEW q \in Seq(S)
    PROVE  /\ p \o q \in Seq(S) /\ Len(p \o q) = Len(p) + Len(q)
           /\ \A k \in 1..(Len(p) + Len(q)) :
                 (p \o q)[k] = IF k <= Len(p) THEN p[k] ELSE q[k - Len(p)]
OBVIOUS

(* The elements of a part of a sequence.                                   *)
LEMMA SubSeqElements ==
    ASSUME NEW S, NEW p, NEW a \in Int, NEW b \in Int, \A k \in a..b : p[k] \in S
    PROVE  /\ SubSeq(p, a, b) \in Seq(S)
           /\ Len(SubSeq(p, a, b)) = (IF a <= b THEN b - a + 1 ELSE 0)
           /\ \A k \in 1..(b - a + 1) : SubSeq(p, a, b)[k] = p[a + k - 1]
OBVIOUS

(* A sequence is the whole of itself.                                      *)
LEMMA SubSeqWhole ==
    ASSUME NEW S, NEW p \in Seq(S)
    PROVE  SubSeq(p, 1, Len(p)) = p
OBVIOUS

Slot(k) == [first : Nat, token : Keys(k)]
Entry == [first : Nat, items : Seq(Nat)]

(* The queue elements that stand for the entries of map m.                 *)
slots(m) == {[first |-> m[t].first, token |-> t] : t \in DOMAIN m}

Sorted(q) == \A i, j \in DOMAIN q : i < j => q[i].first <= q[j].first
TokensOnce(q) == \A i, j \in DOMAIN q : q[i].token = q[j].token => i = j
Elements(q) == {q[i] : i \in DOMAIN q}

limitOf(t) == IF t = Unattributed THEN maxUnattributedReports ELSE MaxPerToken

(* Queue q and map m of kind k belong together: QueueMirrorsMap, with the  *)
(* types it needs.                                                         *)
Mirror(k, q, m) ==
    /\ q \in Seq(Slot(k)) /\ m \in [DOMAIN m -> Entry]
    /\ DOMAIN m \subseteq Keys(k) /\ IsFiniteSet(DOMAIN m)
    /\ Sorted(q) /\ TokensOnce(q) /\ Elements(q) = slots(m)
    /\ Cardinality(DOMAIN m) <= MaxTokens
    /\ \A t \in DOMAIN m : Len(m[t].items) <= limitOf(t)

Item == UNION {[kind : {k}, token : Keys(k), at : 0..now] : k \in Kinds}

(* The inductive invariant.  No stamp is ahead of the clock.               *)
MemInv ==
    /\ now \in Nat
    /\ pending \in [Handlers -> Item \cup {Idle}]
    /\ entries = [k \in Kinds |-> entries[k]] /\ order = [k \in Kinds |-> order[k]]
    /\ \A k \in Kinds : Mirror(k, order[k], entries[k])

-----------------------------------------------------------------------------
(* A non-empty set of numbers has a smallest element. *)
LEMMA Smallest ==
    ASSUME NEW S, S \subseteq Nat, S # {}
    PROVE  \E x \in S : \A y \in S : x <= y
<1> DEFINE less == OpToRel(<, Nat)
<1>1. IsWellFoundedOn(less, Nat)
  BY Zenon, NatLessThanWellFounded
<1>2. \A x, y \in Nat : <<y, x>> \in less <=> y < x
  BY DEF OpToRel
<1> HIDE DEF less
<1>3. PICK x \in S : \A y \in S : ~(<<y, x>> \in less)
  BY Zenon, <1>1, WFMin
<1>4. ASSUME NEW y \in S PROVE x <= y
  <2>1. x \in Nat /\ y \in Nat
    OBVIOUS
  <2>2. ~(y < x)
    BY Zenon, <1>2, <1>3, <2>1
  <2> QED BY <2>1, <2>2
<1> QED BY <1>4

(* What is due is a prefix of the queue. *)
LEMMA DueIsPrefix ==
    ASSUME NEW q, Len(q) \in Nat, DOMAIN q = 1..Len(q), NEW t
    PROVE  /\ Cardinality(due(q, t)) \in 0..Len(q)
           /\ due(q, t) = 1..Cardinality(due(q, t))
<1> DEFINE D == due(q, t)
           rest == (1..Len(q)) \ D
<1>0. D \subseteq 1..Len(q)
  BY DEF due
<1>1. \A i \in D : \A j \in 1..i : j \in D
  BY <1>0 DEF due
<1> HIDE DEF D
<1>2. \E n \in 0..Len(q) : D = 1..n
  <2>1. CASE rest = {}
    <3>1. D = 1..Len(q)
      BY Zenon, <1>0, <2>1
    <3>2. Len(q) \in 0..Len(q)
      OBVIOUS
    <3> QED BY Zenon, <3>1, <3>2
  <2>2. CASE rest # {}
    <3>0. rest \subseteq Nat
      OBVIOUS
    <3>1. PICK i \in rest : \A y \in rest : i <= y
      BY Zenon, <2>2, <3>0, Smallest
    <3>2. i \in 1..Len(q) /\ i \notin D
      OBVIOUS
    <3>3. ASSUME NEW j \in 1..Len(q) PROVE j \in D <=> j < i
      <4>1. CASE j < i
        BY <3>1, <3>2, <4>1
      <4>2. CASE j >= i
        BY <1>1, <3>2, <4>2
      <4> QED BY <3>2, <4>1, <4>2
    <3>4. i - 1 \in 0..Len(q)
      BY <3>2
    <3>5. ASSUME NEW j \in D PROVE j \in 1..(i - 1)
      <4>1. j \in 1..Len(q)
        BY <1>0
      <4>2. j < i
        BY <3>3, <4>1
      <4> QED BY <3>2, <4>1, <4>2
    <3>6. ASSUME NEW j \in 1..(i - 1) PROVE j \in D
      <4>1. j \in 1..Len(q) /\ j < i
        BY <3>2
      <4> QED BY <3>3, <4>1
    <3> QED BY Zenon, <3>4, <3>5, <3>6
  <2> QED BY <2>1, <2>2
<1>3. PICK n \in 0..Len(q) : D = 1..n
  BY <1>2
<1>4. Cardinality(1..n) = n
  BY FS_Interval
<1> QED BY <1>3, <1>4 DEF D

(* expireLocked drops from queue and map the same entries, exactly those   *)
(* whose time to live is over, although it looks at a prefix only.         *)
LEMMA ExpireKeeps ==
    ASSUME NEW k \in Kinds, NEW t \in Nat, Mirror(k, order[k], entries[k])
    PROVE  /\ Mirror(k, expireOrder(k, t), expireMap(k, t))
           /\ \A x \in DOMAIN entries[k] :
                 x \in DOMAIN expireMap(k, t) <=> ~(t > entries[k][x].first + TTL)
           /\ DOMAIN expireMap(k, t) \subseteq DOMAIN entries[k]
           /\ \A x \in DOMAIN expireMap(k, t) : expireMap(k, t)[x] = entries[k][x]
<1> DEFINE q == order[k]
           m == entries[k]
           n == Cardinality(due(q, t))
           r == expireOrder(k, t)
           f == expireMap(k, t)
           slot(x) == [first |-> m[x].first, token |-> x]
           gone == {q[i] : i \in due(q, t)}
<1>1. /\ q \in Seq(Slot(k)) /\ Len(q) \in Nat /\ DOMAIN q = 1..Len(q)
      /\ \A i \in 1..Len(q) : q[i] \in Slot(k) /\ q[i].first \in Nat
  <2>1. q \in Seq(Slot(k))
    BY DEF Mirror
  <2> HIDE DEF q
  <2>2. Len(q) \in Nat /\ DOMAIN q = 1..Len(q) /\ \A i \in 1..Len(q) : q[i] \in Slot(k)
    BY <2>1
  <2>3. \A e \in Slot(k) : e.first \in Nat
    BY DEF Slot
  <2> QED BY <2>1, <2>2, <2>3
<1>2. /\ m \in [DOMAIN m -> Entry] /\ IsFiniteSet(DOMAIN m)
      /\ DOMAIN m \subseteq Keys(k) /\ Cardinality(DOMAIN m) <= MaxTokens
      /\ Sorted(q) /\ TokensOnce(q) /\ Elements(q) = slots(m)
      /\ \A x \in DOMAIN m : Len(m[x].items) <= limitOf(x)
  BY DEF Mirror
<1>3. TTL \in Nat
  BY MemStoreAssumption
<1>4. n \in 0..Len(q) /\ due(q, t) = 1..n
  BY <1>1, DueIsPrefix
<1>5. \A i \in 1..n : t > q[i].first + TTL
  BY <1>1, <1>4 DEF due
<1>6. ASSUME NEW i \in (n + 1)..Len(q) PROVE ~(t > q[i].first + TTL)
  <2>1. n + 1 \in 1..Len(q) /\ n + 1 \notin due(q, t)
    BY <1>1, <1>4
  <2>2. \A j \in 1..(n + 1) : j \in 1..n \/ j = n + 1
    BY <1>4
  <2>3. ~(t > q[n + 1].first + TTL)
    BY Zenon, <1>1, <1>4, <1>5, <2>1, <2>2 DEF due
  <2>4. i \in 1..Len(q) /\ (i = n + 1 \/ n + 1 < i)
    BY <1>1, <1>4
  <2>5. q[n + 1].first \in Nat /\ q[i].first \in Nat
    BY <1>1, <2>1, <2>4
  <2>6. q[n + 1].first <= q[i].first
    <3>1. CASE i = n + 1
      BY <2>5, <3>1
    <3>2. CASE n + 1 < i
      BY Zenon, <1>1, <1>2, <2>1, <2>4, <3>2 DEF Sorted
    <3> QED BY <2>4, <3>1, <3>2
  <2> QED BY <1>3, <2>3, <2>5, <2>6
<1>7. /\ r \in Seq(Slot(k)) /\ Len(r) = Len(q) - n /\ DOMAIN r = 1..Len(r)
      /\ \A i \in 1..Len(r) : r[i] = q[n + i]
  <2>1. r = SubSeq(q, n + 1, Len(q))
    BY DEF expireOrder
  <2> HIDE DEF r, n
  <2>2. \A i \in (n + 1)..Len(q) : q[i] \in Slot(k)
    BY <1>1, <1>4
  <2>3. n + 1 \in Int /\ Len(q) \in Int
    BY <1>1, <1>4
  <2>4. /\ r \in Seq(Slot(k)) /\ Len(r) = IF n + 1 <= Len(q) THEN Len(q) - (n + 1) + 1 ELSE 0
        /\ \A i \in 1..(Len(q) - (n + 1) + 1) : r[i] = q[(n + 1) + i - 1]
    BY <2>1, <2>2, <2>3, SubSeqElements
  <2>5. Len(r) = Len(q) - n /\ DOMAIN r = 1..Len(r)
    BY <1>1, <1>4, <2>4
  <2>6. ASSUME NEW i \in 1..Len(r) PROVE r[i] = q[n + i]
    BY <1>1, <1>4, <2>4, <2>5
  <2> QED BY <2>4, <2>5, <2>6
<1>8. /\ DOMAIN f = {x \in DOMAIN m : slot(x) \notin gone}
      /\ \A x \in DOMAIN f : f[x] = m[x]
      /\ f = [x \in DOMAIN f |-> f[x]]
  BY DEF expireMap
<1> HIDE DEF n, r, f, q, m
<1>9. \A x \in DOMAIN m : \E i \in 1..Len(q) : q[i] = slot(x)
  BY <1>1, <1>2 DEF Elements, slots
<1>10. ASSUME NEW x \in DOMAIN m, NEW i \in 1..Len(q), q[i] = slot(x)
       PROVE  slot(x) \in gone <=> i <= n
  <2>1. ASSUME NEW j \in 1..n, q[j] = slot(x) PROVE i = j
    <3>1. q[i].token = q[j].token /\ j \in 1..Len(q)
      BY <1>1, <1>4, <1>10, <2>1
    <3> QED BY <1>1, <1>2, <3>1 DEF TokensOnce
  <2>2. ASSUME i <= n PROVE slot(x) \in gone
    BY <1>4, <1>10, <2>2
  <2> QED BY <1>4, <2>1, <2>2
<1>11. ASSUME NEW x \in DOMAIN m PROVE x \in DOMAIN f <=> ~(t > m[x].first + TTL)
  <2>1. PICK i \in 1..Len(q) : q[i] = slot(x)
    BY <1>9
  <2>2. slot(x) \in gone <=> i <= n
    BY <1>10, <2>1
  <2>3. m[x].first = q[i].first
    BY <2>1
  <2> QED BY <1>4, <1>5, <1>6, <1>8, <2>2, <2>3
<1>12. Sorted(r)
  <2>1. ASSUME NEW i \in DOMAIN r, NEW j \in DOMAIN r, i < j
        PROVE  r[i].first <= r[j].first
    <3>1. n + i \in 1..Len(q) /\ n + j \in 1..Len(q) /\ n + i < n + j
      BY <1>1, <1>4, <1>7, <2>1
    <3> QED BY <1>1, <1>2, <1>7, <3>1 DEF Sorted
  <2> QED BY <2>1 DEF Sorted
<1>13. TokensOnce(r)
  <2>1. ASSUME NEW i \in DOMAIN r, NEW j \in DOMAIN r, r[i].token = r[j].token
        PROVE  i = j
    <3>1. n + i \in 1..Len(q) /\ n + j \in 1..Len(q)
      BY <1>1, <1>4, <1>7, <2>1
    <3>2. n + i = n + j
      BY <1>1, <1>2, <1>7, <2>1, <3>1 DEF TokensOnce
    <3> QED BY <1>1, <1>4, <1>7, <3>2
  <2> QED BY <2>1 DEF TokensOnce
<1>14. Elements(r) = slots(f)
  <2>1. ASSUME NEW i \in DOMAIN r PROVE r[i] \in slots(f)
    <3>1. r[i] = q[n + i] /\ n + i \in 1..Len(q) /\ ~(n + i <= n)
      BY <1>1, <1>4, <1>7
    <3>2. PICK x \in DOMAIN m : q[n + i] = slot(x)
      BY Zenon, <1>1, <1>2, <3>1 DEF Elements, slots
    <3>3. x \in DOMAIN f
      BY <1>8, <1>10, <3>1, <3>2
    <3> QED BY <1>8, <3>1, <3>2, <3>3 DEF slots
  <2>2. ASSUME NEW x \in DOMAIN f PROVE slot(x) \in Elements(r)
    <3>1. x \in DOMAIN m /\ slot(x) \notin gone
      BY <1>8
    <3>2. PICK i \in 1..Len(q) : q[i] = slot(x)
      BY <1>9, <3>1
    <3>3. i > n
      BY <1>4, <1>10, <3>1, <3>2
    <3>4. i - n \in DOMAIN r /\ r[i - n] = q[n + (i - n)] /\ n + (i - n) = i
      BY <1>1, <1>4, <1>7, <3>3
    <3> QED BY <3>2, <3>4 DEF Elements
  <2>3. \A x \in DOMAIN f : slot(x) = [first |-> f[x].first, token |-> x]
    BY <1>8
  <2> QED BY <2>1, <2>2, <2>3 DEF Elements, slots
<1>15. DOMAIN f \subseteq DOMAIN m
  BY <1>8
<1>16. IsFiniteSet(DOMAIN f) /\ Cardinality(DOMAIN f) <= MaxTokens
  <2>1. IsFiniteSet(DOMAIN f) /\ Cardinality(DOMAIN f) <= Cardinality(DOMAIN m)
    BY <1>2, <1>15, FS_Subset
  <2>2. Cardinality(DOMAIN f) \in Nat /\ Cardinality(DOMAIN m) \in Nat
    BY <1>2, <2>1, FS_CardinalityType
  <2> QED BY <1>2, <2>1, <2>2, MemStoreAssumption
<1>17. f \in [DOMAIN f -> Entry]
  BY <1>2, <1>8
<1>18. Mirror(k, r, f)
  BY <1>2, <1>7, <1>8, <1>12, <1>13, <1>14, <1>15, <1>16, <1>17 DEF Mirror
<1> QED BY <1>8, <1>11, <1>15, <1>18 DEF r, f, q, m

(* r is q with e put in at place i, the later elements moved up by one.    *)
PutAt(r, q, e, i) ==
    /\ DOMAIN r = 1..(Len(q) + 1) /\ Len(r) = Len(q) + 1
    /\ i \in 1..(Len(q) + 1) /\ r[i] = e
    /\ \A j \in 1..Len(q) : r[IF j < i THEN j ELSE j + 1] = q[j]

(* push puts the new element after everything seen no later and before     *)
(* everything seen later.                                                  *)
LEMMA PushPlaces ==
    ASSUME NEW k, NEW q \in Seq(Slot(k)), NEW e \in Slot(k), Sorted(q)
    PROVE  /\ push(q, e) \in Seq(Slot(k))
           /\ \E i \in 1..(Len(q) + 1) :
                /\ PutAt(push(q, e), q, e, i)
                /\ \A j \in 1..Len(q) : j < i => q[j].first <= e.first
                /\ \A j \in 1..Len(q) : j >= i => e.first <= q[j].first
<1>1. /\ Len(q) \in Nat /\ DOMAIN q = 1..Len(q)
      /\ \A i \in 1..Len(q) : q[i] \in Slot(k) /\ q[i].first \in Nat
      /\ e.first \in Nat
  <2>1. Len(q) \in Nat /\ DOMAIN q = 1..Len(q) /\ \A i \in 1..Len(q) : q[i] \in Slot(k)
    OBVIOUS
  <2>2. \A x \in Slot(k) : x.first \in Nat
    BY DEF Slot
  <2> QED BY <2>1, <2>2
<1>2. CASE q # <<>> /\ e.first < q[Len(q)].first
  <2> DEFINE later == {i \in DOMAIN q : q[i].first > e.first}
             At(i) == /\ q[i].first > e.first
                      /\ \A j \in 1..(i - 1) : q[j].first <= e.first
             i == CHOOSE i \in DOMAIN q : At(i)
  <2>1. Len(q) \in later
    BY <1>1, <1>2
  <2>2. PICK x \in later : \A y \in later : x <= y
    <3>1. later \subseteq Nat
      BY <1>1
    <3> HIDE DEF later
    <3> QED BY Zenon, <2>1, <3>1, Smallest
  <2>3. At(x) /\ x \in DOMAIN q
    <3>1. ASSUME NEW j \in 1..(x - 1) PROVE q[j].first <= e.first
      <4>1. x \in 1..Len(q)
        BY <1>1
      <4>2. j \in 1..Len(q) /\ ~(x <= j)
        BY <1>1, <4>1
      <4>3. j \notin later
        BY <2>2, <4>2
      <4> QED BY <1>1, <4>2, <4>3
    <3> QED BY <3>1
  <2>4. i \in DOMAIN q /\ At(i)
    <3> HIDE DEF At
    <3> QED BY <2>3
  <2>5. push(q, e) = SubSeq(q, 1, i - 1) \o <<e>> \o SubSeq(q, i, Len(q))
    BY <1>2 DEF push
  <2> HIDE DEF i
  <2> DEFINE a == SubSeq(q, 1, i - 1)
             b == SubSeq(q, i, Len(q))
  <2>6. /\ a \in Seq(Slot(k)) /\ Len(a) = i - 1
        /\ \A j \in 1..(i - 1) : a[j] = q[j]
    <3>1. \A j \in 1..(i - 1) : q[j] \in Slot(k)
      BY <1>1, <2>4
    <3>2. 1 \in Int /\ i - 1 \in Int
      BY <1>1, <2>4
    <3>3. /\ a \in Seq(Slot(k)) /\ Len(a) = (IF 1 <= i - 1 THEN (i - 1) - 1 + 1 ELSE 0)
          /\ \A j \in 1..((i - 1) - 1 + 1) : a[j] = q[1 + j - 1]
      BY <3>1, <3>2, SubSeqElements
    <3> HIDE DEF a
    <3>4. Len(a) = i - 1
      BY <1>1, <2>4, <3>3
    <3>5. ASSUME NEW j \in 1..(i - 1) PROVE a[j] = q[j]
      BY <1>1, <2>4, <3>3
    <3> QED BY <3>3, <3>4, <3>5
  <2>7. /\ b \in Seq(Slot(k)) /\ Len(b) = Len(q) - i + 1
        /\ \A j \in 1..(Len(q) - i + 1) : b[j] = q[i + j - 1]
    <3>1. \A j \in i..Len(q) : q[j] \in Slot(k)
      BY <1>1, <2>4
    <3>2. i \in Int /\ Len(q) \in Int
      BY <1>1, <2>4
    <3>3. /\ b \in Seq(Slot(k)) /\ Len(b) = (IF i <= Len(q) THEN Len(q) - i + 1 ELSE 0)
          /\ \A j \in 1..(Len(q) - i + 1) : b[j] = q[i + j - 1]
      BY <3>1, <3>2, SubSeqElements
    <3> QED BY <1>1, <2>4, <3>3
  <2> DEFINE r == (a \o <<e>>) \o b
  <2>8. push(q, e) = r
    BY <2>5
  <2> HIDE DEF a, b
  <2>9. <<e>> \in Seq(Slot(k)) /\ Len(<<e>>) = 1 /\ <<e>>[1] = e
    OBVIOUS
  <2> DEFINE c == a \o <<e>>
  <2>10. /\ c \in Seq(Slot(k)) /\ Len(c) = i
         /\ \A j \in 1..(i - 1) : c[j] = q[j]
         /\ c[i] = e
    <3>1. i \in 1..Len(q)
      BY <1>1, <2>4
    <3> QED BY <2>6, <2>9, <3>1
  <2>11. r = c \o b
    OBVIOUS
  <2> HIDE DEF c, r
  <2>12. r \in Seq(Slot(k)) /\ Len(r) = Len(q) + 1 /\ DOMAIN r = 1..(Len(q) + 1)
    <3>1. r \in Seq(Slot(k)) /\ Len(r) = Len(c) + Len(b)
      BY Zenon, <2>7, <2>10, <2>11, ConcatElements
    <3>2. Len(r) = Len(q) + 1
      BY <1>1, <2>4, <2>7, <2>10, <3>1
    <3> QED BY <3>1, <3>2
  <2>13. \A j \in 1..i : r[j] = c[j]
    BY <1>1, <2>4, <2>7, <2>10, <2>11
  <2>14. \A j \in 1..(Len(q) - i + 1) : r[i + j] = b[j]
    BY <1>1, <2>4, <2>7, <2>10, <2>11
  <2>15. PutAt(r, q, e, i)
    <3>1. i \in 1..(Len(q) + 1) /\ r[i] = e
      BY <1>1, <2>4, <2>10, <2>13
    <3>2. ASSUME NEW j \in 1..Len(q), j < i PROVE r[j] = q[j]
      <4>1. j \in 1..i /\ j \in 1..(i - 1)
        BY <1>1, <2>4, <3>2
      <4> QED BY <2>10, <2>13, <4>1
    <3>3. ASSUME NEW j \in 1..Len(q), ~(j < i) PROVE r[j + 1] = q[j]
      <4>1. (j - i) + 1 \in 1..(Len(q) - i + 1) /\ i + ((j - i) + 1) = j + 1
            /\ i + ((j - i) + 1) - 1 = j
        BY <1>1, <2>4, <3>3
      <4> QED BY <2>7, <2>14, <4>1
    <3> QED BY <2>12, <3>1, <3>2, <3>3 DEF PutAt
  <2>16. ASSUME NEW j \in 1..Len(q), j < i PROVE q[j].first <= e.first
    BY <1>1, <2>4, <2>16
  <2>17. ASSUME NEW j \in 1..Len(q), j >= i PROVE e.first <= q[j].first
    <3>1. q[i].first <= q[j].first
      BY <1>1, <2>4, <2>17 DEF Sorted
    <3> QED BY <1>1, <2>4, <3>1
  <2>18. i \in 1..(Len(q) + 1)
    BY <1>1, <2>4
  <2> QED BY <2>8, <2>12, <2>15, <2>16, <2>17, <2>18
<1>3. CASE ~(q # <<>> /\ e.first < q[Len(q)].first)
  <2> DEFINE r == Append(q, e)
  <2>1. push(q, e) = r
    BY <1>3 DEF push
  <2>2. /\ r \in Seq(Slot(k)) /\ Len(r) = Len(q) + 1 /\ r[Len(q) + 1] = e
        /\ \A j \in 1..Len(q) : r[j] = q[j]
    BY <1>1
  <2> HIDE DEF r
  <2>3. PutAt(r, q, e, Len(q) + 1)
    <3>1. \A j \in 1..Len(q) : j < Len(q) + 1
      BY <1>1
    <3>2. DOMAIN r = 1..(Len(q) + 1)
      BY <2>2
    <3> QED BY <1>1, <2>2, <3>1, <3>2 DEF PutAt
  <2>4. ASSUME NEW j \in 1..Len(q) PROVE q[j].first <= e.first
    <3>1. q # <<>> /\ Len(q) \in 1..Len(q)
      BY <1>1
    <3>2. q[Len(q)].first <= e.first
      BY <1>1, <1>3, <3>1
    <3>3. j \in Nat /\ Len(q) \in Nat /\ j <= Len(q)
      BY <1>1
    <3>4. q[j].first <= q[Len(q)].first
      <4>1. CASE j = Len(q)
        BY <1>1, <4>1
      <4>2. CASE j < Len(q)
        BY <1>1, <3>1, <4>2 DEF Sorted
      <4>3. j = Len(q) \/ j < Len(q)
        BY <3>3
      <4> QED BY <4>1, <4>2, <4>3
    <3> QED BY <1>1, <3>1, <3>2, <3>4
  <2>5. Len(q) + 1 \in 1..(Len(q) + 1) /\ \A j \in 1..Len(q) : ~(j >= Len(q) + 1)
    BY <1>1
  <2> QED BY <2>1, <2>2, <2>3, <2>4, <2>5
<1> QED BY <1>2, <1>3

(* Putting a new token's element into the queue at its place keeps the     *)
(* queue sorted, each token once, and adds that element only.              *)
LEMMA PutAtKeeps ==
    ASSUME NEW k, NEW q \in Seq(Slot(k)), NEW e \in Slot(k), NEW r, NEW i,
           PutAt(r, q, e, i), Sorted(q), TokensOnce(q),
           \A j \in 1..Len(q) : q[j].token # e.token,
           \A j \in 1..Len(q) : j < i => q[j].first <= e.first,
           \A j \in 1..Len(q) : j >= i => e.first <= q[j].first
    PROVE  Sorted(r) /\ TokensOnce(r) /\ Elements(r) = Elements(q) \cup {e}
<1> DEFINE up(j) == IF j < i THEN j ELSE j + 1
<1>1. /\ Len(q) \in Nat /\ DOMAIN q = 1..Len(q) /\ DOMAIN r = 1..(Len(q) + 1)
      /\ i \in 1..(Len(q) + 1) /\ r[i] = e
      /\ \A j \in 1..Len(q) : r[up(j)] = q[j]
  BY DEF PutAt
<1>2. \A a \in DOMAIN r : a = i \/ \E j \in 1..Len(q) : a = up(j)
  <2> SUFFICES ASSUME NEW a \in DOMAIN r, a # i PROVE \E j \in 1..Len(q) : a = up(j)
    OBVIOUS
  <2>1. CASE a < i
    <3>1. a \in 1..Len(q) /\ a = up(a)
      BY <1>1, <2>1
    <3> QED BY <3>1
  <2>2. CASE a > i
    <3>1. a - 1 \in 1..Len(q) /\ a = up(a - 1)
      BY <1>1, <2>2
    <3> QED BY <3>1
  <2>3. a < i \/ a > i
    BY <1>1
  <2> QED BY <2>1, <2>2, <2>3
<1>3. \A j \in 1..Len(q) : up(j) \in DOMAIN r /\ up(j) # i
  BY <1>1
<1>4. \A j, l \in 1..Len(q) : up(j) < up(l) => j < l
  BY <1>1
<1>5. \A j \in 1..Len(q) : (up(j) < i => j < i) /\ (i < up(j) => j >= i)
  BY <1>1
<1> HIDE DEF up
<1>6. Sorted(r)
  <2> SUFFICES ASSUME NEW a \in DOMAIN r, NEW b \in DOMAIN r, a < b
               PROVE  r[a].first <= r[b].first
    BY DEF Sorted
  <2>1. CASE a = i
    <3>1. PICK l \in 1..Len(q) : b = up(l)
      BY <1>1, <1>2, <2>1
    <3> QED BY <1>1, <1>5, <2>1, <3>1
  <2>2. CASE b = i
    <3>1. PICK l \in 1..Len(q) : a = up(l)
      BY <1>1, <1>2, <2>2
    <3> QED BY <1>1, <1>5, <2>2, <3>1
  <2>3. CASE a # i /\ b # i
    <3>1. PICK j \in 1..Len(q) : a = up(j)
      BY <1>2, <2>3
    <3>2. PICK l \in 1..Len(q) : b = up(l)
      BY <1>2, <2>3
    <3>3. j < l
      BY <1>4, <3>1, <3>2
    <3>4. q[j].first <= q[l].first
      BY <1>1, <3>3 DEF Sorted
    <3> QED BY <1>1, <3>1, <3>2, <3>4
  <2> QED BY <2>1, <2>2, <2>3
<1>7. TokensOnce(r)
  <2> SUFFICES ASSUME NEW a \in DOMAIN r, NEW b \in DOMAIN r, r[a].token = r[b].token
               PROVE  a = b
    BY DEF TokensOnce
  <2>1. ASSUME NEW c \in DOMAIN r, c # i PROVE r[c].token # e.token
    BY <1>1, <1>2, <2>1
  <2>2. CASE a = i \/ b = i
    BY <1>1, <2>1, <2>2
  <2>3. CASE a # i /\ b # i
    <3>1. PICK j \in 1..Len(q) : a = up(j)
      BY <1>2, <2>3
    <3>2. PICK l \in 1..Len(q) : b = up(l)
      BY <1>2, <2>3
    <3>3. q[j].token = q[l].token
      BY <1>1, <3>1, <3>2
    <3>4. j = l
      BY <1>1, <3>3 DEF TokensOnce
    <3> QED BY <3>1, <3>2, <3>4
  <2> QED BY <2>2, <2>3
<1>8. Elements(r) = Elements(q) \cup {e}
  <2>1. ASSUME NEW a \in DOMAIN r PROVE r[a] \in Elements(q) \cup {e}
    BY <1>1, <1>2 DEF Elements
  <2>2. ASSUME NEW j \in DOMAIN q PROVE q[j] \in Elements(r)
    <3>1. up(j) \in DOMAIN r /\ r[up(j)] = q[j]
      BY <1>1, <1>3
    <3> QED BY <3>1 DEF Elements
  <2>3. e \in Elements(r)
    BY <1>1 DEF Elements
  <2> QED BY <2>1, <2>2, <2>3 DEF Elements
<1> QED BY <1>6, <1>7, <1>8

(* f is map m with token t's entry set to e.                               *)
With(f, m, t, e) ==
    /\ DOMAIN f = DOMAIN m \cup {t} /\ f = [x \in DOMAIN f |-> f[x]]
    /\ f[t] = e /\ \A x \in DOMAIN m : x # t => f[x] = m[x]

(* A new token goes into the map and, with its time, into the queue.       *)
LEMMA InsertKeeps ==
    ASSUME NEW k \in Kinds, NEW q, NEW m, NEW f, NEW t \in Keys(k), NEW e \in Entry,
           Mirror(k, q, m), With(f, m, t, e), t \notin DOMAIN m,
           Cardinality(DOMAIN m) < MaxTokens, Len(e.items) <= limitOf(t)
    PROVE  Mirror(k, push(q, [first |-> e.first, token |-> t]), f)
<1> DEFINE s == [first |-> e.first, token |-> t]
           r == push(q, s)
<1>1. s \in Slot(k) /\ s.token = t
  BY DEF Slot, Entry
<1>2. /\ q \in Seq(Slot(k)) /\ m \in [DOMAIN m -> Entry]
      /\ DOMAIN m \subseteq Keys(k) /\ IsFiniteSet(DOMAIN m)
      /\ Sorted(q) /\ TokensOnce(q) /\ Elements(q) = slots(m)
      /\ \A x \in DOMAIN m : Len(m[x].items) <= limitOf(x)
  BY DEF Mirror
<1>3. /\ DOMAIN f = DOMAIN m \cup {t} /\ f = [x \in DOMAIN f |-> f[x]]
      /\ f[t] = e /\ \A x \in DOMAIN m : f[x] = m[x]
  BY DEF With
<1> HIDE DEF s
<1>4. \A j \in 1..Len(q) : q[j].token # s.token
  <2> SUFFICES ASSUME NEW j \in 1..Len(q) PROVE q[j].token # t
    BY <1>1
  <2>1. j \in DOMAIN q
    BY <1>2
  <2>2. PICK x \in DOMAIN m : q[j] = [first |-> m[x].first, token |-> x]
    BY <1>2, <2>1 DEF Elements, slots
  <2> QED BY <2>2
<1>5. PICK i \in 1..(Len(q) + 1) :
         /\ PutAt(r, q, s, i)
         /\ \A j \in 1..Len(q) : j < i => q[j].first <= s.first
         /\ \A j \in 1..Len(q) : j >= i => s.first <= q[j].first
  BY <1>1, <1>2, PushPlaces
<1>6. r \in Seq(Slot(k))
  BY <1>1, <1>2, PushPlaces
<1> HIDE DEF r
<1>7. Sorted(r) /\ TokensOnce(r) /\ Elements(r) = Elements(q) \cup {s}
  BY <1>1, <1>2, <1>4, <1>5, PutAtKeeps
<1>8. slots(f) = slots(m) \cup {s}
  <2>1. ASSUME NEW x \in DOMAIN f
        PROVE  [first |-> f[x].first, token |-> x] \in slots(m) \cup {s}
    BY <1>3 DEF slots, s
  <2>2. ASSUME NEW x \in DOMAIN m
        PROVE  [first |-> m[x].first, token |-> x] \in slots(f)
    BY <1>3 DEF slots
  <2>3. s \in slots(f)
    BY <1>3 DEF slots, s
  <2> QED BY Zenon, <2>1, <2>2, <2>3 DEF slots
<1>9. IsFiniteSet(DOMAIN f) /\ Cardinality(DOMAIN f) <= MaxTokens
  <2>1. IsFiniteSet(DOMAIN f) /\ Cardinality(DOMAIN f) = Cardinality(DOMAIN m) + 1
    BY <1>2, <1>3, FS_AddElement
  <2>2. Cardinality(DOMAIN m) \in Nat /\ MaxTokens \in Nat
    BY <1>2, FS_CardinalityType, MemStoreAssumption
  <2> QED BY <2>1, <2>2
<1>10. f \in [DOMAIN f -> Entry] /\ DOMAIN f \subseteq Keys(k)
       /\ \A x \in DOMAIN f : Len(f[x].items) <= limitOf(x)
  BY <1>2, <1>3
<1>11. Mirror(k, r, f)
  BY <1>2, <1>6, <1>7, <1>8, <1>9, <1>10 DEF Mirror
<1> QED BY <1>11 DEF r, s

(* A known token's entry keeps its time, so its place in the queue.        *)
LEMMA UpdateKeeps ==
    ASSUME NEW k \in Kinds, NEW q, NEW m, NEW f, NEW t \in DOMAIN m, NEW e \in Entry,
           Mirror(k, q, m), With(f, m, t, e), e.first = m[t].first,
           Len(e.items) <= limitOf(t)
    PROVE  Mirror(k, q, f)
<1>1. /\ DOMAIN f = DOMAIN m /\ f = [x \in DOMAIN f |-> f[x]]
      /\ f[t] = e /\ \A x \in DOMAIN m : x # t => f[x] = m[x]
  BY Zenon DEF With
<1>2. \A x \in DOMAIN m : f[x].first = m[x].first
  BY <1>1
<1>3. slots(f) = slots(m)
  BY <1>1, <1>2 DEF slots
<1>4. f \in [DOMAIN f -> Entry] /\ \A x \in DOMAIN f : Len(f[x].items) <= limitOf(x)
  BY <1>1 DEF Mirror
<1> QED BY <1>1, <1>3, <1>4 DEF Mirror

(* Entry e of a token outlives a step: same time, its items a prefix.      *)
Grows(e, f) == f.first = e.first /\ AddedTo(e.items, f.items)

(* Record's append is such growth, and so is leaving the entry alone.      *)
LEMMA GrowsByOne ==
    ASSUME NEW e \in Entry, NEW x \in Nat
    PROVE  Grows(e, e) /\ Grows(e, [e EXCEPT !.items = Append(@, x)])
<1>1. e.items \in Seq(Nat)
  BY DEF Entry
<1> DEFINE s == e.items
           r == Append(s, x)
           n == Len(s)
<1>2. r \in Seq(Nat) /\ Len(r) = n + 1 /\ \A i \in 1..n : r[i] = s[i]
  BY <1>1
<1>3. n \in Nat
  BY <1>1
<1>4. [e EXCEPT !.items = Append(@, x)].first = e.first
      /\ [e EXCEPT !.items = Append(@, x)].items = r
  BY DEF Entry
<1> HIDE DEF s, r
<1>5. SubSeq(s, 1, n) = s
  BY Zenon, <1>1, SubSeqWhole DEF s
<1>6. SubSeq(s, 1, n) = SubSeq(r, 1, n)
  BY <1>1, <1>2, <1>3
<1>7. AddedTo(s, s) /\ AddedTo(s, r)
  BY <1>2, <1>3, <1>5, <1>6 DEF AddedTo
<1> QED BY Zenon, <1>4, <1>7 DEF Grows, s

(* storeIn, for the item's own kind: from queue q and map m to r and f.    *)
Stored(t, at, q, m, f, r) ==
    LET isNew == t \notin DOMAIN m
        full == isNew /\ Cardinality(DOMAIN m) >= MaxTokens
        e == IF isNew THEN [first |-> at, items |-> <<>>] ELSE m[t]
        kept == IF Len(e.items) >= limitOf(t) THEN e
                ELSE [e EXCEPT !.items = Append(@, at)]
    IN  /\ f = IF full THEN m
               ELSE [x \in DOMAIN m \cup {t} |-> IF x = t THEN kept ELSE m[x]]
        /\ r = IF isNew /\ ~full
               THEN push(q, [first |-> at, token |-> t]) ELSE q

(* The map and queue that Record leaves for the item's own kind.           *)
LEMMA StoreOwnKind ==
    ASSUME NEW k \in Kinds, NEW t \in Keys(k), NEW at \in Nat, NEW q, NEW m, NEW f, NEW r,
           Mirror(k, q, m),
           Stored(t, at, q, m, f, r)
    PROVE  /\ Mirror(k, r, f) /\ DOMAIN m \subseteq DOMAIN f
           /\ \A x \in DOMAIN m : Grows(m[x], f[x])
<1> DEFINE isNew == t \notin DOMAIN m
           full == isNew /\ Cardinality(DOMAIN m) >= MaxTokens
           e == IF isNew THEN [first |-> at, items |-> <<>>] ELSE m[t]
           kept == IF Len(e.items) >= limitOf(t) THEN e
                   ELSE [e EXCEPT !.items = Append(@, at)]
<1>1. /\ f = IF full THEN m
             ELSE [x \in DOMAIN m \cup {t} |-> IF x = t THEN kept ELSE m[x]]
      /\ r = IF isNew /\ ~full
             THEN push(q, [first |-> at, token |-> t]) ELSE q
  BY DEF Stored
<1>2. /\ m \in [DOMAIN m -> Entry] /\ IsFiniteSet(DOMAIN m)
      /\ \A x \in DOMAIN m : Len(m[x].items) <= limitOf(x)
  BY DEF Mirror
<1>3. \A x \in DOMAIN m : Grows(m[x], m[x])
  BY Zenon, <1>2, GrowsByOne
<1>4. limitOf(t) \in Nat \ {0}
  BY MemStoreAssumption DEF limitOf
<1>5. e \in Entry /\ Len(e.items) <= limitOf(t)
  <2>1. CASE isNew
    <3>1. <<>> \in Seq(Nat) /\ Len(<<>>) = 0
      OBVIOUS
    <3>2. e = [first |-> at, items |-> <<>>]
      BY <2>1
    <3> HIDE DEF e
    <3>3. e \in Entry /\ e.items = <<>>
      BY <3>1, <3>2 DEF Entry
    <3> QED BY <1>4, <3>1, <3>3
  <2>2. CASE ~isNew
    BY <1>2, <2>2
  <2> QED BY <2>1, <2>2
<1> HIDE DEF e
<1>6. kept \in Entry /\ kept.first = e.first /\ Len(kept.items) <= limitOf(t) /\ Grows(e, kept)
  <2>1. CASE Len(e.items) >= limitOf(t)
    BY <1>5, <2>1, GrowsByOne
  <2>2. CASE ~(Len(e.items) >= limitOf(t))
    <3>1. kept = [e EXCEPT !.items = Append(@, at)] /\ e.items \in Seq(Nat)
      BY <1>5, <2>2 DEF Entry
    <3>2. /\ Append(e.items, at) \in Seq(Nat)
          /\ Len(Append(e.items, at)) = Len(e.items) + 1 /\ Len(e.items) \in Nat
      BY <3>1
    <3>3. kept \in Entry /\ kept.first = e.first /\ kept.items = Append(e.items, at)
      BY Zenon, <1>5, <3>1, <3>2 DEF Entry
    <3>4. Len(kept.items) <= limitOf(t)
      BY <1>4, <2>2, <3>2, <3>3
    <3>5. Grows(e, kept)
      BY <1>5, <3>1, GrowsByOne
    <3> QED BY <3>3, <3>4, <3>5
  <2> QED BY <2>1, <2>2
<1> HIDE DEF kept
<1>7. CASE full
  BY <1>1, <1>3, <1>7
<1>8. CASE isNew /\ ~full
  <2>1. With(f, m, t, kept)
    BY <1>1, <1>8 DEF With
  <2>2. Cardinality(DOMAIN m) < MaxTokens
    <3>1. Cardinality(DOMAIN m) \in Nat /\ MaxTokens \in Nat
      BY <1>2, FS_CardinalityType, MemStoreAssumption
    <3> QED BY <1>8, <3>1
  <2>3. kept.first = at
    BY <1>6, <1>8 DEF e
  <2>4. Mirror(k, push(q, [first |-> kept.first, token |-> t]), f)
    BY <1>6, <1>8, <2>1, <2>2, InsertKeeps
  <2>5. Mirror(k, r, f)
    BY <1>1, <1>8, <2>3, <2>4
  <2>6. DOMAIN m \subseteq DOMAIN f /\ \A x \in DOMAIN m : f[x] = m[x]
    BY <1>8, <2>1 DEF With
  <2> QED BY <1>3, <2>5, <2>6
<1>9. CASE ~isNew
  <2>1. With(f, m, t, kept) /\ r = q
    BY <1>1, <1>9 DEF With
  <2>2. e = m[t]
    BY <1>9 DEF e
  <2>3. Mirror(k, r, f)
    BY <1>6, <1>9, <2>1, <2>2, UpdateKeeps
  <2>4. ASSUME NEW x \in DOMAIN m PROVE Grows(m[x], f[x])
    BY <1>3, <1>6, <2>1, <2>2 DEF With
  <2>5. DOMAIN m \subseteq DOMAIN f
    BY <2>1 DEF With
  <2> QED BY <2>3, <2>4, <2>5
<1> QED BY <1>7, <1>8, <1>9

-----------------------------------------------------------------------------
(* A token's items survive into map f, unless their time is over at t.     *)
Survive(m, f, t) ==
    \A x \in DOMAIN m :
        \/ t > m[x].first + TTL
        \/ x \in DOMAIN f /\ Grows(m[x], f[x])

(* Expiry, by a caller whose time is t.                                    *)
LEMMA ExpirySurvive ==
    ASSUME NEW k \in Kinds, NEW t \in Nat, Mirror(k, order[k], entries[k])
    PROVE  Survive(entries[k], expireMap(k, t), t)
<1> DEFINE m == entries[k]
           f == expireMap(k, t)
<1>1. m \in [DOMAIN m -> Entry]
  BY DEF Mirror
<1>2. \A x \in DOMAIN m : x \in DOMAIN f <=> ~(t > m[x].first + TTL)
  BY ExpireKeeps
<1>3. \A x \in DOMAIN f : f[x] = m[x]
  BY ExpireKeeps
<1>4. \A x \in DOMAIN m : Grows(m[x], m[x])
  BY Zenon, <1>1, GrowsByOne
<1> HIDE DEF f
<1>5. Survive(m, f, t)
  BY <1>2, <1>3, <1>4 DEF Survive
<1> QED BY <1>5 DEF f

(* Record and RecordReport keep both kinds' queues and maps together, and  *)
(* drop what is over at the item's own time only.                          *)
LEMMA StoreKeeps ==
    ASSUME MemInv, NEW k \in Kinds, NEW p, p.token \in Keys(k), p.at \in Nat, storeIn(k, p)
    PROVE  /\ entries' = [o \in Kinds |-> entries'[o]] /\ order' = [o \in Kinds |-> order'[o]]
           /\ \A o \in Kinds : Mirror(o, order'[o], entries'[o])
           /\ \A o \in Kinds : Survive(entries[o], entries'[o], p.at)
<1> DEFINE other == CHOOSE o \in Kinds : o # k
           m == expireMap(k, p.at)
           q == expireOrder(k, p.at)
           f == entries'[k]
           r == order'[k]
<1>1. other \in Kinds /\ other # k /\ Kinds = {k, other}
  BY DEF Kinds
<1>2. \A o \in Kinds : Mirror(o, order[o], entries[o])
  BY DEF MemInv
<1>3. \A o \in Kinds : Mirror(o, expireOrder(o, p.at), expireMap(o, p.at))
  BY <1>2, ExpireKeeps
<1>4. \A o \in Kinds : Survive(entries[o], expireMap(o, p.at), p.at)
  BY <1>2, ExpirySurvive
<1>5. /\ entries' = [o \in Kinds |-> entries'[o]] /\ order' = [o \in Kinds |-> order'[o]]
      /\ entries'[other] = expireMap(other, p.at) /\ order'[other] = expireOrder(other, p.at)
  BY ZenonT(60), <1>1 DEF storeIn, MemInv
<1>6. Stored(p.token, p.at, q, m, f, r)
  BY Zenon, <1>1 DEF storeIn, MemInv, limitOf, limit, Stored
<1>7. Mirror(k, q, m)
  BY <1>3
<1> HIDE DEF m, q, f, r
<1>8. /\ Mirror(k, r, f) /\ DOMAIN m \subseteq DOMAIN f
      /\ \A x \in DOMAIN m : Grows(m[x], f[x])
  BY <1>6, <1>7, StoreOwnKind
<1>9. Survive(entries[k], f, p.at)
  <2> SUFFICES ASSUME NEW x \in DOMAIN entries[k], ~(p.at > entries[k][x].first + TTL)
               PROVE  x \in DOMAIN f /\ Grows(entries[k][x], f[x])
    BY DEF Survive
  <2>1. x \in DOMAIN m
    BY <1>4 DEF Survive, m
  <2>2. m[x] = entries[k][x]
    BY <1>2, <2>1, ExpireKeeps DEF m
  <2> QED BY <1>8, <2>1, <2>2
<1>10. ASSUME NEW o \in Kinds
       PROVE  Mirror(o, order'[o], entries'[o]) /\ Survive(entries[o], entries'[o], p.at)
  <2>1. CASE o = k
    BY <1>8, <1>9, <2>1 DEF f, r
  <2>2. CASE o = other
    BY <1>1, <1>3, <1>4, <1>5, <2>2
  <2> QED BY <1>1, <2>1, <2>2
<1> QED BY <1>5, <1>10

(* A stamped item names its kind and a token of that kind, and its time is *)
(* not ahead of the clock.                                                 *)
LEMMA ItemParts ==
    ASSUME NEW p \in Item, now \in Nat
    PROVE  p.kind \in Kinds /\ p.token \in Keys(p.kind) /\ p.at \in Nat /\ p.at <= now
<1>1. PICK k \in Kinds : p \in [kind : {k}, token : Keys(k), at : 0..now]
  BY DEF Item
<1>2. p.kind = k /\ p.token \in Keys(k) /\ p.at \in 0..now
  BY <1>1
<1> QED BY <1>2

(* The stores begin empty and no handler has an item. *)
LEMMA InitEstablishes == Init => MemInv
<1> SUFFICES ASSUME Init PROVE MemInv
  OBVIOUS
<1>1. now \in Nat /\ pending \in [Handlers -> Item \cup {Idle}]
      /\ entries = [k \in Kinds |-> entries[k]] /\ order = [k \in Kinds |-> order[k]]
  BY DEF Init
<1>2. ASSUME NEW k \in Kinds PROVE Mirror(k, order[k], entries[k])
  <2>1. order[k] = <<>> /\ entries[k] = EmptyMap /\ DOMAIN EmptyMap = {}
    BY DEF Init, EmptyMap
  <2>2. IsFiniteSet({}) /\ Cardinality({}) = 0
    BY FS_EmptySet
  <2>3. EmptyMap \in [{} -> Entry]
    BY DEF EmptyMap
  <2>4. <<>> \in Seq(Slot(k)) /\ DOMAIN <<>> = {}
    OBVIOUS
  <2>5. Elements(<<>>) = {} /\ slots(EmptyMap) = {}
    BY <2>1, <2>4 DEF Elements, slots
  <2>6. Sorted(<<>>) /\ TokensOnce(<<>>)
    BY <2>4 DEF Sorted, TokensOnce
  <2>7. 0 <= MaxTokens
    BY MemStoreAssumption
  <2> QED BY <2>1, <2>2, <2>3, <2>4, <2>5, <2>6, <2>7 DEF Mirror
<1> QED BY <1>1, <1>2 DEF MemInv

(* What every step does: the invariant is kept, and so is every token      *)
(* whose time to live is not over.                                         *)
LEMMA StepKeeps ==
    ASSUME MemInv, [Next]_vars
    PROVE  MemInv' /\ \A k \in Kinds : Survive(entries[k], entries'[k], now)
<1>0. /\ now \in Nat /\ pending \in [Handlers -> Item \cup {Idle}]
      /\ entries = [k \in Kinds |-> entries[k]] /\ order = [k \in Kinds |-> order[k]]
      /\ \A k \in Kinds : Mirror(k, order[k], entries[k])
  BY DEF MemInv
<1>1. ASSUME UNCHANGED entries PROVE \A k \in Kinds : Survive(entries[k], entries'[k], now)
  <2>1. ASSUME NEW k \in Kinds PROVE Survive(entries[k], entries[k], now)
    <3>1. \A x \in DOMAIN entries[k] : Grows(entries[k][x], entries[k][x])
      <4>1. entries[k] \in [DOMAIN entries[k] -> Entry]
        BY <1>0 DEF Mirror
      <4> QED BY Zenon, <4>1, GrowsByOne
    <3> QED BY <3>1 DEF Survive
  <2> QED BY <1>1, <2>1
<1>2. ASSUME NEW h \in Handlers, NEW k \in Kinds, NEW t \in Keys(k), Stamp(h, k, t)
      PROVE  MemInv'
  <2>1. [kind |-> k, token |-> t, at |-> now] \in Item
    BY <1>0 DEF Item
  <2>2. pending' \in [Handlers -> Item \cup {Idle}]
    BY <1>0, <1>2, <2>1 DEF Stamp
  <2>3. now' = now /\ entries' = entries /\ order' = order
    BY <1>2 DEF Stamp
  <2>4. Item' = Item
    BY <2>3 DEF Item
  <2>5. \A o \in Kinds : Mirror(o, order'[o], entries'[o])
    BY <1>0, <2>3
  <2> QED BY <1>0, <2>2, <2>3, <2>4, <2>5 DEF MemInv, Mirror
<1>3. ASSUME NEW h \in Handlers, Record(h)
      PROVE  MemInv' /\ \A k \in Kinds : Survive(entries[k], entries'[k], now)
  <2> DEFINE p == pending[h]
             k == p.kind
  <2>1. p \in Item
    BY <1>0, <1>3 DEF Record
  <2>2. storeIn(k, p) /\ now' = now /\ pending' = [pending EXCEPT ![h] = Idle]
    BY <1>3 DEF Record, store
  <2> HIDE DEF p
  <2>3. k \in Kinds /\ p.token \in Keys(k) /\ p.at \in Nat /\ p.at <= now
    BY <1>0, <2>1, ItemParts
  <2>4. /\ entries' = [o \in Kinds |-> entries'[o]] /\ order' = [o \in Kinds |-> order'[o]]
        /\ \A o \in Kinds : Mirror(o, order'[o], entries'[o])
        /\ \A o \in Kinds : Survive(entries[o], entries'[o], p.at)
    <3> HIDE DEF k
    <3> QED BY <2>2, <2>3, StoreKeeps
  <2>5. pending' \in [Handlers -> Item \cup {Idle}]
    BY <1>0, <2>2
  <2>6. Item' = Item
    BY <2>2 DEF Item
  <2>7. MemInv'
    BY <1>0, <2>2, <2>4, <2>5, <2>6 DEF MemInv, Mirror
  <2>8. ASSUME NEW o \in Kinds PROVE Survive(entries[o], entries'[o], now)
    <3>1. ASSUME NEW x \in DOMAIN entries[o], p.at > entries[o][x].first + TTL
          PROVE  now > entries[o][x].first + TTL
      <4>1. entries[o][x].first \in Nat
        BY <1>0 DEF Mirror, Entry
      <4> QED BY <1>0, <2>3, <3>1, <4>1, MemStoreAssumption
    <3> QED BY <2>4, <3>1 DEF Survive
  <2> QED BY <2>7, <2>8
<1>4. ASSUME Lookup
      PROVE  MemInv' /\ \A k \in Kinds : Survive(entries[k], entries'[k], now)
  <2>1. /\ entries' = [k \in Kinds |-> expireMap(k, now)]
        /\ order' = [k \in Kinds |-> expireOrder(k, now)]
        /\ now' = now /\ pending' = pending
    BY <1>4 DEF Lookup
  <2>2. \A k \in Kinds : entries'[k] = expireMap(k, now) /\ order'[k] = expireOrder(k, now)
    BY <2>1
  <2>3. \A k \in Kinds : Mirror(k, order'[k], entries'[k])
    BY <1>0, <2>2, ExpireKeeps
  <2>4. \A k \in Kinds : Survive(entries[k], entries'[k], now)
    BY <1>0, <2>2, ExpirySurvive
  <2>5. Item' = Item
    BY <2>1 DEF Item
  <2>6. entries' = [k \in Kinds |-> entries'[k]] /\ order' = [k \in Kinds |-> order'[k]]
    BY <2>1
  <2>7. MemInv'
    BY <1>0, <2>1, <2>3, <2>5, <2>6 DEF MemInv, Mirror
  <2> QED BY <2>4, <2>7
<1>5. ASSUME TimePasses PROVE MemInv'
  <2>1. now' = now + 1 /\ pending' = pending /\ entries' = entries /\ order' = order
    BY <1>5 DEF TimePasses
  <2>2. ASSUME NEW p \in Item PROVE p \in Item'
    <3>1. PICK k \in Kinds : p \in [kind : {k}, token : Keys(k), at : 0..now]
      BY DEF Item
    <3>2. 0..now \subseteq 0..(now + 1)
      BY <1>0
    <3>3. p \in [kind : {k}, token : Keys(k), at : 0..(now + 1)]
      BY <3>1, <3>2
    <3> QED BY <2>1, <3>3 DEF Item
  <2>3. pending' \in [Handlers -> Item' \cup {Idle}]
    BY <1>0, <2>1, <2>2
  <2>4. \A k \in Kinds : Mirror(k, order'[k], entries'[k])
    BY <1>0, <2>1
  <2> QED BY <1>0, <2>1, <2>3, <2>4 DEF MemInv, Mirror
<1>6. ASSUME UNCHANGED vars PROVE MemInv'
  <2>1. now' = now /\ pending' = pending /\ entries' = entries /\ order' = order
    BY <1>6 DEF vars
  <2>2. Item' = Item
    BY <2>1 DEF Item
  <2> QED BY <1>0, <2>1, <2>2 DEF MemInv, Mirror
<1>7. CASE \E h \in Handlers, k \in Kinds : \E t \in Keys(k) : Stamp(h, k, t)
  BY Zenon, <1>1, <1>2, <1>7 DEF Stamp
<1>8. CASE TimePasses
  BY <1>1, <1>5, <1>8 DEF TimePasses
<1>9. CASE UNCHANGED vars
  BY <1>1, <1>6, <1>9 DEF vars
<1> QED BY <1>3, <1>4, <1>7, <1>8, <1>9 DEF Next

-----------------------------------------------------------------------------
(* The inductive invariant holds of MemStore whatever its limits and       *)
(* however its handlers interleave.                                        *)
THEOREM MemInvariant == Spec => []MemInv
<1>1. MemInv /\ [Next]_vars => MemInv'
  BY StepKeeps
<1> QED BY <1>1, InitEstablishes, PTL DEF Spec

(* Queue and map of each kind always hold the same entries, oldest first   *)
(* and each once, within the limits on tokens and on items per token       *)
(* (Record, RecordReport, expireLocked).                                   *)
THEOREM QueueAlwaysMirrorsMap == Spec => []QueueMirrorsMap
<1>1. MemInv => QueueMirrorsMap
  <2> SUFFICES ASSUME MemInv PROVE QueueMirrorsMap
    OBVIOUS
  <2>1. \A k \in Kinds : Mirror(k, order[k], entries[k])
    BY DEF MemInv
  <2> QED BY <2>1 DEF QueueMirrorsMap, Mirror, Sorted, TokensOnce, Elements, slots, limitOf
<1> QED BY <1>1, MemInvariant, PTL

(* No step of any handler drops or shortens a token's items before their   *)
(* time to live is over: a full store refuses new tokens instead.          *)
THEOREM AlwaysKeptUntilExpiry == Spec => KeptUntilExpiry
<1> DEFINE Kept ==
        \A k \in Kinds : \A t \in DOMAIN entries[k] :
            \/ now > entries[k][t].first + TTL
            \/ /\ t \in DOMAIN entries'[k]
               /\ entries'[k][t].first = entries[k][t].first
               /\ AddedTo(entries[k][t].items, entries'[k][t].items)
<1>1. MemInv /\ [Next]_vars => [Kept]_vars
  <2> SUFFICES ASSUME MemInv, [Next]_vars PROVE Kept
    OBVIOUS
  <2>1. \A k \in Kinds : Survive(entries[k], entries'[k], now)
    BY StepKeeps
  <2> QED BY <2>1 DEF Survive, Grows
<1>2. Spec => [][Kept]_vars
  BY <1>1, MemInvariant, PTL DEF Spec
<1> QED BY <1>2 DEF KeptUntilExpiry

(* Lookup, LookupReports and Len leave nothing in the maps whose time to   *)
(* live, counted from the first item, is over.                             *)
THEOREM NothingStaleIsEverRead == Spec => NothingStaleIsRead
<1> DEFINE Fresh ==
        Lookup => \A k \in Kinds : \A t \in DOMAIN entries'[k] :
                     now <= entries'[k][t].first + TTL
<1>1. MemInv => [Fresh]_vars
  <2> SUFFICES ASSUME MemInv, Lookup, NEW k \in Kinds, NEW t \in DOMAIN entries'[k]
               PROVE  now <= entries'[k][t].first + TTL
    OBVIOUS
  <2>1. now \in Nat /\ Mirror(k, order[k], entries[k])
    BY DEF MemInv
  <2>2. entries'[k] = expireMap(k, now)
    BY DEF Lookup
  <2>3. /\ t \in DOMAIN entries[k] /\ entries'[k][t] = entries[k][t]
        /\ ~(now > entries[k][t].first + TTL)
    BY <2>1, <2>2, ExpireKeeps
  <2>4. entries[k][t].first \in Nat
    BY <2>1, <2>3 DEF Mirror, Entry
  <2> QED BY <2>1, <2>3, <2>4, MemStoreAssumption
<1>2. Spec => [][Fresh]_vars
  BY <1>1, MemInvariant, PTL
<1> QED BY <1>2 DEF NothingStaleIsRead

=============================================================================
