------------------------ MODULE ConfigurationProofs ------------------------
(***************************************************************************)
(* Proofs about what comes before the first query: the image that ships    *)
(* (Build) and the configuration of a probe zone (ProbeSetup), with the    *)
(* induction over lines and characters that both rest on.  The two share   *)
(* no state.                                                               *)
(***************************************************************************)
EXTENDS Build, ProbeSetup, WellFoundedInduction, TLAPS

(***************************************************************************)
(* Induction, for a set of numbers or of sequences.                        *)
(***************************************************************************)

(* A nonempty set of numbers has a least one.                              *)
LEMMA LeastNumber ==
    ASSUME NEW S \in SUBSET Nat, S # {}
    PROVE  \E x \in S : \A y \in S : x <= y
<1> DEFINE less == OpToRel(<, Nat)
<1>1. IsWellFoundedOn(less, Nat)
  BY Zenon, NatLessThanWellFounded
<1>2. \A x, y \in Nat : x < y => <<x, y>> \in less
  BY DEF OpToRel
<1> HIDE DEF less
<1>3. PICK x \in S : \A y \in S : ~(<<y, x>> \in less)
  BY Zenon, <1>1, WFMin
<1>4. ASSUME NEW y \in S PROVE x <= y
  <2>1. x \in Nat /\ y \in Nat
    OBVIOUS
  <2>2. ~(y < x)
    BY Zenon, <1>2, <1>3, <2>1
  <2> QED BY <2>1, <2>2
<1> QED BY <1>4

(* Induction over the numbers, for a set of them.                          *)
LEMMA NumberInduction ==
    ASSUME NEW S \in SUBSET Nat, 0 \in S, \A n \in S : n + 1 \in S
    PROVE  S = Nat
<1> DEFINE bad == Nat \ S
<1> SUFFICES ASSUME bad # {} PROVE FALSE
  OBVIOUS
<1>1. PICK k \in bad : \A y \in bad : k <= y
  <2>1. bad \in SUBSET Nat
    OBVIOUS
  <2> HIDE DEF bad
  <2> QED BY Zenon, <2>1, LeastNumber
<1>2. k \in Nat /\ k # 0
  BY <1>1
<1>3. k - 1 \in S /\ k = (k - 1) + 1
  BY <1>1, <1>2
<1> QED BY <1>1, <1>3

(* A sequence that is not empty has a last element.                        *)
LEMMA FrontAndLast ==
    ASSUME NEW A, NEW n \in Nat, NEW s \in Seq(A), Len(s) = n + 1
    PROVE  \E t \in Seq(A), x \in A : s = Append(t, x) /\ Len(t) = n
<1>1. s = Append(SubSeq(s, 1, n), s[n + 1])
  OBVIOUS
<1>2. SubSeq(s, 1, n) \in Seq(A) /\ s[n + 1] \in A /\ Len(SubSeq(s, 1, n)) = n
  OBVIOUS
<1> QED BY <1>1, <1>2

(* Induction over sequences, for a set of them.                            *)
LEMMA SequenceInduction ==
    ASSUME NEW A, NEW S \in SUBSET Seq(A), <<>> \in S,
           \A s \in S : \A x \in A : Append(s, x) \in S
    PROVE  S = Seq(A)
<1> DEFINE N == {n \in Nat : \A s \in Seq(A) : Len(s) = n => s \in S}
<1>1. N \in SUBSET Nat
  OBVIOUS
<1>2. 0 \in N
  <2>1. ASSUME NEW s \in Seq(A), Len(s) = 0 PROVE s = <<>>
    BY <2>1
  <2> QED BY <2>1
<1>3. ASSUME NEW n \in N PROVE n + 1 \in N
  <2>1. ASSUME NEW s \in Seq(A), Len(s) = n + 1 PROVE s \in S
    <3>1. n \in Nat
      OBVIOUS
    <3>2. PICK t \in Seq(A), x \in A : s = Append(t, x) /\ Len(t) = n
      BY <2>1, <3>1, FrontAndLast
    <3>3. t \in S
      BY <3>2
    <3> QED BY <3>2, <3>3
  <2> QED BY <2>1
<1>4. N = Nat
  <2> HIDE DEF N
  <2> QED BY <1>1, <1>2, <1>3, NumberInduction
<1>5. ASSUME NEW s \in Seq(A) PROVE s \in S
  <2>1. Len(s) \in N
    BY <1>4
  <2> QED BY <2>1
<1> QED BY <1>5

-----------------------------------------------------------------------------
(***************************************************************************)
(* Build, for every plugin.cfg that lists upstream's plugins in the order  *)
(* the table of patches refers to.                                         *)
(***************************************************************************)

(* g is f up to n, and then c.                                             *)
Continues(g, f, n, c) ==
    DOMAIN g = 0..(n + 1) /\ g[n + 1] = c /\ \A k \in 0..n : g[k] = f[k]

(* Such a function exists.                                                 *)
LEMMA Continued ==
    ASSUME NEW f, NEW n \in Nat, NEW c
    PROVE  \E g : Continues(g, f, n, c)
<1> DEFINE g == [k \in 0..(n + 1) |-> IF k = n + 1 THEN c ELSE f[k]]
<1>1. Continues(g, f, n, c)
  BY DEF Continues
<1> QED BY Zenon, <1>1

(* f[k] is what the first k of the sequences ss are when put one after the *)
(* other, up to n of them.                                                 *)
Joins(ss, n, f) ==
    /\ DOMAIN f = 0..n
    /\ f[0] = <<>>
    /\ \A k \in 1..n : f[k] = f[k - 1] \o ss[k]

(* sed's output can be put together line by line.                          *)
LEMMA JoinsExists ==
    ASSUME NEW ss, NEW n \in Nat
    PROVE  \E f : Joins(ss, n, f)
<1> DEFINE good == {k \in Nat : \E f : Joins(ss, k, f)}
<1>1. 0 \in good
  <2>1. Joins(ss, 0, [k \in 0..0 |-> <<>>])
    BY DEF Joins
  <2> QED BY <2>1
<1>2. ASSUME NEW k \in Nat, NEW f, Joins(ss, k, f)
      PROVE  \E g : Joins(ss, k + 1, g)
  <2> DEFINE c == f[k] \o ss[k + 1]
  <2> HIDE DEF c
  <2>0. PICK g : Continues(g, f, k, c)
    BY Zenon, Continued
  <2>1. DOMAIN g = 0..(k + 1) /\ g[k + 1] = c /\ \A i \in 0..k : g[i] = f[i]
    BY <2>0 DEF Continues
  <2>2. g[0] = <<>>
    BY <1>2, <2>1 DEF Joins
  <2>3. ASSUME NEW i \in 1..(k + 1) PROVE g[i] = g[i - 1] \o ss[i]
    <3>1. CASE i = k + 1
      <4>1. g[i - 1] = f[k]
        BY <2>1, <3>1
      <4> QED BY <2>1, <3>1, <4>1 DEF c
    <3>2. CASE i # k + 1
      <4>1. i \in 1..k /\ g[i] = f[i] /\ g[i - 1] = f[i - 1]
        BY <2>1, <3>2
      <4>2. f[i] = f[i - 1] \o ss[i]
        BY <1>2, <4>1 DEF Joins
      <4> QED BY Zenon, <4>1, <4>2
    <3> QED BY <3>1, <3>2
  <2> QED BY Zenon, <2>1, <2>2, <2>3 DEF Joins
<1>3. ASSUME NEW k \in good PROVE k + 1 \in good
  BY <1>2
<1>4. good \in SUBSET Nat
  OBVIOUS
<1>5. good = Nat
  <2> HIDE DEF good
  <2> QED BY <1>1, <1>3, <1>4, NumberInduction
<1> QED BY <1>5

(* Two ways to put sequences together give the same.                       *)
LEMMA JoinsUnique ==
    ASSUME NEW ss, NEW n \in Nat, NEW f, Joins(ss, n, f), NEW m \in Nat, m <= n,
           NEW g, Joins(ss, m, g)
    PROVE  f[m] = g[m]
<1> DEFINE bad == {k \in 0..m : f[k] # g[k]}
<1> SUFFICES ASSUME bad # {} PROVE FALSE
  OBVIOUS
<1>1. bad \in SUBSET Nat
  OBVIOUS
<1>2. PICK k \in bad : \A y \in bad : k <= y
  <2> HIDE DEF bad
  <2> QED BY Zenon, <1>1, LeastNumber
<1>3. f[0] = g[0]
  BY DEF Joins
<1>4. k \in 1..m /\ k - 1 \in 0..m /\ k - 1 \notin bad /\ k \in 1..n
  BY <1>2, <1>3
<1>5. f[k] = f[k - 1] \o ss[k] /\ g[k] = g[k - 1] \o ss[k]
  BY <1>4 DEF Joins
<1> QED BY <1>2, <1>4, <1>5

(* That is what joined does.                                               *)
LEMMA JoinedIs ==
    ASSUME NEW ss, Len(ss) \in Nat, NEW f, Joins(ss, Len(ss), f)
    PROVE  joined(ss) = f[Len(ss)]
<1> DEFINE n == Len(ss)
           step(g) == [i \in 0..n |-> IF i = 0 THEN <<>> ELSE g[i - 1] \o ss[i]]
           g == CHOOSE h : h = step(h)
<1>0. n \in Nat
  OBVIOUS
<1>1. joined(ss) = g[n]
  BY Zenon DEF joined
<1>2. \A i \in 0..n : i = 0 \/ i \in 1..n
  BY <1>0
<1>3. g = step(g)
  <2> DEFINE h == [i \in 0..n |-> f[i]]
  <2>1. ASSUME NEW i \in 0..n PROVE f[i] = IF i = 0 THEN <<>> ELSE h[i - 1] \o ss[i]
    <3>1. CASE i = 0
      BY Zenon, <3>1 DEF Joins
    <3>2. CASE i \in 1..n
      <4>1. h[i - 1] = f[i - 1] /\ i # 0
        BY <1>0, <3>2
      <4>2. f[i] = f[i - 1] \o ss[i]
        BY Zenon, <3>2 DEF Joins
      <4> QED BY Zenon, <4>1, <4>2
    <3> QED BY Zenon, <1>2, <3>1, <3>2
  <2>2. h = step(h)
    BY Zenon, <2>1
  <2> HIDE DEF h, step
  <2> QED BY Zenon, <2>2
<1>4. \A i \in 1..n : i \in 0..n /\ i # 0
  BY <1>0
<1>5. Joins(ss, n, g)
  <2>1. DOMAIN g = 0..n
    <3>1. DOMAIN step(g) = 0..n
      BY Zenon
    <3> HIDE DEF g, step
    <3> QED BY Zenon, <1>3, <3>1
  <2>2. ASSUME NEW i \in 0..n PROVE g[i] = IF i = 0 THEN <<>> ELSE g[i - 1] \o ss[i]
    <3>1. step(g)[i] = IF i = 0 THEN <<>> ELSE g[i - 1] \o ss[i]
      BY Zenon
    <3> HIDE DEF g, step
    <3> QED BY Zenon, <1>3, <3>1
  <2> HIDE DEF g, step
  <2>3. 0 \in 0..n
    BY <1>0
  <2>4. g[0] = <<>>
    BY Zenon, <2>2, <2>3
  <2>5. ASSUME NEW i \in 1..n PROVE g[i] = g[i - 1] \o ss[i]
    BY Zenon, <1>4, <2>2
  <2> QED BY Zenon, <2>1, <2>4, <2>5 DEF Joins
<1> HIDE DEF g
<1>6. n <= n /\ Joins(ss, n, f)
  BY <1>0
<1> HIDE DEF n
<1>7. f[n] = g[n]
  BY <1>0, <1>5, <1>6, JoinsUnique
<1> QED BY Zenon, <1>1, <1>7 DEF n

(* Of nothing, nothing.                                                    *)
LEMMA JoinedEmpty == joined(<<>>) = <<>>
<1>1. Len(<<>>) = 0 /\ 0 \in Nat
  OBVIOUS
<1>2. PICK f : Joins(<<>>, 0, f)
  BY Zenon, <1>1, JoinsExists
<1>3. joined(<<>>) = f[0]
  BY Zenon, <1>1, <1>2, JoinedIs
<1> QED BY Zenon, <1>2, <1>3 DEF Joins

(* One more sequence at the end.                                           *)
LEMMA JoinedAppend ==
    ASSUME NEW L, NEW ss \in Seq(Seq(L)), NEW s \in Seq(L)
    PROVE  joined(Append(ss, s)) = joined(ss) \o s
<1> DEFINE n == Len(ss)
           tt == Append(ss, s)
<1>1. /\ n \in Nat /\ n + 1 \in Nat /\ n <= n + 1 /\ (n + 1) - 1 = n /\ tt \in Seq(Seq(L)) /\ Len(tt) = n + 1 /\ tt[n + 1] = s
      /\ \A k \in 1..n : tt[k] = ss[k]
  OBVIOUS
<1> HIDE DEF tt
<1>2. PICK f : Joins(tt, n + 1, f)
  BY Zenon, <1>1, JoinsExists
<1>3. PICK g : Joins(ss, n, g)
  BY <1>1, JoinsExists
<1>4. joined(tt) = f[n + 1]
  BY <1>1, <1>2, JoinedIs
<1>5. joined(ss) = g[n]
  BY <1>1, <1>3, JoinedIs
<1>6. Joins(tt, n, g)
  BY <1>1, <1>3 DEF Joins
<1>7. f[n] = g[n]
  BY <1>1, <1>2, <1>6, JoinsUnique
<1>8. f[n + 1] = f[n] \o s
  <2>1. n + 1 \in 1..(n + 1)
    BY <1>1
  <2>2. f[n + 1] = f[(n + 1) - 1] \o tt[n + 1]
    BY Zenon, <1>2, <2>1 DEF Joins
  <2> QED BY <1>1, <2>2
<1> QED BY <1>4, <1>5, <1>7, <1>8 DEF tt

(* joined yields a sequence.                                               *)
LEMMA JoinedType ==
    ASSUME NEW L, NEW ss \in Seq(Seq(L))
    PROVE  joined(ss) \in Seq(L)
<1> DEFINE S == {x \in Seq(Seq(L)) : joined(x) \in Seq(L)}
<1>1. <<>> \in S
  <2>1. <<>> \in Seq(Seq(L)) /\ <<>> \in Seq(L)
    OBVIOUS
  <2> QED BY Zenon, <2>1, JoinedEmpty
<1>2. ASSUME NEW x \in S, NEW s \in Seq(L) PROVE Append(x, s) \in S
  <2>1. joined(Append(x, s)) = joined(x) \o s
    BY JoinedAppend
  <2>2. joined(x) \o s \in Seq(L) /\ Append(x, s) \in Seq(Seq(L))
    OBVIOUS
  <2> QED BY <2>1, <2>2
<1>3. S \in SUBSET Seq(Seq(L))
  OBVIOUS
<1>4. S = Seq(Seq(L))
  <2> HIDE DEF S
  <2> QED BY <1>1, <1>2, <1>3, SequenceInduction
<1> QED BY <1>4

-----------------------------------------------------------------------------
(* The names in a plugin.cfg, patched or not.                              *)
Names == Plugins \cup UNION {Range(cfg) : cfg \in Stocks}

(* The table of patches: no two have the same anchor, and none is anchored *)
(* at a line that another one adds.                                        *)
LEMMA Table ==
    /\ \A p, q \in Plugins : pluginCfgPatches[p].anchor # q
    /\ \A p, q \in Plugins : pluginCfgPatches[p].anchor = pluginCfgPatches[q].anchor => p = q
<1>1. \A p \in Plugins : \/ p = "sni_tls" /\ pluginCfgPatches[p].anchor = "tls"
                         \/ p = "radnr" /\ pluginCfgPatches[p].anchor = "health"
                         \/ p = "dynupdate" /\ pluginCfgPatches[p].anchor = "hosts"
                         \/ p = "cookie" /\ pluginCfgPatches[p].anchor = "tsig"
                         \/ p = "probe" /\ pluginCfgPatches[p].anchor = "file"
                         \/ p = "rrl" /\ pluginCfgPatches[p].anchor = "rewrite"
  BY DEF Plugins, pluginCfgPatches
<1> HIDE DEF Plugins, pluginCfgPatches
<1>2. \A p, q \in Plugins : pluginCfgPatches[p].anchor # q
  BY <1>1
<1>3. \A p, q \in Plugins : pluginCfgPatches[p].anchor = pluginCfgPatches[q].anchor => p = q
  BY <1>1
<1> QED BY <1>2, <1>3

(* What sed makes of a line is one or two lines.                           *)
LEMMA PatchedType ==
    ASSUME NEW line \in Names, NEW p \in Plugins
    PROVE  patched(line, p) \in Seq(Names)
<1>1. p \in Names
  BY DEF Names
<1>2. \A x, y \in Names : <<x>> \in Seq(Names) /\ <<x, y>> \in Seq(Names)
  OBVIOUS
<1> QED BY <1>1, <1>2 DEF patched

(* Likewise for several patches.                                           *)
LEMMA PatchedByType ==
    ASSUME NEW line \in Names, NEW P \in SUBSET Plugins
    PROVE  patchedBy(line, P) \in Seq(Names)
<1> DEFINE at == {p \in P : pluginCfgPatches[p].anchor = line}
<1>1. CASE at = {}
  BY <1>1 DEF patchedBy
<1>2. CASE at # {}
  <2>1. (CHOOSE p \in at : TRUE) \in Plugins
    BY <1>2
  <2> QED BY <1>2, <2>1, PatchedType DEF patchedBy
<1> QED BY <1>1, <1>2

(* A function on the positions of a sequence is one.                       *)
LEMMA Mapped ==
    ASSUME NEW A, NEW s \in Seq(A), NEW B, NEW f \in [DOMAIN s -> B]
    PROVE  f \in Seq(B)
OBVIOUS

(* Lines are patched one by one.                                           *)
LEMMA SedAppend ==
    ASSUME NEW cfg \in Seq(Names), NEW line \in Names, NEW p \in Plugins
    PROVE  /\ sed(cfg, p) \in Seq(Names)
           /\ sed(Append(cfg, line), p) = sed(cfg, p) \o patched(line, p)
<1> DEFINE ss == [i \in DOMAIN cfg |-> patched(cfg[i], p)]
           s == patched(line, p)
           all == Append(cfg, line)
<1>1. \A x \in Names : patched(x, p) \in Seq(Names)
  BY PatchedType
<1>2. ss \in Seq(Seq(Names)) /\ s \in Seq(Names)
  <2>1. ss \in [DOMAIN cfg -> Seq(Names)]
    BY <1>1
  <2> HIDE DEF ss
  <2> QED BY <1>1, <2>1, Mapped
<1>3. [i \in DOMAIN all |-> patched(all[i], p)] = Append(ss, s)
  OBVIOUS
<1>4. sed(all, p) = joined(Append(ss, s)) /\ sed(cfg, p) = joined(ss)
  BY Zenon, <1>3 DEF sed
<1> HIDE DEF ss, s, all
<1>5. joined(Append(ss, s)) = joined(ss) \o s /\ joined(ss) \in Seq(Names)
  BY Zenon, <1>2, JoinedAppend, JoinedType
<1> QED BY <1>4, <1>5 DEF s, all

(* The same for the reference.                                             *)
LEMMA WiredAppend ==
    ASSUME NEW cfg \in Seq(Names), NEW line \in Names, NEW P \in SUBSET Plugins
    PROVE  /\ Wired(cfg, P) \in Seq(Names)
           /\ Wired(Append(cfg, line), P) = Wired(cfg, P) \o patchedBy(line, P)
<1> DEFINE ss == [i \in DOMAIN cfg |-> patchedBy(cfg[i], P)]
           s == patchedBy(line, P)
           all == Append(cfg, line)
<1>1. \A x \in Names : patchedBy(x, P) \in Seq(Names)
  BY PatchedByType
<1>2. ss \in Seq(Seq(Names)) /\ s \in Seq(Names)
  <2>1. ss \in [DOMAIN cfg -> Seq(Names)]
    BY <1>1
  <2> HIDE DEF ss
  <2> QED BY <1>1, <2>1, Mapped
<1>3. [i \in DOMAIN all |-> patchedBy(all[i], P)] = Append(ss, s)
  OBVIOUS
<1>4. Wired(all, P) = joined(Append(ss, s)) /\ Wired(cfg, P) = joined(ss)
  BY Zenon, <1>3 DEF Wired
<1> HIDE DEF ss, s, all
<1>5. joined(Append(ss, s)) = joined(ss) \o s /\ joined(ss) \in Seq(Names)
  BY Zenon, <1>2, JoinedAppend, JoinedType
<1> QED BY <1>4, <1>5 DEF s, all

(* An empty file stays empty.                                              *)
LEMMA NoLines == /\ \A p \in Plugins : sed(<<>>, p) = <<>>
                 /\ \A P \in SUBSET Plugins : Wired(<<>>, P) = <<>>
<1>2. \A p \in Plugins : [i \in DOMAIN <<>> |-> patched(<<>>[i], p)] = <<>>
  OBVIOUS
<1>3. \A P \in SUBSET Plugins : [i \in DOMAIN <<>> |-> patchedBy(<<>>[i], P)] = <<>>
  OBVIOUS
<1> QED BY Zenon, <1>2, <1>3, JoinedEmpty DEF sed, Wired

(* sed works on each of two files as on the two together.                  *)
LEMMA SedConcat ==
    ASSUME NEW a \in Seq(Names), NEW b \in Seq(Names), NEW p \in Plugins
    PROVE  sed(a \o b, p) = sed(a, p) \o sed(b, p)
<1> DEFINE S == {x \in Seq(Names) : sed(a \o x, p) = sed(a, p) \o sed(x, p)}
<1>1. <<>> \in S
  <2>1. sed(<<>>, p) = <<>>
    BY NoLines
  <2>2. sed(a, p) \in Seq(Names)
    BY SedAppend DEF Names
  <2> QED BY <2>1, <2>2
<1>2. ASSUME NEW x \in S, NEW line \in Names PROVE Append(x, line) \in S
  <2>1. a \o Append(x, line) = Append(a \o x, line) /\ a \o x \in Seq(Names)
    OBVIOUS
  <2>2. sed(Append(a \o x, line), p) = sed(a \o x, p) \o patched(line, p)
    BY <2>1, SedAppend
  <2>3. sed(Append(x, line), p) = sed(x, p) \o patched(line, p)
    BY SedAppend
  <2>4. sed(a, p) \in Seq(Names) /\ sed(x, p) \in Seq(Names) /\ patched(line, p) \in Seq(Names)
    BY SedAppend, PatchedType
  <2>5. (sed(a, p) \o sed(x, p)) \o patched(line, p) = sed(a, p) \o (sed(x, p) \o patched(line, p))
    BY <2>4
  <2>6. sed(a \o x, p) = sed(a, p) \o sed(x, p)
    OBVIOUS
  <2>7. sed(a \o Append(x, line), p) = sed(a, p) \o sed(Append(x, line), p)
    BY Zenon, <2>1, <2>2, <2>3, <2>5, <2>6
  <2> QED BY <2>7
<1>3. S \in SUBSET Seq(Names)
  OBVIOUS
<1>4. S = Seq(Names)
  <2> HIDE DEF S
  <2> QED BY <1>1, <1>2, <1>3, SequenceInduction
<1> QED BY <1>4

(* sed on one line, and on two.                                            *)
LEMMA SedShort ==
    ASSUME NEW x \in Names, NEW y \in Names, NEW p \in Plugins
    PROVE  sed(<<x>>, p) = patched(x, p) /\ sed(<<x, y>>, p) = patched(x, p) \o patched(y, p)
<1>1. sed(<<>>, p) = <<>>
  BY NoLines
<1>2. <<>> \in Seq(Names) /\ <<x>> \in Seq(Names) /\ <<x>> = Append(<<>>, x) /\ <<x, y>> = Append(<<x>>, y)
  OBVIOUS
<1>3. patched(x, p) \in Seq(Names)
  BY PatchedType
<1>4. sed(<<x>>, p) = <<>> \o patched(x, p)
  <2>1. sed(Append(<<>>, x), p) = sed(<<>>, p) \o patched(x, p)
    BY <1>2, SedAppend
  <2> QED BY Zenon, <1>1, <1>2, <2>1
<1>5. sed(<<x, y>>, p) = sed(<<x>>, p) \o patched(y, p)
  <2>1. sed(Append(<<x>>, y), p) = sed(<<x>>, p) \o patched(y, p)
    BY <1>2, SedAppend
  <2> QED BY Zenon, <1>2, <2>1
<1>6. sed(<<x>>, p) = patched(x, p)
  BY <1>3, <1>4
<1> QED BY <1>5, <1>6

(* A line and a line are two lines.                                        *)
LEMMA TwoLines ==
    ASSUME NEW x \in Names, NEW y \in Names
    PROVE  <<x>> \o <<y>> = <<x, y>>
<1> DEFINE c == <<x>> \o <<y>>
<1>1. c \in Seq(Names) /\ Len(c) = 2 /\ c[1] = x /\ c[2] = y
  <2>1. <<x>> \in Seq(Names) /\ <<y>> \in Seq(Names) /\ Len(<<x>>) = 1 /\ Len(<<y>>) = 1
    OBVIOUS
  <2> QED BY <2>1
<1> HIDE DEF c
<1>2. c = <<x, y>>
  BY <1>1
<1> QED BY <1>2 DEF c

(* One more patch, on one line of the file.                                *)
LEMMA SedPatched ==
    ASSUME NEW line \in Names, NEW P \in SUBSET Plugins, NEW p \in Plugins \ P
    PROVE  sed(patchedBy(line, P), p) = patchedBy(line, P \cup {p})
<1> DEFINE at(Q) == {q \in Q : pluginCfgPatches[q].anchor = line}
<1>1. CASE at(P) = {}
  <2>1. patchedBy(line, P) = <<line>>
    BY <1>1 DEF patchedBy
  <2>2. sed(<<line>>, p) = patched(line, p)
    BY SedShort
  <2>3. CASE pluginCfgPatches[p].anchor = line
    <3>1. at(P \cup {p}) = {p}
      BY <1>1, <2>3
    <3>2. patchedBy(line, P \cup {p}) = patched(line, p)
      BY <3>1 DEF patchedBy
    <3> QED BY <2>1, <2>2, <3>2
  <2>4. CASE pluginCfgPatches[p].anchor # line
    <3>1. at(P \cup {p}) = {}
      BY <1>1, <2>4
    <3>2. patchedBy(line, P \cup {p}) = <<line>> /\ patched(line, p) = <<line>>
      BY <2>4, <3>1 DEF patchedBy, patched
    <3> QED BY <2>1, <2>2, <3>2
  <2> QED BY <2>3, <2>4
<1>2. CASE at(P) # {}
  <2>1. PICK q \in at(P) : TRUE
    BY <1>2
  <2>2. q \in Plugins /\ q # p /\ pluginCfgPatches[q].anchor = line
    BY <2>1
  <2>3. at(P) = {q} /\ at(P \cup {p}) = {q}
    BY <2>1, <2>2, Table
  <2>4. patchedBy(line, P) = patched(line, q) /\ patchedBy(line, P \cup {p}) = patched(line, q)
    BY <2>3 DEF patchedBy
  <2>5. pluginCfgPatches[p].anchor # line /\ pluginCfgPatches[p].anchor # q
    BY <2>2, Table
  <2>6. patched(line, p) = <<line>> /\ patched(q, p) = <<q>>
    BY <2>5 DEF patched
  <2>7. q \in Names
    BY <2>2 DEF Names
  <2>8. sed(<<q>>, p) = <<q>> /\ sed(<<line, q>>, p) = <<line, q>>
    <3>1. sed(<<q>>, p) = patched(q, p) /\ sed(<<line, q>>, p) = patched(line, p) \o patched(q, p)
      BY <2>7, SedShort
    <3>2. <<line>> \o <<q>> = <<line, q>>
      BY <2>7, TwoLines
    <3> QED BY Zenon, <2>6, <3>1, <3>2
  <2> QED BY <2>2, <2>4, <2>8 DEF patched
<1> QED BY <1>1, <1>2

(* The order of the patches does not matter: one more is as if it had been *)
(* applied with the others.                                                *)
LEMMA SedWired ==
    ASSUME NEW cfg \in Seq(Names), NEW P \in SUBSET Plugins, NEW p \in Plugins \ P
    PROVE  sed(Wired(cfg, P), p) = Wired(cfg, P \cup {p})
<1> DEFINE S == {x \in Seq(Names) : sed(Wired(x, P), p) = Wired(x, P \cup {p})}
<1>1. <<>> \in S
  <2>1. sed(<<>>, p) = <<>>
    BY NoLines
  <2>2. Wired(<<>>, P) = <<>> /\ Wired(<<>>, P \cup {p}) = <<>>
    <3>1. P \in SUBSET Plugins /\ P \cup {p} \in SUBSET Plugins
      OBVIOUS
    <3> QED BY Zenon, <3>1, NoLines
  <2> QED BY <2>1, <2>2
<1>2. ASSUME NEW x \in S, NEW line \in Names PROVE Append(x, line) \in S
  <2>1. Wired(Append(x, line), P) = Wired(x, P) \o patchedBy(line, P) /\ Wired(x, P) \in Seq(Names)
    BY WiredAppend
  <2>2. sed(Wired(x, P) \o patchedBy(line, P), p) = sed(Wired(x, P), p) \o sed(patchedBy(line, P), p)
    BY <2>1, SedConcat, PatchedByType
  <2>3. P \cup {p} \in SUBSET Plugins
    OBVIOUS
  <2>4. Wired(Append(x, line), P \cup {p}) = Wired(x, P \cup {p}) \o patchedBy(line, P \cup {p})
    BY <2>3, WiredAppend
  <2>5. sed(patchedBy(line, P), p) = patchedBy(line, P \cup {p})
    BY SedPatched
  <2>6. sed(Wired(x, P), p) = Wired(x, P \cup {p})
    OBVIOUS
  <2>7. sed(Wired(Append(x, line), P), p) = Wired(Append(x, line), P \cup {p})
    BY Zenon, <2>1, <2>2, <2>4, <2>5, <2>6
  <2> QED BY <2>7
<1>3. S \in SUBSET Seq(Names)
  OBVIOUS
<1>4. S = Seq(Names)
  <2> HIDE DEF S
  <2> QED BY <1>1, <1>2, <1>3, SequenceInduction
<1> QED BY <1>4

-----------------------------------------------------------------------------
(* src says which line of cfg each line of out comes from, in order.       *)
Sourced(cfg, P, out, src) ==
    /\ DOMAIN src = DOMAIN out
    /\ \A k \in DOMAIN out : /\ src[k] \in DOMAIN cfg
                             /\ out[k] \in Range(patchedBy(cfg[src[k]], P))
    /\ \A k, m \in DOMAIN out : k <= m => src[k] <= src[m]

(* Patching keeps the lines' order.                                        *)
LEMMA WiredSourced ==
    ASSUME NEW cfg \in Seq(Names), NEW P \in SUBSET Plugins
    PROVE  \E src : Sourced(cfg, P, Wired(cfg, P), src)
<1> DEFINE S == {x \in Seq(Names) : \E src : Sourced(x, P, Wired(x, P), src)}
<1>1. <<>> \in S
  <2>1. Wired(<<>>, P) = <<>>
    BY NoLines
  <2>2. Sourced(<<>>, P, <<>>, <<>>)
    BY DEF Sourced
  <2> QED BY <2>1, <2>2
<1>2. ASSUME NEW x \in S, NEW line \in Names PROVE Append(x, line) \in S
  <2> DEFINE out == Wired(x, P)
             more == patchedBy(line, P)
             n == Len(x) + 1
  <2>1. PICK src : Sourced(x, P, out, src)
    OBVIOUS
  <2>2. /\ Wired(Append(x, line), P) = out \o more
        /\ out \in Seq(Names) /\ more \in Seq(Names)
    BY WiredAppend, PatchedByType
  <2> DEFINE all == out \o more
             y == Append(x, line)
             new == [k \in DOMAIN all |-> IF k <= Len(out) THEN src[k] ELSE n]
  <2>3. /\ x \in Seq(Names) /\ n \in Nat \ {0} /\ y \in Seq(Names) /\ DOMAIN y = 1..n /\ y[n] = line
        /\ \A i \in DOMAIN x : i \in DOMAIN y /\ y[i] = x[i] /\ i <= n
    OBVIOUS
  <2>4. \A k \in DOMAIN all : \/ k <= Len(out) /\ k \in DOMAIN out /\ all[k] = out[k]
                              \/ ~(k <= Len(out)) /\ all[k] \in Range(more)
    <3> HIDE DEF out, more
    <3> QED BY <2>2 DEF Range
  <2>5. DOMAIN all \subseteq Nat /\ Len(out) \in Nat
    <3> HIDE DEF out, more
    <3> QED BY <2>2
  <2> HIDE DEF out, more, all, y, n
  <2>6. \A k \in DOMAIN out : src[k] \in DOMAIN x /\ out[k] \in Range(patchedBy(x[src[k]], P))
    BY <2>1 DEF Sourced
  <2>7. \A k \in DOMAIN all : new[k] \in DOMAIN y /\ all[k] \in Range(patchedBy(y[new[k]], P))
    <3> SUFFICES ASSUME NEW k \in DOMAIN all
                 PROVE  new[k] \in DOMAIN y /\ all[k] \in Range(patchedBy(y[new[k]], P))
      OBVIOUS
    <3>1. CASE k <= Len(out) /\ k \in DOMAIN out /\ all[k] = out[k]
      BY <2>3, <2>6, <3>1
    <3>2. CASE ~(k <= Len(out)) /\ all[k] \in Range(more)
      <4>1. new[k] = n /\ n \in DOMAIN y
        BY <2>3, <3>2
      <4> QED BY <2>3, <3>2, <4>1 DEF more
    <3> QED BY <2>4, <3>1, <3>2
  <2>8. ASSUME NEW k \in DOMAIN all, NEW m \in DOMAIN all, k <= m PROVE new[k] <= new[m]
    <3>1. CASE m <= Len(out)
      <4>1. k <= Len(out)
        BY <2>5, <2>8, <3>1
      <4>2. k \in DOMAIN out /\ m \in DOMAIN out /\ new[k] = src[k] /\ new[m] = src[m]
        BY <2>4, <3>1, <4>1
      <4> QED BY <2>1, <2>8, <4>2 DEF Sourced
    <3>2. CASE ~(m <= Len(out))
      <4>1. new[m] = n
        BY <3>2
      <4>2. new[k] \in DOMAIN y
        BY <2>7
      <4> QED BY <2>3, <4>1, <4>2
    <3> QED BY <3>1, <3>2
  <2>9. Sourced(y, P, all, new)
    <3>1. DOMAIN new = DOMAIN all
      OBVIOUS
    <3> HIDE DEF new
    <3> QED BY <2>7, <2>8, <3>1 DEF Sourced
  <2>10. Sourced(Append(x, line), P, Wired(Append(x, line), P), new)
    BY Zenon, <2>2, <2>9 DEF all, y
  <2> HIDE DEF new
  <2> QED BY <2>3, <2>10 DEF y
<1>3. S \in SUBSET Seq(Names)
  OBVIOUS
<1>4. S = Seq(Names)
  <2> HIDE DEF S
  <2> QED BY <1>1, <1>2, <1>3, SequenceInduction
<1> QED BY <1>4

(* What a line becomes: itself, or the plugin whose anchor it is, or both. *)
LEMMA PatchedRange ==
    ASSUME NEW line, NEW P \in SUBSET Plugins, NEW y \in Range(patchedBy(line, P))
    PROVE  y = line \/ (y \in P /\ pluginCfgPatches[y].anchor = line)
<1> DEFINE at == {p \in P : pluginCfgPatches[p].anchor = line}
<1>1. CASE at = {}
  BY <1>1 DEF patchedBy, Range
<1>2. CASE at # {}
  <2>1. PICK p : p = CHOOSE q \in at : TRUE
    OBVIOUS
  <2>2. p \in P /\ pluginCfgPatches[p].anchor = line
    BY <1>2, <2>1
  <2>3. patchedBy(line, P) = patched(line, p)
    BY <1>2, <2>1 DEF patchedBy
  <2>4. Range(patched(line, p)) \subseteq {line, p}
    BY DEF patched, Range
  <2> QED BY <2>2, <2>3, <2>4
<1> QED BY <1>1, <1>2

(* Which line of upstream's file a directive stands for.                   *)
origin(name) == IF name \in Plugins THEN pluginCfgPatches[name].anchor ELSE name

(* Directives come in the order of the lines they stand for.               *)
LEMMA WiredBefore ==
    ASSUME NEW cfg \in Stocks, NEW a, NEW b, before(cfg, origin(a), origin(b))
    PROVE  before(Wired(cfg, Plugins), a, b)
<1> DEFINE out == Wired(cfg, Plugins)
<1>1. cfg \in Seq(Names) /\ Range(cfg) \cap Plugins = {}
  BY StockAssumption DEF Names
<1>2. PICK src : Sourced(cfg, Plugins, out, src)
  BY <1>1, WiredSourced
<1>3. out \in Seq(Names)
  <2>1. "cookie" \in Names
    BY DEF Names, Plugins, pluginCfgPatches
  <2> QED BY <1>1, <2>1, WiredAppend
<1> HIDE DEF out
<1>4. ASSUME NEW k \in DOMAIN out PROVE src[k] \in DOMAIN cfg /\ cfg[src[k]] = origin(out[k])
  <2>1. src[k] \in DOMAIN cfg /\ out[k] \in Range(patchedBy(cfg[src[k]], Plugins))
    BY <1>2 DEF Sourced
  <2>2. cfg[src[k]] \notin Plugins
    BY <1>1, <2>1 DEF Range
  <2> QED BY <2>1, <2>2, PatchedRange DEF origin
<1>5. ASSUME NEW i \in DOMAIN out, NEW j \in DOMAIN out, out[i] = a, out[j] = b PROVE i < j
  <2>1. src[i] < src[j]
    BY <1>4, <1>5 DEF before
  <2>2. ~(j <= i)
    <3>1. src[i] \in Nat /\ src[j] \in Nat
      BY <1>1, <1>4
    <3> QED BY <1>2, <2>1, <3>1 DEF Sourced
  <2>3. i \in Nat /\ j \in Nat
    BY <1>3
  <2> QED BY <2>2, <2>3
<1> QED BY <1>5 DEF before, out

(* cookie, rrl, dynupdate and probe are where the table's comments want    *)
(* them.                                                                   *)
LEMMA WiredOrder ==
    ASSUME NEW cfg \in Stocks
    PROVE  LET chain == Wired(cfg, Plugins) IN
           /\ before(chain, "cookie", "cache") /\ before(chain, "cookie", "rrl")
           /\ before(chain, "dnssec", "dynupdate") /\ before(chain, "dynupdate", "file")
           /\ before(chain, "rrl", "probe")
<1>1. /\ origin("cookie") = "tsig" /\ origin("rrl") = "rewrite" /\ origin("dynupdate") = "hosts"
      /\ origin("probe") = "file" /\ origin("cache") = "cache" /\ origin("dnssec") = "dnssec"
      /\ origin("file") = "file"
  BY DEF origin, Plugins, pluginCfgPatches
<1>2. /\ before(cfg, "tsig", "cache") /\ before(cfg, "tsig", "rewrite")
      /\ before(cfg, "dnssec", "hosts") /\ before(cfg, "hosts", "file")
      /\ before(cfg, "rewrite", "file")
  BY StockAssumption
<1> QED BY Zenon, <1>1, <1>2, WiredBefore

-----------------------------------------------------------------------------
(* The last left commands of the pipeline are still to run.                *)
Remaining(left) ==
    /\ todoSteps \in Seq(Range(pipeline))
    /\ Len(todoSteps) = left
    /\ \A i \in 1..left : todoSteps[i] = pipeline[i + (7 - left)]

(* What the pipeline has established by then.                              *)
Progress(left) ==
    /\ patches # {} => left = 7
    /\ left = 7 => replaced = Own \ patches
    /\ left < 7 => imported = pluginCfg
    /\ left \in {5, 6} => replaced = Own
    /\ left = 5 => required = Plugins \ Own
    /\ left < 5 => /\ Own \cap Range(imported) \subseteq replaced /\ replaced \subseteq Own
                   /\ (Plugins \ Own) \cap Range(imported) \subseteq required
    /\ left < 4 => /\ DOMAIN binary = DOMAIN imported
                   /\ \A i \in DOMAIN binary :
                         /\ binary[i][1] = imported[i]
                         /\ binary[i][1] \in Plugins =>
                                binary[i][2] = IF binary[i][1] \in Own THEN "source" ELSE "pinned"
    /\ left < 2 /\ built # "failed" => wanted \subseteq caps
    /\ built = "shipped" => left = 0 /\ \A p \in Plugins : shows(listed(binary), p)

BuildInv ==
    /\ stock \in Stocks /\ patches \subseteq Plugins
    /\ pluginCfg = Wired(stock, Plugins \ patches)
    /\ \E left \in 0..7 : Remaining(left) /\ Progress(left)

(* A patched file is a file.                                               *)
LEMMA Cloned ==
    ASSUME NEW cfg \in Stocks
    PROVE  cfg \in Seq(Names) /\ Wired(cfg, {}) = cfg
<1>1. cfg \in Seq(Names)
  BY StockAssumption DEF Names
<1> DEFINE S == {x \in Seq(Names) : Wired(x, {}) = x}
<1>2. <<>> \in S
  BY NoLines
<1>3. ASSUME NEW x \in S, NEW line \in Names PROVE Append(x, line) \in S
  <2>1. patchedBy(line, {}) = <<line>>
    BY DEF patchedBy
  <2>2. Wired(Append(x, line), {}) = Wired(x, {}) \o patchedBy(line, {})
    BY WiredAppend
  <2>3. Wired(x, {}) = x
    OBVIOUS
  <2>4. x \o <<line>> = Append(x, line) /\ Append(x, line) \in Seq(Names)
    OBVIOUS
  <2> QED BY <2>1, <2>2, <2>3, <2>4
<1>4. S \in SUBSET Seq(Names)
  OBVIOUS
<1>5. S = Seq(Names)
  <2> HIDE DEF S
  <2> QED BY <1>2, <1>3, <1>4, SequenceInduction
<1> QED BY <1>1, <1>5

(* BuildCoredns starts from upstream's file and has run nothing.           *)
LEMMA BuildInitially == BuildInit => BuildInv
<1> SUFFICES ASSUME BuildInit PROVE BuildInv
  OBVIOUS
<1>1. Remaining(7)
  <2>1. pipeline \in Seq(Range(pipeline)) /\ Len(pipeline) = 7
    BY DEF pipeline, Range
  <2> QED BY <2>1 DEF BuildInit, Remaining
<1>2. Progress(7)
  BY DEF BuildInit, Progress, Own
<1>3. Plugins \ patches = {} /\ 7 \in 0..7
  BY DEF BuildInit
<1>4. pluginCfg = Wired(stock, Plugins \ patches)
  BY <1>3, Cloned DEF BuildInit
<1> QED BY <1>1, <1>2, <1>3, <1>4 DEF BuildInv, BuildInit

(* The next command is the one its place in the pipeline names.            *)
LEMMA NextCommand ==
    ASSUME NEW left \in 0..7, Remaining(left), NEW name, Step(name)
    PROVE  left # 0 /\ left - 1 \in 0..7 /\ pipeline[8 - left] = name /\ Remaining(left - 1)'
<1>1. left # 0 /\ todoSteps[1] = name
  BY DEF Remaining, Step
<1>2. pipeline[8 - left] = name
  BY <1>1 DEF Remaining
<1>3. Remaining(left - 1)'
  <2>1. todoSteps' \in Seq(Range(pipeline)) /\ Len(todoSteps') = left - 1
    BY <1>1 DEF Remaining, Step
  <2>2. ASSUME NEW i \in 1..(left - 1) PROVE todoSteps'[i] = pipeline[i + (7 - (left - 1))]
    <3>1. todoSteps'[i] = todoSteps[i + 1] /\ i + 1 \in 1..left
      BY <1>1 DEF Remaining, Step
    <3>2. (i + 1) + (7 - left) = i + (7 - (left - 1))
      OBVIOUS
    <3> QED BY <3>1, <3>2 DEF Remaining
  <2> QED BY <2>1, <2>2 DEF Remaining
<1> QED BY <1>1, <1>2, <1>3

(* So a command says how many are left.                                    *)
LEMMA WhichCommand ==
    ASSUME NEW left \in 1..7
    PROVE  /\ pipeline[8 - left] = "generate" => left = 7
           /\ pipeline[8 - left] = "get" => left = 6
           /\ pipeline[8 - left] = "tidy" => left = 5
           /\ pipeline[8 - left] = "build" => left = 4
           /\ pipeline[8 - left] = "setcap" => left = 3
           /\ pipeline[8 - left] = "getcap" => left = 2
           /\ pipeline[8 - left] = "smoke" => left = 1
<1>1. \/ left = 7 /\ pipeline[8 - left] = "generate"
      \/ left = 6 /\ pipeline[8 - left] = "get"
      \/ left = 5 /\ pipeline[8 - left] = "tidy"
      \/ left = 4 /\ pipeline[8 - left] = "build"
      \/ left = 3 /\ pipeline[8 - left] = "setcap"
      \/ left = 2 /\ pipeline[8 - left] = "getcap"
      \/ left = 1 /\ pipeline[8 - left] = "smoke"
  BY DEF pipeline
<1> HIDE DEF pipeline
<1> QED BY <1>1

(* A step keeps the invariant if it keeps the file as the patches made it  *)
(* and brings the pipeline to where left commands are still to run.        *)
LEMMA CommandKeeps ==
    ASSUME BuildInv, UNCHANGED <<stock, patches, pluginCfg>>, NEW left \in 0..7,
           Remaining(left)', Progress(left)'
    PROVE  BuildInv'
<1>1. stock' \in Stocks /\ patches' \subseteq Plugins /\ pluginCfg' = Wired(stock', Plugins \ patches')
  BY DEF BuildInv
<1> QED BY <1>1 DEF BuildInv

(* The commands of BuildCoredns.                                           *)
LEMMA BuildSteps ==
    ASSUME BuildInv, Generate \/ Get \/ Tidy \/ Compile
    PROVE  BuildInv'
<1>1. PICK left \in 0..7 : Remaining(left) /\ Progress(left)
  BY DEF BuildInv
<1>2. CASE Generate
  <2>1. left - 1 \in 0..7 /\ Remaining(left - 1)' /\ left = 7
    BY <1>1, <1>2, NextCommand, WhichCommand DEF Generate
  <2>2. patches = {} /\ built = "running" /\ UNCHANGED <<stock, patches, pluginCfg, replaced, built>>
        /\ imported' = pluginCfg
    BY <1>2 DEF Generate, Step
  <2>3. Progress(left - 1)'
    BY <1>1, <2>1, <2>2 DEF Progress
  <2> QED BY <2>1, <2>2, <2>3, CommandKeeps
<1>3. CASE Get
  <2>1. left - 1 \in 0..7 /\ Remaining(left - 1)' /\ left = 6
    BY <1>1, <1>3, NextCommand, WhichCommand DEF Get
  <2>2. patches = {} /\ built = "running" /\ UNCHANGED <<stock, patches, pluginCfg, replaced, imported, built>>
        /\ required' = Plugins \ Own
    BY <1>3 DEF Get, Step
  <2>3. Progress(left - 1)'
    BY <1>1, <2>1, <2>2 DEF Progress
  <2> QED BY <2>1, <2>2, <2>3, CommandKeeps
<1>4. CASE Tidy
  <2>1. left - 1 \in 0..7 /\ Remaining(left - 1)' /\ left = 5
    BY <1>1, <1>4, NextCommand, WhichCommand DEF Tidy
  <2>2. patches = {} /\ built = "running" /\ UNCHANGED <<stock, patches, pluginCfg, imported, built>>
        /\ replaced' = replaced \cap Range(imported) /\ required' = required \cap Range(imported)
    BY <1>4 DEF Tidy, Step
  <2>3. Progress(left - 1)'
    BY <1>1, <2>1, <2>2 DEF Progress
  <2> QED BY <2>1, <2>2, <2>3, CommandKeeps
<1>5. CASE Compile
  <2>1. left - 1 \in 0..7 /\ Remaining(left - 1)' /\ left = 4
    BY <1>1, <1>5, NextCommand, WhichCommand DEF Compile
  <2>2. patches = {} /\ built = "running" /\ UNCHANGED <<stock, patches, pluginCfg, replaced, required, imported, built>>
    BY <1>5 DEF Compile, Step
  <2>3. /\ Own \cap Range(imported) \subseteq replaced /\ replaced \subseteq Own
        /\ (Plugins \ Own) \cap Range(imported) \subseteq required /\ imported = pluginCfg
    BY <1>1, <2>1 DEF Progress
  <2>4. DOMAIN binary' = DOMAIN imported
    BY <1>5 DEF Compile
  <2>5. ASSUME NEW i \in DOMAIN imported
        PROVE  /\ binary'[i][1] = imported[i]
               /\ imported[i] \in Plugins =>
                      binary'[i][2] = IF imported[i] \in Own THEN "source" ELSE "pinned"
    <3>1. imported[i] \in Range(imported)
      BY DEF Range
    <3>2. binary'[i] = <<imported[i],
                         IF imported[i] \in replaced THEN "source"
                         ELSE IF imported[i] \in required THEN "pinned"
                         ELSE IF imported[i] \in Plugins THEN "floating"
                         ELSE "upstream">>
      BY <1>5 DEF Compile
    <3> QED BY <2>3, <3>1, <3>2
  <2>6. Progress(left - 1)'
    BY <2>1, <2>2, <2>3, <2>4, <2>5 DEF Progress
  <2> QED BY <2>1, <2>2, <2>6, CommandKeeps
<1> QED BY <1>2, <1>3, <1>4, <1>5

(* The capabilities, and the smoke test of Containerize.                   *)
LEMMA ContainerSteps ==
    ASSUME BuildInv, Setcap \/ Getcap \/ Smoke
    PROVE  BuildInv'
<1>1. PICK left \in 0..7 : Remaining(left) /\ Progress(left)
  BY DEF BuildInv
<1>2. CASE Setcap
  <2>1. left - 1 \in 0..7 /\ Remaining(left - 1)' /\ left = 3
    BY <1>1, <1>2, NextCommand, WhichCommand DEF Setcap
  <2>2. patches = {} /\ built = "running"
        /\ UNCHANGED <<stock, patches, pluginCfg, replaced, required, imported, binary, built>>
    BY <1>2 DEF Setcap, Step
  <2>3. Progress(left - 1)'
    BY <1>1, <2>1, <2>2 DEF Progress
  <2> QED BY <2>1, <2>2, <2>3, CommandKeeps
<1>3. CASE Getcap
  <2>1. left - 1 \in 0..7 /\ Remaining(left - 1)' /\ left = 2
    BY <1>1, <1>3, NextCommand, WhichCommand DEF Getcap
  <2>2. patches = {} /\ built = "running"
        /\ UNCHANGED <<stock, patches, pluginCfg, replaced, required, imported, binary, caps>>
        /\ built' = IF wanted \subseteq caps THEN built ELSE "failed"
    BY <1>3 DEF Getcap, Step
  <2>3. Progress(left - 1)'
    BY <1>1, <2>1, <2>2 DEF Progress
  <2> QED BY <2>1, <2>2, <2>3, CommandKeeps
<1>4. CASE Smoke
  <2>1. left - 1 \in 0..7 /\ Remaining(left - 1)' /\ left = 1
    BY <1>1, <1>4, NextCommand, WhichCommand DEF Smoke
  <2>2. patches = {} /\ built = "running"
        /\ UNCHANGED <<stock, patches, pluginCfg, replaced, required, imported, binary, caps>>
        /\ built' = IF \A p \in Plugins : shows(listed(binary), p) THEN "shipped" ELSE "failed"
    BY <1>4 DEF Smoke, Step
  <2>3. listed(binary)' = listed(binary)
    BY <2>2 DEF listed
  <2>4. Progress(left - 1)'
    BY <1>1, <2>1, <2>2, <2>3 DEF Progress
  <2> QED BY <2>1, <2>2, <2>4, CommandKeeps
<1> QED BY <1>2, <1>3, <1>4

(* Every step of the pipeline keeps the invariant.                         *)
LEMMA BuildStepKeeps == BuildInv /\ [BuildNext]_buildVars => BuildInv'
<1> SUFFICES ASSUME BuildInv, [BuildNext]_buildVars PROVE BuildInv'
  OBVIOUS
<1>1. PICK left \in 0..7 : Remaining(left) /\ Progress(left)
  BY DEF BuildInv
<1>2. ASSUME NEW p \in Plugins, Patch(p) PROVE BuildInv'
  <2>1. /\ p \in patches /\ patches' = patches \ {p} /\ pluginCfg' = sed(pluginCfg, p)
        /\ replaced' = (IF p \in Own THEN replaced \cup {p} ELSE replaced) /\ built = "running"
        /\ UNCHANGED <<stock, todoSteps, built>>
    BY <1>2 DEF Patch
  <2>2. left = 7
    BY <1>1, <2>1 DEF Progress
  <2>3. Remaining(left)'
    BY Zenon, <1>1, <2>1 DEF Remaining
  <2>4. Progress(left)'
    <3>1. replaced' = Own \ patches'
      BY <1>1, <2>1, <2>2 DEF Progress
    <3>2. ~(left < 7) /\ left \notin {5, 6} /\ left # 5 /\ ~(left < 5) /\ ~(left < 4) /\ ~(left < 2)
      BY <2>2
    <3>3. built' # "shipped"
      BY <2>1
    <3> QED BY Zenon, <2>2, <3>1, <3>2, <3>3 DEF Progress
  <2>5. pluginCfg' = Wired(stock, Plugins \ patches')
    <3>1. stock \in Seq(Names) /\ pluginCfg = Wired(stock, Plugins \ patches) /\ patches \subseteq Plugins
      BY Cloned DEF BuildInv
    <3>2. p \in Plugins \ (Plugins \ patches) /\ Plugins \ patches' = (Plugins \ patches) \cup {p}
      BY <2>1, <3>1
    <3>3. sed(Wired(stock, Plugins \ patches), p) = Wired(stock, (Plugins \ patches) \cup {p})
      BY <3>1, <3>2, SedWired
    <3> QED BY <2>1, <3>1, <3>2, <3>3
  <2> QED BY <2>1, <2>3, <2>4, <2>5 DEF BuildInv
<1>3. CASE CommandFails
  <2>1. /\ UNCHANGED <<pluginCfg, stock, patches, replaced, required, imported, binary, caps, todoSteps>>
        /\ built' = "failed"
    BY <1>3 DEF CommandFails
  <2>2. Remaining(left)' /\ Progress(left)'
    BY <1>1, <2>1 DEF Remaining, Progress
  <2> QED BY <2>1, <2>2, CommandKeeps
<1>4. CASE UNCHANGED buildVars
  <2>1. UNCHANGED <<pluginCfg, stock, patches, replaced, required, imported, binary, caps, todoSteps, built>>
    BY <1>4 DEF buildVars
  <2>2. Remaining(left)'
    BY Zenon, <1>1, <2>1 DEF Remaining
  <2>3. listed(binary)' = listed(binary)
    BY <2>1 DEF listed
  <2>4. Progress(left)'
    BY <1>1, <2>1, <2>3 DEF Progress
  <2> QED BY <2>1, <2>2, <2>4, CommandKeeps
<1> QED BY <1>2, <1>3, <1>4, BuildSteps, ContainerSteps DEF BuildNext

(* The pipeline is where its commands say it is.                           *)
THEOREM BuildInvariant == BuildSpec => []BuildInv
BY BuildInitially, BuildStepKeeps, PTL DEF BuildSpec

(* What ships has every plugin that the smoke test cannot take another for,*)
(* from its right source, with the capabilities, in the one order of the   *)
(* table, whatever upstream's plugin.cfg holds and whatever order the      *)
(* patches were applied in.                                                *)
THEOREM AlwaysShippedWired == BuildSpec => []ShippedIsWired
<1>1. BuildInv => ShippedIsWired
  <2> SUFFICES ASSUME BuildInv, built = "shipped" PROVE ShippedIsWired
    BY DEF ShippedIsWired
  <2> DEFINE chain == [i \in DOMAIN binary |-> binary[i][1]]
  <2>1. Progress(0) /\ patches = {}
    <3>1. PICK left \in 0..7 : Progress(left)
      BY DEF BuildInv
    <3>2. left = 0 /\ patches = {}
      BY <3>1 DEF Progress
    <3> QED BY <3>1, <3>2
  <2>2. stock \in Stocks /\ pluginCfg = Wired(stock, Plugins)
    BY <2>1 DEF BuildInv
  <2>3. Wired(stock, Plugins) \in Seq(Names)
    <3>1. "cookie" \in Names
      BY DEF Names, Plugins, pluginCfgPatches
    <3> QED BY <2>2, <3>1, Cloned, WiredAppend
  <2>4. /\ DOMAIN binary = DOMAIN imported /\ imported = pluginCfg
        /\ \A i \in DOMAIN binary :
              /\ binary[i][1] = imported[i]
              /\ binary[i][1] \in Plugins =>
                     binary[i][2] = IF binary[i][1] \in Own THEN "source" ELSE "pinned"
        /\ wanted \subseteq caps /\ \A p \in Plugins : shows(listed(binary), p)
    BY <2>1 DEF Progress
  <2>5. chain = Wired(stock, Plugins)
    BY <2>2, <2>3, <2>4
  <2>6. Range(chain) = listed(binary)
    BY DEF Range, listed
  <2> HIDE DEF chain
  <2>8. \A p \in Plugins : p \in Range(chain) \/ Range(chain) \cap nameWithin[p] # {}
    BY <2>4, <2>6 DEF shows
  <2>7. /\ before(chain, "cookie", "cache") /\ before(chain, "cookie", "rrl")
        /\ before(chain, "dnssec", "dynupdate") /\ before(chain, "dynupdate", "file")
        /\ before(chain, "rrl", "probe")
    BY Zenon, <2>2, <2>5, WiredOrder
  <2> QED BY Zenon, <2>4, <2>5, <2>7, <2>8 DEF ShippedIsWired, chain
<1> QED BY <1>1, BuildInvariant, PTL

-----------------------------------------------------------------------------
(***************************************************************************)
(* ProbeSetup, for every set of blocks and of fully qualified names.       *)
(***************************************************************************)

(* f[k] is what has been read of a name after k characters, up to n.       *)
Reads(name, n, f) ==
    /\ DOMAIN f = 0..n
    /\ f[0] = unread
    /\ \A k \in 1..n : f[k] = scanned(f[k - 1], name[k])

(* dns.Split can read a name character by character.                       *)
LEMMA ReadsExists ==
    ASSUME NEW name, NEW n \in Nat
    PROVE  \E f : Reads(name, n, f)
<1> DEFINE good == {k \in Nat : \E f : Reads(name, k, f)}
<1>1. 0 \in good
  <2>1. Reads(name, 0, [k \in 0..0 |-> unread])
    BY DEF Reads
  <2> QED BY <2>1
<1>2. ASSUME NEW k \in Nat, NEW f, Reads(name, k, f)
      PROVE  \E g : Reads(name, k + 1, g)
  <2> DEFINE c == scanned(f[k], name[k + 1])
  <2> HIDE DEF c
  <2>0. PICK g : Continues(g, f, k, c)
    BY Zenon, Continued
  <2>1. DOMAIN g = 0..(k + 1) /\ g[k + 1] = c /\ \A i \in 0..k : g[i] = f[i]
    BY <2>0 DEF Continues
  <2>2. g[0] = unread
    BY <1>2, <2>1 DEF Reads
  <2>3. ASSUME NEW i \in 1..(k + 1) PROVE g[i] = scanned(g[i - 1], name[i])
    <3>1. CASE i = k + 1
      <4>1. g[i - 1] = f[k]
        BY <2>1, <3>1
      <4> QED BY Zenon, <2>1, <3>1, <4>1 DEF c
    <3>2. CASE i # k + 1
      <4>1. i \in 1..k /\ g[i] = f[i] /\ g[i - 1] = f[i - 1]
        BY <2>1, <3>2
      <4>2. f[i] = scanned(f[i - 1], name[i])
        BY Zenon, <1>2, <4>1 DEF Reads
      <4> QED BY Zenon, <4>1, <4>2
    <3> QED BY <3>1, <3>2
  <2> QED BY Zenon, <2>1, <2>2, <2>3 DEF Reads
<1>3. ASSUME NEW k \in good PROVE k + 1 \in good
  BY <1>2
<1>4. good \in SUBSET Nat
  OBVIOUS
<1>5. good = Nat
  <2> HIDE DEF good
  <2> QED BY <1>1, <1>3, <1>4, NumberInduction
<1> QED BY <1>5

(* It reads a name in one way.                                             *)
LEMMA ReadsUnique ==
    ASSUME NEW name, NEW n \in Nat, NEW f, Reads(name, n, f), NEW m \in Nat, m <= n,
           NEW g, Reads(name, m, g)
    PROVE  f[m] = g[m]
<1> DEFINE bad == {k \in 0..m : f[k] # g[k]}
<1> SUFFICES ASSUME bad # {} PROVE FALSE
  OBVIOUS
<1>1. bad \in SUBSET Nat
  OBVIOUS
<1>2. PICK k \in bad : \A y \in bad : k <= y
  <2> HIDE DEF bad
  <2> QED BY Zenon, <1>1, LeastNumber
<1>3. f[0] = g[0]
  BY Zenon DEF Reads
<1>4. k \in 1..m /\ k - 1 \in 0..m /\ k - 1 \notin bad /\ k \in 1..n
  BY <1>2, <1>3
<1>5. f[k] = scanned(f[k - 1], name[k]) /\ g[k] = scanned(g[k - 1], name[k])
  BY Zenon, <1>4 DEF Reads
<1>6. f[k - 1] = g[k - 1] /\ f[k] # g[k]
  BY <1>2, <1>4
<1> QED BY Zenon, <1>5, <1>6

(* scan is where that ends.                                                *)
LEMMA ScanReads ==
    ASSUME NEW name, Len(name) \in Nat, NEW f, Reads(name, Len(name), f)
    PROVE  scan(name) = f[Len(name)]
<1> DEFINE n == Len(name)
           step(g) == [i \in 0..n |-> IF i = 0 THEN unread ELSE scanned(g[i - 1], name[i])]
           g == CHOOSE h : h = step(h)
<1>0. n \in Nat
  OBVIOUS
<1>1. scan(name) = g[n]
  BY Zenon DEF scan
<1>2. \A i \in 0..n : i = 0 \/ i \in 1..n
  BY <1>0
<1>3. g = step(g)
  <2> DEFINE h == [i \in 0..n |-> f[i]]
  <2>1. ASSUME NEW i \in 0..n PROVE f[i] = IF i = 0 THEN unread ELSE scanned(h[i - 1], name[i])
    <3>1. CASE i = 0
      BY Zenon, <3>1 DEF Reads
    <3>2. CASE i \in 1..n
      <4>1. h[i - 1] = f[i - 1] /\ i # 0
        BY <1>0, <3>2
      <4>2. f[i] = scanned(f[i - 1], name[i])
        BY Zenon, <3>2 DEF Reads
      <4> QED BY Zenon, <4>1, <4>2
    <3> QED BY Zenon, <1>2, <3>1, <3>2
  <2>2. h = step(h)
    BY Zenon, <2>1
  <2> HIDE DEF h, step
  <2> QED BY Zenon, <2>2
<1>4. \A i \in 1..n : i \in 0..n /\ i # 0
  BY <1>0
<1>5. Reads(name, n, g)
  <2>1. DOMAIN g = 0..n
    <3>1. DOMAIN step(g) = 0..n
      BY Zenon
    <3> HIDE DEF g, step
    <3> QED BY Zenon, <1>3, <3>1
  <2>2. ASSUME NEW i \in 0..n PROVE g[i] = IF i = 0 THEN unread ELSE scanned(g[i - 1], name[i])
    <3>1. step(g)[i] = IF i = 0 THEN unread ELSE scanned(g[i - 1], name[i])
      BY Zenon
    <3> HIDE DEF g, step
    <3> QED BY Zenon, <1>3, <3>1
  <2> HIDE DEF g, step
  <2>3. 0 \in 0..n
    BY <1>0
  <2>4. g[0] = unread
    BY Zenon, <2>2, <2>3
  <2>5. ASSUME NEW i \in 1..n PROVE g[i] = scanned(g[i - 1], name[i])
    BY Zenon, <1>4, <2>2
  <2> QED BY Zenon, <2>1, <2>4, <2>5 DEF Reads
<1> HIDE DEF g
<1>6. n <= n /\ Reads(name, n, f)
  BY <1>0
<1> HIDE DEF n
<1>7. f[n] = g[n]
  BY <1>0, <1>5, <1>6, ReadsUnique
<1> QED BY Zenon, <1>1, <1>7 DEF n

(* scan of no character, and of one more.                                  *)
LEMMA ScanAppend ==
    /\ scan(<<>>) = unread
    /\ \A name \in Seq(Octet), c \in Octet : scan(Append(name, c)) = scanned(scan(name), c)
<1>1. scan(<<>>) = unread
  <2>1. Len(<<>>) = 0 /\ 0 \in Nat
    OBVIOUS
  <2>2. PICK f : Reads(<<>>, 0, f)
    BY Zenon, <2>1, ReadsExists
  <2>3. scan(<<>>) = f[0]
    BY Zenon, <2>1, <2>2, ScanReads
  <2> QED BY Zenon, <2>2, <2>3 DEF Reads
<1>2. ASSUME NEW name \in Seq(Octet), NEW c \in Octet
      PROVE  scan(Append(name, c)) = scanned(scan(name), c)
  <2> DEFINE n == Len(name)
             all == Append(name, c)
  <2>1. /\ n \in Nat /\ n + 1 \in Nat /\ n <= n + 1 /\ (n + 1) - 1 = n /\ Len(all) = n + 1
        /\ all[n + 1] = c /\ n + 1 \in 1..(n + 1)
        /\ \A k \in 1..n : all[k] = name[k]
    OBVIOUS
  <2> HIDE DEF all
  <2>2. PICK f : Reads(all, n + 1, f)
    BY Zenon, <2>1, ReadsExists
  <2>3. PICK g : Reads(name, n, g)
    BY Zenon, <2>1, ReadsExists
  <2>4. scan(all) = f[n + 1]
    BY Zenon, <2>1, <2>2, ScanReads
  <2>5. scan(name) = g[n]
    BY Zenon, <2>1, <2>3, ScanReads
  <2>6. Reads(all, n, g)
    BY Zenon, <2>1, <2>3 DEF Reads
  <2>7. f[n] = g[n]
    BY <2>1, <2>2, <2>6, ReadsUnique
  <2>8. f[n + 1] = scanned(f[(n + 1) - 1], all[n + 1])
    BY Zenon, <2>1, <2>2 DEF Reads
  <2> QED BY Zenon, <2>1, <2>4, <2>5, <2>7, <2>8 DEF all
<1> QED BY <1>1, <1>2

(* What dns.Split has read of a name.                                      *)
Scanned == [labels : Seq(Seq(Octet)), label : Seq(Octet), escaped : BOOLEAN]

(* Labels and escapes are kept as they are read.                           *)
LEMMA ScanType ==
    ASSUME NEW name \in Seq(Octet)
    PROVE  scan(name) \in Scanned
<1> DEFINE S == {x \in Seq(Octet) : scan(x) \in Scanned}
<1>1. <<>> \in S
  <2>1. unread \in Scanned
    BY DEF unread, Scanned
  <2>2. <<>> \in Seq(Octet)
    OBVIOUS
  <2> QED BY Zenon, <2>1, <2>2, ScanAppend
<1>2. ASSUME NEW x \in S, NEW c \in Octet PROVE Append(x, c) \in S
  <2>1. scan(Append(x, c)) = scanned(scan(x), c)
    BY Zenon, ScanAppend
  <2>2. ASSUME NEW s \in Scanned PROVE scanned(s, c) \in Scanned
    <3>1. CASE s.escaped \/ c # Dot
      <4>1. scanned(s, c) = [labels |-> s.labels, label |-> Append(s.label, c), escaped |-> (c = Escape /\ ~s.escaped)]
        BY <3>1 DEF scanned, Scanned
      <4> QED BY <4>1 DEF Scanned
    <3>2. CASE ~(s.escaped \/ c # Dot)
      BY <3>2 DEF scanned, Scanned
    <3> QED BY <3>1, <3>2
  <2>3. Append(x, c) \in Seq(Octet)
    OBVIOUS
  <2> QED BY Zenon, <2>1, <2>2, <2>3
<1>3. S \in SUBSET Seq(Octet)
  OBVIOUS
<1>4. S = Seq(Octet)
  <2> HIDE DEF S
  <2> QED BY <1>1, <1>2, <1>3, SequenceInduction
<1> QED BY <1>4

(* The next character, field by field.                                     *)
LEMMA ScanNext ==
    ASSUME NEW name \in Seq(Octet), NEW c \in Octet
    PROVE  LET s == scan(name)
               t == scan(Append(name, c))
           IN  IF s.escaped \/ c # Dot
               THEN t.labels = s.labels /\ t.label = Append(s.label, c) /\ (t.escaped <=> (c = Escape /\ ~s.escaped))
               ELSE t.labels = Append(s.labels, s.label) /\ t.label = <<>> /\ ~t.escaped
<1> DEFINE s == scan(name)
           t == scan(Append(name, c))
<1>1. t = scanned(s, c) /\ s \in Scanned
  BY Zenon, ScanAppend, ScanType
<1> HIDE DEF s, t
<1>2. CASE s.escaped \/ c # Dot
  <2>1. t = [labels |-> s.labels, label |-> Append(s.label, c), escaped |-> (c = Escape /\ ~s.escaped)]
    BY <1>1, <1>2 DEF scanned, Scanned
  <2>2. t.labels = s.labels /\ t.label = Append(s.label, c) /\ (t.escaped <=> (c = Escape /\ ~s.escaped))
    BY Zenon, <2>1
  <2> QED BY Zenon, <1>2, <2>2 DEF s, t
<1>3. CASE ~(s.escaped \/ c # Dot)
  <2>1. t = [labels |-> Append(s.labels, s.label), label |-> <<>>, escaped |-> FALSE]
    BY Zenon, <1>1, <1>3 DEF scanned
  <2>2. t.labels = Append(s.labels, s.label) /\ t.label = <<>> /\ ~t.escaped
    BY Zenon, <2>1
  <2> QED BY Zenon, <1>3, <2>2 DEF s, t
<1> QED BY Zenon, <1>2, <1>3

(* An element more at the end of two sequences.                            *)
LEMMA ConcatAppend ==
    /\ \A s, t \in Seq(Octet), x \in Octet : s \o Append(t, x) = Append(s \o t, x)
    /\ \A s, t \in Seq(Seq(Octet)), x \in Seq(Octet) : s \o Append(t, x) = Append(s \o t, x)
<1>1. ASSUME NEW s \in Seq(Octet), NEW t \in Seq(Octet), NEW x \in Octet
      PROVE  s \o Append(t, x) = Append(s \o t, x)
  OBVIOUS
<1>2. ASSUME NEW s \in Seq(Seq(Octet)), NEW t \in Seq(Seq(Octet)), NEW x \in Seq(Octet)
      PROVE  s \o Append(t, x) = Append(s \o t, x)
  OBVIOUS
<1> QED BY Zenon, <1>1, <1>2

(* The presentation form of labels: a dot after each.                      *)
text(labels) == joined([i \in DOMAIN labels |-> Append(labels[i], Dot)])

(* One more label.                                                         *)
LEMMA TextAppend ==
    ASSUME NEW labels \in Seq(Seq(Octet)), NEW label \in Seq(Octet)
    PROVE  /\ text(<<>>) = <<>> /\ text(labels) \in Seq(Octet)
           /\ text(Append(labels, label)) = text(labels) \o Append(label, Dot)
<1> DEFINE ss == [i \in DOMAIN labels |-> Append(labels[i], Dot)]
           s == Append(label, Dot)
           all == Append(labels, label)
<1>0. text(<<>>) = <<>>
  <2>1. [i \in DOMAIN <<>> |-> Append(<<>>[i], Dot)] = <<>>
    OBVIOUS
  <2> QED BY Zenon, <2>1, JoinedEmpty DEF text
<1>1. \A x \in Seq(Octet) : Append(x, Dot) \in Seq(Octet)
  BY SetupAssumption
<1>2. ss \in Seq(Seq(Octet)) /\ s \in Seq(Octet)
  <2>1. ss \in [DOMAIN labels -> Seq(Octet)]
    BY <1>1
  <2> HIDE DEF ss
  <2> QED BY <1>1, <2>1, Mapped
<1>3. [i \in DOMAIN all |-> Append(all[i], Dot)] = Append(ss, s)
  OBVIOUS
<1>4. text(all) = joined(Append(ss, s)) /\ text(labels) = joined(ss)
  BY Zenon, <1>3 DEF text
<1> HIDE DEF ss, s, all
<1>5. joined(Append(ss, s)) = joined(ss) \o s /\ joined(ss) \in Seq(Octet)
  BY Zenon, <1>2, JoinedAppend, JoinedType
<1> QED BY <1>0, <1>4, <1>5 DEF s, all

(* What dns.Split has read so far is the name so far.                      *)
LEMMA ScanText ==
    ASSUME NEW name \in Seq(Octet)
    PROVE  text(scan(name).labels) \o scan(name).label = name
<1> DEFINE S == {x \in Seq(Octet) : text(scan(x).labels) \o scan(x).label = x}
<1>1. <<>> \in S
  <2>1. text(<<>>) = <<>>
    <3>1. <<>> \in Seq(Seq(Octet)) /\ <<>> \in Seq(Octet)
      OBVIOUS
    <3> QED BY Zenon, <3>1, TextAppend
  <2>2. scan(<<>>).labels = <<>> /\ scan(<<>>).label = <<>>
    <3>1. scan(<<>>) = unread
      BY Zenon, ScanAppend
    <3> QED BY <3>1 DEF unread
  <2>3. <<>> \o <<>> = <<>> /\ <<>> \in Seq(Octet)
    OBVIOUS
  <2> QED BY Zenon, <2>1, <2>2, <2>3
<1>2. ASSUME NEW x \in S, NEW c \in Octet PROVE Append(x, c) \in S
  <2> DEFINE s == scan(x)
             t == scan(Append(x, c))
  <2>1. /\ IF s.escaped \/ c # Dot THEN t.labels = s.labels /\ t.label = Append(s.label, c)
           ELSE t.labels = Append(s.labels, s.label) /\ t.label = <<>> /\ c = Dot
        /\ x \in Seq(Octet) /\ text(s.labels) \o s.label = x
    BY ScanNext
  <2>2. s.labels \in Seq(Seq(Octet)) /\ s.label \in Seq(Octet)
    BY ScanType DEF Scanned
  <2> HIDE DEF s, t
  <2>3. /\ text(s.labels) \in Seq(Octet)
        /\ text(Append(s.labels, s.label)) = text(s.labels) \o Append(s.label, Dot)
    BY Zenon, <2>2, TextAppend
  <2>4. text(t.labels) \o t.label = text(s.labels) \o Append(s.label, c)
    <3>1. CASE s.escaped \/ c # Dot
      BY Zenon, <2>1, <3>1
    <3>2. CASE ~(s.escaped \/ c # Dot)
      <4>1. text(t.labels) = text(s.labels) \o Append(s.label, Dot) /\ t.label = <<>> /\ c = Dot
        BY Zenon, <2>1, <2>3, <3>2
      <4>2. text(s.labels) \o Append(s.label, c) \in Seq(Octet)
        BY <2>2, <2>3
      <4>3. \A y \in Seq(Octet) : y \o <<>> = y
        OBVIOUS
      <4> QED BY Zenon, <4>1, <4>2, <4>3
    <3> QED BY <3>1, <3>2
  <2>5. text(s.labels) \o Append(s.label, c) = Append(text(s.labels) \o s.label, c)
    BY Zenon, <2>2, <2>3, ConcatAppend
  <2>6. text(t.labels) \o t.label = Append(x, c)
    BY Zenon, <2>1, <2>4, <2>5
  <2>7. Append(x, c) \in Seq(Octet)
    BY <2>1
  <2> QED BY Zenon, <2>6, <2>7 DEF t
<1>3. S \in SUBSET Seq(Octet)
  OBVIOUS
<1>4. S = Seq(Octet)
  <2> HIDE DEF S
  <2> QED BY <1>1, <1>2, <1>3, SequenceInduction
<1> QED BY <1>4

(* The name ends where a label does.                                       *)
Whole(name) == scan(name).label = <<>> /\ ~scan(name).escaped

(* After a whole label, what follows is read as on its own.                *)
LEMMA ScanConcat ==
    ASSUME NEW u \in Seq(Octet), Whole(u), NEW w \in Seq(Octet)
    PROVE  /\ scan(u \o w).labels = scan(u).labels \o scan(w).labels
           /\ scan(u \o w).label = scan(w).label
           /\ scan(u \o w).escaped <=> scan(w).escaped
<1> DEFINE P(x) == /\ scan(u \o x).labels = scan(u).labels \o scan(x).labels
                   /\ scan(u \o x).label = scan(x).label
                   /\ scan(u \o x).escaped <=> scan(x).escaped
           S == {x \in Seq(Octet) : P(x)}
<1>0. \A x \in Seq(Octet) : /\ scan(x).labels \in Seq(Seq(Octet)) /\ scan(x).label \in Seq(Octet)
                            /\ scan(x).escaped \in BOOLEAN
  BY ScanType DEF Scanned
<1>1. <<>> \in S
  <2>1. u \o <<>> = u /\ <<>> \in Seq(Octet)
    OBVIOUS
  <2>2. scan(<<>>).labels = <<>> /\ scan(<<>>).label = <<>> /\ ~scan(<<>>).escaped
    <3>1. scan(<<>>) = unread
      BY Zenon, ScanAppend
    <3> QED BY <3>1 DEF unread
  <2>3. \A y \in Seq(Seq(Octet)) : y \o <<>> = y
    OBVIOUS
  <2> QED BY Zenon, <1>0, <2>1, <2>2, <2>3 DEF Whole
<1>2. ASSUME NEW x \in S, NEW c \in Octet PROVE Append(x, c) \in S
  <2> DEFINE s == scan(x)
             t == scan(Append(x, c))
             us == scan(u \o x)
             ut == scan(Append(u \o x, c))
  <2>0. x \in Seq(Octet) /\ P(x) /\ u \o x \in Seq(Octet)
    <3>1. x \in Seq(Octet) /\ P(x)
      BY Zenon
    <3> QED BY <3>1
  <2>1. /\ u \o Append(x, c) = Append(u \o x, c)
        /\ Append(x, c) \in Seq(Octet) /\ Append(u \o x, c) \in Seq(Octet)
    BY <2>0
  <2>2. /\ s.labels \in Seq(Seq(Octet)) /\ s.label \in Seq(Octet) /\ scan(u).labels \in Seq(Seq(Octet))
        /\ t.escaped \in BOOLEAN /\ ut.escaped \in BOOLEAN
    BY Zenon, <1>0, <2>0, <2>1
  <2>3. IF s.escaped \/ c # Dot
        THEN t.labels = s.labels /\ t.label = Append(s.label, c) /\ (t.escaped <=> (c = Escape /\ ~s.escaped))
        ELSE t.labels = Append(s.labels, s.label) /\ t.label = <<>> /\ ~t.escaped
    BY Zenon, <2>0, ScanNext
  <2>4. IF us.escaped \/ c # Dot
        THEN ut.labels = us.labels /\ ut.label = Append(us.label, c) /\ (ut.escaped <=> (c = Escape /\ ~us.escaped))
        ELSE ut.labels = Append(us.labels, us.label) /\ ut.label = <<>> /\ ~ut.escaped
    BY Zenon, <2>0, ScanNext
  <2>5. us.labels = scan(u).labels \o s.labels /\ us.label = s.label /\ (us.escaped <=> s.escaped)
    BY Zenon, <2>0
  <2> HIDE DEF s, t, us, ut, P
  <2>6. ut.labels = scan(u).labels \o t.labels /\ ut.label = t.label /\ (ut.escaped <=> t.escaped)
    <3>1. CASE s.escaped \/ c # Dot
      BY Zenon, <2>3, <2>4, <2>5, <3>1
    <3>2. CASE ~(s.escaped \/ c # Dot)
      <4>2. scan(u).labels \o Append(s.labels, s.label) = Append(scan(u).labels \o s.labels, s.label)
        BY Zenon, <2>2, ConcatAppend
      <4> QED BY Zenon, <2>3, <2>4, <2>5, <3>2, <4>2
    <3> QED BY <3>1, <3>2
  <2>7. P(Append(x, c))
    BY Zenon, <2>1, <2>6 DEF P, t, ut
  <2> QED BY Zenon, <2>1, <2>7
<1>3. S \in SUBSET Seq(Octet)
  OBVIOUS
<1>4. S = Seq(Octet)
  <2> HIDE DEF S
  <2> QED BY <1>1, <1>2, <1>3, SequenceInduction
<1>5. w \in S
  BY Zenon, <1>4
<1> QED BY Zenon, <1>5

(* Octets joined left to right or right to left are the same text, as      *)
(* strings.Join's are.                                                     *)
LEMMA JoinedEitherWay ==
  \A p, q, r \in Seq(Octet) : (p \o q) \o r = p \o (q \o r)
<1> SUFFICES ASSUME NEW p \in Seq(Octet), NEW q \in Seq(Octet), NEW r \in Seq(Octet)
             PROVE  (p \o q) \o r = p \o (q \o r)
  OBVIOUS
<1> QED BY SMTT(30)

(* The labels of two names, one after the other.                           *)
LEMMA TextConcat ==
    ASSUME NEW a \in Seq(Seq(Octet)), NEW b \in Seq(Seq(Octet))
    PROVE  text(a \o b) = text(a) \o text(b)
<1> DEFINE S == {x \in Seq(Seq(Octet)) : text(a \o x) = text(a) \o text(x)}
<1>1. <<>> \in S
  <2>1. text(<<>>) = <<>> /\ text(a) \in Seq(Octet)
    <3>1. <<>> \in Seq(Octet)
      OBVIOUS
    <3> QED BY Zenon, <3>1, TextAppend
  <2>2. text(a) \o <<>> = text(a) /\ a \o <<>> = a /\ <<>> \in Seq(Seq(Octet))
    BY <2>1
  <2> QED BY Zenon, <2>1, <2>2
<1>2. ASSUME NEW x \in S, NEW l \in Seq(Octet) PROVE Append(x, l) \in S
  <2>0. x \in Seq(Seq(Octet)) /\ text(a \o x) = text(a) \o text(x)
    OBVIOUS
  <2>1. a \o Append(x, l) = Append(a \o x, l) /\ a \o x \in Seq(Seq(Octet)) /\ Append(x, l) \in Seq(Seq(Octet))
    BY <2>0
  <2>2. text(Append(a \o x, l)) = text(a \o x) \o Append(l, Dot)
    BY Zenon, <2>1, TextAppend
  <2>3. text(Append(x, l)) = text(x) \o Append(l, Dot) /\ text(x) \in Seq(Octet) /\ text(a) \in Seq(Octet)
    BY Zenon, <2>0, TextAppend
  <2>4. Append(l, Dot) \in Seq(Octet)
    BY SetupAssumption
  <2>5. \A p, q, r \in Seq(Octet) : (p \o q) \o r = p \o (q \o r)
    BY Zenon, JoinedEitherWay
  <2>6. (text(a) \o text(x)) \o Append(l, Dot) = text(a) \o (text(x) \o Append(l, Dot))
    BY Zenon, <2>3, <2>4, <2>5
  <2>7. text(a \o Append(x, l)) = text(a) \o text(Append(x, l))
    BY Zenon, <2>0, <2>1, <2>2, <2>3, <2>6
  <2> QED BY Zenon, <2>1, <2>7
<1>3. S \in SUBSET Seq(Seq(Octet))
  OBVIOUS
<1>4. S = Seq(Seq(Octet))
  <2> HIDE DEF S
  <2> QED BY <1>1, <1>2, <1>3, SequenceInduction
<1> QED BY Zenon, <1>4

(* Without an escape in the name, no character is escaped.                 *)
LEMMA ScanPlain ==
    ASSUME NEW name \in Seq(Octet), Escape \notin Range(name)
    PROVE  ~scan(name).escaped
<1> DEFINE S == {x \in Seq(Octet) : Escape \notin Range(x) => ~scan(x).escaped}
<1>1. <<>> \in S
  <2>1. scan(<<>>) = unread
    BY Zenon, ScanAppend
  <2> QED BY <2>1 DEF unread
<1>2. ASSUME NEW x \in S, NEW c \in Octet PROVE Append(x, c) \in S
  <2> DEFINE s == scan(x)
             t == scan(Append(x, c))
  <2>0. x \in Seq(Octet) /\ (Escape \notin Range(x) => ~s.escaped) /\ Append(x, c) \in Seq(Octet)
    OBVIOUS
  <2>1. IF s.escaped \/ c # Dot
        THEN t.labels = s.labels /\ t.label = Append(s.label, c) /\ (t.escaped <=> (c = Escape /\ ~s.escaped))
        ELSE t.labels = Append(s.labels, s.label) /\ t.label = <<>> /\ ~t.escaped
    BY Zenon, <2>0, ScanNext
  <2>2. Escape \notin Range(Append(x, c)) => Escape \notin Range(x) /\ c # Escape
    <3>1. c \in Range(Append(x, c)) /\ \A i \in DOMAIN x : x[i] \in Range(Append(x, c))
      BY <2>0 DEF Range
    <3> QED BY Zenon, <3>1 DEF Range
  <2> HIDE DEF s, t
  <2>3. Escape \notin Range(Append(x, c)) => ~t.escaped
    BY Zenon, <2>0, <2>1, <2>2
  <2> QED BY Zenon, <2>0, <2>3 DEF t
<1>3. S \in SUBSET Seq(Octet)
  OBVIOUS
<1>4. S = Seq(Octet)
  <2> HIDE DEF S
  <2> QED BY <1>1, <1>2, <1>3, SequenceInduction
<1> QED BY Zenon, <1>4

(* What endsIn says, element by element.                                   *)
LEMMA SuffixElements ==
    ASSUME NEW A, NEW s \in Seq(A), NEW t \in Seq(A)
    PROVE  endsIn(t, s) <=> /\ Len(s) <= Len(t)
                            /\ \A j \in 1..Len(s) : s[j] = t[Len(t) - Len(s) + j]
BY DEF endsIn

(* A suffix is what is left when something is cut off in front.            *)
LEMMA SuffixIs ==
    ASSUME NEW A, NEW s \in Seq(A), NEW t \in Seq(A)
    PROVE  endsIn(t, s) <=> \E u \in Seq(A) : t = u \o s
<1> DEFINE m == Len(s)
           n == Len(t)
<1>1. endsIn(t, s) <=> m <= n /\ \A j \in 1..m : s[j] = t[n - m + j]
  BY SuffixElements
<1>2. ASSUME m <= n, \A j \in 1..m : s[j] = t[n - m + j]
      PROVE  \E u \in Seq(A) : t = u \o s
  <2>1. SubSeq(t, 1, n - m) \in Seq(A) /\ t = SubSeq(t, 1, n - m) \o s
    BY <1>2
  <2> QED BY Zenon, <2>1
<1>3. ASSUME NEW u \in Seq(A), t = u \o s
      PROVE  m <= n /\ \A j \in 1..m : s[j] = t[n - m + j]
  BY <1>3
<1> QED BY Zenon, <1>1, <1>2, <1>3

(* Of two suffixes of one sequence, one is a suffix of the other.          *)
LEMMA SuffixesNest ==
    ASSUME NEW A, NEW a \in Seq(A), NEW b \in Seq(A), NEW t \in Seq(A), endsIn(t, a), endsIn(t, b)
    PROVE  endsIn(b, a) \/ endsIn(a, b)
<1>1. ASSUME NEW x \in Seq(A), NEW y \in Seq(A), endsIn(t, x), endsIn(t, y), Len(x) <= Len(y)
      PROVE  endsIn(y, x)
  <2> DEFINE m == Len(x)
             k == Len(y)
             n == Len(t)
  <2>1. m \in Nat /\ k \in Nat /\ n \in Nat
    OBVIOUS
  <2>2. /\ \A j \in 1..m : x[j] = t[n - m + j]
        /\ \A j \in 1..k : y[j] = t[n - k + j]
    BY <1>1, SuffixElements
  <2>3. ASSUME NEW j \in 1..m PROVE x[j] = y[k - m + j]
    <3>1. k - m + j \in 1..k /\ n - k + (k - m + j) = n - m + j
      BY <1>1, <2>1
    <3> QED BY <2>2, <3>1
  <2> QED BY <1>1, <2>3, SuffixElements
<1>2. Len(a) <= Len(b) \/ Len(b) <= Len(a)
  OBVIOUS
<1> QED BY Zenon, <1>1, <1>2

-----------------------------------------------------------------------------
(* The labels of a fully qualified name spell it.                          *)
LEMMA QualifiedText ==
    ASSUME NEW q, fullyQualified(q)
    PROVE  /\ q \in Seq(Octet) /\ Len(q) > 0 /\ splitName(q) \in Seq(Seq(Octet))
           /\ scan(q).labels \in Seq(Seq(Octet)) /\ scan(q).labels # <<>>
           /\ text(scan(q).labels) = q
<1>1. q \in Seq(Octet) /\ q # <<>> /\ scan(q).label = <<>>
  BY DEF fullyQualified
<1>2. scan(q).labels \in Seq(Seq(Octet))
  BY <1>1, ScanType DEF Scanned
<1>3. text(scan(q).labels) \o <<>> = q
  BY Zenon, <1>1, ScanText
<1>4. text(<<>>) = <<>> /\ text(scan(q).labels) \in Seq(Octet)
  <2>1. <<>> \in Seq(Octet)
    OBVIOUS
  <2> QED BY Zenon, <1>2, <2>1, TextAppend
<1>5. \A x \in Seq(Octet) : x \o <<>> = x
  OBVIOUS
<1>6. text(scan(q).labels) = q
  BY Zenon, <1>3, <1>4, <1>5
<1>7. splitName(q) \in Seq(Seq(Octet))
  <2>1. <<>> \in Seq(Seq(Octet))
    OBVIOUS
  <2> QED BY Zenon, <1>2, <2>1 DEF splitName
<1>8. Len(q) > 0
  BY <1>1
<1> QED BY Zenon, <1>1, <1>2, <1>4, <1>6, <1>7, <1>8

(* A sequence, cut after its n-th element.                                 *)
LEMMA CutAfter ==
    ASSUME NEW A, NEW s \in Seq(A), NEW n \in 1..Len(s)
    PROVE  /\ SubSeq(s, 1, n) = Append(SubSeq(s, 1, n - 1), s[n])
           /\ s = SubSeq(s, 1, n) \o SubSeq(s, n + 1, Len(s))
OBVIOUS

(* A dot that no backslash can precede ends a label.                       *)
LEMMA DotEnds ==
    ASSUME NEW v \in Seq(Octet), Escape \notin Range(v), NEW z \in Seq(Octet)
    PROVE  scan(Append(v, Dot) \o z).labels = scan(Append(v, Dot)).labels \o scan(z).labels
<1> DEFINE u == Append(v, Dot)
<1>1. Dot \in Octet /\ Dot # Escape /\ u \in Seq(Octet)
  BY SetupAssumption
<1>2. ~scan(v).escaped
  BY Zenon, ScanPlain
<1>3. Whole(u)
  BY Zenon, <1>1, <1>2, ScanNext DEF Whole
<1> HIDE DEF u
<1>4. scan(u \o z).labels = scan(u).labels \o scan(z).labels
  BY Zenon, <1>1, <1>3, ScanConcat
<1> QED BY Zenon, <1>4 DEF u

(* A zone's text behind a dot that no backslash can precede is whole labels.*)
LEMMA TextMatches ==
    ASSUME NEW z, fullyQualified(z), NEW q, fullyQualified(q), Escape \notin Range(q),
           NEW n \in Nat, n = Len(q) - Len(z), n > 0, q[n] = Dot, SubSeq(q, n + 1, Len(q)) = z
    PROVE  endsIn(scan(q).labels, scan(z).labels)
<1> DEFINE v == SubSeq(q, 1, n - 1)
           u == Append(v, Dot)
<1>0. q \in Seq(Octet) /\ z \in Seq(Octet) /\ Dot \in Octet /\ Dot # Escape
  BY SetupAssumption DEF fullyQualified
<1>1. v \in Seq(Octet) /\ u \in Seq(Octet)
  BY <1>0
<1>2. q = u \o z
  <2>0. n \in 1..Len(q)
    BY <1>0
  <2>1. u = SubSeq(q, 1, n)
    BY Zenon, <1>0, <2>0, CutAfter
  <2>2. q = SubSeq(q, 1, n) \o SubSeq(q, n + 1, Len(q))
    BY Zenon, <1>0, <2>0, CutAfter
  <2> QED BY Zenon, <2>1, <2>2
<1>3. Escape \notin Range(v)
  <2>1. \A i \in DOMAIN v : v[i] \in Range(q)
    BY <1>0 DEF Range
  <2> QED BY Zenon, <2>1 DEF Range
<1> HIDE DEF v
<1>6. scan(u \o z).labels = scan(u).labels \o scan(z).labels
  BY Zenon, <1>0, <1>1, <1>3, DotEnds
<1> HIDE DEF u
<1>7. scan(u).labels \in Seq(Seq(Octet))
  BY <1>1, ScanType DEF Scanned
<1>8. scan(z).labels \in Seq(Seq(Octet)) /\ scan(q).labels \in Seq(Seq(Octet))
  BY Zenon, QualifiedText
<1>9. \E w \in Seq(Seq(Octet)) : scan(q).labels = w \o scan(z).labels
  BY Zenon, <1>2, <1>6, <1>7
<1> QED BY Zenon, <1>8, <1>9, SuffixIs

(* And the other way around.                                               *)
LEMMA LabelsMatch ==
    ASSUME NEW z, fullyQualified(z), NEW q, fullyQualified(q), q # z,
           endsIn(scan(q).labels, scan(z).labels)
    PROVE  LET n == Len(q) - Len(z)
           IN  n > 0 /\ q[n] = Dot /\ SubSeq(q, n + 1, Len(q)) = z
<1>1. /\ scan(z).labels \in Seq(Seq(Octet)) /\ scan(q).labels \in Seq(Seq(Octet))
      /\ text(scan(z).labels) = z /\ text(scan(q).labels) = q
      /\ z \in Seq(Octet) /\ q \in Seq(Octet)
  BY Zenon, QualifiedText
<1>2. PICK w \in Seq(Seq(Octet)) : scan(q).labels = w \o scan(z).labels
  BY Zenon, <1>1, SuffixIs
<1>3. q = text(w) \o z
  BY Zenon, <1>1, <1>2, TextConcat
<1>4. w # <<>>
  <2> SUFFICES ASSUME w = <<>> PROVE FALSE
    OBVIOUS
  <2>1. text(w) = <<>>
    <3>1. <<>> \in Seq(Octet)
      OBVIOUS
    <3> QED BY Zenon, <3>1, TextAppend
  <2>2. <<>> \o z = z
    BY <1>1
  <2> QED BY Zenon, <1>3, <2>1, <2>2
<1>5. PICK l \in Seq(Seq(Octet)), x \in Seq(Octet) : w = Append(l, x)
  <2> DEFINE k == Len(w) - 1
  <2>1. k \in Nat /\ Len(w) = k + 1
    BY <1>4
  <2> HIDE DEF k
  <2>2. \E l \in Seq(Seq(Octet)), x \in Seq(Octet) : w = Append(l, x) /\ Len(l) = k
    BY <2>1, FrontAndLast
  <2> QED BY Zenon, <2>2
<1>6. text(w) = text(l) \o Append(x, Dot) /\ text(l) \in Seq(Octet)
  BY Zenon, <1>5, TextAppend
<1> DEFINE t == text(l)
<1>7. /\ t \in Seq(Octet) /\ Dot \in Octet
      /\ q = (t \o Append(x, Dot)) \o z
  BY Zenon, <1>3, <1>6, SetupAssumption
<1> HIDE DEF t
<1> DEFINE d == t \o Append(x, Dot)
<1>8. d \in Seq(Octet) /\ Len(d) > 0 /\ d[Len(d)] = Dot
  BY <1>7
<1>9. q = d \o z
  BY <1>7
<1> HIDE DEF d
<1>10. Len(q) - Len(z) = Len(d) /\ q[Len(d)] = Dot /\ SubSeq(q, Len(d) + 1, Len(q)) = z
  BY <1>1, <1>8, <1>9
<1> QED BY Zenon, <1>8, <1>10

(* ServeDNS's test on octets and Metadata's on labels agree on every name, *)
(* whatever it escapes.                                                    *)
LEMMA MatchesAgree ==
    ASSUME NEW z, fullyQualified(z), NEW q, fullyQualified(q)
    PROVE  zoneMatches(z, q) <=> IsSubDomain(z, q)
<1>1. /\ z \in Seq(Octet) /\ Len(z) > 0 /\ scan(z).labels \in Seq(Seq(Octet)) /\ scan(z).labels # <<>>
      /\ q \in Seq(Octet) /\ Len(q) > 0 /\ scan(q).labels \in Seq(Seq(Octet))
      /\ splitName(z) \in Seq(Seq(Octet)) /\ splitName(q) \in Seq(Seq(Octet))
  BY Zenon, QualifiedText
<1>2. CASE z = root \/ q = z
  <2>1. ASSUME NEW x \in Seq(Seq(Octet)) PROVE endsIn(x, <<>>) /\ endsIn(x, x)
    <3>1. x = <<>> \o x /\ x = x \o <<>> /\ <<>> \in Seq(Seq(Octet))
      OBVIOUS
    <3> QED BY Zenon, <3>1, SuffixIs
  <2> QED BY Zenon, <1>1, <1>2, <2>1 DEF zoneMatches, IsSubDomain, splitName
<1>3. CASE Escape \in Range(q)
  <2>1. zoneMatches(z, q) <=> z = root \/ q = z \/ IsSubDomain(z, q)
    BY Zenon, <1>3 DEF zoneMatches
  <2> QED BY Zenon, <1>2, <2>1
<1>4. CASE z # root /\ q # z /\ Escape \notin Range(q)
  <2> DEFINE n == Len(q) - Len(z)
  <2>1. zoneMatches(z, q) <=> n > 0 /\ q[n] = Dot /\ SubSeq(q, n + 1, Len(q)) = z
    BY Zenon, <1>4 DEF zoneMatches
  <2>2. splitName(z) = scan(z).labels
    BY Zenon, <1>4 DEF splitName
  <2>3. CASE q = root
    <3>1. ~(n > 0)
      BY <1>1, <2>3 DEF root
    <3>2. splitName(q) = <<>>
      BY Zenon, <2>3 DEF splitName
    <3>3. ASSUME NEW x \in Seq(Seq(Octet)), x # <<>> PROVE ~endsIn(<<>>, x)
      <4>1. ASSUME NEW u \in Seq(Seq(Octet)) PROVE <<>> # u \o x
        <5>1. Len(u \o x) # 0 /\ Len(<<>>) = 0
          BY <3>3
        <5> QED BY Zenon, <5>1
      <4>2. <<>> \in Seq(Seq(Octet))
        OBVIOUS
      <4> QED BY Zenon, <4>1, <4>2, SuffixIs
    <3> QED BY Zenon, <1>1, <2>1, <2>2, <3>1, <3>2, <3>3 DEF IsSubDomain
  <2>4. CASE q # root
    <3>1. splitName(q) = scan(q).labels
      BY Zenon, <2>4 DEF splitName
    <3>2. n > 0 => n \in Nat
      BY <1>1
    <3>3. (n > 0 /\ q[n] = Dot /\ SubSeq(q, n + 1, Len(q)) = z) => endsIn(scan(q).labels, scan(z).labels)
      BY Zenon, <1>4, <3>2, TextMatches
    <3>4. endsIn(scan(q).labels, scan(z).labels) => (n > 0 /\ q[n] = Dot /\ SubSeq(q, n + 1, Len(q)) = z)
      BY Zenon, <1>4, LabelsMatch
    <3> QED BY Zenon, <2>1, <2>2, <3>1, <3>3, <3>4 DEF IsSubDomain
  <2> QED BY Zenon, <2>3, <2>4
<1> QED BY Zenon, <1>2, <1>3, <1>4

-----------------------------------------------------------------------------
(* What stands in the blocks.                                              *)
Lines == UNION {Range(b.lines) : b \in ProbeBlocks}

Fields == DOMAIN NoProbe

(* p while its block is read: only fields of Probe, and names and numbers  *)
(* where there should be.                                                  *)
ProbeRead(p) ==
    /\ p = [f \in Fields |-> p[f]]
    /\ fullyQualified(p.Zone)
    /\ p.AgentDomain = Unset \/ fullyQualified(p.AgentDomain)
    /\ p.AgentTTL \in Nat

(* What parse has seen to when it returns p.                               *)
ProbeParsed(p) ==
    /\ p.AgentDomain = Unset => p.AgentTTL = 0
    /\ p.AgentDomain # Unset =>
         p.AgentTTL > 0 /\ ~IsSubDomain(p.Zone, p.AgentDomain) /\ ~IsSubDomain(p.AgentDomain, p.Zone)
    /\ p.Signer \in {Unset, p.Zone}
    /\ p.Store = "valkey" => p.CAFile

(* The query served last, if any, met the p that serves.                   *)
Served ==
    asked # Unset =>
        /\ progress = "serving" /\ fullyQualified(asked)
        /\ answeredBy = servingZone(probe, asked)
        /\ account = Metadata(probe, asked)
        /\ labelCount = IF servingZone(probe, asked) = probe.Zone THEN buildZoneVersion(probe.Zone) ELSE 0

SetupInv ==
    /\ lines \in Seq(Lines)
    /\ ProbeRead(probe)
    /\ progress = "serving" => ProbeParsed(probe)
    /\ Served

(* Every line is one of a block's, and says what the assumption says.      *)
LEMMA LinesGood ==
    /\ \A b \in ProbeBlocks : b.lines \in Seq(Lines) /\ fullyQualified(b.zone)
    /\ \A l \in Lines : l.p = "AgentDomain" => fullyQualified(l.v)
    /\ \A l \in Lines : l.p = "AgentTTL" => l.v \in Int
<1>1. ASSUME NEW A, NEW B, A \subseteq B, NEW s \in Seq(A) PROVE s \in Seq(B)
  BY <1>1
<1>2. ASSUME NEW b \in ProbeBlocks PROVE b.lines \in Seq(Lines)
  <2>1. b.lines \in Seq(Range(b.lines))
    BY Zenon, SetupAssumption
  <2>2. Range(b.lines) \subseteq Lines
    BY Zenon DEF Lines
  <2> QED BY <1>1, <2>1, <2>2
<1>3. ASSUME NEW l \in Lines
      PROVE  (l.p = "AgentDomain" => fullyQualified(l.v)) /\ (l.p = "AgentTTL" => l.v \in Int)
  <2>1. PICK b \in ProbeBlocks : l \in Range(b.lines)
    BY Zenon DEF Lines
  <2>2. canonical(l)
    BY Zenon, <2>1, SetupAssumption
  <2> QED BY Zenon, <2>2 DEF canonical
<1> QED BY Zenon, <1>2, <1>3, SetupAssumption

(* The fields of p, and those that no line sets.                           *)
LEMMA FieldsAre ==
    /\ {"Zone", "AgentDomain", "AgentTTL", "NSName", "Mbox", "keyBase", "Signer", "Addrs", "CAFile", "Store"} \subseteq Fields
    /\ "Zone" \notin Directives /\ Directives \subseteq Fields
BY DEF Fields, NoProbe, Directives

(* A block starts without an agent domain.                                 *)
LEMMA SetupInitially == SetupInit => SetupInv
<1> SUFFICES ASSUME SetupInit PROVE SetupInv
  OBVIOUS
<1>1. PICK b \in ProbeBlocks : lines = b.lines /\ probe = [NoProbe EXCEPT !.Zone = b.zone]
  BY Zenon DEF SetupInit
<1>2. NoProbe = [f \in Fields |-> NoProbe[f]] /\ NoProbe.AgentDomain = Unset /\ NoProbe.AgentTTL = 0
  BY DEF NoProbe, Fields
<1>3. /\ probe = [f \in Fields |-> probe[f]]
      /\ probe.Zone = b.zone /\ probe.AgentDomain = Unset /\ probe.AgentTTL = 0
  <2> HIDE DEF NoProbe
  <2> QED BY <1>1, <1>2, FieldsAre
<1>4. ProbeRead(probe) /\ lines \in Seq(Lines)
  <2>1. fullyQualified(b.zone) /\ b.lines \in Seq(Lines)
    BY Zenon, LinesGood
  <2>2. 0 \in Nat
    OBVIOUS
  <2> QED BY Zenon, <1>1, <1>3, <2>1, <2>2 DEF ProbeRead
<1> QED BY Zenon, <1>4 DEF SetupInv, Served, SetupInit

(* A line that is accepted sets its own field, and to what may stand there.*)
LEMMA DirectiveKeeps == SetupInv /\ applyDirective => SetupInv'
<1> SUFFICES ASSUME SetupInv, applyDirective PROVE SetupInv'
  OBVIOUS
<1> DEFINE l == Head(lines)
<1>1. lines \in Seq(Lines) /\ lines # <<>> /\ ProbeRead(probe) /\ progress = "parsing" /\ asked = Unset
  BY DEF SetupInv, applyDirective, Served
<1>2. l \in Lines /\ lines' \in Seq(Lines)
  BY <1>1 DEF applyDirective
<1>3. progress' # "serving" /\ asked' = Unset
  BY <1>1 DEF applyDirective
<1>4. CASE directiveRefused(l)
  <2>1. probe' = probe
    BY Zenon, <1>4 DEF applyDirective
  <2> QED BY Zenon, <1>1, <1>2, <1>3, <2>1 DEF SetupInv, Served
<1>5. CASE ~directiveRefused(l)
  <2> DEFINE v == IF l.p = "Addrs" THEN probe[l.p] \o l.v ELSE l.v
  <2>1. probe' = [probe EXCEPT ![l.p] = v]
    BY Zenon, <1>5 DEF applyDirective
  <2>2. l.p \in Fields /\ l.p # "Zone"
    BY Zenon, <1>5, FieldsAre DEF directiveRefused
  <2>3. l.p = "AgentDomain" => fullyQualified(v)
    BY <1>2, LinesGood
  <2>4. l.p = "AgentTTL" => v \in Nat
    <3>1. l.p = "AgentTTL" => l.v \in 0..uint32Max
      BY <1>2, <1>5, LinesGood DEF directiveRefused, badArgument
    <3> QED BY <3>1
  <2> HIDE DEF l, v
  <2>5. ProbeRead(probe')
    <3>1. probe = [f \in Fields |-> probe[f]] /\ fullyQualified(probe.Zone)
          /\ (probe.AgentDomain = Unset \/ fullyQualified(probe.AgentDomain)) /\ probe.AgentTTL \in Nat
      BY Zenon, <1>1 DEF ProbeRead
    <3>2. probe' = [f \in Fields |-> probe'[f]]
      BY <2>1, <3>1
    <3>3. \A f \in Fields : probe'[f] = IF f = l.p THEN v ELSE probe[f]
      BY <2>1, <3>1
    <3>4. probe'.Zone = probe.Zone
      BY <2>2, <3>3, FieldsAre
    <3>5. probe'.AgentDomain = probe.AgentDomain \/ fullyQualified(probe'.AgentDomain)
      BY <2>3, <3>3, FieldsAre
    <3>6. probe'.AgentTTL \in Nat
      BY <2>4, <3>1, <3>3, FieldsAre
    <3> QED BY Zenon, <3>1, <3>2, <3>4, <3>5, <3>6 DEF ProbeRead
  <2> QED BY Zenon, <1>2, <1>3, <2>5 DEF SetupInv, Served
<1> QED BY <1>4, <1>5

(* parse returns p only with its zones apart, its key its own and its      *)
(* store verified.                                                         *)
LEMMA ParseKeeps == ASSUME NEW connects PROVE SetupInv /\ FinishParse(connects) => SetupInv'
<1> SUFFICES ASSUME SetupInv, FinishParse(connects) PROVE SetupInv'
  OBVIOUS
<1>1. lines \in Seq(Lines) /\ ProbeRead(probe) /\ progress = "parsing" /\ asked = Unset
  BY DEF SetupInv, FinishParse, Served
<1>2. lines' \in Seq(Lines) /\ asked' = Unset
  BY Zenon, <1>1 DEF FinishParse
<1> DEFINE ok == validateAgentDomain(probe) /\ signerLoads(probe) /\ storeBuilds(probe, connects)
<1>3. CASE ~ok
  <2>1. probe' = probe /\ progress' = "refused"
    BY Zenon, <1>3 DEF FinishParse
  <2> QED BY <1>1, <1>2, <2>1 DEF SetupInv, Served
<1>4. CASE ok
  <2> DEFINE ttl == IF probe.AgentDomain # Unset /\ probe.AgentTTL = 0 THEN defaultAgentTTL ELSE probe.AgentTTL
             signer == IF probe.keyBase # NoKey THEN KeyOwner[probe.keyBase] ELSE Unset
             store == IF probe.Addrs = <<>> THEN "memory" ELSE "valkey"
  <2>1. /\ DOMAIN probe = Fields /\ fullyQualified(probe.Zone)
        /\ probe.AgentDomain = Unset \/ fullyQualified(probe.AgentDomain)
        /\ probe.AgentTTL \in Nat
    BY <1>1 DEF ProbeRead
  <2>2. /\ probe' = [f \in Fields |-> probe'[f]]
        /\ probe'.Zone = probe.Zone /\ probe'.AgentDomain = probe.AgentDomain
        /\ probe'.AgentTTL = ttl /\ probe'.Signer = signer /\ probe'.Store = store
        /\ probe'.CAFile = probe.CAFile
    BY <1>4, <2>1, FieldsAre DEF FinishParse
  <2>3. ttl \in Nat /\ (probe.AgentDomain # Unset => ttl > 0)
    BY <2>1, SetupAssumption
  <2>4. ProbeRead(probe')
    BY Zenon, <2>1, <2>2, <2>3 DEF ProbeRead
  <2>5. /\ probe.AgentDomain = Unset => ttl = 0
        /\ probe.AgentDomain # Unset =>
             ~IsSubDomain(probe.Zone, probe.AgentDomain) /\ ~IsSubDomain(probe.AgentDomain, probe.Zone)
    BY Zenon, <1>4 DEF validateAgentDomain
  <2>6. signer \in {Unset, probe.Zone}
    BY Zenon, <1>4 DEF signerLoads
  <2>7. store = "valkey" => probe.CAFile
    BY Zenon, <1>4 DEF storeBuilds
  <2> HIDE DEF ttl, signer, store
  <2>8. ProbeParsed(probe')
    BY Zenon, <2>2, <2>3, <2>5, <2>6, <2>7 DEF ProbeParsed
  <2> QED BY Zenon, <1>2, <2>4, <2>8 DEF SetupInv, Served
<1> QED BY <1>3, <1>4

(* A query leaves p alone.                                                 *)
LEMMA ServeKeeps == ASSUME NEW q \in QNames PROVE SetupInv /\ ServeName(q) => SetupInv'
<1> SUFFICES ASSUME SetupInv, ServeName(q) PROVE SetupInv'
  OBVIOUS
<1>1. /\ lines' = lines /\ probe' = probe /\ progress' = progress /\ progress = "serving"
      /\ asked' = q /\ answeredBy' = servingZone(probe, q) /\ account' = Metadata(probe, q)
      /\ labelCount' = IF servingZone(probe, q) = probe.Zone THEN buildZoneVersion(probe.Zone) ELSE 0
  BY Zenon DEF ServeName
<1>2. fullyQualified(q)
  BY Zenon, SetupAssumption
<1>3. Served'
  BY Zenon, <1>1, <1>2 DEF Served
<1> QED BY Zenon, <1>1, <1>3 DEF SetupInv

(* setup.go reads a block and probe.go serves what it made.                *)
THEOREM SetupInvariant == SetupSpec => []SetupInv
<1>1. ASSUME SetupInv, UNCHANGED setupVars PROVE SetupInv'
  BY Zenon, <1>1 DEF SetupInv, Served, setupVars
<1>2. SetupInv /\ [SetupNext]_setupVars => SetupInv'
  BY Zenon, <1>1, DirectiveKeeps, ParseKeeps, ServeKeeps DEF SetupNext
<1> QED BY SetupInitially, <1>2, PTL DEF SetupSpec

(* Of two zones neither of which is inside the other, a name is in one at  *)
(* most.                                                                   *)
LEMMA ZonesDisjoint ==
    ASSUME NEW a, fullyQualified(a), NEW z, fullyQualified(z), NEW q, fullyQualified(q),
           ~IsSubDomain(a, z), ~IsSubDomain(z, a), IsSubDomain(a, q)
    PROVE  ~IsSubDomain(z, q)
<1>1. splitName(a) \in Seq(Seq(Octet)) /\ splitName(z) \in Seq(Seq(Octet)) /\ splitName(q) \in Seq(Seq(Octet))
  BY Zenon, QualifiedText
<1> QED BY Zenon, <1>1, SuffixesNest DEF IsSubDomain

(* As many labels of a name as the zone it is in has are the zone's.       *)
LEMMA LabelsCounted ==
    ASSUME NEW z, fullyQualified(z), NEW q, fullyQualified(q), IsSubDomain(z, q)
    PROVE  SubSeq(splitName(q), Len(splitName(q)) - Len(splitName(z)) + 1, Len(splitName(q))) = splitName(z)
<1> DEFINE s == splitName(z)
           t == splitName(q)
<1>1. s \in Seq(Seq(Octet)) /\ t \in Seq(Seq(Octet))
  BY Zenon, QualifiedText
<1>2. PICK u \in Seq(Seq(Octet)) : t = u \o s
  BY Zenon, <1>1, SuffixIs DEF IsSubDomain
<1> HIDE DEF s, t
<1>3. Len(t) - Len(s) = Len(u) /\ Len(t) = Len(u) + Len(s)
  BY <1>1, <1>2
<1>4. SubSeq(u \o s, Len(u) + 1, Len(u) + Len(s)) = s
  BY <1>1
<1>5. SubSeq(t, Len(t) - Len(s) + 1, Len(t)) = s
  BY Zenon, <1>2, <1>3, <1>4
<1> QED BY Zenon, <1>5 DEF s, t

(* The invariant is enough: the two tests agree, the zones are disjoint.   *)
LEMMA ApartWhileServing == SetupInv => ZonesStayApart
<1> SUFFICES ASSUME SetupInv, progress = "serving" PROVE ZonesStayApart
  BY Zenon DEF ZonesStayApart
<1> DEFINE Z == probe.Zone
           A == probe.AgentDomain
<1>1. /\ fullyQualified(Z) /\ (A = Unset \/ fullyQualified(A)) /\ probe.AgentTTL \in Nat
      /\ A = Unset => probe.AgentTTL = 0
      /\ A # Unset => probe.AgentTTL > 0 /\ ~IsSubDomain(Z, A) /\ ~IsSubDomain(A, Z)
      /\ probe.Signer \in {Unset, Z}
      /\ probe.Store = "valkey" => probe.CAFile
  BY Zenon DEF SetupInv, ProbeRead, ProbeParsed
<1>2. (A # Unset) <=> (probe.AgentTTL > 0)
  BY <1>1
<1>3. ASSUME asked # Unset
      PROVE  /\ account = answeredBy
             /\ answeredBy # Unset =>
                  /\ IsSubDomain(answeredBy, asked)
                  /\ \A z \in {Z, A} \ {Unset, answeredBy} : ~zoneMatches(z, asked)
             /\ answeredBy = Unset => ~IsSubDomain(Z, asked)
             /\ labelCount > 0 =>
                  SubSeq(splitName(asked), Len(splitName(asked)) - labelCount + 1, Len(splitName(asked))) = splitName(answeredBy)
  <2>1. /\ fullyQualified(asked) /\ answeredBy = servingZone(probe, asked) /\ account = Metadata(probe, asked)
        /\ labelCount = IF answeredBy = Z THEN buildZoneVersion(Z) ELSE 0
    BY Zenon, <1>3 DEF SetupInv, Served
  <2>2. Z # Unset
    BY Zenon, <1>1 DEF fullyQualified, Unset
  <2>3. /\ zoneMatches(Z, asked) <=> IsSubDomain(Z, asked)
        /\ A # Unset => (zoneMatches(A, asked) <=> IsSubDomain(A, asked))
    BY Zenon, <1>1, <2>1, MatchesAgree
  <2>4. A # Unset /\ IsSubDomain(A, asked) => ~IsSubDomain(Z, asked)
    BY Zenon, <1>1, <2>1, ZonesDisjoint
  <2>5. \/ answeredBy = A /\ account = A /\ A # Unset /\ IsSubDomain(A, asked) /\ ~IsSubDomain(Z, asked)
        \/ answeredBy = Z /\ account = Z /\ IsSubDomain(Z, asked) /\ ~(A # Unset /\ IsSubDomain(A, asked))
        \/ answeredBy = Unset /\ account = Unset /\ ~IsSubDomain(Z, asked) /\ ~(A # Unset /\ IsSubDomain(A, asked))
    BY Zenon, <2>1, <2>3, <2>4 DEF servingZone, Metadata
  <2> HIDE DEF Z, A
  <2>6. answeredBy # Unset =>
          IsSubDomain(answeredBy, asked) /\ \A z \in {Z, A} \ {Unset, answeredBy} : ~zoneMatches(z, asked)
    BY Zenon, <2>3, <2>5
  <2>7. answeredBy = Unset => ~IsSubDomain(Z, asked)
    BY Zenon, <2>2, <2>5
  <2>8. ASSUME labelCount > 0
        PROVE  SubSeq(splitName(asked), Len(splitName(asked)) - labelCount + 1, Len(splitName(asked))) = splitName(answeredBy)
    <3>1. answeredBy = Z /\ labelCount = Len(splitName(Z))
      BY <2>1, <2>8 DEF buildZoneVersion
    <3>2. IsSubDomain(Z, asked)
      BY Zenon, <2>2, <2>5, <3>1
    <3>3. fullyQualified(Z) /\ fullyQualified(asked)
      BY Zenon, <1>1, <2>1
    <3>4. SubSeq(splitName(asked), Len(splitName(asked)) - Len(splitName(Z)) + 1, Len(splitName(asked)))
             = splitName(Z)
      BY Zenon, <3>2, <3>3, LabelsCounted
    <3> QED BY Zenon, <3>1, <3>4
  <2> QED BY Zenon, <2>5, <2>6, <2>7, <2>8
<1> QED BY Zenon, <1>1, <1>2, <1>3 DEF ZonesStayApart

(* No block that parse accepts, whatever the order of its lines, lets a    *)
(* name be in both zones, be counted under another than answers it, or be  *)
(* given a label count that leads elsewhere.                               *)
THEOREM AlwaysZonesApart == SetupSpec => []ZonesStayApart
<1>1. SetupInv => ZonesStayApart
  BY ApartWhileServing
<1> QED BY SetupInvariant, <1>1, PTL
=============================================================================
