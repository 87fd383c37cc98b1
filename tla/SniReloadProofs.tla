-------------------------- MODULE SniReloadProofs --------------------------
(***************************************************************************)
(* Proofs about SniReload, for every number of key pairs, of poll loops    *)
(* and of rotations.                                                       *)
(***************************************************************************)
EXTENDS SniReload, TLAPS

(* How many pairs cfg.files() lists, the places of their files in the      *)
(* order of reading, the file of d at one of them, and d with another file *)
(* there.                                                                  *)
Pairs == fileCount(Cfg)
Places == 0..(2 * Pairs - 1)
at(d, k) == d[pairAt(k)][partAt(k)]
put(d, k, v) == [d EXCEPT ![pairAt(k)][partAt(k)] = v]

(* Versions only go up, so nothing that was read is ahead of the disk.     *)
ReadBefore ==
    /\ newer(disk, current)
    /\ \A t \in Threads : newer(disk, hashed[t]) /\ newer(disk, built[t])

(* What reloadMu and the order of the readings give a reload: what it has  *)
(* read of the store to be is as new as its digest and as the store in use,*)
(* which no other loop replaces meanwhile.                                 *)
PollerInv(p) ==
    /\ pc[p] = "new" \/ ready
    /\ pc[p] = "build" =>
          \A k \in Places : k < pos[p] => /\ at(built[p], k) >= at(hashed[p], k)
                                          /\ at(built[p], k) >= at(current, k)
    /\ pc[p] \in {"store", "mark"} =>
          /\ newer(built[p], hashed[p]) /\ newer(built[p], current)
          /\ loadable(Cfg, bytes(built[p]))
    /\ pc[p] = "mark" => current = built[p]

(* The same for setup, which no rotation has raced.                        *)
SetupInv ==
    /\ pc[Main] \in {"build", "digest", "ready", "failed"}
    /\ pc[Main] = "digest" => loadable(Cfg, bytes(built[Main]))
    /\ ~raced =>
          /\ pc[Main] = "build" =>
                \A k \in Places : k < pos[Main] => at(built[Main], k) >= at(disk, k)
          /\ pc[Main] = "digest" => newer(built[Main], disk)

(* The inductive invariant. *)
ReloadInv ==
    /\ TypeOK /\ ReadBefore /\ SetupInv /\ \A p \in Pollers : PollerInv(p)
    /\ NeverBlank /\ DigestNeverAhead

-----------------------------------------------------------------------------
(* The files and the order they are read in. *)

(* cfg.files() lists Pairs pairs. *)
LEMMA FileCount ==
    /\ Pairs \in Nat \ {0}
    /\ files(Cfg) = 1..Pairs
    /\ fileCount(Cfg) = Pairs
BY StoreAssumption DEF Pairs, noSNIPair, files, fileCount

(* Each place is that of one file. *)
LEMMA PlaceIsFile ==
    ASSUME NEW k \in Places
    PROVE  pairAt(k) \in files(Cfg) /\ partAt(k) \in {"cert", "key"}
BY FileCount DEF Places, pairAt, partAt

(* No two places are of the same file. *)
LEMMA PlacesDiffer ==
    ASSUME NEW j \in Places, NEW k \in Places, j # k
    PROVE  pairAt(j) # pairAt(k) \/ partAt(j) # partAt(k)
BY FileCount DEF Places, pairAt, partAt

(* Every file has a place. *)
LEMMA FileHasPlace ==
    ASSUME NEW i \in files(Cfg)
    PROVE  /\ 2 * i - 2 \in Places /\ pairAt(2 * i - 2) = i /\ partAt(2 * i - 2) = "cert"
           /\ 2 * i - 1 \in Places /\ pairAt(2 * i - 1) = i /\ partAt(2 * i - 1) = "key"
<1>1. i \in 1..Pairs /\ Pairs \in Nat
  BY FileCount
<1>2. 2 * i - 2 \in Places /\ 2 * i - 1 \in Places
  BY <1>1 DEF Places
<1>3. (2 * i - 2) \div 2 = i - 1 /\ (2 * i - 1) \div 2 = i - 1
  BY <1>1
<1>4. (2 * i - 2) % 2 = 0 /\ (2 * i - 1) % 2 = 1
  BY <1>1
<1> QED BY <1>1, <1>2, <1>3, <1>4 DEF pairAt, partAt

(* So newer is the comparison place by place. *)
LEMMA NewerByPlace ==
    ASSUME NEW d, NEW e
    PROVE  newer(d, e) <=> \A k \in Places : at(d, k) >= at(e, k)
<1>1. ASSUME newer(d, e), NEW k \in Places PROVE at(d, k) >= at(e, k)
  BY <1>1, PlaceIsFile DEF newer, at
<1>2. ASSUME \A k \in Places : at(d, k) >= at(e, k) PROVE newer(d, e)
  BY <1>2, FileHasPlace DEF newer, at
<1> QED BY <1>1, <1>2

(* A file's content is a version number. *)
LEMMA AtIsContent ==
    ASSUME NEW d \in Disk(Cfg), NEW k \in Places
    PROVE  at(d, k) \in Nat
<1>1. d[pairAt(k)] \in [cert : Content, key : Content]
  BY PlaceIsFile DEF Disk
<1>2. d[pairAt(k)].cert \in Nat /\ d[pairAt(k)].key \in Nat
  BY <1>1, StoreAssumption DEF Content
<1> QED BY <1>2, PlaceIsFile DEF at

(* newer is a preorder. *)
LEMMA NewerTransitive ==
    ASSUME NEW c \in Disk(Cfg), NEW d \in Disk(Cfg), NEW e \in Disk(Cfg),
           newer(c, d), newer(d, e)
    PROVE  newer(c, e)
<1>1. ASSUME NEW k \in Places PROVE at(c, k) >= at(e, k)
  BY AtIsContent, NewerByPlace
<1> QED BY <1>1, NewerByPlace

(* The files a store was built from are no older than themselves.          *)
LEMMA NewerReflexive ==
    ASSUME NEW d \in Disk(Cfg)
    PROVE  newer(d, d)
<1>1. ASSUME NEW k \in Places PROVE at(d, k) >= at(d, k)
  BY AtIsContent
<1> QED BY <1>1, NewerByPlace

(* Every content is newer than no file at all. *)
LEMMA NewerThanNothing ==
    /\ Nothing \in Disk(Cfg)
    /\ \A d \in Disk(Cfg) : newer(d, Nothing)
<1>1. Nothing \in Disk(Cfg)
  BY StoreAssumption DEF Nothing, Disk, Content
<1>2. ASSUME NEW d \in Disk(Cfg), NEW k \in Places PROVE at(d, k) >= at(Nothing, k)
  <2>1. at(Nothing, k) = 0
    BY PlaceIsFile DEF Nothing, at
  <2> QED BY <2>1, AtIsContent
<1> QED BY <1>1, <1>2, NewerByPlace

(* Writing version v of one file changes that file only. *)
LEMMA WriteFile ==
    ASSUME NEW d \in Disk(Cfg), NEW k \in Places, NEW v \in Content
    PROVE  /\ put(d, k, v) \in Disk(Cfg) /\ at(put(d, k, v), k) = v
           /\ \A j \in Places : j # k => at(put(d, k, v), j) = at(d, j)
<1> DEFINE e == put(d, k, v)
<1>1. /\ pairAt(k) \in files(Cfg) /\ partAt(k) \in {"cert", "key"}
      /\ d[pairAt(k)] \in [cert : Content, key : Content]
  BY PlaceIsFile DEF Disk
<1>2. [d[pairAt(k)] EXCEPT ![partAt(k)] = v] \in [cert : Content, key : Content]
  BY <1>1
<1>3. e = [d EXCEPT ![pairAt(k)] = [d[pairAt(k)] EXCEPT ![partAt(k)] = v]]
  BY <1>1 DEF Disk, put
<1> HIDE DEF e
<1>4. e \in Disk(Cfg)
  BY <1>1, <1>2, <1>3 DEF Disk
<1>5. at(e, k) = v
  BY <1>1, <1>3 DEF at, Disk
<1>6. ASSUME NEW j \in Places, j # k PROVE at(e, j) = at(d, j)
  BY <1>1, <1>3, <1>6, PlacesDiffer, PlaceIsFile DEF at, Disk
<1> QED BY <1>4, <1>5, <1>6 DEF e

-----------------------------------------------------------------------------
(* Steps. *)

(* A step that leaves a loop's locals and the store in use alone keeps what*)
(* is known of the loop.                                                   *)
LEMMA PollerFrame ==
    ASSUME NEW p \in Pollers, PollerInv(p),
           pc'[p] = pc[p], pos'[p] = pos[p], hashed'[p] = hashed[p], built'[p] = built[p],
           current' = current, ready => ready'
    PROVE  PollerInv(p)'
BY DEF PollerInv

(* A loop that is not inside reloadOnce has nothing to lose.               *)
LEMMA IdlePoller ==
    ASSUME NEW p \in Pollers, ready',
           pc'[p] \notin {"build", "store", "mark"}
    PROVE  PollerInv(p)'
BY DEF PollerInv

(* Two loops are never inside reloadOnce at once.                          *)
LEMMA OneReloads ==
    ASSUME TypeOK, NEW p \in Pollers, NEW q \in Pollers, p # q,
           pc[p] \in {"digest", "build", "store", "mark"}
    PROVE  pc[q] \notin {"digest", "build", "store", "mark"}
BY DEF TypeOK

(* The files exist when the process starts, and nothing has been read.     *)
LEMMA InitEstablishes == Init => ReloadInv
<1> SUFFICES ASSUME Init PROVE ReloadInv
  OBVIOUS
<1>1. disk \in Disk(Cfg) /\ Nothing \in Disk(Cfg) /\ newer(disk, Nothing)
  BY NewerThanNothing DEF Init
<1>2. Main \in Threads /\ Main \notin Pollers /\ Pollers \subseteq Threads
  BY ReloadAssumption DEF Threads
<1>3. pos \in [Threads -> 0..(2 * fileCount(Cfg))]
  BY FileCount DEF Init
<1>4. TypeOK
  <2>1. \A p \in Pollers : mu = p <=> pc[p] \in {"digest", "build", "store", "mark"}
    BY <1>2, ReloadAssumption DEF Init
  <2> QED BY Zenon, <1>1, <1>3, <2>1 DEF Init, TypeOK
<1>5. ReadBefore
  BY <1>1 DEF Init, ReadBefore
<1>6. pc[Main] = "build" /\ pos[Main] = 0
  BY <1>2 DEF Init
<1>7. SetupInv
  BY <1>6 DEF SetupInv, Places
<1>8. ASSUME NEW p \in Pollers PROVE PollerInv(p)
  BY <1>2 DEF Init, PollerInv
<1> QED BY <1>4, <1>5, <1>6, <1>7, <1>8 DEF ReloadInv, NeverBlank, DigestNeverAhead, ready

(* The operator replaces a file: what was read before is older still.      *)
LEMMA RotateKeeps ==
    ASSUME ReloadInv, NEW i \in files(Cfg), NEW part \in {"cert", "key"}, Rotate(i, part)
    PROVE  ReloadInv'
<1> USE DEF ReloadInv
<1>1. UNCHANGED <<current, digest, mu, pc, pos, hashed, built, running>>
  BY DEF Rotate, readVars
<1>2. PICK k \in Places : pairAt(k) = i /\ partAt(k) = part
  BY FileHasPlace
<1>3. at(disk, k) \in Nat /\ at(disk, k) < MaxVersion
  BY <1>2, AtIsContent DEF Rotate, TypeOK, at
<1>4. disk' = put(disk, k, at(disk, k) + 1)
  BY <1>2 DEF Rotate, at, put
<1>5. at(disk, k) + 1 \in Content
  BY <1>3, StoreAssumption DEF Content
<1>6. /\ disk' \in Disk(Cfg) /\ at(disk', k) = at(disk, k) + 1
      /\ \A j \in Places : j # k => at(disk', j) = at(disk, j)
  BY <1>4, <1>5, WriteFile DEF TypeOK
<1>7. newer(disk', disk)
  <2>1. ASSUME NEW j \in Places PROVE at(disk', j) >= at(disk, j)
    BY <1>3, <1>6, AtIsContent DEF TypeOK
  <2> QED BY <2>1, NewerByPlace
<1>8. raced' \in BOOLEAN /\ (~raced' => ~raced /\ pc[Main] \notin {"build", "digest"})
  BY Zenon DEF Rotate, TypeOK
<1>9. TypeOK'
  BY <1>1, <1>6, <1>8 DEF TypeOK
<1>10. ReadBefore'
  BY <1>1, <1>6, <1>7, NewerTransitive DEF ReadBefore, TypeOK
<1>11. SetupInv'
  BY <1>1, <1>8 DEF SetupInv
<1>12. ASSUME NEW p \in Pollers PROVE PollerInv(p)'
  BY <1>1, PollerFrame DEF ready
<1>13. NeverBlank' /\ DigestNeverAhead'
  BY <1>1, <1>8 DEF NeverBlank, DigestNeverAhead, ready, newer
<1> QED BY <1>9, <1>10, <1>11, <1>12, <1>13

(* A thread reads the next file, as it is now.                             *)
LEMMA ReadFileKeeps ==
    ASSUME ReloadInv, NEW t \in Threads, ReadFile(t)
    PROVE  ReloadInv'
<1> USE DEF ReloadInv
<1> DEFINE k == pos[t]
           v == at(disk, k)
<1>1. UNCHANGED <<disk, current, digest, mu, pc, running, raced>>
  BY DEF ReadFile
<1>2. k \in Places /\ pos' = [pos EXCEPT ![t] = k + 1]
  BY FileCount DEF ReadFile, more, TypeOK, Places
<1>3. pos' \in [Threads -> 0..(2 * fileCount(Cfg))]
  BY <1>2, FileCount DEF TypeOK, Places
<1>4. v \in Content
  <2>1. disk[pairAt(k)] \in [cert : Content, key : Content]
    BY <1>2, PlaceIsFile DEF Disk, TypeOK
  <2> QED BY <1>2, <2>1, PlaceIsFile DEF at
<1>5. ASSUME NEW d \in Disk(Cfg), newer(disk, d)
      PROVE  /\ readNext(t, d) \in Disk(Cfg)
             /\ newer(disk, readNext(t, d))
             /\ at(readNext(t, d), k) = v
             /\ \A j \in Places : j # k => at(readNext(t, d), j) = at(d, j)
  <2>1. readNext(t, d) = put(d, k, v)
    BY DEF readNext, at, put
  <2>2. /\ readNext(t, d) \in Disk(Cfg)
        /\ at(readNext(t, d), k) = v
        /\ \A j \in Places : j # k => at(readNext(t, d), j) = at(d, j)
    BY <1>2, <1>4, <2>1, WriteFile
  <2>3. ASSUME NEW j \in Places PROVE at(disk, j) >= at(readNext(t, d), j)
    BY <1>5, <2>2, NewerByPlace, AtIsContent DEF TypeOK
  <2> QED BY <2>2, <2>3, NewerByPlace
<1> HIDE DEF v
<1>6. CASE pc[t] = "digest"
  <2>1. hashed' = [hashed EXCEPT ![t] = readNext(t, hashed[t])] /\ built' = built
    BY <1>6 DEF ReadFile
  <2>2. TypeOK'
    <3>1. hashed' \in [Threads -> Disk(Cfg)]
      BY <1>5, <2>1 DEF TypeOK, ReadBefore
    <3> QED BY <1>1, <1>3, <2>1, <3>1 DEF TypeOK
  <2>3. ReadBefore'
    BY <1>1, <1>5, <2>1 DEF ReadBefore, TypeOK, newer
  <2>4. SetupInv'
    BY <1>1, <1>2, <1>6, <2>1 DEF SetupInv, TypeOK, newer
  <2>5. ASSUME NEW p \in Pollers PROVE PollerInv(p)'
    <3>1. CASE p = t
      BY <1>1, <1>6, <3>1 DEF PollerInv, ready
    <3>2. CASE p # t
      <4>1. p \in Threads
        BY DEF Threads
      <4> QED BY <1>1, <1>2, <2>1, <3>2, <4>1, PollerFrame DEF ready, TypeOK
    <3> QED BY <3>1, <3>2
  <2>6. NeverBlank' /\ DigestNeverAhead'
    BY <1>1 DEF NeverBlank, DigestNeverAhead, ready, newer
  <2> QED BY <2>2, <2>3, <2>4, <2>5, <2>6
<1>7. CASE pc[t] = "build"
  <2>1. built' = [built EXCEPT ![t] = readNext(t, built[t])] /\ hashed' = hashed
    BY <1>7 DEF ReadFile
  <2>2. TypeOK'
    <3>1. built' \in [Threads -> Disk(Cfg)]
      BY <1>5, <2>1 DEF TypeOK, ReadBefore
    <3> QED BY <1>1, <1>3, <2>1, <3>1 DEF TypeOK
  <2>3. ReadBefore'
    BY <1>1, <1>5, <2>1 DEF ReadBefore, TypeOK, newer
  <2>4. /\ at(built'[t], k) = at(disk, k)
        /\ \A j \in Places : j < k => at(built'[t], j) = at(built[t], j)
        /\ \A j \in Places : j < pos'[t] => j < k \/ j = k
    BY <1>2, <1>5, <2>1 DEF ReadBefore, TypeOK, v, Places
  <2>5. SetupInv'
    <3>1. CASE t = Main
      <4>1. ASSUME ~raced, NEW j \in Places, j < pos'[Main] 
            PROVE  at(built'[Main], j) >= at(disk, j)
        BY <1>7, <2>4, <3>1, <4>1, AtIsContent DEF SetupInv, TypeOK
      <4> QED BY <1>1, <1>7, <3>1, <4>1 DEF SetupInv
    <3>2. CASE t # Main
      <4>1. pos'[Main] = pos[Main] /\ built'[Main] = built[Main]
        BY <1>2, <2>1, <3>2 DEF TypeOK, Threads
      <4> QED BY <1>1, <4>1 DEF SetupInv, newer
    <3> QED BY <3>1, <3>2
  <2>6. ASSUME NEW p \in Pollers PROVE PollerInv(p)'
    <3>1. CASE p = t
      <4>1. ASSUME NEW j \in Places, j < pos'[p]
            PROVE  at(built'[p], j) >= at(hashed'[p], j) /\ at(built'[p], j) >= at(current, j)
        <5>1. CASE j < k
          BY <1>7, <2>1, <2>4, <3>1, <5>1 DEF PollerInv
        <5>2. CASE j = k
          BY <2>1, <2>4, <3>1, <5>2, NewerByPlace DEF ReadBefore
        <5> QED BY <2>4, <3>1, <4>1, <5>1, <5>2
      <4>2. pc'[p] = "build" /\ current' = current /\ (ready' <=> ready)
        BY <1>1, <1>7, <3>1 DEF ready
      <4>3. ready
        BY <1>7, <3>1 DEF PollerInv
      <4> QED BY <4>1, <4>2, <4>3 DEF PollerInv
    <3>2. CASE p # t
      <4>1. p \in Threads
        BY DEF Threads
      <4> QED BY <1>1, <1>2, <2>1, <3>2, <4>1, PollerFrame DEF ready, TypeOK
    <3> QED BY <3>1, <3>2
  <2>7. NeverBlank' /\ DigestNeverAhead'
    BY <1>1 DEF NeverBlank, DigestNeverAhead, ready, newer
  <2> QED BY <2>2, <2>3, <2>5, <2>6, <2>7
<1> QED BY <1>6, <1>7 DEF ReadFile

(* A thread that has no more files to read has read them all.              *)
LEMMA AllRead ==
    ASSUME TypeOK, NEW t \in Threads, ~more(t)
    PROVE  \A k \in Places : k < pos[t]
BY FileCount DEF TypeOK, more, Places

(* Returning from a call forgets the thread's readings and keeps the types.*)
LEMMA LeaveKeeps ==
    ASSUME TypeOK, ReadBefore, NEW t \in Threads, NEW l, leave(t, l), UNCHANGED disk
    PROVE  /\ pos' \in [Threads -> 0..(2 * fileCount(Cfg))]
           /\ hashed' \in [Threads -> Disk(Cfg)] /\ built' \in [Threads -> Disk(Cfg)]
           /\ \A u \in Threads : newer(disk', hashed'[u]) /\ newer(disk', built'[u])
           /\ pc' = [pc EXCEPT ![t] = l]
           /\ \A u \in Threads \ {t} :
                /\ pos'[u] = pos[u] /\ hashed'[u] = hashed[u] /\ built'[u] = built[u]
                /\ pc'[u] = pc[u]
<1>1. 0 \in 0..(2 * fileCount(Cfg))
  BY FileCount
<1> QED BY <1>1, NewerThanNothing DEF TypeOK, ReadBefore, leave, goto

(* So does going on to the next reading, which forgets nothing.            *)
LEMMA GotoKeeps ==
    ASSUME TypeOK, NEW t \in Threads, NEW l, goto(t, l)
    PROVE  /\ pos' \in [Threads -> 0..(2 * fileCount(Cfg))]
           /\ pos'[t] = 0
           /\ pc' = [pc EXCEPT ![t] = l]
           /\ \A u \in Threads \ {t} : pos'[u] = pos[u] /\ pc'[u] = pc[u]
<1>1. 0 \in 0..(2 * fileCount(Cfg))
  BY FileCount
<1> QED BY <1>1 DEF TypeOK, goto

(* A loop that OnStartup has not started owes nothing.                     *)
LEMMA NewPoller ==
    ASSUME NEW p, pc'[p] = "new"
    PROVE  PollerInv(p)'
BY DEF PollerInv

(* setup has built its store.                                              *)
LEMMA SetupBuiltKeeps ==
    ASSUME ReloadInv, SetupBuilt
    PROVE  ReloadInv'
<1> USE DEF ReloadInv
<1>1. pc[Main] = "build" /\ ~more(Main) /\ UNCHANGED <<disk, current, digest, mu, running, raced>>
  BY DEF SetupBuilt
<1>2. Main \in Threads /\ Main \notin Pollers /\ Pollers \subseteq Threads
  BY ReloadAssumption DEF Threads
<1>3. \A p \in Pollers : pc[p] = "new"
  BY <1>1 DEF PollerInv, ready
<1>4. CASE loadable(Cfg, bytes(built[Main]))
  <2>1. goto(Main, "digest") /\ UNCHANGED <<hashed, built>>
    BY <1>4 DEF SetupBuilt
  <2>2. TypeOK'
    BY <1>1, <1>2, <2>1, GotoKeeps DEF TypeOK
  <2>3. pc'[Main] = "digest"
    BY <1>2, <2>1, GotoKeeps DEF TypeOK
  <2>4. ~raced => newer(built[Main], disk)
    BY <1>1, <1>2, AllRead, NewerByPlace DEF SetupInv
  <2>5. SetupInv'
    BY <1>1, <1>4, <2>1, <2>3, <2>4 DEF SetupInv, newer
  <2>6. ASSUME NEW p \in Pollers PROVE PollerInv(p)'
    <3>1. pc'[p] = pc[p]
      BY <1>2, <2>1, GotoKeeps
    <3> QED BY Zenon, <1>3, <3>1, NewPoller
  <2> QED BY <1>1, <2>1, <2>2, <2>3, <2>5, <2>6 DEF ReadBefore, newer, NeverBlank,
                                                   DigestNeverAhead, ready
<1>5. CASE ~loadable(Cfg, bytes(built[Main]))
  <2>1. leave(Main, "failed")
    BY <1>5 DEF SetupBuilt
  <2>2. TypeOK' /\ pc'[Main] = "failed"
    BY <1>1, <1>2, <2>1, LeaveKeeps DEF TypeOK
  <2>3. ReadBefore'
    BY <1>1, <1>2, <2>1, LeaveKeeps DEF ReadBefore, newer
  <2>4. ASSUME NEW p \in Pollers PROVE PollerInv(p)'
    <3>1. pc'[p] = pc[p]
      BY <1>1, <1>2, <2>1, LeaveKeeps
    <3> QED BY Zenon, <1>3, <3>1, NewPoller
  <2> QED BY <2>2, <2>3, <2>4 DEF SetupInv, NeverBlank, DigestNeverAhead, ready
<1> QED BY <1>4, <1>5

(* setup hands over the store it built.                                    *)
LEMMA NewLiveStoreKeeps ==
    ASSUME ReloadInv, newLiveStore
    PROVE  ReloadInv'
<1> USE DEF ReloadInv
<1>1. /\ pc[Main] = "digest" /\ leave(Main, "ready")
      /\ current' = built[Main] /\ digest' = hashed[Main]
      /\ UNCHANGED <<disk, mu, running, raced>>
  BY DEF newLiveStore
<1>2. Main \in Threads /\ Main \notin Pollers /\ Pollers \subseteq Threads
  BY ReloadAssumption DEF Threads
<1>3. \A p \in Pollers : pc[p] = "new"
  BY <1>1 DEF PollerInv, ready
<1>4. TypeOK' /\ pc'[Main] = "ready"
  BY <1>1, <1>2, LeaveKeeps DEF TypeOK
<1>5. ReadBefore'
  BY <1>1, <1>2, LeaveKeeps DEF ReadBefore, newer
<1>6. ASSUME NEW p \in Pollers PROVE PollerInv(p)'
  <2>1. pc'[p] = pc[p]
    BY <1>1, <1>2, LeaveKeeps
  <2> QED BY Zenon, <1>3, <2>1, NewPoller
<1>7. ~raced => newer(built[Main], hashed[Main])
  BY <1>1, <1>2, NewerTransitive DEF SetupInv, ReadBefore, TypeOK
<1>8. NeverBlank' /\ DigestNeverAhead'
  BY Zenon, <1>1, <1>7 DEF SetupInv, NeverBlank, DigestNeverAhead, newer
<1> QED BY ZenonT(60), <1>4, <1>5, <1>6, <1>8 DEF SetupInv

(* Hooks, ticks and reloadMu move a loop without touching a store.         *)
LEMMA LoopKeeps ==
    ASSUME ReloadInv, NEW p \in Pollers, OnStartup(p) \/ Exit(p) \/ Tick(p) \/ Lock(p)
    PROVE  ReloadInv'
<1> USE DEF ReloadInv
<1>1. UNCHANGED <<disk, current, digest, pos, hashed, built, raced>>
  BY DEF OnStartup, Exit, Tick, Lock, readVars
<1>2. Main \in Threads /\ Main \notin Pollers /\ Pollers \subseteq Threads
  BY ReloadAssumption DEF Threads
<1>3. PICK l \in {"select", "gone", "lock", "digest"} : pc' = [pc EXCEPT ![p] = l]
  BY DEF OnStartup, Exit, Tick, Lock
<1>4. /\ pc'[p] = l /\ ready /\ \A t \in Threads \ {p} : pc'[t] = pc[t]
      /\ pc' \in [Threads -> {"new", "select", "lock", "digest", "build", "store",
                              "mark", "gone", "ready", "failed"}]
  BY <1>2, <1>3 DEF OnStartup, Exit, Tick, Lock, PollerInv, ready, TypeOK
<1>5. /\ \A q \in Pollers : mu' = q <=> pc'[q] \in {"digest", "build", "store", "mark"}
      /\ mu' \in Pollers \cup {NoPoller} /\ running' \in Pollers \cup {NoPoller}
  <2>1. CASE Lock(p)
    BY <1>2, <2>1, ReloadAssumption DEF Lock, TypeOK
  <2>2. CASE OnStartup(p) \/ Exit(p) \/ Tick(p)
    BY <1>2, <2>2 DEF OnStartup, Exit, Tick, TypeOK
  <2> QED BY <2>1, <2>2
<1>6. TypeOK'
  BY <1>1, <1>4, <1>5 DEF TypeOK
<1>7. ready'
  BY <1>2, <1>4 DEF ready
<1>8. ASSUME NEW q \in Pollers PROVE PollerInv(q)'
  <2>1. CASE q = p
    BY <1>4, <1>7, <2>1, IdlePoller
  <2>2. CASE q # p
    BY <1>1, <1>2, <1>4, <1>7, <2>2, PollerFrame
  <2> QED BY <2>1, <2>2
<1>9. ReadBefore' /\ SetupInv' /\ NeverBlank' /\ DigestNeverAhead'
  BY <1>1, <1>2, <1>4 DEF ReadBefore, SetupInv, NeverBlank, DigestNeverAhead, ready, newer
<1> QED BY <1>6, <1>8, <1>9

(* reloadOnce returns early: the digest is the old one, or the files do    *)
(* not load.                                                               *)
LEMMA ReturnKeeps ==
    ASSUME ReloadInv, NEW p \in Pollers, return(p), mu = p,
           UNCHANGED <<disk, current, digest, running, raced>>
    PROVE  ReloadInv'
<1> USE DEF ReloadInv
<1>1. Main \in Threads /\ Main \notin Pollers /\ Pollers \subseteq Threads
  BY ReloadAssumption DEF Threads
<1>2. leave(p, "select") /\ mu' = NoPoller
  BY DEF return
<1>3. /\ pc' = [pc EXCEPT ![p] = "select"] /\ pc'[p] = "select"
      /\ \A t \in Threads \ {p} : /\ pos'[t] = pos[t] /\ hashed'[t] = hashed[t]
                                  /\ built'[t] = built[t] /\ pc'[t] = pc[t]
  BY <1>1, <1>2, LeaveKeeps DEF TypeOK
<1>4. ready /\ ready'
  BY <1>1, <1>3 DEF PollerInv, TypeOK, ready
<1>5. TypeOK'
  <2>1. \A q \in Pollers : mu' = q <=> pc'[q] \in {"digest", "build", "store", "mark"}
    BY <1>1, <1>2, <1>3, ReloadAssumption DEF TypeOK
  <2>2. pc' \in [Threads -> {"new", "select", "lock", "digest", "build", "store",
                              "mark", "gone", "ready", "failed"}]
    BY <1>3 DEF TypeOK
  <2> QED BY <1>1, <1>2, <2>1, <2>2, LeaveKeeps DEF TypeOK
<1>6. ReadBefore'
  BY <1>1, <1>2, LeaveKeeps DEF ReadBefore, newer
<1>7. ASSUME NEW q \in Pollers PROVE PollerInv(q)'
  <2>1. CASE q = p
    BY <1>3, <1>4, <2>1, IdlePoller
  <2>2. CASE q # p
    BY <1>1, <1>3, <1>4, <2>2, PollerFrame
  <2> QED BY <2>1, <2>2
<1>8. SetupInv' /\ NeverBlank' /\ DigestNeverAhead'
  BY <1>1, <1>3, <1>4 DEF SetupInv, NeverBlank, DigestNeverAhead, ready, newer
<1> QED BY <1>5, <1>6, <1>7, <1>8

(* The loop goes on to the next part of reloadOnce.                        *)
LEMMA GoOnKeeps ==
    ASSUME ReloadInv, NEW p \in Pollers, NEW l \in {"build", "store"}, goto(p, l), mu = p,
           l = "store" => /\ pc[p] = "build" /\ ~more(p)
                          /\ loadable(Cfg, bytes(built[p])),
           UNCHANGED <<disk, current, digest, mu, hashed, built, running, raced>>
    PROVE  ReloadInv'
<1> USE DEF ReloadInv
<1>1. Main \in Threads /\ Main \notin Pollers /\ Pollers \subseteq Threads
  BY ReloadAssumption DEF Threads
<1>2. /\ pc' = [pc EXCEPT ![p] = l] /\ pc'[p] = l /\ pos'[p] = 0
      /\ \A t \in Threads \ {p} : pos'[t] = pos[t] /\ pc'[t] = pc[t]
  BY <1>1, GotoKeeps DEF TypeOK
<1>3. ready /\ ready'
  BY <1>1, <1>2 DEF PollerInv, TypeOK, ready
<1>4. TypeOK'
  <2>1. \A q \in Pollers : mu' = q <=> pc'[q] \in {"digest", "build", "store", "mark"}
    BY <1>1, <1>2 DEF TypeOK
  <2>2. pc' \in [Threads -> {"new", "select", "lock", "digest", "build", "store",
                              "mark", "gone", "ready", "failed"}]
    BY ZenonT(60), <1>2 DEF TypeOK
  <2> QED BY <1>1, <2>1, <2>2, GotoKeeps DEF TypeOK
<1>5. ASSUME NEW q \in Pollers PROVE PollerInv(q)'
  <2>1. CASE q = p /\ l = "build"
    <3>1. \A k \in Places : ~(k < pos'[q])
      <4>1. pos'[q] = 0
        BY Zenon, <1>2, <2>1
      <4>2. \A k \in Places : ~(k < 0)
        BY DEF Places
      <4> QED BY Zenon, <4>1, <4>2
    <3> QED BY <1>2, <1>3, <2>1, <3>1 DEF PollerInv
  <2>2. CASE q = p /\ l = "store"
    <3>1. newer(built[p], hashed[p]) /\ newer(built[p], current)
      BY <1>1, <2>2, AllRead, NewerByPlace DEF PollerInv
    <3> QED BY <1>2, <1>3, <2>2, <3>1 DEF PollerInv
  <2>3. CASE q # p
    BY <1>1, <1>2, <1>3, <2>3, PollerFrame
  <2> QED BY <2>1, <2>2, <2>3
<1>6. ReadBefore' /\ SetupInv' /\ NeverBlank' /\ DigestNeverAhead'
  BY <1>1, <1>2, <1>3 DEF ReadBefore, SetupInv, NeverBlank, DigestNeverAhead, ready, newer
<1> QED BY ZenonT(60), <1>4, <1>5, <1>6

(* The loop installs the store it built.                                   *)
LEMMA StoreCurrentKeeps ==
    ASSUME ReloadInv, NEW p \in Pollers, StoreCurrent(p)
    PROVE  ReloadInv' /\ newer(current', current)
<1> USE DEF ReloadInv
<1>1. Main \in Threads /\ Main \notin Pollers /\ Pollers \subseteq Threads
  BY ReloadAssumption DEF Threads
<1>2. /\ pc[p] = "store" /\ current' = built[p]
      /\ pc' = [pc EXCEPT ![p] = "mark"] /\ pc'[p] = "mark"
      /\ \A t \in Threads \ {p} : pc'[t] = pc[t]
      /\ UNCHANGED <<disk, digest, mu, pos, hashed, built, running, raced>>
  BY <1>1 DEF StoreCurrent, TypeOK, readVars
<1>3. ready /\ ready'
  BY <1>1, <1>2 DEF PollerInv, TypeOK, ready
<1>4. /\ newer(built[p], hashed[p]) /\ newer(built[p], current)
      /\ loadable(Cfg, bytes(built[p]))
      /\ {current, digest, built[p]} \subseteq Disk(Cfg)
  BY <1>1, <1>2 DEF PollerInv, TypeOK
<1>5. TypeOK'
  <2>1. \A q \in Pollers : mu' = q <=> pc'[q] \in {"digest", "build", "store", "mark"}
    BY <1>1, <1>2 DEF TypeOK
  <2>2. pc' \in [Threads -> {"new", "select", "lock", "digest", "build", "store",
                              "mark", "gone", "ready", "failed"}]
    BY <1>2 DEF TypeOK
  <2> QED BY <1>2, <1>4, <2>1, <2>2 DEF TypeOK
<1>6. ASSUME NEW q \in Pollers PROVE PollerInv(q)'
  <2>1. CASE q = p
    BY <1>2, <1>3, <1>4, <2>1, NewerReflexive DEF PollerInv, newer
  <2>2. CASE q # p
    BY <1>1, <1>2, <1>3, <2>2, OneReloads, IdlePoller
  <2> QED BY <2>1, <2>2
<1>7. ~raced => newer(built[p], digest)
  BY ZenonT(60), <1>3, <1>4, NewerTransitive DEF DigestNeverAhead
<1>8. ReadBefore' /\ SetupInv' /\ NeverBlank' /\ DigestNeverAhead'
  BY Zenon, <1>1, <1>2, <1>3, <1>4, <1>7
     DEF ReadBefore, SetupInv, NeverBlank, DigestNeverAhead, ready, newer
<1> QED BY Zenon, <1>2, <1>4, <1>5, <1>6, <1>8

(* The loop marks it with the digest it took before.                       *)
LEMMA StoreDigestKeeps ==
    ASSUME ReloadInv, NEW p \in Pollers, StoreDigest(p)
    PROVE  ReloadInv'
<1> USE DEF ReloadInv
<1>1. Main \in Threads /\ Main \notin Pollers /\ Pollers \subseteq Threads
  BY ReloadAssumption DEF Threads
<1>2. /\ pc[p] = "mark" /\ digest' = hashed[p] /\ leave(p, "select") /\ mu' = NoPoller
      /\ UNCHANGED <<disk, current, running, raced>>
  BY DEF StoreDigest, return
<1>3. /\ pc' = [pc EXCEPT ![p] = "select"] /\ pc'[p] = "select"
      /\ \A t \in Threads \ {p} : /\ pos'[t] = pos[t] /\ hashed'[t] = hashed[t]
                                  /\ built'[t] = built[t] /\ pc'[t] = pc[t]
  BY <1>1, <1>2, LeaveKeeps DEF TypeOK
<1>4. ready /\ ready'
  BY <1>1, <1>2, <1>3 DEF PollerInv, TypeOK, ready
<1>5. TypeOK'
  <2>1. \A q \in Pollers : mu' = q <=> pc'[q] \in {"digest", "build", "store", "mark"}
    BY <1>1, <1>2, <1>3, ReloadAssumption DEF TypeOK
  <2>2. pc' \in [Threads -> {"new", "select", "lock", "digest", "build", "store",
                              "mark", "gone", "ready", "failed"}]
    BY ZenonT(60), <1>3 DEF TypeOK
  <2>3. digest' \in Disk(Cfg)
    BY <1>1, <1>2 DEF TypeOK
  <2> QED BY <1>1, <1>2, <2>1, <2>2, <2>3, LeaveKeeps DEF TypeOK
<1>6. ReadBefore'
  BY Zenon, <1>1, <1>2, LeaveKeeps DEF ReadBefore, newer
<1>7. ASSUME NEW q \in Pollers PROVE PollerInv(q)'
  <2>1. CASE q = p
    BY <1>3, <1>4, <2>1, IdlePoller
  <2>2. CASE q # p
    BY <1>1, <1>2, <1>3, <1>4, <2>2, PollerFrame
  <2> QED BY <2>1, <2>2
<1>8. newer(current, hashed[p])
  BY <1>2 DEF PollerInv
<1>9. SetupInv' /\ NeverBlank' /\ DigestNeverAhead'
  BY <1>1, <1>2, <1>3, <1>4, <1>8 DEF SetupInv, NeverBlank, DigestNeverAhead, ready, newer
<1> QED BY <1>5, <1>6, <1>7, <1>9

(* Every step keeps the invariant, and after setup never replaces the store*)
(* by one that has an older file.                                          *)
LEMMA StepKeeps ==
    ReloadInv /\ [Next]_vars => ReloadInv' /\ (ready => newer(current', current))
<1> SUFFICES ASSUME ReloadInv, [Next]_vars
             PROVE  ReloadInv' /\ (ready => newer(current', current))
  OBVIOUS
<1>0. current \in Disk(Cfg) /\ newer(current, current)
  BY NewerReflexive DEF ReloadInv, TypeOK
<1>1. ASSUME NEW i \in files(Cfg), NEW part \in {"cert", "key"}, Rotate(i, part)
      PROVE  ReloadInv' /\ current' = current
  BY Zenon, <1>1, RotateKeeps DEF Rotate
<1>2. CASE SetupBuilt
  BY <1>0, <1>2, SetupBuiltKeeps DEF SetupBuilt
<1>3. CASE newLiveStore
  BY <1>3, NewLiveStoreKeeps DEF newLiveStore, ready
<1>4. ASSUME NEW t \in Threads, ReadFile(t) PROVE ReloadInv' /\ current' = current
  BY Zenon, <1>4, ReadFileKeeps DEF ReadFile
<1>5. ASSUME NEW p \in Pollers, OnStartup(p) \/ Exit(p) \/ Tick(p) \/ Lock(p)
      PROVE  ReloadInv' /\ current' = current
  BY <1>5, LoopKeeps DEF OnStartup, Exit, Tick, Lock
<1>6. ASSUME NEW p \in Pollers, Compare(p) PROVE ReloadInv' /\ current' = current
  <2>1. mu = p /\ UNCHANGED <<disk, current, digest, running, raced>>
    BY <1>6 DEF Compare, ReloadInv, TypeOK
  <2>2. \/ return(p)
        \/ goto(p, "build") /\ UNCHANGED <<mu, hashed, built>>
    BY <1>6 DEF Compare
  <2> QED BY Zenon, <2>1, <2>2, ReturnKeeps, GoOnKeeps
<1>7. ASSUME NEW p \in Pollers, Build(p) PROVE ReloadInv' /\ current' = current
  <2>1. /\ mu = p /\ pc[p] = "build" /\ ~more(p)
        /\ UNCHANGED <<disk, current, digest, running, raced>>
    BY <1>7 DEF Build, ReloadInv, TypeOK
  <2>2. \/ return(p)
        \/ /\ loadable(Cfg, bytes(built[p]))
           /\ goto(p, "store") /\ UNCHANGED <<mu, hashed, built>>
    BY <1>7 DEF Build
  <2> QED BY <2>1, <2>2, ReturnKeeps, GoOnKeeps
<1>8. ASSUME NEW p \in Pollers, StoreCurrent(p)
      PROVE  ReloadInv' /\ newer(current', current)
  BY <1>8, StoreCurrentKeeps
<1>9. ASSUME NEW p \in Pollers, StoreDigest(p) PROVE ReloadInv' /\ current' = current
  BY <1>9, StoreDigestKeeps DEF StoreDigest
<1>10. CASE OnShutdown \/ UNCHANGED vars
  <2>1. UNCHANGED <<disk, current, digest, mu, pc, pos, hashed, built, raced>>
    BY <1>10 DEF OnShutdown, vars, readVars
  <2>2. TypeOK'
    BY <1>10, <2>1 DEF OnShutdown, vars, ReloadInv, TypeOK
  <2>3. ReadBefore' /\ SetupInv' /\ NeverBlank' /\ DigestNeverAhead'
    BY <2>1 DEF ReloadInv, ReadBefore, SetupInv, NeverBlank, DigestNeverAhead, ready, newer
  <2>4. ASSUME NEW p \in Pollers PROVE PollerInv(p)'
    BY <2>1, PollerFrame DEF ReloadInv, ready
  <2> QED BY <1>0, <2>1, <2>2, <2>3, <2>4 DEF ReloadInv
<1>11. Main \in Threads /\ Pollers \subseteq Threads
  BY DEF Threads
<1> QED BY <1>0, <1>1, <1>2, <1>3, <1>4, <1>5, <1>6, <1>7, <1>8, <1>9, <1>10, <1>11
        DEF Next, setup, reloadOnce

-----------------------------------------------------------------------------
(* ReloadInv holds in every reachable state. *)
THEOREM ReloadInvariant == Spec => []ReloadInv
<1>1. ReloadInv /\ [Next]_vars => ReloadInv'
  BY StepKeeps
<1> QED BY <1>1, InitEstablishes, PTL DEF Spec

(* From setup on, the store every handshake reads was built without error, *)
(* however the files change while setup and the poll loops read them.      *)
THEOREM NeverBlankAlways == Spec => []NeverBlank
<1>1. ReloadInv => NeverBlank
  BY DEF ReloadInv
<1> QED BY <1>1, ReloadInvariant, PTL

(* After a setup that no rotation raced, no certificate in the store is    *)
(* older than the one the digest beside it was taken of.                   *)
THEOREM DigestNeverAheadAlways == Spec => []DigestNeverAhead
<1>1. ReloadInv => DigestNeverAhead
  BY DEF ReloadInv
<1> QED BY <1>1, ReloadInvariant, PTL

(* No reload, of any number of loops, brings a replaced file back.         *)
THEOREM NoRollback == Spec => NeverRollsBack
<1>1. ReloadInv /\ [Next]_vars => [ready => newer(current', current)]_vars
  BY StepKeeps
<1> QED BY <1>1, ReloadInvariant, PTL DEF Spec, NeverRollsBack

=============================================================================
