----------------------------- MODULE SniReload -----------------------------
(***************************************************************************)
(* One liveStore of sni_tls (reload.go, setup.go): setup loads the cert    *)
(* files and takes their digest, poll loops reload them when the digest    *)
(* changes, and an operator rotates the files meanwhile.                   *)
(*                                                                         *)
(* Files are read one at a time, in the order of cfg.files(), each pair's  *)
(* certificate before its key, so every read can see a different state of  *)
(* a rotation.  A digest is the list of contents that was hashed, and a    *)
(* store is represented by the contents it was built from (CertStore says  *)
(* which store that is); SHA-256 is taken to be free of collisions.        *)
(*                                                                         *)
(* A file's version counts its changes, and Issue says which content each  *)
(* version has: an operator who takes a rotation back brings an earlier    *)
(* content back under a later version.                                     *)
(***************************************************************************)
EXTENDS CertStore

CONSTANTS
    Cfg,       \* the server block's options
    Pollers,   \* the poll loops OnStartup starts over the store's life
    Main,      \* caddy's goroutine, which runs setup
    NoPoller,
    Issue      \* the content of each version, 0 for no file

ASSUME ReloadAssumption ==
    /\ Cfg \in storeConfig
    /\ NoPoller \notin Pollers
    /\ Main \notin Pollers
    /\ Issue \in [0..MaxVersion -> 0..MaxVersion]
    /\ \A v \in 0..MaxVersion : Issue[v] = 0 <=> v = 0

Threads == Pollers \cup {Main}

VARIABLES
    disk,     \* what the files hold
    current,  \* the contents the served store was built from
    digest,   \* the contents l.digest is the hash of
    mu,       \* the holder of reloadMu, or NoPoller
    pc,       \* where each thread is in setup, or in run and reloadOnce
    pos,      \* how many files each thread's digestPairs or buildCertStore read
    hashed,   \* the contents its digestPairs has read so far
    built,    \* the contents its buildCertStore has read so far
    running,  \* l.running: the registered poll loop, or NoPoller
    raced     \* history: a file changed while setup was reading

(* The octets in the files whose versions d gives.                         *)
bytes(d) == [i \in files(Cfg) |-> [cert |-> Issue[d[i].cert], key |-> Issue[d[i].key]]]

readVars == <<pos, hashed, built>>
vars == <<disk, current, digest, mu, pc, readVars, running, raced>>

Nothing == [i \in files(Cfg) |-> [cert |-> 0, key |-> 0]]

(* The files exist already, except for pairs that have not been issued yet.*)
Init ==
    /\ disk \in {d \in Disk(Cfg) : \A i \in files(Cfg) :
                    d[i].cert = d[i].key /\ d[i].cert \in {0, 1}}
    /\ current = Nothing
    /\ digest = Nothing
    /\ mu = NoPoller
    /\ pc = [t \in Threads |-> IF t = Main THEN "build" ELSE "new"]
    /\ pos = [t \in Threads |-> 0]
    /\ hashed = [t \in Threads |-> Nothing]
    /\ built = [t \in Threads |-> Nothing]
    /\ running = NoPoller
    /\ raced = FALSE

-----------------------------------------------------------------------------
(* The operator replaces one file.  A key pair's two files are replaced one *)
(* after the other, in either order.                                       *)
Rotate(i, part) ==
    /\ disk[i][part] < MaxVersion
    /\ disk' = [disk EXCEPT ![i][part] = @ + 1]
    /\ raced' = (raced \/ pc[Main] \in {"build", "digest"})
    /\ UNCHANGED <<current, digest, mu, pc, readVars, running>>

-----------------------------------------------------------------------------
(* digestPairs and buildCertStore read the files of cfg.files() in turn.   *)

more(t) == pos[t] < 2 * fileCount(Cfg)
pairAt(k) == (k \div 2) + 1
partAt(k) == IF k % 2 = 0 THEN "cert" ELSE "key"

readNext(t, seen) ==
    [seen EXCEPT ![pairAt(pos[t])][partAt(pos[t])] =
        disk[pairAt(pos[t])][partAt(pos[t])]]

ReadFile(t) ==
    /\ more(t)
    /\ pos' = [pos EXCEPT ![t] = @ + 1]
    /\ \/ /\ pc[t] = "digest"
          /\ hashed' = [hashed EXCEPT ![t] = readNext(t, @)]
          /\ UNCHANGED built
       \/ /\ pc[t] = "build"
          /\ built' = [built EXCEPT ![t] = readNext(t, @)]
          /\ UNCHANGED hashed
    /\ UNCHANGED <<disk, current, digest, mu, pc, running, raced>>

(* The reading is over and the next one starts from the first file.        *)
goto(t, label) ==
    /\ pc' = [pc EXCEPT ![t] = label]
    /\ pos' = [pos EXCEPT ![t] = 0]

(* A call returns and its locals are gone.                                 *)
leave(t, label) ==
    /\ goto(t, label)
    /\ hashed' = [hashed EXCEPT ![t] = Nothing]
    /\ built' = [built EXCEPT ![t] = Nothing]

-----------------------------------------------------------------------------
(* setup: buildCertStore, then digestPairs *)

SetupBuilt ==
    /\ pc[Main] = "build" /\ ~more(Main)
    /\ IF loadable(Cfg, bytes(built[Main]))
       THEN goto(Main, "digest") /\ UNCHANGED <<hashed, built>>
       ELSE leave(Main, "failed")
    /\ UNCHANGED <<disk, current, digest, mu, running, raced>>

newLiveStore ==
    /\ pc[Main] = "digest" /\ ~more(Main)
    /\ current' = built[Main]
    /\ digest' = hashed[Main]
    /\ leave(Main, "ready")
    /\ UNCHANGED <<disk, mu, running, raced>>

setup == ReadFile(Main) \/ SetupBuilt \/ newLiveStore

-----------------------------------------------------------------------------
(* The poll loops.  A loop is cancelled when it is not the registered one; *)
(* it finishes the reload it is in, and as select picks between a tick and *)
(* a cancellation at random it may even begin another.                     *)

OnStartup(p) ==
    /\ pc[Main] = "ready"
    /\ pc[p] = "new"
    /\ running' = p
    /\ pc' = [pc EXCEPT ![p] = "select"]
    /\ UNCHANGED <<disk, current, digest, mu, readVars, raced>>

OnShutdown ==
    /\ running # NoPoller
    /\ running' = NoPoller
    /\ UNCHANGED <<disk, current, digest, mu, pc, readVars, raced>>

Exit(p) ==
    /\ pc[p] = "select"
    /\ running # p
    /\ pc' = [pc EXCEPT ![p] = "gone"]
    /\ UNCHANGED <<disk, current, digest, mu, readVars, running, raced>>

Tick(p) ==
    /\ pc[p] = "select"
    /\ pc' = [pc EXCEPT ![p] = "lock"]
    /\ UNCHANGED <<disk, current, digest, mu, readVars, running, raced>>

(* Mutant of Lock: reloads without reloadMu.                               *)
LockUnguarded(p) ==
    /\ pc[p] = "lock"
    /\ mu' = p
    /\ pc' = [pc EXCEPT ![p] = "digest"]
    /\ UNCHANGED <<disk, current, digest, readVars, running, raced>>

Lock(p) ==
    /\ pc[p] = "lock"
    /\ mu = NoPoller
    /\ mu' = p
    /\ pc' = [pc EXCEPT ![p] = "digest"]
    /\ UNCHANGED <<disk, current, digest, readVars, running, raced>>

(* reloadOnce returns and the deferred unlock runs.                        *)
return(p) == leave(p, "select") /\ mu' = NoPoller

Compare(p) ==
    /\ pc[p] = "digest" /\ ~more(p)
    /\ IF bytes(hashed[p]) = bytes(digest)
       THEN return(p)
       ELSE goto(p, "build") /\ UNCHANGED <<mu, hashed, built>>
    /\ UNCHANGED <<disk, current, digest, running, raced>>

(* Mutant of Build: an error of buildCertStore is ignored.                 *)
BuildUnchecked(p) ==
    /\ pc[p] = "build" /\ ~more(p)
    /\ goto(p, "store")
    /\ UNCHANGED <<disk, current, digest, mu, hashed, built, running, raced>>

Build(p) ==
    /\ pc[p] = "build" /\ ~more(p)
    /\ IF loadable(Cfg, bytes(built[p]))
       THEN goto(p, "store") /\ UNCHANGED <<mu, hashed, built>>
       ELSE return(p)
    /\ UNCHANGED <<disk, current, digest, running, raced>>

StoreCurrent(p) ==
    /\ pc[p] = "store"
    /\ current' = built[p]
    /\ pc' = [pc EXCEPT ![p] = "mark"]
    /\ UNCHANGED <<disk, digest, mu, readVars, running, raced>>

(* Mutant of StoreDigest: the digest is taken after the store was built.   *)
StoreDigestLate(p) ==
    /\ pc[p] = "mark"
    /\ digest' = disk
    /\ return(p)
    /\ UNCHANGED <<disk, current, running, raced>>

StoreDigest(p) ==
    /\ pc[p] = "mark"
    /\ digest' = hashed[p]
    /\ return(p)
    /\ UNCHANGED <<disk, current, running, raced>>

reloadOnce(p) ==
    Lock(p) \/ ReadFile(p) \/ Compare(p) \/ Build(p) \/ StoreCurrent(p)
        \/ StoreDigest(p)

Next ==
    \/ \E i \in files(Cfg), part \in {"cert", "key"} : Rotate(i, part)
    \/ setup
    \/ \E p \in Pollers : OnStartup(p) \/ Exit(p) \/ Tick(p) \/ reloadOnce(p)
    \/ OnShutdown

Spec == Init /\ [][Next]_vars

(* setup runs to its end, the ticker keeps ticking and a started reload is *)
(* carried through; nothing makes caddy call a hook or the operator rotate.*)
Fairness ==
    /\ WF_vars(setup)
    /\ \A p \in Pollers : WF_vars(Tick(p)) /\ WF_vars(reloadOnce(p))

FairSpec == Spec /\ Fairness

-----------------------------------------------------------------------------
(* Properties *)

ready == pc[Main] = "ready"

UpToDate ==
    /\ loadable(Cfg, bytes(disk)) /\ loadable(Cfg, bytes(current))
    /\ buildCertStore(Cfg, bytes(current)) = buildCertStore(Cfg, bytes(disk))

(* Type invariant.  Also: the loop that holds reloadMu is the one inside   *)
(* reloadOnce.                                                             *)
TypeOK ==
    /\ \A p \in Pollers : mu = p <=> pc[p] \in {"digest", "build", "store", "mark"}
    /\ disk \in Disk(Cfg) /\ current \in Disk(Cfg) /\ digest \in Disk(Cfg)
    /\ mu \in Pollers \cup {NoPoller}
    /\ running \in Pollers \cup {NoPoller}
    /\ pc \in [Threads -> {"new", "select", "lock", "digest", "build", "store",
                          "mark", "gone", "ready", "failed"}]
    /\ pos \in [Threads -> 0..(2 * fileCount(Cfg))]
    /\ hashed \in [Threads -> Disk(Cfg)] /\ built \in [Threads -> Disk(Cfg)]
    /\ raced \in BOOLEAN

(* The listener is never blank: from setup on, the store every handshake   *)
(* reads was built without error, so that each certificate in it came with *)
(* its own key although the files change one at a time while they are read.*)
NeverBlank == ready => loadable(Cfg, bytes(current))

(* newer(d, e): no file is older in d than in e.                           *)
newer(d, e) ==
    \A i \in files(Cfg) : d[i].cert >= e[i].cert /\ d[i].key >= e[i].key

(* liveStore's comment: an older certificate must not end up installed     *)
(* beside a newer digest, for then no poll would ever replace it.  This is *)
(* what reloadMu and reading the digest before the store are for; it needs *)
(* setup, which reads in the other order, not to have raced a rotation.    *)
DigestNeverAhead == ready /\ ~raced => newer(current, digest)

(* Two loops of one store never bring a replaced file back: once a reload  *)
(* has installed a content, no later store has an older one.               *)
NeverRollsBack == [][ready => newer(current', current)]_vars

(* While some poll loop stays registered and the files stay loadable, the  *)
(* store in use ends up being the one the files on disk make.              *)
CatchesUp ==
    <>[](running # NoPoller /\ loadable(Cfg, bytes(disk)))
        => <>[]UpToDate

(* The same for a setup that no rotation raced.  It needs contents that do *)
(* not come back: a poll that takes the digest of a rotation, builds from  *)
(* the files after it was taken back, and marks that store with the digest *)
(* never replaces it once the rotation is made again.                      *)
CatchesUpUnraced == [](~raced) => CatchesUp

=============================================================================
