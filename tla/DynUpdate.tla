----------------------------- MODULE DynUpdate -----------------------------
(***************************************************************************)
(* The dynupdate plugin at run time: goroutines serving UPDATE messages    *)
(* (Updaters) and goroutines serving queries and zone transfers (Readers)  *)
(* share the authoritative records d.rrs, the servable view d.view built   *)
(* from them and the lock d.mu.                                            *)
(*                                                                         *)
(* serveUpdate is cut where another goroutine can run or where a loop goes *)
(* round: receive, lock, check, one step per update record, commit,        *)
(* notify, reply, unlock.  A reader holds the read lock for one pointer    *)
(* copy, so taking a snapshot is a single step that needs the lock free.   *)
(***************************************************************************)
EXTENDS ZoneOps

CONSTANTS
    Updaters,     \* goroutines serving UPDATE
    Readers,      \* goroutines serving a query or a transfer
    Nobody,       \* d.mu is not held for writing
    Messages,     \* the UPDATE messages clients send
    Seed,         \* the records of the seed zone file
    HasXfer,      \* the transfer plugin is in the server block (d.Xfer # nil)
    LossyNotify,  \* whether a NOTIFY can fail to reach a secondary
    MaxRestarts   \* bound: how often the process is restarted

Rcodes == {"NOERROR", "FORMERR", "NOTAUTH", "REFUSED", "NOTZONE", "NXDOMAIN",
           "YXDOMAIN", "NXRRSET", "YXRRSET", "SERVFAIL"}

-----------------------------------------------------------------------------
(* What makes a record set a zone: the properties the update rules keep.   *)

OneSOA(z) ==
    /\ hasSOA(z)
    /\ \A r \in z : r.type = "SOA" => r.name = Apex /\ r.data \in Serials
    /\ \A r, s \in z : r.type = "SOA" /\ s.type = "SOA" => r = s

HasApexNS(z) == rrsetExists(z, Apex, "NS")

CNAMEAlone(z) ==
    \A r, s \in z :
        r.type = "CNAME" /\ s.name = r.name
            => s = r \/ s.type \in {"RRSIG", "NSEC"}

NoDuplicates(z) == \A r, s \in z : sameRR(r, s) => r = s

WellFormed(z) ==
    OneSOA(z) /\ HasApexNS(z) /\ CNAMEAlone(z) /\ NoDuplicates(z)

(* A message as the library unpacks it: an added SOA carries a serial.     *)
ParsedMessage(m) ==
    \A i \in DOMAIN m.updates :
        m.updates[i].class = "IN" =>
            /\ m.updates[i].data \in Data \cup Serials
            /\ m.updates[i].type = "SOA" => m.updates[i].data \in Serials

(* The seed is a zone in the sense of RFC 2136.  setup and readZone ask    *)
(* only for a SOA: that the operator's file has one SOA, a NS at the apex, *)
(* no CNAME beside other data and no record twice is assumed.              *)
ASSUME ServerAssumption ==
    /\ Nobody \notin Updaters
    /\ Messages \subseteq Message
    /\ \A m \in Messages : ParsedMessage(m)
    /\ Seed \subseteq RR
    /\ WellFormed(Seed)
    /\ buildable(Seed)
    /\ HasXfer \in BOOLEAN
    /\ LossyNotify \in BOOLEAN
    /\ MaxRestarts \in Nat

-----------------------------------------------------------------------------
VARIABLES
    rrs,       \* d.rrs
    view,      \* d.view: the record set the file view was built from
    mu,        \* the holder of d.mu for writing, or Nobody
    pc,        \* where each updater is in serveUpdate
    msg,       \* the message it serves
    out,       \* its working copy of the zone (apply's out)
    changed,   \* apply's changed flag
    next,      \* index of the next update record to apply
    rcode,     \* the rcode it decided on, "none" before that
    snap,      \* the view each reader copied, {} when it holds none
    notified,  \* the readers a NOTIFY has reached that have not read since
    restarts   \* number of restarts so far

updaterVars == <<pc, msg, out, changed, next, rcode>>
vars == <<rrs, view, mu, updaterVars, snap, notified, restarts>>

(* The process as setup leaves it: the seed parsed into d.rrs and the view *)
(* built from it.                                                          *)
Init ==
    /\ rrs = Seed
    /\ view = Seed
    /\ mu = Nobody
    /\ pc = [u \in Updaters |-> "idle"]
    /\ msg = [u \in Updaters |-> NoMessage]
    /\ out = [u \in Updaters |-> {}]
    /\ changed = [u \in Updaters |-> FALSE]
    /\ next = [u \in Updaters |-> 1]
    /\ rcode = [u \in Updaters |-> "none"]
    /\ snap = [r \in Readers |-> {}]
    /\ notified = {}
    /\ restarts = 0

-----------------------------------------------------------------------------
(* Decide on an rcode and go and write it. *)
Answer(u, code) ==
    /\ rcode' = [rcode EXCEPT ![u] = code]
    /\ pc' = [pc EXCEPT ![u] = "reply"]

Receive(u, m) ==
    /\ pc[u] = "idle"
    /\ msg' = [msg EXCEPT ![u] = m]
    /\ IF headerVerdict(m) = "NOERROR"
       THEN pc' = [pc EXCEPT ![u] = "lock"] /\ UNCHANGED rcode
       ELSE Answer(u, headerVerdict(m))
    /\ UNCHANGED <<rrs, view, mu, out, changed, next, snap, notified, restarts>>

(* Mutant of Lock: handlers do not wait for one another.                   *)
LockUnguarded(u) ==
    /\ pc[u] = "lock"
    /\ mu' = u
    /\ pc' = [pc EXCEPT ![u] = "check"]
    /\ UNCHANGED <<rrs, view, msg, out, changed, next, rcode, snap, notified,
                   restarts>>

Lock(u) ==
    /\ pc[u] = "lock"
    /\ mu = Nobody
    /\ mu' = u
    /\ pc' = [pc EXCEPT ![u] = "check"]
    /\ UNCHANGED <<rrs, view, msg, out, changed, next, rcode, snap, notified,
                   restarts>>

(* checkPrereqs, then prescan; apply starts on a copy of d.rrs. *)
Check(u) ==
    /\ pc[u] = "check"
    /\ LET pre == checkPrereqs(rrs, msg[u].prereqs)
           scan == prescan(msg[u].updates)
       IN  IF pre # "NOERROR" THEN Answer(u, pre) /\ UNCHANGED out
           ELSE IF scan # "NOERROR" THEN Answer(u, scan) /\ UNCHANGED out
           ELSE /\ pc' = [pc EXCEPT ![u] = "apply"]
                /\ out' = [out EXCEPT ![u] = rrs]
                /\ UNCHANGED rcode
    /\ UNCHANGED <<rrs, view, mu, msg, changed, next, snap, notified, restarts>>

(* One round of apply's loop. *)
ApplyRecord(u) ==
    /\ pc[u] = "apply"
    /\ next[u] <= Len(msg[u].updates)
    /\ LET applied == applyRecord(out[u], msg[u].updates[next[u]])
       IN  /\ out' = [out EXCEPT ![u] = applied[1]]
           /\ changed' = [changed EXCEPT ![u] = @ \/ applied[2]]
    /\ next' = [next EXCEPT ![u] = @ + 1]
    /\ UNCHANGED <<rrs, view, mu, pc, msg, rcode, snap, notified, restarts>>

(* swap: the view is built first; if that fails nothing is assigned. *)
swap(z) == rrs' = z /\ view' = z

(* Mutant of Commit: d.rrs is assigned before the view is built.           *)
CommitAssignsFirst(u) ==
    /\ pc[u] = "apply"
    /\ next[u] > Len(msg[u].updates)
    /\ LET updated == toSwap(rrs, out[u])
       IN  IF ~changed[u] THEN Answer(u, "NOERROR") /\ UNCHANGED <<rrs, view>>
           ELSE IF ~buildable(updated)
                THEN Answer(u, "SERVFAIL") /\ rrs' = updated /\ UNCHANGED view
           ELSE /\ swap(updated)
                /\ rcode' = [rcode EXCEPT ![u] = "NOERROR"]
                /\ pc' = [pc EXCEPT ![u] = IF HasXfer THEN "notify" ELSE "reply"]
    /\ UNCHANGED <<mu, msg, out, changed, next, snap, notified, restarts>>

Commit(u) ==
    /\ pc[u] = "apply"
    /\ next[u] > Len(msg[u].updates)
    /\ LET updated == toSwap(rrs, out[u])
       IN  IF ~changed[u] THEN Answer(u, "NOERROR") /\ UNCHANGED <<rrs, view>>
           ELSE IF ~buildable(updated)
                THEN Answer(u, "SERVFAIL") /\ UNCHANGED <<rrs, view>>
           ELSE /\ swap(updated)
                /\ rcode' = [rcode EXCEPT ![u] = "NOERROR"]
                /\ pc' = [pc EXCEPT ![u] = IF HasXfer THEN "notify" ELSE "reply"]
    /\ UNCHANGED <<mu, msg, out, changed, next, snap, notified, restarts>>

(* Mutant of Notify: a secondary in the middle of a transfer is passed over.*)
NotifyIdleOnly(u) ==
    /\ pc[u] = "notify"
    /\ notified' = notified \cup {r \in Readers : snap[r] = {}}
    /\ pc' = [pc EXCEPT ![u] = "reply"]
    /\ UNCHANGED <<rrs, view, mu, msg, out, changed, next, rcode, snap, restarts>>

(* d.Xfer.Notify, with d.mu still held.  A failure is only logged. *)
Notify(u) ==
    /\ pc[u] = "notify"
    /\ \E lost \in SUBSET Readers :
        /\ lost = {} \/ LossyNotify
        /\ notified' = notified \cup (Readers \ lost)
    /\ pc' = [pc EXCEPT ![u] = "reply"]
    /\ UNCHANGED <<rrs, view, mu, msg, out, changed, next, rcode, snap, restarts>>

(* Back to idle: what the goroutine held is gone. *)
Done(u) ==
    /\ pc' = [pc EXCEPT ![u] = "idle"]
    /\ msg' = [msg EXCEPT ![u] = NoMessage]
    /\ out' = [out EXCEPT ![u] = {}]
    /\ changed' = [changed EXCEPT ![u] = FALSE]
    /\ next' = [next EXCEPT ![u] = 1]
    /\ rcode' = [rcode EXCEPT ![u] = "none"]

(* The reply is written before the deferred Unlock runs; a handler that    *)
(* answered before it locked is finished.                                  *)
Reply(u) ==
    /\ pc[u] = "reply"
    /\ IF mu = u
       THEN /\ pc' = [pc EXCEPT ![u] = "unlock"]
            /\ UNCHANGED <<msg, out, changed, next, rcode>>
       ELSE Done(u)
    /\ UNCHANGED <<rrs, view, mu, snap, notified, restarts>>

(* Mutant of Unlock: a return path without the unlock.                     *)
UnlockForgotten(u) ==
    /\ pc[u] = "unlock"
    /\ Done(u)
    /\ UNCHANGED <<rrs, view, mu, snap, notified, restarts>>

Unlock(u) ==
    /\ pc[u] = "unlock"
    /\ mu' = Nobody
    /\ Done(u)
    /\ UNCHANGED <<rrs, view, snap, notified, restarts>>

(* ServeDNS (not an UPDATE) and Transfer: copy the view under the read     *)
(* lock, answer from it with the lock released.                            *)
StartRead(r) ==
    /\ snap[r] = {}
    /\ mu = Nobody
    /\ snap' = [snap EXCEPT ![r] = view]
    /\ notified' = notified \ {r}
    /\ UNCHANGED <<rrs, view, mu, updaterVars, restarts>>

FinishRead(r) ==
    /\ snap[r] # {}
    /\ snap' = [snap EXCEPT ![r] = {}]
    /\ UNCHANGED <<rrs, view, mu, updaterVars, notified, restarts>>

(* The process stops and starts again: nothing is persisted, the seed is   *)
(* parsed again.                                                           *)
Restart ==
    /\ restarts < MaxRestarts
    /\ restarts' = restarts + 1
    /\ rrs' = Seed
    /\ view' = Seed
    /\ mu' = Nobody
    /\ pc' = [u \in Updaters |-> "idle"]
    /\ msg' = [u \in Updaters |-> NoMessage]
    /\ out' = [u \in Updaters |-> {}]
    /\ changed' = [u \in Updaters |-> FALSE]
    /\ next' = [u \in Updaters |-> 1]
    /\ rcode' = [u \in Updaters |-> "none"]
    /\ snap' = [r \in Readers |-> {}]
    /\ UNCHANGED notified

UpdaterStep(u) ==
    \/ \E m \in Messages : Receive(u, m)
    \/ Lock(u)
    \/ Check(u)
    \/ ApplyRecord(u)
    \/ Commit(u)
    \/ Notify(u)
    \/ Reply(u)
    \/ Unlock(u)

Next ==
    \/ \E u \in Updaters : UpdaterStep(u)
    \/ \E r \in Readers : StartRead(r) \/ FinishRead(r)
    \/ Restart

Spec == Init /\ [][Next]_vars

-----------------------------------------------------------------------------
(* Properties. *)

(* Type invariant: the zone and every copy of it are sets of records and   *)
(* each handler's locals have the types serveUpdate gives them.            *)
TypeOK ==
    /\ rrs \in SUBSET RR
    /\ view \in SUBSET RR
    /\ mu \in Updaters \cup {Nobody}
    /\ pc \in [Updaters -> {"idle", "lock", "check", "apply", "notify", "reply",
                            "unlock"}]
    /\ msg \in [Updaters -> Messages \cup {NoMessage}]
    /\ out \in [Updaters -> SUBSET RR]
    /\ changed \in [Updaters -> BOOLEAN]
    /\ next \in [Updaters -> Nat \ {0}]
    /\ rcode \in [Updaters -> Rcodes \cup {"none"}]
    /\ snap \in [Readers -> SUBSET RR]
    /\ notified \in SUBSET Readers
    /\ restarts \in 0..MaxRestarts

(* Whatever sequence of UPDATEs is served, the records and the view built  *)
(* from them are the same zone, that zone has one apex SOA, an apex NS, no *)
(* CNAME beside other data and no duplicate, and so does every view a      *)
(* query or a transfer is still answering from (applyAdd's SOA and CNAME   *)
(* replacement, the apex protections of the deletions, swap).              *)
ZoneWellFormed ==
    /\ view = rrs
    /\ WellFormed(view)
    /\ \A r \in Readers : snap[r] # {} => WellFormed(snap[r])

(* The served zone changes other than by a restart. *)
ZoneChanges == restarts' = restarts /\ view' # view

(* A step that changes the served zone is the commit of one UPDATE whose   *)
(* prerequisites hold in the very version it replaces, that passed the     *)
(* prescan and that is answered NOERROR: nobody slipped in between the     *)
(* check and the swap, and an UPDATE answered with an error changes        *)
(* nothing (serveUpdate's one critical section).                           *)
ChangeIsOneGrantedUpdate ==
    [][ZoneChanges =>
        \E u \in Updaters :
            /\ rcode[u] = "none"
            /\ rcode'[u] = "NOERROR"
            /\ headerVerdict(msg[u]) = "NOERROR"
            /\ checkPrereqs(view, msg[u].prereqs) = "NOERROR"
            /\ prescan(msg[u].updates) = "NOERROR"]_vars

(* The serial of the served zone differs whenever its content does, so a   *)
(* secondary that compares serials notices every change (bumpSerial and    *)
(* the test before it in serveUpdate).                                     *)
ContentChangeMovesSerial ==
    [][ZoneChanges =>
        soaOf(view').data # soaOf(view).data]_vars

(* The zone never moves backwards: a change moves the serial forward in    *)
(* the sense of RFC 1982 (serialGreater).                                  *)
SerialNeverBackwards ==
    [][ZoneChanges =>
        serialGreater(soaOf(view').data, soaOf(view).data)]_vars

AddsSOA(m, i) == m.updates[i].class = "IN" /\ m.updates[i].type = "SOA"

OneSOAAdd(m) ==
    \A i, j \in DOMAIN m.updates : AddsSOA(m, i) /\ AddsSOA(m, j) => i = j

(* The same for the UPDATE messages that add at most one SOA: whatever     *)
(* else they contain, in whatever order, the serial they leave is ahead of *)
(* the one they found, across the wrap at 2^32 and the skip of 0 too.      *)
SerialForwardOneSOA ==
    [][ZoneChanges /\ (\A u \in Updaters : mu = u => OneSOAAdd(msg[u])) =>
            serialGreater(soaOf(view').data, soaOf(view).data)]_vars

(* Everything of type t, except that a SOA is taken without its serial.    *)
Untouchable(z, t) ==
    {<<r.name, r.ttl, IF t = "SOA" THEN NoData ELSE r.data>> :
        r \in {x \in z : x.type = t}}

(* With a `mutable` list, no sequence of UPDATEs changes a record of a     *)
(* type outside the list, by adding, deleting or replacing; the server     *)
(* itself still advances the SOA serial (prescanRecord's type policy).     *)
MutablePolicy ==
    [][restarts' = restarts /\ TypePolicy =>
        \A t \in DataTypes \ Mutable :
            Untouchable(view', t) = Untouchable(view, t)]_vars

(* Every UPDATE that reaches the lock is answered: handlers do not wait    *)
(* for one another for ever, NOTIFY included.                              *)
EveryUpdateAnswered ==
    \A u \in Updaters : pc[u] = "lock" ~> pc[u] = "idle"

(* The abstract zone: every UPDATE and every read in one step. *)
Atomic == INSTANCE AtomicZone
              WITH zone <- view, pending <- msg, answer <- rcode

(* The locked, record-by-record handler implements the atomic one: clients *)
(* and secondaries cannot tell serveUpdate, ServeDNS and Transfer from     *)
(* ones that each take effect in a single step.                            *)
ImplementsAtomicZone == Atomic!Spec
-----------------------------------------------------------------------------
(* The inductive invariant behind the safety properties. *)

(* The lock is held by the one handler that is between Lock and Unlock.    *)
LockHeld ==
    \A u \in Updaters :
        /\ pc[u] \in {"check", "apply", "notify", "unlock"} => mu = u
        /\ mu = u => pc[u] \in {"check", "apply", "notify", "reply", "unlock"}
        /\ pc[u] \in {"lock", "check", "apply"} =>
              /\ msg[u] \in Messages
              /\ headerVerdict(msg[u]) = "NOERROR"
        /\ pc[u] \in {"idle", "lock", "check", "apply"} => rcode[u] = "none"

(* How far the serial of a working copy can have moved. *)
SerialSoFar(u) ==
    \/ soaOf(out[u]).data = soaOf(rrs).data
    \/ /\ \E i \in DOMAIN msg[u].updates : i < next[u] /\ AddsSOA(msg[u], i)
       /\ serialGreater(soaOf(out[u]).data, soaOf(rrs).data)

(* What the handler that is applying an UPDATE knows: its checks hold in   *)
(* the zone as it is, and its working copy is a zone that differs from it  *)
(* only as the flag, the serial rules and the type policy allow.           *)
Applying(u) ==
    /\ checkPrereqs(rrs, msg[u].prereqs) = "NOERROR"
    /\ prescan(msg[u].updates) = "NOERROR"
    /\ WellFormed(out[u])
    /\ OneSOAAdd(msg[u]) => SerialSoFar(u)
    /\ TypePolicy => \A t \in DataTypes \ Mutable :
                        Untouchable(out[u], t) = Untouchable(rrs, t)

(* Every reachable state of the plugin satisfies this, and it is kept by   *)
(* each step of serveUpdate, ServeDNS, Transfer and a restart.             *)
IndInv ==
    /\ TypeOK
    /\ ZoneWellFormed
    /\ LockHeld
    /\ \A u \in Updaters : pc[u] = "apply" => Applying(u)
=============================================================================
