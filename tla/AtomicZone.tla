----------------------------- MODULE AtomicZone -----------------------------
(***************************************************************************)
(* What dynupdate promises its clients, without locks, copies or views:    *)
(* one zone, on which every UPDATE takes effect in a single step, whole or *)
(* not at all (RFC 2136 section 3.7), and which every query and transfer   *)
(* reads in a single step.  What an UPDATE does to a zone is a parameter:  *)
(* DynUpdate implements this module with the rules of ZoneOps.             *)
(***************************************************************************)
EXTENDS Naturals

CONSTANTS
    Updaters, Readers, Messages, NoMessage, Seed, MaxRestarts,
    headerVerdict(_),  \* the rcode a message gets before a zone is looked at
    Served(_, _)       \* the zone an UPDATE leaves a zone in, and its rcode

VARIABLES
    zone,      \* the zone
    pending,   \* the message each updater serves
    answer,    \* the rcode decided for it, "none" before that
    snap,      \* the zone each reader read, {} when it holds none
    restarts

vars == <<zone, pending, answer, snap, restarts>>

Init ==
    /\ zone = Seed
    /\ pending = [u \in Updaters |-> NoMessage]
    /\ answer = [u \in Updaters |-> "none"]
    /\ snap = [r \in Readers |-> {}]
    /\ restarts = 0

(* A message arrives; one for another zone or without a TSIG is answered.  *)
Submit(u, m) ==
    /\ pending[u] = NoMessage
    /\ pending' = [pending EXCEPT ![u] = m]
    /\ answer' = [answer EXCEPT ![u] = IF headerVerdict(m) = "NOERROR"
                                       THEN "none" ELSE headerVerdict(m)]
    /\ UNCHANGED <<zone, snap, restarts>>

(* The whole UPDATE takes effect. *)
Perform(u) ==
    /\ pending[u] # NoMessage
    /\ answer[u] = "none"
    /\ LET served == Served(zone, pending[u])
       IN  /\ zone' = served[1]
           /\ answer' = [answer EXCEPT ![u] = served[2]]
    /\ UNCHANGED <<pending, snap, restarts>>

Retire(u) ==
    /\ answer[u] # "none"
    /\ pending' = [pending EXCEPT ![u] = NoMessage]
    /\ answer' = [answer EXCEPT ![u] = "none"]
    /\ UNCHANGED <<zone, snap, restarts>>

Read(r) ==
    /\ snap' = [snap EXCEPT ![r] = IF @ = {} THEN zone ELSE {}]
    /\ UNCHANGED <<zone, pending, answer, restarts>>

Restart ==
    /\ restarts < MaxRestarts
    /\ restarts' = restarts + 1
    /\ zone' = Seed
    /\ pending' = [u \in Updaters |-> NoMessage]
    /\ answer' = [u \in Updaters |-> "none"]
    /\ snap' = [r \in Readers |-> {}]

Next ==
    \/ \E u \in Updaters : (\E m \in Messages : Submit(u, m)) \/ Perform(u) \/ Retire(u)
    \/ \E r \in Readers : Read(r)
    \/ Restart

Spec == Init /\ [][Next]_vars
=============================================================================
