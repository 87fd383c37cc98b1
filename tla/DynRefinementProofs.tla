------------------------ MODULE DynRefinementProofs ------------------------
(***************************************************************************)
(* DynUpdate implements AtomicZone, and what the serial number tells a     *)
(* secondary (DynUpdateSecondary), for every set of names, records,        *)
(* messages, handlers and readers, and every width of the serial number.   *)
(* Both rest on the invariant of DynUpdateProofs.                          *)
(***************************************************************************)
EXTENDS DynUpdateProofs, DynUpdateSecondary, FiniteSetTheorems

(* The refinement: the handler implements AtomicZone.                      *)

(* The function that After is, for the records us of a message.            *)
IsAfter(z, us, n, f) ==
    f = [i \in 0..n |->
            IF i = 0 THEN <<z, FALSE>>
            ELSE <<applyRecord(f[i - 1][1], us[i])[1],
                   f[i - 1][2] \/ applyRecord(f[i - 1][1], us[i])[2]>>]

(* A non-empty set of numbers has a smallest element.                      *)
LEMMA LeastNumber ==
    ASSUME NEW S, S \subseteq Nat, S # {}
    PROVE  \E x \in S : \A y \in S : x <= y
<1> DEFINE less == OpToRel(<, Nat)
<1>1. IsWellFoundedOn(less, Nat)
  BY Zenon, NatLessThanWellFounded
<1>2. \A x, y \in Nat : <<y, x>> \in less <=> y < x
  BY DEF OpToRel
<1> HIDE DEF less
<1>3. PICK x \in S : \A y \in S : ~(<<y, x>> \in less)
  BY Zenon, <1>1, WFMin
<1>4. ASSUME NEW y \in S PROVE x <= y
  <2>1. x \in Nat /\ y \in Nat
    OBVIOUS
  <2>2. ~(y < x)
    BY Zenon, <1>2, <1>3, <2>1
  <2> QED BY <2>1, <2>2
<1> QED BY <1>4

(* Such functions exist for every prefix of the message.                   *)
LEMMA AfterExists ==
    ASSUME NEW z, NEW us, NEW n \in Nat
    PROVE  \E f : IsAfter(z, us, n, f)
<1> DEFINE bad == {k \in Nat : ~\E f : IsAfter(z, us, k, f)}
<1>1. ASSUME NEW k \in Nat, \E f : IsAfter(z, us, k, f)
      PROVE  \E f : IsAfter(z, us, k + 1, f)
  <2>1. PICK f : IsAfter(z, us, k, f)
    BY <1>1
  <2> DEFINE a == applyRecord(f[k][1], us[k + 1])
             g == [i \in 0..(k + 1) |-> IF i = k + 1 THEN <<a[1], f[k][2] \/ a[2]>> ELSE f[i]]
  <2> HIDE DEF a
  <2>2. \A i \in 0..k : g[i] = f[i]
    OBVIOUS
  <2>3. g[k + 1] = <<a[1], f[k][2] \/ a[2]>>
    OBVIOUS
  <2>4. ASSUME NEW i \in 0..(k + 1)
        PROVE  g[i] = IF i = 0 THEN <<z, FALSE>>
                      ELSE <<applyRecord(g[i - 1][1], us[i])[1],
                             g[i - 1][2] \/ applyRecord(g[i - 1][1], us[i])[2]>>
    <3>1. CASE i = k + 1
      <4>1. i # 0 /\ g[i - 1] = f[k]
        BY <2>2, <3>1
      <4> HIDE DEF g
      <4> QED BY <2>3, <3>1, <4>1 DEF a
    <3>2. CASE i = 0
      <4>1. 0 \in 0..k
        OBVIOUS
      <4>2. f[0] = <<z, FALSE>>
        BY ZenonT(60), <2>1, <4>1 DEF IsAfter
      <4>3. g[i] = f[0]
        BY <2>2, <3>2, <4>1
      <4> HIDE DEF g
      <4> QED BY <3>2, <4>2, <4>3
    <3>3. CASE i # 0 /\ i # k + 1
      <4>1. g[i] = f[i] /\ g[i - 1] = f[i - 1] /\ i \in 0..k
        BY <2>2, <3>3
      <4>2. f[i] = <<applyRecord(f[i - 1][1], us[i])[1],
                     f[i - 1][2] \/ applyRecord(f[i - 1][1], us[i])[2]>>
        BY Zenon, <2>1, <3>3, <4>1 DEF IsAfter
      <4> HIDE DEF g
      <4> QED BY <3>3, <4>1, <4>2
    <3> QED BY ZenonT(60), <3>1, <3>2, <3>3
  <2>5. IsAfter(z, us, k + 1, g)
    <3>1. g = [i \in 0..(k + 1) |-> g[i]]
      OBVIOUS
    <3> HIDE DEF g
    <3> QED BY Zenon, <2>4, <3>1 DEF IsAfter
  <2> QED BY <2>5
<1>2. 0 \notin bad
  <2> DEFINE f == [i \in 0..0 |-> <<z, FALSE>>]
  <2>1. IsAfter(z, us, 0, f)
    BY DEF IsAfter
  <2> QED BY <2>1
<1>3. bad = {}
  <2> SUFFICES ASSUME bad # {} PROVE FALSE
    OBVIOUS
  <2>1. PICK k \in bad : \A y \in bad : k <= y
    <3>1. bad \subseteq Nat
      OBVIOUS
    <3> HIDE DEF bad
    <3> QED BY Zenon, <3>1, LeastNumber
  <2>2. k \in Nat /\ k # 0
    BY <1>2, <2>1
  <2>3. k - 1 \in Nat /\ k - 1 \notin bad /\ k = (k - 1) + 1
    BY <2>1, <2>2
  <2>4. \E f : IsAfter(z, us, (k - 1) + 1, f)
    BY <1>1, <2>3
  <2> QED BY <2>1, <2>3, <2>4
<1> QED BY <1>3

(* After applies the records one by one.                                   *)
LEMMA AfterUnfolds ==
    ASSUME NEW z, NEW us \in Seq(MsgRR)
    PROVE  IsAfter(z, us, Len(us), After(z, us))
<1>1. PICK f : IsAfter(z, us, Len(us), f)
  <2>1. Len(us) \in Nat
    OBVIOUS
  <2> QED BY Zenon, <2>1, AfterExists
<1>2. After(z, us) = CHOOSE g : IsAfter(z, us, Len(us), g)
  BY Zenon DEF After, IsAfter
<1> QED BY <1>1, <1>2

(* The working copy o and the flag c are what the first n - 1 records us   *)
(* make of zone z.                                                         *)
Reached(z, us, n, o, c) ==
    n <= Len(us) + 1 /\ <<o, c>> = After(z, us)[n - 1]

(* What each handler holds, against what the atomic zone says of it.       *)
Underway(u) ==
    /\ pc[u] = "idle" => msg[u] = NoMessage
    /\ pc[u] \in {"idle", "lock", "check"} => next[u] = 1 /\ changed[u] = FALSE
    /\ pc[u] \in {"notify", "reply", "unlock"} => rcode[u] # "none"
    /\ pc[u] = "apply" => Reached(rrs, msg[u].updates, next[u], out[u], changed[u])

RefinementInv == IndInv /\ \A u \in Updaters : Underway(u)

(* apply starts from the zone itself.                                      *)
LEMMA ReachedFirst ==
    ASSUME NEW z, NEW us \in Seq(MsgRR)
    PROVE  Reached(z, us, 1, z, FALSE)
<1>1. 0 \in 0..Len(us) /\ 1 - 1 = 0 /\ 1 <= Len(us) + 1
  OBVIOUS
<1>2. After(z, us)[0] = <<z, FALSE>>
  <2> DEFINE f == After(z, us)
  <2>1. IsAfter(z, us, Len(us), f)
    BY AfterUnfolds
  <2> HIDE DEF f
  <2>2. f[0] = <<z, FALSE>>
    BY Zenon, <1>1, <2>1 DEF IsAfter
  <2> QED BY <2>2 DEF f
<1> QED BY Zenon, <1>1, <1>2 DEF Reached

(* One round of apply's loop is one record of the message.                 *)
LEMMA ReachedNext ==
    ASSUME NEW z, NEW us \in Seq(MsgRR), NEW n \in Nat \ {0}, n <= Len(us), NEW o,
           NEW c, Reached(z, us, n, o, c)
    PROVE  Reached(z, us, n + 1, applyRecord(o, us[n])[1], c \/ applyRecord(o, us[n])[2])
<1> DEFINE f == After(z, us)
<1>1. IsAfter(z, us, Len(us), f)
  BY AfterUnfolds
<1>2. f[n - 1] = <<o, c>>
  BY DEF Reached
<1> HIDE DEF f
<1>3. n \in 0..Len(us) /\ n # 0 /\ (n + 1) - 1 = n /\ n + 1 <= Len(us) + 1
  OBVIOUS
<1>4. f[n] = <<applyRecord(f[n - 1][1], us[n])[1],
               f[n - 1][2] \/ applyRecord(f[n - 1][1], us[n])[2]>>
  BY Zenon, <1>1, <1>3 DEF IsAfter
<1>5. f[n - 1][1] = o /\ f[n - 1][2] = c
  BY <1>2
<1>6. f[n] = <<applyRecord(o, us[n])[1], c \/ applyRecord(o, us[n])[2]>>
  BY <1>4, <1>5
<1> QED BY <1>3, <1>6 DEF Reached, f

(* A handler that a step leaves alone stays where it was.                  *)
LEMMA UnderwayFrame ==
    ASSUME NEW u \in Updaters, Underway(u), rrs' = rrs \/ pc[u] # "apply",
           pc'[u] = pc[u], msg'[u] = msg[u], out'[u] = out[u], changed'[u] = changed[u],
           next'[u] = next[u], rcode'[u] = rcode[u]
    PROVE  Underway(u)'
BY DEF Underway

(* A step of one handler leaves the others alone, and the zone too while   *)
(* one of them is applying.                                                *)
LEMMA OthersUnderway ==
    ASSUME RefinementInv, NEW u \in Updaters, UpdaterStep(u), NEW v \in Updaters, v # u
    PROVE  Underway(v)'
<1>1. TypeOK /\ Underway(v)
  BY DEF RefinementInv, IndInv
<1>2. /\ pc'[v] = pc[v] /\ msg'[v] = msg[v] /\ out'[v] = out[v]
      /\ changed'[v] = changed[v] /\ next'[v] = next[v] /\ rcode'[v] = rcode[v]
  <2>1. CASE \E m \in Messages : Receive(u, m)
    BY <1>1, <2>1 DEF TypeOK, Receive, Answer
  <2>2. CASE Lock(u) \/ Notify(u)
    BY <1>1, <2>2 DEF TypeOK, Lock, Notify
  <2>3. CASE Check(u)
    BY <1>1, <2>3 DEF TypeOK, Check, Answer
  <2>4. CASE ApplyRecord(u)
    BY ZenonT(60), <1>1, <2>4 DEF TypeOK, ApplyRecord
  <2>5. CASE Commit(u)
    BY <1>1, <2>5 DEF TypeOK, Commit, Answer
  <2>6. CASE Reply(u) \/ Unlock(u)
    BY <1>1, <2>6 DEF TypeOK, Reply, Unlock, Done
  <2> QED BY ZenonT(60), <2>1, <2>2, <2>3, <2>4, <2>5, <2>6 DEF UpdaterStep
<1>3. rrs' = rrs \/ pc[v] # "apply"
  <2>1. CASE Commit(u)
    BY ZenonT(60), <2>1, OneApplies DEF Commit, RefinementInv
  <2>2. CASE ~Commit(u)
    BY Zenon, <2>2 DEF UpdaterStep, Receive, Lock, Check, ApplyRecord, Notify, Reply, Unlock
  <2> QED BY <2>1, <2>2
<1> QED BY <1>1, <1>2, <1>3, UnderwayFrame

(* A handler's own step.                                                   *)
LEMMA SelfUnderway ==
    ASSUME RefinementInv, NEW u \in Updaters, UpdaterStep(u)
    PROVE  Underway(u)'
<1>1. TypeOK /\ LockHeld /\ Underway(u)
  BY DEF RefinementInv, IndInv
<1>2. CASE \E m \in Messages : Receive(u, m)
  <2>1. PICK m \in Messages : Receive(u, m)
    BY <1>2
  <2>2. /\ pc'[u] = "lock" \/ (pc'[u] = "reply" /\ rcode'[u] = headerVerdict(m))
        /\ pc[u] = "idle" /\ next' = next /\ changed' = changed
    BY <1>1, <2>1 DEF TypeOK, Receive, Answer
  <2>3. headerVerdict(m) # "none"
    BY VerdictTypes DEF Rcodes
  <2> QED BY <1>1, <2>2, <2>3 DEF Underway
<1>3. CASE Lock(u)
  <2>1. pc[u] = "lock" /\ pc'[u] = "check" /\ next' = next /\ changed' = changed
    BY <1>1, <1>3 DEF TypeOK, Lock
  <2> QED BY <1>1, <2>1 DEF Underway
<1>4. CASE Check(u)
  <2>0. pc[u] = "check" /\ msg[u] \in Messages
    BY Zenon, <1>1, <1>4 DEF Check, LockHeld
  <2>1. msg[u].prereqs \in Seq(MsgRR) /\ msg[u].updates \in Seq(MsgRR)
    BY <2>0, MessageType
  <2>2. /\ checkPrereqs(rrs, msg[u].prereqs) # "none"
        /\ prescan(msg[u].updates) # "none"
    BY <2>1, VerdictTypes DEF Rcodes
  <2>3. \/ pc'[u] = "reply" /\ rcode'[u] # "none"
        \/ pc'[u] = "apply" /\ out'[u] = rrs
    BY <1>1, <1>4, <2>2 DEF TypeOK, Check, Answer
  <2>4. rrs' = rrs /\ msg' = msg /\ next' = next /\ changed' = changed
    BY <1>4 DEF Check
  <2>5. Reached(rrs, msg[u].updates, 1, rrs, FALSE)
    BY ZenonT(60), <2>1, ReachedFirst
  <2>6. next[u] = 1 /\ changed[u] = FALSE
    BY <1>1, <2>0 DEF Underway
  <2> QED BY ZenonT(60), <2>3, <2>4, <2>5, <2>6 DEF Underway
<1>5. CASE ApplyRecord(u)
  <2> DEFINE us == msg[u].updates
             n == next[u]
             a == applyRecord(out[u], us[n])
  <2>1. pc[u] = "apply" /\ msg[u] \in Messages /\ n <= Len(us)
    BY Zenon, <1>1, <1>5 DEF ApplyRecord, LockHeld
  <2>2. us \in Seq(MsgRR) /\ n \in Nat \ {0}
    BY <1>1, <2>1, MessageType DEF TypeOK
  <2>3. /\ out' = [out EXCEPT ![u] = a[1]]
        /\ changed' = [changed EXCEPT ![u] = changed[u] \/ a[2]]
        /\ next' = [next EXCEPT ![u] = n + 1]
        /\ rrs' = rrs /\ msg' = msg /\ pc' = pc
    BY ZenonT(60), <1>5 DEF ApplyRecord
  <2>4. Reached(rrs, us, n + 1, a[1], changed[u] \/ a[2])
    <3>1. Reached(rrs, us, n, out[u], changed[u])
      BY ZenonT(60), <1>1, <2>1 DEF Underway
    <3> HIDE DEF us, n
    <3> QED BY <2>1, <2>2, <3>1, ReachedNext
  <2> HIDE DEF a
  <2>5. out'[u] = a[1] /\ next'[u] = n + 1
    BY <1>1, <2>3 DEF TypeOK
  <2>6. changed'[u] = (changed[u] \/ a[2])
    BY <1>1, <2>3, Zenon DEF TypeOK
  <2>7. Reached(rrs, us, next'[u], out'[u], changed'[u])
    BY <2>4, <2>5, <2>6
  <2>8. pc'[u] = "apply" /\ us = msg'[u].updates
    BY <2>1, <2>3
  <2> QED BY Zenon, <2>3, <2>7, <2>8 DEF Underway
<1>6. CASE Commit(u)
  <2>1. pc'[u] \in {"notify", "reply"} /\ rcode'[u] # "none"
    BY <1>1, <1>6 DEF TypeOK, Commit, Answer
  <2> QED BY Zenon, <2>1 DEF Underway
<1>7. CASE Notify(u)
  <2>1. pc[u] = "notify" /\ pc'[u] = "reply" /\ rcode' = rcode
    BY <1>1, <1>7 DEF TypeOK, Notify
  <2> QED BY <1>1, <2>1 DEF Underway
<1>8. CASE Reply(u) /\ mu = u
  <2>1. pc[u] = "reply" /\ pc'[u] = "unlock" /\ rcode' = rcode
    BY <1>1, <1>8 DEF TypeOK, Reply
  <2> QED BY <1>1, <2>1 DEF Underway
<1>9. CASE (Reply(u) /\ mu # u) \/ Unlock(u)
  <2>1. pc'[u] = "idle" /\ msg'[u] = NoMessage /\ next'[u] = 1 /\ changed'[u] = FALSE
    BY <1>1, <1>9 DEF TypeOK, Reply, Unlock, Done
  <2> QED BY ZenonT(60), <2>1 DEF Underway
<1> QED BY <1>2, <1>3, <1>4, <1>5, <1>6, <1>7, <1>8, <1>9 DEF UpdaterStep

(* The refinement's invariant holds in every reachable state.              *)
LEMMA RefinementInvariant == Spec => []RefinementInv
<1>1. Init => RefinementInv
  <2> SUFFICES ASSUME Init PROVE RefinementInv
    OBVIOUS
  <2>1. \A u \in Updaters : Underway(u)
    BY DEF Init, Underway
  <2> QED BY <2>1, InitInd DEF RefinementInv
<1>2. RefinementInv /\ [Next]_vars => RefinementInv'
  <2> SUFFICES ASSUME RefinementInv, [Next]_vars, NEW v \in Updaters PROVE Underway(v)'
    BY StepInd DEF RefinementInv
  <2>1. CASE \E u \in Updaters : UpdaterStep(u)
    BY <2>1, OthersUnderway, SelfUnderway
  <2>2. CASE UNCHANGED vars \/ \E r \in Readers : StartRead(r) \/ FinishRead(r)
    <3>1. UNCHANGED <<rrs, pc, msg, out, changed, next, rcode>>
      BY <2>2 DEF StartRead, FinishRead, vars, updaterVars
    <3> QED BY <3>1, UnderwayFrame DEF RefinementInv
  <2>3. CASE Restart
    BY <2>3 DEF Restart, Underway
  <2> QED BY <2>1, <2>2, <2>3 DEF Next
<1> QED BY <1>1, <1>2, PTL DEF Spec

(* What the atomic zone answers to the message of a handler that is done   *)
(* with its checks or with applying.                                       *)
LEMMA ServedAtomically ==
    ASSUME NEW z, NEW m, NEW n, NEW c, After(z, m.updates)[Len(m.updates)] = <<n, c>>
    PROVE  Served(z, m) =
              IF checkPrereqs(z, m.prereqs) # "NOERROR"
              THEN <<z, checkPrereqs(z, m.prereqs)>>
              ELSE IF prescan(m.updates) # "NOERROR" THEN <<z, prescan(m.updates)>>
              ELSE IF ~c THEN <<z, "NOERROR">>
              ELSE IF ~buildable(toSwap(z, n)) THEN <<z, "SERVFAIL">>
              ELSE <<toSwap(z, n), "NOERROR">>
BY DEF Served

(* Each step of a handler is one of the atomic zone, or invisible there.   *)
LEMMA UpdaterRefines ==
    ASSUME RefinementInv, NEW u \in Updaters, UpdaterStep(u)
    PROVE  [Atomic!Next]_(Atomic!vars)
<1>1. TypeOK /\ LockHeld /\ Underway(u) /\ view = rrs
  BY DEF RefinementInv, IndInv, ZoneWellFormed
<1>2. ASSUME UNCHANGED <<view, msg, rcode, snap, restarts>> PROVE UNCHANGED Atomic!vars
  BY <1>2 DEF Atomic!vars
<1>3. ASSUME pc[u] \in {"check", "apply"} PROVE msg[u] # NoMessage /\ rcode[u] = "none"
  <2>1. msg[u] \in Message
    BY ZenonT(60), <1>1, <1>3, ServerAssumption DEF LockHeld
  <2>2. msg[u].zone # "none" /\ NoMessage.zone = "none"
    BY Zenon, <2>1 DEF Message, NoMessage
  <2> QED BY <1>1, <1>3, <2>2 DEF LockHeld
<1>4. CASE \E m \in Messages : Receive(u, m)
  <2>1. PICK m \in Messages : Receive(u, m)
    BY <1>4
  <2>2. msg[u] = NoMessage /\ rcode[u] = "none"
    BY Zenon, <1>1, <2>1 DEF Receive, Underway, LockHeld
  <2>3. /\ msg' = [msg EXCEPT ![u] = m]
        /\ view' = view /\ snap' = snap /\ restarts' = restarts
    BY <2>1 DEF Receive
  <2>4. rcode' = [rcode EXCEPT ![u] = IF headerVerdict(m) = "NOERROR"
                                      THEN "none" ELSE headerVerdict(m)]
    <3>1. CASE headerVerdict(m) = "NOERROR"
      BY <1>1, <2>1, <2>2, <3>1 DEF Receive, TypeOK
    <3>2. CASE headerVerdict(m) # "NOERROR"
      BY <2>1, <3>2 DEF Receive, Answer
    <3> QED BY <3>1, <3>2
  <2>5. Atomic!Submit(u, m)
    BY <2>2, <2>3, <2>4 DEF Atomic!Submit
  <2> QED BY <2>5 DEF Atomic!Next
<1>5. CASE Lock(u) \/ ApplyRecord(u) \/ Notify(u)
  BY Zenon, <1>2, <1>5 DEF Lock, ApplyRecord, Notify
<1>6. ASSUME pc[u] \in {"check", "apply"}, NEW new, NEW code,
             Served(view, msg[u]) = <<new, code>>,
             view' = new, rcode' = [rcode EXCEPT ![u] = code],
             msg' = msg, snap' = snap, restarts' = restarts
      PROVE  [Atomic!Next]_(Atomic!vars)
  <2>1. Atomic!Perform(u)
    BY <1>3, <1>6 DEF Atomic!Perform
  <2> QED BY <2>1 DEF Atomic!Next
<1>7. CASE Check(u)
  <2> DEFINE pre == checkPrereqs(rrs, msg[u].prereqs)
             scan == prescan(msg[u].updates)
  <2>0. pc[u] = "check" /\ view' = view /\ msg' = msg /\ snap' = snap /\ restarts' = restarts
    BY <1>7 DEF Check
  <2>1. CASE pre = "NOERROR" /\ scan = "NOERROR"
    BY <1>2, <1>7, <2>0, <2>1 DEF Check
  <2>2. CASE pre # "NOERROR"
    <3>1. rcode' = [rcode EXCEPT ![u] = pre]
      BY <1>7, <2>2 DEF Check, Answer
    <3>2. Served(view, msg[u]) = <<view, pre>>
      BY ZenonT(60), <1>1, <2>2 DEF Served
    <3> HIDE DEF pre
    <3> QED BY ZenonT(60), <1>6, <2>0, <3>1, <3>2
  <2>3. CASE pre = "NOERROR" /\ scan # "NOERROR"
    <3>1. rcode' = [rcode EXCEPT ![u] = scan]
      BY <1>7, <2>3 DEF Check, Answer
    <3>2. Served(view, msg[u]) = <<view, scan>>
      BY Zenon, <1>1, <2>3 DEF Served
    <3> HIDE DEF scan
    <3> QED BY Zenon, <1>6, <2>0, <3>1, <3>2
  <2> QED BY <2>1, <2>2, <2>3
<1>8. CASE Commit(u)
  <2> DEFINE us == msg[u].updates
             new == toSwap(rrs, out[u])
  <2>0. /\ pc[u] = "apply" /\ next[u] > Len(us)
        /\ msg' = msg /\ snap' = snap /\ restarts' = restarts
    BY ZenonT(60), <1>8 DEF Commit
  <2>1. us \in Seq(MsgRR) /\ Applying(u)
    BY <1>1, <2>0, MessageType DEF LockHeld, RefinementInv, IndInv
  <2>2. After(rrs, us)[Len(us)] = <<out[u], changed[u]>>
    <3>1. /\ next[u] <= Len(us) + 1
          /\ <<out[u], changed[u]>> = After(rrs, us)[next[u] - 1]
      BY Zenon, <1>1, <2>0 DEF Underway, Reached
    <3>2. next[u] - 1 = Len(us)
      <4>1. next[u] \in Nat /\ Len(us) \in Nat
        BY <1>1, <2>1 DEF TypeOK
      <4> HIDE DEF us
      <4> QED BY <2>0, <3>1, <4>1
    <3> QED BY <3>1, <3>2
  <2>3. Served(rrs, msg[u]) =
           IF ~changed[u] THEN <<rrs, "NOERROR">>
           ELSE IF ~buildable(new) THEN <<rrs, "SERVFAIL">>
           ELSE <<new, "NOERROR">>
    <3>1. checkPrereqs(rrs, msg[u].prereqs) = "NOERROR" /\ prescan(us) = "NOERROR"
      BY Zenon, <2>1 DEF Applying
    <3> QED BY <2>2, <3>1, ServedAtomically
  <2> HIDE DEF new, us
  <2>4. CASE ~changed[u]
    <3>1. view' = view /\ rcode' = [rcode EXCEPT ![u] = "NOERROR"]
      BY <1>8, <2>4 DEF Commit, Answer
    <3> QED BY ZenonT(60), <1>1, <1>6, <2>0, <2>3, <2>4, <3>1
  <2>5. CASE changed[u] /\ ~buildable(new)
    <3>1. view' = view /\ rcode' = [rcode EXCEPT ![u] = "SERVFAIL"]
      BY <1>8, <2>5 DEF Commit, Answer, new
    <3> QED BY ZenonT(60), <1>1, <1>6, <2>0, <2>3, <2>5, <3>1
  <2>6. CASE changed[u] /\ buildable(new)
    <3>1. view' = new /\ rcode' = [rcode EXCEPT ![u] = "NOERROR"]
      BY <1>8, <2>6 DEF Commit, swap, new
    <3> QED BY ZenonT(60), <1>1, <1>6, <2>0, <2>3, <2>6, <3>1
  <2> QED BY <2>4, <2>5, <2>6
<1>9. CASE Reply(u) /\ mu = u
  BY <1>2, <1>9 DEF Reply
<1>10. CASE (Reply(u) /\ mu # u) \/ Unlock(u)
  <2>1. rcode[u] # "none"
    BY ZenonT(60), <1>1, <1>10 DEF Reply, Unlock, Underway
  <2>2. /\ msg' = [msg EXCEPT ![u] = NoMessage]
        /\ rcode' = [rcode EXCEPT ![u] = "none"]
        /\ view' = view /\ snap' = snap /\ restarts' = restarts
    BY <1>10 DEF Reply, Unlock, Done
  <2>3. Atomic!Retire(u)
    BY <2>1, <2>2 DEF Atomic!Retire
  <2> QED BY <2>3 DEF Atomic!Next
<1> QED BY <1>4, <1>5, <1>7, <1>8, <1>9, <1>10 DEF UpdaterStep

(* Clients and secondaries cannot tell serveUpdate, ServeDNS and Transfer  *)
(* from handlers that each take effect in a single step: an UPDATE is      *)
(* served whole or not at all, whatever runs beside it.                    *)
THEOREM HandlerIsAtomic == Spec => ImplementsAtomicZone
<1>1. Init => Atomic!Init
  BY DEF Init, Atomic!Init
<1>2. RefinementInv /\ [Next]_vars => [Atomic!Next]_(Atomic!vars)
  <2> SUFFICES ASSUME RefinementInv, [Next]_vars PROVE [Atomic!Next]_(Atomic!vars)
    OBVIOUS
  <2>1. CASE \E u \in Updaters : UpdaterStep(u)
    BY <2>1, UpdaterRefines
  <2>2. CASE \E r \in Readers : StartRead(r) \/ FinishRead(r)
    <3>1. PICK r \in Readers : StartRead(r) \/ FinishRead(r)
      BY <2>2
    <3>2. Atomic!Read(r)
      BY <3>1 DEF Atomic!Read, StartRead, FinishRead, updaterVars
    <3> QED BY <3>2 DEF Atomic!Next
  <2>3. CASE Restart
    <3>1. Atomic!Restart
      BY <2>3 DEF Restart, Atomic!Restart
    <3> QED BY <3>1 DEF Atomic!Next
  <2>4. CASE UNCHANGED vars
    BY <2>4 DEF vars, updaterVars, Atomic!vars
  <2> QED BY <2>1, <2>2, <2>3, <2>4 DEF Next
<1> QED BY <1>1, <1>2, RefinementInvariant, PTL DEF Spec, ImplementsAtomicZone, Atomic!Spec

-----------------------------------------------------------------------------
(* The secondaries. *)

(* The secondaries take no step that is not one of dynupdate's readers.    *)
LEMMA SStepIsStep == [SNext]_allVars => [Next]_vars
<1> SUFFICES ASSUME [SNext]_allVars PROVE [Next]_vars
  OBVIOUS
<1>1. CASE \E u \in Updaters : (\E m \in Messages : SReceive(u, m)) \/ Serve(u)
  BY <1>1 DEF SReceive, Serve, UpdaterStep, Next
<1>2. CASE \E r \in Readers : Ask(r) \/ FinishTransfer(r)
  BY <1>2 DEF Ask, FinishTransfer, Next
<1>3. CASE UNCHANGED allVars
  BY <1>3 DEF allVars
<1> QED BY <1>1, <1>2, <1>3 DEF SNext

(* What holds of dynupdate holds of it beside its secondaries.             *)
LEMMA SecondariesOnlyRead == SSpec => Spec
<1>1. SInit => Init
  BY DEF SInit
<1> QED BY <1>1, SStepIsStep, PTL DEF SSpec, Spec

(* No UPDATE sets the serial itself.                                       *)
ServerSetsSerial ==
    \A m \in Messages : \A i \in DOMAIN m.updates : ~AddsSOA(m, i)

(* How many changes after the seed a serial is reached: 0 is skipped.      *)
age(s) ==
    LET seed == soaOf(Seed).data
    IN  IF s >= seed THEN s - seed ELSE s - seed + (2 * Half - 1)

version(z) == age(soaOf(z).data)

(* When v is served, z is v or an earlier version.                         *)
UpTo(z, v) == version(z) <= version(v) /\ (version(z) = version(v) => z = v)

(* The handlers that may still change the zone.                            *)
Undecided == {u \in Updaters : pc[u] \in {"lock", "check", "apply"}}

(* The inductive invariant: every copy is a version that was served, and   *)
(* every version took an UPDATE of its own.                                *)
SecondaryInv ==
    /\ IndInv
    /\ IsFiniteSet(Undecided)
    /\ received \in 0..MaxUpdates /\ version(view) + Cardinality(Undecided) <= received
    /\ copy \in [Readers -> SUBSET RR]
    /\ \A r \in Readers : /\ WellFormed(copy[r]) /\ UpTo(copy[r], view)
                          /\ snap[r] # {} => UpTo(snap[r], view)

(* nextSerial takes a zone to its next version, until the serials run out. *)
LEMMA NextVersion ==
    ASSUME NEW s \in Serials, age(s) < 2 * Half - 2
    PROVE  age(nextSerial(s)) = age(s) + 1
<1>1. soaOf(Seed).data \in Serials
  BY TheSOA, ServerAssumption DEF WellFormed
<1>2. Half \in Nat /\ Half > 2
  BY ZoneAssumption
<1> DEFINE k == soaOf(Seed).data
<1>3. age(s) = (IF s >= k THEN s - k ELSE s - k + (2 * Half - 1))
      /\ age(nextSerial(s)) = (IF nextSerial(s) >= k THEN nextSerial(s) - k
                               ELSE nextSerial(s) - k + (2 * Half - 1))
  BY DEF age
<1> HIDE DEF k
<1>4. k \in Nat /\ k < 2 * Half /\ s \in Nat /\ s < 2 * Half
  BY <1>1, <1>2 DEF Serials, k
<1>5. CASE s + 1 < 2 * Half
  <2>1. nextSerial(s) = s + 1
    BY <1>2, <1>4, <1>5 DEF nextSerial
  <2> QED BY <1>2, <1>3, <1>4, <1>5, <2>1
<1>6. CASE s + 1 = 2 * Half
  <2>1. nextSerial(s) = 1
    BY <1>2, <1>4, <1>6 DEF nextSerial
  <2> QED BY <1>2, <1>3, <1>4, <1>6, <2>1
<1> QED BY <1>2, <1>4, <1>5, <1>6

(* The version of a zone is a number.                                      *)
LEMMA VersionType ==
    ASSUME NEW z, WellFormed(z)
    PROVE  version(z) \in Nat
<1>1. soaOf(Seed).data \in Serials /\ soaOf(z).data \in Serials
  BY TheSOA, ServerAssumption DEF WellFormed
<1>2. Half \in Nat /\ Half > 2
  BY ZoneAssumption
<1> QED BY <1>1, <1>2 DEF version, age, Serials

(* A change of the zone is its next version, made by one undecided handler.*)
LEMMA CommitIsNextVersion ==
    ASSUME SecondaryInv, ServerSetsSerial, NEW u \in Updaters, Commit(u)
    PROVE  /\ u \in Undecided
           /\ view' = view \/ version(view') = version(view) + 1
<1>1. pc[u] = "apply" /\ msg[u] \in Messages /\ Applying(u) /\ view = rrs
  BY Zenon DEF SecondaryInv, IndInv, LockHeld, Commit, ZoneWellFormed
<1>2. u \in Undecided
  BY <1>1 DEF Undecided
<1>3. CASE view' # view
  <2>1. view' = toSwap(rrs, out[u])
    BY <1>3 DEF Commit, Answer, swap
  <2>2. soaOf(out[u]).data = soaOf(rrs).data
    <3>1. \A i \in DOMAIN msg[u].updates : ~AddsSOA(msg[u], i)
      BY <1>1 DEF ServerSetsSerial
    <3>2. OneSOAAdd(msg[u])
      BY <3>1 DEF OneSOAAdd
    <3> QED BY ZenonT(60), <1>1, <3>1, <3>2 DEF Applying, SerialSoFar
  <2>3. Zone(out[u]) /\ Zone(rrs)
    BY <1>1 DEF Zone, Applying, TypeOK, ZoneWellFormed, SecondaryInv, IndInv
  <2>4. view' = bumpSerial(out[u])
    BY Zenon, <2>1, <2>2, <2>3 DEF toSwap, Zone, WellFormed, OneSOA
  <2>5. soaOf(view').data = nextSerial(soaOf(rrs).data)
    BY <2>2, <2>3, <2>4, BumpKeepsZone
  <2>6. soaOf(rrs).data \in Serials
    BY <2>3, TheSOA DEF Zone, WellFormed
  <2>7. version(view) < 2 * Half - 2
    <3>1. Cardinality(Undecided) >= 1
      <4>1. Cardinality(Undecided) \in Nat /\ Cardinality(Undecided) # 0
        BY <1>2, FS_CardinalityType, FS_EmptySet DEF SecondaryInv
      <4> QED BY <4>1
    <3>2. /\ version(view) + Cardinality(Undecided) <= received /\ received <= MaxUpdates
          /\ received \in Nat /\ Cardinality(Undecided) \in Nat /\ version(view) \in Nat
      BY <1>1, <2>3, VersionType, FS_CardinalityType, UpdatesAssumption DEF SecondaryInv, Zone
    <3>3. MaxUpdates \in Nat /\ MaxUpdates < 2 * Half - 1 /\ Half \in Nat
      BY UpdatesAssumption, ZoneAssumption
    <3> QED BY <3>1, <3>2, <3>3
  <2> QED BY <1>1, <1>2, <2>5, <2>6, <2>7, NextVersion DEF version
<1> QED BY <1>2, <1>3

(* Every version takes an UPDATE: no more versions than UPDATEs.           *)
LEMMA CountKept ==
    ASSUME SecondaryInv, ServerSetsSerial, [SNext]_allVars
    PROVE  /\ view' = view \/ version(view') = version(view) + 1
           /\ IsFiniteSet(Undecided') /\ received' \in 0..MaxUpdates
           /\ version(view') + Cardinality(Undecided') <= received'
<1> DEFINE D == Undecided
           E == Undecided'
<1>0. /\ TypeOK /\ IsFiniteSet(D) /\ version(view) \in Nat /\ received \in Nat
      /\ received <= MaxUpdates /\ MaxUpdates \in Nat /\ Cardinality(D) \in Nat
      /\ version(view) + Cardinality(D) <= received
  <2>1. WellFormed(view)
    BY Zenon DEF SecondaryInv, IndInv, ZoneWellFormed
  <2> QED BY <2>1, VersionType, FS_CardinalityType, UpdatesAssumption DEF SecondaryInv, IndInv
<1>1. ASSUME view' = view, received' = received, E \subseteq D
      PROVE  /\ view' = view /\ IsFiniteSet(E) /\ received' \in 0..MaxUpdates
             /\ version(view') + Cardinality(E) <= received'
  <2> HIDE DEF D, E
  <2>1. IsFiniteSet(E) /\ Cardinality(E) <= Cardinality(D) /\ Cardinality(E) \in Nat
    BY <1>0, <1>1, FS_Subset, FS_CardinalityType
  <2> QED BY <1>0, <1>1, <2>1
<1>2. ASSUME NEW u \in Updaters, NEW m \in Messages, SReceive(u, m)
      PROVE  /\ view' = view /\ IsFiniteSet(E) /\ received' \in 0..MaxUpdates
             /\ version(view') + Cardinality(E) <= received'
  <2>1. view' = view /\ received < MaxUpdates /\ received' = received + 1
    BY <1>2 DEF SReceive, Receive
  <2>2. E \subseteq D \cup {u}
    BY <1>0, <1>2 DEF SReceive, Receive, Answer, TypeOK, Undecided
  <2> HIDE DEF D, E
  <2>3. /\ IsFiniteSet(D \cup {u}) /\ Cardinality(D \cup {u}) \in Nat
        /\ Cardinality(D \cup {u}) <= Cardinality(D) + 1
    <3>1. IsFiniteSet(D \cup {u}) /\ Cardinality(D \cup {u}) =
             (IF u \in D THEN Cardinality(D) ELSE Cardinality(D) + 1)
      BY <1>0, FS_AddElement
    <3> QED BY <1>0, <3>1
  <2>4. IsFiniteSet(E) /\ Cardinality(E) <= Cardinality(D \cup {u}) /\ Cardinality(E) \in Nat
    BY <2>2, <2>3, FS_Subset, FS_CardinalityType
  <2> QED BY <1>0, <2>1, <2>3, <2>4
<1>3. ASSUME NEW u \in Updaters, Commit(u), received' = received
      PROVE  /\ view' = view \/ version(view') = version(view) + 1
             /\ IsFiniteSet(E) /\ received' \in 0..MaxUpdates
             /\ version(view') + Cardinality(E) <= received'
  <2>1. u \in D /\ (view' = view \/ version(view') = version(view) + 1)
    BY <1>3, CommitIsNextVersion
  <2>2. E \subseteq D \ {u}
    BY <1>0, <1>3 DEF Commit, Answer, TypeOK, Undecided
  <2> HIDE DEF D, E
  <2>3. /\ IsFiniteSet(D \ {u}) /\ Cardinality(D \ {u}) = Cardinality(D) - 1
    BY <1>0, <2>1, FS_RemoveElement
  <2>4. IsFiniteSet(E) /\ Cardinality(E) <= Cardinality(D \ {u}) /\ Cardinality(E) \in Nat
    BY <2>2, <2>3, FS_Subset, FS_CardinalityType
  <2> QED BY <1>0, <1>3, <2>1, <2>3, <2>4
<1>4. ASSUME NEW u \in Updaters, Serve(u), ~Commit(u)
      PROVE  view' = view /\ received' = received /\ E \subseteq D
  <2>1. received' = received /\ view' = view
    BY ZenonT(60), <1>4 DEF Serve, Lock, Check, ApplyRecord, Notify, Reply, Unlock
  <2>2. CASE Lock(u) \/ Notify(u)
    BY <1>0, <2>1, <2>2 DEF Lock, Notify, TypeOK, Undecided
  <2>3. CASE Check(u)
    BY <1>0, <2>1, <2>3 DEF Check, Answer, TypeOK, Undecided
  <2>4. CASE ApplyRecord(u)
    BY ZenonT(60), <2>1, <2>4 DEF ApplyRecord, Undecided
  <2>5. CASE Reply(u) \/ Unlock(u)
    BY <1>0, <2>1, <2>5 DEF Reply, Unlock, Done, TypeOK, Undecided
  <2> QED BY <1>4, <2>2, <2>3, <2>4, <2>5 DEF Serve
<1>5. ASSUME UNCHANGED allVars \/ \E r \in Readers : Ask(r) \/ FinishTransfer(r)
      PROVE  view' = view /\ received' = received /\ E \subseteq D
  BY <1>5 DEF allVars, vars, updaterVars, Ask, StartRead, FinishTransfer, FinishRead, Undecided
<1>6. CASE \E u \in Updaters : Serve(u)
  <2>1. PICK u \in Updaters : Serve(u)
    BY <1>6
  <2>2. received' = received
    BY <2>1 DEF Serve
  <2> QED BY <1>1, <1>3, <1>4, <2>1, <2>2
<1> QED BY <1>1, <1>2, <1>5, <1>6 DEF SNext

(* A version stays one when the zone moves on.                             *)
LEMMA UpToKept ==
    ASSUME NEW z, WellFormed(z), NEW v, WellFormed(v), UpTo(z, v), NEW w,
           w = v \/ version(w) = version(v) + 1
    PROVE  UpTo(z, w)
<1>1. version(z) \in Nat /\ version(v) \in Nat
  BY VersionType
<1> QED BY <1>1 DEF UpTo

(* Every step keeps the invariant of the secondaries.                      *)
LEMMA SecondaryStep ==
    ASSUME SecondaryInv, ServerSetsSerial, [SNext]_allVars
    PROVE  SecondaryInv'
<1>1. IndInv'
  BY StepInd, SStepIsStep DEF SecondaryInv
<1>2. /\ view' = view \/ version(view') = version(view) + 1
      /\ IsFiniteSet(Undecided') /\ received' \in 0..MaxUpdates
      /\ version(view') + Cardinality(Undecided') <= received'
  BY CountKept
<1>3. TypeOK /\ WellFormed(view) /\ (\A r \in Readers : snap[r] # {} => WellFormed(snap[r]))
  BY DEF SecondaryInv, IndInv, ZoneWellFormed
<1>4. ASSUME NEW r \in Readers
      PROVE  UpTo(copy[r], view') /\ (snap[r] # {} => UpTo(snap[r], view')) /\ UpTo(view, view)
  <2>1. WellFormed(copy[r]) /\ UpTo(copy[r], view) /\ (snap[r] # {} => UpTo(snap[r], view))
    BY ZenonT(60) DEF SecondaryInv
  <2>2. UpTo(copy[r], view')
    BY ZenonT(60), <1>2, <1>3, <2>1, UpToKept
  <2>3. snap[r] # {} => UpTo(snap[r], view')
    BY <1>2, <1>3, <2>1, UpToKept
  <2>4. UpTo(view, view)
    BY <1>3, VersionType DEF UpTo
  <2> QED BY <2>2, <2>3, <2>4
<1>5. /\ copy' \in [Readers -> SUBSET RR]
      /\ \A r \in Readers : /\ WellFormed(copy'[r]) /\ UpTo(copy'[r], view')
                            /\ snap'[r] # {} => UpTo(snap'[r], view')
  <2>1. CASE copy' = copy /\ snap' = snap
    BY ZenonT(60), <1>4, <2>1 DEF SecondaryInv
  <2>2. CASE \E q \in Readers : Ask(q)
    <3>1. PICK q \in Readers : Ask(q)
      BY <2>2
    <3>2. copy' = copy /\ view' = view /\ snap' = [snap EXCEPT ![q] = view]
      BY <3>1 DEF Ask, StartRead
    <3> QED BY <1>3, <1>4, <3>2 DEF SecondaryInv, TypeOK
  <2>3. CASE \E q \in Readers : FinishTransfer(q)
    <3>1. PICK q \in Readers : FinishTransfer(q)
      BY <2>3
    <3>2. /\ snap[q] # {} /\ view' = view /\ snap' = [snap EXCEPT ![q] = {}]
          /\ copy' = [copy EXCEPT ![q] = copy[q]] \/ copy' = [copy EXCEPT ![q] = snap[q]]
      BY Zenon, <3>1 DEF FinishTransfer, FinishRead, takeOver
    <3> QED BY <1>3, <1>4, <3>2 DEF SecondaryInv, TypeOK
  <2>4. CASE \E u \in Updaters : (\E m \in Messages : SReceive(u, m)) \/ Serve(u)
    <3>1. copy' = copy /\ snap' = snap
      BY ZenonT(60), <2>4 DEF SReceive, Receive, Serve, Lock, Check, ApplyRecord, Commit, Notify, Reply,
                  Unlock
    <3> QED BY <2>1, <3>1
  <2>5. CASE UNCHANGED allVars
    BY Zenon, <2>1, <2>5 DEF allVars, vars
  <2> QED BY ZenonT(60), <2>2, <2>3, <2>4, <2>5 DEF SNext
<1> QED BY ZenonT(60), <1>1, <1>2, <1>5 DEF SecondaryInv

(* A secondary with the server's serial has the server's zone, while the   *)
(* UPDATEs leave the serial to the server and are fewer than the serials.  *)
THEOREM SerialNamesVersion == ASSUME ServerSetsSerial PROVE SSpec => []SameSerialSameZone
<1>1. SInit => SecondaryInv
  <2> SUFFICES ASSUME SInit PROVE SecondaryInv
    OBVIOUS
  <2>1. IndInv /\ view = Seed /\ received = 0 /\ copy = [r \in Readers |-> Seed]
    BY InitInd DEF SInit, Init
  <2>2. Undecided = {} /\ (\A r \in Readers : snap[r] = {})
    BY DEF SInit, Init, Undecided
  <2>3. version(view) = 0 /\ UpTo(Seed, view)
    <3>1. soaOf(Seed).data \in Serials
      BY TheSOA, ServerAssumption DEF WellFormed
    <3>2. soaOf(Seed).data \in Int
      BY <3>1, ZoneAssumption DEF Serials
    <3>3. version(Seed) = 0
      BY <3>2 DEF version, age
    <3> QED BY <2>1, <3>3 DEF UpTo
  <2>4. IsFiniteSet(Undecided) /\ Cardinality(Undecided) = 0
    BY <2>2, FS_EmptySet
  <2>5. received \in 0..MaxUpdates
    BY <2>1, UpdatesAssumption
  <2> QED BY <2>1, <2>2, <2>3, <2>4, <2>5, ServerAssumption DEF SecondaryInv
<1>2. SecondaryInv /\ [SNext]_allVars => SecondaryInv'
  BY SecondaryStep
<1>3. SecondaryInv => SameSerialSameZone
  BY Zenon DEF SecondaryInv, SameSerialSameZone, UpTo, version
<1> QED BY <1>1, <1>2, <1>3, PTL DEF SSpec

=============================================================================
