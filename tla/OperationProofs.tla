-------------------------- MODULE OperationProofs --------------------------
(***************************************************************************)
(* Proofs about what outlives a server or is shared by several: the        *)
(* background loops that must survive caddy's reloads (Lifecycle), the     *)
(* cookie secret and its rollover (Cookie), and the token's keys in Valkey *)
(* (ProbeValkey).  The three share no state.                               *)
(***************************************************************************)
EXTENDS Cookie, ProbeValkey, Lifecycle, FiniteSetTheorems, TLAPS

-----------------------------------------------------------------------------
(***************************************************************************)
(* Lifecycle, for every set of blocks and any number of reloads.           *)
(***************************************************************************)

(* The loops of instance i's blocks in S run.                              *)
Ran(i, S) == \A b \in S : running[i][b] \in registry

(* While caddy walks over an instance's hooks, those that are done have    *)
(* started their loop, and the instance being walked over exists.          *)
HooksDone ==
    /\ phase \in {"serving", "restart", "restartFailed", "shutdown"} => live \in Instances
    /\ phase = "startup" => todo \subseteq blocks[reloads]
                            /\ Ran(reloads, blocks[reloads] \ todo)
    /\ phase = "restartFailed" => todo \subseteq blocks[live]
                                  /\ Ran(live, blocks[live] \ (todo \cup failed))
    /\ phase \in {"restart", "shutdown"} => todo \subseteq blocks[live]

(* The inductive invariant.                                                *)
LifecycleInv == LifecycleTypeOK /\ OneInstanceRuns /\ HooksDone /\ ServingBlocksRun

-----------------------------------------------------------------------------
(* The next hook caddy runs is that of one of the blocks still to do.      *)
LEMMA MinIsMember ==
    ASSUME NEW S, S \subseteq Nat, S # {}
    PROVE  Min(S) \in S
<1> DEFINE less == OpToRel(<, Nat)
<1>1. IsWellFoundedOn(less, Nat)
  BY Zenon, NatLessThanWellFounded
<1>2. \A x, y \in Nat : <<y, x>> \in less <=> y < x
  BY DEF OpToRel
<1> HIDE DEF less
<1>3. PICK x \in S : \A y \in S : ~(<<y, x>> \in less)
  BY Zenon, <1>1, WFMin
<1>4. ASSUME NEW y \in S PROVE x =< y
  <2>1. x \in Nat /\ y \in Nat
    OBVIOUS
  <2>2. ~(y < x)
    BY Zenon, <1>2, <1>3, <2>1
  <2> QED BY <2>1, <2>2
<1> QED BY Zenon, <1>4 DEF Min

(* No loop has the handle of a block that never started one.               *)
LEMMA NoHandleNeverRuns == NoHandle \notin Handles
<1>1. NoHandle.inst \notin Instances
  BY LifecycleAssumption DEF NoHandle, None, Instances
<1> QED BY <1>1 DEF Handles

(* What the registry is about: types, and who owns a running loop.         *)
Owned ==
    /\ registry \subseteq Handles
    /\ running \in [Instances -> [Blocks -> Handles \cup {NoHandle}]]
    /\ \A i \in Instances, b \in Blocks :
          running[i][b] # NoHandle => running[i][b].inst = i /\ running[i][b].block = b
    /\ OneInstanceRuns

(* adopt leaves the loops of one instance, each with its block's handle;   *)
(* the block's loop runs and the instance's other loops still do.          *)
LEMMA AdoptKeeps ==
    ASSUME Owned, NEW i \in Instances, NEW b \in Blocks, reloads \in Instances, adopt(i, b)
    PROVE  /\ Owned'
           /\ running'[i][b] \in registry'
           /\ \A c \in Blocks : running[i][c] \in registry => running'[i][c] \in registry'
<1> DEFINE new == [inst |-> i, block |-> b, reload |-> reloads]
<1>1. new \in Handles /\ new.inst = i /\ new.block = b
  BY DEF Handles
<1>2. registry' = {h \in registry : h # running[i][b] /\ h.inst = i} \cup {new}
  BY DEF adopt
<1>3. running' = [running EXCEPT ![i][b] = new]
  BY DEF adopt
<1> HIDE DEF new
<1>4. /\ running'[i][b] = new
      /\ \A j \in Instances, c \in Blocks :
            j # i \/ c # b => running'[j][c] = running[j][c]
  BY <1>3 DEF Owned
<1>5. running' \in [Instances -> [Blocks -> Handles \cup {NoHandle}]]
  BY <1>1, <1>3 DEF Owned
<1>6. registry' \subseteq Handles
  BY <1>1, <1>2 DEF Owned
<1>7. ASSUME NEW j \in Instances, NEW c \in Blocks, running'[j][c] # NoHandle
      PROVE  running'[j][c].inst = j /\ running'[j][c].block = c
  BY <1>1, <1>4, <1>7 DEF Owned
<1>8. ASSUME NEW h \in registry' PROVE h.inst = i /\ running'[h.inst][h.block] = h
  <2>1. CASE h = new
    BY <2>1, <1>1, <1>4
  <2>2. CASE h # new
    <3>1. h \in registry /\ h # running[i][b] /\ h.inst = i
      BY <2>2, <1>2
    <3>2. h.block \in Blocks /\ running[i][h.block] = h
      BY <3>1 DEF Owned, OneInstanceRuns, Handles
    <3> QED BY <3>1, <3>2, <1>4
  <2> QED BY <2>1, <2>2
<1>9. Owned'
  BY <1>5, <1>6, <1>7, <1>8 DEF Owned, OneInstanceRuns
<1>10. ASSUME NEW c \in Blocks, running[i][c] \in registry
       PROVE  running'[i][c] \in registry'
  <2>1. CASE c = b
    BY <2>1, <1>2, <1>4
  <2>2. CASE c # b
    <3>1. running[i][c] # NoHandle
      BY <1>10, NoHandleNeverRuns DEF Owned
    <3>2. running[i][c].inst = i /\ running[i][c].block = c
      BY <3>1 DEF Owned
    <3>3. running[i][c] # running[i][b]
      BY <2>2, <3>1, <3>2 DEF Owned
    <3> QED BY <2>2, <3>2, <3>3, <1>2, <1>4, <1>10
  <2> QED BY <2>1, <2>2
<1> QED BY <1>2, <1>4, <1>9, <1>10

(* OnShutdown cancels its own block's loop, and no handle is lost.         *)
LEMMA ShutdownKeeps ==
    ASSUME Owned, NEW i \in Instances, NEW b \in Blocks, OnShutdown(i, b)
    PROVE  Owned'
<1>1. /\ registry' = registry \ {running[i][b]}
      /\ running' = [running EXCEPT ![i][b] = NoHandle]
  BY DEF OnShutdown
<1>2. /\ running' \in [Instances -> [Blocks -> Handles \cup {NoHandle}]]
      /\ running'[i][b] = NoHandle
      /\ \A j \in Instances, c \in Blocks :
            j # i \/ c # b => running'[j][c] = running[j][c]
  BY <1>1 DEF Owned
<1>3. registry' \subseteq Handles
  BY <1>1 DEF Owned
<1>4. ASSUME NEW h \in registry' PROVE running'[h.inst][h.block] = h
  <2>1. /\ h \in registry /\ h # running[i][b]
        /\ h.inst \in Instances /\ h.block \in Blocks
        /\ running[h.inst][h.block] = h
    BY <1>1 DEF Owned, OneInstanceRuns, Handles
  <2> QED BY <1>2, <2>1
<1>5. \A g, h \in registry' : g.inst = h.inst
  BY <1>1 DEF Owned, OneInstanceRuns
<1> QED BY <1>2, <1>3, <1>4, <1>5 DEF Owned, OneInstanceRuns

-----------------------------------------------------------------------------
(* The first start: nothing runs yet.                                      *)
LEMMA LifecycleInitially == LifecycleInit => LifecycleInv
<1> SUFFICES ASSUME LifecycleInit PROVE LifecycleInv
  OBVIOUS
<1>1. PICK s \in SUBSET Blocks : blocks = [i \in Instances |-> IF i = 0 THEN s ELSE {}]
  BY DEF LifecycleInit
<1>2. 0 \in Instances
  BY LifecycleAssumption DEF Instances
<1>3. LifecycleTypeOK
  BY <1>1, <1>2 DEF LifecycleInit, LifecycleTypeOK
<1> QED BY <1>1, <1>2, <1>3 DEF LifecycleInit, LifecycleInv, OneInstanceRuns, HooksDone, Ran,
                               ServingBlocksRun

(* Every step of caddy and of the plugins' hooks keeps the invariant.      *)
LEMMA LifecycleStepKeeps == LifecycleInv /\ [LifecycleNext]_lifecycleVars => LifecycleInv'
<1> SUFFICES ASSUME LifecycleInv, [LifecycleNext]_lifecycleVars PROVE LifecycleInv'
  OBVIOUS
<1> USE DEF LifecycleInv
<1>0. Owned
  BY DEF Owned, LifecycleTypeOK
<1>min. todo # {} => Min(todo) \in todo /\ Min(todo) \in Blocks
  BY Zenon, MinIsMember, LifecycleAssumption DEF LifecycleTypeOK
<1>1. CASE RunOnStartup
  <2>1. /\ phase = "startup" /\ Min(todo) \in todo /\ Min(todo) \in Blocks
        /\ adopt(reloads, Min(todo))
        /\ todo' = todo \ {Min(todo)}
        /\ UNCHANGED <<phase, live, blocks, reloads, failed>>
    BY <1>1, <1>min DEF RunOnStartup, popTodo
  <2> DEFINE b == Min(todo)
  <2>2. /\ Owned' /\ running'[reloads][b] \in registry'
        /\ \A c \in Blocks : running[reloads][c] \in registry
                                => running'[reloads][c] \in registry'
    BY <1>0, <2>1, AdoptKeeps DEF LifecycleTypeOK
  <2>3. LifecycleTypeOK' /\ OneInstanceRuns'
    BY <2>1, <2>2 DEF LifecycleTypeOK, Owned
  <2>4. Ran(reloads, blocks[reloads] \ todo)'
    BY <2>1, <2>2 DEF HooksDone, Ran, LifecycleTypeOK
  <2> QED BY <2>1, <2>3, <2>4 DEF HooksDone, Ran, ServingBlocksRun
<1>2. CASE OnStartupFails
  BY <1>2 DEF OnStartupFails, dropInstance, enter, LifecycleTypeOK, OneInstanceRuns, HooksDone, Ran,
              ServingBlocksRun
<1>3. CASE OtherStartFails
  BY <1>3 DEF OtherStartFails, dropInstance, enter, LifecycleTypeOK, OneInstanceRuns, HooksDone, Ran,
              ServingBlocksRun
<1>4. CASE Started
  BY <1>4 DEF Started, LifecycleTypeOK, OneInstanceRuns, HooksDone, Ran, ServingBlocksRun
<1>5. CASE ReloadCorefile
  <2>1. reloads' \in Instances
    BY <1>5, LifecycleAssumption DEF ReloadCorefile, LifecycleTypeOK, Instances
  <2> QED BY <1>5, <2>1 DEF ReloadCorefile, enter, LifecycleTypeOK, OneInstanceRuns, HooksDone, Ran,
                           ServingBlocksRun
<1>6. CASE RunOnRestart
  <2>1. /\ phase = "restart" /\ Min(todo) \in Blocks
        /\ OnShutdown(live, Min(todo))
        /\ todo' = todo \ {Min(todo)}
        /\ UNCHANGED <<phase, live, blocks, reloads, failed>>
    BY <1>6, <1>min DEF RunOnRestart, popTodo
  <2>2. Owned'
    BY <1>0, <2>1, ShutdownKeeps DEF HooksDone
  <2> QED BY <2>1, <2>2 DEF Owned, LifecycleTypeOK, HooksDone, ServingBlocksRun
<1>7. CASE RestartFails
  BY <1>7 DEF RestartFails, enter, LifecycleTypeOK, OneInstanceRuns, HooksDone, Ran, ServingBlocksRun
<1>8. CASE \E s \in SUBSET Blocks : NewInstance(s)
  BY <1>8 DEF NewInstance, enter, LifecycleTypeOK, OneInstanceRuns, HooksDone, Ran, ServingBlocksRun
<1>9. CASE RunOnRestartFailed
  <2>1. /\ phase = "restartFailed" /\ Min(todo) \in todo /\ Min(todo) \in Blocks
        /\ adopt(live, Min(todo))
        /\ todo' = todo \ {Min(todo)}
        /\ UNCHANGED <<phase, live, blocks, reloads, failed>>
    BY <1>9, <1>min DEF RunOnRestartFailed, popTodo
  <2> DEFINE b == Min(todo)
  <2>2. /\ Owned' /\ running'[live][b] \in registry'
        /\ \A c \in Blocks : running[live][c] \in registry => running'[live][c] \in registry'
    BY <1>0, <2>1, AdoptKeeps DEF LifecycleTypeOK, HooksDone
  <2>3. LifecycleTypeOK' /\ OneInstanceRuns'
    BY <2>1, <2>2 DEF LifecycleTypeOK, Owned
  <2>4. Ran(live, blocks[live] \ (todo \cup failed))'
    BY <2>1, <2>2 DEF HooksDone, Ran, LifecycleTypeOK
  <2> QED BY <2>1, <2>3, <2>4 DEF HooksDone, Ran, ServingBlocksRun
<1>10. CASE OnRestartFailedFails
  BY <1>10, <1>min DEF OnRestartFailedFails, popTodo, LifecycleTypeOK, OneInstanceRuns, HooksDone,
                      Ran, ServingBlocksRun
<1>11. CASE Resumed
  BY <1>11 DEF Resumed, LifecycleTypeOK, OneInstanceRuns, HooksDone, Ran, ServingBlocksRun
<1>12. CASE Exit
  <2>1. /\ phase = "serving" /\ phase' = "shutdown" /\ todo' = blocks[live]
        /\ UNCHANGED <<live, blocks, reloads, failed, registry, running>>
    BY <1>12 DEF Exit, enter
  <2>2. live \in Instances
    BY <2>1 DEF HooksDone
  <2>3. LifecycleTypeOK' /\ OneInstanceRuns'
    BY <2>1, <2>2 DEF LifecycleTypeOK, OneInstanceRuns
  <2>4. HooksDone' /\ ServingBlocksRun'
    BY <2>1, <2>2 DEF HooksDone, ServingBlocksRun
  <2> QED BY <2>3, <2>4
<1>13. CASE RunOnFinalShutdown
  <2>1. /\ phase = "shutdown" /\ Min(todo) \in Blocks
        /\ OnShutdown(live, Min(todo))
        /\ todo' = todo \ {Min(todo)}
        /\ UNCHANGED <<phase, live, blocks, reloads, failed>>
    BY <1>13, <1>min DEF RunOnFinalShutdown, popTodo
  <2>2. Owned'
    BY <1>0, <2>1, ShutdownKeeps DEF HooksDone
  <2> QED BY <2>1, <2>2 DEF Owned, LifecycleTypeOK, HooksDone, ServingBlocksRun
<1>14. CASE UNCHANGED lifecycleVars
  BY <1>14 DEF lifecycleVars, caddy, LifecycleTypeOK, OneInstanceRuns, HooksDone, Ran, ServingBlocksRun
<1> QED BY <1>1, <1>2, <1>3, <1>4, <1>5, <1>6, <1>7, <1>8, <1>9, <1>10, <1>11, <1>12,
           <1>13, <1>14 DEF LifecycleNext

(* LifecycleInv holds in every reachable state.                            *)
THEOREM LifecycleInvariant == LifecycleSpec => []LifecycleInv
BY LifecycleInitially, LifecycleStepKeeps, PTL DEF LifecycleSpec

(* However starts and reloads fail, and however often, the uncancelled     *)
(* loops of sni_tls and radnr belong to one caddy instance, and each is the*)
(* one its block's OnShutdown and adopt will cancel.                       *)
THEOREM OneInstanceAlways == LifecycleSpec => []OneInstanceRuns
<1>1. LifecycleInv => OneInstanceRuns
  BY DEF LifecycleInv
<1> QED BY <1>1, LifecycleInvariant, PTL

(* Every block of the instance in service has its loop, but for those whose*)
(* OnStartup, run as OnRestartFailed, failed.                              *)
THEOREM ServingAlwaysRuns == LifecycleSpec => []ServingBlocksRun
<1>1. LifecycleInv => ServingBlocksRun
  BY DEF LifecycleInv
<1> QED BY <1>1, LifecycleInvariant, PTL

-----------------------------------------------------------------------------
(***************************************************************************)
(* Cookie, for every set of servers and addresses, every width of the      *)
(* timestamp, and every window and clock skew that fit into it.            *)
(***************************************************************************)

(* The stages of the README's rollover.                                    *)
StagesInOrder ==
    \A s \in Servers :
        /\ stage[s] >= 2 => \A r \in Servers : stage[r] >= 1
        /\ stage[s] = 3 => (\A r \in Servers : stage[r] >= 2) /\ slowest >= entered + Wait

(* A cookie some server of the set made at t, by that server's clock.  One *)
(* of secret A is no younger than the last step to stage 2, and once there *)
(* is one of secret B every server knows that secret.                      *)
Genuine(option, t) ==
    /\ t \in Start..slowest
    /\ \E k \in Secrets, a \in Sources, x \in 0..MaxSkew :
          option = WithServer(serverCookie(k, a, t + x))
    /\ option.cookie.secret = "A" /\ (\A r \in Servers : stage[r] >= 2) => t <= entered
    /\ option.cookie.secret = "B" => \A r \in Servers : stage[r] >= 1

(* The inductive invariant.                                                *)
CookieInv ==
    /\ slowest \in Start..End /\ entered \in Start..slowest /\ issued \in Start..slowest
    /\ skew \in [Servers -> 0..MaxSkew]
    /\ stage \in [Servers -> 0..3]
    /\ ip \in Sources
    /\ StagesInOrder
    /\ held = ClientOnly \/ Genuine(held, issued)
    /\ reply # Quiet => reply.option = NoCookie \/ Genuine(reply.option, sent)

-----------------------------------------------------------------------------
(* Arithmetic modulo 2^32.                                                 *)

(* Quotient and remainder are unique.                                      *)
LEMMA ModUnique ==
    ASSUME NEW M \in Nat \ {0}, NEW x \in Int, NEW q \in Int, NEW r \in 0..(M - 1),
           x = M * q + r
    PROVE  x % M = r
OBVIOUS

(* Taking the remainder first does not change a difference.                *)
LEMMA ModSubtract ==
    ASSUME NEW M \in Nat \ {0}, NEW t \in Int, NEW d \in Int
    PROVE  (t - ((t - d) % M)) % M = d % M
<1> DEFINE q == (t - d) \div M
           r == (t - d) % M
           p == d \div M
           u == d % M
<1>1. q \in Int /\ p \in Int /\ r \in 0..(M - 1) /\ u \in 0..(M - 1)
  OBVIOUS
<1>2. t - d = M * q + r
  OBVIOUS
<1>3. d = M * p + u
  OBVIOUS
<1> HIDE DEF q, p, r, u
<1>4. M * q \in Int /\ M * p \in Int /\ M * (q + p) = M * q + M * p /\ q + p \in Int
  BY <1>1
<1>5. t - r \in Int /\ t - r = M * (q + p) + u
  BY <1>1, <1>2, <1>3, <1>4
<1>6. (t - r) % M = u
  BY <1>1, <1>4, <1>5, ModUnique
<1> QED BY <1>6 DEF r, u

(* inWindow accepts a timestamp d seconds old exactly when the window does,*)
(* for every d no whole wrap away from it.                                 *)
LEMMA InWindowExact ==
    ASSUME NEW t \in Int,
           NEW d \in (maxAgeSeconds - Modulus + 1)..(Modulus - maxFutureSeconds - 1)
    PROVE  inWindow(t, (t - d) % Modulus) <=> d \in -maxFutureSeconds..maxAgeSeconds
<1>1. /\ Modulus \in Nat \ {0} /\ maxAgeSeconds \in Nat /\ maxFutureSeconds \in Nat
      /\ maxAgeSeconds + maxFutureSeconds < Modulus
  BY CookieAssumption
<1>2. d \in Int
  BY <1>1
<1>3. (t - ((t - d) % Modulus)) % Modulus = d % Modulus
  BY Zenon, <1>1, <1>2, ModSubtract
<1>4. d % Modulus = IF d >= 0 THEN d ELSE d + Modulus
  <2>1. CASE d >= 0
    <3>1. d \in 0..(Modulus - 1) /\ d = Modulus * 0 + d
      BY <1>1, <1>2, <2>1
    <3>2. d % Modulus = d
      BY <1>1, <1>2, <3>1, ModUnique
    <3> QED BY <2>1, <3>2
  <2>2. CASE d < 0
    <3>1. d + Modulus \in 0..(Modulus - 1) /\ d = Modulus * (-1) + (d + Modulus)
      BY <1>1, <1>2, <2>2
    <3>2. d % Modulus = d + Modulus
      BY <1>1, <1>2, <3>1, ModUnique
    <3> QED BY <1>2, <2>2, <3>2
  <2> QED BY <1>2, <2>1, <2>2
<1> DEFINE age == d % Modulus
<1>5. inWindow(t, (t - d) % Modulus)
         <=> age <= maxAgeSeconds \/ age >= Modulus - maxFutureSeconds
  BY <1>3 DEF inWindow
<1> HIDE DEF age
<1>6. age = IF d >= 0 THEN d ELSE d + Modulus
  BY <1>4 DEF age
<1> QED BY <1>1, <1>2, <1>5, <1>6

(* A genuine cookie seen by a server: its age by that server's clock, and  *)
(* what inWindow makes of it.                                              *)
LEMMA GenuineAge ==
    ASSUME CookieInv, NEW s \in Servers, NEW t \in Start..slowest, NEW x \in 0..MaxSkew
    PROVE  LET d == clock(s) - (t + x)
           IN  /\ d \in -maxFutureSeconds..(slowest - t + MaxSkew)
               /\ d >= slowest - t - MaxSkew
               /\ inWindow(clock(s), (t + x) % Modulus) <=> d <= maxAgeSeconds
<1> DEFINE d == clock(s) - (t + x)
<1>1. /\ Start \in Nat /\ End \in Nat /\ slowest \in Start..End /\ skew[s] \in 0..MaxSkew
      /\ MaxSkew \in 0..maxFutureSeconds /\ maxFutureSeconds \in Nat /\ maxAgeSeconds \in Nat
      /\ Modulus \in Nat
      /\ maxAgeSeconds + maxFutureSeconds < Modulus
      /\ End - Start + MaxSkew < Modulus - maxFutureSeconds
  BY CookieAssumption DEF CookieInv
<1>2. clock(s) = slowest + skew[s] /\ clock(s) \in Int
  BY <1>1 DEF clock
<1>3. /\ d \in Int /\ clock(s) - d = t + x
      /\ d >= -maxFutureSeconds /\ d <= slowest - t + MaxSkew /\ d >= slowest - t - MaxSkew
      /\ d \in (maxAgeSeconds - Modulus + 1)..(Modulus - maxFutureSeconds - 1)
  BY <1>1, <1>2
<1> HIDE DEF d
<1>4. inWindow(clock(s), (t + x) % Modulus) <=> d \in -maxFutureSeconds..maxAgeSeconds
  BY <1>2, <1>3, InWindowExact
<1>5. inWindow(clock(s), (t + x) % Modulus) <=> d <= maxAgeSeconds
  BY <1>1, <1>3, <1>4
<1> QED BY <1>1, <1>3, <1>5 DEF d

-----------------------------------------------------------------------------
(* Steps.                                                                  *)

(* The rollover has not begun and the client has no cookie.                *)
LEMMA CookieInitially == CookieInit => CookieInv
<1> SUFFICES ASSUME CookieInit PROVE CookieInv
  OBVIOUS
<1>1. Start \in Nat /\ End \in Nat /\ Start <= End
  BY CookieAssumption
<1> QED BY <1>1 DEF CookieInit, CookieInv, StagesInOrder

(* A cookie stays genuine while the rollover goes on and time passes.      *)
LEMMA GenuineStays ==
    ASSUME CookieInv, NEW option, NEW t, Genuine(option, t),
           \/ \E s \in Servers : Reload(s)
           \/ Tick
           \/ UNCHANGED <<slowest, stage, entered>>
    PROVE  Genuine(option, t)'
<1>1. Start \in Nat /\ End \in Nat
  BY CookieAssumption
<1>2. CASE UNCHANGED <<slowest, stage, entered>>
  BY <1>2 DEF Genuine
<1>3. CASE Tick
  <2>1. slowest' = slowest + 1 /\ UNCHANGED <<stage, entered>>
    BY <1>3 DEF Tick
  <2>2. t \in Start..slowest'
    <3>1. t \in Start..slowest /\ slowest \in Start..End
      BY Zenon DEF Genuine, CookieInv
    <3> QED BY <1>1, <2>1, <3>1
  <2> QED BY Zenon, <2>1, <2>2 DEF Genuine
<1>4. ASSUME NEW s \in Servers, Reload(s) PROVE Genuine(option, t)'
  <2>1. /\ stage' = [stage EXCEPT ![s] = stage[s] + 1] /\ slowest' = slowest
        /\ entered' = IF stage[s] = 1 THEN slowest ELSE entered
        /\ stage[s] \in 0..3 /\ \A r \in Servers : stage'[r] \in Int /\ stage[r] <= stage'[r]
    BY <1>4 DEF Reload, CookieInv
  <2>2. t \in Start..slowest' /\ \E k \in Secrets, a \in Sources, x \in 0..MaxSkew :
                                 option = WithServer(serverCookie(k, a, t + x))
    BY Zenon, <2>1 DEF Genuine
  <2>3. option.cookie.secret = "B" => \A r \in Servers : stage'[r] >= 1
    BY <2>1 DEF Genuine, CookieInv
  <2>4. ASSUME option.cookie.secret = "A", \A r \in Servers : stage'[r] >= 2
        PROVE  t <= entered'
    <3>1. CASE stage[s] = 1
      BY <2>1, <2>2, <3>1
    <3>2. CASE stage[s] # 1
      <4>1. \A r \in Servers : stage[r] >= 2
        BY <2>1, <2>4, <3>2 DEF CookieInv
      <4> QED BY <2>1, <2>4, <3>2, <4>1 DEF Genuine
    <3> QED BY <3>1, <3>2
  <2> QED BY <2>2, <2>3, <2>4 DEF Genuine
<1> QED BY <1>2, <1>3, <1>4

(* What a server puts into a reply is its own fresh cookie, or nothing.    *)
LEMMA FreshIsGenuine ==
    ASSUME CookieInv, NEW s \in Servers, NEW option, NEW proto
    PROVE  LET r == ServeDNS(secrets(s), option, ip, proto, clock(s))
           IN  r.option = NoCookie \/ Genuine(r.option, slowest)
<1> DEFINE k == secrets(s).generate
           fresh == WithServer(serverCookie(k, ip, clock(s)))
           r == ServeDNS(secrets(s), option, ip, proto, clock(s))
<1>1. r.option = NoCookie \/ r.option = fresh
  BY DEF ServeDNS
<1>2. stage[s] \in 0..3 /\ skew[s] \in 0..MaxSkew /\ ip \in Sources
  BY DEF CookieInv
<1>3. /\ k \in Secrets
      /\ k = "A" => ~(stage[s] >= 2)
      /\ k = "B" => stage[s] >= 2
  BY <1>2 DEF secrets, Secrets
<1>4. fresh.cookie.secret = k
  BY DEF WithServer, serverCookie
<1>5. slowest \in Start..slowest
  BY CookieAssumption DEF CookieInv
<1> HIDE DEF k
<1>6. \E j \in Secrets, a \in Sources, x \in 0..MaxSkew :
         fresh = WithServer(serverCookie(j, a, slowest + x))
  BY <1>2, <1>3 DEF clock
<1> HIDE DEF fresh
<1>7. Genuine(fresh, slowest)
  BY <1>3, <1>4, <1>5, <1>6 DEF Genuine, CookieInv, StagesInOrder
<1> QED BY <1>1, <1>7

(* Every step keeps the invariant.                                         *)
LEMMA CookieStepKeeps == CookieInv /\ [CookieNext]_cookieVars => CookieInv'
<1> SUFFICES ASSUME CookieInv, [CookieNext]_cookieVars PROVE CookieInv'
  OBVIOUS
<1>0. Start \in Nat /\ End \in Nat /\ Wait \in Nat
  BY CookieAssumption
<1>1. ASSUME NEW s \in Servers, NEW option, NEW proto, Answer(s, option, proto)
      PROVE  CookieInv'
  <2>1. /\ reply' = ServeDNS(secrets(s), option, ip, proto, clock(s)) /\ sent' = slowest
        /\ UNCHANGED <<slowest, skew, stage, entered, ip, held, issued>>
    BY <1>1 DEF Answer
  <2>2. reply'.option = NoCookie \/ Genuine(reply'.option, sent')
    BY <2>1, FreshIsGenuine
  <2>3. reply'.option = NoCookie \/ Genuine(reply.option, sent)'
    BY <2>1, <2>2 DEF Genuine
  <2>4. held = ClientOnly \/ Genuine(held, issued)'
    BY <2>1 DEF CookieInv, Genuine
  <2> QED BY <2>1, <2>3, <2>4 DEF CookieInv, StagesInOrder
<1>2. ASSUME NEW s \in Servers, Reload(s) PROVE CookieInv'
  <2>1. /\ stage[s] \in 0..2 /\ stage' = [stage EXCEPT ![s] = stage[s] + 1]
        /\ entered' = IF stage[s] = 1 THEN slowest ELSE entered
        /\ UNCHANGED <<slowest, skew, ip, held, issued, reply, sent>>
    BY <1>2 DEF Reload, CookieInv
  <2>2. /\ stage[s] = 1 => \A r \in Servers : stage[r] >= 1
        /\ stage[s] = 2 => (\A r \in Servers : stage[r] >= 2) /\ slowest >= entered + Wait
    BY <1>2 DEF Reload
  <2>3. /\ stage' \in [Servers -> 0..3] /\ stage'[s] = stage[s] + 1
        /\ \A r \in Servers \ {s} : stage'[r] = stage[r]
        /\ \A r \in Servers : stage[r] \in 0..3
    BY <2>1 DEF CookieInv
  <2>4. ASSUME NEW q \in Servers, stage'[q] >= 2 PROVE \A r \in Servers : stage'[r] >= 1
    BY <2>1, <2>2, <2>3, <2>4 DEF CookieInv, StagesInOrder
  <2>5. ASSUME NEW q \in Servers, stage'[q] = 3
        PROVE  (\A r \in Servers : stage'[r] >= 2) /\ slowest' >= entered' + Wait
    <3>1. (\A r \in Servers : stage[r] >= 2) /\ slowest >= entered + Wait
      BY <2>1, <2>2, <2>3, <2>5 DEF CookieInv, StagesInOrder
    <3> QED BY <2>1, <2>3, <3>1
  <2>6. entered' \in Start..slowest'
    BY <1>0, <2>1 DEF CookieInv
  <2>7. /\ held = ClientOnly \/ Genuine(held, issued)'
        /\ reply # Quiet => reply.option = NoCookie \/ Genuine(reply.option, sent)'
    BY Zenon, <2>1, <1>2, GenuineStays DEF CookieInv, Genuine
  <2> QED BY <2>1, <2>3, <2>4, <2>5, <2>6, <2>7 DEF CookieInv, StagesInOrder
<1>3. CASE Receive
  <2>1. /\ reply # Quiet /\ reply' = Quiet
        /\ \/ UNCHANGED <<held, issued>>
           \/ reply.option # NoCookie /\ held' = reply.option /\ issued' = sent
        /\ UNCHANGED <<slowest, skew, stage, entered, ip>>
    BY <1>3 DEF Receive
  <2>2. issued' \in Start..slowest' /\ (held' = ClientOnly \/ Genuine(held, issued)')
    BY <2>1 DEF CookieInv, Genuine
  <2> QED BY <2>1, <2>2 DEF CookieInv, StagesInOrder
<1>4. CASE Lose
  <2>1. reply' = Quiet /\ UNCHANGED <<slowest, skew, stage, entered, ip, held, issued>>
    BY <1>4 DEF Lose
  <2> QED BY <2>1 DEF CookieInv, StagesInOrder, Genuine
<1>5. CASE Move
  <2>1. ip' \in Sources /\ UNCHANGED <<slowest, skew, stage, entered, held, issued, reply, sent>>
    BY <1>5 DEF Move
  <2> QED BY <2>1 DEF CookieInv, StagesInOrder, Genuine
<1>6. CASE Tick
  <2>1. /\ slowest < End /\ slowest' = slowest + 1
        /\ UNCHANGED <<skew, stage, entered, ip, held, issued, reply, sent>>
    BY <1>6 DEF Tick
  <2>2. /\ held = ClientOnly \/ Genuine(held, issued)'
        /\ reply # Quiet => reply.option = NoCookie \/ Genuine(reply.option, sent)'
    BY Zenon, <2>1, <1>6, GenuineStays DEF CookieInv, Genuine
  <2> QED BY <1>0, <2>1, <2>2 DEF CookieInv, StagesInOrder
<1>7. CASE UNCHANGED cookieVars
  BY Zenon, <1>7 DEF cookieVars, CookieInv, StagesInOrder, Genuine
<1> QED BY <1>1, <1>2, <1>3, <1>4, <1>5, <1>6, <1>7 DEF CookieNext

-----------------------------------------------------------------------------
(* Theorems.                                                               *)

(* CookieInv holds in every reachable state.                               *)
THEOREM CookieInvariant == CookieSpec => []CookieInv
BY CookieInitially, CookieStepKeeps, PTL DEF CookieSpec

(* The 32-bit arithmetic of inWindow is the window of RFC 9018, before and *)
(* after the timestamp wraps, for every width and every window that fits.  *)
THEOREM WindowAlwaysExact == CookieSpec => []WindowIsExact
<1>1. CookieInv => WindowIsExact
  <2> SUFFICES ASSUME CookieInv, NEW s \in Servers,
                      NEW d \in (maxAgeSeconds - Modulus + 1)..(Modulus - maxFutureSeconds - 1)
               PROVE  inWindow(clock(s), (clock(s) - d) % Modulus)
                         <=> d \in -maxFutureSeconds..maxAgeSeconds
    BY DEF WindowIsExact
  <2>1. clock(s) \in Int
    BY CookieAssumption DEF CookieInv, clock
  <2> QED BY <2>1, InWindowExact
<1> QED BY <1>1, CookieInvariant, PTL

(* A cookie within the window is validated by every server of the set, at  *)
(* every stage of a rollover done as the README says.                      *)
THEOREM AlwaysAcceptedEverywhere == CookieSpec => []AcceptedEverywhere
<1>1. CookieInv => AcceptedEverywhere
  <2> SUFFICES ASSUME CookieInv, NEW s \in Servers,
                      held.kind = "with_server", held.cookie.ip = ip, ip # NoAddress,
                      slowest - issued <= maxAgeSeconds - MaxSkew
               PROVE  validated(inspect(secrets(s), held, ip, clock(s)))
    BY DEF AcceptedEverywhere
  <2>1. Genuine(held, issued)
    BY DEF CookieInv, ClientOnly
  <2>2. PICK k \in Secrets, a \in Sources, x \in 0..MaxSkew :
           held = WithServer(serverCookie(k, a, issued + x))
    BY <2>1 DEF Genuine
  <2> DEFINE c == serverCookie(k, a, issued + x)
  <2>3. /\ held.cookie = c /\ c.len = 16 /\ c.version = 1 /\ c.secret = k /\ c.ip = ip
        /\ c.ts = (issued + x) % Modulus
    BY <2>2 DEF WithServer, serverCookie
  <2>4. inWindow(clock(s), c.ts)
    <3>1. /\ issued \in Start..slowest /\ slowest \in Int /\ issued \in Int
          /\ MaxSkew \in Nat /\ maxAgeSeconds \in Nat
      BY CookieAssumption DEF CookieInv
    <3> DEFINE d == clock(s) - (issued + x)
    <3>2. /\ d \in -maxFutureSeconds..(slowest - issued + MaxSkew)
          /\ inWindow(clock(s), (issued + x) % Modulus) <=> d <= maxAgeSeconds
      BY <3>1, GenuineAge
    <3>3. d <= maxAgeSeconds
      BY <3>1, <3>2, CookieAssumption
    <3> QED BY <2>3, <3>2, <3>3
  <2> HIDE DEF c
  <2>5. verify(k, c, ip, clock(s))
    BY <2>3, <2>4 DEF verify
  <2>6. k = secrets(s).generate \/ k \in secrets(s).verifyOnly
    <3>1. stage[s] \in 0..3
      BY DEF CookieInv
    <3>2. CASE k = "A"
      <4>1. stage[s] # 3
        <5> SUFFICES ASSUME stage[s] = 3 PROVE FALSE
          OBVIOUS
        <5>1. (\A r \in Servers : stage[r] >= 2) /\ slowest >= entered + Wait
          BY DEF CookieInv, StagesInOrder
        <5>2. issued <= entered
          BY <2>1, <2>3, <3>2, <5>1 DEF Genuine
        <5>3. /\ slowest \in Int /\ entered \in Int /\ issued \in Int /\ Wait \in Int
              /\ Wait > maxAgeSeconds - MaxSkew /\ maxAgeSeconds \in Int /\ MaxSkew \in Int
          BY CookieAssumption DEF CookieInv
        <5> QED BY <5>1, <5>2, <5>3
      <4> QED BY <3>1, <3>2, <4>1 DEF secrets
    <3>3. CASE k = "B"
      <4>1. stage[s] >= 1
        BY <2>1, <2>3, <3>3 DEF Genuine
      <4> QED BY <3>1, <3>3, <4>1 DEF secrets
    <3> QED BY <3>2, <3>3 DEF Secrets
  <2>7. inspect(secrets(s), held, ip, clock(s)) = check(secrets(s), c, ip, clock(s))
    BY <2>3 DEF inspect
  <2> QED BY <2>5, <2>6, <2>7 DEF check, validated
<1> QED BY <1>1, CookieInvariant, PTL

(* Only a cookie made with one of the set's secrets validates.             *)
LEMMA ValidatedIsVerified ==
    ASSUME CookieInv, NEW s \in Servers, NEW option, NEW t,
           validated(inspect(secrets(s), option, ip, t)),
           option.kind # "valid", option.kind # "valid_previous"
    PROVE  /\ option.kind = "with_server" /\ ip # NoAddress
           /\ \E k \in Secrets : verify(k, option.cookie, ip, t)
<1>1. stage[s] \in 0..3
  BY DEF CookieInv
<1>2. secrets(s).generate \in Secrets /\ secrets(s).verifyOnly \subseteq Secrets
  BY <1>1 DEF secrets, Secrets
<1>3. option.kind = "with_server" /\ ip # NoAddress
  BY DEF inspect, validated
<1>4. check(secrets(s), option.cookie, ip, t) \in {"valid", "valid_previous"}
  BY <1>3 DEF inspect, validated
<1>5. \/ verify(secrets(s).generate, option.cookie, ip, t)
      \/ \E k \in secrets(s).verifyOnly : verify(k, option.cookie, ip, t)
  BY <1>4 DEF check
<1> QED BY <1>2, <1>3, <1>5

(* enforce lets nothing through over UDP that the set did not make, for    *)
(* this address and within the window.                                     *)
THEOREM EnforcementHolds == CookieSpec => EnforcedOverUDP
<1> DEFINE Step ==
      \A s \in Servers, option \in Strays \cup {held} :
         /\ Answer(s, option, "udp")
         /\ option # NoCookie /\ reply'.rcode = "next" /\ Mode = "enforce"
         => /\ option = held
            /\ held.kind = "with_server" /\ held.cookie.ip = ip /\ ip # NoAddress
            /\ slowest - issued <= maxAgeSeconds + MaxSkew
<1>1. CookieInv => Step
  <2> SUFFICES ASSUME CookieInv, NEW s \in Servers, NEW option \in Strays \cup {held},
                      Answer(s, option, "udp"), option # NoCookie, reply'.rcode = "next",
                      Mode = "enforce"
               PROVE  /\ option = held
                      /\ held.kind = "with_server" /\ held.cookie.ip = ip /\ ip # NoAddress
                      /\ slowest - issued <= maxAgeSeconds + MaxSkew
    OBVIOUS
  <2> DEFINE status == inspect(secrets(s), option, ip, clock(s))
  <2>1. reply' = ServeDNS(secrets(s), option, ip, "udp", clock(s))
    BY DEF Answer
  <2>2. /\ option.kind \in {"malformed", "client_only", "with_server"}
        /\ option.kind = "with_server" /\ option # held => option.cookie.secret = "other"
    <3>1. CASE option = held
      <4>1. held = ClientOnly \/ \E c : held = WithServer(c)
        BY DEF CookieInv, Genuine
      <4> QED BY <3>1, <4>1 DEF ClientOnly, WithServer
    <3>2. CASE option \in Strays
      <4> DEFINE c == serverCookie("other", ip, slowest)
      <4>1. \/ option \in {Malformed, ClientOnly}
            \/ \E l \in {16, 20}, v \in {1, 2} :
                  option = WithServer([c EXCEPT !.len = l, !.version = v])
        BY <3>2 DEF Strays
      <4>2. \A l, v : [c EXCEPT !.len = l, !.version = v].secret = "other"
        BY DEF serverCookie
      <4> HIDE DEF c
      <4>3. ASSUME option \in {Malformed, ClientOnly} PROVE <2>2!:
        BY <4>3 DEF Malformed, ClientOnly
      <4>4. ASSUME NEW l, NEW v, option = WithServer([c EXCEPT !.len = l, !.version = v])
            PROVE  <2>2!:
        <5>1. option.kind = "with_server" /\ option.cookie = [c EXCEPT !.len = l, !.version = v]
          BY <4>4 DEF WithServer
        <5> QED BY <4>2, <5>1
      <4> QED BY Zenon, <4>1, <4>3, <4>4
    <3> QED BY <3>1, <3>2
  <2>3. status # "none"
    BY <2>2 DEF inspect, check
  <2>4. validated(status)
    BY <2>1, <2>3 DEF ServeDNS
  <2>5. PICK k \in Secrets : verify(k, option.cookie, ip, clock(s))
    BY <2>2, <2>4, ValidatedIsVerified
  <2>6. option.kind = "with_server" /\ ip # NoAddress
    BY <2>2, <2>4, ValidatedIsVerified
  <2>7. option = held /\ held.cookie.ip = ip
    <3>1. option.cookie.secret # "other" /\ option.cookie.ip = ip
      <4>1. k # "other"
        BY DEF Secrets
      <4> QED BY Zenon, <2>5, <4>1 DEF verify
    <3> QED BY Zenon, <2>2, <2>6, <3>1
  <2>8. Genuine(held, issued)
    BY <2>6, <2>7 DEF CookieInv, ClientOnly
  <2>9. PICK j \in Secrets, a \in Sources, x \in 0..MaxSkew :
           held = WithServer(serverCookie(j, a, issued + x))
    BY <2>8 DEF Genuine
  <2>10. inWindow(clock(s), (issued + x) % Modulus)
    BY <2>5, <2>7, <2>9 DEF verify, WithServer, serverCookie
  <2>11. slowest - issued <= maxAgeSeconds + MaxSkew
    <3>1. /\ issued \in Start..slowest /\ slowest \in Int /\ issued \in Int
          /\ MaxSkew \in Nat /\ maxAgeSeconds \in Nat /\ skew[s] \in 0..MaxSkew
      BY CookieAssumption DEF CookieInv
    <3>2. clock(s) - (issued + x) >= slowest - issued - MaxSkew
      BY <3>1, GenuineAge
    <3>3. clock(s) - (issued + x) <= maxAgeSeconds
      BY <2>10, <3>1, GenuineAge
    <3>4. clock(s) \in Int
      BY <3>1 DEF clock
    <3> QED BY <3>1, <3>2, <3>3, <3>4
  <2> QED BY <2>6, <2>7, <2>11
<1>2. CookieInv => [Step]_cookieVars
  BY <1>1
<1> QED BY <1>2, CookieInvariant, PTL DEF CookieSpec, EnforcedOverUDP

-----------------------------------------------------------------------------
(***************************************************************************)
(* ProbeValkey, for every number of handlers and every limit.              *)
(***************************************************************************)

(* Two sequences with the same elements in the same places are equal.      *)
LEMMA SameSequence ==
    ASSUME NEW S, NEW p \in Seq(S), NEW q \in Seq(S),
           Len(p) = Len(q), \A k \in 1..Len(p) : p[k] = q[k]
    PROVE  p = q
OBVIOUS

(* The elements of a part of a sequence.                                   *)
LEMMA SubSeqElements ==
    ASSUME NEW S, NEW p, NEW a \in Int, NEW b \in Int, \A k \in a..b : p[k] \in S
    PROVE  /\ SubSeq(p, a, b) \in Seq(S)
           /\ Len(SubSeq(p, a, b)) = (IF a <= b THEN b - a + 1 ELSE 0)
           /\ \A k \in 1..(b - a + 1) : SubSeq(p, a, b)[k] = p[a + k - 1]
OBVIOUS

(* The elements of a list one was appended to.                             *)
LEMMA AppendElements ==
    ASSUME NEW S, NEW p \in Seq(S), NEW e \in S
    PROVE  /\ Append(p, e) \in Seq(S) /\ Len(Append(p, e)) = Len(p) + 1
           /\ \A k \in 1..Len(p) : Append(p, e)[k] = p[k]
           /\ Append(p, e)[Len(p) + 1] = e
OBVIOUS

Everyone == Handlers \cup Reporters
Labels == {"incr", "answered", "expireSeen", "rpushObs", "expireObs", "rpush", "ltrim",
           "expireReports", "done", "cut"}

(* The queries that the l-th life of the counter counted.                  *)
countedBy(A, in, l) == {h \in Handlers : A[h] # 0 /\ in[h] = l}
counted(l) == countedBy(answer, countedIn, l)

(* In one life of the counter, INCR answers 1 to n, each number once.      *)
Numbered(A, S) ==
    /\ IsFiniteSet(S)
    /\ {A[h] : h \in S} = 1..Cardinality(S)
    /\ \A g, h \in S : A[g] = A[h] => g = h

(* The count: what each handler knows of the answer to its INCR.           *)
CountInv ==
    /\ counter \in Nat /\ life \in Nat
    /\ answer \in [Handlers -> Nat] /\ countedIn \in [Handlers -> Nat]
    /\ \A h \in Handlers : countedIn[h] <= life
    /\ \A l \in 0..life : Numbered(answer, counted(l))
    /\ counter = Cardinality(counted(life))

ToldInv ==
    /\ Seen \in [Handlers -> Nat]
    /\ \A h \in Handlers :
          /\ pc[h] = "incr" => answer[h] = 0
          /\ Seen[h] \in {0, answer[h]}
          /\ answer[h] # 0 /\ Seen[h] = 0 => h \in erred \/ pc[h] = "answered"

(* s is what remains of p when older elements are dropped.                 *)
EndOf(s, p) ==
    /\ Len(s) <= Len(p)
    /\ \A i \in 1..Len(s) : s[i] = p[Len(p) - Len(s) + i]

(* The reports: over the cap only while someone has yet to trim, or failed *)
(* to; under it only when nothing was dropped.                             *)
ReportsInv ==
    /\ reports \in Seq(Nat) /\ pushed \in Seq(Nat)
    /\ EndOf(reports, pushed)
    /\ Len(reports) < limit => Len(reports) = Len(pushed)
    /\ Len(reports) > limit
        => \E h \in Reporters : h \in erred \/ pc[h] = "ltrim"

(* A key without an expiry has a writer that will set it, or failed.       *)
ExpiryInv ==
    /\ now \in 0..MaxTime
    /\ counter # Absent /\ counterTill = NoExpiry
        => \E h \in Handlers : h \in erred \/ pc[h] \in {"answered", "expireSeen"}
    /\ obs # <<>> /\ obsTill = NoExpiry
        => \E h \in Handlers : h \in erred \/ pc[h] = "expireObs"
    /\ reports # <<>> /\ reportsTill = NoExpiry
        => \E h \in Reporters : h \in erred \/ pc[h] \in {"ltrim", "expireReports"}

(* The inductive invariant.                                                *)
ValkeyInv ==
    /\ pc \in [Everyone -> Labels]
    /\ CountInv /\ ToldInv /\ ReportsInv /\ ExpiryInv

-----------------------------------------------------------------------------
(* The limits are positive, and EXPIRE never sets the mark of no expiry.   *)
LEMMA Limits ==
    /\ limit \in Nat \ {0} /\ lifetime \in Nat /\ maxPerToken \in Nat
    /\ \A t \in 0..MaxTime : t + lifetime # NoExpiry
<1>1. ttl \div Second \in Nat /\ Second \in Nat
  BY ValkeyAssumption
<1>2. lifetime \in Nat
  BY <1>1 DEF lifetime
<1>3. \A t \in 0..MaxTime : t + lifetime # NoExpiry
  BY <1>2, ValkeyAssumption DEF NoExpiry
<1> QED BY <1>2, <1>3, ValkeyAssumption DEF limit

(* INCR by a handler that was not counted yet answers the next number.     *)
LEMMA IncrCounts ==
    ASSUME ValkeyInv, NEW h \in Handlers, Incr(h)
    PROVE  CountInv'
<1> DEFINE after(l) == countedBy(answer', countedIn', l)
<1>1. /\ pc[h] = "incr" /\ counter' = counter + 1
      /\ countedIn' = [countedIn EXCEPT ![h] = life]
      /\ answer' = [answer EXCEPT ![h] = counter + 1] /\ life' = life
  BY DEF Incr
<1>2. /\ counter \in Nat /\ life \in Nat
      /\ answer \in [Handlers -> Nat] /\ countedIn \in [Handlers -> Nat]
      /\ answer[h] = 0
  BY <1>1 DEF ValkeyInv, CountInv, ToldInv
<1>3. answer'[h] = counter + 1 /\ countedIn'[h] = life
      /\ \A g \in Handlers : g # h => answer'[g] = answer[g] /\ countedIn'[g] = countedIn[g]
  BY <1>1, <1>2
<1>4. answer' \in [Handlers -> Nat] /\ countedIn' \in [Handlers -> Nat]
  BY <1>1, <1>2
<1>5. \A g \in Handlers : countedIn'[g] <= life
  <2>1. life <= life
    BY <1>2
  <2>2. \A g \in Handlers : countedIn[g] <= life
    BY Zenon DEF ValkeyInv, CountInv
  <2> QED BY Zenon, <1>3, <2>1, <2>2
<1>6. ASSUME NEW l \in 0..life, l # life
      PROVE  Numbered(answer', after(l))
  <2>1. h \notin counted(l)
    BY <1>2 DEF counted, countedBy
  <2>2. after(l) = counted(l)
    BY <1>2, <1>3, <1>6 DEF counted, countedBy
  <2>3. \A g \in counted(l) : answer'[g] = answer[g]
    BY <1>3, <2>1 DEF counted, countedBy
  <2>4. {answer'[g] : g \in counted(l)} = {answer[g] : g \in counted(l)}
    BY <2>3
  <2>5. Numbered(answer, counted(l))
    BY Zenon DEF ValkeyInv, CountInv
  <2> HIDE DEF after
  <2> QED BY Zenon, <2>2, <2>3, <2>4, <2>5 DEF Numbered
<1>7. after(life) = counted(life) \cup {h} /\ h \notin counted(life)
  BY <1>1, <1>2, <1>3 DEF counted, countedBy
<1>8. /\ IsFiniteSet(counted(life)) /\ counter = Cardinality(counted(life))
      /\ {answer[g] : g \in counted(life)} = 1..counter
      /\ \A f, g \in counted(life) : answer[f] = answer[g] => f = g
  <2>1. life \in 0..life
    BY <1>2
  <2> QED BY <2>1 DEF ValkeyInv, CountInv, Numbered
<1>9. IsFiniteSet(after(life)) /\ Cardinality(after(life)) = counter + 1
  BY <1>7, <1>8, FS_AddElement
<1>10. Numbered(answer', after(life))
  <2>1. \A g \in counted(life) : g # h /\ g \in Handlers /\ answer'[g] = answer[g]
    BY <1>3, <1>7 DEF counted, countedBy
  <2> HIDE DEF after
  <2>2. {answer'[g] : g \in after(life)} = {answer[g] : g \in counted(life)} \cup {counter + 1}
    BY <1>3, <1>7, <2>1
  <2>3. (1..counter) \cup {counter + 1} = 1..(counter + 1) /\ counter + 1 \notin 1..counter
    BY <1>2
  <2>4. {answer'[g] : g \in after(life)} = 1..(counter + 1)
    BY <1>8, <2>2, <2>3
  <2>5. \A g \in counted(life) : answer'[g] # counter + 1
    BY <1>8, <2>1, <2>3
  <2>6. ASSUME NEW f \in after(life), NEW g \in after(life), answer'[f] = answer'[g]
        PROVE  f = g
    <3>1. (f = h \/ f \in counted(life)) /\ (g = h \/ g \in counted(life))
      BY <1>7
    <3> QED BY Zenon, <1>3, <1>8, <2>1, <2>5, <2>6, <3>1
  <2> QED BY <1>9, <2>4, <2>6 DEF Numbered
<1>11. \A l \in 0..life : Numbered(answer', after(l))
  BY Zenon, <1>6, <1>10
<1> QED BY Zenon, <1>1, <1>2, <1>4, <1>5, <1>9, <1>11 DEF CountInv, counted

(* No other command counts.                                                *)
LEMMA CountFrame ==
    ASSUME CountInv, UNCHANGED <<counter, life, answer, countedIn>>
    PROVE  CountInv'
<1>1. counter' = counter /\ life' = life /\ answer' = answer /\ countedIn' = countedIn
  OBVIOUS
<1>2. \A l : countedBy(answer', countedIn', l) = countedBy(answer, countedIn, l)
  BY <1>1
<1>3. \A l : Numbered(answer', countedBy(answer', countedIn', l))
             = Numbered(answer, countedBy(answer, countedIn, l))
  BY Zenon, <1>1
<1> QED BY <1>1, <1>2, <1>3 DEF CountInv, counted

(* What handlers know of their answer outlives every step that leaves the  *)
(* answers, sends nobody back to its INCR and forgets no failure.          *)
LEMMA ToldFrame ==
    ASSUME ToldInv, UNCHANGED <<answer, Seen>>, erred \subseteq erred',
           \A h \in Handlers :
              /\ pc'[h] = "incr" => pc[h] = "incr"
              /\ pc[h] = "answered" => pc'[h] = "answered" \/ h \in erred'
    PROVE  ToldInv'
BY DEF ToldInv

(* When the counter ends the next life has counted nobody.                 *)
LEMMA CountEnds ==
    ASSUME CountInv, counterEnds, UNCHANGED <<answer, countedIn>>
    PROVE  CountInv'
<1>1. /\ counter' = 0 /\ life' = life + 1 /\ life \in Nat /\ counter' \in Nat
      /\ life' \in Nat /\ answer' = answer /\ countedIn' = countedIn
  BY DEF counterEnds, Absent, CountInv
<1>2. /\ answer \in [Handlers -> Nat] /\ countedIn \in [Handlers -> Nat]
      /\ \A h \in Handlers : countedIn[h] <= life
  BY DEF CountInv
<1>3. countedBy(answer, countedIn, life + 1) = {}
  BY <1>1, <1>2 DEF countedBy
<1>4. IsFiniteSet({}) /\ Cardinality({}) = 0
  BY FS_EmptySet
<1>5. Numbered(answer, {})
  <2>1. {answer[h] : h \in {}} = 1..0
    OBVIOUS
  <2> QED BY <1>4, <2>1 DEF Numbered
<1>6. ASSUME NEW l \in 0..(life + 1)
      PROVE  Numbered(answer, countedBy(answer, countedIn, l))
  <2>1. CASE l = life + 1
    BY Zenon, <1>3, <1>5, <2>1
  <2>2. CASE l # life + 1
    <3>1. l \in 0..life
      BY <1>1, <2>2
    <3> QED BY Zenon, <3>1 DEF CountInv, counted
  <2> QED BY <2>1, <2>2
<1>7. \A h \in Handlers : countedIn[h] <= life + 1
  BY <1>1, <1>2
<1> QED BY Zenon, <1>1, <1>2, <1>3, <1>4, <1>6, <1>7 DEF CountInv, counted

-----------------------------------------------------------------------------
(* What lastN keeps of a sequence.                                         *)
LEMMA LastN ==
    ASSUME NEW s \in Seq(Nat), NEW n \in Nat
    PROVE  /\ lastN(s, n) \in Seq(Nat)
           /\ Len(lastN(s, n)) = (IF Len(s) <= n THEN Len(s) ELSE n)
           /\ EndOf(lastN(s, n), s)
<1> DEFINE r == lastN(s, n)
<1>0. Len(s) \in Nat /\ \A i \in 1..Len(s) : s[i] \in Nat
  OBVIOUS
<1>1. CASE Len(s) <= n
  <2>1. r = s
    BY <1>1 DEF lastN
  <2>2. \A i \in 1..Len(s) : Len(s) - Len(s) + i = i
    BY <1>0
  <2> QED BY <1>0, <1>1, <2>1, <2>2 DEF EndOf
<1>2. CASE ~(Len(s) <= n)
  <2> DEFINE a == Len(s) - n + 1
  <2>1. r = SubSeq(s, a, Len(s))
    BY <1>2 DEF lastN
  <2>2. a \in Int /\ Len(s) \in Int /\ a <= Len(s) + 1 /\ a >= 1
        /\ Len(s) - a + 1 = n /\ \A i \in 1..n : a + i - 1 = Len(s) - n + i
    BY <1>0, <1>2
  <2>3. \A i \in a..Len(s) : s[i] \in Nat
    BY <1>0, <2>2
  <2> HIDE DEF a, r
  <2>4. /\ r \in Seq(Nat) /\ Len(r) = (IF a <= Len(s) THEN Len(s) - a + 1 ELSE 0)
        /\ \A i \in 1..(Len(s) - a + 1) : r[i] = s[a + i - 1]
    BY <2>1, <2>2, <2>3, SubSeqElements
  <2>5. Len(r) = n /\ n <= Len(s)
    BY <1>0, <1>2, <2>2, <2>4
  <2>6. \A i \in 1..n : r[i] = s[Len(s) - n + i]
    BY Zenon, <2>2, <2>4
  <2>7. EndOf(r, s)
    BY <2>5, <2>6 DEF EndOf
  <2> QED BY <1>2, <2>4, <2>5, <2>7 DEF r
<1> QED BY <1>1, <1>2

(* Two ends of a sequence that are as long are equal.                      *)
LEMMA EndUnique ==
    ASSUME NEW p \in Seq(Nat), NEW s \in Seq(Nat), NEW r \in Seq(Nat),
           EndOf(s, p), EndOf(r, p), Len(s) = Len(r)
    PROVE  s = r
<1>1. \A i \in 1..Len(s) : s[i] = r[i]
  BY DEF EndOf
<1> QED BY <1>1, SameSequence

(* Dropping twice is dropping; pushing to both keeps the one an end of the *)
(* other.                                                                  *)
LEMMA EndSteps ==
    ASSUME NEW p \in Seq(Nat), NEW s \in Seq(Nat), EndOf(s, p)
    PROVE  /\ \A r \in Seq(Nat) : EndOf(r, s) => EndOf(r, p)
           /\ \A x \in Nat : EndOf(Append(s, x), Append(p, x))
<1>0. Len(s) \in Nat /\ Len(p) \in Nat /\ Len(s) <= Len(p)
      /\ \A i \in 1..Len(s) : s[i] = p[Len(p) - Len(s) + i]
  BY DEF EndOf
<1>1. ASSUME NEW r \in Seq(Nat), EndOf(r, s) PROVE EndOf(r, p)
  <2>1. Len(r) \in Nat /\ Len(r) <= Len(s) /\ \A i \in 1..Len(r) : r[i] = s[Len(s) - Len(r) + i]
    BY <1>1 DEF EndOf
  <2>2. ASSUME NEW i \in 1..Len(r) PROVE r[i] = p[Len(p) - Len(r) + i]
    <3> DEFINE j == Len(s) - Len(r) + i
    <3>1. j \in 1..Len(s) /\ Len(p) - Len(s) + j = Len(p) - Len(r) + i
      BY <1>0, <2>1
    <3>2. r[i] = s[j]
      BY Zenon, <2>1
    <3> HIDE DEF j
    <3>3. s[j] = p[Len(p) - Len(s) + j]
      BY <1>0, <3>1
    <3> QED BY Zenon, <3>1, <3>2, <3>3
  <2>3. Len(r) <= Len(p)
    BY <1>0, <2>1
  <2> QED BY <2>2, <2>3 DEF EndOf
<1>2. ASSUME NEW x \in Nat PROVE EndOf(Append(s, x), Append(p, x))
  <2> DEFINE a == Append(s, x)
             b == Append(p, x)
  <2>1. /\ Len(a) = Len(s) + 1 /\ Len(b) = Len(p) + 1
        /\ \A i \in 1..Len(s) : a[i] = s[i]
        /\ \A i \in 1..Len(p) : b[i] = p[i]
        /\ a[Len(s) + 1] = x /\ b[Len(p) + 1] = x
    BY AppendElements
  <2> HIDE DEF a, b
  <2>2. ASSUME NEW i \in 1..(Len(s) + 1) PROVE a[i] = b[Len(b) - Len(a) + i]
    <3>1. Len(b) - Len(a) + i = Len(p) - Len(s) + i
      BY <1>0, <2>1
    <3>2. CASE i \in 1..Len(s)
      <4>1. Len(p) - Len(s) + i \in 1..Len(p)
        BY <1>0, <3>2
      <4> QED BY Zenon, <1>0, <2>1, <3>1, <3>2, <4>1
    <3>3. CASE i = Len(s) + 1
      <4>1. Len(p) - Len(s) + i = Len(p) + 1
        BY <1>0, <3>3
      <4> QED BY <2>1, <3>1, <3>3, <4>1
    <3>4. i \in 1..Len(s) \/ i = Len(s) + 1
      BY <1>0
    <3> QED BY <3>2, <3>3, <3>4
  <2>3. Len(a) <= Len(b)
    BY <1>0, <2>1
  <2>4. EndOf(a, b)
    BY <2>1, <2>2, <2>3 DEF EndOf
  <2> QED BY <2>4 DEF a, b
<1> QED BY <1>1, <1>2

-----------------------------------------------------------------------------
(* RPUSH: the pusher has yet to trim.                                      *)
LEMMA RpushKeeps ==
    ASSUME ValkeyInv, NEW h \in Reporters, Rpush(h)
    PROVE  ReportsInv'
<1> DEFINE x == Len(pushed) + 1
<1>1. /\ reports' = Append(reports, x) /\ pushed' = Append(pushed, x)
      /\ pc' = [pc EXCEPT ![h] = "ltrim"]
  BY DEF Rpush, goto, following
<1>2. /\ reports \in Seq(Nat) /\ pushed \in Seq(Nat) /\ EndOf(reports, pushed)
      /\ Len(reports) < limit => Len(reports) = Len(pushed)
  BY DEF ValkeyInv, ReportsInv
<1>3. x \in Nat /\ Len(reports) \in Nat /\ Len(pushed) \in Nat
  BY <1>2
<1> HIDE DEF x
<1>4. /\ reports' \in Seq(Nat) /\ pushed' \in Seq(Nat)
      /\ Len(reports') = Len(reports) + 1 /\ Len(pushed') = Len(pushed) + 1
  BY <1>1, <1>2, <1>3
<1>5. EndOf(reports', pushed')
  BY <1>1, <1>2, <1>3, EndSteps
<1>6. Len(reports') < limit => Len(reports') = Len(pushed')
  BY <1>2, <1>3, <1>4, Limits
<1>7. pc'[h] = "ltrim"
  BY <1>1 DEF ValkeyInv, Everyone
<1> QED BY Zenon, <1>4, <1>5, <1>6, <1>7 DEF ReportsInv, EndOf

(* LTRIM: down to the cap, whoever pushed what is dropped.                 *)
LEMMA LtrimKeeps ==
    ASSUME ValkeyInv, NEW h \in Reporters, Ltrim(h)
    PROVE  ReportsInv'
<1>1. reports' = lastN(reports, limit) /\ pushed' = pushed
  BY DEF Ltrim, history
<1>2. /\ reports \in Seq(Nat) /\ pushed \in Seq(Nat) /\ EndOf(reports, pushed)
      /\ Len(reports) < limit => Len(reports) = Len(pushed)
  BY DEF ValkeyInv, ReportsInv
<1>3. limit \in Nat /\ Len(reports) \in Nat
  BY <1>2, Limits
<1>4. /\ reports' \in Seq(Nat) /\ EndOf(reports', reports)
      /\ Len(reports') = IF Len(reports) <= limit THEN Len(reports) ELSE limit
  BY <1>1, <1>2, <1>3, LastN
<1>5. EndOf(reports', pushed)
  BY <1>2, <1>4, EndSteps
<1>6. ~(Len(reports') > limit)
      /\ (Len(reports') < limit => Len(reports') = Len(pushed))
  BY <1>2, <1>3, <1>4
<1> QED BY <1>1, <1>2, <1>4, <1>5, <1>6 DEF ReportsInv, EndOf

(* Every other command leaves the reports alone, and takes no reporter past*)
(* its trim.                                                               *)
LEMMA ReportsFrame ==
    ASSUME ReportsInv, UNCHANGED <<reports, pushed>>, erred \subseteq erred',
           \A h \in Reporters : pc[h] = "ltrim" => pc'[h] = "ltrim" \/ h \in erred'
    PROVE  ReportsInv'
<1>1. reports' = reports /\ pushed' = pushed
  OBVIOUS
<1> QED BY <1>1 DEF ReportsInv, EndOf

(* The list and the history of it end together.                            *)
LEMMA ReportsEnd ==
    ASSUME reportsEnd
    PROVE  ReportsInv'
<1>1. reports' = <<>> /\ pushed' = <<>>
  BY DEF reportsEnd
<1>2. <<>> \in Seq(Nat) /\ Len(<<>>) = 0
  OBVIOUS
<1>3. EndOf(<<>>, <<>>)
  BY <1>2 DEF EndOf
<1>4. ~(0 > limit)
  BY Limits
<1> QED BY <1>1, <1>2, <1>3, <1>4 DEF ReportsInv, EndOf

-----------------------------------------------------------------------------
(* A call's next label, and every other call's.                            *)
LEMMA Goto ==
    ASSUME pc \in [Everyone -> Labels], NEW h \in Everyone, NEW l \in Labels, goto(h, l)
    PROVE  /\ pc' \in [Everyone -> Labels] /\ pc'[h] = l
           /\ \A g \in Everyone : g # h => pc'[g] = pc[g]
BY DEF goto

(* The command after the next one.                                         *)
LEMMA Following ==
    ASSUME NEW h
    PROVE  /\ following(h) \in Labels \ {"incr", "answered"}
           /\ pc[h] = "rpushObs" => following(h) = "expireObs"
           /\ pc[h] = "rpush" => following(h) = "ltrim"
           /\ pc[h] = "ltrim" => following(h) = "expireReports"
BY DEF following, Labels

(* The calls and the cast, as every step's proof needs them.               *)
LEMMA Cast ==
    ASSUME ValkeyInv
    PROVE  /\ pc \in [Everyone -> Labels]
           /\ Handlers \subseteq Everyone /\ Reporters \subseteq Everyone
           /\ \A h \in Handlers : h \notin Reporters
           /\ CountInv /\ ToldInv /\ ReportsInv /\ ExpiryInv
BY ValkeyAssumption DEF ValkeyInv, Everyone

(* INCR: the counter has a call that will set its expiry, or failed.       *)
LEMMA IncrKeeps ==
    ASSUME ValkeyInv, NEW h \in Handlers, Incr(h)
    PROVE  ValkeyInv'
<1> DEFINE l == IF h \in erred THEN "cut" ELSE "answered"
<1>1. /\ goto(h, l) /\ now' = now /\ counterTill' = counterTill
      /\ obs' = obs /\ obsTill' = obsTill /\ reports' = reports /\ Seen' = Seen
      /\ reportsTill' = reportsTill /\ pushed' = pushed /\ pc[h] = "incr"
      /\ erred' = erred /\ answer' = [answer EXCEPT ![h] = counter + 1]
  BY DEF Incr
<1>2. l \in Labels /\ l # "incr" /\ (l = "answered" \/ h \in erred)
  BY DEF Labels
<1> HIDE DEF l
<1>3. /\ pc' \in [Everyone -> Labels] /\ pc'[h] = l
      /\ \A g \in Everyone : g # h => pc'[g] = pc[g]
  BY Cast, <1>1, <1>2, Goto
<1>4. CountInv'
  BY IncrCounts
<1>5. ToldInv'
  <2>1. Seen \in [Handlers -> Nat] /\ answer \in [Handlers -> Nat] /\ counter \in Nat
    BY Cast DEF CountInv, ToldInv
  <2>2. answer[h] = 0 /\ Seen[h] = 0
    BY Cast, <1>1 DEF ToldInv
  <2>3. /\ answer'[h] = counter + 1
        /\ \A g \in Handlers : g # h => answer'[g] = answer[g] /\ pc'[g] = pc[g]
    BY Cast, <1>1, <1>3, <2>1
  <2>4. \A g \in Handlers :
           /\ pc[g] = "incr" => answer[g] = 0
           /\ Seen[g] \in {0, answer[g]}
           /\ answer[g] # 0 /\ Seen[g] = 0 => g \in erred \/ pc[g] = "answered"
    BY Cast DEF ToldInv
  <2> QED BY Zenon, <1>1, <1>2, <1>3, <2>1, <2>2, <2>3, <2>4 DEF ToldInv
<1>6. ReportsInv'
  BY Cast, <1>1, <1>3, ReportsFrame
<1>7. ExpiryInv'
  BY Cast, <1>1, <1>2, <1>3 DEF ExpiryInv, NoExpiry
<1> QED BY <1>3, <1>4, <1>5, <1>6, <1>7 DEF ValkeyInv

(* The reply to INCR: Seen is the number that is the handler's own.        *)
LEMMA ReplyKeeps ==
    ASSUME ValkeyInv, NEW h \in Handlers, Reply(h)
    PROVE  ValkeyInv'
<1>1. /\ goto(h, "expireSeen") /\ now' = now /\ counter' = counter
      /\ counterTill' = counterTill /\ obs' = obs /\ obsTill' = obsTill
      /\ reports' = reports /\ reportsTill' = reportsTill /\ pushed' = pushed
      /\ pc[h] = "answered" /\ answer' = answer /\ erred' = erred /\ life' = life
      /\ countedIn' = countedIn /\ Seen' = [Seen EXCEPT ![h] = answer[h]]
  BY DEF Reply, keys, history
<1>2. /\ pc' \in [Everyone -> Labels] /\ pc'[h] = "expireSeen"
      /\ \A g \in Everyone : g # h => pc'[g] = pc[g]
  BY Cast, <1>1, Goto DEF Labels
<1>3. CountInv'
  BY Cast, <1>1, CountFrame
<1>4. ToldInv'
  BY Cast, <1>1, <1>2 DEF CountInv, ToldInv
<1>5. ReportsInv'
  BY Cast, <1>1, <1>2, ReportsFrame
<1>6. ExpiryInv'
  BY Cast, <1>1, <1>2 DEF ExpiryInv, NoExpiry, Absent
<1> QED BY <1>2, <1>3, <1>4, <1>5, <1>6 DEF ValkeyInv

(* A handler's pipeline: EXPIRE settles what its own writes left owing.    *)
LEMMA PipelineKeeps ==
    ASSUME ValkeyInv, NEW h \in Handlers, ExpireSeen(h) \/ RpushObs(h) \/ ExpireObs(h)
    PROVE  ValkeyInv'
<1>1. /\ goto(h, following(h)) /\ now' = now /\ reports' = reports
      /\ reportsTill' = reportsTill /\ pushed' = pushed /\ answer' = answer
      /\ Seen' = Seen /\ erred' = erred /\ countedIn' = countedIn
      /\ pc[h] \in {"expireSeen", "rpushObs", "expireObs"}
  BY DEF ExpireSeen, RpushObs, ExpireObs, calls, history
<1>2. /\ pc' \in [Everyone -> Labels] /\ pc'[h] = following(h)
      /\ \A g \in Everyone : g # h => pc'[g] = pc[g]
  BY Cast, <1>1, Goto, Following
<1>3. \A g \in Handlers : /\ pc'[g] = "incr" => pc[g] = "incr"
                          /\ pc[g] = "answered" => pc'[g] = "answered"
  BY Cast, <1>1, <1>2, Following
<1>4. ToldInv'
  BY Cast, <1>1, <1>3, ToldFrame
<1>5. ReportsInv'
  BY Cast, <1>1, <1>2, ReportsFrame
<1>6. CASE ExpireSeen(h)
  <2>1. obs' = obs /\ obsTill' = obsTill /\ pc[h] = "expireSeen"
    BY <1>6 DEF ExpireSeen
  <2>2. \/ counterEnds
        \/ /\ counterTill' = (IF counter # Absent THEN now + lifetime ELSE counterTill)
           /\ counter' = counter /\ life' = life
    BY <1>6 DEF ExpireSeen, expiry
  <2>3. CountInv'
    BY Cast, <1>1, <2>2, CountFrame, CountEnds
  <2>4. now + lifetime # NoExpiry
    BY Cast, Limits DEF ExpiryInv
  <2>5. counter' # Absent => counterTill' # NoExpiry'
    BY <2>2, <2>4 DEF counterEnds, NoExpiry
  <2>6. ExpiryInv'
    BY Cast, <1>1, <1>2, <2>1, <2>5 DEF ExpiryInv, NoExpiry, Absent
  <2> QED BY <1>2, <1>4, <1>5, <2>3, <2>6 DEF ValkeyInv
<1>7. CASE RpushObs(h)
  <2>1. /\ counter' = counter /\ counterTill' = counterTill /\ life' = life
        /\ obsTill' = obsTill /\ pc'[h] = "expireObs" /\ pc[h] = "rpushObs"
    BY <1>2, <1>7, Following DEF RpushObs, history
  <2>2. CountInv'
    BY Cast, <1>1, <2>1, CountFrame
  <2>3. ExpiryInv'
    BY Cast, <1>1, <1>2, <2>1 DEF ExpiryInv, NoExpiry, Absent
  <2> QED BY <1>2, <1>4, <1>5, <2>2, <2>3 DEF ValkeyInv
<1>8. CASE ExpireObs(h)
  <2>1. /\ counter' = counter /\ counterTill' = counterTill /\ life' = life
        /\ pc[h] = "expireObs"
    BY <1>8 DEF ExpireObs, history
  <2>2. \/ obsEnds
        \/ obsTill' = (IF obs # <<>> THEN now + lifetime ELSE obsTill) /\ obs' = obs
    BY <1>8 DEF ExpireObs, expiry
  <2>3. CountInv'
    BY Cast, <1>1, <2>1, CountFrame
  <2>4. now + lifetime # NoExpiry
    BY Cast, Limits DEF ExpiryInv
  <2>5. obs' # <<>> => obsTill' # NoExpiry'
    BY <2>2, <2>4 DEF obsEnds, NoExpiry
  <2>6. ExpiryInv'
    BY Cast, <1>1, <1>2, <2>1, <2>5 DEF ExpiryInv, NoExpiry, Absent
  <2> QED BY <1>2, <1>4, <1>5, <2>3, <2>6 DEF ValkeyInv
<1> QED BY <1>6, <1>7, <1>8

(* A reporter's commands keep the invariant. *)
LEMMA RecordReportKeeps ==
    ASSUME ValkeyInv, NEW h \in Reporters, RecordReport(h)
    PROVE  ValkeyInv'
<1>1. /\ goto(h, following(h)) /\ now' = now /\ counter' = counter
      /\ counterTill' = counterTill /\ obs' = obs /\ obsTill' = obsTill
      /\ answer' = answer /\ Seen' = Seen /\ erred' = erred
      /\ life' = life /\ countedIn' = countedIn
  BY DEF RecordReport, Rpush, Ltrim, ExpireReports, calls, history
<1>2. /\ pc' \in [Everyone -> Labels] /\ pc'[h] = following(h)
      /\ \A g \in Everyone : g # h => pc'[g] = pc[g]
  BY Cast, <1>1, Goto, Following
<1>3. \A g \in Handlers : pc'[g] = pc[g]
  BY Cast, <1>2
<1>4. CountInv' /\ ToldInv'
  BY Cast, <1>1, <1>3, CountFrame, ToldFrame
<1>5. CASE Rpush(h)
  <2>1. reportsTill' = reportsTill /\ pc'[h] = "ltrim"
    BY <1>2, <1>5, Following DEF Rpush
  <2>2. ReportsInv'
    BY <1>5, RpushKeeps
  <2>3. ExpiryInv'
    BY Cast, <1>1, <1>2, <2>1 DEF ExpiryInv, NoExpiry, Absent
  <2> QED BY <1>2, <1>4, <2>2, <2>3 DEF ValkeyInv
<1>6. CASE Ltrim(h)
  <2>1. reportsTill' = reportsTill /\ pc'[h] = "expireReports"
    BY <1>2, <1>6, Following DEF Ltrim
  <2>2. ReportsInv'
    BY <1>6, LtrimKeeps
  <2>3. ExpiryInv'
    BY Cast, <1>1, <1>2, <2>1 DEF ExpiryInv, NoExpiry, Absent
  <2> QED BY <1>2, <1>4, <2>2, <2>3 DEF ValkeyInv
<1>7. CASE ExpireReports(h)
  <2>1. /\ pc[h] = "expireReports"
        /\ \/ reportsEnd
           \/ /\ reportsTill' = (IF reports # <<>> THEN now + lifetime ELSE reportsTill)
              /\ reports' = reports /\ pushed' = pushed
    BY <1>7 DEF ExpireReports, expiry
  <2>2. \A g \in Reporters : pc[g] = "ltrim" => pc'[g] = "ltrim"
    BY Cast, <1>2, <2>1
  <2>3. ReportsInv'
    BY Cast, <1>1, <2>1, <2>2, ReportsFrame, ReportsEnd
  <2>4. now + lifetime # NoExpiry
    BY Cast, Limits DEF ExpiryInv
  <2>5. reports' # <<>> => reportsTill' # NoExpiry'
    BY <2>1, <2>4 DEF reportsEnd, NoExpiry
  <2>6. ExpiryInv'
    BY Cast, <1>1, <1>2, <2>1, <2>5 DEF ExpiryInv, NoExpiry, Absent
  <2> QED BY <1>2, <1>4, <2>3, <2>6 DEF ValkeyInv
<1> QED BY <1>5, <1>6, <1>7 DEF RecordReport

(* A call that fails leaves the keys, and itself as the reason why one of  *)
(* them may lack an expiry or hold too much, whatever is still executed.   *)
LEMMA FailKeeps ==
    ASSUME ValkeyInv, NEW h \in Everyone, Fail(h) \/ Refuse(h)
    PROVE  ValkeyInv'
<1>1. /\ now' = now /\ counter' = counter /\ counterTill' = counterTill
      /\ obs' = obs /\ obsTill' = obsTill /\ reports' = reports /\ reportsTill' = reportsTill
      /\ answer' = answer /\ Seen' = Seen /\ erred' = erred \cup {h}
      /\ life' = life /\ countedIn' = countedIn /\ pushed' = pushed
  BY DEF Fail, Refuse, keys, history
<1>2. \/ pc' = pc
      \/ goto(h, "cut")
      \/ goto(h, following(h))
  BY DEF Fail, Refuse
<1>3. /\ pc' \in [Everyone -> Labels]
      /\ pc'[h] \in {pc[h]} \cup (Labels \ {"incr", "answered"})
      /\ \A g \in Everyone : g # h => pc'[g] = pc[g]
  <2>1. "cut" \in Labels \ {"incr", "answered"} /\ following(h) \in Labels \ {"incr", "answered"}
    BY Following DEF Labels
  <2>2. CASE pc' = pc
    BY Cast, <2>2
  <2>3. CASE goto(h, "cut")
    BY Cast, <2>1, <2>3, Goto
  <2>4. CASE goto(h, following(h))
    BY Cast, <2>1, <2>4, Goto
  <2> QED BY <1>2, <2>2, <2>3, <2>4
<1>4. \A g \in Everyone : /\ g # h => pc'[g] = pc[g]
                          /\ pc'[g] = "incr" => pc[g] = "incr"
                          /\ g = h => g \in erred'
                          /\ g \in erred => g \in erred'
  BY <1>1, <1>3
<1>5. CountInv'
  BY Cast, <1>1, CountFrame
<1>6. ToldInv'
  BY Cast, <1>1, <1>4, ToldFrame
<1>7. ReportsInv'
  BY Cast, <1>1, <1>4, ReportsFrame
<1>8. ExpiryInv'
  BY Cast, <1>1, <1>4 DEF ExpiryInv, NoExpiry, Absent
<1> QED BY <1>3, <1>5, <1>6, <1>7, <1>8 DEF ValkeyInv

(* A key that expires is gone with its expiry. *)
LEMMA TimeKeeps ==
    ASSUME ValkeyInv, TimePasses
    PROVE  ValkeyInv'
<1>1. /\ pc' = pc /\ now' = now + 1 /\ now < MaxTime /\ answer' = answer
      /\ Seen' = Seen /\ erred' = erred /\ countedIn' = countedIn
  BY DEF TimePasses, calls
<1>2. /\ counterEnds \/ (counter' = counter /\ counterTill' = counterTill /\ life' = life)
      /\ obsEnds \/ (obs' = obs /\ obsTill' = obsTill)
      /\ reportsEnd \/ (reports' = reports /\ reportsTill' = reportsTill /\ pushed' = pushed)
  BY Zenon DEF TimePasses
<1>3. CountInv'
  BY Cast, <1>1, <1>2, CountFrame, CountEnds
<1>4. ToldInv'
  BY Cast, <1>1, ToldFrame
<1>5. ReportsInv'
  BY Cast, <1>1, <1>2, ReportsFrame, ReportsEnd
<1>6. now' \in 0..MaxTime
  BY Cast, <1>1, ValkeyAssumption DEF ExpiryInv
<1>7. /\ (counter' = counter /\ counterTill' = counterTill) \/ counter' = Absent
      /\ (obs' = obs /\ obsTill' = obsTill) \/ obs' = <<>>
      /\ (reports' = reports /\ reportsTill' = reportsTill) \/ reports' = <<>>
  BY <1>2 DEF counterEnds, obsEnds, reportsEnd
<1>8. ExpiryInv'
  BY Cast, <1>1, <1>6, <1>7 DEF ExpiryInv, NoExpiry, Absent
<1> QED BY Cast, <1>1, <1>3, <1>4, <1>5, <1>8 DEF ValkeyInv

(* Before the first query there is no key and nobody was counted. *)
LEMMA InitEstablishes == Init => ValkeyInv
<1> SUFFICES ASSUME Init PROVE ValkeyInv
  OBVIOUS
<1>1. pc \in [Everyone -> Labels]
  BY DEF Init, Everyone, Labels
<1>2. CountInv
  <2>1. /\ counter = 0 /\ life = 0 /\ answer = [h \in Handlers |-> 0]
        /\ countedIn = [h \in Handlers |-> 0]
    BY DEF Init, Absent
  <2>2. \A l : counted(l) = {}
    BY <2>1 DEF counted, countedBy
  <2>3. IsFiniteSet({}) /\ Cardinality({}) = 0
    BY FS_EmptySet
  <2>4. {answer[h] : h \in {}} = 1..0
    OBVIOUS
  <2>5. Numbered(answer, {})
    BY <2>3, <2>4 DEF Numbered
  <2> QED BY <2>1, <2>2, <2>3, <2>5 DEF CountInv
<1>5. ToldInv
  BY DEF Init, ToldInv
<1>3. ReportsInv
  <2>1. reports = <<>> /\ pushed = <<>> /\ <<>> \in Seq(Nat) /\ Len(<<>>) = 0
    BY DEF Init
  <2>2. EndOf(<<>>, <<>>)
    BY <2>1 DEF EndOf
  <2> QED BY <2>1, <2>2, Limits DEF ReportsInv
<1>4. ExpiryInv
  BY ValkeyAssumption DEF Init, ExpiryInv
<1> QED BY <1>1, <1>2, <1>3, <1>4, <1>5 DEF ValkeyInv

(* Every step of every replica keeps the invariant. *)
LEMMA StepKeeps == ValkeyInv /\ [Next]_vars => ValkeyInv'
<1> SUFFICES ASSUME ValkeyInv, [Next]_vars PROVE ValkeyInv'
  OBVIOUS
<1>1. CASE \E h \in Handlers : Record(h)
  BY <1>1, IncrKeeps, ReplyKeeps, PipelineKeeps DEF Record
<1>2. CASE \E h \in Reporters : RecordReport(h)
  BY <1>2, RecordReportKeeps
<1>3. CASE \E h \in Handlers \cup Reporters : Fail(h) \/ Refuse(h)
  BY <1>3, FailKeeps DEF Everyone
<1>4. CASE TimePasses
  BY <1>4, TimeKeeps
<1>5. CASE UNCHANGED vars
  <2>1. /\ pc' = pc /\ now' = now /\ counter' = counter /\ counterTill' = counterTill
        /\ obs' = obs /\ obsTill' = obsTill /\ reports' = reports
        /\ reportsTill' = reportsTill /\ pushed' = pushed
        /\ Seen' = Seen /\ life' = life /\ countedIn' = countedIn
        /\ answer' = answer /\ erred' = erred
    BY <1>5 DEF vars, keys, calls, history
  <2>2. CountInv' /\ ToldInv' /\ ReportsInv'
    BY <2>1, CountFrame, ToldFrame, ReportsFrame DEF ValkeyInv
  <2>3. ExpiryInv'
    BY <2>1 DEF ValkeyInv, ExpiryInv, NoExpiry, Absent
  <2> QED BY <2>1, <2>2, <2>3 DEF ValkeyInv
<1> QED BY <1>1, <1>2, <1>3, <1>4, <1>5 DEF Next

-----------------------------------------------------------------------------
(* The inductive invariant holds however the replicas' commands interleave *)
(* and whichever of them fail, with or without being executed.             *)
THEOREM ValkeyInvariant == Spec => []ValkeyInv
BY InitEstablishes, StepKeeps, PTL DEF Spec

(* INCR over all replicas: no two queries of one life of the counter are   *)
(* told the same number, a number is lost only with the reply to a call    *)
(* that failed, and the counter counts those too.                          *)
THEOREM SeenAlwaysExact == Spec => []SeenIsExact
<1>1. ValkeyInv => SeenIsExact
  <2> SUFFICES ASSUME ValkeyInv, NEW l \in 0..life
               PROVE  LET told == {h \in counted(l) : Seen[h] # 0}
                          n == Cardinality(counted(l))
                      IN  /\ \A g, h \in told : Seen[g] = Seen[h] => g = h
                          /\ {Seen[h] : h \in told} \subseteq 1..n
                          /\ \A h \in counted(l) \ told : h \in erred \/ pc[h] = "answered"
                          /\ told = counted(l) => {Seen[h] : h \in told} = 1..n
                          /\ l = life => counter = n
    BY Zenon DEF SeenIsExact, counted, countedBy
  <2> DEFINE told == {h \in counted(l) : Seen[h] # 0}
             n == Cardinality(counted(l))
  <2>1. /\ {answer[h] : h \in counted(l)} = 1..n
        /\ \A g, h \in counted(l) : answer[g] = answer[h] => g = h
        /\ l = life => counter = n
    BY Zenon DEF ValkeyInv, CountInv, Numbered
  <2>2. \A h \in counted(l) : /\ Seen[h] \in {0, answer[h]} /\ answer[h] # 0
                              /\ Seen[h] = 0 => h \in erred \/ pc[h] = "answered"
    BY Zenon DEF ValkeyInv, ToldInv, counted, countedBy
  <2>3. \A h \in told : h \in counted(l) /\ Seen[h] = answer[h]
    BY <2>2
  <2>4. told \subseteq counted(l) /\ \A h \in counted(l) \ told : Seen[h] = 0
    OBVIOUS
  <2> HIDE DEF told, n
  <2>5. {Seen[h] : h \in told} = {answer[h] : h \in told}
    BY <2>3
  <2>6. {answer[h] : h \in told} \subseteq {answer[h] : h \in counted(l)}
    BY <2>4
  <2>7. \A g, h \in told : Seen[g] = Seen[h] => g = h
    BY Zenon, <2>1, <2>3
  <2>8. \A h \in counted(l) \ told : h \in erred \/ pc[h] = "answered"
    BY <2>2, <2>4
  <2>9. told = counted(l) => {Seen[h] : h \in told} = 1..n
    BY Zenon, <2>1, <2>5
  <2>10. {Seen[h] : h \in told} \subseteq 1..n
    BY Zenon, <2>1, <2>5, <2>6
  <2> QED BY Zenon, <2>1, <2>7, <2>8, <2>9, <2>10 DEF told, n
<1> QED BY <1>1, ValkeyInvariant, PTL

(* RPUSH and LTRIM of any number of replicas: a report is only dropped for *)
(* newer ones, and once nobody is half-way or has failed, exactly the      *)
(* newest of them, as many as the limit allows, are there.                 *)
THEOREM NewestReportsAlwaysKept == Spec => []NewestReportsKept
<1>1. ValkeyInv => NewestReportsKept
  <2> SUFFICES ASSUME ValkeyInv PROVE NewestReportsKept
    OBVIOUS
  <2>1. /\ reports \in Seq(Nat) /\ pushed \in Seq(Nat) /\ EndOf(reports, pushed)
        /\ Len(reports) < limit => Len(reports) = Len(pushed)
        /\ Len(reports) > limit
            => \E h \in Reporters : h \in erred \/ pc[h] = "ltrim"
    BY DEF ValkeyInv, ReportsInv
  <2>2. /\ Len(reports) \in Nat /\ Len(pushed) \in Nat /\ Len(reports) <= Len(pushed)
        /\ limit \in Nat
    BY <2>1, Limits DEF EndOf
  <2>3. ASSUME NEW n \in Nat,
               Len(reports) = IF Len(pushed) <= n THEN Len(pushed) ELSE n
        PROVE  reports = lastN(pushed, n)
    BY <2>1, <2>3, LastN, EndUnique
  <2>4. reports = lastN(pushed, Len(reports))
    BY <2>2, <2>3
  <2>5. ASSUME quiet(Reporters), succeeded(Reporters)
        PROVE  reports = lastN(pushed, limit)
    <3>1. ~(Len(reports) > limit)
      BY <2>1, <2>5 DEF quiet, succeeded
    <3>2. Len(reports) = IF Len(pushed) <= limit THEN Len(pushed) ELSE limit
      BY <2>1, <2>2, <3>1
    <3> QED BY <2>2, <2>3, <3>2
  <2> QED BY <2>4, <2>5 DEF NewestReportsKept
<1> QED BY <1>1, ValkeyInvariant, PTL

(* EXPIRE after each write: once no call is half-way, no key lacks an      *)
(* expiry, unless a call that writes it has failed.                        *)
THEOREM KeysAlwaysGetExpiry == Spec => []KeysExpire
<1>1. ValkeyInv => KeysExpire
  BY DEF ValkeyInv, ExpiryInv, KeysExpire, quiet, succeeded
<1> QED BY <1>1, ValkeyInvariant, PTL
=============================================================================
