----------------------------- MODULE Lifecycle -----------------------------
(***************************************************************************)
(* The background loops of sni_tls (poll loops) and radnr (advertisers)    *)
(* across caddy's starts, reloads and shutdown.  Both plugins register the *)
(* same hooks and keep the same kind of process-wide registry of running   *)
(* loops; radnr's OnStartup can also fail, before it touches the registry. *)
(*                                                                         *)
(* Caddy is external.  A start parses the Corefile (setup), runs every     *)
(* OnStartup hook and opens the listeners.  A reload runs the serving      *)
(* instance's OnRestart hooks, starts a new instance and, when any of it   *)
(* fails, drops the new instance and runs the old one's OnRestartFailed    *)
(* hooks, whose errors it only logs.  Hooks of other plugins run in        *)
(* between and may fail.                                                   *)
(***************************************************************************)
EXTENDS Naturals, FiniteSets, FiniteSetsExt

CONSTANTS
    Blocks,      \* the plugin's blocks in a Corefile, numbered in hook order
    MaxReloads   \* bound: how many reloads are tried

ASSUME LifecycleAssumption ==
    /\ Blocks \subseteq Nat
    /\ MaxReloads \in Nat

(* Instance k is the one made by the k-th reload, 0 by the first start; a  *)
(* loop is started at most once per block and reload.                      *)
Instances == 0..MaxReloads
Handles == [inst : Instances, block : Blocks, reload : Instances]
None == MaxReloads + 1
NoHandle == [inst |-> None, block |-> 0, reload |-> None]

VARIABLES
    phase,     \* what caddy is doing
    todo,      \* the plugin's blocks whose hook is still to be run
    live,      \* the instance in service, or None
    blocks,    \* the blocks of each instance's Corefile
    reloads,   \* how many reloads have begun
    failed,    \* history: blocks whose OnRestartFailed failed in this reload
    registry,  \* pollers / advertisers: the loops started and not cancelled
    running    \* running[i][b]: the handle instance i's block b remembers

caddy == <<phase, todo, live, blocks, reloads, failed>>
lifecycleVars == <<caddy, registry, running>>

LifecycleInit ==
    /\ phase = "startup"
    /\ live = None
    /\ blocks \in {[i \in Instances |-> IF i = 0 THEN s ELSE {}] : s \in SUBSET Blocks}
    /\ todo = blocks[0]
    /\ reloads = 0
    /\ failed = {}
    /\ registry = {}
    /\ running = [i \in Instances |-> [b \in Blocks |-> NoHandle]]

-----------------------------------------------------------------------------
(* The plugins' hooks                                                      *)

(* Mutant of adopt: loops of other instances are left running.             *)
adoptKeepOthers(i, b) ==
    LET new == [inst |-> i, block |-> b, reload |-> reloads]
    IN  /\ registry' = (registry \ {running[i][b]}) \cup {new}
        /\ running' = [running EXCEPT ![i][b] = new]

(* adopt: cancel and forget this block's previous loop and every loop of   *)
(* another instance, then register the new one.                            *)
adopt(i, b) ==
    LET new == [inst |-> i, block |-> b, reload |-> reloads]
    IN  /\ registry' = {h \in registry : h # running[i][b] /\ h.inst = i} \cup {new}
        /\ running' = [running EXCEPT ![i][b] = new]

(* OnShutdown, also run as OnRestart and OnFinalShutdown.                  *)
OnShutdown(i, b) ==
    /\ registry' = registry \ {running[i][b]}
    /\ running' = [running EXCEPT ![i][b] = NoHandle]

-----------------------------------------------------------------------------
(* Caddy                                                                   *)

enter(p, s) == phase' = p /\ todo' = s

(* The next block's hook has run.                                          *)
popTodo == todo' = todo \ {Min(todo)} /\ UNCHANGED <<phase, live, blocks, reloads>>

(* A start failed.  The first one ends the process; a reload's leaves the  *)
(* old instance in service and drops the new one without another call.     *)
dropInstance ==
    IF live = None
    THEN enter("stopped", {}) /\ UNCHANGED <<live, blocks, reloads, failed>>
    ELSE enter("restartFailed", blocks[live]) /\ UNCHANGED <<live, blocks, reloads, failed>>

RunOnStartup ==
    /\ phase = "startup" /\ todo # {}
    /\ adopt(reloads, Min(todo))
    /\ popTodo /\ UNCHANGED failed

OnStartupFails ==
    /\ phase = "startup" /\ todo # {}
    /\ dropInstance
    /\ UNCHANGED <<registry, running>>

(* Another plugin's OnStartup fails, or a listener cannot be bound.        *)
OtherStartFails ==
    /\ phase = "startup"
    /\ dropInstance
    /\ UNCHANGED <<registry, running>>

Started ==
    /\ phase = "startup" /\ todo = {}
    /\ live' = reloads
    /\ phase' = "serving"
    /\ UNCHANGED <<todo, blocks, reloads, failed, registry, running>>

ReloadCorefile ==
    /\ phase = "serving"
    /\ reloads < MaxReloads
    /\ reloads' = reloads + 1
    /\ failed' = {}
    /\ enter("restart", blocks[live])
    /\ UNCHANGED <<live, blocks, registry, running>>

RunOnRestart ==
    /\ phase = "restart" /\ todo # {}
    /\ OnShutdown(live, Min(todo))
    /\ popTodo /\ UNCHANGED failed

(* Another plugin's OnRestart fails, or the new Corefile does not parse or *)
(* its setup fails.                                                        *)
RestartFails ==
    /\ phase = "restart"
    /\ enter("restartFailed", blocks[live])
    /\ UNCHANGED <<live, blocks, reloads, failed, registry, running>>

NewInstance(s) ==
    /\ phase = "restart" /\ todo = {}
    /\ blocks' = [blocks EXCEPT ![reloads] = s]
    /\ enter("startup", s)
    /\ UNCHANGED <<live, reloads, failed, registry, running>>

(* Mutant of RunOnRestartFailed: setup registers no such hook.             *)
RunOnRestartFailedMissing ==
    /\ phase = "restartFailed" /\ todo # {}
    /\ popTodo /\ UNCHANGED failed
    /\ UNCHANGED <<registry, running>>

RunOnRestartFailed ==
    /\ phase = "restartFailed" /\ todo # {}
    /\ adopt(live, Min(todo))
    /\ popTodo /\ UNCHANGED failed

OnRestartFailedFails ==
    /\ phase = "restartFailed" /\ todo # {}
    /\ popTodo /\ failed' = failed \cup {Min(todo)}
    /\ UNCHANGED <<registry, running>>

Resumed ==
    /\ phase = "restartFailed" /\ todo = {}
    /\ phase' = "serving"
    /\ UNCHANGED <<todo, live, blocks, reloads, failed, registry, running>>

Exit ==
    /\ phase = "serving"
    /\ enter("shutdown", blocks[live])
    /\ UNCHANGED <<live, blocks, reloads, failed, registry, running>>

RunOnFinalShutdown ==
    /\ phase = "shutdown" /\ todo # {}
    /\ OnShutdown(live, Min(todo))
    /\ popTodo /\ UNCHANGED failed

LifecycleNext ==
    \/ RunOnStartup \/ OnStartupFails \/ OtherStartFails \/ Started
    \/ ReloadCorefile \/ RunOnRestart \/ RestartFails
    \/ \E s \in SUBSET Blocks : NewInstance(s)
    \/ RunOnRestartFailed \/ OnRestartFailedFails \/ Resumed
    \/ Exit \/ RunOnFinalShutdown

LifecycleSpec == LifecycleInit /\ [][LifecycleNext]_lifecycleVars

-----------------------------------------------------------------------------
(* Properties                                                              *)

(* Type invariant.  Also: the handle a block remembers is its own.         *)
LifecycleTypeOK ==
    /\ phase \in {"startup", "serving", "restart", "restartFailed", "shutdown",
                  "stopped"}
    /\ todo \subseteq Blocks
    /\ live \in Instances \cup {None}
    /\ blocks \in [Instances -> SUBSET Blocks]
    /\ reloads \in Instances
    /\ failed \subseteq Blocks
    /\ registry \subseteq Handles
    /\ running \in [Instances -> [Blocks -> Handles \cup {NoHandle}]]
    /\ \A i \in Instances, b \in Blocks :
          running[i][b] # NoHandle => running[i][b].inst = i /\ running[i][b].block = b

(* However starts and reloads fail, the loops that have not been cancelled *)
(* all belong to one caddy instance, and each is the one its block still   *)
(* has the handle of, so that OnShutdown or the next adopt can cancel it.  *)
OneInstanceRuns ==
    \A g, h \in registry : g.inst = h.inst /\ running[h.inst][h.block] = h

(* Whatever a reload did, every block of the instance in service has its   *)
(* loop again when caddy is done, but for those whose own OnStartup, run as*)
(* OnRestartFailed, failed.                                                *)
ServingBlocksRun ==
    phase = "serving" =>
        \A b \in blocks[live] \ failed : running[live][b] \in registry

(* As the registry's comment has it: a dropped instance's loop does not    *)
(* outlive the failed reload, whatever the Corefile.  It takes an OnStartup*)
(* of the serving instance to reclaim it, which the two properties above   *)
(* give where a block had one that did not fail.                           *)
DroppedIsAlwaysReclaimed ==
    phase = "serving" => \A h \in registry : h.inst = live

=============================================================================
