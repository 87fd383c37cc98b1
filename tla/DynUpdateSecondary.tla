------------------------- MODULE DynUpdateSecondary -------------------------
(***************************************************************************)
(* dynupdate together with the secondaries that copy its zone.  Every      *)
(* reader is a secondary: it asks for a transfer when a NOTIFY reaches it  *)
(* or when it feels like it (its refresh timer), and takes over what it    *)
(* gets unless the serial is the one it has.  The secondaries, and the     *)
(* transfer protocol, are not code of this repository: only what the file  *)
(* view's Transfer does with the caller's serial is modelled.              *)
(***************************************************************************)
EXTENDS DynUpdate

CONSTANT MaxUpdates   \* bound: UPDATEs received; fewer than the serials

ASSUME UpdatesAssumption == MaxUpdates \in Nat /\ MaxUpdates < 2 * Half - 1

VARIABLES
    copy,      \* the zone each secondary serves
    received   \* number of UPDATEs received so far

allVars == <<vars, copy, received>>

SInit ==
    /\ Init
    /\ copy = [r \in Readers |-> Seed]
    /\ received = 0

(* The end of a transfer: with an equal serial only the SOA is sent, and   *)
(* the secondary keeps what it has.                                        *)
takeOver(old, new) == IF soaOf(new).data = soaOf(old).data THEN old ELSE new

FinishTransfer(r) ==
    /\ FinishRead(r)
    /\ copy' = [copy EXCEPT ![r] = takeOver(@, snap[r])]
    /\ UNCHANGED received

SReceive(u, m) ==
    /\ received < MaxUpdates
    /\ received' = received + 1
    /\ Receive(u, m)
    /\ UNCHANGED copy

Serve(u) ==
    /\ \/ Lock(u) \/ Check(u) \/ ApplyRecord(u) \/ Commit(u)
       \/ Notify(u) \/ Reply(u) \/ Unlock(u)
    /\ UNCHANGED <<copy, received>>

Ask(r) == StartRead(r) /\ UNCHANGED <<copy, received>>

AskNotified(r) == r \in notified /\ Ask(r)

SNext ==
    \/ \E u \in Updaters : (\E m \in Messages : SReceive(u, m)) \/ Serve(u)
    \/ \E r \in Readers : Ask(r) \/ FinishTransfer(r)

(* A handler runs to its end once it is in (weak fairness gives it the     *)
(* lock too: finitely many UPDATEs compete for it).  A notified secondary  *)
(* asks, and transfers end; refresh timers promise nothing, and no client  *)
(* is obliged to send an UPDATE.  A secondary's read waits for the lock like any other, and     *)
(* Go's RWMutex lets a waiting reader in after the writer it waits for.    *)
SFairness ==
    /\ \A u \in Updaters : WF_allVars(Serve(u))
    /\ \A r \in Readers : SF_allVars(AskNotified(r)) /\ WF_allVars(FinishTransfer(r))

SSpec == SInit /\ [][SNext]_allVars
SFairSpec == SSpec /\ SFairness

-----------------------------------------------------------------------------
(* A serial names one version of the zone: a secondary that has the        *)
(* serial the server has, has the server's records, whatever transfers     *)
(* crossed whatever UPDATEs.  Holds for fewer changes than there are       *)
(* serials, while no UPDATE sets the serial itself (serveUpdate's use of   *)
(* bumpSerial).                                                            *)
SameSerialSameZone ==
    \A r \in Readers :
        soaOf(copy[r]).data = soaOf(view).data => copy[r] = view

(* When the changes stop and every NOTIFY got through, every secondary     *)
(* ends up with the server's zone: the NOTIFY comes after the swap, and    *)
(* a transfer that began before it does not swallow it.                    *)
SecondariesConverge == <>[](\A r \in Readers : copy[r] = view)
=============================================================================
