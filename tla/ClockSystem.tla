---------------------------- MODULE ClockSystem -----------------------------
(***************************************************************************)
(* The clock operations of one loaded entry as __init__.py wires them: the *)
(* manager, the fleet check orchestrator and the fleet synchronization     *)
(* orchestrator over the same repeaters, with users, schedulers, the radio *)
(* and the unload interleaved.                                             *)
(***************************************************************************)
EXTENDS FleetClock, FleetSync

sysVars == <<mgrVars, fleetClockVars, fleetSyncVars>>

(* Home Assistant runs the unload callbacks last registered first and      *)
(* without an await between them: fleet sync, fleet check, clock manager.  *)
Unload ==
  /\ StopManager(UnfinishedSync \cup UnfinishedRun)
  /\ ReleaseOnStop
  /\ FleetClockStop
  /\ FleetSyncStop

SysInit == ManagerInit /\ FleetClockInit /\ FleetSyncInit

(* A run does its bookkeeping and dispatches its next repeater without an  *)
(* await after its check or sync returned: nothing else comes in between.  *)
Settled == \A t \in FleetChecks \cup FleetSyncs : pc[t] # "returned"

SysTaskStep(t) == Settled /\ TaskStep(t) /\ UNCHANGED <<fleetClockVars, fleetSyncVars>>
SysProgress(t) == Settled /\ Progress(t) /\ UNCHANGED <<fleetClockVars, fleetSyncVars>>

SysNext ==
  \/ Settled /\ CallStep /\ UNCHANGED <<fleetClockVars, fleetSyncVars>>
  \/ \E t \in Tasks : SysTaskStep(t)
  \/ Settled /\ RadioStep /\ UNCHANGED <<fleetClockVars, fleetSyncVars>>
  \/ Settled /\ FleetClockCall /\ UNCHANGED fleetSyncVars
  \/ (\E f \in FleetChecks : RunStep(f)) /\ UNCHANGED fleetSyncVars
  \/ Settled /\ FleetSyncCall /\ UNCHANGED fleetClockVars
  \/ (\E s \in FleetSyncs : SyncRunStep(s)) /\ UNCHANGED fleetClockVars
  \/ Settled /\ Unload

(* The event loop runs every task whose await ended, and every await ends. *)
SysFairness ==
  /\ \A t \in Tasks : WF_sysVars(SysProgress(t))
  /\ \A f \in FleetChecks : WF_sysVars(RunStep(f) /\ UNCHANGED fleetSyncVars)
  /\ \A s \in FleetSyncs : WF_sysVars(SyncRunStep(s) /\ UNCHANGED fleetClockVars)

SysSpec == SysInit /\ [][SysNext]_sysVars /\ SysFairness

-----------------------------------------------------------------------------
(* The types of all variables of the composed system.                      *)
SysTypeOK == ManagerTypeOK /\ FleetClockTypeOK /\ FleetSyncTypeOK

(* While loaded, the fleet gates of the manager are held by exactly the    *)
(* runs that report themselves active: a gate that outlives its run would  *)
(* refuse every later clock operation, one that is lost early would let    *)
(* other operations into the queue of a run.                               *)
GatesFollowRuns ==
  subscribed =>
    /\ \A f \in FleetChecks :
         fleetRunId = f <=> currentRun = f /\ FleetClockActive
    /\ \A s \in FleetSyncs :
         fleetSyncId = s <=> syncRun = s /\ FleetSyncActive
    /\ reserved = IF fleetRunId = NoTask THEN {} ELSE Repeaters

(* What the properties of this module rest on.  A run of either kind is    *)
(* under way exactly while it reports itself active, a fleet check has     *)
(* checked a prefix of its order, and a stop stays visible to the runs.    *)
UnderWay(t) == pc[t] \notin {"idle", "finished"}

CheckRunShape ==
  \A f \in FleetChecks :
    /\ UnderWay(f) <=> currentRun = f /\ FleetClockActive
    /\ UnderWay(f) => /\ Len(checked[f]) < Size
                      /\ target[f] = Ordered(runStart[f], Len(checked[f]) + 1)
    /\ pc[f] = "idle" => checked[f] = <<>>
    /\ Size > 0 => runStart[f] < Size
    /\ \A i \in 1..Len(checked[f]) : checked[f][i] = Ordered(runStart[f], i)
    /\ runState[f] \in FullRunStates => Len(checked[f]) = Size

SyncRunShape ==
  \A s \in FleetSyncs :
    /\ UnderWay(s) <=> syncRun = s /\ FleetSyncActive
    /\ UnderWay(s) => target[s] \in Repeaters
    /\ pc[s] = "delay" => syncCount[s] < Size

StopsShape ==
  /\ \A f \in cancelRequested : pc[f] # "idle"
  /\ ~subscribed => cancelEvent /\ syncCancel

(* While loaded, a fleet check excludes a fleet sync and every write, and  *)
(* a fleet sync every write but its own.                                   *)
GateHolders ==
  /\ fleetRunId \in FleetChecks \cup {NoTask}
  /\ fleetSyncId \in FleetSyncs \cup {NoTask}
  /\ subscribed =>
       /\ fleetRunId # NoTask => fleetSyncId = NoTask /\ \A t \in Tasks : ~Gated(t)
       /\ fleetSyncId # NoTask => \A t \in Tasks : Gated(t) => t = fleetSyncId

SysInv ==
  /\ ManagerInv
  /\ FleetClockTypeOK
  /\ FleetSyncTypeOK
  /\ CheckRunShape
  /\ SyncRunShape
  /\ StopsShape
  /\ GatesFollowRuns
  /\ GateHolders

(* A run that was asked to stop, by the cancel service or by the unload,   *)
(* starts no other repeater: it only finishes the one under way.           *)
Stopping(t) == ~subscribed \/ t \in cancelRequested
StopsBeforeNextRepeater ==
  [][\A t \in FleetChecks \cup FleetSyncs :
       Stopping(t) /\ ~InFlight(t) => ~InFlight(t)']_sysVars

(* Every fleet run comes to an end, whatever its repeaters answer.         *)
FleetRunsEnd ==
  /\ \A f \in FleetChecks : currentRun = f ~> pc[f] = "finished"
  /\ \A s \in FleetSyncs : syncRun = s ~> pc[s] = "finished"

(* The system implements the gate of ClockGate.                            *)
Promise == INSTANCE ClockGate WITH
  Owners  <- Tasks,
  Places  <- Repeaters,
  Nobody  <- NoTask,
  loaded  <- subscribed,
  checker <- IF subscribed THEN fleetRunId ELSE NoTask,
  syncer  <- IF subscribed THEN fleetSyncId ELSE NoTask,
  writers <- IF subscribed THEN {<<t, target[t]>> : t \in {u \in Tasks : Gated(u)}}
             ELSE {}

ImplementsGate == Promise!Spec

(* README.md:70 Check All and Sync All "never intentionally run multiple   *)
(* repeater clock transactions in parallel".                               *)
FleetRunsAlone ==
  \A f \in FleetChecks \cup FleetSyncs, t \in Tasks :
    subscribed /\ InFlight(f) /\ InFlight(t) => t = f
=============================================================================
