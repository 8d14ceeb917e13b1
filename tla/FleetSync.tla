----------------------------- MODULE FleetSync ------------------------------
(***************************************************************************)
(* The fleet synchronization orchestrator of fleet_sync.py, with the       *)
(* password guard of epoch_sync_beta15, on top of the clock manager.  A    *)
(* manual run is the task of the service call itself; an automatic run is  *)
(* an eagerly started task of the scheduler.  Either takes the manager's   *)
(* fleet gate and synchronizes the managed repeaters one after the other,  *)
(* with a delay of DEFAULT_FLEET_CLOCK_SYNC_DELAY seconds in between.      *)
(*                                                                         *)
(* A refused manual call raises and changes nothing, so it is the absence  *)
(* of a step.  Timers, the due time and the stored summary belong to the   *)
(* persistence of the orchestrator and are left out here.                  *)
(***************************************************************************)
EXTENDS ClockManager

VARIABLES
  syncRun,       (* _current_run of the sync orchestrator                  *)
  syncState,     (* FleetClockSyncRun.state                                *)
  syncTrigger,   (* FleetClockSyncRun.trigger                              *)
  syncCount,     (* FleetClockSyncRun.completed_count                      *)
  syncTrouble,   (* FleetClockSyncRun.failed                               *)
  syncTask,      (* _task                                                  *)
  syncCancel     (* _cancel_event                                          *)

fleetSyncVars == <<syncRun, syncState, syncTrigger, syncCount, syncTrouble,
                   syncTask, syncCancel>>

ActiveSyncStates == {"running", "waiting"}
SyncStates       == ActiveSyncStates \cup
  {"none", "cancelled", "completed", "completed_with_errors", "failed"}

FleetSyncActive == syncRun # NoTask /\ syncState[syncRun] \in ActiveSyncStates

(* is_active, or a refusal of begin_fleet_sync; first a mutant that does   *)
(* not look at the fleet check.                                            *)
BeginIgnoresCheck ==
  \/ FleetSyncActive
  \/ fleetSyncId # NoTask
  \/ \E r \in Repeaters : pending[r] # NoTask \/ pendingSync[r] # NoTask

BeginRefused ==
  \/ FleetSyncActive
  \/ fleetSyncId # NoTask
  \/ fleetRunId # NoTask
  \/ \E r \in Repeaters : pending[r] # NoTask \/ pendingSync[r] # NoTask

-----------------------------------------------------------------------------
(* end_fleet_sync of a run, and a mutant.                                  *)
KeepsGate(s) == fleetSyncId
EndGate(s)   == IF fleetSyncId = s THEN NoTask ELSE fleetSyncId

(* The finally block of _async_execute; the save that follows it changes   *)
(* nothing of this.                                                        *)
FinishSync(s, state) ==
  /\ pc' = [pc EXCEPT ![s] = "finished"]
  /\ syncState' = [syncState EXCEPT ![s] = state]
  /\ fleetSyncId' = EndGate(s)
  /\ syncTask' = IF syncTask = s THEN NoTask ELSE syncTask
  /\ UNCHANGED <<target, stage, attempt, future, outcome, verified, pending,
                 pendingLogin, pendingSync, syncTasks, result, fleetRunId,
                 reserved, subscribed>>

(* _async_execute from its guards to the first await.                      *)
Execute(s, trigger) ==
  /\ subscribed
  /\ pc[s] = "idle"
  /\ ~BeginRefused
  /\ syncRun' = s
  /\ syncTrigger' = [syncTrigger EXCEPT ![s] = trigger]
  /\ syncCancel' = FALSE
  /\ UNCHANGED <<syncCount, syncTrouble>>
  /\ IF Size = 0
     THEN FinishSync(s, "failed") /\ UNCHANGED cancelling
     ELSE /\ fleetSyncId' = s
          /\ syncState' = [syncState EXCEPT ![s] = "running"]
          /\ syncTask' = s
          /\ Sync(s, Managed[1])
          /\ UNCHANGED <<fleetRunId, reserved>>

(* async_sync_all from the service or the button.                          *)
SyncAll(s) == Execute(s, "manual")

(* The scheduler's callback: refused while anything else is known to run   *)
(* or a password is missing.                                               *)
StartAutomatic(s) ==
  /\ Repeaters \subseteq Keyed
  /\ ~CheckInProgress /\ ~SyncInProgress
  /\ Execute(s, "automatic")

-----------------------------------------------------------------------------
(* The next repeater of the loop, unless the cancel event is set.          *)
NextRepeater(s) ==
  IF syncCancel
  THEN FinishSync(s, "cancelled") /\ UNCHANGED cancelling
  ELSE /\ Sync(s, Managed[syncCount[s] + 1])
       /\ syncState' = [syncState EXCEPT ![s] = "running"]
       /\ UNCHANGED <<gateVars, syncTask>>

(* A CancelledError ended the sync of a repeater before its gate; first a  *)
(* mutant that does not notice.                                            *)
SyncMissesCancel(s) ==
  /\ pc[s] = "returned"
  /\ outcome[s] = "interrupted"
  /\ syncCancel /\ FinishSync(s, "cancelled")
  /\ UNCHANGED <<cancelling, syncRun, syncTrigger, syncCount, syncTrouble, syncCancel>>

SyncInterrupted(s) ==
  /\ pc[s] = "returned"
  /\ outcome[s] = "interrupted"
  /\ FinishSync(s, "cancelled")
  /\ UNCHANGED <<cancelling, syncRun, syncTrigger, syncCount, syncTrouble, syncCancel>>

(* A result of one repeater, counted; CANCELLED is only skipped.           *)
SyncCounts(s) ==
  LET bad == IF outcome[s] \in {"success", "cancelled"} THEN 0 ELSE 1 IN
  /\ pc[s] = "returned"
  /\ outcome[s] # "interrupted"
  /\ syncCount' = [syncCount EXCEPT ![s] = @ + 1]
  /\ syncTrouble' = [syncTrouble EXCEPT ![s] = @ + bad]
  /\ UNCHANGED <<cancelling, syncRun, syncTrigger, syncCancel>>
  /\ IF syncCancel
     THEN FinishSync(s, "cancelled")
     ELSE IF syncCount[s] + 1 < Size
     THEN /\ pc' = [pc EXCEPT ![s] = "delay"]
          /\ syncState' = [syncState EXCEPT ![s] = "waiting"]
          /\ UNCHANGED <<target, stage, attempt, future, outcome, verified, pending,
                         pendingLogin, pendingSync, syncTasks, result, gateVars,
                         subscribed, syncTask>>
     ELSE FinishSync(s, IF syncTrouble[s] + bad = 0 THEN "completed"
                        ELSE "completed_with_errors")

SyncDelayEnds(s) ==
  /\ Resumes(s, "delay")
  /\ NextRepeater(s)
  /\ UNCHANGED <<syncRun, syncTrigger, syncCount, syncTrouble, syncCancel>>

SyncDelayInterrupted(s) ==
  /\ pc[s] = "delay"
  /\ s \in cancelling
  /\ cancelling' = cancelling \ {s}
  /\ FinishSync(s, "cancelled")
  /\ UNCHANGED <<syncRun, syncTrigger, syncCount, syncTrouble, syncCancel>>

(* The call of a manual run is cancelled by what awaits it.                *)
SyncCallerCancels(s) ==
  /\ syncTrigger[s] = "manual"
  /\ InFlight(s) \/ pc[s] = "delay"
  /\ s \notin cancelling
  /\ cancelling' = cancelling \cup {s}
  /\ UNCHANGED <<pc, target, stage, attempt, future, outcome, verified, pending,
                 pendingLogin, pendingSync, syncTasks, result, gateVars, subscribed,
                 fleetSyncVars>>

SyncRunStep(s) ==
  SyncInterrupted(s) \/ SyncCounts(s) \/ SyncDelayEnds(s) \/ SyncDelayInterrupted(s)

(* async_stop of the orchestrator, without what it does to the manager;    *)
(* first a mutant that relies on task.cancel alone.                        *)
StopWithoutEvent == UNCHANGED fleetSyncVars

FleetSyncStop ==
  /\ syncCancel' = TRUE
  /\ UNCHANGED <<syncRun, syncState, syncTrigger, syncCount, syncTrouble, syncTask>>

UnfinishedSync == {s \in FleetSyncs : s = syncTask /\ pc[s] # "finished"}

-----------------------------------------------------------------------------
FleetSyncInit ==
  /\ syncRun = NoTask
  /\ syncState = [s \in FleetSyncs |-> "none"]
  /\ syncTrigger = [s \in FleetSyncs |-> "none"]
  /\ syncCount = [s \in FleetSyncs |-> 0]
  /\ syncTrouble = [s \in FleetSyncs |-> 0]
  /\ syncTask = NoTask
  /\ syncCancel = FALSE

FleetSyncCall ==
  \E s \in FleetSyncs : SyncAll(s) \/ StartAutomatic(s) \/ SyncCallerCancels(s)

-----------------------------------------------------------------------------
(* The types of the orchestrator's variables.                              *)
FleetSyncTypeOK ==
  /\ syncRun \in FleetSyncs \cup {NoTask}
  /\ syncState \in [FleetSyncs -> SyncStates]
  /\ syncTrigger \in [FleetSyncs -> {"none", "manual", "automatic"}]
  /\ syncCount \in [FleetSyncs -> Nat]
  /\ syncTrouble \in [FleetSyncs -> Nat]
  /\ syncTask \in FleetSyncs \cup {NoTask}
  /\ syncCancel \in BOOLEAN
=============================================================================
