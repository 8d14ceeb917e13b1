----------------------------- MODULE FleetClock -----------------------------
(***************************************************************************)
(* The fleet check orchestrator of fleet_clock.py on top of the clock      *)
(* manager: one run at a time reserves every managed repeater and checks   *)
(* them one after the other in its own task.  The task of a run is also    *)
(* its run id.                                                             *)
(*                                                                         *)
(* hass.async_create_task is eager in every Home Assistant that has the    *)
(* entry.runtime_data this integration uses, so a start includes the run   *)
(* up to its first await.  The scheduler calls the same start as the       *)
(* service and only counts a refusal: a start stands for either trigger.   *)
(* beta8 sets both inter-repeater delays to zero, and a zero delay only    *)
(* reads the cancel event without suspending.  The bookkeeping of the run  *)
(* follows the return of a check without an await: ClockSystem lets no     *)
(* other step in between.                                                  *)
(***************************************************************************)
EXTENDS ClockManager

CONSTANT Rotating     (* config.rotating_start                             *)

ASSUME RotatingAssumption == Rotating \in BOOLEAN

VARIABLES
  currentRun,       (* _current_run                                        *)
  runState,         (* FleetRun.state                                      *)
  runStart,         (* rotation with which the run's order was taken       *)
  checked,          (* stable ids of FleetRun.outcomes, in order           *)
  troubleCount,     (* FleetRun.timeout_count + failure_count              *)
  cancelRequested,  (* runs whose cancellation_requested is set            *)
  cancelEvent,      (* _cancel_event of the current run                    *)
  rotationIndex     (* _rotation_index                                     *)

fleetClockVars == <<currentRun, runState, runStart, checked, troubleCount,
                    cancelRequested, cancelEvent, rotationIndex>>

ActiveRunStates == {"running", "cancelling"}
FullRunStates   == {"completed", "completed_with_errors"}
RunStates       == ActiveRunStates \cup FullRunStates \cup {"none", "cancelled", "failed"}

FleetClockActive == currentRun # NoTask /\ runState[currentRun] \in ActiveRunStates

(* ordered_stable_ids of a run that starts at index start, and a mutant    *)
(* that does not wrap around.                                              *)
OrderedWithoutWrap(start, i) == Managed[IF i + start > Size THEN Size ELSE i + start]
Ordered(start, i) == Managed[((i - 1 + start) % Size) + 1]

-----------------------------------------------------------------------------
(* release_fleet_targets of the manager, and a mutant.                     *)
ReleaseIdOnly(f) ==
  /\ fleetRunId' = IF fleetRunId = f THEN NoTask ELSE fleetRunId
  /\ UNCHANGED reserved

ReleaseTargets(f) ==
  /\ fleetRunId' = IF fleetRunId = f THEN NoTask ELSE fleetRunId
  /\ reserved' = IF fleetRunId = f THEN {} ELSE reserved

(* The end of the loop and the finally block of _async_run.                *)
Finalize(f, state) ==
  /\ pc' = [pc EXCEPT ![f] = "finished"]
  /\ runState' = [runState EXCEPT ![f] = state]
  /\ ReleaseTargets(f)
  /\ rotationIndex' = IF Rotating /\ state \in FullRunStates /\ Size > 0
                      THEN (rotationIndex + 1) % Size ELSE rotationIndex
  /\ UNCHANGED <<target, stage, attempt, future, outcome, cancelling, verified,
                 pending, pendingLogin, pendingSync, syncTasks, result,
                 fleetSyncId, subscribed>>

(* async_start_run: every refusal raises and changes nothing.  Of the      *)
(* single checks only those already registered in _pending refuse it.      *)
StartRun(f) ==
  LET start == IF Rotating /\ Size > 0 THEN rotationIndex % Size ELSE 0 IN
  /\ subscribed
  /\ pc[f] = "idle"
  /\ ~FleetClockActive
  /\ \A r \in Repeaters : pending[r] = NoTask
  /\ ~SyncInProgress
  /\ fleetRunId = NoTask
  /\ currentRun' = f
  /\ runStart' = [runStart EXCEPT ![f] = start]
  /\ cancelEvent' = FALSE
  /\ UNCHANGED <<checked, troubleCount, cancelRequested>>
  /\ IF Size = 0
     THEN Finalize(f, "failed")
     ELSE /\ fleetRunId' = f
          /\ reserved' = Repeaters
          /\ runState' = [runState EXCEPT ![f] = "running"]
          /\ Check(f, Ordered(start, 1))
          /\ UNCHANGED <<fleetSyncId, rotationIndex>>

(* async_cancel_run                                                        *)
CancelRun ==
  /\ subscribed
  /\ FleetClockActive
  /\ cancelRequested' = cancelRequested \cup {currentRun}
  /\ runState' = [runState EXCEPT ![currentRun] = "cancelling"]
  /\ cancelEvent' = TRUE
  /\ UNCHANGED <<mgrVars, currentRun, runStart, checked, troubleCount, rotationIndex>>

(* Whether a run stops after an outcome: its flag is read after each one,  *)
(* its event only when it would wait for the next.                         *)
StopRequested(f, last) == f \in cancelRequested \/ (~last /\ cancelEvent)

(* The check of the run returned: an outcome, an exception included, is    *)
(* counted and the next check dispatched, unless the run is at its end or  *)
(* cancelled.                                                              *)
RunCounts(f) ==
  LET done == Append(checked[f], target[f])
      last == Len(done) >= Size
      bad  == IF outcome[f] \in Completed THEN 0 ELSE 1
  IN
  /\ pc[f] = "returned"
  /\ outcome[f] # "interrupted"
  /\ checked' = [checked EXCEPT ![f] = done]
  /\ troubleCount' = [troubleCount EXCEPT ![f] = @ + bad]
  /\ UNCHANGED <<currentRun, runStart, cancelRequested, cancelEvent>>
  /\ \/ /\ StopRequested(f, last)
        /\ Finalize(f, "cancelled")
     \/ /\ ~StopRequested(f, last) /\ ~last
        /\ Check(f, Ordered(runStart[f], Len(done) + 1))
        /\ runState' = [runState EXCEPT ![f] = "running"]
        /\ UNCHANGED <<gateVars, rotationIndex>>
     \/ /\ ~StopRequested(f, last) /\ last
        /\ Finalize(f, IF troubleCount[f] + bad = 0 THEN "completed"
                       ELSE "completed_with_errors")

(* Only a CancelledError ends the run without an outcome.  A mutant that   *)
(* does not notice it comes first.                                         *)
RunMissesCancel(f) ==
  /\ pc[f] = "returned"
  /\ outcome[f] = "cancelled"
  /\ Finalize(f, "cancelled")
  /\ cancelRequested' = cancelRequested \cup {f}
  /\ UNCHANGED <<currentRun, runStart, checked, troubleCount, cancelEvent>>

RunInterrupted(f) ==
  /\ pc[f] = "returned"
  /\ outcome[f] = "interrupted"
  /\ Finalize(f, "cancelled")
  /\ cancelRequested' = cancelRequested \cup {f}
  /\ UNCHANGED <<currentRun, runStart, checked, troubleCount, cancelEvent>>

RunStep(f) == RunCounts(f) \/ RunInterrupted(f)

(* async_stop of the orchestrator, without what it does to the manager.    *)
FleetClockStop ==
  /\ cancelEvent' = TRUE
  /\ UNCHANGED <<currentRun, runState, runStart, checked, troubleCount,
                 cancelRequested, rotationIndex>>

UnfinishedRun == {f \in FleetChecks : f = currentRun /\ pc[f] # "finished"}

(* release_fleet_targets of the current run on unload.                     *)
ReleaseOnStop == ReleaseTargets(currentRun)

-----------------------------------------------------------------------------
FleetClockInit ==
  /\ currentRun = NoTask
  /\ runState = [f \in FleetChecks |-> "none"]
  /\ runStart = [f \in FleetChecks |-> 0]
  /\ checked = [f \in FleetChecks |-> <<>>]
  /\ troubleCount = [f \in FleetChecks |-> 0]
  /\ cancelRequested = {}
  /\ cancelEvent = FALSE
  /\ rotationIndex = 0

FleetClockCall == CancelRun \/ \E f \in FleetChecks : StartRun(f)

-----------------------------------------------------------------------------
(* The types of the orchestrator's variables.                              *)
FleetClockTypeOK ==
  /\ currentRun \in FleetChecks \cup {NoTask}
  /\ runState \in [FleetChecks -> RunStates]
  /\ runStart \in [FleetChecks -> Nat]
  /\ checked \in [FleetChecks -> Seq(Repeaters)]
  /\ troubleCount \in [FleetChecks -> Nat]
  /\ cancelRequested \subseteq FleetChecks
  /\ cancelEvent \in BOOLEAN
  /\ rotationIndex \in Nat

(* A run that reports itself completed checked every managed repeater      *)
(* exactly once, whatever the rotation, the refusals and failures on the   *)
(* way and the other operations of the manager.                            *)
FullRunCoversFleet ==
  \A f \in FleetChecks : runState[f] \in FullRunStates =>
    /\ Len(checked[f]) = Size
    /\ \A r \in Repeaters : \E i \in 1..Len(checked[f]) : checked[f][i] = r
=============================================================================
