---------------------------- MODULE ClockManager ----------------------------
(***************************************************************************)
(* The clock manager of MeshCore NOC as production composes it: the base   *)
(* class of clock.py with the patches of epoch_sync_beta8 .. beta15 that   *)
(* management.py installs.  Coroutines of one event loop interleave only   *)
(* where they await, so an action is the code of one task between two      *)
(* awaits, one radio event delivered to the raw handler, or one unload.    *)
(*                                                                         *)
(* A call of async_check_clock or async_sync_repeater_clock is a task.  A  *)
(* check logs in (at most LoginAttempts times), registers itself under the *)
(* repeater's prefix, sends "clock" (at most ClockAttempts times) and      *)
(* waits for the reply.  A sync runs an authenticated pre-check, then the  *)
(* gate of beta10, a second pre-check, the clock write and a post-check.   *)
(* What happens inside the write is left to a module of its own: here it   *)
(* is one await with a nondeterministic end.                               *)
(*                                                                         *)
(* The gap before a second "clock" is merged with the await before it: the *)
(* check stays registered and its future open, so nothing that another     *)
(* task or the radio handler reads changes between the two.                *)
(***************************************************************************)
EXTENDS Naturals, FiniteSets, Sequences

CONSTANTS
  Repeaters,      (* managed addressable repeaters; the prefix is unique   *)
  Managed,        (* the same repeaters in the order of manager.targets    *)
  CheckCalls,     (* single-repeater check calls: buttons and the service  *)
  SyncCalls,      (* single-repeater sync calls                            *)
  FleetChecks,    (* runs of the fleet check orchestrator (task = run id)  *)
  FleetSyncs,     (* runs of the fleet sync orchestrator (task = run id)   *)
  Keyed,          (* repeaters whose administrator password is saved       *)
  LoginAttempts,  (* beta14 _LOGIN_ATTEMPTS                                *)
  ClockAttempts,  (* beta14 _CLOCK_ATTEMPTS                                *)
  NoTask          (* Python's None where a task or a run id is expected    *)

Tasks == CheckCalls \cup SyncCalls \cup FleetChecks \cup FleetSyncs
Size  == Len(Managed)

ASSUME ConstantsAssumption ==
  /\ Managed \in Seq(Repeaters)
  /\ Repeaters = {Managed[i] : i \in 1..Len(Managed)}
  /\ \A i, j \in 1..Len(Managed) : Managed[i] = Managed[j] => i = j
  /\ Keyed \subseteq Repeaters
  /\ LoginAttempts \in Nat \ {0}
  /\ ClockAttempts \in Nat \ {0}
  /\ NoTask \notin Tasks \cup Repeaters
  /\ FleetChecks \cap (CheckCalls \cup SyncCalls \cup FleetSyncs) = {}
  /\ FleetSyncs \cap (CheckCalls \cup SyncCalls) = {}
  /\ CheckCalls \cap SyncCalls = {}

VARIABLES
  pc,            (* where a task is suspended                              *)
  target,        (* the repeater it works on (NoTask before the call)      *)
  stage,         (* which check of which operation it is running           *)
  attempt,       (* transmission counter of the running login or clock     *)
  future,        (* the future it waits on                                 *)
  outcome,       (* what the call returned                                 *)
  cancelling,    (* tasks with an undelivered task.cancel()                *)
  verified,      (* tasks whose running check saw an in-tolerance reply    *)
  pending,       (* _pending: the registered check of a prefix             *)
  pendingLogin,  (* _epoch_pending_logins: the login future of a prefix    *)
  pendingSync,   (* _pending_sync                                          *)
  syncTasks,     (* _sync_tasks                                            *)
  result,        (* _results[...].state, COMPLETED split by |offset| <= 30 *)
  fleetRunId,    (* _fleet_run_id                                          *)
  reserved,      (* _fleet_reserved_ids                                    *)
  fleetSyncId,   (* _fleet_sync_run_id                                     *)
  subscribed     (* the raw event listener is attached                     *)

taskVars == <<pc, target, stage, attempt, future, outcome, cancelling, verified>>
gateVars == <<fleetRunId, reserved, fleetSyncId>>
mgrVars  == <<taskVars, pending, pendingLogin, pendingSync, syncTasks, result,
              gateVars, subscribed>>

MaybeTask  == Tasks \cup {NoTask}
PCs        == {"idle", "login", "loginGap", "settle", "clock", "write", "returned",
               "delay", "finished"}
Stages     == {"none", "check", "precheck", "inner", "post"}
Futures    == {"none", "open", "accepted", "rejected", "done", "cancelled"}
CheckStates == {"none", "calling_service", "sent", "in_sync", "drifted",
                "failed", "timed_out"}
Completed  == {"in_sync", "drifted"}
Terminal   == Completed \cup {"failed", "timed_out"}
Outcomes   == {"none", "refused", "raised", "interrupted", "cancelled",
               "unauthorized", "success",
               "verification_failed", "calling_service", "sent"} \cup Terminal

(* Awaits of the manager's own coroutines.                                 *)
Busy == {"login", "loginGap", "settle", "clock", "write"}
InFlight(t) == pc[t] \in Busy
(* The part of a sync that holds the prefix in _pending_sync.              *)
Gated(t)  == InFlight(t) /\ stage[t] \in {"inner", "post"}

-----------------------------------------------------------------------------
(* check_in_progress and sync_in_progress of the manager.                  *)
CheckInProgress == fleetRunId # NoTask \/ \E r \in Repeaters : pending[r] # NoTask
SyncInProgress  == fleetSyncId # NoTask \/ \E r \in Repeaters : pendingSync[r] # NoTask

(* The password lookup goes through the config entry's runtime data, which *)
(* Home Assistant may already have dropped once the entry is unloaded.     *)
PasswordFound(r) == IF r \notin Keyed THEN {FALSE}
                    ELSE IF subscribed THEN {TRUE} ELSE BOOLEAN

(* The four guards at the top of async_check_clock; only a fleet check     *)
(* passes its run id.                                                      *)
CheckRefused(t, r, syncOp) ==
  \/ ~syncOp /\ fleetSyncId # NoTask
  \/ ~syncOp /\ pendingSync[r] # NoTask
  \/ r \in reserved /\ (IF t \in FleetChecks THEN t ELSE NoTask) # fleetRunId
  \/ pending[r] # NoTask

(* Mutants of the gate below.                                              *)
SyncIgnoresSync(t, r, pend) ==
  \/ fleetSyncId # NoTask /\ (IF t \in FleetSyncs THEN t ELSE NoTask) # fleetSyncId
  \/ fleetRunId # NoTask
  \/ pend[r] # NoTask

SyncIgnoresFleetSync(t, r, pend) ==
  fleetRunId # NoTask \/ pendingSync[r] # NoTask \/ pend[r] # NoTask

(* The gate of async_sync_repeater_clock; only a fleet sync passes its id. *)
SyncBlocked(t, r, pend) ==
  \/ fleetSyncId # NoTask /\ (IF t \in FleetSyncs THEN t ELSE NoTask) # fleetSyncId
  \/ fleetRunId # NoTask
  \/ pendingSync[r] # NoTask
  \/ pend[r] # NoTask

-----------------------------------------------------------------------------
(* The parts that the steps below are made of.  pend, logins and res are   *)
(* the maps _pending, _epoch_pending_logins and _results as the step has   *)
(* already changed them.                                                   *)
Leave(t, o) ==
  /\ pc' = [pc EXCEPT ![t] = "returned"]
  /\ outcome' = [outcome EXCEPT ![t] = o]
  /\ stage' = [stage EXCEPT ![t] = "none"]
  /\ attempt' = [attempt EXCEPT ![t] = 0]
  /\ future' = [future EXCEPT ![t] = "none"]
  /\ UNCHANGED verified

(* A check passed its guards: result reset, login future registered, and   *)
(* send_login on its way.                                                  *)
OpenLogin(t, r, s, logins, res) ==
  /\ pc' = [pc EXCEPT ![t] = "login"]
  /\ stage' = [stage EXCEPT ![t] = s]
  /\ attempt' = [attempt EXCEPT ![t] = 1]
  /\ future' = [future EXCEPT ![t] = "open"]
  /\ pendingLogin' = [logins EXCEPT ![r] = t]
  /\ result' = [res EXCEPT ![r] = "calling_service"]
  /\ verified' = verified \ {t}
  /\ outcome' = [outcome EXCEPT ![t] = "none"]

(* async_sync_repeater_clock from its gate to the first await: refused, or *)
(* registered and inside the informational pre-check.                      *)
EnterSync(t, r, pend, logins, res) ==
  /\ pending' = pend
  /\ IF SyncBlocked(t, r, pend)
     THEN /\ Leave(t, "failed")
          /\ pendingLogin' = logins
          /\ result' = res
          /\ UNCHANGED <<pendingSync, syncTasks>>
     ELSE \E found \in PasswordFound(r) :
          IF ~found
          THEN /\ Leave(t, "unauthorized")
               /\ pendingLogin' = logins
               /\ result' = res
               /\ UNCHANGED <<pendingSync, syncTasks>>
          ELSE /\ pendingSync' = [pendingSync EXCEPT ![r] = t]
               /\ syncTasks' = syncTasks \cup {t}
               /\ OpenLogin(t, r, "inner", logins, res)

(* A finally block pops the entry of its prefix, whosever it is by now.    *)
WithoutLogin(t) == [pendingLogin EXCEPT ![target[t]] = NoTask]

KeepsCheck(t)   == pending                                  (* a mutant   *)
LeavesPrefix(t) == [pending EXCEPT ![target[t]] = target[t]] (* a mutant  *)
WithoutCheck(t) == [pending EXCEPT ![target[t]] = NoTask]

(* The finally block of async_sync_repeater_clock.                         *)
LeaveSync(t, o, pend, logins, res) ==
  /\ Leave(t, o)
  /\ pending' = pend
  /\ pendingLogin' = [logins EXCEPT ![target[t]] = NoTask]
  /\ pendingSync' = [pendingSync EXCEPT ![target[t]] = NoTask]
  /\ syncTasks' = syncTasks \ {t}
  /\ result' = res

(* The tolerance both verifications of a sync apply, and a mutant of it.   *)
AnyReading(res, r)  == res[r] \in Completed
InTolerance(res, r) == res[r] = "in_sync"

(* async_check_clock gives control back to what awaited it.  The caller    *)
(* reads the shared result object, not a copy taken when the reply came.   *)
CheckReturns(t, raised, pend, logins, res) ==
  LET r  == target[t]
      ok == ~raised /\ InTolerance(res, r)
      Keep == /\ pending' = pend
              /\ pendingLogin' = logins
              /\ result' = res
              /\ UNCHANGED <<pendingSync, syncTasks>>
  IN
  \/ /\ stage[t] = "check"
     /\ Leave(t, IF raised THEN "raised" ELSE res[r])
     /\ Keep
  \/ /\ stage[t] = "precheck"
     /\ ok
     /\ Leave(t, "success")
     /\ Keep
  \/ /\ stage[t] = "precheck"
     /\ ~ok
     /\ EnterSync(t, r, pend, logins, res)
  \/ /\ stage[t] = "inner"
     /\ pc' = [pc EXCEPT ![t] = "write"]
     /\ future' = [future EXCEPT ![t] = "none"]
     /\ attempt' = [attempt EXCEPT ![t] = 0]
     /\ Keep
     /\ UNCHANGED <<stage, outcome, verified>>
  \/ /\ stage[t] = "post"
     /\ LeaveSync(t, IF ok THEN "success"
                     ELSE IF raised THEN "failed" ELSE "verification_failed",
                  pend, logins, res)

(* A CancelledError leaves the innermost await of t.  The handlers of the  *)
(* checks and of the beta15 pre-check let it pass; beta10 turns it into a  *)
(* CANCELLED result.                                                       *)
Cancelled(t) ==
  LET pend   == IF pc[t] = "clock" THEN WithoutCheck(t) ELSE pending
      logins == IF pc[t] = "login" THEN WithoutLogin(t) ELSE pendingLogin
  IN IF stage[t] \in {"inner", "post"}
     THEN LeaveSync(t, "cancelled", pend, logins, result)
     ELSE /\ Leave(t, "interrupted")
          /\ pending' = pend
          /\ pendingLogin' = logins
          /\ UNCHANGED <<pendingSync, syncTasks, result>>

-----------------------------------------------------------------------------
(* Calls of the two operations, from a user's call or from a fleet run.    *)
Check(t, r) ==
  /\ target' = [target EXCEPT ![t] = r]
  /\ UNCHANGED <<pending, pendingSync, syncTasks, cancelling, subscribed>>
  /\ IF CheckRefused(t, r, FALSE)
     THEN Leave(t, "refused") /\ UNCHANGED <<pendingLogin, result>>
     ELSE \E found \in PasswordFound(r) :
          IF found
          THEN OpenLogin(t, r, "check", pendingLogin, result)
          ELSE /\ Leave(t, "failed")
               /\ result' = [result EXCEPT ![r] = "failed"]
               /\ UNCHANGED pendingLogin

Sync(t, r) ==
  /\ target' = [target EXCEPT ![t] = r]
  /\ UNCHANGED <<cancelling, subscribed>>
  /\ IF CheckRefused(t, r, TRUE)
     THEN EnterSync(t, r, pending, pendingLogin, result)
     ELSE \E found \in PasswordFound(r) :
          IF found
          THEN /\ OpenLogin(t, r, "precheck", pendingLogin, result)
               /\ UNCHANGED <<pending, pendingSync, syncTasks>>
          ELSE EnterSync(t, r, pending, pendingLogin,
                         [result EXCEPT ![r] = "failed"])

CallCheck(t, r) == t \in CheckCalls /\ pc[t] = "idle" /\ subscribed /\ Check(t, r)
                   /\ UNCHANGED gateVars
CallSync(t, r)  == t \in SyncCalls /\ pc[t] = "idle" /\ subscribed /\ Sync(t, r)
                   /\ UNCHANGED gateVars

-----------------------------------------------------------------------------
(* Steps of a suspended check.  A cancelled task resumes only with the     *)
(* CancelledError.                                                         *)
Resumes(t, at) == pc[t] = at /\ t \notin cancelling

Unchanged == UNCHANGED <<target, cancelling, gateVars, subscribed>>

(* The login was accepted: a settling sleep, in which the check is         *)
(* registered nowhere.                                                     *)
LoginAccepted(t) ==
  /\ Resumes(t, "login")
  /\ future[t] = "accepted"
  /\ pc' = [pc EXCEPT ![t] = "settle"]
  /\ future' = [future EXCEPT ![t] = "none"]
  /\ pendingLogin' = WithoutLogin(t)
  /\ Unchanged
  /\ UNCHANGED <<stage, attempt, outcome, verified, pending, pendingSync,
                 syncTasks, result>>

(* Only now does the check register in _pending, over whatever is there,   *)
(* and send "clock".                                                       *)
ClockSent(t) ==
  /\ Resumes(t, "settle")
  /\ pc' = [pc EXCEPT ![t] = "clock"]
  /\ attempt' = [attempt EXCEPT ![t] = 1]
  /\ future' = [future EXCEPT ![t] = "open"]
  /\ pending' = [pending EXCEPT ![target[t]] = t]
  /\ result' = [result EXCEPT ![target[t]] = "sent"]
  /\ Unchanged
  /\ UNCHANGED <<stage, outcome, verified, pendingLogin, pendingSync, syncTasks>>

(* Rejected, or unconfirmed for the last time.                             *)
LoginFails(t) ==
  /\ Resumes(t, "login")
  /\ \/ future[t] = "rejected"
     \/ future[t] = "open" /\ attempt[t] >= LoginAttempts
  /\ CheckReturns(t, FALSE, pending, WithoutLogin(t),
                  [result EXCEPT ![target[t]] = "failed"])
  /\ Unchanged

LoginUnconfirmed(t) ==
  /\ Resumes(t, "login")
  /\ future[t] = "open"
  /\ attempt[t] < LoginAttempts
  /\ pc' = [pc EXCEPT ![t] = "loginGap"]
  /\ future' = [future EXCEPT ![t] = "none"]
  /\ pendingLogin' = WithoutLogin(t)
  /\ Unchanged
  /\ UNCHANGED <<stage, attempt, outcome, verified, pending, pendingSync,
                 syncTasks, result>>

LoginAgain(t) ==
  /\ Resumes(t, "loginGap")
  /\ pc' = [pc EXCEPT ![t] = "login"]
  /\ attempt' = [attempt EXCEPT ![t] = @ + 1]
  /\ future' = [future EXCEPT ![t] = "open"]
  /\ pendingLogin' = [pendingLogin EXCEPT ![target[t]] = t]
  /\ Unchanged
  /\ UNCHANGED <<stage, outcome, verified, pending, pendingSync, syncTasks, result>>

(* send_login itself failed at the service boundary: no handler in the     *)
(* check, so the exception leaves it with the result still calling_service.*)
LoginRaises(t) ==
  /\ Resumes(t, "login")
  /\ CheckReturns(t, TRUE, pending, WithoutLogin(t), result)
  /\ Unchanged

ClockAnswered(t) ==
  /\ Resumes(t, "clock")
  /\ future[t] = "done"
  /\ CheckReturns(t, FALSE, WithoutCheck(t), pendingLogin, result)
  /\ Unchanged

(* send_cmd failed, possibly after a reply to it was already handled.      *)
ClockSendFails(t) ==
  /\ Resumes(t, "clock")
  /\ CheckReturns(t, FALSE, WithoutCheck(t), pendingLogin,
                  [result EXCEPT ![target[t]] = "failed"])
  /\ Unchanged

ClockAgain(t) ==
  /\ Resumes(t, "clock")
  /\ future[t] = "open"
  /\ attempt[t] < ClockAttempts
  /\ attempt' = [attempt EXCEPT ![t] = @ + 1]
  /\ Unchanged
  /\ UNCHANGED <<pc, stage, future, outcome, verified, pending, pendingLogin,
                 pendingSync, syncTasks, result>>

ClockTimesOut(t) ==
  /\ Resumes(t, "clock")
  /\ future[t] = "open"
  /\ attempt[t] >= ClockAttempts
  /\ CheckReturns(t, FALSE, WithoutCheck(t), pendingLogin,
                  [result EXCEPT ![target[t]] = "timed_out"])
  /\ Unchanged

(* The write ended: the operation failed, or the post-check follows.       *)
WriteFails(t) ==
  /\ Resumes(t, "write")
  /\ \E o \in {"failed", "unauthorized", "verification_failed"} :
       LeaveSync(t, o, pending, pendingLogin, result)
  /\ Unchanged

WriteDone(t) ==
  /\ Resumes(t, "write")
  /\ IF CheckRefused(t, target[t], TRUE)
     THEN LeaveSync(t, "failed", pending, pendingLogin, result)
     ELSE \E found \in PasswordFound(target[t]) :
          IF found
          THEN /\ OpenLogin(t, target[t], "post", pendingLogin, result)
               /\ UNCHANGED <<pending, pendingSync, syncTasks>>
          ELSE LeaveSync(t, "verification_failed", pending, pendingLogin,
                         [result EXCEPT ![target[t]] = "failed"])
  /\ Unchanged

(* A mutant: a cancelled future does not wake the check.                   *)
CancelMissesFuture(t) ==
  /\ InFlight(t)
  /\ t \in cancelling
  /\ Cancelled(t)
  /\ cancelling' = cancelling \ {t}
  /\ UNCHANGED <<target, gateVars, subscribed>>

(* task.cancel(), or the future of the check cancelled by async_stop.      *)
CancelDelivered(t) ==
  /\ InFlight(t)
  /\ \/ t \in cancelling
     \/ pc[t] = "clock" /\ future[t] = "cancelled"
  /\ Cancelled(t)
  /\ cancelling' = cancelling \ {t}
  /\ UNCHANGED <<target, gateVars, subscribed>>

Progress(t) ==
  \/ LoginAccepted(t) \/ LoginFails(t) \/ LoginUnconfirmed(t) \/ LoginAgain(t)
  \/ ClockSent(t) \/ ClockAnswered(t) \/ ClockAgain(t) \/ ClockTimesOut(t)
  \/ WriteFails(t) \/ WriteDone(t) \/ CancelDelivered(t)

TaskStep(t) == Progress(t) \/ LoginRaises(t) \/ ClockSendFails(t)

-----------------------------------------------------------------------------
(* The raw handler.  A login event of a prefix nobody waits for goes to    *)
(* the only pending login if there is exactly one.                         *)
LoginReceivers(r) ==
  IF pendingLogin[r] # NoTask THEN {pendingLogin[r]}
  ELSE LET waiting == {q \in Repeaters : pendingLogin[q] # NoTask}
       IN IF Cardinality(waiting) = 1 THEN {pendingLogin[q] : q \in waiting} ELSE {}

LoginEvent(r) ==
  /\ subscribed
  /\ \E t \in LoginReceivers(r), answer \in {"accepted", "rejected"} :
       /\ future[t] = "open"
       /\ future' = [future EXCEPT ![t] = answer]
  /\ UNCHANGED <<pc, target, stage, attempt, outcome, cancelling, verified, pending,
                 pendingLogin, pendingSync, syncTasks, result, gateVars, subscribed>>

(* A contact message of r completes the registered check of r: a reading   *)
(* within or beyond the tolerance, or a malformed reply.                   *)
ClockReply(r) ==
  /\ subscribed
  /\ pending[r] # NoTask
  /\ future[pending[r]] = "open"
  /\ future' = [future EXCEPT ![pending[r]] = "done"]
  /\ \E reading \in Completed \cup {"failed"} :
       /\ result' = [result EXCEPT ![r] = reading]
       /\ verified' = IF reading = "in_sync"
                      THEN verified \cup {t \in Tasks : InFlight(t) /\ target[t] = r}
                      ELSE verified
  /\ UNCHANGED <<pc, target, stage, attempt, outcome, cancelling, pending,
                 pendingLogin, pendingSync, syncTasks, gateVars, subscribed>>

(* async_stop: also is the task set a fleet orchestrator cancels itself.   *)
StopManager(also) ==
  /\ subscribed
  /\ subscribed' = FALSE
  /\ future' = [t \in Tasks |->
                  IF future[t] = "open" /\ \E r \in Repeaters : pending[r] = t
                  THEN "cancelled" ELSE future[t]]
  /\ pending' = [r \in Repeaters |-> NoTask]
  /\ pendingSync' = [r \in Repeaters |-> NoTask]
  /\ cancelling' = cancelling \cup syncTasks \cup also
  /\ syncTasks' = {}
  /\ fleetSyncId' = NoTask
  /\ UNCHANGED <<pc, target, stage, attempt, outcome, verified, pendingLogin, result>>

-----------------------------------------------------------------------------
ManagerInit ==
  /\ pc = [t \in Tasks |-> "idle"]
  /\ target = [t \in Tasks |-> NoTask]
  /\ stage = [t \in Tasks |-> "none"]
  /\ attempt = [t \in Tasks |-> 0]
  /\ future = [t \in Tasks |-> "none"]
  /\ outcome = [t \in Tasks |-> "none"]
  /\ cancelling = {}
  /\ verified = {}
  /\ pending = [r \in Repeaters |-> NoTask]
  /\ pendingLogin = [r \in Repeaters |-> NoTask]
  /\ pendingSync = [r \in Repeaters |-> NoTask]
  /\ syncTasks = {}
  /\ result = [r \in Repeaters |-> "none"]
  /\ fleetRunId = NoTask
  /\ reserved = {}
  /\ fleetSyncId = NoTask
  /\ subscribed = TRUE

(* Single-repeater calls only: the fleet orchestrators add their actions   *)
(* in FleetClock and FleetSync.  A script or automation that is stopped    *)
(* cancels the call it awaits.                                             *)
CallerCancels(t) ==
  /\ t \in CheckCalls \cup SyncCalls
  /\ InFlight(t)
  /\ t \notin cancelling
  /\ cancelling' = cancelling \cup {t}
  /\ UNCHANGED <<pc, target, stage, attempt, future, outcome, verified, pending,
                 pendingLogin, pendingSync, syncTasks, result, gateVars, subscribed>>

CallStep ==
  \/ \E t \in CheckCalls, r \in Repeaters : CallCheck(t, r)
  \/ \E t \in SyncCalls, r \in Repeaters : CallSync(t, r)
  \/ \E t \in CheckCalls \cup SyncCalls : CallerCancels(t)

RadioStep == \E r \in Repeaters : LoginEvent(r) \/ ClockReply(r)

ManagerStop == StopManager({}) /\ UNCHANGED <<fleetRunId, reserved>>

ManagerNext ==
  \/ CallStep
  \/ \E t \in Tasks : TaskStep(t)
  \/ RadioStep
  \/ ManagerStop

(* Every await of a task is bounded: a service call, a timeout or a sleep. *)
(* Nobody has to call, to answer or to unload, and no service has to fail. *)
ManagerFairness == \A t \in Tasks : WF_mgrVars(Progress(t))

ManagerSpec == ManagerInit /\ [][ManagerNext]_mgrVars /\ ManagerFairness

-----------------------------------------------------------------------------
(* The types of all state variables of the manager.                        *)
ManagerTypeOK ==
  /\ pc \in [Tasks -> PCs]
  /\ target \in [Tasks -> Repeaters \cup {NoTask}]
  /\ stage \in [Tasks -> Stages]
  /\ attempt \in [Tasks -> Nat]
  /\ future \in [Tasks -> Futures]
  /\ outcome \in [Tasks -> Outcomes]
  /\ cancelling \subseteq Tasks
  /\ verified \subseteq Tasks
  /\ pending \in [Repeaters -> MaybeTask]
  /\ pendingLogin \in [Repeaters -> MaybeTask]
  /\ pendingSync \in [Repeaters -> MaybeTask]
  /\ syncTasks \subseteq Tasks
  /\ result \in [Repeaters -> CheckStates]
  /\ fleetRunId \in MaybeTask
  /\ reserved \subseteq Repeaters
  /\ fleetSyncId \in MaybeTask
  /\ subscribed \in BOOLEAN

(* No registration outlives its operation: an entry of _pending belongs to *)
(* a check that still waits for its clock reply, an entry of _pending_sync *)
(* to a sync past its gate.  A leaked entry would refuse the repeater to   *)
(* every later check and sync until the integration is reloaded.           *)
NoLeakedRegistration ==
  \A r \in Repeaters, t \in Tasks :
    /\ pending[r] = t => pc[t] = "clock" /\ target[t] = r
    /\ pendingSync[r] = t => Gated(t) /\ target[t] = r

(* The gate of one repeater is exclusive: until the unload, a sync that    *)
(* passed the gate is the one registered for its repeater, from the gate   *)
(* through the clock write to the end of the post-check, whatever the      *)
(* ungated pre-checks and plain checks around it do.                       *)
SyncHoldsItsRepeater ==
  subscribed => \A t \in Tasks : Gated(t) => pendingSync[target[t]] = t

(* A sync reports SUCCESS only if a reading within the tolerance arrived   *)
(* from its repeater after the check it judges by had begun: although the  *)
(* result object is shared by all checks of the repeater and read after    *)
(* the await, an older reading is never taken for the verification.        *)
SuccessIsVerified == \A t \in Tasks : outcome[t] = "success" => t \in verified

(* What the three invariants above rest on: the shape of an operation      *)
(* under way, and that every operation under way on a repeater whose       *)
(* result shows an in-tolerance reading began before that reading.         *)
OperationShape ==
  \A t \in Tasks : InFlight(t) =>
    /\ target[t] \in Repeaters
    /\ stage[t] # "none"
    /\ pc[t] = "write" => stage[t] = "inner"

ReadingIsRecent ==
  \A t \in Tasks : InFlight(t) /\ result[target[t]] = "in_sync" => t \in verified

ManagerInv ==
  /\ ManagerTypeOK
  /\ OperationShape
  /\ NoLeakedRegistration
  /\ SyncHoldsItsRepeater
  /\ ReadingIsRecent
  /\ SuccessIsVerified

(* Every call comes to an end: lost replies, rejected logins, cancelled    *)
(* futures and an unload in the middle leave no coroutine suspended.       *)
CallsReturn == \A t \in Tasks : InFlight(t) ~> pc[t] = "returned"

(* tests/test_clock.py:396 "One target is single-flight": two plain checks *)
(* of a repeater are never under way together.                             *)
SingleFlight ==
  \A t, u \in Tasks :
    t # u /\ InFlight(t) /\ InFlight(u) /\ stage[t] = "check" /\ stage[u] = "check"
      => target[t] # target[u]

(* docs/V4_1_OPERATIONAL_INTELLIGENCE.md: an attempt that fails at the     *)
(* service boundary is classified.  When nothing runs on a repeater its    *)
(* result is one of the terminal states, never calling_service or sent.    *)
EndedCheckIsClassified ==
  \A r \in Repeaters :
    (subscribed /\ cancelling = {} /\ \A t \in Tasks : target[t] = r => ~InFlight(t)
                /\ outcome[t] # "interrupted")
      => result[r] \in Terminal \cup {"none"}

(* A repeater whose authenticated pre-check reads in tolerance is left     *)
(* untouched: the second pre-check of a sync goes on to the write whatever *)
(* it reads.                                                               *)
UntouchedIfHealthy ==
  [][\A t \in Tasks : pc[t] # "write" /\ pc'[t] = "write"
                        => result'[target[t]] # "in_sync"]_mgrVars
=============================================================================
