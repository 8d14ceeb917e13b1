------------------------ MODULE ClockManager_proofs -------------------------
(***************************************************************************)
(* The invariants of the clock manager for any repeaters, any number of    *)
(* concurrent calls and any attempt limits.                                *)
(***************************************************************************)
EXTENDS ClockManager, TLAPS

LEMMA NoTaskIsNoTask == NoTask \notin Tasks /\ NoTask \notin Repeaters
BY ConstantsAssumption

TypeInv == ManagerTypeOK /\ OperationShape

(* The types of what the parts of the steps assign: the manager's maps and *)
(* the state of the tasks.                                                 *)
Maps == /\ pending' \in [Repeaters -> MaybeTask]
        /\ pendingLogin' \in [Repeaters -> MaybeTask]
        /\ pendingSync' \in [Repeaters -> MaybeTask]
        /\ syncTasks' \subseteq Tasks
        /\ result' \in [Repeaters -> CheckStates]

TaskMaps == /\ pc' \in [Tasks -> PCs]
            /\ stage' \in [Tasks -> Stages]
            /\ attempt' \in [Tasks -> Nat]
            /\ future' \in [Tasks -> Futures]
            /\ outcome' \in [Tasks -> Outcomes]
            /\ verified' \subseteq Tasks

-----------------------------------------------------------------------------
(* The parts of the steps.                                                 *)
LEMMA LeaveType ==
  ASSUME ManagerTypeOK, NEW t \in Tasks, NEW o \in Outcomes, Leave(t, o)
  PROVE  TaskMaps
BY DEF ManagerTypeOK, Leave, TaskMaps, PCs, Stages, Futures

LEMMA OpenLoginType ==
  ASSUME ManagerTypeOK, NEW t \in Tasks, NEW r \in Repeaters,
         NEW s \in Stages,
         NEW logins \in [Repeaters -> MaybeTask],
         NEW res \in [Repeaters -> CheckStates],
         OpenLogin(t, r, s, logins, res)
  PROVE  /\ TaskMaps
         /\ pendingLogin' \in [Repeaters -> MaybeTask]
         /\ result' \in [Repeaters -> CheckStates]
BY DEF ManagerTypeOK, OpenLogin, TaskMaps, PCs, Stages, Futures, Outcomes,
       CheckStates, MaybeTask

LEMMA EnterSyncType ==
  ASSUME ManagerTypeOK, NEW t \in Tasks, NEW r \in Repeaters,
         NEW pend \in [Repeaters -> MaybeTask],
         NEW logins \in [Repeaters -> MaybeTask],
         NEW res \in [Repeaters -> CheckStates],
         EnterSync(t, r, pend, logins, res)
  PROVE  TaskMaps /\ Maps
<1>1. CASE Leave(t, "failed") /\ pendingLogin' = logins /\ result' = res
           /\ UNCHANGED <<pendingSync, syncTasks>>
  BY <1>1, LeaveType DEF EnterSync, Maps, ManagerTypeOK, Outcomes, Terminal
<1>2. CASE Leave(t, "unauthorized") /\ pendingLogin' = logins /\ result' = res
           /\ UNCHANGED <<pendingSync, syncTasks>>
  BY <1>2, LeaveType DEF EnterSync, Maps, ManagerTypeOK, Outcomes
<1>3. CASE /\ pendingSync' = [pendingSync EXCEPT ![r] = t]
           /\ syncTasks' = syncTasks \cup {t}
           /\ OpenLogin(t, r, "inner", logins, res)
  <2>1. "inner" \in Stages
    BY DEF Stages
  <2>2. TaskMaps /\ pendingLogin' \in [Repeaters -> MaybeTask]
        /\ result' \in [Repeaters -> CheckStates]
    BY <1>3, <2>1, OpenLoginType
  <2> QED
    BY <1>3, <2>2 DEF EnterSync, Maps, ManagerTypeOK, MaybeTask
<1> QED
  BY <1>1, <1>2, <1>3 DEF EnterSync

LEMMA LeaveSyncType ==
  ASSUME ManagerTypeOK, NEW t \in Tasks, NEW o \in Outcomes,
         NEW pend \in [Repeaters -> MaybeTask],
         NEW logins \in [Repeaters -> MaybeTask],
         NEW res \in [Repeaters -> CheckStates],
         LeaveSync(t, o, pend, logins, res)
  PROVE  TaskMaps /\ Maps
<1>1. TaskMaps
  BY LeaveType DEF LeaveSync
<1>2. Maps
  BY DEF LeaveSync, Maps, ManagerTypeOK, MaybeTask
<1> QED
  BY <1>1, <1>2

LEMMA CheckReturnsType ==
  ASSUME TypeInv, NEW t \in Tasks, InFlight(t), NEW raised \in BOOLEAN,
         NEW pend \in [Repeaters -> MaybeTask],
         NEW logins \in [Repeaters -> MaybeTask],
         NEW res \in [Repeaters -> CheckStates],
         CheckReturns(t, raised, pend, logins, res)
  PROVE  TaskMaps /\ Maps
<1> DEFINE r == target[t]
<1> USE DEF TypeInv
<1>1. r \in Repeaters
  BY DEF OperationShape
<1>2. res[r] \in Outcomes
  BY <1>1 DEF CheckStates, Outcomes, Terminal, Completed
<1>3. CASE \E o \in Outcomes : Leave(t, o) /\ pending' = pend
           /\ pendingLogin' = logins /\ result' = res
           /\ UNCHANGED <<pendingSync, syncTasks>>
  BY <1>3, LeaveType DEF Maps, ManagerTypeOK
<1>4. CASE EnterSync(t, r, pend, logins, res)
  BY <1>1, <1>4, EnterSyncType
<1>5. CASE /\ pc' = [pc EXCEPT ![t] = "write"]
           /\ future' = [future EXCEPT ![t] = "none"]
           /\ attempt' = [attempt EXCEPT ![t] = 0]
           /\ pending' = pend /\ pendingLogin' = logins /\ result' = res
           /\ UNCHANGED <<pendingSync, syncTasks, stage, outcome, verified>>
  BY <1>5 DEF TaskMaps, Maps, ManagerTypeOK, PCs, Futures
<1>6. CASE \E o \in Outcomes : LeaveSync(t, o, pend, logins, res)
  BY <1>6, LeaveSyncType
<1>7. "raised" \in Outcomes /\ "success" \in Outcomes /\ "failed" \in Outcomes
      /\ "verification_failed" \in Outcomes
  BY DEF Outcomes, Terminal
<1> QED
  BY <1>2, <1>3, <1>4, <1>5, <1>6, <1>7 DEF CheckReturns, InTolerance

-----------------------------------------------------------------------------
(* A step of task t passes on pend and res in place of _pending and        *)
(* _results: t is no longer registered, and no reading has become good.    *)
PassedOn(t, pend, res) ==
  /\ pend \in [Repeaters -> MaybeTask]
  /\ res \in [Repeaters -> CheckStates]
  /\ \A r \in Repeaters, u \in Tasks : pend[r] = u => pending[r] = u /\ u # t
  /\ \A r \in Repeaters : res[r] = "in_sync" => result[r] = "in_sync"

(* Task t works on r from this step on.                                    *)
Works(t, r) ==
  \A u \in Tasks : target'[u] = IF u = t THEN r ELSE target[u]

Safe == /\ OperationShape
        /\ NoLeakedRegistration
        /\ SyncHoldsItsRepeater
        /\ ReadingIsRecent
        /\ SuccessIsVerified

LEMMA LeaveSafe ==
  ASSUME ManagerInv, NEW t \in Tasks, NEW r \in Repeaters, NEW o,
         NEW pend, NEW res, PassedOn(t, pend, res), Works(t, r),
         ~Gated(t), subscribed' = subscribed,
         Leave(t, o), o = "success" => t \in verified,
         pending' = pend, result' = res, pendingSync' = pendingSync
  PROVE  Safe'
<1> USE NoTaskIsNoTask DEF ManagerInv, ManagerTypeOK, PassedOn, Works, Leave,
        InFlight, Busy, Gated
<1>1. OperationShape'
  BY DEF OperationShape
<1>2. NoLeakedRegistration'
  BY DEF NoLeakedRegistration
<1>3. SyncHoldsItsRepeater'
  BY DEF SyncHoldsItsRepeater
<1>4. ReadingIsRecent'
  BY DEF ReadingIsRecent, OperationShape
<1>5. SuccessIsVerified'
  BY DEF SuccessIsVerified
<1> QED
  BY <1>1, <1>2, <1>3, <1>4, <1>5 DEF Safe

LEMMA OpenLoginSafe ==
  ASSUME ManagerInv, NEW t \in Tasks, NEW r \in Repeaters,
         NEW s \in Stages \ {"none"},
         NEW pend, NEW logins, NEW res, PassedOn(t, pend, res), Works(t, r),
         subscribed' = subscribed,
         OpenLogin(t, r, s, logins, res), pending' = pend,
         \/ ~Gated(t) /\ s \notin {"inner", "post"} /\ pendingSync' = pendingSync
         \/ ~Gated(t) /\ s = "inner" /\ pendingSync[r] = NoTask
              /\ pendingSync' = [pendingSync EXCEPT ![r] = t]
         \/ Gated(t) /\ s = "post" /\ target[t] = r /\ pendingSync' = pendingSync
  PROVE  Safe'
<1> USE NoTaskIsNoTask DEF ManagerInv, ManagerTypeOK, PassedOn, Works, OpenLogin,
        InFlight, Busy, Gated
<1>1. OperationShape'
  <2> SUFFICES ASSUME NEW u \in Tasks, InFlight(u)'
               PROVE  /\ target'[u] \in Repeaters
                      /\ stage'[u] # "none"
                      /\ pc'[u] = "write" => stage'[u] = "inner"
    BY DEF OperationShape
  <2>1. CASE u = t
    BY <2>1
  <2>2. CASE u # t
    BY <2>2 DEF OperationShape
  <2> QED
    BY <2>1, <2>2
<1>2. NoLeakedRegistration'
  BY DEF NoLeakedRegistration
<1>3. SyncHoldsItsRepeater'
  BY DEF SyncHoldsItsRepeater, OperationShape
<1>4. ReadingIsRecent'
  BY DEF ReadingIsRecent, OperationShape
<1>5. SuccessIsVerified'
  BY DEF SuccessIsVerified
<1> QED
  BY <1>1, <1>2, <1>3, <1>4, <1>5 DEF Safe

LEMMA LeaveSyncSafe ==
  ASSUME ManagerInv, NEW t \in Tasks, NEW o, NEW pend, NEW logins, NEW res,
         PassedOn(t, pend, res), Gated(t), target' = target,
         subscribed' = subscribed,
         LeaveSync(t, o, pend, logins, res), o = "success" => t \in verified
  PROVE  Safe'
<1> USE NoTaskIsNoTask DEF ManagerInv, ManagerTypeOK, PassedOn, LeaveSync, Leave,
        InFlight, Busy, Gated
<1>1. OperationShape'
  BY DEF OperationShape
<1>2. NoLeakedRegistration'
  BY DEF NoLeakedRegistration, OperationShape
<1>3. SyncHoldsItsRepeater'
  BY DEF SyncHoldsItsRepeater, OperationShape
<1>4. ReadingIsRecent'
  BY DEF ReadingIsRecent, OperationShape
<1>5. SuccessIsVerified'
  BY DEF SuccessIsVerified
<1> QED
  BY <1>1, <1>2, <1>3, <1>4, <1>5 DEF Safe

LEMMA EnterSyncSafe ==
  ASSUME ManagerInv, NEW t \in Tasks, NEW r \in Repeaters,
         NEW pend, NEW logins, NEW res, PassedOn(t, pend, res), Works(t, r),
         ~Gated(t), subscribed' = subscribed,
         EnterSync(t, r, pend, logins, res)
  PROVE  Safe'
<1>1. CASE Leave(t, "failed") /\ result' = res /\ pendingSync' = pendingSync
  BY <1>1, LeaveSafe DEF EnterSync
<1>2. CASE Leave(t, "unauthorized") /\ result' = res /\ pendingSync' = pendingSync
  BY <1>2, LeaveSafe DEF EnterSync
<1>3. CASE /\ ~SyncBlocked(t, r, pend)
           /\ pendingSync' = [pendingSync EXCEPT ![r] = t]
           /\ OpenLogin(t, r, "inner", logins, res)
  <2>1. pendingSync[r] = NoTask /\ "inner" \in Stages \ {"none"}
    BY <1>3 DEF SyncBlocked, Stages
  <2> QED
    BY <1>3, <2>1, OpenLoginSafe DEF EnterSync
<1> QED
  BY <1>1, <1>2, <1>3 DEF EnterSync

LEMMA CheckReturnsSafe ==
  ASSUME ManagerInv, NEW t \in Tasks, InFlight(t), NEW raised \in BOOLEAN,
         NEW pend, NEW logins, NEW res, PassedOn(t, pend, res),
         target' = target, subscribed' = subscribed,
         CheckReturns(t, raised, pend, logins, res)
  PROVE  Safe'
<1> DEFINE r == target[t]
<1>1. r \in Repeaters /\ Works(t, r)
  BY DEF ManagerInv, OperationShape, Works
<1>2. res[r] = "in_sync" => t \in verified
  BY <1>1 DEF ManagerInv, PassedOn, ReadingIsRecent
<1>3. res[r] # "success" /\ "raised" # "success" /\ "failed" # "success"
      /\ "verification_failed" # "success"
  BY <1>1 DEF PassedOn, CheckStates
<1>4. CASE stage[t] = "check"
  <2>1. ~Gated(t)
    BY <1>4 DEF Gated
  <2>2. PICK o : /\ Leave(t, o) /\ o # "success"
                 /\ pending' = pend /\ result' = res /\ pendingSync' = pendingSync
    BY <1>3, <1>4 DEF CheckReturns, InTolerance
  <2> QED
    BY <1>1, <2>1, <2>2, LeaveSafe
<1>5. CASE stage[t] = "precheck"
  <2>1. ~Gated(t)
    BY <1>5 DEF Gated
  <2>2. CASE EnterSync(t, r, pend, logins, res)
    BY <1>1, <2>1, <2>2, EnterSyncSafe
  <2>3. CASE /\ res[r] = "in_sync" /\ Leave(t, "success")
             /\ pending' = pend /\ result' = res /\ pendingSync' = pendingSync
    BY <1>1, <1>2, <2>1, <2>3, LeaveSafe
  <2> QED
    BY <1>5, <2>2, <2>3 DEF CheckReturns, InTolerance
<1>6. CASE stage[t] = "inner"
  <2> USE <1>6, NoTaskIsNoTask DEF ManagerInv, ManagerTypeOK, PassedOn,
          CheckReturns, InFlight, Busy, Gated
  <2>1. OperationShape'
    BY DEF OperationShape
  <2>2. NoLeakedRegistration'
    BY DEF NoLeakedRegistration
  <2>3. SyncHoldsItsRepeater'
    BY DEF SyncHoldsItsRepeater
  <2>4. ReadingIsRecent'
    BY DEF ReadingIsRecent, OperationShape
  <2>5. SuccessIsVerified'
    BY DEF SuccessIsVerified
  <2> QED
    BY <2>1, <2>2, <2>3, <2>4, <2>5 DEF Safe
<1>7. CASE stage[t] = "post"
  <2>1. Gated(t)
    BY <1>7 DEF Gated
  <2>2. PICK o : LeaveSync(t, o, pend, logins, res)
                 /\ (o = "success" => res[r] = "in_sync")
    BY <1>3, <1>7 DEF CheckReturns, InTolerance
  <2> QED
    BY <1>2, <2>1, <2>2, LeaveSyncSafe
<1> QED
  BY <1>4, <1>5, <1>6, <1>7 DEF CheckReturns, InTolerance

-----------------------------------------------------------------------------
(* The calls of the two operations, by a user or by a fleet run.           *)
LEMMA NotRegistered ==
  ASSUME ManagerInv, NEW t \in Tasks, pc[t] # "clock"
  PROVE  \A r \in Repeaters : pending[r] # t
BY DEF ManagerInv, NoLeakedRegistration

LEMMA PassedUnchanged ==
  ASSUME ManagerInv, NEW t \in Tasks, pc[t] # "clock",
         NEW r \in Repeaters, NEW bad \in {"failed", "timed_out"}
  PROVE  /\ PassedOn(t, pending, result)
         /\ PassedOn(t, pending, [result EXCEPT ![r] = bad])
BY NotRegistered DEF PassedOn, ManagerInv, ManagerTypeOK, CheckStates, Completed

LEMMA PassedRemoved ==
  ASSUME ManagerInv, NEW t \in Tasks, target[t] \in Repeaters,
         NEW bad \in {"failed", "timed_out"}
  PROVE  /\ PassedOn(t, WithoutCheck(t), result)
         /\ PassedOn(t, WithoutCheck(t), [result EXCEPT ![target[t]] = bad])
BY NoTaskIsNoTask
   DEF PassedOn, WithoutCheck, ManagerInv, ManagerTypeOK, CheckStates, Completed,
       NoLeakedRegistration, MaybeTask

LEMMA CheckInv ==
  ASSUME ManagerInv, NEW t \in Tasks, NEW r \in Repeaters, ~InFlight(t), Check(t, r)
  PROVE  TaskMaps /\ Maps /\ target' \in [Tasks -> Repeaters \cup {NoTask}] /\ Safe'
<1>1. /\ Works(t, r) /\ target' \in [Tasks -> Repeaters \cup {NoTask}]
      /\ ~Gated(t) /\ pc[t] # "clock" /\ subscribed' = subscribed
      /\ pending' = pending /\ pendingSync' = pendingSync /\ syncTasks' = syncTasks
  BY DEF Check, Works, ManagerInv, ManagerTypeOK, Gated, InFlight, Busy
<1>2. /\ PassedOn(t, pending, result)
      /\ PassedOn(t, pending, [result EXCEPT ![r] = "failed"])
  BY <1>1, PassedUnchanged
<1>3. CASE Leave(t, "refused") /\ UNCHANGED <<pendingLogin, result>>
  <2>1. TaskMaps /\ Maps
    BY <1>1, <1>3, LeaveType DEF ManagerInv, ManagerTypeOK, Maps, Outcomes
  <2>2. Safe'
    BY <1>1, <1>2, <1>3, LeaveSafe
  <2> QED
    BY <1>1, <2>1, <2>2
<1>4. CASE OpenLogin(t, r, "check", pendingLogin, result)
  <2>1. "check" \in Stages \ {"none"} /\ "check" \notin {"inner", "post"}
    BY DEF Stages
  <2>2. TaskMaps /\ Maps
    BY <1>1, <1>4, <2>1, OpenLoginType DEF ManagerInv, ManagerTypeOK, Maps
  <2>3. Safe'
    BY <1>1, <1>2, <1>4, <2>1, OpenLoginSafe
  <2> QED
    BY <1>1, <2>2, <2>3
<1>5. CASE /\ Leave(t, "failed") /\ result' = [result EXCEPT ![r] = "failed"]
           /\ UNCHANGED pendingLogin
  <2>1. TaskMaps /\ Maps
    BY <1>1, <1>5, LeaveType
       DEF ManagerInv, ManagerTypeOK, Maps, Outcomes, Terminal, CheckStates
  <2>2. Safe'
    BY <1>1, <1>2, <1>5, LeaveSafe
  <2> QED
    BY <1>1, <2>1, <2>2
<1> QED
  BY <1>3, <1>4, <1>5 DEF Check

LEMMA SyncInv ==
  ASSUME ManagerInv, NEW t \in Tasks, NEW r \in Repeaters, ~InFlight(t), Sync(t, r)
  PROVE  TaskMaps /\ Maps /\ target' \in [Tasks -> Repeaters \cup {NoTask}] /\ Safe'
<1>1. /\ Works(t, r) /\ target' \in [Tasks -> Repeaters \cup {NoTask}]
      /\ ~Gated(t) /\ pc[t] # "clock" /\ subscribed' = subscribed
  BY DEF Sync, Works, ManagerInv, ManagerTypeOK, Gated, InFlight, Busy
<1>2. /\ PassedOn(t, pending, result)
      /\ PassedOn(t, pending, [result EXCEPT ![r] = "failed"])
  BY <1>1, PassedUnchanged
<1>3. ASSUME NEW res, PassedOn(t, pending, res),
             EnterSync(t, r, pending, pendingLogin, res)
      PROVE  TaskMaps /\ Maps /\ Safe'
  <2>1. TaskMaps /\ Maps
    BY <1>3, EnterSyncType DEF ManagerInv, ManagerTypeOK, PassedOn
  <2>2. Safe'
    BY <1>1, <1>3, EnterSyncSafe
  <2> QED
    BY <2>1, <2>2
<1>4. CASE /\ OpenLogin(t, r, "precheck", pendingLogin, result)
           /\ UNCHANGED <<pending, pendingSync, syncTasks>>
  <2>1. "precheck" \in Stages \ {"none"} /\ "precheck" \notin {"inner", "post"}
    BY DEF Stages
  <2>2. TaskMaps /\ Maps
    BY <1>1, <1>4, <2>1, OpenLoginType DEF ManagerInv, ManagerTypeOK, Maps
  <2>3. Safe'
    BY <1>1, <1>2, <1>4, <2>1, OpenLoginSafe
  <2> QED
    BY <1>1, <2>2, <2>3
<1> QED
  BY <1>1, <1>2, <1>3, <1>4 DEF Sync

-----------------------------------------------------------------------------
(* The steps of a suspended task.                                          *)
Frame == /\ target' = target /\ subscribed' = subscribed /\ UNCHANGED gateVars
         /\ cancelling' \subseteq Tasks

LEMMA TypeFromMaps ==
  ASSUME ManagerTypeOK, TaskMaps, Maps, Frame
  PROVE  ManagerTypeOK'
BY DEF ManagerTypeOK, TaskMaps, Maps, Frame, gateVars

LEMMA InvFromParts ==
  ASSUME ManagerInv, TaskMaps, Maps, Frame, Safe'
  PROVE  ManagerInv'
<1>1. ManagerTypeOK'
  BY TypeFromMaps DEF ManagerInv
<1> QED
  BY <1>1 DEF ManagerInv, Safe

LEMMA CheckReturnsInv ==
  ASSUME ManagerInv, NEW t \in Tasks, InFlight(t), NEW raised \in BOOLEAN,
         NEW pend, NEW logins \in [Repeaters -> MaybeTask], NEW res,
         PassedOn(t, pend, res), Frame,
         CheckReturns(t, raised, pend, logins, res)
  PROVE  ManagerInv'
<1>1. TaskMaps /\ Maps
  BY CheckReturnsType DEF ManagerInv, TypeInv, PassedOn
<1>2. Safe'
  BY CheckReturnsSafe DEF Frame
<1> QED
  BY <1>1, <1>2, InvFromParts

LEMMA LeaveSyncInv ==
  ASSUME ManagerInv, NEW t \in Tasks, Gated(t), NEW o \in Outcomes,
         NEW pend, NEW logins \in [Repeaters -> MaybeTask], NEW res,
         PassedOn(t, pend, res), Frame, o # "success",
         LeaveSync(t, o, pend, logins, res)
  PROVE  ManagerInv'
<1>1. TaskMaps /\ Maps
  BY LeaveSyncType DEF ManagerInv, PassedOn
<1>2. Safe'
  BY LeaveSyncSafe DEF Frame
<1> QED
  BY <1>1, <1>2, InvFromParts

LEMMA MapsOfLogins ==
  ASSUME ManagerInv, NEW t \in Tasks
  PROVE  pendingLogin \in [Repeaters -> MaybeTask]
         /\ WithoutLogin(t) \in [Repeaters -> MaybeTask]
BY DEF ManagerInv, ManagerTypeOK, WithoutLogin, MaybeTask

(* Steps that keep t suspended in the same operation.                      *)
LEMMA ClockSentInv ==
  ASSUME ManagerInv, NEW t \in Tasks, ClockSent(t)
  PROVE  ManagerInv'
<1> USE NoTaskIsNoTask DEF ManagerInv, ClockSent, Resumes, Unchanged
<1>1. target[t] \in Repeaters /\ InFlight(t)
  BY DEF OperationShape, InFlight, Busy
<1>2. ManagerTypeOK'
  BY <1>1 DEF ManagerTypeOK, gateVars, PCs, Futures, MaybeTask, CheckStates
<1>3. OperationShape'
  BY <1>1 DEF OperationShape, ManagerTypeOK, InFlight, Busy
<1>4. NoLeakedRegistration'
  BY <1>1 DEF NoLeakedRegistration, ManagerTypeOK, Gated, InFlight, Busy
<1>5. SyncHoldsItsRepeater'
  BY <1>1 DEF SyncHoldsItsRepeater, ManagerTypeOK, Gated, InFlight, Busy
<1>6. ReadingIsRecent'
  BY <1>1 DEF ReadingIsRecent, OperationShape, ManagerTypeOK, InFlight, Busy
<1>7. SuccessIsVerified'
  BY DEF SuccessIsVerified
<1> QED
  BY <1>2, <1>3, <1>4, <1>5, <1>6, <1>7

LEMMA LoginStepInv ==
  ASSUME ManagerInv, NEW t \in Tasks,
         LoginAccepted(t) \/ LoginUnconfirmed(t) \/ LoginAgain(t)
  PROVE  ManagerInv'
<1> USE NoTaskIsNoTask
    DEF ManagerInv, LoginAccepted, LoginUnconfirmed, LoginAgain, Resumes, Unchanged
<1>1. target[t] \in Repeaters /\ InFlight(t) /\ pc[t] \in {"login", "loginGap", "settle"}
  BY DEF OperationShape, InFlight, Busy
<1>2. pc' \in [Tasks -> PCs] /\ InFlight(t)' /\ pc'[t] \in {"login", "loginGap", "settle"}
      /\ \A u \in Tasks : u # t => pc'[u] = pc[u]
  BY <1>1 DEF ManagerTypeOK, PCs, InFlight, Busy
<1>3. ManagerTypeOK'
  BY <1>1, <1>2 DEF ManagerTypeOK, gateVars, WithoutLogin, Futures, MaybeTask
<1>4. OperationShape'
  BY <1>1, <1>2 DEF OperationShape, InFlight, Busy
<1>5. NoLeakedRegistration'
  BY <1>1, <1>2 DEF NoLeakedRegistration, Gated, InFlight, Busy
<1>6. SyncHoldsItsRepeater'
  BY <1>1, <1>2 DEF SyncHoldsItsRepeater, Gated, InFlight, Busy
<1>7. ReadingIsRecent'
  BY <1>1, <1>2 DEF ReadingIsRecent, InFlight, Busy
<1>8. SuccessIsVerified'
  BY DEF SuccessIsVerified
<1> QED
  BY <1>3, <1>4, <1>5, <1>6, <1>7, <1>8

LEMMA ClockAgainInv ==
  ASSUME ManagerInv, NEW t \in Tasks, ClockAgain(t)
  PROVE  ManagerInv'
BY DEF ManagerInv, ClockAgain, Unchanged, gateVars, ManagerTypeOK, OperationShape,
       NoLeakedRegistration, SyncHoldsItsRepeater, ReadingIsRecent, SuccessIsVerified,
       Gated, InFlight

(* Steps with which a check gives control back.                            *)
LEMMA ReturnInv ==
  ASSUME ManagerInv, NEW t \in Tasks,
         \/ LoginFails(t) \/ LoginRaises(t) \/ ClockAnswered(t)
         \/ ClockSendFails(t) \/ ClockTimesOut(t)
  PROVE  ManagerInv'
<1> USE DEF LoginFails, LoginRaises, ClockAnswered, ClockSendFails, ClockTimesOut,
        Resumes, Unchanged
<1>1. target[t] \in Repeaters /\ InFlight(t)
  BY DEF ManagerInv, OperationShape, InFlight, Busy
<1>2. Frame
  BY DEF Frame, ManagerInv, ManagerTypeOK, gateVars
<1>3. /\ pendingLogin \in [Repeaters -> MaybeTask]
      /\ WithoutLogin(t) \in [Repeaters -> MaybeTask]
  BY MapsOfLogins
<1>4. CASE LoginFails(t) \/ LoginRaises(t)
  <2>1. PassedOn(t, pending, result)
        /\ PassedOn(t, pending, [result EXCEPT ![target[t]] = "failed"])
    BY <1>1, <1>4, PassedUnchanged
  <2>2. CASE LoginFails(t)
    <3>1. CheckReturns(t, FALSE, pending, WithoutLogin(t),
                       [result EXCEPT ![target[t]] = "failed"])
      BY <2>2
    <3> QED
      BY <1>1, <1>2, <1>3, <2>1, <3>1, CheckReturnsInv
  <2>3. CASE LoginRaises(t)
    <3>1. CheckReturns(t, TRUE, pending, WithoutLogin(t), result)
      BY <2>3
    <3> QED
      BY <1>1, <1>2, <1>3, <2>1, <3>1, CheckReturnsInv
  <2> QED
    BY <1>4, <2>2, <2>3
<1>5. CASE ClockAnswered(t) \/ ClockSendFails(t) \/ ClockTimesOut(t)
  <2>1. /\ PassedOn(t, WithoutCheck(t), result)
        /\ PassedOn(t, WithoutCheck(t), [result EXCEPT ![target[t]] = "failed"])
        /\ PassedOn(t, WithoutCheck(t), [result EXCEPT ![target[t]] = "timed_out"])
    BY <1>1, PassedRemoved
  <2>2. PICK res : /\ PassedOn(t, WithoutCheck(t), res)
                   /\ CheckReturns(t, FALSE, WithoutCheck(t), pendingLogin, res)
    BY <1>5, <2>1
  <2> QED
    BY <1>1, <1>2, <1>3, <2>2, CheckReturnsInv
<1> QED
  BY <1>4, <1>5

(* Steps that end the clock write.                                         *)
LEMMA WriteEndsInv ==
  ASSUME ManagerInv, NEW t \in Tasks, WriteFails(t) \/ WriteDone(t)
  PROVE  ManagerInv'
<1> USE DEF WriteFails, WriteDone, Resumes, Unchanged
<1>1. target[t] \in Repeaters /\ Gated(t) /\ pc[t] # "clock"
  BY DEF ManagerInv, OperationShape, InFlight, Busy, Gated
<1>2. Frame
  BY DEF Frame, ManagerInv, ManagerTypeOK, gateVars
<1>3. /\ PassedOn(t, pending, result)
      /\ PassedOn(t, pending, [result EXCEPT ![target[t]] = "failed"])
  BY <1>1, PassedUnchanged
<1>4. pendingLogin \in [Repeaters -> MaybeTask]
  BY MapsOfLogins
<1>5. CASE \E o \in {"failed", "unauthorized", "verification_failed"},
             res \in {result, [result EXCEPT ![target[t]] = "failed"]} :
               LeaveSync(t, o, pending, pendingLogin, res)
  <2>1. PICK o \in {"failed", "unauthorized", "verification_failed"},
             res \in {result, [result EXCEPT ![target[t]] = "failed"]} :
               LeaveSync(t, o, pending, pendingLogin, res)
    BY <1>5
  <2>2. o \in Outcomes /\ o # "success"
    BY DEF Outcomes, Terminal
  <2> QED
    BY <1>1, <1>2, <1>3, <1>4, <2>1, <2>2, LeaveSyncInv
<1>6. CASE /\ OpenLogin(t, target[t], "post", pendingLogin, result)
           /\ UNCHANGED <<pending, pendingSync, syncTasks>>
  <2>1. "post" \in Stages \ {"none"} /\ Works(t, target[t])
    BY <1>2 DEF Stages, Works, Frame
  <2>2. TaskMaps /\ Maps
    BY <1>1, <1>4, <1>6, <2>1, OpenLoginType DEF ManagerInv, ManagerTypeOK, Maps
  <2>3. Safe'
    BY <1>1, <1>2, <1>3, <1>6, <2>1, OpenLoginSafe DEF Frame
  <2> QED
    BY <1>2, <2>2, <2>3, InvFromParts
<1> QED
  BY <1>5, <1>6

LEMMA CancelDeliveredInv ==
  ASSUME ManagerInv, NEW t \in Tasks, CancelDelivered(t)
  PROVE  ManagerInv'
<1> USE DEF CancelDelivered
<1> DEFINE pend   == IF pc[t] = "clock" THEN WithoutCheck(t) ELSE pending
           logins == IF pc[t] = "login" THEN WithoutLogin(t) ELSE pendingLogin
<1>1. target[t] \in Repeaters /\ Works(t, target[t])
  BY DEF ManagerInv, OperationShape, Works
<1>2. Frame
  BY DEF Frame, ManagerInv, ManagerTypeOK, gateVars
<1>3. PassedOn(t, pend, result)
  BY <1>1, PassedUnchanged, PassedRemoved
<1>4. logins \in [Repeaters -> MaybeTask]
  BY MapsOfLogins
<1>5. CASE stage[t] \in {"inner", "post"}
  <2>1. "cancelled" \in Outcomes /\ "cancelled" # "success" /\ Gated(t)
    BY <1>5 DEF Outcomes, Gated
  <2>2. LeaveSync(t, "cancelled", pend, logins, result)
    BY <1>5 DEF Cancelled, WithoutCheck, WithoutLogin
  <2> QED
    BY <1>2, <1>3, <1>4, <2>1, <2>2, LeaveSyncInv
<1>6. CASE stage[t] \notin {"inner", "post"}
  <2>1. "interrupted" \in Outcomes /\ "interrupted" # "success" /\ ~Gated(t)
    BY <1>6 DEF Outcomes, Gated
  <2>2. /\ Leave(t, "interrupted") /\ pending' = pend /\ pendingLogin' = logins
        /\ UNCHANGED <<pendingSync, syncTasks, result>>
    BY <1>6 DEF Cancelled, WithoutCheck, WithoutLogin
  <2> HIDE DEF pend, logins
  <2>3. TaskMaps /\ Maps
    BY <1>3, <1>4, <2>1, <2>2, LeaveType
       DEF ManagerInv, ManagerTypeOK, PassedOn, Maps
  <2>4. Safe'
    BY <1>1, <1>2, <1>3, <2>1, <2>2, LeaveSafe DEF Frame
  <2> QED
    BY <1>2, <2>3, <2>4, InvFromParts
<1> QED
  BY <1>5, <1>6

LEMMA TaskStepInv ==
  ASSUME ManagerInv, NEW t \in Tasks, TaskStep(t)
  PROVE  ManagerInv'
BY LoginStepInv, ClockSentInv, ClockAgainInv, ReturnInv, WriteEndsInv,
   CancelDeliveredInv DEF TaskStep, Progress

-----------------------------------------------------------------------------
(* Radio events, the unload, cancelled callers and user calls.             *)
LEMMA LoginEventInv ==
  ASSUME ManagerInv, NEW r \in Repeaters, LoginEvent(r)
  PROVE  ManagerInv'
<1>1. LoginReceivers(r) \subseteq Tasks
  BY DEF LoginReceivers, ManagerInv, ManagerTypeOK, MaybeTask
<1>2. future' \in [Tasks -> Futures]
  <2>1. PICK t \in Tasks, answer \in {"accepted", "rejected"} :
          future' = [future EXCEPT ![t] = answer]
    BY <1>1 DEF LoginEvent
  <2>2. answer \in Futures
    BY DEF Futures
  <2> QED
    BY <2>1, <2>2 DEF ManagerInv, ManagerTypeOK
<1>3. ManagerTypeOK'
  BY <1>2 DEF LoginEvent, gateVars, ManagerInv, ManagerTypeOK
<1> QED
  BY <1>3 DEF LoginEvent, gateVars, ManagerInv, OperationShape, NoLeakedRegistration,
       SyncHoldsItsRepeater, ReadingIsRecent, SuccessIsVerified, Gated, InFlight

LEMMA ClockReplyInv ==
  ASSUME ManagerInv, NEW r \in Repeaters, ClockReply(r)
  PROVE  ManagerInv'
<1> USE DEF ManagerInv, ClockReply, InFlight
<1>1. ManagerTypeOK'
  BY DEF ManagerTypeOK, gateVars, Futures, CheckStates, Completed
<1>2. OperationShape' /\ NoLeakedRegistration' /\ SyncHoldsItsRepeater'
  BY DEF OperationShape, NoLeakedRegistration, SyncHoldsItsRepeater, Gated
<1>3. ReadingIsRecent'
  BY DEF ReadingIsRecent, OperationShape, ManagerTypeOK
<1>4. SuccessIsVerified'
  BY DEF SuccessIsVerified
<1> QED
  BY <1>1, <1>2, <1>3, <1>4

LEMMA StopInv ==
  ASSUME ManagerInv, NEW also \in SUBSET Tasks, StopManager(also),
         fleetRunId' \in MaybeTask, reserved' \subseteq Repeaters
  PROVE  ManagerInv'
<1> USE NoTaskIsNoTask DEF ManagerInv, StopManager, InFlight
<1>1. ManagerTypeOK'
  BY DEF ManagerTypeOK, Futures, MaybeTask
<1>2. OperationShape' /\ NoLeakedRegistration' /\ SyncHoldsItsRepeater'
  BY DEF OperationShape, NoLeakedRegistration, SyncHoldsItsRepeater, Gated
<1>3. ReadingIsRecent' /\ SuccessIsVerified'
  BY DEF ReadingIsRecent, SuccessIsVerified
<1> QED
  BY <1>1, <1>2, <1>3

LEMMA CallStepInv ==
  ASSUME ManagerInv, CallStep
  PROVE  ManagerInv'
<1>1. ASSUME NEW t \in CheckCalls, NEW r \in Repeaters, CallCheck(t, r)
      PROVE  ManagerInv'
  <2>1. t \in Tasks /\ ~InFlight(t) /\ Check(t, r) /\ UNCHANGED gateVars
    BY <1>1 DEF CallCheck, Tasks, InFlight, Busy
  <2>2. TaskMaps /\ Maps /\ target' \in [Tasks -> Repeaters \cup {NoTask}] /\ Safe'
    BY <2>1, CheckInv
  <2> QED
    BY <2>1, <2>2 DEF Check, gateVars, ManagerInv, ManagerTypeOK, TaskMaps, Maps, Safe
<1>2. ASSUME NEW t \in SyncCalls, NEW r \in Repeaters, CallSync(t, r)
      PROVE  ManagerInv'
  <2>1. t \in Tasks /\ ~InFlight(t) /\ Sync(t, r) /\ UNCHANGED gateVars
    BY <1>2 DEF CallSync, Tasks, InFlight, Busy
  <2>2. TaskMaps /\ Maps /\ target' \in [Tasks -> Repeaters \cup {NoTask}] /\ Safe'
    BY <2>1, SyncInv
  <2> QED
    BY <2>1, <2>2 DEF Sync, gateVars, ManagerInv, ManagerTypeOK, TaskMaps, Maps, Safe
<1>3. ASSUME NEW t \in CheckCalls \cup SyncCalls, CallerCancels(t)
      PROVE  ManagerInv'
  BY <1>3 DEF CallerCancels, Tasks, gateVars, ManagerInv, ManagerTypeOK, OperationShape,
       NoLeakedRegistration, SyncHoldsItsRepeater, ReadingIsRecent, SuccessIsVerified,
       Gated, InFlight
<1> QED
  BY <1>1, <1>2, <1>3 DEF CallStep

-----------------------------------------------------------------------------
LEMMA InitInv == ManagerInit => ManagerInv
BY NoTaskIsNoTask
   DEF ManagerInit, ManagerInv, ManagerTypeOK, OperationShape, NoLeakedRegistration,
       SyncHoldsItsRepeater, ReadingIsRecent, SuccessIsVerified, Gated, InFlight, Busy,
       PCs, Stages, Futures, Outcomes, CheckStates, MaybeTask

LEMMA NextInv == ManagerInv /\ [ManagerNext]_mgrVars => ManagerInv'
<1> SUFFICES ASSUME ManagerInv, [ManagerNext]_mgrVars PROVE ManagerInv'
  OBVIOUS
<1>1. CASE CallStep
  BY <1>1, CallStepInv
<1>2. ASSUME NEW t \in Tasks, TaskStep(t) PROVE ManagerInv'
  BY <1>2, TaskStepInv
<1>3. CASE RadioStep
  BY <1>3, LoginEventInv, ClockReplyInv DEF RadioStep
<1>4. CASE ManagerStop
  <2>1. {} \in SUBSET Tasks /\ fleetRunId' \in MaybeTask /\ reserved' \subseteq Repeaters
    BY <1>4 DEF ManagerStop, ManagerInv, ManagerTypeOK
  <2> QED
    BY <1>4, <2>1, StopInv DEF ManagerStop
<1>5. CASE UNCHANGED mgrVars
  BY <1>5 DEF mgrVars, taskVars, gateVars, ManagerInv, ManagerTypeOK, OperationShape,
       NoLeakedRegistration, SyncHoldsItsRepeater, ReadingIsRecent, SuccessIsVerified,
       Gated, InFlight
<1> QED
  BY <1>1, <1>2, <1>3, <1>4, <1>5 DEF ManagerNext

LEMMA Invariance == ManagerSpec => []ManagerInv
BY InitInv, NextInv, PTL DEF ManagerSpec

(* Every variable of the manager keeps its type.                           *)
THEOREM TypeCorrect == ManagerSpec => []ManagerTypeOK
BY Invariance, PTL DEF ManagerInv

(* No entry of _pending or _pending_sync outlives its operation.           *)
THEOREM RegistrationsEnd == ManagerSpec => []NoLeakedRegistration
BY Invariance, PTL DEF ManagerInv

(* Until the unload a sync past its gate is the registered one of its      *)
(* repeater, so no two of them ever work on the same repeater.             *)
THEOREM SyncIsExclusive == ManagerSpec => []SyncHoldsItsRepeater
BY Invariance, PTL DEF ManagerInv

(* SUCCESS is only reported after an in-tolerance reading that arrived     *)
(* after the judging check began.                                          *)
THEOREM SuccessNeedsReading == ManagerSpec => []SuccessIsVerified
BY Invariance, PTL DEF ManagerInv
=============================================================================
