------------------------- MODULE ClockSystem_proofs -------------------------
(***************************************************************************)
(* The fleet gates of the composed clock system, and that it implements    *)
(* ClockGate, for any fleet, any runs and calls and any attempt limits.    *)
(***************************************************************************)
EXTENDS ClockSystem, ClockManager_proofs

(* What a step of task t changes of the state the fleet runs depend on: it *)
(* stays under way, and it passes the gate of a repeater only while that   *)
(* is free and no fleet run but its own is under way.                      *)
GateFree(t, r) ==
  fleetRunId = NoTask /\ fleetSyncId \in {NoTask, t} /\ pendingSync[r] = NoTask

Moves(t) ==
  /\ subscribed' = subscribed
  /\ \A u \in Tasks : u # t => pc'[u] = pc[u] /\ stage'[u] = stage[u] /\ target'[u] = target[u]
  /\ pc'[t] \in Busy \cup {"returned"}
  /\ InFlight(t) => target'[t] = target[t]
  /\ Gated(t)' => Gated(t) \/ GateFree(t, target'[t])

(* Task t ends its run, or waits for its next repeater.                    *)
Rests(t) ==
  /\ ~InFlight(t)
  /\ pc' \in [Tasks -> PCs]
  /\ \A u \in Tasks : u # t => pc'[u] = pc[u]
  /\ pc'[t] \in {"finished", "delay"}
  /\ cancelling' \subseteq Tasks
  /\ UNCHANGED <<target, stage, attempt, future, outcome, verified, pending,
                 pendingLogin, pendingSync, syncTasks, result, subscribed>>

RunInv ==
  /\ FleetClockTypeOK
  /\ FleetSyncTypeOK
  /\ CheckRunShape
  /\ SyncRunShape
  /\ StopsShape
  /\ GatesFollowRuns
  /\ GateHolders

(* Fleet checks, fleet syncs and single calls are different tasks.         *)
LEMMA Kinds ==
  /\ FleetChecks \subseteq Tasks /\ FleetSyncs \subseteq Tasks
  /\ CheckCalls \cup SyncCalls \subseteq Tasks
  /\ FleetChecks \cap FleetSyncs = {}
  /\ (FleetChecks \cup FleetSyncs) \cap (CheckCalls \cup SyncCalls) = {}
  /\ NoTask \notin Tasks /\ NoTask \notin Repeaters
BY ConstantsAssumption DEF Tasks

-----------------------------------------------------------------------------
(* The repeaters of a run's order.                                         *)
LEMMA FleetOrder ==
  /\ Size \in Nat
  /\ \A i \in 1..Size : Managed[i] \in Repeaters
  /\ \A r \in Repeaters : \E i \in 1..Size : Managed[i] = r
BY ConstantsAssumption DEF Size

LEMMA ModRange ==
  ASSUME NEW a \in Nat, NEW n \in Nat, n > 0
  PROVE  a % n \in 0..(n - 1)
OBVIOUS

LEMMA ModWraps ==
  ASSUME NEW n \in Nat, NEW a \in 0..(n - 1)
  PROVE  a % n = a /\ (a + n) % n = a
OBVIOUS

LEMMA OrderedRepeater ==
  ASSUME NEW start \in Nat, NEW i \in Nat \ {0}, Size > 0
  PROVE  Ordered(start, i) \in Repeaters
<1>1. i - 1 + start \in Nat
  OBVIOUS
<1>2. ((i - 1 + start) % Size) \in 0..(Size - 1)
  BY <1>1, FleetOrder, ModRange
<1>3. ((i - 1 + start) % Size) + 1 \in 1..Size
  BY <1>2, FleetOrder
<1> QED
  BY <1>3, FleetOrder DEF Ordered

LEMMA OrderedCovers ==
  ASSUME NEW start \in Nat, start < Size, NEW r \in Repeaters
  PROVE  \E i \in 1..Size : Ordered(start, i) = r
<1>1. PICK j \in 1..Size : Managed[j] = r
  BY FleetOrder
<1>2. CASE j > start
  <2>1. j - start \in 1..Size /\ (j - start) - 1 + start = j - 1 /\ j - 1 \in 0..(Size - 1)
    BY <1>2, FleetOrder
  <2>2. (j - 1) % Size = j - 1
    BY <2>1, FleetOrder, ModWraps
  <2>3. Ordered(start, j - start) = Managed[j]
    BY <2>1, <2>2, FleetOrder DEF Ordered
  <2> QED
    BY <1>1, <2>1, <2>3
<1>3. CASE j <= start
  <2>1. /\ j - start + Size \in 1..Size
        /\ (j - start + Size) - 1 + start = (j - 1) + Size
        /\ j - 1 \in 0..(Size - 1)
    BY <1>3, FleetOrder
  <2>2. ((j - 1) + Size) % Size = j - 1
    BY <2>1, FleetOrder, ModWraps
  <2>3. Ordered(start, j - start + Size) = Managed[j]
    BY <2>1, <2>2, FleetOrder DEF Ordered
  <2> QED
    BY <1>1, <2>1, <2>3
<1> QED
  BY <1>2, <1>3, FleetOrder

-----------------------------------------------------------------------------
(* The parts of the manager's steps as moves.                              *)
LEMMA LeaveMoves ==
  ASSUME ManagerTypeOK, NEW t \in Tasks, NEW o, Leave(t, o),
         subscribed' = subscribed, InFlight(t) => target' = target,
         \A u \in Tasks : u # t => target'[u] = target[u]
  PROVE  Moves(t)
BY DEF ManagerTypeOK, Leave, Moves, Gated, InFlight, Busy

LEMMA OpenLoginMoves ==
  ASSUME ManagerTypeOK, NEW t \in Tasks, NEW r, NEW s, NEW logins, NEW res,
         OpenLogin(t, r, s, logins, res),
         subscribed' = subscribed, InFlight(t) => target' = target,
         \A u \in Tasks : u # t => target'[u] = target[u],
         s \in {"inner", "post"} => Gated(t) \/ GateFree(t, target'[t])
  PROVE  Moves(t)
BY DEF ManagerTypeOK, OpenLogin, Moves, Gated, InFlight, Busy

LEMMA EnterSyncMoves ==
  ASSUME ManagerTypeOK, NEW t \in Tasks, NEW r, NEW pend, NEW logins, NEW res,
         EnterSync(t, r, pend, logins, res), target'[t] = r,
         subscribed' = subscribed, InFlight(t) => target' = target,
         \A u \in Tasks : u # t => target'[u] = target[u]
  PROVE  Moves(t)
<1>1. CASE \E o : Leave(t, o)
  BY <1>1, LeaveMoves
<1>2. CASE ~SyncBlocked(t, r, pend) /\ OpenLogin(t, r, "inner", logins, res)
  <2>1. GateFree(t, target'[t])
    BY <1>2 DEF SyncBlocked, GateFree
  <2> QED
    BY <1>2, <2>1, OpenLoginMoves
<1> QED
  BY <1>1, <1>2 DEF EnterSync

LEMMA CheckReturnsMoves ==
  ASSUME ManagerTypeOK, NEW t \in Tasks, InFlight(t), NEW raised, NEW pend,
         NEW logins, NEW res, CheckReturns(t, raised, pend, logins, res),
         subscribed' = subscribed, target' = target
  PROVE  Moves(t)
<1>1. CASE \E o : Leave(t, o)
  BY <1>1, LeaveMoves
<1>2. CASE EnterSync(t, target[t], pend, logins, res)
  BY <1>2, EnterSyncMoves
<1>3. CASE pc' = [pc EXCEPT ![t] = "write"] /\ UNCHANGED stage
  BY <1>3 DEF ManagerTypeOK, Moves, Gated, InFlight, Busy
<1> QED
  BY <1>1, <1>2, <1>3 DEF CheckReturns, LeaveSync

(* A call of either operation, by a user or a fleet run.                   *)
LEMMA CheckMoves ==
  ASSUME ManagerTypeOK, NEW t \in Tasks, ~InFlight(t), NEW r, Check(t, r)
  PROVE  Moves(t) /\ target'[t] = r /\ ~Gated(t)'
<1>1. /\ subscribed' = subscribed /\ target'[t] = r
      /\ \A u \in Tasks : u # t => target'[u] = target[u]
  BY DEF Check, ManagerTypeOK
<1>2. CASE \E o : Leave(t, o)
  BY <1>1, <1>2, LeaveMoves DEF Leave, ManagerTypeOK, Gated, InFlight, Busy
<1>3. CASE OpenLogin(t, r, "check", pendingLogin, result)
  BY <1>1, <1>3, OpenLoginMoves DEF OpenLogin, ManagerTypeOK, Gated
<1> QED
  BY <1>2, <1>3 DEF Check

LEMMA SyncMoves ==
  ASSUME ManagerTypeOK, NEW t \in Tasks, ~InFlight(t), NEW r, Sync(t, r)
  PROVE  Moves(t) /\ target'[t] = r
<1>1. /\ subscribed' = subscribed /\ target'[t] = r
      /\ \A u \in Tasks : u # t => target'[u] = target[u]
  BY DEF Sync, ManagerTypeOK
<1>2. CASE \E res : EnterSync(t, r, pending, pendingLogin, res)
  BY <1>1, <1>2, EnterSyncMoves
<1>3. CASE OpenLogin(t, r, "precheck", pendingLogin, result)
  BY <1>1, <1>3, OpenLoginMoves
<1> QED
  BY <1>1, <1>2, <1>3 DEF Sync

LEMMA TaskStepMoves ==
  ASSUME ManagerInv, NEW t \in Tasks, TaskStep(t)
  PROVE  Moves(t) /\ InFlight(t) /\ target' = target /\ UNCHANGED gateVars
<1> USE DEF Resumes, Unchanged, InFlight
<1>1. ManagerTypeOK
  BY DEF ManagerInv
<1>2. CASE LoginAccepted(t) \/ LoginUnconfirmed(t) \/ LoginAgain(t) \/ ClockSent(t)
           \/ ClockAgain(t)
  BY <1>1, <1>2 DEF LoginAccepted, LoginUnconfirmed, LoginAgain, ClockSent, ClockAgain,
       ManagerTypeOK, Moves, Gated, Busy
<1>3. CASE LoginFails(t) \/ LoginRaises(t) \/ ClockAnswered(t) \/ ClockSendFails(t)
           \/ ClockTimesOut(t)
  BY <1>1, <1>3, CheckReturnsMoves
     DEF LoginFails, LoginRaises, ClockAnswered, ClockSendFails, ClockTimesOut, Busy
<1>4. CASE WriteFails(t)
  BY <1>1, <1>4, LeaveMoves DEF WriteFails, LeaveSync, Busy
<1>5. CASE WriteDone(t)
  <2>1. Gated(t)
    BY <1>5 DEF WriteDone, ManagerInv, OperationShape, Gated, Busy
  <2> QED
    BY <1>1, <1>5, <2>1, LeaveMoves, OpenLoginMoves DEF WriteDone, LeaveSync, Busy
<1>6. CASE CancelDelivered(t)
  BY <1>1, <1>6, LeaveMoves DEF CancelDelivered, Cancelled, LeaveSync
<1> QED
  BY <1>2, <1>3, <1>4, <1>5, <1>6 DEF TaskStep, Progress

-----------------------------------------------------------------------------
(* Steps of the manager leave the invariant of the runs alone.             *)
OrchestratorsIdle == UNCHANGED <<gateVars, fleetClockVars, fleetSyncVars>>

(* The shapes of the runs as far as they depend on what tasks do.          *)
LEMMA CheckShapeKept ==
  ASSUME CheckRunShape, UNCHANGED fleetClockVars,
         \A f \in FleetChecks : /\ UnderWay(f)' <=> UnderWay(f)
                                /\ pc'[f] = "idle" => pc[f] = "idle"
                                /\ target'[f] = target[f]
  PROVE  CheckRunShape'
<1>1. FleetClockActive' <=> FleetClockActive
  BY DEF FleetClockActive, fleetClockVars
<1>2. ASSUME NEW f \in FleetChecks
      PROVE  /\ UnderWay(f)' <=> currentRun' = f /\ FleetClockActive'
             /\ UnderWay(f)' => /\ Len(checked'[f]) < Size
                                /\ target'[f] = Ordered(runStart'[f], Len(checked'[f]) + 1)
             /\ pc'[f] = "idle" => checked'[f] = <<>>
             /\ Size > 0 => runStart'[f] < Size
             /\ \A i \in 1..Len(checked'[f]) : checked'[f][i] = Ordered(runStart'[f], i)
             /\ runState'[f] \in FullRunStates => Len(checked'[f]) = Size
  BY <1>1 DEF CheckRunShape, fleetClockVars
<1> QED
  BY <1>2 DEF CheckRunShape, Ordered

LEMMA MovesKeepRuns ==
  ASSUME SysInv, NEW t \in Tasks, Moves(t), OrchestratorsIdle,
         InFlight(t) \/ t \in CheckCalls \cup SyncCalls
  PROVE  RunInv'
<1> USE Kinds DEF SysInv, OrchestratorsIdle, gateVars, fleetClockVars, fleetSyncVars
<1>1. \A u \in FleetChecks \cup FleetSyncs :
        /\ target'[u] = target[u]
        /\ UnderWay(u)' <=> UnderWay(u)
        /\ pc'[u] = "idle" <=> pc[u] = "idle"
        /\ pc'[u] = "delay" => pc[u] = "delay"
  BY DEF Moves, UnderWay, InFlight, Busy
<1>2. FleetClockTypeOK' /\ FleetSyncTypeOK'
  BY DEF FleetClockTypeOK, FleetSyncTypeOK
<1>3. CheckRunShape'
  BY <1>1, CheckShapeKept
<1>4. SyncRunShape'
  BY <1>1 DEF SyncRunShape, FleetSyncActive
<1>5. StopsShape'
  BY <1>1 DEF StopsShape, Moves, FleetClockTypeOK
<1>6. GatesFollowRuns'
  BY DEF GatesFollowRuns, FleetClockActive, FleetSyncActive, Moves
<1>7. GateHolders'
  <2>1. \A u \in Tasks : Gated(u)' => Gated(u) \/ (u = t /\ GateFree(t, target'[t]))
    BY DEF Moves, Gated, InFlight
  <2> QED
    BY <2>1 DEF GateHolders, GateFree, Moves
<1> QED
  BY <1>2, <1>3, <1>4, <1>5, <1>6, <1>7 DEF RunInv

LEMMA QuietKeepsRuns ==
  ASSUME SysInv, OrchestratorsIdle, UNCHANGED <<pc, target, stage, subscribed>>
  PROVE  RunInv'
BY DEF SysInv, RunInv, OrchestratorsIdle, gateVars, fleetClockVars, fleetSyncVars,
       FleetClockTypeOK, FleetSyncTypeOK, CheckRunShape, SyncRunShape, StopsShape,
       GatesFollowRuns, GateHolders, UnderWay, FleetClockActive, FleetSyncActive,
       Ordered, Gated, InFlight

(* The steps of tasks, of users and of the radio.                          *)
LEMMA ManagerStepKeeps ==
  ASSUME SysInv, \/ CallStep
                 \/ \E t \in Tasks : TaskStep(t)
                 \/ RadioStep,
         UNCHANGED <<fleetClockVars, fleetSyncVars>>
  PROVE  SysInv'
<1>1. ManagerInv /\ ManagerTypeOK
  BY DEF SysInv, ManagerInv
<1>2. ManagerInv'
  BY <1>1, CallStepInv, TaskStepInv, LoginEventInv, ClockReplyInv DEF RadioStep
<1>3. ASSUME NEW t \in Tasks, TaskStep(t) PROVE RunInv'
  BY <1>1, <1>3, TaskStepMoves, MovesKeepRuns DEF OrchestratorsIdle
<1>4. ASSUME CallStep PROVE RunInv'
  <2>1. ASSUME NEW t \in CheckCalls, NEW r \in Repeaters, CallCheck(t, r) PROVE RunInv'
    <3>1. t \in Tasks /\ ~InFlight(t) /\ Check(t, r) /\ UNCHANGED gateVars
      BY <2>1, Kinds DEF CallCheck, InFlight, Busy
    <3> QED
      BY <1>1, <3>1, CheckMoves, MovesKeepRuns DEF OrchestratorsIdle
  <2>2. ASSUME NEW t \in SyncCalls, NEW r \in Repeaters, CallSync(t, r) PROVE RunInv'
    <3>1. t \in Tasks /\ ~InFlight(t) /\ Sync(t, r) /\ UNCHANGED gateVars
      BY <2>2, Kinds DEF CallSync, InFlight, Busy
    <3> QED
      BY <1>1, <3>1, SyncMoves, MovesKeepRuns DEF OrchestratorsIdle
  <2>3. ASSUME NEW t, CallerCancels(t) PROVE RunInv'
    BY <2>3, QuietKeepsRuns DEF CallerCancels, OrchestratorsIdle
  <2> QED
    BY <1>4, <2>1, <2>2, <2>3 DEF CallStep
<1>5. ASSUME RadioStep PROVE RunInv'
  BY <1>5, QuietKeepsRuns DEF RadioStep, LoginEvent, ClockReply, OrchestratorsIdle
<1> QED
  BY <1>2, <1>3, <1>4, <1>5 DEF SysInv, RunInv

-----------------------------------------------------------------------------
(* What the steps of the runs do to the manager.                           *)
LEMMA CallKeepsManager ==
  ASSUME ManagerInv, TaskMaps, Maps, Safe',
         target' \in [Tasks -> Repeaters \cup {NoTask}],
         UNCHANGED <<cancelling, subscribed>>,
         fleetRunId' \in MaybeTask, reserved' \subseteq Repeaters,
         fleetSyncId' \in MaybeTask
  PROVE  ManagerInv'
BY DEF ManagerInv, ManagerTypeOK, TaskMaps, Maps, Safe

LEMMA RestsKeepsManager ==
  ASSUME ManagerInv, NEW t \in Tasks, Rests(t),
         fleetRunId' \in MaybeTask, reserved' \subseteq Repeaters,
         fleetSyncId' \in MaybeTask
  PROVE  ManagerInv'
<1> USE DEF ManagerInv, Rests
<1>1. \A u \in Tasks : InFlight(u)' <=> InFlight(u)
  BY DEF InFlight, Busy
<1>2. ManagerTypeOK' /\ OperationShape'
  BY <1>1 DEF ManagerTypeOK, OperationShape, InFlight, Busy
<1>3. NoLeakedRegistration'
  BY <1>1 DEF NoLeakedRegistration, Gated, InFlight, Busy
<1>4. SyncHoldsItsRepeater' /\ ReadingIsRecent' /\ SuccessIsVerified'
  BY <1>1 DEF SyncHoldsItsRepeater, ReadingIsRecent, SuccessIsVerified, Gated
<1> QED
  BY <1>2, <1>3, <1>4

(* While no registration of a sync is left, no sync is past its gate.      *)
LEMMA NothingGated ==
  ASSUME ManagerInv, subscribed, \A r \in Repeaters : pendingSync[r] = NoTask
  PROVE  \A t \in Tasks : ~Gated(t)
BY Kinds DEF ManagerInv, SyncHoldsItsRepeater, OperationShape, Gated

-----------------------------------------------------------------------------
(* The steps of a fleet check.                                             *)
LEMMA FinalizeRests ==
  ASSUME ManagerInv, NEW f \in FleetChecks, NEW state, ~InFlight(f),
         cancelling' = cancelling, Finalize(f, state)
  PROVE  Rests(f) /\ pc'[f] = "finished" /\ ManagerInv'
<1>1. Rests(f) /\ pc'[f] = "finished"
  BY Kinds DEF Finalize, Rests, ManagerInv, ManagerTypeOK, PCs
<1>2. fleetRunId' \in MaybeTask /\ reserved' \subseteq Repeaters /\ fleetSyncId' \in MaybeTask
  BY DEF Finalize, ReleaseTargets, ManagerInv, ManagerTypeOK, MaybeTask
<1> QED
  BY <1>1, <1>2, Kinds, RestsKeepsManager

LEMMA CheckKeepsManager ==
  ASSUME ManagerInv, NEW t \in Tasks, NEW r \in Repeaters, ~InFlight(t), Check(t, r),
         fleetRunId' \in MaybeTask, reserved' \subseteq Repeaters,
         fleetSyncId' \in MaybeTask
  PROVE  ManagerInv'
<1>1. TaskMaps /\ Maps /\ target' \in [Tasks -> Repeaters \cup {NoTask}] /\ Safe'
  BY CheckInv
<1>2. UNCHANGED <<cancelling, subscribed>>
  BY DEF Check
<1> QED
  BY <1>1, <1>2, CallKeepsManager

LEMMA SyncKeepsManager ==
  ASSUME ManagerInv, NEW t \in Tasks, NEW r \in Repeaters, ~InFlight(t), Sync(t, r),
         fleetRunId' \in MaybeTask, reserved' \subseteq Repeaters,
         fleetSyncId' \in MaybeTask
  PROVE  ManagerInv'
<1>1. TaskMaps /\ Maps /\ target' \in [Tasks -> Repeaters \cup {NoTask}] /\ Safe'
  BY SyncInv
<1>2. UNCHANGED <<cancelling, subscribed>>
  BY DEF Sync
<1> QED
  BY <1>1, <1>2, CallKeepsManager

LEMMA StartRunFacts ==
  ASSUME SysInv, NEW f \in FleetChecks, StartRun(f)
  PROVE  /\ ManagerInv' /\ FleetClockTypeOK'
         /\ subscribed /\ pc[f] = "idle" /\ \A t \in Tasks : ~Gated(t)
         /\ \/ Size = 0 /\ Rests(f) /\ pc'[f] = "finished" /\ Finalize(f, "failed")
            \/ /\ Size > 0 /\ Moves(f) /\ ~Gated(f)'
               /\ target'[f] = Ordered(runStart'[f], 1) /\ runStart'[f] < Size
               /\ fleetRunId' = f /\ reserved' = Repeaters /\ fleetSyncId' = fleetSyncId
               /\ runState' = [runState EXCEPT ![f] = "running"]
<1> DEFINE start == IF Rotating /\ Size > 0 THEN rotationIndex % Size ELSE 0
<1>1. ManagerInv /\ ManagerTypeOK /\ FleetClockTypeOK /\ f \in Tasks
  BY Kinds DEF SysInv, ManagerInv
<1>2. subscribed /\ pc[f] = "idle" /\ ~InFlight(f)
  BY DEF StartRun, InFlight, Busy
<1>3. \A t \in Tasks : ~Gated(t)
  BY <1>1, <1>2, NothingGated DEF StartRun, SyncInProgress
<1>4. start \in Nat /\ (Size > 0 => start < Size)
  BY <1>1, FleetOrder, ModRange DEF FleetClockTypeOK
<1> HIDE DEF start
<1>5. /\ currentRun' = f /\ runStart' = [runStart EXCEPT ![f] = start]
      /\ cancelEvent' = FALSE /\ UNCHANGED <<checked, troubleCount, cancelRequested>>
  BY DEF StartRun, start
<1>6. CASE Size = 0
  <2>1. Finalize(f, "failed") /\ cancelling' = cancelling
    BY <1>6 DEF StartRun, Finalize
  <2>2. FleetClockTypeOK'
    BY <1>1, <1>4, <1>5, <1>6, <2>1
       DEF Finalize, FleetClockTypeOK, RunStates, FullRunStates
  <2> QED
    BY <1>1, <1>2, <1>3, <1>6, <2>1, <2>2, FinalizeRests
<1>7. CASE Size # 0
  <2>1. /\ Check(f, Ordered(start, 1)) /\ fleetRunId' = f /\ reserved' = Repeaters
        /\ runState' = [runState EXCEPT ![f] = "running"]
        /\ fleetSyncId' = fleetSyncId /\ rotationIndex' = rotationIndex
    BY <1>7 DEF StartRun, start
  <2>2. Ordered(start, 1) \in Repeaters
    BY <1>4, <1>7, FleetOrder, OrderedRepeater
  <2>3. ManagerInv'
    BY <1>1, <1>2, <2>1, <2>2, CheckKeepsManager DEF ManagerTypeOK, MaybeTask
  <2>4. FleetClockTypeOK'
    BY <1>1, <1>4, <1>5, <2>1 DEF FleetClockTypeOK, RunStates, ActiveRunStates
  <2>5. Moves(f) /\ target'[f] = Ordered(start, 1) /\ ~Gated(f)'
    BY <1>1, <1>2, <2>1, CheckMoves
  <2> QED
    BY <1>1, <1>2, <1>3, <1>4, <1>5, <1>7, <2>1, <2>3, <2>4, <2>5, FleetOrder
       DEF FleetClockTypeOK
<1> QED
  BY <1>6, <1>7

LEMMA StartRunKeeps ==
  ASSUME SysInv, NEW f \in FleetChecks, StartRun(f), UNCHANGED fleetSyncVars
  PROVE  SysInv'
<1> USE Kinds DEF fleetSyncVars
<1>1. /\ FleetClockTypeOK /\ FleetSyncTypeOK /\ CheckRunShape /\ SyncRunShape
      /\ StopsShape /\ GatesFollowRuns /\ GateHolders
  BY DEF SysInv
<1>2. /\ currentRun' = f /\ checked' = checked
      /\ runStart' = [runStart EXCEPT ![f] = runStart'[f]]
      /\ UNCHANGED cancelRequested
  BY <1>1 DEF StartRun, FleetClockTypeOK
<1>3. Size = 0 => /\ runState' = [runState EXCEPT ![f] = "failed"]
                  /\ pc'[f] = "finished"
                  /\ Finalize(f, "failed")
  BY StartRunFacts, FleetOrder DEF Finalize
<1>4. Size > 0 => /\ runState' = [runState EXCEPT ![f] = "running"]
                  /\ pc'[f] \in Busy \cup {"returned"}
                  /\ target'[f] = Ordered(runStart'[f], 1) /\ runStart'[f] < Size
                  /\ fleetRunId' = f /\ reserved' = Repeaters
  BY StartRunFacts, FleetOrder DEF Moves
<1>5. /\ ManagerInv' /\ FleetClockTypeOK' /\ FleetSyncTypeOK' /\ subscribed' = subscribed
      /\ subscribed /\ pc[f] = "idle" /\ checked[f] = <<>>
  BY <1>1, StartRunFacts DEF FleetSyncTypeOK, CheckRunShape, Rests, Moves
<1>6. /\ \A u \in Tasks : u # f => pc'[u] = pc[u]
      /\ pc'[f] # "idle" /\ pc'[f] # "delay"
      /\ \A s \in FleetSyncs : target'[s] = target[s]
  BY StartRunFacts DEF Rests, Moves, Busy
<1>7. \A t \in Tasks : ~Gated(t)'
  BY StartRunFacts DEF Rests, Moves, Gated, InFlight, Busy
<1>8. CheckRunShape'
  <2>1. \A g \in FleetChecks : g # f => ~UnderWay(g) /\ ~UnderWay(g)'
    BY <1>1, <1>6 DEF CheckRunShape, StartRun, UnderWay
  <2>2. ASSUME NEW g \in FleetChecks, g # f
        PROVE  /\ runStart'[g] = runStart[g] /\ checked'[g] = checked[g]
               /\ runState'[g] = runState[g]
               /\ ~UnderWay(g)' /\ pc'[g] = pc[g]
    BY <1>1, <1>2, <1>3, <1>4, <1>6, <2>1, <2>2, FleetOrder DEF FleetClockTypeOK
  <2>3. /\ UnderWay(f)' <=> Size > 0
        /\ FleetClockActive' <=> Size > 0
        /\ runState'[f] \notin FullRunStates
    <3>1. Size = 0 \/ Size > 0
      BY FleetOrder
    <3>2. CASE Size = 0
      BY <1>1, <1>2, <1>3, <1>5, <3>2
         DEF UnderWay, FleetClockActive, FleetClockTypeOK, ActiveRunStates, FullRunStates
    <3>3. CASE Size > 0
      BY <1>1, <1>2, <1>4, <1>5, <3>3
         DEF UnderWay, FleetClockActive, FleetClockTypeOK, ActiveRunStates, FullRunStates,
             Busy
    <3> QED
      BY <3>1, <3>2, <3>3
  <2>4. Len(checked[f]) = 0 /\ 0 + 1 = 1
    BY <1>5
  <2> QED
    BY <1>1, <1>5, <1>6, <1>2, <1>4, <2>2, <2>3, <2>4
       DEF CheckRunShape, Ordered
<1>9. SyncRunShape'
  BY <1>1, <1>6 DEF SyncRunShape, FleetSyncActive, UnderWay
<1>10. StopsShape'
  BY <1>1, <1>5, <1>6, <1>2 DEF StopsShape, FleetClockTypeOK
<1>11. GatesFollowRuns' /\ GateHolders'
  <2>1. fleetRunId = NoTask /\ fleetSyncId = NoTask /\ currentRun' = f
    BY DEF StartRun, SyncInProgress
  <2>2. fleetSyncId' = NoTask
    BY <2>1, StartRunFacts DEF Finalize
  <2>3. /\ Size = 0 => fleetRunId' = NoTask /\ reserved' = {} /\ ~FleetClockActive'
        /\ Size > 0 => fleetRunId' = f /\ reserved' = Repeaters /\ FleetClockActive'
    BY <1>1, <1>5, <1>2, <1>3, <1>4, <2>1
       DEF Finalize, ReleaseTargets, GatesFollowRuns, FleetClockTypeOK,
           FleetClockActive, ActiveRunStates
  <2>4. \A s \in FleetSyncs : ~(syncRun = s /\ FleetSyncActive)
    BY <1>1, <1>5, <2>1 DEF GatesFollowRuns
  <2> QED
    BY <1>5, <1>7, <1>2, <2>1, <2>2, <2>3, <2>4, FleetOrder
       DEF GatesFollowRuns, GateHolders, FleetSyncActive
<1> QED
  BY <1>5, <1>8, <1>9, <1>10, <1>11 DEF SysInv

LEMMA CancelRunKeeps ==
  ASSUME SysInv, CancelRun, UNCHANGED fleetSyncVars
  PROVE  SysInv'
<1> USE Kinds DEF fleetSyncVars, mgrVars, taskVars, gateVars
<1>1. /\ ManagerInv /\ FleetClockTypeOK /\ FleetSyncTypeOK /\ CheckRunShape
      /\ SyncRunShape /\ StopsShape /\ GatesFollowRuns /\ GateHolders
  BY DEF SysInv
<1>2. /\ UNCHANGED <<mgrVars, currentRun, runStart, checked, troubleCount, rotationIndex>>
      /\ currentRun \in FleetChecks /\ FleetClockActive
      /\ runState' = [runState EXCEPT ![currentRun] = "cancelling"]
      /\ cancelRequested' = cancelRequested \cup {currentRun} /\ cancelEvent' = TRUE
  BY <1>1 DEF CancelRun, FleetClockActive, FleetClockTypeOK
<1>3. ManagerInv'
  BY <1>1, <1>2 DEF ManagerInv, ManagerTypeOK, OperationShape, NoLeakedRegistration,
       SyncHoldsItsRepeater, ReadingIsRecent, SuccessIsVerified, Gated, InFlight
<1>4. FleetClockTypeOK' /\ FleetSyncTypeOK'
  BY <1>1, <1>2 DEF FleetClockTypeOK, FleetSyncTypeOK, RunStates, ActiveRunStates
<1>5. /\ FleetClockActive' /\ \A g \in FleetChecks :
           (runState'[g] \in FullRunStates => runState[g] \in FullRunStates)
  BY <1>1, <1>2 DEF FleetClockActive, FleetClockTypeOK, ActiveRunStates, FullRunStates
<1>6. CheckRunShape'
  BY <1>1, <1>2, <1>5 DEF CheckRunShape, UnderWay, Ordered
<1>7. SyncRunShape'
  BY <1>1, <1>2 DEF SyncRunShape, UnderWay, FleetSyncActive
<1>8. StopsShape'
  BY <1>1, <1>2 DEF StopsShape, CheckRunShape, UnderWay, FleetClockTypeOK
<1>9. GatesFollowRuns' /\ GateHolders'
  BY <1>1, <1>2, <1>5
     DEF GatesFollowRuns, GateHolders, FleetSyncActive, Gated, InFlight
<1> QED
  BY <1>3, <1>4, <1>6, <1>7, <1>8, <1>9 DEF SysInv

(* The check of a run has returned: the run is the current one, and the    *)
(* outcome continues the order of the run.                                 *)
LEMMA CheckedGrows ==
  ASSUME SysInv, NEW f \in FleetChecks, pc[f] = "returned"
  PROVE  LET done == Append(checked[f], target[f]) IN
         /\ currentRun = f /\ FleetClockActive /\ ~InFlight(f)
         /\ Size > 0 /\ runStart[f] \in Nat
         /\ Len(checked[f]) \in Nat /\ Len(checked[f]) < Size
         /\ done \in Seq(Repeaters) /\ Len(done) = Len(checked[f]) + 1
         /\ \A i \in 1..Len(done) : done[i] = Ordered(runStart[f], i)
<1> DEFINE done == Append(checked[f], target[f])
<1>1. FleetClockTypeOK /\ CheckRunShape
  BY DEF SysInv
<1>2. UnderWay(f) /\ ~InFlight(f)
  BY DEF UnderWay, InFlight, Busy
<1>3. /\ currentRun = f /\ FleetClockActive
      /\ checked[f] \in Seq(Repeaters) /\ runStart[f] \in Nat
      /\ Len(checked[f]) < Size
      /\ target[f] = Ordered(runStart[f], Len(checked[f]) + 1)
      /\ \A i \in 1..Len(checked[f]) : checked[f][i] = Ordered(runStart[f], i)
  BY <1>1, <1>2 DEF FleetClockTypeOK, CheckRunShape
<1>4. Len(checked[f]) \in Nat /\ Len(checked[f]) + 1 \in Nat \ {0} /\ Size > 0
  BY <1>3, FleetOrder
<1>5. target[f] \in Repeaters
  BY <1>3, <1>4, OrderedRepeater
<1>6. /\ done \in Seq(Repeaters) /\ Len(done) = Len(checked[f]) + 1
      /\ \A i \in 1..Len(checked[f]) : done[i] = checked[f][i]
      /\ done[Len(checked[f]) + 1] = target[f]
  BY <1>3, <1>5
<1>7. \A i \in 1..Len(done) : i \in 1..Len(checked[f]) \/ i = Len(checked[f]) + 1
  BY <1>3, <1>6, <1>4
<1>8. \A i \in 1..Len(done) : done[i] = Ordered(runStart[f], i)
  BY <1>3, <1>6, <1>7, <1>4
<1> QED
  BY <1>2, <1>3, <1>6, <1>8, <1>4

(* The end of a fleet check, after its bookkeeping.                        *)
LEMMA EndRunKeeps ==
  ASSUME SysInv, NEW f \in FleetChecks, pc[f] = "returned",
         NEW state \in {"cancelled"} \cup FullRunStates, Finalize(f, state),
         NEW seen \in Seq(Repeaters), checked' = [checked EXCEPT ![f] = seen],
         \A i \in 1..Len(seen) : seen[i] = Ordered(runStart[f], i),
         state \in FullRunStates => Len(seen) = Size,
         troubleCount' \in [FleetChecks -> Nat],
         cancelRequested' \subseteq cancelRequested \cup {f},
         UNCHANGED <<currentRun, runStart, cancelEvent, fleetSyncVars>>
  PROVE  SysInv'
<1> USE Kinds DEF fleetSyncVars
<1>1. /\ ManagerInv /\ FleetClockTypeOK /\ FleetSyncTypeOK /\ CheckRunShape
      /\ SyncRunShape /\ StopsShape /\ GatesFollowRuns /\ GateHolders
  BY DEF SysInv
<1>2. currentRun = f /\ FleetClockActive /\ ~InFlight(f)
  BY CheckedGrows
<1>3. Rests(f) /\ pc'[f] = "finished" /\ ManagerInv'
  BY <1>1, <1>2, FinalizeRests DEF Finalize
<1>4. /\ runState' = [runState EXCEPT ![f] = state]
      /\ state \notin ActiveRunStates /\ state \in RunStates
      /\ subscribed' = subscribed /\ fleetSyncId' = fleetSyncId
      /\ \A u \in Tasks : u # f => pc'[u] = pc[u]
      /\ target' = target /\ stage' = stage
  BY <1>3 DEF Finalize, Rests, ActiveRunStates, FullRunStates, RunStates
<1>5. FleetClockTypeOK' /\ FleetSyncTypeOK'
  <2>1. rotationIndex' \in Nat
    BY <1>1, FleetOrder, ModRange DEF Finalize, FleetClockTypeOK
  <2> QED
    BY <1>1, <1>4, <2>1 DEF FleetClockTypeOK, FleetSyncTypeOK
<1>6. ~FleetClockActive' /\ ~UnderWay(f)'
  BY <1>1, <1>2, <1>3, <1>4 DEF FleetClockActive, FleetClockTypeOK, UnderWay
<1>7. CheckRunShape'
  <2>1. ASSUME NEW g \in FleetChecks, g # f
        PROVE  /\ checked'[g] = checked[g] /\ runState'[g] = runState[g]
               /\ pc'[g] = pc[g] /\ ~UnderWay(g)'
    BY <1>1, <1>2, <1>4, <2>1 DEF FleetClockTypeOK, CheckRunShape, UnderWay
  <2>2. /\ checked'[f] = seen /\ runState'[f] = state /\ pc'[f] # "idle"
    BY <1>1, <1>3, <1>4 DEF FleetClockTypeOK
  <2> QED
    BY <1>1, <1>6, <2>1, <2>2 DEF CheckRunShape, Ordered
<1>8. SyncRunShape'
  BY <1>1, <1>4 DEF SyncRunShape, FleetSyncActive, UnderWay
<1>9. StopsShape'
  BY <1>1, <1>3, <1>4 DEF StopsShape, FleetClockTypeOK
<1>10. fleetRunId' \in {fleetRunId, NoTask} /\ (subscribed => fleetRunId' = NoTask /\ reserved' = {})
  BY <1>1, <1>2 DEF Finalize, ReleaseTargets, GatesFollowRuns
<1>11. \A u \in Tasks : Gated(u)' => Gated(u)
  BY <1>3, <1>4 DEF Gated, InFlight, Busy
<1>12. GatesFollowRuns' /\ GateHolders'
  BY <1>1, <1>2, <1>4, <1>6, <1>10, <1>11
     DEF GatesFollowRuns, GateHolders, FleetSyncActive
<1> QED
  BY <1>3, <1>5, <1>7, <1>8, <1>9, <1>12 DEF SysInv

(* The run goes on with its next repeater.                                 *)
LEMMA NextCheckKeeps ==
  ASSUME SysInv, NEW f \in FleetChecks, pc[f] = "returned",
         NEW seen \in Seq(Repeaters), checked' = [checked EXCEPT ![f] = seen],
         \A i \in 1..Len(seen) : seen[i] = Ordered(runStart[f], i),
         Len(seen) < Size,
         Check(f, Ordered(runStart[f], Len(seen) + 1)),
         runState' = [runState EXCEPT ![f] = "running"],
         troubleCount' \in [FleetChecks -> Nat],
         UNCHANGED <<currentRun, runStart, cancelRequested, cancelEvent, gateVars,
                     rotationIndex, fleetSyncVars>>
  PROVE  SysInv'
<1> USE Kinds DEF fleetSyncVars, gateVars
<1>1. /\ ManagerInv /\ FleetClockTypeOK /\ FleetSyncTypeOK /\ CheckRunShape
      /\ SyncRunShape /\ StopsShape /\ GatesFollowRuns /\ GateHolders
      /\ ManagerTypeOK
  BY DEF SysInv, ManagerInv
<1>2. currentRun = f /\ FleetClockActive /\ ~InFlight(f) /\ runStart[f] \in Nat
  BY CheckedGrows
<1>3. Len(seen) + 1 \in Nat \ {0} /\ Size > 0
  BY FleetOrder
<1>4. Ordered(runStart[f], Len(seen) + 1) \in Repeaters
  BY <1>2, <1>3, OrderedRepeater
<1>5. ManagerInv'
  BY <1>1, <1>2, <1>4, CheckKeepsManager DEF ManagerTypeOK
<1>6. Moves(f) /\ target'[f] = Ordered(runStart[f], Len(seen) + 1) /\ ~Gated(f)'
  BY <1>1, <1>2, CheckMoves
<1>7. /\ subscribed' = subscribed /\ pc'[f] \notin {"idle", "delay"}
      /\ \A u \in Tasks : u # f => pc'[u] = pc[u] /\ stage'[u] = stage[u] /\ target'[u] = target[u]
  BY <1>6 DEF Moves, Busy
<1>8. FleetClockTypeOK' /\ FleetSyncTypeOK'
  BY <1>1 DEF FleetClockTypeOK, FleetSyncTypeOK, RunStates, ActiveRunStates
<1>9. /\ FleetClockActive' /\ UnderWay(f)' /\ runState'[f] \notin FullRunStates
  BY <1>1, <1>2, <1>6 DEF FleetClockActive, FleetClockTypeOK, UnderWay, ActiveRunStates,
     FullRunStates, Moves, Busy
<1>10. CheckRunShape'
  <2>1. ASSUME NEW g \in FleetChecks, g # f
        PROVE  /\ checked'[g] = checked[g] /\ runState'[g] = runState[g]
               /\ pc'[g] = pc[g] /\ ~UnderWay(g)'
    BY <1>1, <1>2, <1>7, <2>1 DEF FleetClockTypeOK, CheckRunShape, UnderWay
  <2>2. checked'[f] = seen /\ target'[f] = Ordered(runStart'[f], Len(seen) + 1)
    BY <1>1, <1>6 DEF FleetClockTypeOK, Ordered
  <2>3. \A i \in 1..Len(checked'[f]) : checked'[f][i] = Ordered(runStart'[f], i)
    BY <2>2 DEF Ordered
  <2>4. \A g \in FleetChecks : g # f => \A i \in 1..Len(checked'[g]) :
          checked'[g][i] = Ordered(runStart'[g], i)
    BY <1>1, <2>1 DEF CheckRunShape, Ordered
  <2>5. /\ UnderWay(f)' <=> currentRun' = f /\ FleetClockActive'
        /\ pc'[f] # "idle" /\ runStart'[f] < Size /\ Len(checked'[f]) < Size
        /\ target'[f] = Ordered(runStart'[f], Len(checked'[f]) + 1)
    BY <1>1, <1>2, <1>3, <1>7, <1>9, <2>2 DEF CheckRunShape
  <2>6. ASSUME NEW g \in FleetChecks, g # f
        PROVE  /\ UnderWay(g)' <=> currentRun' = g /\ FleetClockActive'
               /\ pc'[g] = "idle" => checked'[g] = <<>>
               /\ Size > 0 => runStart'[g] < Size
               /\ runState'[g] \in FullRunStates => Len(checked'[g]) = Size
    BY <1>1, <1>2, <1>9, <2>1, <2>6 DEF CheckRunShape
  <2>7. ASSUME NEW g \in FleetChecks
        PROVE  /\ UnderWay(g)' <=> currentRun' = g /\ FleetClockActive'
               /\ UnderWay(g)' => /\ Len(checked'[g]) < Size
                                  /\ target'[g] = Ordered(runStart'[g], Len(checked'[g]) + 1)
               /\ pc'[g] = "idle" => checked'[g] = <<>>
               /\ Size > 0 => runStart'[g] < Size
               /\ \A i \in 1..Len(checked'[g]) : checked'[g][i] = Ordered(runStart'[g], i)
               /\ runState'[g] \in FullRunStates => Len(checked'[g]) = Size
    <3>1. CASE g = f
      BY <1>9, <2>3, <2>5, <3>1
    <3>2. CASE g # f
      BY <2>1, <2>4, <2>6, <3>2
    <3> QED
      BY <3>1, <3>2
  <2> QED
    BY <2>7 DEF CheckRunShape, Ordered
<1>11. SyncRunShape'
  BY <1>1, <1>7 DEF SyncRunShape, FleetSyncActive, UnderWay
<1>12. StopsShape'
  BY <1>1, <1>7 DEF StopsShape, FleetClockTypeOK
<1>13. \A u \in Tasks : Gated(u)' => Gated(u)
  BY <1>6, <1>7 DEF Gated, InFlight
<1>14. GatesFollowRuns' /\ GateHolders'
  BY <1>1, <1>2, <1>7, <1>9, <1>13 DEF GatesFollowRuns, GateHolders, FleetSyncActive
<1> QED
  BY <1>5, <1>8, <1>10, <1>11, <1>12, <1>14 DEF SysInv

LEMMA RunStepKeeps ==
  ASSUME SysInv, NEW f \in FleetChecks, RunStep(f), UNCHANGED fleetSyncVars
  PROVE  SysInv'
<1> DEFINE done == Append(checked[f], target[f])
           bad  == IF outcome[f] \in Completed THEN 0 ELSE 1
<1>1. pc[f] = "returned" /\ FleetClockTypeOK
  BY DEF RunStep, RunCounts, RunInterrupted, SysInv
<1>2. /\ checked[f] \in Seq(Repeaters) /\ done \in Seq(Repeaters)
      /\ \A i \in 1..Len(done) : done[i] = Ordered(runStart[f], i)
  BY <1>1, CheckedGrows DEF FleetClockTypeOK
<1>3. /\ Size \in Nat /\ Len(done) \in Nat
      /\ Len(done) >= Size => Len(done) = Size
  BY <1>1, CheckedGrows, FleetOrder
<1>4. CASE RunInterrupted(f)
  <2>1. /\ Finalize(f, "cancelled") /\ "cancelled" \in {"cancelled"} \cup FullRunStates
        /\ "cancelled" \notin FullRunStates
        /\ cancelRequested' \subseteq cancelRequested \cup {f}
        /\ checked' = [checked EXCEPT ![f] = checked[f]]
        /\ troubleCount' \in [FleetChecks -> Nat]
        /\ UNCHANGED <<currentRun, runStart, cancelEvent>>
    BY <1>1, <1>4 DEF RunInterrupted, FullRunStates, FleetClockTypeOK
  <2>2. \A i \in 1..Len(checked[f]) : checked[f][i] = Ordered(runStart[f], i)
    BY <1>1 DEF SysInv, CheckRunShape
  <2> QED
    BY <1>1, <1>2, <2>1, <2>2, EndRunKeeps
<1>5. CASE RunCounts(f)
  <2>1. /\ checked' = [checked EXCEPT ![f] = done]
        /\ troubleCount' \in [FleetChecks -> Nat]
        /\ UNCHANGED <<currentRun, runStart, cancelRequested, cancelEvent>>
    BY <1>1, <1>5 DEF RunCounts, FleetClockTypeOK
  <2>2. CASE \E state \in {"cancelled"} \cup FullRunStates :
               /\ Finalize(f, state)
               /\ state \in FullRunStates => Len(done) >= Size
    <3> HIDE DEF done
    <3>1. PICK state \in {"cancelled"} \cup FullRunStates :
               /\ Finalize(f, state)
               /\ state \in FullRunStates => Len(done) >= Size
      BY <2>2
    <3>2. state \in FullRunStates => Len(done) = Size
      BY <1>3, <3>1
    <3> QED
      BY <1>1, <1>2, <2>1, <3>1, <3>2, EndRunKeeps
  <2>3. CASE /\ ~(Len(done) >= Size)
             /\ Check(f, Ordered(runStart[f], Len(done) + 1))
             /\ runState' = [runState EXCEPT ![f] = "running"]
             /\ UNCHANGED <<gateVars, rotationIndex>>
    <3>1. Len(done) < Size
      BY <1>3, <2>3
    <3> HIDE DEF done
    <3> QED
      BY <1>1, <1>2, <2>1, <2>3, <3>1, NextCheckKeeps
  <2> QED
    BY <1>5, <2>2, <2>3 DEF RunCounts, FullRunStates
<1> QED
  BY <1>4, <1>5 DEF RunStep

-----------------------------------------------------------------------------
(* The steps of a fleet sync.                                              *)
LEMMA FinishRests ==
  ASSUME ManagerInv, NEW s \in FleetSyncs, NEW state, ~InFlight(s),
         cancelling' \subseteq Tasks, FinishSync(s, state)
  PROVE  Rests(s) /\ pc'[s] = "finished" /\ ManagerInv'
<1>1. Rests(s) /\ pc'[s] = "finished"
  BY Kinds DEF FinishSync, Rests, ManagerInv, ManagerTypeOK, PCs
<1>2. fleetRunId' \in MaybeTask /\ reserved' \subseteq Repeaters /\ fleetSyncId' \in MaybeTask
  BY DEF FinishSync, EndGate, ManagerInv, ManagerTypeOK, MaybeTask
<1> QED
  BY <1>1, <1>2, Kinds, RestsKeepsManager

LEMMA ExecuteFacts ==
  ASSUME SysInv, NEW s \in FleetSyncs, NEW trigger \in {"manual", "automatic"},
         Execute(s, trigger)
  PROVE  /\ ManagerInv' /\ FleetSyncTypeOK' /\ subscribed' = subscribed
         /\ subscribed /\ pc[s] = "idle" /\ ~FleetSyncActive
         /\ fleetRunId = NoTask /\ fleetSyncId = NoTask /\ \A t \in Tasks : ~Gated(t)
         /\ fleetRunId' = fleetRunId /\ reserved' = reserved
         /\ syncRun' = s /\ syncCancel' = FALSE /\ syncCount' = syncCount
         /\ \/ /\ Size = 0 /\ Rests(s) /\ pc'[s] = "finished" /\ fleetSyncId' = NoTask
               /\ syncState' = [syncState EXCEPT ![s] = "failed"]
            \/ /\ Size > 0 /\ Moves(s) /\ target'[s] \in Repeaters /\ fleetSyncId' = s
               /\ syncState' = [syncState EXCEPT ![s] = "running"]
<1>1. ManagerInv /\ ManagerTypeOK /\ FleetSyncTypeOK /\ s \in Tasks
  BY Kinds DEF SysInv, ManagerInv
<1>2. /\ subscribed /\ pc[s] = "idle" /\ ~InFlight(s) /\ ~FleetSyncActive
      /\ fleetRunId = NoTask /\ fleetSyncId = NoTask
      /\ \A r \in Repeaters : pendingSync[r] = NoTask
      /\ syncRun' = s /\ syncTrigger' = [syncTrigger EXCEPT ![s] = trigger]
      /\ syncCancel' = FALSE /\ UNCHANGED <<syncCount, syncTrouble>>
  BY DEF Execute, BeginRefused, InFlight, Busy
<1>3. \A t \in Tasks : ~Gated(t)
  BY <1>1, <1>2, NothingGated
<1>4. CASE Size = 0
  <2>1. FinishSync(s, "failed") /\ cancelling' = cancelling
    BY <1>4 DEF Execute
  <2>2. /\ syncState' = [syncState EXCEPT ![s] = "failed"] /\ syncTask' \in {syncTask, NoTask}
        /\ fleetSyncId' = NoTask /\ UNCHANGED <<fleetRunId, reserved, subscribed>>
    BY <1>2, <2>1 DEF FinishSync, EndGate
  <2>3. cancelling' \subseteq Tasks
    BY <1>1, <2>1 DEF ManagerTypeOK
  <2>4. FleetSyncTypeOK'
    BY <1>1, <1>2, <2>2 DEF FleetSyncTypeOK, SyncStates
  <2> QED
    BY <1>1, <1>2, <1>3, <1>4, <2>1, <2>2, <2>3, <2>4, FinishRests
<1>5. CASE Size # 0
  <2>1. /\ Sync(s, Managed[1]) /\ fleetSyncId' = s /\ syncTask' = s
        /\ syncState' = [syncState EXCEPT ![s] = "running"]
        /\ UNCHANGED <<fleetRunId, reserved>>
    BY <1>5 DEF Execute
  <2>2. Managed[1] \in Repeaters /\ Size > 0
    BY <1>5, FleetOrder
  <2>3. ManagerInv'
    BY <1>1, <1>2, <2>1, <2>2, SyncKeepsManager DEF ManagerTypeOK, MaybeTask
  <2>4. FleetSyncTypeOK'
    BY <1>1, <1>2, <2>1 DEF FleetSyncTypeOK, SyncStates, ActiveSyncStates
  <2>5. Moves(s) /\ target'[s] = Managed[1]
    BY <1>1, <1>2, <2>1, SyncMoves
  <2> QED
    BY <1>2, <1>3, <2>1, <2>2, <2>3, <2>4, <2>5 DEF Moves
<1> QED
  BY <1>4, <1>5

LEMMA ExecuteKeeps ==
  ASSUME SysInv, NEW s \in FleetSyncs, NEW trigger \in {"manual", "automatic"},
         Execute(s, trigger), UNCHANGED fleetClockVars
  PROVE  SysInv'
<1> USE Kinds DEF fleetClockVars
<1>1. /\ FleetClockTypeOK /\ FleetSyncTypeOK /\ CheckRunShape
      /\ SyncRunShape /\ StopsShape /\ GatesFollowRuns /\ GateHolders
  BY DEF SysInv
<1>2. /\ ManagerInv' /\ FleetSyncTypeOK' /\ subscribed' = subscribed
      /\ subscribed /\ pc[s] = "idle" /\ ~FleetSyncActive
      /\ fleetRunId = NoTask /\ fleetSyncId = NoTask /\ \A t \in Tasks : ~Gated(t)
      /\ fleetRunId' = fleetRunId /\ reserved' = reserved
      /\ syncRun' = s /\ syncCancel' = FALSE /\ syncCount' = syncCount
  BY ExecuteFacts
<1>3. /\ \A u \in Tasks : u # s => pc'[u] = pc[u]
      /\ \A u \in Tasks : u # s => target'[u] = target[u]
      /\ pc'[s] \notin {"idle", "delay"}
      /\ \A t \in Tasks : Gated(t)' => t = s
  BY <1>2, ExecuteFacts DEF Rests, Moves, Gated, InFlight, Busy
<1>4. \/ /\ Size = 0 /\ Rests(s) /\ pc'[s] = "finished" /\ fleetSyncId' = NoTask
          /\ syncState' = [syncState EXCEPT ![s] = "failed"]
       \/ /\ Size > 0 /\ Moves(s) /\ target'[s] \in Repeaters /\ fleetSyncId' = s
          /\ syncState' = [syncState EXCEPT ![s] = "running"]
  BY ExecuteFacts
<1>5. /\ UnderWay(s)' <=> Size > 0
      /\ FleetSyncActive' <=> Size > 0
      /\ Size > 0 => target'[s] \in Repeaters /\ fleetSyncId' = s
      /\ Size = 0 => fleetSyncId' = NoTask /\ \A t \in Tasks : ~Gated(t)'
      /\ \A u \in FleetSyncs : u # s => syncState'[u] = syncState[u]
  <2>1. CASE Size = 0
    <3>1. /\ pc'[s] = "finished" /\ fleetSyncId' = NoTask
          /\ syncState' = [syncState EXCEPT ![s] = "failed"]
      BY <1>4, <2>1
    <3>2. ~UnderWay(s)' /\ \A t \in Tasks : ~Gated(t)'
      BY <1>3, <3>1 DEF UnderWay, Gated, InFlight, Busy
    <3>3. ~FleetSyncActive' /\ \A u \in FleetSyncs : u # s => syncState'[u] = syncState[u]
      BY <1>1, <1>2, <3>1 DEF FleetSyncTypeOK, FleetSyncActive, ActiveSyncStates
    <3> QED
      BY <2>1, <3>1, <3>2, <3>3
  <2>2. CASE Size > 0
    <3>1. /\ pc'[s] \in Busy \cup {"returned"} /\ target'[s] \in Repeaters
          /\ syncState' = [syncState EXCEPT ![s] = "running"] /\ fleetSyncId' = s
      BY <1>4, <2>2 DEF Moves
    <3>2. UnderWay(s)'
      BY <3>1 DEF UnderWay, Busy
    <3>3. FleetSyncActive' /\ \A u \in FleetSyncs : u # s => syncState'[u] = syncState[u]
      BY <1>1, <1>2, <3>1 DEF FleetSyncTypeOK, FleetSyncActive, ActiveSyncStates
    <3> QED
      BY <2>2, <3>1, <3>2, <3>3, FleetOrder
  <2> QED
    BY <2>1, <2>2, FleetOrder
<1>6. FleetClockTypeOK'
  BY <1>1 DEF FleetClockTypeOK
<1>7. CheckRunShape'
  BY <1>1, <1>3, CheckShapeKept DEF UnderWay
<1>8. SyncRunShape'
  <2>1. \A u \in FleetSyncs : u # s => ~UnderWay(u) /\ ~UnderWay(u)'
    BY <1>1, <1>2, <1>3 DEF SyncRunShape, UnderWay
  <2> QED
    BY <1>2, <1>3, <1>5, <2>1 DEF SyncRunShape, UnderWay
<1>9. StopsShape'
  BY <1>1, <1>2, <1>3 DEF StopsShape, FleetClockTypeOK
<1>10. GatesFollowRuns' /\ GateHolders'
  BY <1>1, <1>2, <1>3, <1>5, FleetOrder
     DEF GatesFollowRuns, GateHolders, FleetClockActive
<1> QED
  BY <1>2, <1>6, <1>7, <1>8, <1>9, <1>10 DEF SysInv

(* The end of a fleet sync.                                                *)
LEMMA EndSyncKeeps ==
  ASSUME SysInv, NEW s \in FleetSyncs, pc[s] \in {"returned", "delay"},
         NEW state \in SyncStates \ ActiveSyncStates, FinishSync(s, state),
         cancelling' \subseteq Tasks,
         syncCount' \in [FleetSyncs -> Nat], syncTrouble' \in [FleetSyncs -> Nat],
         UNCHANGED <<syncRun, syncTrigger, syncCancel, fleetClockVars>>
  PROVE  SysInv'
<1> USE Kinds DEF fleetClockVars
<1>1. /\ ManagerInv /\ FleetClockTypeOK /\ FleetSyncTypeOK /\ CheckRunShape
      /\ SyncRunShape /\ StopsShape /\ GatesFollowRuns /\ GateHolders
  BY DEF SysInv
<1>2. syncRun = s /\ FleetSyncActive /\ ~InFlight(s)
  BY <1>1 DEF SyncRunShape, UnderWay, InFlight, Busy
<1>3. Rests(s) /\ pc'[s] = "finished" /\ ManagerInv'
  BY <1>1, <1>2, FinishRests
<1>4. /\ syncState' = [syncState EXCEPT ![s] = state] /\ syncTask' \in {syncTask, NoTask}
      /\ fleetSyncId' = EndGate(s) /\ UNCHANGED <<fleetRunId, reserved, subscribed>>
      /\ \A u \in Tasks : u # s => pc'[u] = pc[u]
      /\ target' = target /\ stage' = stage
  BY <1>3 DEF FinishSync, Rests
<1>5. FleetClockTypeOK' /\ FleetSyncTypeOK'
  BY <1>1, <1>4 DEF FleetClockTypeOK, FleetSyncTypeOK
<1>6. ~FleetSyncActive' /\ ~UnderWay(s)'
  BY <1>1, <1>2, <1>3, <1>4 DEF FleetSyncActive, FleetSyncTypeOK, UnderWay
<1>7. SyncRunShape'
  <2>1. \A u \in FleetSyncs : ~UnderWay(u)'
    BY <1>1, <1>2, <1>4, <1>6 DEF SyncRunShape, UnderWay
  <2> QED
    BY <1>6, <2>1 DEF SyncRunShape, UnderWay
<1>8. CheckRunShape'
  BY <1>1, <1>4, CheckShapeKept DEF UnderWay
<1>9. StopsShape'
  BY <1>1, <1>4 DEF StopsShape, FleetClockTypeOK
<1>10. fleetSyncId' \in {fleetSyncId, NoTask} /\ (subscribed => fleetSyncId' = NoTask)
  BY <1>1, <1>2, <1>4 DEF EndGate, GatesFollowRuns
<1>11. \A u \in Tasks : Gated(u)' => Gated(u)
  BY <1>3, <1>4 DEF Gated, InFlight, Busy
<1>12. GatesFollowRuns' /\ GateHolders'
  BY <1>1, <1>2, <1>4, <1>6, <1>10, <1>11
     DEF GatesFollowRuns, GateHolders, FleetClockActive
<1> QED
  BY <1>3, <1>5, <1>7, <1>8, <1>9, <1>12 DEF SysInv

(* A repeater of the sync is done and the delay before the next begins.    *)
LEMMA DelayKeeps ==
  ASSUME SysInv, NEW s \in FleetSyncs, pc[s] = "returned",
         pc' = [pc EXCEPT ![s] = "delay"],
         syncState' = [syncState EXCEPT ![s] = "waiting"],
         syncCount' = [syncCount EXCEPT ![s] = @ + 1], syncCount[s] + 1 < Size,
         syncTrouble' \in [FleetSyncs -> Nat],
         UNCHANGED <<target, stage, attempt, future, outcome, verified, pending,
                     pendingLogin, pendingSync, syncTasks, result, gateVars, subscribed,
                     cancelling, syncTask, syncRun, syncTrigger, syncCancel,
                     fleetClockVars>>
  PROVE  SysInv'
<1> USE Kinds DEF fleetClockVars, gateVars
<1>1. /\ ManagerInv /\ FleetClockTypeOK /\ FleetSyncTypeOK /\ CheckRunShape
      /\ SyncRunShape /\ StopsShape /\ GatesFollowRuns /\ GateHolders
      /\ ManagerTypeOK
  BY DEF SysInv, ManagerInv
<1>2. syncRun = s /\ FleetSyncActive /\ ~InFlight(s) /\ target[s] \in Repeaters
  BY <1>1 DEF SyncRunShape, UnderWay, InFlight, Busy
<1>3. Rests(s)
  BY <1>1, <1>2 DEF Rests, ManagerTypeOK, PCs
<1>4. ManagerInv'
  BY <1>1, <1>3, RestsKeepsManager DEF ManagerTypeOK
<1>5. FleetClockTypeOK' /\ FleetSyncTypeOK'
  <2>1. FleetClockTypeOK'
    BY <1>1 DEF FleetClockTypeOK
  <2>2. syncCount' \in [FleetSyncs -> Nat] /\ syncState' \in [FleetSyncs -> SyncStates]
    BY <1>1 DEF FleetSyncTypeOK, SyncStates, ActiveSyncStates
  <2> QED
    BY <1>1, <2>1, <2>2 DEF FleetSyncTypeOK
<1>6. /\ \A u \in Tasks : u # s => pc'[u] = pc[u]
      /\ pc'[s] = "delay" /\ FleetSyncActive' /\ syncCount'[s] = syncCount[s] + 1
  BY <1>1, <1>2, <1>3
     DEF Rests, FleetSyncActive, FleetSyncTypeOK, ManagerTypeOK, ActiveSyncStates
<1>7. SyncRunShape'
  <2>1. \A u \in FleetSyncs : u # s => ~UnderWay(u)'
    BY <1>1, <1>2, <1>6 DEF SyncRunShape, UnderWay
  <2>2. UnderWay(s)' /\ syncRun' = s /\ FleetSyncActive' /\ target'[s] \in Repeaters
    BY <1>2, <1>6 DEF UnderWay
  <2>3. syncCount'[s] < Size /\ \A u \in FleetSyncs : u # s => pc'[u] # "delay"
    BY <1>6, <2>1 DEF UnderWay
  <2> QED
    BY <2>1, <2>2, <2>3 DEF SyncRunShape
<1>8. CheckRunShape'
  BY <1>1, <1>6, CheckShapeKept DEF UnderWay
<1>9. StopsShape'
  BY <1>1, <1>6 DEF StopsShape, FleetClockTypeOK
<1>10. \A u \in Tasks : Gated(u)' => Gated(u)
  BY <1>6 DEF Gated, InFlight, Busy
<1>11. GatesFollowRuns' /\ GateHolders'
  BY <1>1, <1>2, <1>6, <1>10 DEF GatesFollowRuns, GateHolders, FleetClockActive
<1> QED
  BY <1>4, <1>5, <1>7, <1>8, <1>9, <1>11 DEF SysInv

(* The sync goes on with its next repeater.                                *)
LEMMA NextSyncKeeps ==
  ASSUME SysInv, NEW s \in FleetSyncs, pc[s] = "delay",
         Sync(s, Managed[syncCount[s] + 1]),
         syncState' = [syncState EXCEPT ![s] = "running"],
         UNCHANGED <<gateVars, syncTask, syncRun, syncTrigger, syncCount, syncTrouble,
                     syncCancel, fleetClockVars>>
  PROVE  SysInv'
<1> USE Kinds DEF fleetClockVars, gateVars
<1>1. /\ ManagerInv /\ FleetClockTypeOK /\ FleetSyncTypeOK /\ CheckRunShape
      /\ SyncRunShape /\ StopsShape /\ GatesFollowRuns /\ GateHolders
      /\ ManagerTypeOK
  BY DEF SysInv, ManagerInv
<1>2. syncRun = s /\ FleetSyncActive /\ ~InFlight(s) /\ syncCount[s] < Size
  BY <1>1 DEF SyncRunShape, UnderWay, InFlight, Busy
<1>3. Managed[syncCount[s] + 1] \in Repeaters
  BY <1>1, <1>2, FleetOrder DEF FleetSyncTypeOK
<1>4. ManagerInv'
  BY <1>1, <1>2, <1>3, SyncKeepsManager DEF ManagerTypeOK
<1>5. Moves(s) /\ target'[s] \in Repeaters
  BY <1>1, <1>2, <1>3, SyncMoves
<1>6. FleetClockTypeOK' /\ FleetSyncTypeOK'
  BY <1>1 DEF FleetClockTypeOK, FleetSyncTypeOK, SyncStates, ActiveSyncStates
<1>7. /\ \A u \in Tasks : u # s => pc'[u] = pc[u] /\ target'[u] = target[u]
      /\ pc'[s] \notin {"idle", "delay", "finished"} /\ FleetSyncActive'
      /\ subscribed' = subscribed
  BY <1>1, <1>2, <1>5 DEF Moves, Busy, FleetSyncActive, FleetSyncTypeOK, ActiveSyncStates
<1>8. SyncRunShape'
  <2>1. \A u \in FleetSyncs : u # s => ~UnderWay(u)'
    BY <1>1, <1>2, <1>7 DEF SyncRunShape, UnderWay
  <2> QED
    BY <1>2, <1>5, <1>7, <2>1 DEF SyncRunShape, UnderWay
<1>9. CheckRunShape'
  BY <1>1, <1>7, CheckShapeKept DEF UnderWay
<1>10. StopsShape'
  BY <1>1, <1>7 DEF StopsShape, FleetClockTypeOK
<1>11. \A u \in Tasks : Gated(u)' => Gated(u) \/ (u = s /\ GateFree(s, target'[s]))
  BY <1>5 DEF Moves, Gated, InFlight
<1>12. GatesFollowRuns' /\ GateHolders'
  BY <1>1, <1>2, <1>7, <1>11
     DEF GatesFollowRuns, GateHolders, FleetClockActive, GateFree
<1> QED
  BY <1>4, <1>6, <1>8, <1>9, <1>10, <1>12 DEF SysInv

LEMMA SyncRunStepKeeps ==
  ASSUME SysInv, NEW s \in FleetSyncs, SyncRunStep(s), UNCHANGED fleetClockVars
  PROVE  SysInv'
<1>1. /\ FleetSyncTypeOK /\ cancelling \subseteq Tasks
      /\ {"cancelled", "completed", "completed_with_errors"} \subseteq SyncStates \ ActiveSyncStates
  BY DEF SysInv, ManagerInv, ManagerTypeOK, SyncStates, ActiveSyncStates
<1>2. ASSUME NEW state \in {"cancelled", "completed", "completed_with_errors"},
             pc[s] \in {"returned", "delay"}, FinishSync(s, state),
             cancelling' \subseteq Tasks,
             syncCount' \in [FleetSyncs -> Nat], syncTrouble' \in [FleetSyncs -> Nat],
             UNCHANGED <<syncRun, syncTrigger, syncCancel>>
      PROVE  SysInv'
  BY <1>1, <1>2, EndSyncKeeps
<1>3. CASE SyncInterrupted(s) \/ SyncDelayInterrupted(s)
  BY <1>1, <1>2, <1>3 DEF SyncInterrupted, SyncDelayInterrupted, FleetSyncTypeOK
<1>4. CASE SyncDelayEnds(s)
  <2>1. CASE syncCancel
    BY <1>1, <1>2, <1>4, <2>1 DEF SyncDelayEnds, NextRepeater, Resumes, FleetSyncTypeOK
  <2>2. CASE ~syncCancel
    <3>1. /\ pc[s] = "delay" /\ Sync(s, Managed[syncCount[s] + 1])
          /\ syncState' = [syncState EXCEPT ![s] = "running"]
          /\ UNCHANGED <<gateVars, syncTask, syncRun, syncTrigger, syncCount, syncTrouble,
                         syncCancel>>
      BY <1>4, <2>2 DEF SyncDelayEnds, NextRepeater, Resumes
    <3> QED
      BY <3>1, NextSyncKeeps
  <2> QED
    BY <2>1, <2>2
<1>5. CASE SyncCounts(s)
  <2>1. /\ pc[s] = "returned" /\ cancelling' = cancelling
        /\ syncCount' = [syncCount EXCEPT ![s] = @ + 1]
        /\ syncCount' \in [FleetSyncs -> Nat] /\ syncTrouble' \in [FleetSyncs -> Nat]
        /\ UNCHANGED <<syncRun, syncTrigger, syncCancel>>
    BY <1>1, <1>5 DEF SyncCounts, FleetSyncTypeOK
  <2>2. CASE \E state \in {"cancelled", "completed", "completed_with_errors"} :
               FinishSync(s, state)
    BY <1>1, <1>2, <2>1, <2>2
  <2>3. CASE /\ syncCount[s] + 1 < Size
             /\ pc' = [pc EXCEPT ![s] = "delay"]
             /\ syncState' = [syncState EXCEPT ![s] = "waiting"]
             /\ UNCHANGED <<target, stage, attempt, future, outcome, verified, pending,
                            pendingLogin, pendingSync, syncTasks, result, gateVars,
                            subscribed, syncTask>>
    BY <2>1, <2>3, DelayKeeps
  <2> QED
    BY <1>5, <2>2, <2>3 DEF SyncCounts
<1> QED
  BY <1>3, <1>4, <1>5 DEF SyncRunStep

LEMMA FleetSyncCallKeeps ==
  ASSUME SysInv, FleetSyncCall, UNCHANGED fleetClockVars
  PROVE  SysInv'
<1>1. ASSUME NEW s \in FleetSyncs, SyncAll(s) \/ StartAutomatic(s) PROVE SysInv'
  BY <1>1, ExecuteKeeps DEF SyncAll, StartAutomatic
<1>2. ASSUME NEW s \in FleetSyncs, SyncCallerCancels(s) PROVE SysInv'
  <2>1. RunInv'
    BY <1>2, QuietKeepsRuns DEF SyncCallerCancels, OrchestratorsIdle
  <2>2. ManagerInv'
    BY <1>2, Kinds DEF SyncCallerCancels, gateVars, SysInv, ManagerInv, ManagerTypeOK,
       OperationShape, NoLeakedRegistration, SyncHoldsItsRepeater, ReadingIsRecent,
       SuccessIsVerified, Gated, InFlight
  <2> QED
    BY <2>1, <2>2 DEF SysInv, RunInv
<1> QED
  BY <1>1, <1>2 DEF FleetSyncCall

-----------------------------------------------------------------------------
LEMMA UnloadKeeps ==
  ASSUME SysInv, Unload
  PROVE  SysInv'
<1> USE Kinds
<1>1. /\ ManagerInv /\ FleetClockTypeOK /\ FleetSyncTypeOK /\ CheckRunShape
      /\ SyncRunShape /\ StopsShape /\ GateHolders /\ ManagerTypeOK
  BY DEF SysInv, ManagerInv
<1>2. /\ ~subscribed' /\ fleetSyncId' = NoTask /\ UNCHANGED <<pc, target, stage>>
      /\ fleetRunId' \in {fleetRunId, NoTask} /\ reserved' \subseteq reserved
      /\ cancelEvent' = TRUE /\ syncCancel' = TRUE
      /\ UNCHANGED <<currentRun, runState, runStart, checked, troubleCount,
                     cancelRequested, rotationIndex>>
      /\ UNCHANGED <<syncRun, syncState, syncTrigger, syncCount, syncTrouble, syncTask>>
  BY DEF Unload, StopManager, ReleaseOnStop, ReleaseTargets, FleetClockStop, FleetSyncStop
<1>3. ManagerInv'
  <2>1. (UnfinishedSync \cup UnfinishedRun) \in SUBSET Tasks
    BY DEF UnfinishedSync, UnfinishedRun
  <2>2. fleetRunId' \in MaybeTask /\ reserved' \subseteq Repeaters
    BY <1>1, <1>2 DEF ManagerTypeOK, MaybeTask
  <2> QED
    BY <1>1, <2>1, <2>2, StopInv DEF Unload
<1>4. FleetClockTypeOK' /\ FleetSyncTypeOK'
  BY <1>1, <1>2 DEF FleetClockTypeOK, FleetSyncTypeOK
<1>5. CheckRunShape' /\ SyncRunShape'
  BY <1>1, <1>2 DEF CheckRunShape, SyncRunShape, UnderWay, FleetClockActive,
     FleetSyncActive, Ordered
<1>6. StopsShape' /\ GatesFollowRuns' /\ GateHolders'
  BY <1>1, <1>2 DEF StopsShape, GatesFollowRuns, GateHolders
<1> QED
  BY <1>3, <1>4, <1>5, <1>6 DEF SysInv

LEMMA SysInitInv == SysInit => SysInv
<1> SUFFICES ASSUME SysInit PROVE SysInv
  OBVIOUS
<1> USE Kinds DEF SysInit
<1>1. ManagerInv
  BY InitInv
<1>2. FleetClockTypeOK /\ FleetSyncTypeOK
  <2>1. FleetClockTypeOK
    <3>1. <<>> \in Seq(Repeaters)
      OBVIOUS
    <3> QED
      BY <3>1 DEF FleetClockInit, FleetClockTypeOK, RunStates
  <2>2. FleetSyncTypeOK
    BY DEF FleetSyncInit, FleetSyncTypeOK, SyncStates
  <2> QED
    BY <2>1, <2>2
<1>3. \A u \in Tasks : pc[u] = "idle"
  BY DEF ManagerInit
<1>4. CheckRunShape
  BY <1>3, FleetOrder
     DEF FleetClockInit, CheckRunShape, UnderWay, FleetClockActive, FullRunStates
<1>5. SyncRunShape /\ StopsShape
  BY <1>3 DEF FleetSyncInit, FleetClockInit, ManagerInit, SyncRunShape, StopsShape, UnderWay,
     FleetSyncActive
<1>6. GatesFollowRuns /\ GateHolders
  BY <1>3 DEF FleetSyncInit, FleetClockInit, ManagerInit, GatesFollowRuns, GateHolders,
     FleetClockActive, FleetSyncActive, Gated, InFlight, Busy
<1> QED
  BY <1>1, <1>2, <1>4, <1>5, <1>6 DEF SysInv

LEMMA SysNextInv == SysInv /\ [SysNext]_sysVars => SysInv'
<1> SUFFICES ASSUME SysInv, [SysNext]_sysVars PROVE SysInv'
  OBVIOUS
<1>1. CASE /\ CallStep \/ (\E t \in Tasks : TaskStep(t)) \/ RadioStep
           /\ UNCHANGED <<fleetClockVars, fleetSyncVars>>
  BY <1>1, ManagerStepKeeps
<1>2. CASE FleetClockCall /\ UNCHANGED fleetSyncVars
  BY <1>2, CancelRunKeeps, StartRunKeeps DEF FleetClockCall
<1>3. CASE (\E f \in FleetChecks : RunStep(f)) /\ UNCHANGED fleetSyncVars
  BY <1>3, RunStepKeeps
<1>4. CASE FleetSyncCall /\ UNCHANGED fleetClockVars
  BY <1>4, FleetSyncCallKeeps
<1>5. CASE (\E s \in FleetSyncs : SyncRunStep(s)) /\ UNCHANGED fleetClockVars
  BY <1>5, SyncRunStepKeeps
<1>6. CASE Unload
  BY <1>6, UnloadKeeps
<1>7. CASE UNCHANGED sysVars
  <2>1. ManagerInv'
    BY <1>7, NextInv DEF sysVars, SysInv
  <2>2. RunInv'
    BY <1>7, QuietKeepsRuns DEF sysVars, mgrVars, taskVars, OrchestratorsIdle
  <2> QED
    BY <2>1, <2>2 DEF SysInv, RunInv
<1> QED
  BY <1>1, <1>2, <1>3, <1>4, <1>5, <1>6, <1>7 DEF SysNext, SysTaskStep

LEMMA SysInvariance == SysSpec => []SysInv
BY SysInitInv, SysNextInv, PTL DEF SysSpec

(* Every variable of the composed system keeps its type.                   *)
THEOREM SysTypeCorrect == SysSpec => []SysTypeOK
<1>1. SysInv => SysTypeOK
  BY DEF SysInv, ManagerInv, SysTypeOK
<1> QED
  BY SysInvariance, <1>1, PTL

(* While loaded, a fleet gate is held by exactly the run that reports      *)
(* itself active: none is leaked, none is lost.                            *)
THEOREM GatesFollow == SysSpec => []GatesFollowRuns
<1>1. SysInv => GatesFollowRuns
  BY DEF SysInv
<1> QED
  BY SysInvariance, <1>1, PTL

(* A completed fleet check has checked every managed repeater once, from   *)
(* whatever index its rotation began.                                      *)
THEOREM FullRunsCover == SysSpec => []FullRunCoversFleet
<1>1. SysInv => FullRunCoversFleet
  <2> SUFFICES ASSUME SysInv, NEW f \in FleetChecks, runState[f] \in FullRunStates
               PROVE  /\ Len(checked[f]) = Size
                      /\ \A r \in Repeaters : \E i \in 1..Len(checked[f]) : checked[f][i] = r
    BY DEF FullRunCoversFleet
  <2>1. /\ Len(checked[f]) = Size /\ runStart[f] \in Nat
        /\ \A i \in 1..Len(checked[f]) : checked[f][i] = Ordered(runStart[f], i)
        /\ Size > 0 => runStart[f] < Size
    BY DEF SysInv, CheckRunShape, FleetClockTypeOK
  <2>2. ASSUME NEW r \in Repeaters PROVE \E i \in 1..Len(checked[f]) : checked[f][i] = r
    <3>1. Size > 0
      BY FleetOrder
    <3>2. PICK i \in 1..Size : Ordered(runStart[f], i) = r
      BY <2>1, <3>1, OrderedCovers
    <3> QED
      BY <2>1, <3>2
  <2> QED
    BY <2>1, <2>2
<1> QED
  BY SysInvariance, <1>1, PTL

-----------------------------------------------------------------------------
(* Neither the cancellation that a sync swallows nor the bookkeeping after *)
(* a check lets a run go on that was asked to stop.                        *)
LEMMA StopStep ==
  ASSUME SysInv, [SysNext]_sysVars, NEW t \in FleetChecks \cup FleetSyncs,
         Stopping(t), ~InFlight(t)
  PROVE  ~InFlight(t)'
<1> USE Kinds DEF InFlight
<1>1. /\ cancelRequested \subseteq FleetChecks /\ StopsShape /\ ManagerInv /\ ManagerTypeOK
  BY DEF SysInv, ManagerInv, FleetClockTypeOK
<1>2. ASSUME NEW u \in Tasks, u # t, \/ Moves(u)
                                      \/ Rests(u)
      PROVE  ~InFlight(t)'
  BY <1>2 DEF Moves, Rests
<1>3. ASSUME UNCHANGED pc PROVE ~InFlight(t)'
  BY <1>3
<1>4. ASSUME pc'[t] \in {"finished", "delay"} PROVE ~InFlight(t)'
  BY <1>4 DEF Busy
<1>5. CASE CallStep
  <2>1. ASSUME NEW u \in CheckCalls, NEW r \in Repeaters, CallCheck(u, r)
        PROVE  ~InFlight(t)'
    BY <1>1, <1>2, <2>1, CheckMoves DEF CallCheck, Busy
  <2>2. ASSUME NEW u \in SyncCalls, NEW r \in Repeaters, CallSync(u, r)
        PROVE  ~InFlight(t)'
    BY <1>1, <1>2, <2>2, SyncMoves DEF CallSync, Busy
  <2> QED
    BY <1>3, <1>5, <2>1, <2>2 DEF CallStep, CallerCancels
<1>6. ASSUME NEW u \in Tasks, TaskStep(u) PROVE ~InFlight(t)'
  <2>1. Moves(u) /\ u # t
    BY <1>1, <1>6, TaskStepMoves
  <2> QED
    BY <1>2, <2>1
<1>7. CASE RadioStep \/ Unload \/ UNCHANGED sysVars
  BY <1>3, <1>7 DEF RadioStep, LoginEvent, ClockReply, Unload, StopManager, sysVars,
     mgrVars, taskVars
<1>8. CASE FleetClockCall
  <2>1. CASE CancelRun
    BY <1>3, <2>1 DEF CancelRun, mgrVars, taskVars
  <2>2. ASSUME NEW f \in FleetChecks, StartRun(f) PROVE ~InFlight(t)'
    <3>1. subscribed /\ pc[f] = "idle" /\ (Moves(f) \/ Rests(f))
      BY <2>2, StartRunFacts
    <3>2. t # f
      BY <1>1, <3>1 DEF Stopping, StopsShape
    <3> QED
      BY <1>2, <3>1, <3>2
  <2> QED
    BY <1>8, <2>1, <2>2 DEF FleetClockCall
<1>9. ASSUME NEW f \in FleetChecks, RunStep(f) PROVE ~InFlight(t)'
  <2>1. pc[f] = "returned" /\ ~InFlight(f)
    BY <1>9 DEF RunStep, RunCounts, RunInterrupted, Busy
  <2>2. CASE \E state : Finalize(f, state)
    <3>1. pc' = [pc EXCEPT ![f] = "finished"]
      BY <2>2 DEF Finalize
    <3> QED
      BY <1>1, <3>1 DEF ManagerTypeOK, Busy
  <2>3. CASE ~(f \in cancelRequested \/ cancelEvent) /\ \E r : Check(f, r)
    <3>1. Moves(f) /\ t # f
      BY <1>1, <2>1, <2>3, CheckMoves DEF Stopping, StopsShape
    <3> QED
      BY <1>2, <3>1
  <2> QED
    BY <1>9, <2>2, <2>3 DEF RunStep, RunCounts, RunInterrupted, StopRequested
<1>10. CASE FleetSyncCall
  <2>1. ASSUME NEW s \in FleetSyncs, NEW trigger \in {"manual", "automatic"},
               Execute(s, trigger)
        PROVE  ~InFlight(t)'
    <3>1. subscribed /\ (Moves(s) \/ Rests(s))
      BY <2>1, ExecuteFacts
    <3>2. t # s
      BY <1>1, <3>1 DEF Stopping
    <3> QED
      BY <1>2, <3>1, <3>2
  <2> QED
    BY <1>3, <1>10, <2>1 DEF FleetSyncCall, SyncAll, StartAutomatic, SyncCallerCancels
<1>11. ASSUME NEW s \in FleetSyncs, SyncRunStep(s) PROVE ~InFlight(t)'
  <2>1. ~InFlight(s)
    BY <1>11 DEF SyncRunStep, SyncInterrupted, SyncCounts, SyncDelayEnds,
       SyncDelayInterrupted, Resumes, Busy
  <2>2. CASE \E at \in {"finished", "delay"} : pc' = [pc EXCEPT ![s] = at]
    BY <1>1, <2>2 DEF ManagerTypeOK, Busy
  <2>3. CASE ~syncCancel /\ \E r : Sync(s, r)
    <3>1. Moves(s) /\ t # s
      BY <1>1, <2>1, <2>3, SyncMoves DEF Stopping, StopsShape
    <3> QED
      BY <1>2, <3>1
  <2> QED
    BY <1>11, <2>2, <2>3 DEF SyncRunStep, SyncInterrupted, SyncCounts, SyncDelayEnds,
       SyncDelayInterrupted, NextRepeater, FinishSync
<1> QED
  BY <1>5, <1>6, <1>7, <1>8, <1>9, <1>10, <1>11 DEF SysNext, SysTaskStep

(* A run that was asked to stop starts no other repeater.                  *)
THEOREM StopsHold == SysSpec => StopsBeforeNextRepeater
<1>1. SysInv /\ [SysNext]_sysVars =>
        [\A t \in FleetChecks \cup FleetSyncs :
           Stopping(t) /\ ~InFlight(t) => ~InFlight(t)']_sysVars
  BY StopStep
<1> QED
  BY SysInvariance, <1>1, PTL DEF SysSpec, StopsBeforeNextRepeater

-----------------------------------------------------------------------------
(* The refinement of ClockGate: the writers are the syncs past their gate. *)
Writers == {<<u, target[u]>> : u \in {v \in Tasks : Gated(v)}}

LEMMA WritersSame ==
  ASSUME \A u \in Tasks : Gated(u)' <=> Gated(u),
         \A u \in Tasks : Gated(u) => target'[u] = target[u]
  PROVE  Writers' = Writers
BY DEF Writers

LEMMA GateStutters ==
  ASSUME subscribed' = subscribed,
         subscribed => /\ fleetRunId' = fleetRunId /\ fleetSyncId' = fleetSyncId
                       /\ Writers' = Writers
  PROVE  UNCHANGED Promise!gate
BY DEF Promise!gate, Writers

(* A move of a task enters its gate, leaves it, or changes nothing of it.  *)
LEMMA MovesRefine ==
  ASSUME SysInv, NEW t \in Tasks, Moves(t), UNCHANGED <<fleetRunId, fleetSyncId>>,
         target'[t] \in Repeaters
  PROVE  [Promise!Next]_(Promise!gate)
<1> USE Kinds
<1>1. /\ subscribed' = subscribed
      /\ \A u \in Tasks : u # t => (Gated(u)' <=> Gated(u)) /\ target'[u] = target[u]
      /\ Gated(t) => target'[t] = target[t]
  BY DEF Moves, Gated, InFlight
<1>2. CASE ~subscribed \/ (Gated(t)' <=> Gated(t))
  <2>1. CASE ~subscribed
    BY <1>1, <2>1, GateStutters
  <2>2. CASE Gated(t)' <=> Gated(t)
    BY <1>1, <2>2, WritersSame, GateStutters
  <2> QED
    BY <1>2, <2>1, <2>2
<1>3. PICK p \in Repeaters : p = target'[t]
  OBVIOUS
<1>4. CASE subscribed /\ Gated(t) /\ ~Gated(t)'
  <2>1. Writers' = Writers \ {<<t, p>>} /\ <<t, p>> \in Writers
    BY <1>1, <1>3, <1>4 DEF Writers
  <2>2. Promise!LeaveWrite(t, p)
    BY <1>1, <1>4, <2>1 DEF Promise!LeaveWrite, Writers
  <2> QED
    BY <2>2 DEF Promise!Next
<1>5. CASE subscribed /\ ~Gated(t) /\ Gated(t)'
  <2>1. GateFree(t, p)
    BY <1>3, <1>5 DEF Moves, GateFree
  <2>2. Writers' = Writers \cup {<<t, p>>}
    BY <1>1, <1>3, <1>5 DEF Writers
  <2>3. \A w \in Writers : w[2] # p /\ w[1] # t
    BY <1>5, <2>1 DEF Writers, GateFree, SysInv, ManagerInv, SyncHoldsItsRepeater
  <2>4. Promise!EnterWrite(t, p)
    BY <1>1, <1>5, <2>1, <2>2, <2>3 DEF Promise!EnterWrite, Writers, GateFree
  <2> QED
    BY <2>4 DEF Promise!Next
<1> QED
  BY <1>2, <1>4, <1>5

(* A sync that its fleet run has just begun is still before its gate.      *)
LEMMA FirstSyncBeforeGate ==
  ASSUME ManagerTypeOK, NEW s \in FleetSyncs, NEW r \in Repeaters, subscribed,
         ~CheckRefused(s, r, TRUE), Sync(s, r)
  PROVE  ~Gated(s)'
<1>1. CASE \E o : Leave(s, o)
  BY <1>1, Kinds DEF Leave, ManagerTypeOK, Gated, InFlight, Busy
<1>2. CASE OpenLogin(s, r, "precheck", pendingLogin, result)
  BY <1>2, Kinds DEF OpenLogin, ManagerTypeOK, Gated
<1> QED
  BY <1>1, <1>2 DEF Sync, EnterSync, PasswordFound

LEMMA InitRefines == SysInit => Promise!Init
BY DEF SysInit, ManagerInit, Promise!Init, Gated, InFlight, Busy

(* A fleet run takes its gate, or ends at once in an empty fleet.          *)
LEMMA StartRunRefines ==
  ASSUME SysInv, NEW f \in FleetChecks, StartRun(f)
  PROVE  [Promise!Next]_(Promise!gate)
<1> USE Kinds
<1>1. /\ subscribed /\ fleetRunId = NoTask /\ fleetSyncId = NoTask
      /\ \A t \in Tasks : ~Gated(t)
  BY StartRunFacts DEF StartRun, SyncInProgress
<1>2. \/ Rests(f) /\ Finalize(f, "failed")
      \/ Moves(f) /\ ~Gated(f)' /\ fleetRunId' = f /\ fleetSyncId' = fleetSyncId
  BY StartRunFacts
<1>3. subscribed' = subscribed /\ \A t \in Tasks : ~Gated(t)'
  BY <1>1, <1>2 DEF Rests, Moves, Gated, InFlight, Busy
<1>4. Writers = {} /\ Writers' = {}
  BY <1>1, <1>3 DEF Writers
<1>5. CASE Finalize(f, "failed")
  <2>1. fleetRunId' = fleetRunId /\ fleetSyncId' = fleetSyncId
    BY <1>1, <1>5 DEF Finalize, ReleaseTargets
  <2> QED
    BY <1>3, <1>4, <2>1, GateStutters
<1>6. CASE fleetRunId' = f /\ fleetSyncId' = fleetSyncId
  <2>1. Promise!BeginCheck(f)
    BY <1>1, <1>3, <1>4, <1>6 DEF Promise!BeginCheck, Promise!Idle, Writers
  <2> QED
    BY <2>1 DEF Promise!Next
<1> QED
  BY <1>2, <1>5, <1>6

LEMMA ExecuteRefines ==
  ASSUME SysInv, NEW s \in FleetSyncs, NEW trigger \in {"manual", "automatic"},
         Execute(s, trigger)
  PROVE  [Promise!Next]_(Promise!gate)
<1> USE Kinds
<1>1. /\ subscribed' = subscribed /\ subscribed /\ pc[s] = "idle"
      /\ fleetRunId = NoTask /\ fleetSyncId = NoTask /\ \A t \in Tasks : ~Gated(t)
      /\ fleetRunId' = fleetRunId
      /\ \/ Size = 0 /\ Rests(s) /\ fleetSyncId' = NoTask
         \/ Size > 0 /\ Moves(s) /\ fleetSyncId' = s
  BY ExecuteFacts
<1>2. \A t \in Tasks : t # s => ~Gated(t)'
  BY <1>1 DEF Rests, Moves, Gated, InFlight, Busy
<1>3. ~Gated(s)'
  <2>1. CASE Size = 0
    BY <1>1, <2>1, FleetOrder DEF Rests, Gated, InFlight, Busy
  <2>2. CASE Size > 0
    <3>1. Sync(s, Managed[1]) /\ Managed[1] \in Repeaters
      BY <2>2, FleetOrder DEF Execute
    <3>2. reserved = {} /\ \A r \in Repeaters : pending[r] = NoTask
      BY <1>1 DEF Execute, BeginRefused, SysInv, GatesFollowRuns
    <3>3. ~CheckRefused(s, Managed[1], TRUE)
      BY <3>1, <3>2 DEF CheckRefused
    <3>4. ManagerTypeOK
      BY DEF SysInv, ManagerInv
    <3> QED
      BY <1>1, <3>1, <3>3, <3>4, FirstSyncBeforeGate
  <2> QED
    BY <2>1, <2>2, FleetOrder
<1>4. Writers = {} /\ Writers' = {}
  BY <1>1, <1>2, <1>3 DEF Writers
<1>5. CASE fleetSyncId' = NoTask
  BY <1>1, <1>4, <1>5, GateStutters
<1>6. CASE fleetSyncId' = s
  <2>1. Promise!BeginSync(s)
    BY <1>1, <1>4, <1>6 DEF Promise!BeginSync, Promise!Idle, Writers
  <2> QED
    BY <2>1 DEF Promise!Next
<1> QED
  BY <1>1, <1>5, <1>6

(* The end of a run gives its gate back, with no write of its own left.    *)
LEMMA FinalizeRefines ==
  ASSUME SysInv, NEW f \in FleetChecks, pc[f] = "returned", NEW state, Finalize(f, state)
  PROVE  [Promise!Next]_(Promise!gate)
<1> USE Kinds
<1>1. ManagerTypeOK /\ currentRun = f /\ FleetClockActive
  BY CheckedGrows DEF SysInv, ManagerInv
<1>2. /\ UNCHANGED <<subscribed, fleetSyncId, target, stage>>
      /\ pc' = [pc EXCEPT ![f] = "finished"]
  BY DEF Finalize
<1>3. Writers' = Writers
  BY <1>1, <1>2, WritersSame DEF ManagerTypeOK, Gated, InFlight, Busy
<1>4. CASE ~subscribed
  BY <1>2, <1>4, GateStutters
<1>5. CASE subscribed
  <2>1. fleetRunId = f /\ fleetRunId' = NoTask
    BY <1>1, <1>5 DEF Finalize, ReleaseTargets, SysInv, GatesFollowRuns
  <2>2. Promise!EndCheck
    BY <1>2, <1>3, <1>5, <2>1 DEF Promise!EndCheck, Writers
  <2> QED
    BY <2>2 DEF Promise!Next
<1> QED
  BY <1>4, <1>5

LEMMA FinishRefines ==
  ASSUME SysInv, NEW s \in FleetSyncs, pc[s] \in {"returned", "delay"}, NEW state,
         FinishSync(s, state)
  PROVE  [Promise!Next]_(Promise!gate)
<1> USE Kinds
<1>1. ManagerTypeOK /\ syncRun = s /\ FleetSyncActive /\ ~Gated(s)
  BY DEF SysInv, ManagerInv, SyncRunShape, UnderWay, Gated, InFlight, Busy
<1>2. /\ UNCHANGED <<subscribed, fleetRunId, target, stage>>
      /\ pc' = [pc EXCEPT ![s] = "finished"] /\ fleetSyncId' = EndGate(s)
  BY DEF FinishSync
<1>3. Writers' = Writers
  BY <1>1, <1>2, WritersSame DEF ManagerTypeOK, Gated, InFlight, Busy
<1>4. CASE ~subscribed
  BY <1>2, <1>4, GateStutters
<1>5. CASE subscribed
  <2>1. fleetSyncId = s /\ fleetSyncId' = NoTask
    BY <1>1, <1>2, <1>5 DEF EndGate, SysInv, GatesFollowRuns
  <2>2. Writers = {}
    BY <1>1, <1>5, <2>1 DEF Writers, SysInv, GateHolders
  <2>3. Promise!EndSync
    BY <1>2, <1>3, <1>5, <2>1, <2>2 DEF Promise!EndSync, Writers
  <2> QED
    BY <2>3 DEF Promise!Next
<1> QED
  BY <1>4, <1>5

LEMMA StepRefines ==
  ASSUME SysInv, [SysNext]_sysVars
  PROVE  [Promise!Next]_(Promise!gate)
<1> USE Kinds
<1>1. /\ ManagerInv /\ ManagerTypeOK
      /\ \A t \in Tasks : InFlight(t) => target[t] \in Repeaters
  BY DEF SysInv, ManagerInv, OperationShape
<1>2. ASSUME UNCHANGED <<pc, target, stage, subscribed, fleetRunId, fleetSyncId>>
      PROVE  [Promise!Next]_(Promise!gate)
  BY <1>2, WritersSame, GateStutters DEF Gated, InFlight
<1>3. CASE CallStep
  <2>1. ASSUME NEW t \in CheckCalls, NEW r \in Repeaters, CallCheck(t, r)
        PROVE  [Promise!Next]_(Promise!gate)
    BY <1>1, <2>1, CheckMoves, MovesRefine DEF CallCheck, gateVars, InFlight, Busy
  <2>2. ASSUME NEW t \in SyncCalls, NEW r \in Repeaters, CallSync(t, r)
        PROVE  [Promise!Next]_(Promise!gate)
    BY <1>1, <2>2, SyncMoves, MovesRefine DEF CallSync, gateVars, InFlight, Busy
  <2> QED
    BY <1>2, <1>3, <2>1, <2>2 DEF CallStep, CallerCancels, gateVars
<1>4. ASSUME NEW t \in Tasks, TaskStep(t) PROVE [Promise!Next]_(Promise!gate)
  BY <1>1, <1>4, TaskStepMoves, MovesRefine DEF gateVars
<1>5. CASE RadioStep \/ UNCHANGED sysVars
  BY <1>2, <1>5 DEF RadioStep, LoginEvent, ClockReply, sysVars, mgrVars, taskVars, gateVars
<1>6. CASE FleetClockCall
  BY <1>2, <1>6, StartRunRefines DEF FleetClockCall, CancelRun, mgrVars, taskVars, gateVars
<1>7. ASSUME NEW f \in FleetChecks, RunStep(f) PROVE [Promise!Next]_(Promise!gate)
  <2>1. pc[f] = "returned" /\ ~InFlight(f)
    BY <1>7 DEF RunStep, RunCounts, RunInterrupted, InFlight, Busy
  <2>2. CASE \E state : Finalize(f, state)
    BY <2>1, <2>2, FinalizeRefines
  <2>3. CASE /\ Check(f, Ordered(runStart[f], Len(Append(checked[f], target[f])) + 1))
             /\ UNCHANGED gateVars
    <3>1. Ordered(runStart[f], Len(Append(checked[f], target[f])) + 1) \in Repeaters
      <4> DEFINE n == Len(Append(checked[f], target[f])) + 1
      <4>1. runStart[f] \in Nat /\ n \in Nat \ {0} /\ Size > 0
        BY <2>1, CheckedGrows
      <4> HIDE DEF n
      <4>2. Ordered(runStart[f], n) \in Repeaters
        BY <4>1, OrderedRepeater
      <4> QED
        BY <4>2 DEF n
    <3> QED
      BY <1>1, <2>1, <2>3, <3>1, CheckMoves, MovesRefine DEF gateVars
  <2> QED
    BY <1>7, <2>2, <2>3 DEF RunStep, RunCounts, RunInterrupted
<1>8. CASE FleetSyncCall
  <2>1. ASSUME NEW s \in FleetSyncs, SyncAll(s) \/ StartAutomatic(s)
        PROVE  [Promise!Next]_(Promise!gate)
    BY <2>1, ExecuteRefines DEF SyncAll, StartAutomatic
  <2> QED
    BY <1>2, <1>8, <2>1 DEF FleetSyncCall, SyncCallerCancels, gateVars
<1>9. ASSUME NEW s \in FleetSyncs, SyncRunStep(s) PROVE [Promise!Next]_(Promise!gate)
  <2>1. pc[s] \in {"returned", "delay"} /\ ~InFlight(s)
    BY <1>9 DEF SyncRunStep, SyncInterrupted, SyncCounts, SyncDelayEnds,
       SyncDelayInterrupted, Resumes, InFlight, Busy
  <2>2. CASE \E state : FinishSync(s, state)
    BY <2>1, <2>2, FinishRefines
  <2>3. CASE /\ pc[s] = "delay" /\ Sync(s, Managed[syncCount[s] + 1])
             /\ UNCHANGED gateVars
    <3>1. syncCount[s] \in Nat /\ syncCount[s] < Size
      BY <2>3 DEF SysInv, SyncRunShape, FleetSyncTypeOK
    <3>2. Managed[syncCount[s] + 1] \in Repeaters
      BY <3>1, FleetOrder
    <3> QED
      BY <1>1, <2>1, <2>3, <3>2, SyncMoves, MovesRefine DEF gateVars
  <2>4. CASE /\ pc' = [pc EXCEPT ![s] = "delay"]
             /\ UNCHANGED <<target, stage, gateVars, subscribed>>
    BY <1>1, <2>1, <2>4, WritersSame, GateStutters
       DEF gateVars, ManagerTypeOK, Gated, InFlight, Busy
  <2> QED
    BY <1>9, <2>2, <2>3, <2>4 DEF SyncRunStep, SyncInterrupted, SyncCounts, SyncDelayEnds,
       SyncDelayInterrupted, NextRepeater, Resumes
<1>10. CASE Unload
  <2>1. subscribed /\ ~subscribed'
    BY <1>10 DEF Unload, StopManager
  <2>2. Promise!Unload
    BY <2>1 DEF Promise!Unload
  <2> QED
    BY <2>2 DEF Promise!Next
<1> QED
  BY <1>3, <1>4, <1>5, <1>6, <1>7, <1>8, <1>9, <1>10 DEF SysNext, SysTaskStep

(* The manager and the two orchestrators implement the gate of ClockGate:  *)
(* what is proved of the gate holds of the clock writes of the system.     *)
THEOREM GateIsImplemented == SysSpec => ImplementsGate
<1>1. SysInv /\ [SysNext]_sysVars => [Promise!Next]_(Promise!gate)
  BY StepRefines
<1> QED
  BY SysInvariance, InitRefines, <1>1, PTL DEF SysSpec, ImplementsGate, Promise!Spec
=============================================================================
