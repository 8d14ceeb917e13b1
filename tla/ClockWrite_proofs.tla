------------------------- MODULE ClockWrite_proofs --------------------------
(***************************************************************************)
(* What holds of the clock write for any number of repeaters, companions,  *)
(* clocks and lost frames: the companion stays a safe source from its      *)
(* verification to the write, and no write moves a clock past the window.  *)
(* And of the calm instance of MCClockWrite: every sync succeeds.          *)
(***************************************************************************)
EXTENDS MCClockWrite, TLAPS

(* The part of the companion's section in which its clock is not trusted.  *)
Repairing == {"repair", "reboot", "reconnect"}

(* The lock belongs to the sync inside the companion's section.            *)
LockInv ==
  \A r \in Repeaters : pc[r] \in Locked <=> lock = r

(* Once a sync has verified the companion, nobody repairs it, and what the *)
(* sync holds of its clock is within the safe lead.                        *)
SourceInv ==
  \A r \in Repeaters : pc[r] \in Ensured =>
     /\ up
     /\ SafeEitherWay(lead)
     /\ \A q \in Repeaters : pc[q] \notin Repairing
     /\ pc[r] = "send" => seen[r] <= SafeLead

IInv == TypeOK /\ LockInv /\ (restarts = 0 => SourceInv)

LEMMA InitInv == Init => IInv
<1> SUFFICES ASSUME Init PROVE IInv
  OBVIOUS
<1>1. TypeOK
  <2>1. lead \in Int /\ future \in SUBSET Int
    BY ConstantsAssumption DEF Init
  <2>2. off \in [Repeaters -> Int] /\ stamp \in [Repeaters -> Int]
    BY ConstantsAssumption DEF Init
  <2> QED
    BY <2>1, <2>2 DEF Init, TypeOK, PCs, Commands, Outcomes, NoReading
<1>2. LockInv /\ SourceInv
  BY ConstantsAssumption DEF Init, LockInv, SourceInv, Locked, Ensured
<1> QED
  BY <1>1, <1>2 DEF IInv

(* Types are kept by every step.                                           *)
LEMMA TypeStep == TypeOK /\ [Next]_vars => TypeOK'
<1> SUFFICES ASSUME TypeOK, [Next]_vars PROVE TypeOK'
  OBVIOUS
<1> USE ConstantsAssumption
    DEF TypeOK, PCs, Commands, Outcomes, Goto, Proceed, Finish, Released, Online,
        Past, NoReading, companion, Delivered
<1>1. ASSUME NEW r \in Repeaters, Begin(r) PROVE TypeOK'
  BY <1>1 DEF Begin
<1>2. ASSUME NEW r \in Repeaters, Authenticate(r) PROVE TypeOK'
  <2>1. CASE PrecheckReads(r)
    BY <2>1 DEF PrecheckReads
  <2>2. CASE PrecheckFails(r)
    BY <2>2 DEF PrecheckFails
  <2>3. CASE Verify(r)
    BY <2>3 DEF Verify
  <2>4. CASE LoginSucceeds(r)
    BY <2>4 DEF LoginSucceeds
  <2>5. CASE LoginUnconfirmed(r)
    BY <2>5 DEF LoginUnconfirmed
  <2>6. CASE SavedAdminLogin(r)
    BY <2>6 DEF SavedAdminLogin
  <2>7. CASE Reset(r)
    BY <2>7 DEF Reset, Reboots
  <2>8. CASE Recover(r)
    BY <2>8 DEF Recover, Reboots
  <2> QED
    BY <1>2, <2>1, <2>2, <2>3, <2>4, <2>5, <2>6, <2>7, <2>8 DEF Authenticate
<1>3. ASSUME NEW r \in Repeaters, Ensure(r) PROVE TypeOK'
  <2>1. CASE Acquire(r)
    BY <2>1 DEF Acquire
  <2>2. CASE Assess(r)
    BY <2>2 DEF Assess
  <2>3. CASE NothingToRepair(r)
    BY <2>3 DEF NothingToRepair
  <2>4. CASE Repair(r)
    <3>1. -Backdate \in Int
      BY DEF Backdate
    <3>2. future' \subseteq future \cup {-Backdate}
      BY <2>4 DEF Repair
    <3>3. future' \in SUBSET Int
      BY <3>1, <3>2
    <3>4. tries[r] \in 0..3
      OBVIOUS
    <3> QED
      BY <2>4, <3>3, <3>4 DEF Repair
  <2>5. CASE Reboot(r)
    BY <2>5 DEF Reboot
  <2>6. CASE Reconnected(r)
    BY <2>6 DEF Reconnected, RepairAttempts
  <2>7. CASE ReconnectTimesOut(r)
    BY <2>7 DEF ReconnectTimesOut
  <2>8. CASE Forward(r)
    BY <2>8 DEF Forward
  <2>9. CASE Confirm(r)
    BY <2>9 DEF Confirm
  <2> QED
    BY <1>3, <2>1, <2>2, <2>3, <2>4, <2>5, <2>6, <2>7, <2>8, <2>9 DEF Ensure
<1>4. ASSUME NEW r \in Repeaters, Write(r) PROVE TypeOK'
  <2>1. CASE ReloginSucceeds(r)
    BY <2>1 DEF ReloginSucceeds
  <2>2. CASE ReloginUnconfirmed(r)
    BY <2>2 DEF ReloginUnconfirmed, LoginsLeft, LoginAttempts
  <2>3. CASE ReadStamp(r)
    BY <2>3 DEF ReadStamp
  <2>4. CASE Send(r)
    <3> PICK est \in Estimates, heard \in Delivered, answered \in Delivered :
          \E travel \in {0, est} :
             LET sender == SenderEpoch(r, est)
                 obeyed == heard /\ sender >= stamp[r]
                 sets   == obeyed /\ sender > off[r]
             IN /\ off' = [off EXCEPT ![r] = IF sets THEN sender - travel ELSE @]
                /\ IF obeyed /\ ~sets /\ answered
                   THEN Finish(r, "command_failed")
                   ELSE Proceed(r, "post", 0) /\ UNCHANGED <<seen, lock>>
      BY <2>4 DEF Send
    <3> PICK travel \in {0, est} :
             LET sender == SenderEpoch(r, est)
                 obeyed == heard /\ sender >= stamp[r]
                 sets   == obeyed /\ sender > off[r]
             IN /\ off' = [off EXCEPT ![r] = IF sets THEN sender - travel ELSE @]
                /\ IF obeyed /\ ~sets /\ answered
                   THEN Finish(r, "command_failed")
                   ELSE Proceed(r, "post", 0) /\ UNCHANGED <<seen, lock>>
      OBVIOUS
    <3>1. SenderEpoch(r, est) - travel \in Int /\ off[r] \in Int
      BY DEF SenderEpoch, Larger
    <3>2. off' \in [Repeaters -> Int]
      BY <3>1
    <3>3. \/ Finish(r, "command_failed")
          \/ Proceed(r, "post", 0) /\ UNCHANGED <<seen, lock>>
      OBVIOUS
    <3> QED
      BY <2>4, <3>2, <3>3 DEF Send
  <2>5. CASE PostReads(r)
    BY <2>5 DEF PostReads
  <2>6. CASE PostFails(r)
    BY <2>6 DEF PostFails
  <2> QED
    BY <1>4, <2>1, <2>2, <2>3, <2>4, <2>5, <2>6 DEF Write
<1>5. ASSUME NEW r \in Repeaters, CommandRaises(r) \/ Cancel(r) PROVE TypeOK'
  <2>1. CASE CommandRaises(r)
    BY <2>1 DEF CommandRaises
  <2>2. CASE Cancel(r)
    BY <2>2 DEF Cancel
  <2> QED
    BY <1>5, <2>1, <2>2
<1>6. ASSUME NEW r \in Repeaters, OrdinaryCheck(r) PROVE TypeOK'
  BY <1>6 DEF OrdinaryCheck
<1>7. CASE CompanionBoots
  BY <1>7 DEF CompanionBoots, BootLeads
<1>8. CASE CompanionRestarts
  <2>1. restarts' = restarts + 1 /\ up' = FALSE
    BY <1>8 DEF CompanionRestarts
  <2>2. restarts' \in Nat
    BY <2>1
  <2>3. UNCHANGED <<pc, tries, seen, outcome, runs, off, stamp, late, lead, future, lock>>
    BY <1>8 DEF CompanionRestarts
  <2> QED
    BY <2>1, <2>2, <2>3
<1>9. CASE UNCHANGED vars
  BY <1>9 DEF vars
<1> QED
  BY <1>1, <1>2, <1>3, <1>4, <1>5, <1>6, <1>7, <1>8, <1>9 DEF Next, Step

(* A step that leaves every sync outside the companion's section, or where *)
(* it is in it, keeps the lock; entering takes the free lock.              *)
LEMMA LockStep == TypeOK /\ LockInv /\ [Next]_vars => LockInv'
<1> SUFFICES ASSUME TypeOK, LockInv, [Next]_vars PROVE LockInv'
  OBVIOUS
<1> USE ConstantsAssumption
    DEF LockInv, Locked, Goto, Proceed, Finish, Released, Online, companion
<1>0. pc \in [Repeaters -> PCs] /\ NoOne \notin Repeaters
  BY DEF TypeOK
<1>1. ASSUME NEW r \in Repeaters, Begin(r) PROVE LockInv'
  BY <1>0, <1>1 DEF Begin
<1>2. ASSUME NEW r \in Repeaters, Authenticate(r) PROVE LockInv'
  BY <1>0, <1>2 DEF Authenticate, PrecheckReads, PrecheckFails, Verify, LoginSucceeds,
     LoginUnconfirmed, SavedAdminLogin, Reset, Recover
<1>3. ASSUME NEW r \in Repeaters, Ensure(r) PROVE LockInv'
  BY <1>0, <1>3 DEF Ensure, Acquire, LockFree, Assess, NothingToRepair, Repair, Reboot,
     Reconnected, ReconnectTimesOut, Forward, Confirm
<1>4. ASSUME NEW r \in Repeaters, Write(r) PROVE LockInv'
  BY <1>0, <1>4 DEF Write, ReloginSucceeds, ReloginUnconfirmed, ReadStamp, Send,
     PostReads, PostFails
<1>5. ASSUME NEW r \in Repeaters, CommandRaises(r) \/ Cancel(r) PROVE LockInv'
  BY <1>0, <1>5 DEF CommandRaises, Cancel
<1>6. ASSUME \/ \E r \in Repeaters : OrdinaryCheck(r)
             \/ CompanionBoots \/ CompanionRestarts \/ UNCHANGED vars
      PROVE LockInv'
  BY <1>6 DEF OrdinaryCheck, CompanionBoots, CompanionRestarts, vars
<1> QED
  BY <1>1, <1>2, <1>3, <1>4, <1>5, <1>6 DEF Next, Step

(* While a sync relies on the companion, no step takes it away: only the   *)
(* holder of the lock repairs it, and it finds nothing to repair.          *)
LEMMA SourceStep ==
  TypeOK /\ LockInv /\ SourceInv /\ restarts' = 0 /\ [Next]_vars => SourceInv'
<1> SUFFICES ASSUME TypeOK, LockInv, SourceInv, restarts' = 0, [Next]_vars
             PROVE SourceInv'
  OBVIOUS
<1> USE ConstantsAssumption
    DEF SourceInv, Ensured, Repairing, Goto, Proceed, Finish, Online, companion
<1>0. /\ pc \in [Repeaters -> PCs] /\ seen \in [Repeaters -> Int]
      /\ lead \in Int /\ restarts \in Nat
  BY DEF TypeOK
<1>1. ASSUME NEW r \in Repeaters, Begin(r) PROVE SourceInv'
  BY <1>0, <1>1 DEF Begin
<1>2. ASSUME NEW r \in Repeaters, Authenticate(r) PROVE SourceInv'
  <2>1. UNCHANGED <<lead, up>>
    BY <1>2 DEF Authenticate, PrecheckReads, PrecheckFails, Verify, LoginSucceeds,
       LoginUnconfirmed, SavedAdminLogin, Reset, Recover
  <2>2. \E at \in {"idle", "verify", "login", "acl", "reset", "recover", "lock"} :
           pc' = [pc EXCEPT ![r] = at]
    BY <1>2 DEF Authenticate, PrecheckReads, PrecheckFails, Verify, LoginSucceeds,
       LoginUnconfirmed, SavedAdminLogin, Reset, Recover
  <2>3. \A q \in Repeaters : q # r => seen'[q] = seen[q]
    BY <1>0, <1>2 DEF Authenticate, PrecheckReads, PrecheckFails, Verify, LoginSucceeds,
       LoginUnconfirmed, SavedAdminLogin, Reset, Recover
  <2> QED
    BY <1>0, <2>1, <2>2, <2>3
<1>3. ASSUME NEW r \in Repeaters, Ensure(r) PROVE SourceInv'
  <2>1. CASE Acquire(r)
    BY <1>0, <2>1 DEF Acquire
  <2>2. CASE Assess(r)
    BY <1>0, <2>2 DEF Assess, SafeEitherWay, SafeLead
  <2>3. CASE NothingToRepair(r) \/ Repair(r) \/ Reboot(r)
    BY <1>0, <2>3 DEF NothingToRepair, Repair, Reboot
  <2>4. CASE Reconnected(r)
    BY <1>0, <2>4 DEF Reconnected
  <2>5. CASE ReconnectTimesOut(r)
    BY <1>0, <2>5 DEF ReconnectTimesOut
  <2>6. CASE Forward(r)
    BY <1>0, <2>6 DEF Forward, SafeEitherWay, SafeLead
  <2>7. CASE Confirm(r)
    <3>1. \A q \in Repeaters : pc[q] \notin Repairing
      BY <2>7 DEF Confirm, LockInv, Locked
    <3> QED
      BY <1>0, <2>7, <3>1 DEF Confirm
  <2> QED
    BY <1>3, <2>1, <2>2, <2>3, <2>4, <2>5, <2>6, <2>7 DEF Ensure
<1>4. ASSUME NEW r \in Repeaters, Write(r) PROVE SourceInv'
  BY <1>0, <1>4 DEF Write, ReloginSucceeds, ReloginUnconfirmed, ReadStamp, Send,
     PostReads, PostFails, SafeEitherWay
<1>5. ASSUME NEW r \in Repeaters, CommandRaises(r) \/ Cancel(r) PROVE SourceInv'
  BY <1>0, <1>5 DEF CommandRaises, Cancel
<1>6. CASE \E r \in Repeaters : OrdinaryCheck(r)
  BY <1>6 DEF OrdinaryCheck
<1>7. CASE CompanionBoots
  BY <1>7 DEF CompanionBoots
<1>8. CASE CompanionRestarts
  BY <1>0, <1>8 DEF CompanionRestarts
<1>9. CASE UNCHANGED vars
  BY <1>9 DEF vars
<1> QED
  BY <1>1, <1>2, <1>3, <1>4, <1>5, <1>6, <1>7, <1>8, <1>9 DEF Next, Step

(* Restarts are only ever counted up.                                      *)
LEMMA RestartsStep == TypeOK /\ [Next]_vars /\ restarts' = 0 => restarts = 0
<1> SUFFICES ASSUME TypeOK, [Next]_vars, restarts' = 0 PROVE restarts = 0
  OBVIOUS
<1>1. UNCHANGED restarts \/ restarts' = restarts + 1
  BY DEF Next, Step, Authenticate, Ensure, Write, Begin, PrecheckReads, PrecheckFails,
     Verify, LoginSucceeds, LoginUnconfirmed, SavedAdminLogin, Reset, Recover, Acquire,
     Assess, NothingToRepair, Repair, Reboot, Reconnected, ReconnectTimesOut, Forward,
     Confirm, ReloginSucceeds, ReloginUnconfirmed, ReadStamp, Send, PostReads, PostFails,
     CommandRaises, Cancel, OrdinaryCheck, CompanionBoots, CompanionRestarts, companion,
     vars
<1> QED
  BY <1>1 DEF TypeOK

LEMMA NextInv == IInv /\ [Next]_vars => IInv'
BY TypeStep, LockStep, SourceStep, RestartsStep DEF IInv

(* A step that moves a clock ahead is a write, and the timestamp it sends  *)
(* is the next second of a safe companion or a bounded estimate.           *)
LEMMA StepWritesSafeTime ==
  ASSUME IInv, restarts = 0, [Next]_vars, NEW r \in Repeaters, off'[r] > off[r]
  PROVE  off'[r] <= SafeLead + 1
<1> USE ConstantsAssumption DEF SafeLead
<1>0. off \in [Repeaters -> Int] /\ seen \in [Repeaters -> Int]
  BY DEF IInv, TypeOK
<1>1. \/ off' = off
      \/ \E q \in Repeaters : Reset(q) \/ Recover(q) \/ Send(q)
  BY DEF Next, Step, Authenticate, Ensure, Write, Begin, PrecheckReads, PrecheckFails,
     Verify, LoginSucceeds, LoginUnconfirmed, SavedAdminLogin, Acquire, Assess,
     NothingToRepair, Repair, Reboot, Reconnected, ReconnectTimesOut, Forward,
     Confirm, ReloginSucceeds, ReloginUnconfirmed, ReadStamp, PostReads, PostFails,
     CommandRaises, Cancel, OrdinaryCheck, CompanionBoots, CompanionRestarts, vars
<1>2. ASSUME NEW q \in Repeaters, Reset(q) \/ Recover(q) PROVE off'[r] <= SafeLead + 1
  BY <1>0, <1>2 DEF Reset, Recover, Reboots, Past
<1>3. ASSUME NEW q \in Repeaters, Send(q) PROVE off'[r] <= SafeLead + 1
  <2>1. pc[q] = "send"
    BY <1>3 DEF Send, Online
  <2>2. seen[q] <= SafeLead
    BY <2>1 DEF IInv, SourceInv, Ensured
  <2>3. PICK est \in 1..30, travel \in 0..30 :
          off'[q] \in {off[q], SenderEpoch(q, est) - travel} /\ (q # r => off'[r] = off[r])
    <3>1. PICK est \in Estimates, heard \in Delivered, answered \in Delivered :
            \E travel \in {0, est}, b \in BOOLEAN :
               off' = [off EXCEPT ![q] = IF b THEN SenderEpoch(q, est) - travel ELSE @]
      BY <1>3, Zenon DEF Send
    <3>2. PICK travel \in {0, est}, b \in BOOLEAN :
             off' = [off EXCEPT ![q] = IF b THEN SenderEpoch(q, est) - travel ELSE @]
      BY <3>1
    <3>3. off'[q] \in {off[q], SenderEpoch(q, est) - travel} /\ (q # r => off'[r] = off[r])
      BY <1>0, <3>2
    <3>4. est \in 1..30 /\ travel \in 0..30
      OBVIOUS
    <3> QED
      BY <3>3, <3>4
  <2>4. SenderEpoch(q, est) - travel <= SafeLead + 1
    BY <1>0, <2>2 DEF SenderEpoch, Larger
  <2> QED
    BY <1>0, <2>3, <2>4
<1> QED
  BY <1>0, <1>1, <1>2, <1>3

-----------------------------------------------------------------------------
(* A running sync has no outcome yet, and a reading that is not late gives *)
(* SUCCESS only in tolerance.                                              *)
SuccessInv ==
  \A r \in Repeaters :
    /\ pc[r] # "idle" => outcome[r] = "none"
    /\ outcome[r] = "success" /\ late[r] = NoReading => InTolerance(off[r])

LEMMA SuccessInit == Init => SuccessInv
BY DEF Init, SuccessInv

LEMMA SuccessStep ==
  TypeOK /\ SuccessInv /\ [Next]_vars => SuccessInv'
<1> SUFFICES ASSUME TypeOK, SuccessInv, [Next]_vars PROVE SuccessInv'
  OBVIOUS
<1> USE DEF SuccessInv, Goto, Proceed, Finish, Online, companion
<1>0. /\ pc \in [Repeaters -> PCs] /\ outcome \in [Repeaters -> Outcomes]
      /\ off \in [Repeaters -> Int] /\ late \in [Repeaters -> Int]
  BY DEF TypeOK
<1>1. ASSUME NEW r \in Repeaters, Begin(r) PROVE SuccessInv'
  BY <1>0, <1>1 DEF Begin
<1>2. ASSUME NEW r \in Repeaters, Authenticate(r) PROVE SuccessInv'
  <2>1. CASE PrecheckReads(r)
    BY <1>0, <2>1 DEF PrecheckReads
  <2>2. CASE PrecheckFails(r)
    BY <1>0, <2>2 DEF PrecheckFails
  <2>3. CASE Verify(r) \/ LoginSucceeds(r) \/ LoginUnconfirmed(r) \/ SavedAdminLogin(r)
    BY <1>0, <2>3 DEF Verify, LoginSucceeds, LoginUnconfirmed, SavedAdminLogin
  <2>4. CASE Reset(r) \/ Recover(r)
    BY <1>0, <2>4 DEF Reset, Recover, Reboots
  <2> QED
    BY <1>2, <2>1, <2>2, <2>3, <2>4 DEF Authenticate
<1>3. ASSUME NEW r \in Repeaters, Ensure(r) PROVE SuccessInv'
  BY <1>0, <1>3 DEF Ensure, Acquire, Assess, NothingToRepair, Repair, Reboot,
     Reconnected, ReconnectTimesOut, Forward, Confirm
<1>4. ASSUME NEW r \in Repeaters, Write(r) PROVE SuccessInv'
  <2>1. CASE Send(r)
    <3>1. PICK o \in {"none", "command_failed"} :
             /\ off' = [off EXCEPT ![r] = off'[r]]
             /\ outcome' = [outcome EXCEPT ![r] = o]
      BY <1>0, <2>1, Zenon DEF Send
    <3>2. pc[r] = "send" /\ UNCHANGED late
      BY <2>1 DEF Send
    <3>3. pc' = [pc EXCEPT ![r] = pc'[r]] /\ (pc'[r] # "idle" => outcome' = outcome)
      BY <1>0, <2>1 DEF Send
    <3> QED
      BY <1>0, <3>1, <3>2, <3>3
  <2>2. CASE PostReads(r)
    BY <1>0, <2>2 DEF PostReads
  <2>3. CASE ReloginSucceeds(r) \/ ReloginUnconfirmed(r) \/ ReadStamp(r) \/ PostFails(r)
    BY <1>0, <2>3 DEF ReloginSucceeds, ReloginUnconfirmed, ReadStamp, PostFails
  <2> QED
    BY <1>4, <2>1, <2>2, <2>3 DEF Write
<1>5. ASSUME NEW r \in Repeaters, CommandRaises(r) \/ Cancel(r) PROVE SuccessInv'
  BY <1>0, <1>5 DEF CommandRaises, Cancel
<1>6. ASSUME \/ \E r \in Repeaters : OrdinaryCheck(r)
             \/ CompanionBoots \/ CompanionRestarts \/ UNCHANGED vars
      PROVE SuccessInv'
  BY <1>6 DEF OrdinaryCheck, CompanionBoots, CompanionRestarts, vars
<1> QED
  BY <1>1, <1>2, <1>3, <1>4, <1>5, <1>6 DEF Next, Step

-----------------------------------------------------------------------------
(* The calm instance.  Every sync of r1 goes the one way there is from the *)
(* await it is in, and that way ends in SUCCESS.                           *)
OthersIdle == \A r \in Repeaters \ {r1} : pc[r] = "idle" /\ runs[r] = 0

(* Every field is defined for every repeater, and no clock is the one that *)
(* is safe only just.                                                      *)
CalmShape ==
  /\ DOMAIN pc = Repeaters /\ DOMAIN seen = Repeaters /\ DOMAIN outcome = Repeaters
  /\ DOMAIN runs = Repeaters /\ DOMAIN off = Repeaters /\ DOMAIN stamp = Repeaters
  /\ DOMAIN late = Repeaters /\ late[r1] = NoReading
  /\ off[r1] \in Int /\ stamp[r1] \in Int
  /\ lead \in Int \ {SafeLead} /\ future \subseteq Int \ {SafeLead}
  /\ restarts = 0
  /\ pc[r1] \in PCs

(* Before the reset: the stamp is below what a recovery would use.         *)
Before  == {"idle", "precheck", "verify", "login", "acl", "recover"}
(* From the reset to the login after it: the repeater knows nothing.       *)
Blank   == {"lock", "assess", "repair", "reboot", "reconnect", "forward", "confirm", "relogin"}
(* The companion is safe, and a second later it still is.                  *)
Settled == {"confirm", "relogin", "stamp", "send", "post"}

Stamped ==
  /\ pc[r1] \in Before => stamp[r1] < Larger(lead + 1, Day)
  /\ pc[r1] \in {"login", "acl", "recover", "reset", "send"} => seen[r1] = lead
  /\ pc[r1] \in {"reset", "stamp", "send", "post"} => stamp[r1] <= lead
  /\ pc[r1] \in Blank => stamp[r1] = Past
  /\ pc[r1] \in Blank \cup {"stamp", "send"} => off[r1] = Past
Repairable ==
  /\ up \/ pc[r1] = "reconnect"
  /\ lock = IF pc[r1] \in Locked THEN r1 ELSE NoOne
  /\ pc[r1] \in Before \cup {"reset", "lock", "assess", "repair"} =>
       (lead > SafeLead => \E x \in future : x > Grace)
  /\ pc[r1] = "repair" => lead > SafeLead
  /\ pc[r1] \in {"reboot", "reconnect"} => -Backdate \in future /\ \A x \in future : x < SafeLead
  /\ pc[r1] = "reconnect" /\ up => lead < SafeLead
  /\ pc[r1] = "forward" => lead < SafeLead
  /\ pc[r1] \in Settled => -1 <= lead /\ lead < SafeLead
SuccessComes ==
  /\ pc[r1] = "post" => off[r1] \in 0..Tolerance
  /\ pc[r1] = "idle" /\ runs[r1] > 0 => outcome[r1] = "success"

CalmGood == OthersIdle /\ CalmShape /\ Stamped /\ Repairable /\ SuccessComes
CalmInv  == world = "calm" => CalmGood

LEMMA CalmInit == MCInit => CalmInv
<1> SUFFICES ASSUME Calm!Init PROVE CalmGood
  BY DEF MCInit, CalmInv
<1> USE CalmAssumption, ConstantsAssumption DEF Calm!Init
<1>1. pc[r1] = "idle" /\ runs[r1] = 0 /\ up /\ restarts = 0 /\ lock = NoOne
  OBVIOUS
<1>2. /\ lead \in Int \ {SafeLead} /\ future \subseteq Int \ {SafeLead}
      /\ lead > SafeLead => \E x \in future : x > Grace
  OBVIOUS
<1>3. off[r1] \in Int /\ stamp[r1] \in Int /\ stamp[r1] < Day
  OBVIOUS
<1>4. OthersIdle /\ CalmShape
  BY <1>1, <1>2, <1>3 DEF OthersIdle, CalmShape, PCs, Calm!NoReading, NoReading
<1>5. Stamped
  <2>1. stamp[r1] < Larger(lead + 1, Day)
    BY <1>2, <1>3 DEF Larger, Day
  <2> QED BY <1>1, <2>1 DEF Stamped, Blank
<1>6. Repairable /\ SuccessComes
  BY <1>1, <1>2 DEF Repairable, SuccessComes, Locked, Settled
<1> QED BY <1>4, <1>5, <1>6 DEF CalmGood

(* Nobody else is synchronized or checked, cancels or restarts anything.   *)
LEMMA OnlyOne ==
  ASSUME CalmGood, Calm!Next, OnlyFirst
  PROVE  Calm!Begin(r1) \/ Calm!Step(r1) \/ Calm!OrdinaryCheck(r1) \/ Calm!CompanionBoots
<1>1. ASSUME NEW r \in Repeaters, r # r1 
      PROVE  ~Calm!Begin(r) /\ ~Calm!Step(r) /\ ~Calm!OrdinaryCheck(r)
  <2>1. pc[r] = "idle" /\ runs[r] = 0 /\ runs'[r] = 0 /\ stamp'[r] = stamp[r]
    BY <1>1 DEF CalmGood, OthersIdle, OnlyFirst
  <2>2. DOMAIN runs = Repeaters /\ DOMAIN stamp = Repeaters
    BY DEF CalmGood, CalmShape
  <2>3. ~Calm!Begin(r)
    BY <2>1, <2>2 DEF Calm!Begin
  <2>4. ~Calm!OrdinaryCheck(r)
    BY <2>1, <2>2 DEF Calm!OrdinaryCheck
  <2>5. ~Calm!Step(r)
    BY <2>1 DEF Calm!Step, Calm!Authenticate, Calm!Ensure, Calm!Write, Calm!Online, Calm!Commands,
       Calm!PrecheckReads, Calm!PrecheckFails, Calm!Verify, Calm!LoginSucceeds, Calm!LoginUnconfirmed, Calm!SavedAdminLogin, Calm!Reset, Calm!Recover,
       Calm!Acquire, Calm!Assess, Calm!NothingToRepair, Calm!Repair, Calm!Reboot, Calm!Reconnected, Calm!ReconnectTimesOut, Calm!Forward, Calm!Confirm,
       Calm!ReloginSucceeds, Calm!ReloginUnconfirmed, Calm!ReadStamp, Calm!Send, Calm!PostReads, Calm!PostFails, Calm!CommandRaises
  <2> QED BY <2>3, <2>4, <2>5
<1>2. ~Calm!CompanionRestarts
  BY DEF Calm!CompanionRestarts, CalmGood, CalmShape
<1>3. \A r \in Repeaters : ~Calm!Cancel(r)
  BY DEF Calm!Cancel
<1> QED BY <1>1, <1>2, <1>3 DEF Calm!Next

LEMMA CalmStep ==
  ASSUME CalmGood, Calm!Next, OnlyFirst
  PROVE  CalmGood'
<1> USE CalmAssumption, ConstantsAssumption
    DEF CalmGood, OthersIdle, CalmShape, Stamped, Repairable, SuccessComes, Before, Blank, Settled,
        PCs, Commands, Locked, Larger, SafeLead, Tolerance, Grace, Backdate, Day, Past, NoReading,
        Calm!Goto, Calm!Proceed, Calm!Finish, Calm!Released, Calm!Online, Calm!Delivered,
        Calm!companion, Calm!Fresh, Calm!Accepts, Administrators, Calm!SafeLead, Calm!Grace,
        Calm!Past, Calm!Day, Calm!Larger
<1>1. CASE Calm!Begin(r1)
  BY <1>1 DEF Calm!Begin, Calm!NoReading
<1>2. CASE Calm!OrdinaryCheck(r1)
  BY <1>2 DEF Calm!OrdinaryCheck
<1>3. CASE Calm!CompanionBoots
  <2>1. /\ pc[r1] = "reconnect" /\ up' = TRUE /\ lead' \in Calm!BootLeads
        /\ UNCHANGED <<pc, tries, seen, outcome, runs, off, stamp, late, future, restarts, lock>>
    BY <1>3 DEF Calm!CompanionBoots
  <2>2. -120 \in future /\ \A x \in future : x < SafeLead
    BY <2>1
  <2>3. lead' \in future
    <3>1. lead' \in future \cup {Past} /\ -120 <= lead'
      BY <2>1, <2>2 DEF Calm!BootLeads
    <3> QED BY <3>1
  <2>4. lead' \in Int \ {SafeLead} /\ lead' < SafeLead
    BY <2>2, <2>3
  <2> QED BY <2>1, <2>4
<1>4. CASE Calm!PrecheckReads(r1)
  BY <1>4 DEF Calm!PrecheckReads, Calm!InTolerance, Calm!Tolerance
<1>5. CASE Calm!PrecheckFails(r1)
  BY <1>5 DEF Calm!PrecheckFails, Calm!NoReading
<1>6. CASE Calm!Verify(r1)
  BY <1>6 DEF Calm!Verify
<1>7. CASE Calm!LoginSucceeds(r1)
  BY <1>7 DEF Calm!LoginSucceeds
<1>8. CASE Calm!LoginUnconfirmed(r1)
  BY <1>8 DEF Calm!LoginUnconfirmed
<1>9. CASE Calm!SavedAdminLogin(r1)
  BY <1>9 DEF Calm!SavedAdminLogin
<1>10. CASE Calm!Reset(r1)
  BY <1>10 DEF Calm!Reset, Calm!Reboots
<1>11. CASE Calm!Recover(r1)
  <2>1. Calm!RecoveryStamp(r1) > stamp[r1]
    <3>1. /\ pc[r1] = "recover" /\ seen[r1] = lead /\ lead \in Int
          /\ stamp[r1] \in Int /\ stamp[r1] < Larger(lead + 1, Day)
      BY <1>11 DEF Calm!Recover
    <3>2. Calm!RecoveryStamp(r1) = Larger(Larger(0, lead) + Day, 2 * Hour + Hour)
      BY <3>1 DEF Calm!RecoveryStamp, NewAdverts, Calm!Hour, Hour
    <3> QED BY <3>1, <3>2 DEF Hour
  <2> QED BY <1>11, <2>1 DEF Calm!Recover, Calm!Reboots
<1>12. CASE Calm!Acquire(r1)
  BY <1>12 DEF Calm!Acquire, Calm!LockFree
<1>13. CASE Calm!Assess(r1)
  BY <1>13 DEF Calm!Assess
<1>14. CASE Calm!NothingToRepair(r1)
  BY <1>14 DEF Calm!NothingToRepair, Calm!FutureContacts
<1>15. CASE Calm!Repair(r1)
  BY <1>15 DEF Calm!Repair, Calm!FutureContacts, Calm!Backdate
<1>16. CASE Calm!Reboot(r1)
  BY <1>16 DEF Calm!Reboot
<1>17. CASE Calm!Reconnected(r1)
  BY <1>17 DEF Calm!Reconnected
<1>18. CASE Calm!ReconnectTimesOut(r1)
  BY <1>18 DEF Calm!ReconnectTimesOut
<1>19. CASE Calm!Forward(r1)
  BY <1>19 DEF Calm!Forward
<1>20. CASE Calm!Confirm(r1)
  BY <1>20 DEF Calm!Confirm, Calm!SafeEitherWay
<1>21. CASE Calm!ReloginSucceeds(r1)
  BY <1>21 DEF Calm!ReloginSucceeds
<1>22. CASE Calm!ReloginUnconfirmed(r1)
  BY <1>22 DEF Calm!ReloginUnconfirmed, Calm!LoginsLeft
<1>23. CASE Calm!ReadStamp(r1)
  BY <1>23 DEF Calm!ReadStamp
<1>24. CASE Calm!Send(r1)
  BY <1>24 DEF Calm!Send, Calm!SenderEpoch
<1>25. CASE Calm!PostReads(r1)
  BY <1>25 DEF Calm!PostReads, Calm!InTolerance, Calm!Tolerance, Calm!NoReading
<1>26. CASE Calm!PostFails(r1)
  BY <1>26 DEF Calm!PostFails
<1>27. CASE Calm!CommandRaises(r1)
  BY <1>27 DEF Calm!CommandRaises, Calm!Commands
<1> HIDE CalmAssumption, ConstantsAssumption
    DEF CalmGood, OthersIdle, CalmShape, Stamped, Repairable, SuccessComes, Before, Blank, Settled,
        PCs, Commands, Locked, Larger, SafeLead, Tolerance, Grace, Backdate, Day, Past, NoReading,
        Calm!Goto, Calm!Proceed, Calm!Finish, Calm!Released, Calm!Online, Calm!Delivered,
        Calm!companion, Calm!Fresh, Calm!Accepts, Administrators, Calm!SafeLead, Calm!Grace,
        Calm!Past, Calm!Day, Calm!Larger
<1> QED BY OnlyOne, <1>1, <1>2, <1>3, <1>4, <1>5, <1>6, <1>7, <1>8, <1>9, <1>10, <1>11, <1>12, <1>13,
        <1>14, <1>15, <1>16, <1>17, <1>18, <1>19, <1>20, <1>21, <1>22, <1>23, <1>24, <1>25, <1>26,
        <1>27 DEF Calm!Step, Calm!Authenticate, Calm!Ensure, Calm!Write

LEMMA CalmNext == CalmInv /\ [MCNext]_mcvars => CalmInv'
<1> SUFFICES ASSUME CalmInv, [MCNext]_mcvars, world' = "calm" PROVE CalmGood'
  BY DEF CalmInv
<1>1. world = "calm" /\ CalmGood
  BY DEF MCNext, mcvars, CalmInv
<1>2. CASE Calm!Next /\ OnlyFirst
  BY <1>1, <1>2, CalmStep
<1>3. CASE UNCHANGED vars
  BY <1>1, <1>3 DEF vars, companion, CalmGood, OthersIdle, CalmShape, Stamped, Repairable, SuccessComes
<1> QED BY <1>1, <1>2, <1>3 DEF MCNext, mcvars

-----------------------------------------------------------------------------
(* The state of every sync, repeater and companion is well formed.         *)
THEOREM WriteTypeCorrect == Spec => []TypeOK
<1>1. IInv => TypeOK
  BY DEF IInv
<1> QED
  BY InitInv, NextInv, <1>1, PTL DEF Spec

(* Until it restarts on its own, the companion stays a safe source from    *)
(* its verification to the write, for any number of syncs that share it.   *)
THEOREM SourceStaysSafe == Spec => []SafeSource
<1>1. IInv => SafeSource
  BY DEF IInv, SourceInv, SafeSource
<1> QED
  BY InitInv, NextInv, <1>1, PTL DEF Spec

(* No write moves a clock further ahead than the next second of a safe     *)
(* companion.                                                              *)
THEOREM WritesStaySafe == Spec => WritesSafeTime
<1>1. IInv /\ [Next]_vars
      => [restarts = 0 => \A r \in Repeaters :
            off'[r] > off[r] => off'[r] <= SafeLead + 1]_vars
  BY StepWritesSafeTime
<1> QED
  BY InitInv, NextInv, <1>1, PTL DEF Spec, WritesSafeTime

(* If no reply of the pre-check is left behind, SUCCESS means that the     *)
(* clock of the repeater is within the tolerance.                          *)
THEOREM SuccessIsSet == Spec => []SuccessMeansSet
<1>1. TypeOK /\ SuccessInv => SuccessMeansSet
  BY DEF TypeOK, SuccessInv, SuccessMeansSet, InTolerance, Tolerance
<1>2. IInv => TypeOK
  BY DEF IInv
<1> QED
  BY InitInv, NextInv, SuccessInit, SuccessStep, <1>1, <1>2, PTL DEF Spec

(* Where nothing is lost, an administrator's sync ends in SUCCESS, from any*)
(* clock of the repeater, any replay state less than a day ahead and any   *)
(* companion whose clock can be repaired.                                  *)
THEOREM CalmSyncsSucceed == MCSpec => []CalmSyncSucceeds
<1>1. CalmInv => CalmSyncSucceeds
  BY DEF CalmInv, CalmGood, OthersIdle, SuccessComes, CalmSyncSucceeds, CleanSyncSucceeds
<1> QED
  BY CalmInit, CalmNext, <1>1, PTL DEF MCSpec
=============================================================================
