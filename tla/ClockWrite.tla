----------------------------- MODULE ClockWrite -----------------------------
(***************************************************************************)
(* The clock write inside a repeater sync, which ClockManager leaves as    *)
(* one await: log in, reset the repeater, make the companion radio a safe  *)
(* clock source, log in again, send "clock sync", verify.  Each repeater   *)
(* has at most one sync (ClockGate), so a sync is named by its repeater;   *)
(* all of them share one companion.                                        *)
(*                                                                         *)
(* Clocks, contact timestamps and replay stamps are offsets in seconds     *)
(* from Home Assistant UTC, and the passage of time is left out: what      *)
(* decides here is how far clocks stand apart.  An action is the code of a *)
(* sync between two awaits of the companion or of the radio.               *)
(*                                                                         *)
(* The ungated pre-check of beta15 and the gated one of beta10, which only *)
(* logs its offset, are one await here: what the second transmission may   *)
(* leave behind, a newer replay stamp or a late reply, is that of the first*)
(* and a reading of it decides nothing.                                    *)
(*                                                                         *)
(* External, as the source relies on it: a companion boots with the latest *)
(* timestamp of its contacts and sets its clock only forward; a repeater   *)
(* ignores an admin request older than the last one it accepted, forgets   *)
(* it on clkreboot, accepts a blank login of a saved administrator, and    *)
(* sets its clock only forward.                                            *)
(***************************************************************************)
EXTENDS Integers

CONSTANTS
  Repeaters,       (* repeaters with a saved password                      *)
  NoOne,           (* the companion lock is free                           *)
  Access,          (* what the saved password grants at each repeater      *)
  SavedAdmin,      (* repeaters that hold this companion as administrator  *)
  Advert,          (* offset of the contact timestamps of each repeater    *)
  Companions,      (* initial clock and contact timestamps, [lead, future] *)
  Offsets,         (* initial clock offsets of the repeaters               *)
  Stamps,          (* initial replay stamps of the repeaters               *)
  Estimates,       (* one-way estimates, max(1, ceil(rtt / 2)) up to 30    *)
  Firmware13,      (* the companion firmware supports the repair           *)
  Lossy,           (* radio frames and their answers may be lost           *)
  LateReplies,     (* a clock reply may come after its check gave up       *)
  Cancels,         (* a caller may cancel a sync                           *)
  SlowBoots,       (* a boot may outlast the reconnect timeout             *)
  MaxRestarts,     (* bound: restarts of the companion on its own          *)
  MaxSyncs         (* bound: syncs of one repeater                         *)

SafeLead       == 30          (* beta12 _COMPANION_SAFE_LEAD_SECONDS        *)
Tolerance      == 30          (* beta10 _SUCCESSFUL_SYNC_OFFSET_SECONDS     *)
Grace          == 30          (* beta9 _CONTACT_FUTURE_GRACE_SECONDS        *)
Backdate       == 120         (* beta9 _CONTACT_REPAIR_BACKDATE_SECONDS     *)
RepairAttempts == 3           (* beta9 _COMPANION_REPAIR_ATTEMPTS           *)
LoginAttempts  == 3           (* beta8 _POST_REBOOT_LOGIN_ATTEMPTS          *)
Day            == 86400       (* beta10 _RECOVERY_MIN_FUTURE_SECONDS        *)
Hour           == 3600        (* beta10 _RECOVERY_CONTACT_MARGIN_SECONDS    *)
Past           == -1000000    (* a clock, or a replay stamp, after a reset  *)
NoReading      == -2000000    (* no clock reply is late                     *)

ASSUME ConstantsAssumption ==
  /\ NoOne \notin Repeaters
  /\ Access \in [Repeaters -> {"admin", "guest", "none"}]
  /\ SavedAdmin \subseteq Repeaters
  /\ Advert \in [Repeaters -> Int]
  /\ Companions \subseteq [lead : Int, future : SUBSET Int]
  /\ Offsets \subseteq Int /\ Stamps \subseteq Int
  /\ Estimates \subseteq 1..30
  /\ {Firmware13, Lossy, LateReplies, Cancels, SlowBoots} \subseteq BOOLEAN
  /\ MaxRestarts \in Nat /\ MaxSyncs \in Nat

VARIABLES
  pc,        (* the await a sync is in                                     *)
  tries,     (* its repair or login attempt                                *)
  seen,      (* the companion offset its coroutine holds                   *)
  outcome,   (* ClockSyncState of its last sync                            *)
  runs,      (* syncs begun                                                *)
  off,       (* clock offset of a repeater                                 *)
  stamp,     (* timestamp of the last admin request a repeater accepted    *)
  late,      (* the reading in a pre-check reply that came too late        *)
  lead,      (* clock offset of the companion                              *)
  future,    (* timestamps of its saved contacts                           *)
  up,        (* it answers commands                                        *)
  restarts,  (* restarts of its own so far                                 *)
  lock       (* _beta9_companion_clock_lock                                *)

companion == <<lead, future, up, restarts>>
vars == <<pc, tries, seen, outcome, runs, off, stamp, late, companion, lock>>

Outcomes == {"none", "success", "failed", "unauthorized", "verification_failed",
             "command_failed", "cancelled"}
(* Awaits that raise while the companion is away.                          *)
Commands == {"verify", "login", "acl", "reset", "recover", "assess", "repair",
             "reboot", "forward", "confirm", "relogin", "send", "post"}
Locked   == {"assess", "repair", "reboot", "reconnect", "forward", "confirm"}
Ensured  == {"relogin", "stamp", "send"}
PCs      == Commands \cup {"idle", "precheck", "lock", "reconnect", "stamp"}

Larger(a, b) == IF a >= b THEN a ELSE b
Delivered == IF Lossy THEN BOOLEAN ELSE {TRUE}

OnlyAhead(o)   == o <= Tolerance                            (* a mutant *)
InTolerance(o) == -Tolerance <= o /\ o <= Tolerance

-----------------------------------------------------------------------------
(* A repeater accepts a login with the saved password, or a command, that  *)
(* carries the companion's clock.                                          *)
Fresh(r)   == lead >= stamp[r]
Accepts(r) == Access[r] # "none" /\ Fresh(r)

(* The clock a booting companion takes from its contacts.                  *)
BootLeads == {x \in future \cup {Past} : \A y \in future : y <= x}

-----------------------------------------------------------------------------
Goto(r, at) == pc' = [pc EXCEPT ![r] = at]
Online(r, at) == pc[r] = at /\ up

KeepsLock(r) == lock                                        (* a mutant *)
Released(r)  == IF lock = r THEN NoOne ELSE lock

(* A sync returns; leaving the companion's section frees its lock.         *)
Finish(r, o) ==
  /\ Goto(r, "idle")
  /\ outcome' = [outcome EXCEPT ![r] = o]
  /\ tries' = [tries EXCEPT ![r] = 0]
  /\ seen' = [seen EXCEPT ![r] = 0]
  /\ lock' = Released(r)
  /\ UNCHANGED runs

Proceed(r, at, n) ==
  /\ Goto(r, at)
  /\ tries' = [tries EXCEPT ![r] = n]
  /\ UNCHANGED <<outcome, runs>>

(* A sync is called: the call reaches its authenticated pre-check.         *)
Begin(r) ==
  /\ pc[r] = "idle"
  /\ runs[r] < MaxSyncs
  /\ Goto(r, "precheck")
  /\ outcome' = [outcome EXCEPT ![r] = "none"]
  /\ runs' = [runs EXCEPT ![r] = @ + 1]
  /\ late' = [late EXCEPT ![r] = NoReading]
  /\ UNCHANGED <<tries, seen, off, stamp, companion, lock>>

(* The pre-check reads the clock: a repeater in tolerance is left alone.   *)
PrecheckReads(r) ==
  /\ Online(r, "precheck")
  /\ Access[r] = "admin"
  /\ Fresh(r)
  /\ stamp' = [stamp EXCEPT ![r] = lead]
  /\ IF InTolerance(off[r])
     THEN Finish(r, "success")
     ELSE Proceed(r, "verify", 0) /\ UNCHANGED <<seen, lock>>
  /\ UNCHANGED <<off, late, companion>>

(* It gets no reading in time.  Its login may still have been accepted,    *)
(* and its reply may still be under way.                                   *)
PrecheckFails(r) ==
  /\ pc[r] = "precheck"
  /\ Lossy \/ LateReplies \/ ~up \/ Access[r] # "admin" \/ ~Fresh(r)
  /\ \E heard \in IF up /\ Accepts(r) THEN BOOLEAN ELSE {FALSE} :
        /\ stamp' = [stamp EXCEPT ![r] = IF heard THEN lead ELSE @]
        /\ late' = [late EXCEPT ![r] = IF heard /\ LateReplies /\ Access[r] = "admin"
                                       THEN off[r] ELSE @]
  /\ Proceed(r, "verify", 0)
  /\ UNCHANGED <<seen, off, companion, lock>>

(* The companion's clock is read before anything changes it: the recovery  *)
(* timestamp is computed from this value later.                            *)
Verify(r) ==
  /\ Online(r, "verify")
  /\ seen' = [seen EXCEPT ![r] = lead]
  /\ Proceed(r, "login", 0)
  /\ UNCHANGED <<off, stamp, late, companion, lock>>

LoginSucceeds(r) ==
  /\ Online(r, "login")
  /\ Accepts(r)
  /\ stamp' = [stamp EXCEPT ![r] = lead]
  /\ IF Access[r] = "admin"
     THEN Proceed(r, "reset", 0) /\ UNCHANGED <<seen, lock>>
     ELSE Finish(r, "unauthorized")
  /\ UNCHANGED <<off, late, companion>>

LoginUnconfirmed(r) ==
  /\ Online(r, "login")
  /\ Lossy \/ ~Accepts(r)
  /\ \E heard \in IF Accepts(r) THEN BOOLEAN ELSE {FALSE} :
        stamp' = [stamp EXCEPT ![r] = IF heard THEN lead ELSE @]
  /\ Proceed(r, "acl", 0)
  /\ UNCHANGED <<seen, off, late, companion, lock>>

(* A blank login shows whether the repeater knows this companion as        *)
(* administrator, whatever its replay state.                               *)
SavedAdminLogin(r) ==
  /\ Online(r, "acl")
  /\ \E heard \in Delivered :
        IF heard /\ r \in SavedAdmin
        THEN Proceed(r, "recover", 0) /\ UNCHANGED <<seen, lock>>
        ELSE Finish(r, "unauthorized")
  /\ UNCHANGED <<off, stamp, late, companion>>

(* clkreboot reaches the repeater: clock and replay state are gone.        *)
Reboots(r, executed) ==
  /\ off' = [off EXCEPT ![r] = IF executed THEN Past ELSE @]
  /\ stamp' = [stamp EXCEPT ![r] = IF executed THEN Past ELSE @]

Reset(r) ==
  /\ Online(r, "reset")
  /\ \E heard \in Delivered : Reboots(r, heard /\ Fresh(r))
  /\ Proceed(r, "lock", 0)
  /\ UNCHANGED <<seen, late, companion, lock>>

RecoveryNow(r)   == Larger(0, seen[r])                       (* a mutant *)
RecoveryStamp(r) == Larger(Larger(0, seen[r]) + Day, Advert[r] + Hour)

(* The same command with an explicit timestamp beyond the replay state the *)
(* repeater is believed to keep.                                           *)
Recover(r) ==
  /\ Online(r, "recover")
  /\ \E heard \in Delivered : Reboots(r, heard /\ RecoveryStamp(r) > stamp[r])
  /\ Proceed(r, "lock", 0)
  /\ UNCHANGED <<seen, late, companion, lock>>

-----------------------------------------------------------------------------
(* _ensure_companion_clock, under the companion lock.                      *)
LockAnyTime(r) == TRUE                                       (* a mutant *)
LockFree(r)    == lock = NoOne

Acquire(r) ==
  /\ pc[r] = "lock"
  /\ LockFree(r)
  /\ lock' = r
  /\ Proceed(r, "assess", 0)
  /\ UNCHANGED <<seen, off, stamp, late, companion>>

Assess(r) ==
  /\ Online(r, "assess")
  /\ IF lead <= SafeLead
     THEN Proceed(r, "forward", 0) /\ UNCHANGED <<seen, lock>>
     ELSE IF Firmware13
          THEN Proceed(r, "repair", 1) /\ UNCHANGED <<seen, lock>>
          ELSE Finish(r, "verification_failed")
  /\ UNCHANGED <<off, stamp, late, companion>>

FutureContacts == {x \in future : x > Grace}

NothingToRepair(r) ==
  /\ Online(r, "repair")
  /\ FutureContacts = {}
  /\ Finish(r, "verification_failed")
  /\ UNCHANGED <<off, stamp, late, companion>>

(* Every contact from the future is written back behind Home Assistant's   *)
(* clock; the frames are not acknowledged.                                 *)
Repair(r) ==
  /\ Online(r, "repair")
  /\ FutureContacts # {}
  /\ \E lost \in IF Lossy THEN SUBSET FutureContacts ELSE {{}} :
        future' = (future \ (FutureContacts \ lost)) \cup {-Backdate}
  /\ Proceed(r, "reboot", tries[r])
  /\ UNCHANGED <<seen, off, stamp, late, lead, up, restarts, lock>>

Reboot(r) ==
  /\ Online(r, "reboot")
  /\ up' = FALSE
  /\ Proceed(r, "reconnect", tries[r])
  /\ UNCHANGED <<seen, off, stamp, late, lead, future, restarts, lock>>

Reconnected(r) ==
  /\ Online(r, "reconnect")
  /\ \/ /\ lead <= SafeLead
        /\ Proceed(r, "forward", 0)
        /\ UNCHANGED <<seen, lock>>
     \/ /\ lead > SafeLead
        /\ tries[r] < RepairAttempts
        /\ Proceed(r, "repair", tries[r] + 1)
        /\ UNCHANGED <<seen, lock>>
     \/ /\ lead > SafeLead
        /\ tries[r] >= RepairAttempts
        /\ Finish(r, "verification_failed")
  /\ UNCHANGED <<off, stamp, late, companion>>

ReconnectTimesOut(r) ==
  /\ SlowBoots
  /\ pc[r] = "reconnect"
  /\ ~up
  /\ Finish(r, "failed")
  /\ UNCHANGED <<off, stamp, late, companion>>

(* A companion behind is set forward, never backwards.                     *)
Forward(r) ==
  /\ Online(r, "forward")
  /\ lead' = IF lead < -1 THEN 0 ELSE lead
  /\ Proceed(r, "confirm", 0)
  /\ UNCHANGED <<seen, off, stamp, late, future, up, restarts, lock>>

SafeEitherWay(o) == -SafeLead <= o /\ o <= SafeLead

Confirm(r) ==
  /\ Online(r, "confirm")
  /\ IF SafeEitherWay(lead)
     THEN /\ Proceed(r, "relogin", 1)
          /\ lock' = Released(r)
          /\ UNCHANGED seen
     ELSE Finish(r, "verification_failed")
  /\ UNCHANGED <<off, stamp, late, companion>>

-----------------------------------------------------------------------------
LoginsLeft(r)   == tries[r] < LoginAttempts

(* Any accepted password login will do here, administrator or not.         *)
ReloginSucceeds(r) ==
  /\ Online(r, "relogin")
  /\ Accepts(r)
  /\ stamp' = [stamp EXCEPT ![r] = lead]
  /\ Proceed(r, "stamp", 0)
  /\ UNCHANGED <<seen, off, late, companion, lock>>

ReloginUnconfirmed(r) ==
  /\ Online(r, "relogin")
  /\ Lossy \/ ~Accepts(r)
  /\ IF LoginsLeft(r)
     THEN Proceed(r, "relogin", tries[r] + 1) /\ UNCHANGED <<seen, lock>>
     ELSE Finish(r, "unauthorized")
  /\ UNCHANGED <<off, stamp, late, companion>>

(* The companion's clock is read once more for the timestamp of the write, *)
(* and taken as it is; Home Assistant's clock stands in when it is away.   *)
ReadStamp(r) ==
  /\ pc[r] = "stamp"
  /\ seen' = [seen EXCEPT ![r] = IF up THEN lead ELSE 0]
  /\ Proceed(r, "send", 0)
  /\ UNCHANGED <<off, stamp, late, companion, lock>>

SenderPlusBoth(r, est) == seen[r] + 1 + est                  (* a mutant *)
SenderEpoch(r, est)    == Larger(seen[r] + 1, est)

(* "clock sync": the repeater takes the timestamp if it is ahead of its    *)
(* own clock, which then lags by the time the frame travelled.  Only an    *)
(* error that arrives within the grace period stops the sync; by the next  *)
(* login the companion's clock has passed the estimate it was given.       *)
Send(r) ==
  /\ Online(r, "send")
  /\ \E est \in Estimates, heard \in Delivered, answered \in Delivered :
     \E travel \in {0, est} :
        LET sender == SenderEpoch(r, est)
            obeyed == heard /\ sender >= stamp[r]
            sets   == obeyed /\ sender > off[r]
        IN /\ off' = [off EXCEPT ![r] = IF sets THEN sender - travel ELSE @]
           /\ IF obeyed /\ ~sets /\ answered
              THEN Finish(r, "command_failed")
              ELSE Proceed(r, "post", 0) /\ UNCHANGED <<seen, lock>>
  /\ UNCHANGED <<stamp, late, companion>>

(* The post-check: its own reading, or a late reply of the pre-check.      *)
PostReads(r) ==
  /\ Online(r, "post")
  /\ Accepts(r)
  /\ stamp' = [stamp EXCEPT ![r] = lead]
  /\ \E reading \in {off[r]} \cup ({late[r]} \ {NoReading}) :
        Finish(r, IF InTolerance(reading) THEN "success" ELSE "verification_failed")
  /\ UNCHANGED <<off, late, companion>>

PostFails(r) ==
  /\ Online(r, "post")
  /\ Lossy \/ ~Accepts(r)
  /\ Finish(r, "verification_failed")
  /\ UNCHANGED <<off, stamp, late, companion>>

-----------------------------------------------------------------------------
CommandRaises(r) ==
  /\ pc[r] \in Commands
  /\ ~up
  /\ Finish(r, "failed")
  /\ UNCHANGED <<off, stamp, late, companion>>

Cancel(r) ==
  /\ Cancels
  /\ pc[r] # "idle"
  /\ Finish(r, "cancelled")
  /\ UNCHANGED <<off, stamp, late, companion>>

(* A clock check outside any sync logs in with the companion's clock.      *)
OrdinaryCheck(r) ==
  /\ pc[r] = "idle"
  /\ up
  /\ Accepts(r)
  /\ stamp[r] # lead
  /\ stamp' = [stamp EXCEPT ![r] = lead]
  /\ UNCHANGED <<pc, tries, seen, outcome, runs, off, late, companion, lock>>

CompanionBoots ==
  /\ ~up
  /\ up' = TRUE
  /\ lead' \in BootLeads
  /\ UNCHANGED <<pc, tries, seen, outcome, runs, off, stamp, late, future,
                 restarts, lock>>

CompanionRestarts ==
  /\ up
  /\ restarts < MaxRestarts
  /\ up' = FALSE
  /\ restarts' = restarts + 1
  /\ UNCHANGED <<pc, tries, seen, outcome, runs, off, stamp, late, lead,
                 future, lock>>

Authenticate(r) == \/ PrecheckReads(r) \/ PrecheckFails(r) \/ Verify(r)
                   \/ LoginSucceeds(r) \/ LoginUnconfirmed(r)
                   \/ SavedAdminLogin(r) \/ Reset(r) \/ Recover(r)
Ensure(r) == \/ Acquire(r) \/ Assess(r) \/ NothingToRepair(r) \/ Repair(r)
             \/ Reboot(r) \/ Reconnected(r) \/ ReconnectTimesOut(r)
             \/ Forward(r) \/ Confirm(r)
Write(r) == \/ ReloginSucceeds(r) \/ ReloginUnconfirmed(r) \/ ReadStamp(r)
            \/ Send(r) \/ PostReads(r) \/ PostFails(r)
Step(r) == Authenticate(r) \/ Ensure(r) \/ Write(r) \/ CommandRaises(r)

Init ==
  /\ pc = [r \in Repeaters |-> "idle"]
  /\ tries = [r \in Repeaters |-> 0]
  /\ seen = [r \in Repeaters |-> 0]
  /\ outcome = [r \in Repeaters |-> "none"]
  /\ runs = [r \in Repeaters |-> 0]
  /\ off \in [Repeaters -> Offsets]
  /\ stamp \in [Repeaters -> Stamps]
  /\ late = [r \in Repeaters |-> NoReading]
  /\ \E c \in Companions : lead = c.lead /\ future = c.future
  /\ up = TRUE
  /\ restarts = 0
  /\ lock = NoOne

Next == \/ \E r \in Repeaters : \/ Begin(r) \/ Step(r) \/ Cancel(r)
                                \/ OrdinaryCheck(r)
        \/ CompanionBoots
        \/ CompanionRestarts

(* The event loop resumes a coroutine whose await is over, every await has *)
(* a timeout, and a companion that restarts comes back.                    *)
Spec == /\ Init /\ [][Next]_vars
        /\ \A r \in Repeaters : WF_vars(Step(r))
        /\ WF_vars(CompanionBoots)

-----------------------------------------------------------------------------
TypeOK ==
  /\ pc \in [Repeaters -> PCs]
  /\ tries \in [Repeaters -> 0..3]
  /\ seen \in [Repeaters -> Int]
  /\ outcome \in [Repeaters -> Outcomes]
  /\ runs \in [Repeaters -> Nat]
  /\ off \in [Repeaters -> Int]
  /\ stamp \in [Repeaters -> Int]
  /\ late \in [Repeaters -> Int]
  /\ lead \in Int /\ future \in SUBSET Int
  /\ up \in BOOLEAN /\ restarts \in Nat
  /\ lock \in Repeaters \cup {NoOne}

(* Once a sync has verified the companion, and until its write is out, the *)
(* companion stays up and within the safe lead, whatever the other syncs   *)
(* that share it do: none of them repairs or reboots it in that time.  Only*)
(* a companion that restarts on its own can break this.                    *)
SafeSource ==
  restarts = 0 => \A r \in Repeaters : pc[r] \in Ensured => up /\ SafeEitherWay(lead)

(* Until the companion has restarted on its own, no write moves a clock    *)
(* further ahead than a safe companion's next second, or than the largest  *)
(* latency estimate.                                                       *)
WritesSafeTime ==
  [][restarts = 0 => \A r \in Repeaters :
       off'[r] > off[r] => off'[r] <= SafeLead + 1]_vars

(* A sync that reports SUCCESS, with no reply of its pre-check left behind,*)
(* leaves a repeater within the tolerance.                                 *)
SuccessMeansSet ==
  \A r \in Repeaters : outcome[r] = "success" /\ late[r] = NoReading
    => off[r] \in -Tolerance..Tolerance

(* "A sync is successful only when the final verified offset is within     *)
(* +-30 seconds", late replies or not.                                     *)
SuccessIsWithinTolerance ==
  \A r \in Repeaters : outcome[r] = "success" => off[r] \in -Tolerance..Tolerance

(* With an administrator password and a radio that loses nothing, a sync   *)
(* ends in SUCCESS: stale replay state is recovered, an ahead companion is *)
(* repaired, a companion behind is set forward.                            *)
CleanSyncSucceeds ==
  \A r \in Repeaters :
    pc[r] = "idle" /\ runs[r] > 0 => outcome[r] \in {"success", "cancelled"}

(* A recovery reset that is transmitted clears the repeater's replay state.*)
RecoveryResets ==
  [][\A r \in Repeaters : pc[r] = "recover" /\ pc'[r] = "lock" => stamp'[r] = Past]_vars

(* Every sync ends, and frees the companion for the next one.              *)
SyncsEnd ==
  /\ \A r \in Repeaters : pc[r] # "idle" ~> pc[r] = "idle"
  /\ lock # NoOne ~> lock = NoOne
=============================================================================
