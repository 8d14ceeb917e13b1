---------------------------- MODULE MCClockGate -----------------------------
(***************************************************************************)
(* In one run, the abstract gate, the latency probe of one repeater and the*)
(* schedules of one entry.  They share no state: a behaviour is of one of  *)
(* the three, and the other two stay in an initial state in it.            *)
(***************************************************************************)
EXTENDS ClockGate, Naturals

CONSTANTS
  Attempts, Delay, Wait, Gap, Cap, Checks, Horizon, NoProbe, (* LatencyProbe *)
  Intervals, CheckEvery, CheckOptions, Late, Stops, None     (* Schedules    *)

VARIABLES
  part,
  now, pc, attempt, began, answered, completed, offset, probe, replies, checks,
  entry, opts, restored, due, timers, job, last, pending, ghost, store, since, promise,
  overtaken, stops

probe_vars    == <<now, pc, attempt, began, answered, completed, offset, probe, replies,
                   checks>>
schedule_vars == <<entry, opts, restored, due, timers, job, last, pending, ghost, store,
                   since, promise, overtaken, stops>>
mcvars == <<part, gate, probe_vars, schedule_vars>>

Probe == INSTANCE LatencyProbe WITH since <- began

Schedule == INSTANCE Schedules

ASSUME ProbeAssumption    == Probe!ConstantsAssumption
ASSUME ScheduleAssumption == Schedule!ConstantsAssumption

MCInit ==
  /\ part \in {"gate", "probe", "schedules"}
  /\ Init /\ Probe!Init /\ Schedule!Init
  /\ part # "schedules" => opts = CHOOSE o \in Schedule!Options : o.sync

OfSchedules(step) == part = "schedules" /\ step /\ UNCHANGED <<part, gate, probe_vars>>

MCNext ==
  \/ part = "gate" /\ Next /\ UNCHANGED <<part, probe_vars, schedule_vars>>
  \/ part = "probe" /\ Probe!Next /\ UNCHANGED <<part, gate, schedule_vars>>
  \/ OfSchedules(Schedule!Next)

MCSpec ==
  /\ MCInit /\ [][MCNext]_mcvars
  /\ WF_mcvars(OfSchedules(Schedule!Fires))
  /\ WF_mcvars(OfSchedules(Schedule!JobEnds))
  /\ WF_mcvars(OfSchedules(Schedule!Tick))
  /\ WF_mcvars(OfSchedules(Schedule!GhostEnds))
  /\ WF_mcvars(OfSchedules(Schedule!GhostLands))

(* Travel time is not reported as drift: a published offset is never lower *)
(* than the delay of its reply explains, whatever was retransmitted, late  *)
(* or overheard, and exceeds the truth by at most one delay if its check   *)
(* transmitted once.  (The probe is well typed as well.)                   *)
WithinDelay == Probe!TypeOK /\ Probe!WithinDelay

(* A loaded entry has the timers its options ask for, one each, and none is*)
(* left armed by a reload or an unload.  (And the schedules are well typed.)*)
OneTimerEach == Schedule!TypeOK /\ Schedule!OneTimerEach

(* However long Home Assistant was away, one overdue sync is made up for:  *)
(* the next one after it comes a full interval later.                      *)
SpacedRuns == Schedule!SpacedRuns

(* A due time, once announced and saved, is neither put off by a restart or*)
(* a reload that leaves the interval as it was, nor lost while Home        *)
(* Assistant is off.                                                       *)
DueSurvives == Schedule!DueSurvives

(* When no save is on its way the file has the due time, the interval and  *)
(* the summary of the loaded entry, unless a stopped orchestrator wrote it *)
(* after the loaded one.                                                   *)
FileFollows == Schedule!FileFollows

(* An entry that stays loaded with automatic sync enabled keeps coming to  *)
(* its due time, whatever became of the earlier ones.                      *)
KeepsTrying == part = "schedules" => Schedule!KeepsTrying
=============================================================================
