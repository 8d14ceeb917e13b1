----------------------------- MODULE Schedules -----------------------------
(***************************************************************************)
(* The two automatic schedules of an entry: the timer of the fleet check,  *)
(* kept in memory, and the timer of the fleet sync, whose due time and last*)
(* summary are also kept in a file.  The entry is loaded, unloaded and     *)
(* reloaded with other options, and Home Assistant may crash; the file is  *)
(* written some time after a save is asked for.                            *)
(*                                                                         *)
(* A time is how far ahead it lies, negative when overdue.                 *)
(***************************************************************************)
EXTENDS Integers, Sequences

CONSTANTS
  Intervals,   (* hours between automatic syncs that can be configured     *)
  CheckEvery,  (* hours between automatic checks                           *)
  CheckOptions,(* may automatic checks be enabled: a set of Booleans       *)
  Late,        (* bound: how long ago an overdue time is told apart        *)
  Stops,       (* bound: unloads and crashes                               *)
  None

ConstantsAssumption ==
  /\ Intervals \subseteq Nat \ {0}
  /\ \E i \in Intervals : \A k \in Intervals : k <= i
  /\ CheckEvery \in Nat \ {0} /\ Late \in Nat
  /\ CheckOptions # {} /\ CheckOptions \subseteq BOOLEAN
  /\ Stops \in Nat
  /\ None \notin Int

VARIABLES
  entry,     (* off, loading (state restored, platforms being set up), on  *)
  opts,      (* the options: [sync, check: enabled, every: interval_hours] *)
  restored,  (* _restored_due                                              *)
  due,       (* next_automatic_sync                                        *)
  timers,    (* armed timers: [who, at]                                    *)
  job,       (* the clock operation under way                              *)
  last,      (* state of _last_summary                                     *)
  pending,   (* saves of this orchestrator on their way to the file        *)
  ghost,     (* the unloaded orchestrator: its cancelled run and its saves *)
  store,     (* the file                                                   *)
  since,     (* history: time since the last automatic sync of this load   *)
  promise,   (* history: the due time last announced for opts, if the stop *)
             (*   that followed found it saved and no sync under way       *)
  overtaken, (* history: a stopped orchestrator wrote the file last        *)
  stops

vars == <<entry, opts, restored, due, timers, job, last, pending, ghost, store, since, promise,
          overtaken, stops>>
memory == <<entry, opts, restored, due, timers, job, last>>

Longest  == CHOOSE i \in Intervals : \A k \in Intervals : k <= i
Syncing  == job \in {"auto", "manual"}
NoGhost  == [run |-> FALSE, every |-> 0, disk |-> <<>>]
Options  == [sync : BOOLEAN, check : CheckOptions, every : Intervals]
NoDue    == [at |-> None, every |-> 0]

Init ==
  /\ entry = "off" /\ opts \in Options
  /\ restored = None /\ due = None /\ timers = {}
  /\ job = "none" /\ last = "none"
  /\ pending = <<>> /\ ghost = NoGhost
  /\ store = [due |-> None, every |-> 0, last |-> "none"]
  /\ since = Longest /\ promise = NoDue /\ overtaken = FALSE /\ stops = 0


(* A save reads the state when it is asked for; the one under way is not   *)
(* replaced, a later one that still waits is.                              *)
Save(queue, when, every, summary) ==
  LET value == [due |-> when, every |-> every, last |-> summary]
  IN IF Len(queue) < 2 THEN Append(queue, value) ELSE <<queue[1], value>>

(* async_initialize, with the options the entry now has.                   *)
Load ==
  /\ entry = "off"
  /\ entry' = "loading"
  /\ opts' \in Options
  /\ restored' = IF store.every = opts'.every THEN store.due ELSE None
  /\ last' = store.last
  /\ since' = Longest
  /\ UNCHANGED <<due, timers, job, pending, ghost, store, promise, overtaken, stops>>

SetupFails ==
  /\ entry = "loading"
  /\ entry' = "off" /\ restored' = None
  /\ UNCHANGED <<opts, due, timers, job, last, pending, ghost, store, since, promise,
                 overtaken, stops>>

Arm(who, at) == [who |-> who, at |-> at]

(* The due time announced by this schedule, or by the one before it when   *)
(* the options are the same.                                               *)
Announce(at) == promise' = IF promise.every = opts.every /\ promise.at # None
                           THEN promise ELSE [at |-> at, every |-> opts.every]

FromNowOn  == opts.every                                      (* a mutant *)
FirstDue   == IF restored # None THEN restored ELSE opts.every

StartSchedulers ==
  /\ entry = "loading"
  /\ entry' = "on" /\ restored' = None
  /\ LET checks == IF opts.check THEN {Arm("check", CheckEvery)} ELSE {}
     IN IF opts.sync
        THEN /\ due' = FirstDue
             /\ timers' = checks \cup {Arm("sync", FirstDue)}
             /\ Announce(FirstDue)
             /\ pending' = Save(pending, FirstDue, opts.every, last)
        ELSE /\ due' = None /\ timers' = checks /\ promise' = NoDue
             /\ pending' = Save(pending, None, opts.every, last)
  /\ UNCHANGED <<opts, job, last, ghost, store, since, overtaken, stops>>

FromOldDue(at) == at + opts.every                             (* a mutant *)
NextDue(at)    == opts.every

NoRearm(t) == timers' = timers \ {t}                          (* a mutant *)
Rearm(t)   == timers' = (timers \ {t}) \cup {Arm("sync", NextDue(t.at))}

(* The sync timer fires: a run starts unless another operation is under    *)
(* way or a password is missing, and the next is scheduled from now.       *)
SyncDue(t) ==
  /\ t \in timers /\ t.who = "sync" /\ t.at <= 0
  /\ due' = NextDue(t.at)
  /\ Rearm(t)
  /\ promise' = [at |-> NextDue(t.at), every |-> opts.every]
  /\ \/ /\ job # "none"
        /\ pending' = Save(pending, NextDue(t.at), opts.every, last)
        /\ UNCHANGED <<job, last, since>>
     \/ /\ job = "none"
        /\ job' = "auto" /\ since' = 0
        /\ pending' = Save(pending, NextDue(t.at), opts.every, last)
        /\ UNCHANGED last
     \/ /\ ~Syncing
        /\ last' = "refused"
        /\ pending' = Save(Save(pending, None, opts.every, "refused"),
                           NextDue(t.at), opts.every, "refused")
        /\ UNCHANGED <<job, since>>
  /\ UNCHANGED <<entry, opts, restored, ghost, store, overtaken, stops>>

(* The check timer fires: a run starts, or is counted as skipped.          *)
CheckDue(t) ==
  /\ t \in timers /\ t.who = "check" /\ t.at <= 0
  /\ timers' = (timers \ {t}) \cup {Arm("check", CheckEvery)}
  /\ job' = IF job = "none" THEN "check" ELSE job
  /\ UNCHANGED <<entry, opts, restored, due, last, pending, ghost, store, since, promise,
                 overtaken, stops>>

UserStarts ==
  /\ entry = "on" /\ job = "none"
  /\ job' \in {"manual", "single"}
  /\ UNCHANGED <<entry, opts, restored, due, timers, last, pending, ghost, store, since,
                 promise, overtaken, stops>>

ForgetsSummary == pending' = pending                          (* a mutant *)
SaveSummary    == pending' = Save(pending, due, opts.every, "ended")

JobEnds ==
  /\ job # "none"
  /\ job' = "none"
  /\ IF Syncing THEN last' = "ended" /\ SaveSummary ELSE UNCHANGED <<last, pending>>
  /\ UNCHANGED <<entry, opts, restored, due, timers, ghost, store, since, promise,
                 overtaken, stops>>

SaveLands ==
  /\ pending # <<>>
  /\ store' = Head(pending) /\ pending' = Tail(pending)
  /\ overtaken' = FALSE
  /\ UNCHANGED <<memory, ghost, since, promise, stops>>

Quiet   == ghost.disk = <<>> /\ ~ghost.run
Settled == pending = <<>> /\ Quiet /\ ~overtaken /\ ~Syncing
Kept    == promise' = IF Settled THEN promise ELSE NoDue

KeepsTimer == timers' = {t \in timers : t.who = "sync"}       (* a mutant *)
DropTimers == timers' = {}

(* async_stop of both orchestrators: nothing is saved here, but a cancelled*)
(* run has its finally block before it.  At most one stopped orchestrator  *)
(* is still at work.                                                       *)
Unload ==
  /\ stops < Stops /\ stops' = stops + 1
  /\ entry = "on" /\ Quiet
  /\ entry' = "off" /\ job' = "none" /\ due' = None
  /\ DropTimers
  /\ ghost' = IF pending = <<>> /\ ~Syncing THEN NoGhost
              ELSE [run |-> Syncing, every |-> opts.every, disk |-> pending]
  /\ pending' = <<>>
  /\ Kept
  /\ UNCHANGED <<opts, restored, last, store, since, overtaken>>

(* The finally block of the cancelled run, after async_stop.               *)
GhostEnds ==
  /\ ghost.run
  /\ ghost' = [ghost EXCEPT !.run = FALSE,
                 !.disk = Save(ghost.disk, None, ghost.every, "cancelled")]
  /\ UNCHANGED <<memory, pending, store, since, promise, overtaken, stops>>

GhostLands ==
  /\ ghost.disk # <<>>
  /\ store' = Head(ghost.disk)
  /\ ghost' = IF ghost.run \/ Len(ghost.disk) > 1
              THEN [ghost EXCEPT !.disk = Tail(ghost.disk)] ELSE NoGhost
  /\ overtaken' = TRUE
  /\ UNCHANGED <<memory, pending, since, promise, stops>>

Crash ==
  /\ stops < Stops /\ stops' = stops + 1
  /\ entry # "off"
  /\ entry' = "off" /\ job' = "none" /\ restored' = None /\ due' = None
  /\ timers' = {} /\ pending' = <<>> /\ ghost' = NoGhost
  /\ Kept
  /\ UNCHANGED <<opts, last, store, since, overtaken>>

-----------------------------------------------------------------------------
Earlier(at) == IF at = None \/ at = -Late THEN at ELSE at - 1

(* A tick is an hour: a due timer fires and a write ends before it.        *)
Written == IF pending = <<>> THEN store ELSE pending[Len(pending)]

Tick ==
  /\ (\A t \in timers : t.at > 0) /\ Quiet
  /\ restored' = Earlier(restored) /\ due' = Earlier(due)
  /\ timers' = {[t EXCEPT !.at = Earlier(@)] : t \in timers}
  /\ store' = [Written EXCEPT !.due = Earlier(@)] /\ pending' = <<>>
  /\ overtaken' = (overtaken /\ pending = <<>>)
  /\ promise' = [promise EXCEPT !.at = Earlier(@)]
  /\ since' = IF since < Longest THEN since + 1 ELSE since
  /\ UNCHANGED <<entry, opts, job, last, ghost, stops>>

Fires == \E t \in timers : SyncDue(t) \/ CheckDue(t)
Next == \/ Load \/ SetupFails \/ StartSchedulers \/ Fires \/ UserStarts \/ JobEnds
        \/ SaveLands \/ Unload \/ GhostEnds \/ GhostLands \/ Crash \/ Tick

(* Timers fire, operations and writes end and time passes.                 *)
Spec == /\ Init /\ [][Next]_vars
        /\ WF_vars(Fires) /\ WF_vars(JobEnds) /\ WF_vars(Tick)
        /\ WF_vars(GhostEnds) /\ WF_vars(GhostLands)

-----------------------------------------------------------------------------
Times == -Late .. Longest
TypeOK ==
  /\ entry \in {"off", "loading", "on"} /\ opts \in Options
  /\ {restored, due, store.due, promise.at} \subseteq Times \cup {None}
  /\ job \in {"none", "auto", "manual", "single", "check"}
  /\ last \in {"none", "ended", "refused", "cancelled"}
  /\ Len(pending) \in 0..2 /\ Len(ghost.disk) \in 0..2
  /\ since \in 0..Longest

(* A loaded entry has the timers its options ask for, one each, and the    *)
(* sync timer is armed for the published due time; nothing is armed while  *)
(* the entry is not loaded, however it stopped.                            *)
OneTimerEach ==
  /\ {t.at : t \in {u \in timers : u.who = "sync"}} = {due} \ {None}
  /\ {t.who : t \in timers} =
       {who \in {"sync", "check"} : entry = "on" /\ opts[who]}
  /\ \A t, u \in timers : t.who = u.who => t = u

(* However long Home Assistant was away, one overdue sync is made up for:  *)
(* the next one after it comes a full interval later.                      *)
SpacedRuns == [][job # "auto" /\ job' = "auto" => since >= opts.every]_vars

(* A due time, once announced and saved, is not put off by a restart or a  *)
(* reload that leaves the interval as it was, and not lost while Home      *)
(* Assistant is off.                                                       *)
DueSurvives ==
  entry = "on" /\ opts.sync /\ promise.every = opts.every => due = promise.at

(* When no save is on its way the file has the due time, the interval and  *)
(* the summary of the loaded entry, unless a save of a stopped orchestrator*)
(* came after it.                                                          *)
FileFollows ==
  entry = "on" /\ pending = <<>> /\ Quiet /\ ~overtaken =>
    store = [due |-> due, every |-> opts.every, last |-> last]

(* An entry that stays loaded with automatic sync enabled keeps coming to  *)
(* its due time, whatever became of the earlier ones.                      *)
KeepsTrying ==
  <>[](entry = "on" /\ opts.sync) => []<>(\E t \in timers : t.who = "sync" /\ t.at <= 0)

(* ... and sometimes the sync then runs.                                   *)
SyncsRun == <>[](entry = "on" /\ opts.sync) => []<>(job = "auto")
=============================================================================
