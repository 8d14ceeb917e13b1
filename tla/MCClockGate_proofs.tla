------------------------- MODULE MCClockGate_proofs -------------------------
(***************************************************************************)
(* What holds of the latency probe for any delays, waits and retries, and  *)
(* of the schedules for any intervals, any number of reloads and crashes   *)
(* and any time: the invariants and the action property that the run of    *)
(* MCClockGate checks, but for liveness.                                   *)
(***************************************************************************)
EXTENDS MCClockGate, SequenceTheorems, TLAPS

(***************************************************************************)
(* The latency probe.                                                      *)
(***************************************************************************)

(* A reply on the air was read at most one delay after the transmission    *)
(* that asked for it, and arrives at most one delay later.                 *)
OnTheAir ==
  \A m \in replies :
    /\ m.at \in Nat /\ m.read \in Nat
    /\ m.at - m.read <= Delay
    /\ m.read <= now + Delay
    /\ probe # NoProbe => m.read <= probe + Delay

(* A probe is not of the future, is left by a check that has not been      *)
(* answered unless it retried, and a check in a gap has a retry left.      *)
ProbeShape ==
  /\ probe # NoProbe => probe <= now
  /\ completed /\ attempt = 1 => probe = NoProbe
  /\ pc # "idle" => attempt # 0
  /\ pc = "gap" => attempt < Attempts

ProbeInv == WithinDelay /\ OnTheAir /\ ProbeShape

LEMMA ProbeConstants ==
  /\ Attempts \in Nat \ {0} /\ Checks \in Nat \ {0} /\ Delay \in Nat /\ Wait \in Nat
  /\ Gap \in Nat /\ Cap \in Nat /\ Horizon \in Nat /\ NoProbe \notin Nat
BY ProbeAssumption DEF Probe!ConstantsAssumption

LEMMA ProbeInit == Probe!Init => ProbeInv
<1> SUFFICES ASSUME Probe!Init PROVE ProbeInv
  OBVIOUS
<1>1. {answered, completed} \subseteq BOOLEAN
  BY Zenon DEF Probe!Init
<1>2. /\ now \in 0..Horizon /\ began \in 0..Horizon
      /\ attempt \in 0..Attempts /\ checks \in 0..Checks
      /\ offset \in Int /\ replies = {} /\ probe = NoProbe /\ ~completed
      /\ pc = "idle"
  BY ProbeConstants DEF Probe!Init
<1>3. Probe!TypeOK
  BY <1>1, <1>2 DEF Probe!TypeOK
<1> QED BY <1>2, <1>3 DEF ProbeInv, WithinDelay, Probe!WithinDelay, OnTheAir, ProbeShape

(* A transmission puts a reply on the air that fits its probe.             *)
LEMMA TransmitKeeps ==
  ASSUME ProbeInv, NEW n \in 1..Attempts, Probe!Transmit(n), now' = now, offset' = offset,
         pc' \in {"idle", "waiting", "gap"}, began' \in 0..Horizon, checks' \in 0..Checks,
         answered' \in BOOLEAN, completed' \in BOOLEAN,
         completed' => completed, completed' => n # 1, pc' = "gap" => n < Attempts
  PROVE  ProbeInv'
<1> USE ProbeConstants DEF ProbeInv, ProbeShape, WithinDelay,
        Probe!TypeOK, Probe!WithinDelay
<1>1. /\ now \in Nat /\ probe' = now /\ attempt' = n
      /\ Delay \in Nat /\ NoProbe \notin Nat
  BY DEF Probe!Transmit
<1>2. \A m \in replies' :
        \/ m \in replies
        \/ \E there, back \in 0..Delay : m = [read |-> now + there, at |-> now + there + back]
  <2>1. CASE replies' = replies
    BY <2>1
  <2>2. CASE \E there, back \in 0..Delay :
               replies' = replies \cup {[read |-> now + there, at |-> now + there + back]}
    BY <2>2
  <2> QED BY <2>1, <2>2 DEF Probe!Transmit
<1>3. ASSUME NEW m \in replies'
      PROVE  /\ m.at \in Nat /\ m.read \in Nat /\ m.at - m.read <= Delay
             /\ m.read <= now + Delay /\ m.at >= now /\ m.read <= m.at
  <2>1. CASE m \in replies
    BY <2>1 DEF OnTheAir
  <2>2. ASSUME NEW there \in 0..Delay, NEW back \in 0..Delay,
               m = [read |-> now + there, at |-> now + there + back]
        PROVE  <1>3!2
    BY <2>2, <1>1
  <2> QED BY <1>2, <2>1, <2>2
<1>4. OnTheAir'
  BY <1>1, <1>3 DEF OnTheAir
<1>5. Probe!TypeOK'
  BY <1>1, <1>3
<1>6. ProbeShape' /\ Probe!WithinDelay'
  BY <1>1
<1> QED BY <1>4, <1>5, <1>6

LEMMA StartCheckKeeps == ProbeInv /\ Probe!StartCheck => ProbeInv'
<1> SUFFICES ASSUME ProbeInv, Probe!StartCheck PROVE ProbeInv'
  OBVIOUS
<1>1. /\ now' = now /\ offset' = offset /\ pc' = "waiting" /\ began' = now
      /\ checks < Checks /\ checks' = checks + 1 /\ Probe!Transmit(1)
  BY DEF Probe!StartCheck
<1>2. answered' \in BOOLEAN /\ completed' \in BOOLEAN /\ ~completed'
  BY Zenon DEF Probe!StartCheck
<1>3. began' \in 0..Horizon /\ checks' \in 0..Checks /\ 1 \in 1..Attempts
  BY <1>1, ProbeConstants DEF ProbeInv, WithinDelay, Probe!TypeOK
<1> QED BY <1>1, <1>2, <1>3, TransmitKeeps

LEMMA GapEndsKeeps == ProbeInv /\ Probe!GapEnds => ProbeInv'
<1> SUFFICES ASSUME ProbeInv, Probe!GapEnds PROVE ProbeInv'
  OBVIOUS
<1>1. /\ now' = now /\ offset' = offset /\ pc' \in {"idle", "waiting"} /\ began' = now
      /\ checks' = checks /\ answered' = answered /\ completed' = completed
      /\ pc = "gap" /\ Probe!Transmit(attempt + 1)
  BY DEF Probe!GapEnds
<1>2. {answered', completed'} \subseteq BOOLEAN
  BY <1>1, Zenon DEF ProbeInv, WithinDelay, Probe!TypeOK
<1>3. /\ attempt + 1 \in 1..Attempts /\ attempt + 1 # 1
      /\ began' \in 0..Horizon /\ checks' \in 0..Checks
  BY <1>1, ProbeConstants DEF ProbeInv, ProbeShape, WithinDelay, Probe!TypeOK
<1> QED BY <1>1, <1>2, <1>3, TransmitKeeps

(* An event that is handled adds at most half of the time since the probe. *)
LEMMA CompensationBounds ==
  ASSUME ProbeInv, probe # NoProbe
  PROVE  Probe!Compensation \in Int /\ 0 <= Probe!Compensation /\ Probe!Compensation <= now - probe
BY ProbeConstants DEF ProbeInv, ProbeShape, WithinDelay, Probe!TypeOK, Probe!Compensation,
                      Probe!Smaller

LEMMA ReplyKeeps == ASSUME ProbeInv, NEW m \in replies, Probe!Reply(m) PROVE ProbeInv'
<1> USE ProbeConstants
<1>1. /\ m.at = now /\ m.at \in Nat /\ m.read \in Nat /\ m.at - m.read <= Delay
      /\ m.read <= m.at /\ (probe # NoProbe => m.read <= probe + Delay)
      /\ replies' = replies \ {m}
      /\ UNCHANGED <<now, pc, attempt, began, checks>>
  BY DEF ProbeInv, OnTheAir, WithinDelay, Probe!TypeOK, Probe!Reply
<1>2. now \in Nat /\ offset \in Int /\ probe \in Nat \cup {NoProbe}
  BY DEF ProbeInv, WithinDelay, Probe!TypeOK
<1>3. {answered', completed'} \subseteq BOOLEAN
  <2>1. CASE Probe!Expected
    BY <2>1, Zenon DEF Probe!Reply
  <2>2. CASE ~Probe!Expected
    BY <2>2, Zenon DEF Probe!Reply, ProbeInv, WithinDelay, Probe!TypeOK
  <2> QED BY <2>1, <2>2
<1>4. /\ offset' \in Int /\ probe' \in {probe, NoProbe}
      /\ completed' => /\ offset' >= -2 * Delay
                       /\ attempt = 1 => offset' <= Delay /\ probe' = NoProbe
  <2>1. CASE Probe!Expected
    <3>1. Probe!Compensate(TRUE, 2 * (m.read - now))
      BY <2>1 DEF Probe!Reply
    <3>2. CASE probe # NoProbe
      <4>1. offset' = 2 * (m.read - now) + Probe!Compensation /\ probe' = NoProbe
        BY <3>1, <3>2 DEF Probe!Compensate
      <4> HIDE DEF Probe!Compensation
      <4> QED BY <4>1, <3>2, <1>1, <1>2, CompensationBounds
    <3>3. CASE probe = NoProbe
      <4>1. offset' = 2 * (m.read - now) /\ probe' = probe
        BY <3>1, <3>3 DEF Probe!Compensate
      <4> QED BY <4>1, <3>3, <1>1, <1>2
    <3> QED BY <3>2, <3>3
  <2>2. CASE ~Probe!Expected
    <3>1. Probe!Compensate(completed, offset) /\ completed' = completed
      BY <2>2 DEF Probe!Reply
    <3>2. completed => /\ offset >= -2 * Delay
                       /\ attempt = 1 => offset <= Delay /\ probe = NoProbe
      BY DEF ProbeInv, ProbeShape, WithinDelay, Probe!WithinDelay
    <3>3. CASE probe # NoProbe /\ completed
      <4>1. offset' = offset + Probe!Compensation /\ probe' = NoProbe
        BY <3>1, <3>3 DEF Probe!Compensate
      <4> QED BY <4>1, <3>2, <3>3, <1>2, CompensationBounds
    <3>4. CASE ~(probe # NoProbe /\ completed)
      <4>1. offset' = offset /\ probe' = probe
        BY <3>1, <3>4 DEF Probe!Compensate
      <4> QED BY <4>1, <3>1, <3>2, <1>2
    <3> QED BY <3>3, <3>4
  <2> QED BY <2>1, <2>2
<1>5. Probe!TypeOK'
  BY <1>1, <1>3, <1>4 DEF ProbeInv, WithinDelay, Probe!TypeOK
<1>6. OnTheAir'
  BY <1>1, <1>4 DEF ProbeInv, OnTheAir
<1>7. ProbeShape' /\ Probe!WithinDelay'
  BY <1>1, <1>4 DEF ProbeInv, ProbeShape, Probe!WithinDelay
<1> QED BY <1>5, <1>6, <1>7 DEF ProbeInv, WithinDelay

LEMMA OtherEventKeeps == ProbeInv /\ Probe!OtherEvent => ProbeInv'
<1> SUFFICES ASSUME ProbeInv, Probe!OtherEvent PROVE ProbeInv'
  OBVIOUS
<1> USE ProbeConstants
<1>1. /\ offset' = offset + Probe!Compensation /\ probe' = NoProbe /\ probe # NoProbe
      /\ completed
      /\ UNCHANGED <<now, pc, attempt, began, answered, completed, replies, checks>>
  BY DEF Probe!OtherEvent, Probe!Compensate
<1>2. offset' \in Int /\ offset' >= -2 * Delay /\ attempt # 1
  BY <1>1, CompensationBounds
     DEF ProbeInv, ProbeShape, WithinDelay, Probe!WithinDelay, Probe!TypeOK
<1>3. Probe!TypeOK'
  BY <1>1, <1>2 DEF ProbeInv, WithinDelay, Probe!TypeOK
<1> QED BY <1>1, <1>2, <1>3
        DEF ProbeInv, ProbeShape, OnTheAir, WithinDelay, Probe!WithinDelay

LEMMA ProbeStep == ProbeInv /\ [Probe!Next]_probe_vars => ProbeInv'
<1> SUFFICES ASSUME ProbeInv, [Probe!Next]_probe_vars PROVE ProbeInv'
  OBVIOUS
<1> USE ProbeConstants DEF ProbeInv, ProbeShape, OnTheAir, WithinDelay, Probe!WithinDelay,
        Probe!TypeOK
<1>1. CASE Probe!WaitEnds
  BY <1>1 DEF Probe!WaitEnds, Probe!RetryLeft
<1>2. CASE Probe!CheckReturns
  BY <1>2 DEF Probe!CheckReturns
<1>3. CASE Probe!Tick
  BY <1>3 DEF Probe!Tick
<1>4. CASE UNCHANGED probe_vars
  BY <1>4 DEF probe_vars
<1> QED BY <1>1, <1>2, <1>3, <1>4, StartCheckKeeps, GapEndsKeeps, ReplyKeeps, OtherEventKeeps
        DEF Probe!Next

(* A behaviour of the run is one of the probe, or leaves it alone.         *)
LEMMA OfProbe == [MCNext]_mcvars => [Probe!Next]_probe_vars
BY DEF MCNext, mcvars, OfSchedules

(* Travel time is not reported as drift, for any delay up to the cap, any  *)
(* wait and any number of attempts (Beta15ClockManager).                   *)
THEOREM TravelTimeIsNotDrift == MCSpec => []WithinDelay
<1>1. MCInit => ProbeInv
  BY ProbeInit DEF MCInit
<1>2. ProbeInv /\ [MCNext]_mcvars => ProbeInv'
  BY ProbeStep, OfProbe
<1>3. ProbeInv => WithinDelay
  BY DEF ProbeInv
<1> QED BY <1>1, <1>2, <1>3, PTL DEF MCSpec

-----------------------------------------------------------------------------
(***************************************************************************)
(* The schedules.                                                          *)
(***************************************************************************)

DueTimes  == Schedule!Times \cup {None}
Summaries == {"none", "ended", "refused", "cancelled"}
Saves     == [due : DueTimes, every : Intervals \cup {0}, last : Summaries]

(* What a save of the loaded entry would write now.                        *)
Current == [due |-> due, every |-> opts.every, last |-> last]

ScheduleTypes ==
  /\ Schedule!TypeOK
  /\ pending \in Seq(Saves) /\ store \in Saves
  /\ ghost \in [run : BOOLEAN, every : Intervals \cup {0}, disk : Seq(Saves)]
  /\ promise \in [at : DueTimes, every : Intervals \cup {0}]

(* An entry that is not loaded has nothing under way.                      *)
NothingLeft ==
  entry # "on" => timers = {} /\ due = None /\ job = "none" /\ pending = <<>>

(* The timers of a loaded entry.                                           *)
SyncTimer  == IF opts.sync THEN {Schedule!Arm("sync", due)} ELSE {}
CheckTimer(at) == IF opts.check THEN {Schedule!Arm("check", at)} ELSE {}
TimerShape ==
  entry = "on" =>
    /\ due = None <=> ~opts.sync
    /\ \E at \in -Late..CheckEvery : timers = SyncTimer \cup CheckTimer(at)

(* The last save asked for is of the current state, and so is the file     *)
(* once it is written, unless a stopped orchestrator wrote it since.       *)
LastSaveIsCurrent ==
  entry = "on" =>
    /\ pending # <<>> => pending[Len(pending)] = Current
    /\ pending = <<>> /\ ~overtaken => store = Current

(* The announced due time is that of the loaded entry; while it is not     *)
(* loaded, the file has it and nobody will overwrite it, and the next load *)
(* restores it if the interval is the same.                                *)
PromiseIsKept ==
  /\ promise.at = None => promise = Schedule!NoDue
  /\ entry = "on" =>
       promise = IF opts.sync THEN [at |-> due, every |-> opts.every] ELSE Schedule!NoDue
  /\ entry # "on" /\ promise.at # None =>
       /\ Schedule!Quiet
       /\ store.due = promise.at /\ store.every = promise.every
       /\ entry = "loading" /\ opts.every = promise.every => restored = promise.at

(* The last sync was a whole interval before the next due time, or lies    *)
(* further back than any interval.                                         *)
SinceLastSync ==
  /\ entry = "loading" => since = Schedule!Longest
  /\ entry = "on" /\ opts.sync => since = Schedule!Longest \/ since + due >= opts.every

ScheduleInv == ScheduleTypes /\ NothingLeft /\ TimerShape /\ LastSaveIsCurrent
               /\ PromiseIsKept /\ SinceLastSync

LEMMA ScheduleConstants ==
  /\ Intervals \subseteq Nat \ {0} /\ CheckEvery \in Nat \ {0} /\ Late \in Nat
  /\ CheckOptions \subseteq BOOLEAN /\ Stops \in Nat /\ None \notin Int
BY ScheduleAssumption DEF Schedule!ConstantsAssumption

LEMMA LongestIs ==
  /\ Schedule!Longest \in Intervals /\ Schedule!Longest \in Nat \ {0}
  /\ \A i \in Intervals : i \in Nat \ {0} /\ i <= Schedule!Longest
  /\ \A i \in Intervals \cup {0} : i \in Schedule!Times
  /\ \A i \in Schedule!Times : i \in Int /\ -Late <= i /\ i <= Schedule!Longest /\ i # None
<1>1. /\ Schedule!Longest \in Intervals
      /\ \A i \in Intervals : i <= Schedule!Longest
  BY ScheduleAssumption DEF Schedule!ConstantsAssumption, Schedule!Longest
<1>2. Schedule!Longest \in Nat \ {0} /\ Intervals \subseteq Nat \ {0} /\ Late \in Nat
  BY <1>1, ScheduleConstants
<1> HIDE DEF Schedule!Longest
<1>3. Schedule!Times = -Late..Schedule!Longest
  BY DEF Schedule!Times
<1> QED BY <1>1, <1>2, <1>3, ScheduleConstants

(* A save queues its value last, and the queue stays short.                *)
LEMMA SaveAppends ==
  ASSUME NEW queue \in Seq(Saves), Len(queue) \in 0..2,
         NEW when \in DueTimes, NEW every \in Intervals \cup {0}, NEW summary \in Summaries
  PROVE  /\ Schedule!Save(queue, when, every, summary) \in Seq(Saves)
         /\ Schedule!Save(queue, when, every, summary) # <<>>
         /\ Len(Schedule!Save(queue, when, every, summary)) \in 1..2
         /\ Schedule!Save(queue, when, every, summary)
              [Len(Schedule!Save(queue, when, every, summary))]
            = [due |-> when, every |-> every, last |-> summary]
<1>6. Len(queue) < 2 \/ Len(queue) = 2
  OBVIOUS
<1> DEFINE value == [due |-> when, every |-> every, last |-> summary]
           saved == Schedule!Save(queue, when, every, summary)
<1>1. value \in Saves
  BY DEF Saves
<1>2. saved = IF Len(queue) < 2 THEN Append(queue, value) ELSE <<queue[1], value>>
  BY DEF Schedule!Save
<1> HIDE DEF value, saved
<1> DEFINE Appended == /\ saved \in Seq(Saves) /\ saved # <<>> /\ Len(saved) \in 1..2
                       /\ saved[Len(saved)] = value
<1>3. ASSUME Len(queue) < 2 PROVE Appended
  <2>1. saved = Append(queue, value)
    BY <1>2, <1>3
  <2>2. saved \in Seq(Saves) /\ Len(saved) = Len(queue) + 1
    BY <1>1, <2>1
  <2>3. saved[Len(queue) + 1] = value
    BY <1>1, <2>1
  <2> QED BY <1>3, <2>2, <2>3
<1>4. ASSUME Len(queue) = 2 PROVE Appended
  <2>1. saved = <<queue[1], value>> /\ queue[1] \in Saves
    BY <1>2, <1>4
  <2>2. saved \in Seq(Saves) /\ Len(saved) = 2 /\ saved[2] = value
    BY <1>1, <2>1
  <2> QED BY <2>2
<1> QED BY <1>3, <1>4, <1>6 DEF saved, value

LEMMA ScheduleInit == Schedule!Init => ScheduleInv
<1> SUFFICES ASSUME Schedule!Init PROVE ScheduleInv
  OBVIOUS
<1> USE ScheduleConstants, LongestIs
<1>1. /\ entry = "off" /\ opts \in Schedule!Options /\ restored = None /\ due = None
      /\ timers = {} /\ job = "none" /\ last = "none" /\ pending = <<>>
      /\ ghost = [run |-> FALSE, every |-> 0, disk |-> <<>>]
      /\ store = [due |-> None, every |-> 0, last |-> "none"]
      /\ since = Schedule!Longest /\ promise = [at |-> None, every |-> 0]
  BY DEF Schedule!Init, Schedule!NoGhost, Schedule!NoDue
<1> HIDE DEF Schedule!Longest, Schedule!Times
<1>2. ScheduleTypes
  BY <1>1 DEF ScheduleTypes, Schedule!TypeOK, DueTimes, Summaries, Saves
<1> QED BY <1>1, <1>2
        DEF ScheduleInv, NothingLeft, TimerShape, LastSaveIsCurrent, PromiseIsKept,
            SinceLastSync, Schedule!NoDue

(* An hour later a due time is an hour nearer, or as long overdue as can   *)
(* be told.                                                                *)
LEMMA EarlierIs ==
  ASSUME NEW at \in DueTimes
  PROVE  /\ Schedule!Earlier(at) \in DueTimes
         /\ Schedule!Earlier(at) = None <=> at = None
         /\ at # None /\ at > 0 => Schedule!Earlier(at) = at - 1
<1>1. at = None \/ (at \in Int /\ -Late <= at /\ at <= Schedule!Longest)
  BY LongestIs DEF DueTimes
<1> QED BY <1>1, ScheduleConstants, LongestIs DEF Schedule!Earlier, DueTimes, Schedule!Times

LEMMA TypeStep == ScheduleInv /\ [Schedule!Next]_schedule_vars => ScheduleTypes'
<1> SUFFICES ASSUME ScheduleInv, [Schedule!Next]_schedule_vars PROVE ScheduleTypes'
  OBVIOUS
<1> USE ScheduleConstants DEF ScheduleInv, ScheduleTypes, Schedule!TypeOK
<1>1. /\ opts.sync \in BOOLEAN /\ opts.check \in BOOLEAN /\ opts.every \in Intervals
      /\ opts.every \in DueTimes
      /\ None \in DueTimes /\ {"refused", "ended", "cancelled"} \subseteq Summaries
      /\ last \in Summaries /\ due \in DueTimes /\ restored \in DueTimes
      /\ store.due \in DueTimes /\ store.last \in Summaries
  BY LongestIs DEF Schedule!Options, DueTimes, Saves, Summaries
<1>2. Len(pending) \in 0..2 /\ Len(ghost.disk) \in 0..2
  OBVIOUS
<1>0. \A at \in DueTimes, summary \in Summaries :
        Schedule!Save(pending, at, opts.every, summary) \in Seq(Saves)
        /\ Len(Schedule!Save(pending, at, opts.every, summary)) \in 1..2
  BY <1>1, <1>2, SaveAppends
<1> USE DEF DueTimes, Summaries
<1>3. CASE Schedule!Load
  <2>1. /\ restored' \in DueTimes /\ last' \in Summaries /\ opts' \in Schedule!Options
        /\ entry' = "loading" /\ since' = Schedule!Longest
        /\ UNCHANGED <<due, timers, job, pending, ghost, store, promise>>
    BY <1>1, <1>3 DEF Schedule!Load
  <2> QED BY <2>1, LongestIs
<1>4. CASE Schedule!SetupFails
  BY <1>4 DEF Schedule!SetupFails
<1>5. CASE Schedule!StartSchedulers
  <2>1. Schedule!FirstDue \in DueTimes
    BY <1>1 DEF Schedule!FirstDue
  <2>2. /\ entry' = "on" /\ restored' = None /\ due' \in DueTimes
        /\ UNCHANGED <<opts, job, last, ghost, store, since>>
    BY <1>5, <2>1 DEF Schedule!StartSchedulers
  <2>3. pending' \in Seq(Saves) /\ Len(pending') \in 1..2
    BY <1>0, <1>1, <1>5, <2>1 DEF Schedule!StartSchedulers
  <2>4. promise' \in [at : DueTimes, every : Intervals \cup {0}]
    BY <1>1, <1>5, <2>1 DEF Schedule!StartSchedulers, Schedule!Announce, Schedule!NoDue
  <2> QED BY <2>2, <2>3, <2>4
<1>6. ASSUME NEW t \in timers, Schedule!SyncDue(t) PROVE ScheduleTypes'
  <2>1. /\ due' = opts.every /\ promise' = [at |-> opts.every, every |-> opts.every]
        /\ job' \in {job, "auto"} /\ since' \in {since, 0} /\ last' \in {last, "refused"}
        /\ UNCHANGED <<entry, opts, restored, ghost, store>>
    BY <1>6 DEF Schedule!SyncDue, Schedule!NextDue
  <2>2. pending' \in Seq(Saves) /\ Len(pending') \in 1..2
    <3> DEFINE refused == Schedule!Save(pending, None, opts.every, "refused")
    <3>1. refused \in Seq(Saves) /\ Len(refused) \in 1..2
      BY <1>0, <1>1
    <3> HIDE DEF refused
    <3>4. Len(refused) \in 0..2
      BY <3>1
    <3>2. Schedule!Save(refused, opts.every, opts.every, "refused") \in Seq(Saves)
          /\ Len(Schedule!Save(refused, opts.every, opts.every, "refused")) \in 1..2
      BY <1>1, <3>1, <3>4, SaveAppends
    <3>3. \/ pending' = Schedule!Save(pending, opts.every, opts.every, last)
          \/ pending' = Schedule!Save(refused, opts.every, opts.every, "refused")
      BY <1>6 DEF Schedule!SyncDue, Schedule!NextDue, refused
    <3> QED BY <1>0, <1>1, <3>2, <3>3
  <2> QED BY <1>1, <2>1, <2>2, LongestIs
<1>7. ASSUME NEW t \in timers, Schedule!CheckDue(t) PROVE ScheduleTypes'
  BY <1>7 DEF Schedule!CheckDue
<1>8. CASE Schedule!UserStarts
  BY <1>8 DEF Schedule!UserStarts
<1>9. CASE Schedule!JobEnds
  <2>1. /\ job' = "none" /\ last' \in Summaries
        /\ UNCHANGED <<entry, opts, restored, due, ghost, store, since, promise>>
    BY <1>1, <1>9 DEF Schedule!JobEnds
  <2>2. pending' = pending \/ pending' = Schedule!Save(pending, due, opts.every, "ended")
    BY <1>9 DEF Schedule!JobEnds, Schedule!SaveSummary
  <2> QED BY <1>0, <1>1, <1>2, <2>1, <2>2
<1>10. CASE Schedule!SaveLands
  <2>1. /\ store' = Head(pending) /\ pending' = Tail(pending) /\ pending # <<>>
        /\ UNCHANGED <<entry, opts, restored, due, job, last, ghost, since, promise>>
    BY <1>10 DEF Schedule!SaveLands, Schedule!memory
  <2>2. store' \in Saves /\ pending' \in Seq(Saves) /\ Len(pending') = Len(pending) - 1
    BY <2>1, HeadTailProperties
  <2> QED BY <1>2, <2>1, <2>2 DEF Saves
<1>11. CASE Schedule!Unload
  <2>1. /\ entry' = "off" /\ job' = "none" /\ due' = None /\ pending' = <<>>
        /\ UNCHANGED <<opts, restored, last, store, since>>
    BY <1>11 DEF Schedule!Unload
  <2>2. ghost' \in [run : BOOLEAN, every : Intervals \cup {0}, disk : Seq(Saves)]
        /\ Len(ghost'.disk) \in 0..2
    <3>1. CASE pending = <<>> /\ ~Schedule!Syncing
      BY <1>11, <3>1 DEF Schedule!Unload, Schedule!NoGhost
    <3>2. CASE ~(pending = <<>> /\ ~Schedule!Syncing)
      <4>1. ghost' = [run |-> Schedule!Syncing, every |-> opts.every, disk |-> pending]
        BY <1>11, <3>2 DEF Schedule!Unload
      <4>2. Schedule!Syncing \in BOOLEAN
        BY DEF Schedule!Syncing
      <4> HIDE DEF Schedule!Syncing
      <4> QED BY <1>1, <1>2, <4>1, <4>2
    <3> QED BY <3>1, <3>2
  <2>3. promise' \in {promise, Schedule!NoDue}
    BY <1>11 DEF Schedule!Unload, Schedule!Kept
  <2> QED BY <1>1, <2>1, <2>2, <2>3 DEF Schedule!NoDue
<1>12. CASE Schedule!GhostEnds
  <2> DEFINE queue == Schedule!Save(ghost.disk, None, ghost.every, "cancelled")
  <2>1. queue \in Seq(Saves) /\ Len(queue) \in 1..2
    BY <1>1, <1>2, SaveAppends
  <2>2. /\ ghost' = [ghost EXCEPT !.run = FALSE, !.disk = queue]
        /\ UNCHANGED <<entry, opts, restored, due, job, last, pending, store, since, promise>>
    BY <1>12 DEF Schedule!GhostEnds, Schedule!memory
  <2> HIDE DEF queue
  <2>3. ghost' \in [run : BOOLEAN, every : Intervals \cup {0}, disk : Seq(Saves)]
        /\ ghost'.disk = queue
    BY <2>1, <2>2
  <2> QED BY <2>1, <2>2, <2>3
<1>13. CASE Schedule!GhostLands
  <2>1. /\ store' = Head(ghost.disk) /\ ghost.disk # <<>>
        /\ ghost' \in {[ghost EXCEPT !.disk = Tail(ghost.disk)], Schedule!NoGhost}
        /\ UNCHANGED <<entry, opts, restored, due, job, last, pending, since, promise>>
    BY <1>13 DEF Schedule!GhostLands, Schedule!memory
  <2>2. /\ store' \in Saves /\ Tail(ghost.disk) \in Seq(Saves)
        /\ Len(Tail(ghost.disk)) = Len(ghost.disk) - 1
    BY <2>1, HeadTailProperties
  <2>3. ghost' \in [run : BOOLEAN, every : Intervals \cup {0}, disk : Seq(Saves)]
        /\ Len(ghost'.disk) \in 0..2
    <3>1. CASE ghost' = Schedule!NoGhost
      BY <3>1 DEF Schedule!NoGhost
    <3>2. CASE ghost' = [ghost EXCEPT !.disk = Tail(ghost.disk)]
      <4> DEFINE rest == Tail(ghost.disk)
      <4>1. rest \in Seq(Saves) /\ Len(rest) \in 0..2
        BY <1>2, <2>1, <2>2
      <4> HIDE DEF rest
      <4>2. ghost' = [ghost EXCEPT !.disk = rest]
        BY <3>2 DEF rest
      <4>3. ghost' \in [run : BOOLEAN, every : Intervals \cup {0}, disk : Seq(Saves)]
            /\ ghost'.disk = rest
        BY <4>1, <4>2
      <4> QED BY <4>1, <4>3
    <3> QED BY <2>1, <3>1, <3>2
  <2> QED BY <2>1, <2>2, <2>3 DEF Saves
<1>14. CASE Schedule!Crash
  <2>1. promise' \in {promise, Schedule!NoDue}
    BY <1>14 DEF Schedule!Crash, Schedule!Kept
  <2>2. /\ entry' = "off" /\ job' = "none" /\ restored' = None /\ due' = None
        /\ pending' = <<>> /\ ghost' = Schedule!NoGhost
        /\ UNCHANGED <<opts, last, store, since>>
    BY <1>14 DEF Schedule!Crash
  <2> QED BY <1>1, <2>1, <2>2 DEF Schedule!NoDue, Schedule!NoGhost
<1>15. CASE Schedule!Tick
  <2>1. Schedule!Written \in Saves
    <3>1. pending # <<>> => Len(pending) \in 1..Len(pending)
      BY <1>2
    <3> QED BY <3>1, ElementOfSeq DEF Schedule!Written
  <2>2. store' \in Saves
    BY <1>15, <2>1, EarlierIs DEF Schedule!Tick, Saves
  <2>3. promise' \in [at : DueTimes, every : Intervals \cup {0}]
    BY <1>15, EarlierIs DEF Schedule!Tick
  <2>4. since' \in 0..Schedule!Longest
    BY <1>15, LongestIs DEF Schedule!Tick
  <2>5. /\ restored' \in DueTimes /\ due' \in DueTimes /\ pending' = <<>>
        /\ UNCHANGED <<entry, opts, job, last, ghost>>
    BY <1>1, <1>15, EarlierIs DEF Schedule!Tick
  <2> QED BY <2>2, <2>3, <2>4, <2>5 DEF Saves
<1>16. CASE UNCHANGED schedule_vars
  BY <1>16 DEF schedule_vars
<1> QED BY <1>3, <1>4, <1>5, <1>6, <1>7, <1>8, <1>9, <1>10, <1>11, <1>12, <1>13, <1>14,
           <1>15, <1>16 DEF Schedule!Next, Schedule!Fires

(* Timers are armed, saves asked for and operations started only while the *)
(* entry is loaded.                                                        *)
LEMMA NothingLeftStep ==
  ScheduleInv /\ [Schedule!Next]_schedule_vars => NothingLeft'
<1> SUFFICES ASSUME ScheduleInv, [Schedule!Next]_schedule_vars PROVE NothingLeft'
  OBVIOUS
<1> USE DEF ScheduleInv, NothingLeft
<1>1. CASE Schedule!Load \/ Schedule!SetupFails \/ Schedule!StartSchedulers
  BY <1>1 DEF Schedule!Load, Schedule!SetupFails, Schedule!StartSchedulers
<1>2. ASSUME NEW t \in timers, Schedule!SyncDue(t) \/ Schedule!CheckDue(t) PROVE NothingLeft'
  BY <1>2 DEF Schedule!SyncDue, Schedule!CheckDue
<1>3. CASE Schedule!UserStarts \/ Schedule!JobEnds \/ Schedule!SaveLands
  BY <1>3 DEF Schedule!UserStarts, Schedule!JobEnds, Schedule!SaveLands, Schedule!memory
<1>4. CASE Schedule!Unload \/ Schedule!Crash
  BY <1>4 DEF Schedule!Unload, Schedule!Crash, Schedule!DropTimers
<1>5. CASE Schedule!GhostEnds \/ Schedule!GhostLands
  BY <1>5 DEF Schedule!GhostEnds, Schedule!GhostLands, Schedule!memory
<1>6. CASE Schedule!Tick
  BY <1>6 DEF Schedule!Tick, Schedule!Earlier
<1>7. CASE UNCHANGED schedule_vars
  BY <1>7 DEF schedule_vars
<1> QED BY <1>1, <1>2, <1>3, <1>4, <1>5, <1>6, <1>7 DEF Schedule!Next, Schedule!Fires

LEMMA OptionsAre ==
  ASSUME ScheduleInv
  PROVE  opts.sync \in BOOLEAN /\ opts.every \in Intervals /\ opts.every \in Nat \ {0}
         /\ opts.every # None /\ opts.every <= Schedule!Longest
BY LongestIs, ScheduleConstants
   DEF ScheduleInv, ScheduleTypes, Schedule!TypeOK, Schedule!Options

(* The timers a loaded entry has: a sync timer is armed for the due time.  *)
LEMMA TimersAre ==
  ASSUME ScheduleInv, NEW t \in timers
  PROVE  /\ entry = "on" /\ t.at \in Int
         /\ t.who = "sync" => opts.sync /\ t = Schedule!Arm("sync", due)
         /\ t.who # "sync" => opts.check /\ t = Schedule!Arm("check", t.at)
                              /\ t.at \in -Late..CheckEvery
<1>1. entry = "on"
  BY DEF ScheduleInv, NothingLeft
<1>2. PICK at \in -Late..CheckEvery : timers = SyncTimer \cup CheckTimer(at)
  BY <1>1 DEF ScheduleInv, TimerShape
<1>3. opts.sync => due \in Int
  BY <1>1, LongestIs
     DEF ScheduleInv, TimerShape, ScheduleTypes, Schedule!TypeOK
<1>4. at \in Int
  BY ScheduleConstants
<1> QED BY <1>1, <1>2, <1>3, <1>4 DEF SyncTimer, CheckTimer, Schedule!Arm

LEMMA TimerStep ==
  ScheduleInv /\ [Schedule!Next]_schedule_vars => TimerShape'
<1> SUFFICES ASSUME ScheduleInv, [Schedule!Next]_schedule_vars, entry' = "on" PROVE TimerShape'
  BY DEF TimerShape
<1> USE ScheduleConstants
<1>1. CASE Schedule!StartSchedulers
  <2>1. due' = None <=> ~opts'.sync
    <3>1. opts.every # None /\ opts' = opts
      BY <1>1, OptionsAre DEF Schedule!StartSchedulers
    <3>2. Schedule!FirstDue # None
      BY <3>1 DEF Schedule!FirstDue
    <3>3. CASE opts.sync
      BY <1>1, <3>1, <3>2, <3>3 DEF Schedule!StartSchedulers
    <3>4. CASE ~opts.sync
      BY <1>1, <3>1, <3>4 DEF Schedule!StartSchedulers
    <3> QED BY <3>3, <3>4
  <2>2. CheckEvery \in -Late..CheckEvery
    OBVIOUS
  <2>3. timers' = SyncTimer' \cup CheckTimer(CheckEvery)'
    BY <1>1 DEF Schedule!StartSchedulers, SyncTimer, CheckTimer, Schedule!Arm
  <2> QED BY <2>1, <2>2, <2>3 DEF TimerShape
<1>2. ASSUME NEW t \in timers, Schedule!SyncDue(t) PROVE TimerShape'
  <2>1. /\ entry = "on" /\ opts.sync /\ t = Schedule!Arm("sync", due)
        /\ due' = opts.every /\ opts' = opts /\ due' # None
        /\ timers' = (timers \ {t}) \cup {Schedule!Arm("sync", opts.every)}
    BY <1>2, TimersAre, LongestIs
       DEF Schedule!SyncDue, Schedule!Rearm, Schedule!NextDue, ScheduleInv, ScheduleTypes,
           Schedule!TypeOK, Schedule!Options
  <2>2. PICK at \in -Late..CheckEvery : timers = SyncTimer \cup CheckTimer(at)
    BY <2>1 DEF ScheduleInv, TimerShape
  <2>3. timers' = SyncTimer' \cup CheckTimer(at)'
    BY <2>1, <2>2 DEF SyncTimer, CheckTimer, Schedule!Arm
  <2> QED BY <2>1, <2>3 DEF TimerShape
<1>3. ASSUME NEW t \in timers, Schedule!CheckDue(t) PROVE TimerShape'
  <2>1. /\ entry = "on" /\ opts.check /\ t = Schedule!Arm("check", t.at)
        /\ UNCHANGED <<entry, due, opts>>
        /\ timers' = (timers \ {t}) \cup {Schedule!Arm("check", CheckEvery)}
    BY <1>3, TimersAre DEF Schedule!CheckDue
  <2>2. PICK at \in -Late..CheckEvery : timers = SyncTimer \cup CheckTimer(at)
    BY <2>1 DEF ScheduleInv, TimerShape
  <2>3. t = Schedule!Arm("check", at)
    BY <2>1, <2>2 DEF SyncTimer, CheckTimer, Schedule!Arm
  <2>4. timers' = SyncTimer' \cup CheckTimer(CheckEvery)'
    BY <2>1, <2>2, <2>3 DEF SyncTimer, CheckTimer, Schedule!Arm
  <2>5. CheckEvery \in -Late..CheckEvery
    OBVIOUS
  <2> QED BY <2>1, <2>4, <2>5 DEF ScheduleInv, TimerShape
<1>4. CASE Schedule!Tick
  <2>1. /\ entry = "on" /\ opts' = opts /\ due' = Schedule!Earlier(due)
        /\ timers' = {[t EXCEPT !.at = Schedule!Earlier(@)] : t \in timers}
        /\ \A t \in timers : t.at > 0
    BY <1>4 DEF Schedule!Tick
  <2>2. due' = None <=> ~opts'.sync
    BY <2>1, EarlierIs DEF ScheduleInv, TimerShape, ScheduleTypes, Schedule!TypeOK, DueTimes
  <2>3. PICK at \in -Late..CheckEvery : timers = SyncTimer \cup CheckTimer(at)
    BY <2>1 DEF ScheduleInv, TimerShape
  <2>4. PICK next \in -Late..CheckEvery : next = Schedule!Earlier(at)
    BY DEF Schedule!Earlier
  <2> HIDE DEF Schedule!Earlier
  <2>5. \A t \in timers : [t EXCEPT !.at = Schedule!Earlier(@)]
                             = Schedule!Arm(t.who, Schedule!Earlier(t.at))
    BY <2>3 DEF SyncTimer, CheckTimer, Schedule!Arm
  <2>6. timers' = {Schedule!Arm(t.who, Schedule!Earlier(t.at)) : t \in timers}
    BY <2>1, <2>5
  <2>7. timers' = SyncTimer' \cup CheckTimer(next)'
    <3>1. /\ SyncTimer' = IF opts.sync THEN {Schedule!Arm("sync", due')} ELSE {}
          /\ CheckTimer(next)' = IF opts.check THEN {Schedule!Arm("check", next)} ELSE {}
      BY <2>1 DEF SyncTimer, CheckTimer, Schedule!Arm
    <3>2. \A who, when : /\ Schedule!Arm(who, when).who = who
                         /\ Schedule!Arm(who, when).at = when
      BY DEF Schedule!Arm
    <3> HIDE DEF Schedule!Arm
    <3>3. CASE opts.sync /\ opts.check
      <4>1. timers = {Schedule!Arm("sync", due), Schedule!Arm("check", at)}
        BY <2>3, <3>3 DEF SyncTimer, CheckTimer
      <4> QED BY <2>1, <2>4, <2>6, <3>1, <3>2, <3>3, <4>1
    <3>4. CASE opts.sync /\ ~opts.check
      <4>1. timers = {Schedule!Arm("sync", due)}
        BY <2>3, <3>4 DEF SyncTimer, CheckTimer
      <4> QED BY <2>1, <2>4, <2>6, <3>1, <3>2, <3>4, <4>1
    <3>5. CASE ~opts.sync
      <4>1. timers = IF opts.check THEN {Schedule!Arm("check", at)} ELSE {}
        BY <2>3, <3>5 DEF SyncTimer, CheckTimer
      <4> QED BY <2>1, <2>4, <2>6, <3>1, <3>2, <3>5, <4>1
    <3> QED BY <3>3, <3>4, <3>5
  <2> QED BY <2>2, <2>4, <2>7 DEF TimerShape
<1>5. CASE Schedule!UserStarts \/ Schedule!JobEnds \/ Schedule!SaveLands
           \/ Schedule!GhostEnds \/ Schedule!GhostLands \/ UNCHANGED schedule_vars
  <2>1. UNCHANGED <<entry, due, opts, timers>>
    BY <1>5 DEF Schedule!UserStarts, Schedule!JobEnds, Schedule!SaveLands, Schedule!memory,
       Schedule!GhostEnds, Schedule!GhostLands, schedule_vars
  <2> QED BY <2>1 DEF ScheduleInv, TimerShape, SyncTimer, CheckTimer
<1>6. ~(Schedule!Load \/ Schedule!SetupFails \/ Schedule!Unload \/ Schedule!Crash)
  BY DEF Schedule!Load, Schedule!SetupFails, Schedule!Unload, Schedule!Crash
<1> QED BY <1>1, <1>2, <1>3, <1>4, <1>5, <1>6 DEF Schedule!Next, Schedule!Fires

(* What this orchestrator saves is queued last.                            *)
LEMMA SaveIsLast ==
  ASSUME ScheduleInv, NEW at \in DueTimes, NEW summary \in Summaries
  PROVE  LET queue == Schedule!Save(pending, at, opts.every, summary)
         IN  /\ queue \in Seq(Saves) /\ queue # <<>> /\ Len(queue) \in 1..2
             /\ queue[Len(queue)] = [due |-> at, every |-> opts.every, last |-> summary]
BY OptionsAre, SaveAppends DEF ScheduleInv, ScheduleTypes, Schedule!TypeOK

LEMMA StateIs ==
  ASSUME ScheduleInv
  PROVE  /\ due \in DueTimes /\ restored \in DueTimes /\ None \in DueTimes
         /\ opts.every \in DueTimes /\ last \in Summaries
         /\ {"refused", "ended", "cancelled"} \subseteq Summaries
         /\ store \in Saves /\ pending \in Seq(Saves) /\ Len(pending) \in 0..2
         /\ promise.at \in DueTimes
BY OptionsAre, LongestIs
   DEF ScheduleInv, ScheduleTypes, Schedule!TypeOK, DueTimes, Summaries

LEMMA LastSaveStep ==
  ScheduleInv /\ [Schedule!Next]_schedule_vars => LastSaveIsCurrent'
<1> SUFFICES ASSUME ScheduleInv, [Schedule!Next]_schedule_vars, entry' = "on"
             PROVE  LastSaveIsCurrent'
  BY DEF LastSaveIsCurrent
<1>1. CASE Schedule!StartSchedulers
  <2>1. Schedule!FirstDue \in DueTimes /\ last' = last /\ opts' = opts
    BY <1>1, StateIs DEF Schedule!FirstDue, Schedule!StartSchedulers
  <2> HIDE DEF Schedule!FirstDue
  <2>2. due' \in DueTimes /\ pending' = Schedule!Save(pending, due', opts.every, last)
    BY <1>1, <2>1, StateIs DEF Schedule!StartSchedulers
  <2> QED BY <2>1, <2>2, SaveIsLast, StateIs DEF LastSaveIsCurrent, Current
<1>2. ASSUME NEW t \in timers, Schedule!SyncDue(t) PROVE LastSaveIsCurrent'
  <2>1. due' = opts.every /\ opts' = opts
    BY <1>2 DEF Schedule!SyncDue, Schedule!NextDue
  <2>2. CASE /\ pending' = Schedule!Save(pending, opts.every, opts.every, last)
             /\ last' = last
    BY <2>1, <2>2, SaveIsLast, StateIs DEF LastSaveIsCurrent, Current
  <2>3. CASE /\ pending' = Schedule!Save(Schedule!Save(pending, None, opts.every, "refused"),
                                         opts.every, opts.every, "refused")
             /\ last' = "refused"
    <3> DEFINE refused == Schedule!Save(pending, None, opts.every, "refused")
    <3>0. refused \in Seq(Saves) /\ Len(refused) \in 1..2
      BY SaveIsLast, StateIs
    <3>1. Len(refused) \in 0..2
      BY <3>0
    <3>2. pending' = Schedule!Save(refused, opts.every, opts.every, "refused")
      BY <2>3
    <3> HIDE DEF refused
    <3>3. /\ pending' # <<>>
          /\ pending'[Len(pending')]
               = [due |-> opts.every, every |-> opts.every, last |-> "refused"]
      BY <3>0, <3>1, <3>2, SaveAppends, StateIs, OptionsAre
    <3> QED BY <2>1, <2>3, <3>3 DEF LastSaveIsCurrent, Current
  <2> QED BY <1>2, <2>2, <2>3 DEF Schedule!SyncDue, Schedule!NextDue
<1>3. CASE Schedule!JobEnds
  <2>1. UNCHANGED <<entry, due, opts, store, overtaken>>
    BY <1>3 DEF Schedule!JobEnds
  <2>2. CASE UNCHANGED <<last, pending>>
    BY <2>1, <2>2 DEF ScheduleInv, LastSaveIsCurrent, Current
  <2>3. CASE last' = "ended" /\ pending' = Schedule!Save(pending, due, opts.every, "ended")
    BY <2>1, <2>3, SaveIsLast, StateIs DEF LastSaveIsCurrent, Current
  <2> QED BY <1>3, <2>2, <2>3 DEF Schedule!JobEnds, Schedule!SaveSummary
<1>4. CASE Schedule!SaveLands
  <2>1. /\ pending # <<>> /\ store' = Head(pending) /\ pending' = Tail(pending)
        /\ UNCHANGED <<entry, due, opts, last>>
    BY <1>4 DEF Schedule!SaveLands, Schedule!memory
  <2>2. pending[Len(pending)] = Current /\ Current' = Current
    BY <2>1 DEF ScheduleInv, LastSaveIsCurrent, Current
  <2>3. /\ Head(pending) = pending[1] /\ Len(pending) \in 1..2
        /\ Len(Tail(pending)) = Len(pending) - 1
        /\ \A i \in 1..Len(Tail(pending)) : Tail(pending)[i] = pending[i + 1]
    BY <2>1, StateIs, HeadTailProperties
  <2>4. CASE Len(pending) = 1
    BY <2>1, <2>2, <2>3, <2>4, StateIs DEF LastSaveIsCurrent
  <2>5. CASE Len(pending) = 2
    <3>0. Len(pending') = 1
      BY <2>1, <2>3, <2>5
    <3>1. Len(pending') = 1 /\ pending'[1] = pending[2] /\ pending' # <<>>
      BY <2>1, <2>3, <3>0
    <3> QED BY <2>2, <2>5, <3>1 DEF LastSaveIsCurrent
  <2> QED BY <2>3, <2>4, <2>5
<1>5. CASE Schedule!GhostLands
  BY <1>5 DEF Schedule!GhostLands, Schedule!memory, ScheduleInv, LastSaveIsCurrent, Current
<1>6. CASE Schedule!Tick
  <2>1. /\ entry = "on" /\ pending' = <<>> /\ due' = Schedule!Earlier(due)
        /\ store' = [Schedule!Written EXCEPT !.due = Schedule!Earlier(@)]
        /\ UNCHANGED <<opts, last>> /\ (overtaken' <=> overtaken /\ pending = <<>>)
    BY <1>6 DEF Schedule!Tick
  <2>2. ASSUME ~overtaken' PROVE Schedule!Written = Current
    BY <2>1, <2>2 DEF Schedule!Written, ScheduleInv, LastSaveIsCurrent
  <2>3. ASSUME ~overtaken' PROVE store' = Current'
    <3> HIDE DEF Schedule!Earlier
    <3> QED BY <2>1, <2>2, <2>3 DEF Current
  <2> QED BY <2>1, <2>3 DEF LastSaveIsCurrent
<1>7. CASE \/ \E t \in timers : Schedule!CheckDue(t)
           \/ Schedule!UserStarts \/ Schedule!GhostEnds \/ UNCHANGED schedule_vars
  <2>1. UNCHANGED <<entry, due, opts, last, pending, store, overtaken>>
    BY <1>7 DEF Schedule!CheckDue, Schedule!UserStarts, Schedule!GhostEnds, Schedule!memory,
       schedule_vars
  <2> QED BY <2>1 DEF ScheduleInv, LastSaveIsCurrent, Current
<1>8. ~(Schedule!Load \/ Schedule!SetupFails \/ Schedule!Unload \/ Schedule!Crash)
  BY DEF Schedule!Load, Schedule!SetupFails, Schedule!Unload, Schedule!Crash
<1> QED BY <1>1, <1>2, <1>3, <1>4, <1>5, <1>6, <1>7, <1>8 DEF Schedule!Next, Schedule!Fires

LEMMA PromiseStep ==
  ScheduleInv /\ [Schedule!Next]_schedule_vars => PromiseIsKept'
<1> SUFFICES ASSUME ScheduleInv, [Schedule!Next]_schedule_vars PROVE PromiseIsKept'
  OBVIOUS
<1>0. PromiseIsKept /\ promise \in [at : DueTimes, every : Intervals \cup {0}]
  BY DEF ScheduleInv, ScheduleTypes
<1>1. CASE Schedule!Load \/ Schedule!SetupFails
  BY <1>0, <1>1 DEF Schedule!Load, Schedule!SetupFails, PromiseIsKept, Schedule!Quiet
<1>2. CASE Schedule!StartSchedulers
  <2>1. entry = "loading" /\ entry' = "on" /\ opts' = opts
    BY <1>2 DEF Schedule!StartSchedulers
  <2>2. CASE opts.sync
    <3>1. due' = Schedule!FirstDue /\ Schedule!Announce(Schedule!FirstDue)
      BY <1>2, <2>2 DEF Schedule!StartSchedulers
    <3>2. Schedule!FirstDue # None
      BY OptionsAre DEF Schedule!FirstDue
    <3>3. promise' = [at |-> due', every |-> opts.every]
      <4>1. CASE promise.every = opts.every /\ promise.at # None
        <5>1. promise' = promise /\ restored = promise.at
          BY <1>0, <2>1, <3>1, <4>1 DEF Schedule!Announce, PromiseIsKept
        <5> QED BY <1>0, <3>1, <4>1, <5>1 DEF Schedule!FirstDue
      <4>2. CASE ~(promise.every = opts.every /\ promise.at # None)
        BY <3>1, <4>2 DEF Schedule!Announce
      <4> QED BY <4>1, <4>2
    <3> QED BY <2>1, <2>2, <3>1, <3>2, <3>3 DEF PromiseIsKept
  <2>3. CASE ~opts.sync
    BY <1>2, <2>1, <2>3 DEF Schedule!StartSchedulers, PromiseIsKept
  <2> QED BY <2>2, <2>3
<1>3. ASSUME NEW t \in timers, Schedule!SyncDue(t) PROVE PromiseIsKept'
  <2>1. /\ entry = "on" /\ opts.sync /\ entry' = entry /\ opts' = opts
        /\ due' = opts.every /\ promise' = [at |-> opts.every, every |-> opts.every]
        /\ opts.every # None
    BY <1>3, TimersAre, OptionsAre DEF Schedule!SyncDue, Schedule!NextDue
  <2> QED BY <2>1 DEF PromiseIsKept
<1>4. CASE \/ \E t \in timers : Schedule!CheckDue(t)
           \/ Schedule!UserStarts \/ Schedule!JobEnds \/ Schedule!SaveLands
  <2>1. entry = "on"
    BY <1>4, TimersAre DEF Schedule!UserStarts, Schedule!JobEnds, Schedule!SaveLands,
       ScheduleInv, NothingLeft
  <2>2. UNCHANGED <<entry, opts, due, promise>>
    BY <1>4 DEF Schedule!CheckDue, Schedule!UserStarts, Schedule!JobEnds, Schedule!SaveLands,
       Schedule!memory
  <2> QED BY <1>0, <2>1, <2>2 DEF PromiseIsKept
<1>5. CASE Schedule!Unload
  <2>1. /\ entry = "on" /\ entry' = "off" /\ UNCHANGED <<opts, store>>
        /\ promise' = IF Schedule!Settled THEN promise ELSE Schedule!NoDue
    BY <1>5 DEF Schedule!Unload, Schedule!Kept
  <2>2. CASE Schedule!Settled
    <3>1. ghost' = Schedule!NoGhost /\ store = Current
      BY <1>5, <2>1, <2>2
         DEF Schedule!Unload, Schedule!Settled, ScheduleInv, LastSaveIsCurrent
    <3> QED BY <1>0, <2>1, <2>2, <3>1
            DEF PromiseIsKept, Schedule!NoGhost, Schedule!Quiet, Schedule!NoDue, Current
  <2>3. CASE ~Schedule!Settled
    BY <2>1, <2>3 DEF PromiseIsKept, Schedule!NoDue
  <2> QED BY <2>2, <2>3
<1>6. CASE Schedule!Crash
  <2>1. /\ entry' = "off" /\ ghost' = Schedule!NoGhost /\ UNCHANGED <<opts, store>>
        /\ promise' = IF Schedule!Settled THEN promise ELSE Schedule!NoDue
    BY <1>6 DEF Schedule!Crash, Schedule!Kept
  <2>2. CASE Schedule!Settled /\ entry = "on"
    <3>1. store = Current
      BY <2>2 DEF Schedule!Settled, ScheduleInv, LastSaveIsCurrent
    <3> QED BY <1>0, <2>1, <2>2, <3>1
            DEF PromiseIsKept, Schedule!NoGhost, Schedule!Quiet, Schedule!NoDue, Current
  <2>3. CASE Schedule!Settled /\ entry # "on"
    BY <1>0, <2>1, <2>3 DEF PromiseIsKept, Schedule!NoGhost, Schedule!Quiet
  <2>4. CASE ~Schedule!Settled
    BY <2>1, <2>4 DEF PromiseIsKept, Schedule!NoDue
  <2> QED BY <2>2, <2>3, <2>4
<1>7. CASE Schedule!GhostEnds \/ Schedule!GhostLands
  <2>1. ~Schedule!Quiet /\ UNCHANGED <<entry, opts, due, promise>>
    BY <1>7 DEF Schedule!GhostEnds, Schedule!GhostLands, Schedule!memory, Schedule!Quiet
  <2> QED BY <1>0, <2>1 DEF PromiseIsKept
<1>8. CASE Schedule!Tick
  <2>1. /\ UNCHANGED <<entry, opts, ghost>>
        /\ restored' = Schedule!Earlier(restored) /\ due' = Schedule!Earlier(due)
        /\ promise' = [promise EXCEPT !.at = Schedule!Earlier(@)]
        /\ store' = [Schedule!Written EXCEPT !.due = Schedule!Earlier(@)]
    BY <1>8 DEF Schedule!Tick
  <2>2. Schedule!Earlier(None) = None /\ (Schedule!Earlier(promise.at) = None <=> promise.at = None)
    BY EarlierIs, StateIs DEF Schedule!Earlier
  <2> HIDE DEF Schedule!Earlier
  <2>3. promise' = [at |-> Schedule!Earlier(promise.at), every |-> promise.every]
    BY <1>0, <2>1
  <2>4. CASE entry = "on"
    BY <1>0, <2>1, <2>2, <2>3, <2>4 DEF PromiseIsKept, Schedule!NoDue
  <2>5. CASE entry # "on"
    <3>1. store' = [store EXCEPT !.due = Schedule!Earlier(@)]
      BY <2>1, <2>5 DEF ScheduleInv, NothingLeft, Schedule!Written
    <3>2. store'.due = Schedule!Earlier(store.due) /\ store'.every = store.every
      BY <3>1, StateIs DEF Saves
    <3>3. promise'.at = None => promise' = Schedule!NoDue
      BY <1>0, <2>2, <2>3 DEF PromiseIsKept, Schedule!NoDue
    <3> QED BY <1>0, <2>1, <2>2, <2>3, <2>5, <3>2, <3>3 DEF PromiseIsKept, Schedule!Quiet
  <2> QED BY <2>4, <2>5
<1>9. CASE UNCHANGED schedule_vars
  BY <1>0, <1>9 DEF schedule_vars, PromiseIsKept, Schedule!Quiet
<1> QED BY <1>1, <1>2, <1>3, <1>4, <1>5, <1>6, <1>7, <1>8, <1>9
        DEF Schedule!Next, Schedule!Fires

LEMMA SinceStep ==
  ScheduleInv /\ [Schedule!Next]_schedule_vars => SinceLastSync'
<1> SUFFICES ASSUME ScheduleInv, [Schedule!Next]_schedule_vars PROVE SinceLastSync'
  OBVIOUS
<1>0. SinceLastSync /\ since \in Nat /\ since <= Schedule!Longest
  BY LongestIs DEF ScheduleInv, ScheduleTypes, Schedule!TypeOK
<1> HIDE DEF Schedule!Longest
<1>1. CASE Schedule!Load \/ Schedule!SetupFails \/ Schedule!StartSchedulers
  BY <1>0, <1>1 DEF Schedule!Load, Schedule!SetupFails, Schedule!StartSchedulers, SinceLastSync
<1>2. ASSUME NEW t \in timers, Schedule!SyncDue(t) PROVE SinceLastSync'
  <2>1. /\ entry' = entry /\ opts' = opts /\ due' = opts.every /\ since' \in {0, since}
        /\ entry = "on"
    BY <1>2, TimersAre DEF Schedule!SyncDue, Schedule!NextDue
  <2> QED BY <1>0, <2>1, OptionsAre DEF SinceLastSync
<1>3. CASE Schedule!Unload \/ Schedule!Crash
  BY <1>3 DEF Schedule!Unload, Schedule!Crash, SinceLastSync
<1>4. CASE Schedule!Tick
  <2>1. /\ UNCHANGED <<entry, opts>> /\ due' = Schedule!Earlier(due)
        /\ since' = IF since < Schedule!Longest THEN since + 1 ELSE since
        /\ \A t \in timers : t.at > 0
    BY <1>4 DEF Schedule!Tick
  <2>2. ASSUME entry = "on", opts.sync PROVE due \in Int /\ due > 0 /\ due' = due - 1
    <3>1. Schedule!Arm("sync", due) \in timers /\ due # None
      BY <2>2 DEF ScheduleInv, TimerShape, SyncTimer
    <3>2. due > 0
      BY <2>1, <3>1 DEF Schedule!Arm
    <3>3. due \in Int
      BY <3>1, LongestIs, StateIs DEF DueTimes
    <3> QED BY <2>1, <3>1, <3>2, <3>3, EarlierIs, StateIs
  <2> QED BY <1>0, <2>1, <2>2, OptionsAre, LongestIs DEF SinceLastSync
<1>5. CASE \/ \E t \in timers : Schedule!CheckDue(t)
           \/ Schedule!UserStarts \/ Schedule!JobEnds \/ Schedule!SaveLands
           \/ Schedule!GhostEnds \/ Schedule!GhostLands \/ UNCHANGED schedule_vars
  <2>1. UNCHANGED <<entry, opts, due, since>>
    BY <1>5 DEF Schedule!CheckDue, Schedule!UserStarts, Schedule!JobEnds, Schedule!SaveLands,
       Schedule!GhostEnds, Schedule!GhostLands, Schedule!memory, schedule_vars
  <2> QED BY <1>0, <2>1 DEF SinceLastSync
<1> QED BY <1>1, <1>2, <1>3, <1>4, <1>5 DEF Schedule!Next, Schedule!Fires

(* A behaviour of the run is one of the schedules, or leaves them alone.   *)
LEMMA OfSchedule == [MCNext]_mcvars => [Schedule!Next]_schedule_vars
BY DEF MCNext, mcvars, OfSchedules

LEMMA ScheduleStep == ScheduleInv /\ [MCNext]_mcvars => ScheduleInv'
BY OfSchedule, TypeStep, NothingLeftStep, TimerStep, LastSaveStep, PromiseStep, SinceStep
   DEF ScheduleInv

LEMMA ScheduleInvariant == MCSpec => []ScheduleInv
<1>1. MCInit => ScheduleInv
  BY ScheduleInit DEF MCInit
<1> QED BY <1>1, ScheduleStep, PTL DEF MCSpec

(* Whatever reloads, crashes and ends of runs do, a loaded entry has the   *)
(* timers its options ask for, one each (the sync timer for the due time   *)
(* it publishes), and one that is not loaded has none.                     *)
THEOREM TimersFollowOptions == MCSpec => []OneTimerEach
<1>1. ScheduleInv => OneTimerEach
  <2> SUFFICES ASSUME ScheduleInv PROVE Schedule!OneTimerEach
    BY DEF OneTimerEach, ScheduleInv, ScheduleTypes
  <2>1. CASE entry # "on"
    <3>1. timers = {} /\ due = None
      BY <2>1 DEF ScheduleInv, NothingLeft
    <3>2. {who \in {"sync", "check"} : entry = "on" /\ opts[who]} = {}
      BY <2>1
    <3>3. {t.at : t \in {u \in timers : u.who = "sync"}} = {} /\ {t.who : t \in timers} = {}
      BY <3>1
    <3> QED BY <3>1, <3>2, <3>3 DEF Schedule!OneTimerEach
  <2>2. CASE entry = "on"
    <3> DEFINE S == Schedule!Arm("sync", due)
    <3>1. PICK at \in -Late..CheckEvery :
            timers = (IF opts.sync THEN {S} ELSE {}) \cup CheckTimer(at)
      BY <2>2 DEF ScheduleInv, TimerShape, SyncTimer
    <3> DEFINE C == Schedule!Arm("check", at)
    <3>2. /\ timers = (IF opts.sync THEN {S} ELSE {}) \cup (IF opts.check THEN {C} ELSE {})
          /\ due = None <=> ~opts.sync
      BY <2>2, <3>1 DEF ScheduleInv, TimerShape, CheckTimer
    <3>3. S.who = "sync" /\ S.at = due /\ C.who = "check" /\ S # C
      BY DEF Schedule!Arm
    <3> HIDE DEF S, C
    <3>4. {t.at : t \in {u \in timers : u.who = "sync"}} = {due} \ {None}
      <4>1. CASE opts.sync
        <5>1. {u \in timers : u.who = "sync"} = {S}
          BY <3>2, <3>3, <4>1
        <5> QED BY <3>2, <3>3, <4>1, <5>1
      <4>2. CASE ~opts.sync
        <5>1. {u \in timers : u.who = "sync"} = {}
          BY <3>2, <3>3, <4>2
        <5> QED BY <3>2, <4>2, <5>1
      <4> QED BY <4>1, <4>2
    <3>5. opts["sync"] = opts.sync /\ opts["check"] = opts.check
      OBVIOUS
    <3>6. {t.who : t \in timers} = {who \in {"sync", "check"} : entry = "on" /\ opts[who]}
      <4>1. \A t : t \in timers <=> (opts.sync /\ t = S) \/ (opts.check /\ t = C)
        BY <3>2
      <4> QED BY <2>2, <3>3, <3>5, <4>1
    <3>7. \A t, u \in timers : t.who = u.who => t = u
      BY <3>2, <3>3
    <3> QED BY <3>4, <3>6, <3>7 DEF Schedule!OneTimerEach
  <2> QED BY <2>1, <2>2
<1> QED BY <1>1, ScheduleInvariant, PTL

(* A due time that was announced and saved survives every restart and every*)
(* reload with the same interval (FleetClockSyncOrchestrator restores it). *)
THEOREM AnnouncedTimesSurvive == MCSpec => []DueSurvives
<1>1. ScheduleInv => DueSurvives
  BY DEF ScheduleInv, PromiseIsKept, DueSurvives, Schedule!DueSurvives
<1> QED BY <1>1, ScheduleInvariant, PTL

(* The file follows the loaded entry as soon as its saves are written,     *)
(* unless an orchestrator that was stopped wrote it since.                 *)
THEOREM FileHasTheState == MCSpec => []FileFollows
<1>1. ScheduleInv => FileFollows
  BY DEF ScheduleInv, LastSaveIsCurrent, Current, FileFollows, Schedule!FileFollows
<1> QED BY <1>1, ScheduleInvariant, PTL

(* Two automatic syncs of one load are an interval apart, and one that was *)
(* overdue is made up for once.                                            *)
THEOREM RunsAreSpaced == MCSpec => SpacedRuns
<1>1. ScheduleInv /\ [MCNext]_mcvars =>
        [job # "auto" /\ job' = "auto" => since >= opts.every]_(Schedule!vars)
  <2> SUFFICES ASSUME ScheduleInv, [Schedule!Next]_schedule_vars, job # "auto", job' = "auto"
               PROVE  since >= opts.every
    BY OfSchedule
  <2>1. PICK t \in timers : Schedule!SyncDue(t)
    BY DEF Schedule!Next, Schedule!Fires, Schedule!Load, Schedule!SetupFails,
       Schedule!StartSchedulers, Schedule!CheckDue, Schedule!UserStarts, Schedule!JobEnds,
       Schedule!SaveLands, Schedule!Unload, Schedule!GhostEnds, Schedule!GhostLands,
       Schedule!Crash, Schedule!Tick, Schedule!memory, schedule_vars
  <2>2. entry = "on" /\ opts.sync /\ t.at = due /\ due \in Int /\ due <= 0
    BY <2>1, TimersAre DEF Schedule!SyncDue, Schedule!Arm
  <2>3. since = Schedule!Longest \/ since + due >= opts.every
    BY <2>2 DEF ScheduleInv, SinceLastSync
  <2>4. since \in Int
    BY LongestIs DEF ScheduleInv, ScheduleTypes, Schedule!TypeOK
  <2> QED BY <2>2, <2>3, <2>4, OptionsAre
<1> QED BY <1>1, ScheduleInvariant, PTL DEF MCSpec, SpacedRuns, Schedule!SpacedRuns
=============================================================================
