------------------------------- MODULE Health -------------------------------
(***************************************************************************)
(* The snapshot of one managed repeater: its source entity changes or goes *)
(* away, its settings are changed, a listener asks for a debounced refresh *)
(* and a poll repeats it, so that freshness and health follow the age of   *)
(* the telemetry.  Voltages are in tenths of a volt, times in ticks.       *)
(***************************************************************************)
EXTENDS Integers

CONSTANTS
  Readings,  (* voltages the source reports                                *)
  Inputs,    (* settings an administrator sends, or that a file holds      *)
  Default,   (* DEFAULT_REPEATER_SETTINGS                                  *)
  MinAge, MaxAge, (* the limits of the ages: 60 seconds and 7 days         *)
  Poll,      (* update_interval                                            *)
  Cooldown,  (* of the refresh debouncer                                   *)
  Asks,      (* bound: refreshes asked for at one time                     *)
  MaxTime,   (* bound                                                      *)
  None,      (* no state, no battery, no timer, nothing in flight          *)
  Down       (* unknown, unavailable or not a number                       *)

VARIABLES
  now,
  source,   (* the state of the voltage entity: [value, at], or None       *)
  settings, (* the record of the management store                          *)
  saving,   (* a change of settings whose save is under way                *)
  asked,    (* tasks that call async_request_refresh                       *)
  timer,    (* the debouncer: when its cooldown ends                       *)
  atEnd,    (* _execute_at_end_of_timer                                    *)
  poll,     (* when the next scheduled refresh is due                      *)
  data,     (* the published snapshot                                      *)
  unseen,   (* history: since when a change waits to be shown              *)
  heard     (* history: when telemetry last arrived                        *)

vars == <<now, source, settings, saving, asked, timer, atEnd, poll, data, unseen, heard>>

-----------------------------------------------------------------------------
(* validate_repeater_settings, settings_for                                *)
AgesInOrder(s) ==
  /\ MinAge <= s.fresh_max_age /\ s.fresh_max_age < s.aging_max_age
  /\ s.aging_max_age < s.stale_max_age /\ s.stale_max_age <= s.offline_max_age
  /\ s.offline_max_age <= MaxAge
Valid(s) ==
  /\ s.voltage_offset \in -20..20
  /\ 20 <= s.empty_voltage /\ s.empty_voltage < s.full_voltage /\ s.full_voltage <= 60
  /\ 0 <= s.battery_critical /\ s.battery_critical < s.battery_warning
  /\ s.battery_warning <= 100
  /\ AgesInOrder(s)
ConstantsAssumption ==
  /\ Readings \subseteq Int /\ {None, Down} \cap Int = {} /\ None # Down
  /\ {Poll, Cooldown} \subseteq Nat \ {0} /\ Cooldown < Poll /\ {Asks, MaxTime} \subseteq Nat
  /\ Inputs \subseteq [voltage_offset : Int, empty_voltage : Int, full_voltage : Int,
                      battery_warning : Int, battery_critical : Int, fresh_max_age : Int,
                      aging_max_age : Int, stale_max_age : Int, offline_max_age : Int]
  /\ Default \in Inputs /\ Valid(Default)

InForce == IF Valid(settings) THEN settings ELSE Default

_freshness(age, available, s) ==
  CASE ~available \/ age >= s.offline_max_age -> "Offline"
    [] available /\ s.aging_max_age <= age /\ age < s.offline_max_age -> "Stale"
    [] available /\ s.fresh_max_age <= age /\ age < s.aging_max_age -> "Aging"
    [] OTHER -> "Fresh"

FairBeforePoor(battery, freshness, s) ==                      (* a mutant *)
  CASE battery = None -> "Unknown"
    [] battery # None /\ (freshness = "Stale" \/ battery < s.battery_warning) -> "Fair"
    [] OTHER -> IF freshness = "Offline" THEN "Poor"
                ELSE IF freshness = "Aging" \/ battery < 80 THEN "Good" ELSE "Excellent"
calculate_health(battery, freshness, s) ==
  IF battery = None THEN "Unknown"
  ELSE IF freshness = "Offline" \/ battery < s.battery_critical THEN "Poor"
  ELSE IF freshness = "Stale" \/ battery < s.battery_warning THEN "Fair"
  ELSE IF freshness = "Aging" \/ battery < 80 THEN "Good" ELSE "Excellent"

(* The percentage of the calibrated voltage, rounded and within 0..100.    *)
Clamp(p) == IF p < 0 THEN 0 ELSE IF p > 100 THEN 100 ELSE p
Percent(v, s) ==
  Clamp((200 * (v - s.empty_voltage) + s.full_voltage - s.empty_voltage)
          \div (2 * (s.full_voltage - s.empty_voltage)))
Plausible(v) == 25 <= v /\ v <= 50
Battery(value, s) ==
  IF value \in Readings /\ Plausible(value + s.voltage_offset)
  THEN Percent(value + s.voltage_offset, s) ELSE None

AgeWithinDay(at) == (now - at) % 5                            (* a mutant *)
Age(at) == now - at

(* _async_update_data: one step, it awaits nothing.                        *)
Snapshot ==
  LET s == InForce
      available == source # None /\ source.value # Down
      age == IF source = None THEN None ELSE Age(source.at)
      battery == IF available THEN Battery(source.value, s) ELSE None
      freshness == _freshness(age, available, s)
  IN  [source |-> source, available |-> available, battery |-> battery,
       freshness |-> freshness, health |-> calculate_health(battery, freshness, s),
       settings |-> s, taken |-> now]

WrongBand == [Fresh |-> data.settings.aging_max_age,          (* a mutant *)
              Aging |-> data.settings.aging_max_age, Stale |-> data.settings.stale_max_age]
NextBand == [Fresh |-> InForce.fresh_max_age,
             Aging |-> InForce.aging_max_age, Stale |-> InForce.offline_max_age]
next_freshness_transition ==
  IF data.available /\ data.freshness # "Offline"
  THEN data.source.at + NextBand[data.freshness] ELSE None

-----------------------------------------------------------------------------
Sources == {None} \cup [value : Readings \cup {Down}, at : {0}]

(* Set-up starts the listener and takes the first snapshot; the settings   *)
(* come from a file that may hold anything.                                *)
Init ==
  /\ now = 0 /\ source \in Sources /\ settings \in Inputs /\ saving = None
  /\ asked = 0 /\ timer = None /\ atEnd = FALSE /\ poll = Poll
  /\ data = Snapshot /\ unseen = None /\ heard = 0

Noticed == unseen' = IF unseen = None THEN now ELSE unseen

NobodyListens == UNCHANGED asked                              (* a mutant *)
Listens == asked' = asked + 1

(* The source reports, becomes unavailable or is removed: a change of its  *)
(* state is an event for the listener.                                     *)
SourceChanges ==
  /\ asked < Asks
  /\ source' \in {None} \cup [value : Readings \cup {Down}, at : {now}]
  /\ (source # None /\ source' # None) => source'.value # source.value
  /\ source' # source
  /\ heard' = IF source' # None /\ source'.value \in Readings THEN now ELSE heard
  /\ Listens /\ Noticed
  /\ UNCHANGED <<now, settings, saving, timer, atEnd, poll, data>>

(* Telemetry with the value the state has already is no event, and leaves  *)
(* last_updated as it is.                                                  *)
SameAgain ==
  /\ source # None /\ source.value \in Readings
  /\ heard' = now
  /\ UNCHANGED <<now, source, settings, saving, asked, timer, atEnd, poll, data, unseen>>

(* Settings are replaced at once and saved; invalid ones are refused.      *)
SaveSettings ==
  /\ saving = None
  /\ \E s \in Inputs : Valid(s) /\ settings' = s /\ saving' = s
  /\ UNCHANGED <<now, source, asked, timer, atEnd, poll, data, unseen, heard>>

(* The save ends: the request for a refresh follows only a successful one. *)
Saved ==
  /\ saving # None /\ asked < Asks
  /\ saving' = None
  /\ asked' = asked + 1 /\ Noticed
  /\ UNCHANGED <<now, source, settings, timer, atEnd, poll, data, heard>>

SaveFails ==
  /\ saving # None
  /\ saving' = None
  /\ UNCHANGED <<now, source, settings, asked, timer, atEnd, poll, data, unseen, heard>>

(* A refresh publishes a snapshot, plans the next poll and calls off the   *)
(* debounced refresh it makes needless.                                    *)
Refresh == data' = Snapshot /\ poll' = now + Poll /\ unseen' = None

(* The debouncer runs the first request and collects those of the cooldown *)
(* that follows.                                                           *)
RequestRefresh ==
  /\ asked > 0
  /\ asked' = asked - 1
  /\ \/ timer = None /\ Refresh /\ timer' = now + Cooldown /\ atEnd' = FALSE
     \/ timer # None /\ atEnd' = TRUE /\ UNCHANGED <<timer, poll, data, unseen>>
  /\ UNCHANGED <<now, source, settings, saving, heard>>

CooldownEnds ==
  /\ timer = now
  /\ \/ atEnd /\ Refresh /\ timer' = now + Cooldown
     \/ ~atEnd /\ timer' = None /\ UNCHANGED <<poll, data, unseen>>
  /\ atEnd' = FALSE
  /\ UNCHANGED <<now, source, settings, saving, asked, heard>>

PollDue ==
  /\ poll = now
  /\ Refresh /\ timer' = None /\ atEnd' = FALSE
  /\ UNCHANGED <<now, source, settings, saving, asked, heard>>

(* Time passes when nothing is due.                                        *)
Tick ==
  /\ now < MaxTime /\ asked = 0 /\ timer # now /\ poll # now
  /\ now' = now + 1
  /\ UNCHANGED <<source, settings, saving, asked, timer, atEnd, poll, data, unseen, heard>>

Next == \/ SourceChanges \/ SameAgain \/ SaveSettings \/ Saved \/ SaveFails
        \/ RequestRefresh \/ CooldownEnds \/ PollDue \/ Tick

Spec == Init /\ [][Next]_vars

-----------------------------------------------------------------------------
TypeOK ==
  /\ now \in 0..MaxTime /\ asked \in 0..Asks /\ settings \in Inputs
  /\ saving \in Inputs \cup {None} /\ atEnd \in BOOLEAN /\ heard \in 0..now
  /\ poll \in now..(now + Poll)
  /\ timer = None \/ timer \in now..(now + Cooldown)
  /\ atEnd => timer # None
  /\ data.taken <= now

(* A change of the source, or of saved settings, is shown within one       *)
(* cooldown, however many requests arrive and whatever a poll calls off.   *)
ShownSoon == unseen # None => now - unseen <= Cooldown

(* Ageing shows within one poll, also when a save that failed left new     *)
(* settings in force: what is published is never older.                    *)
NeverOld == now - data.taken <= Poll

(* The announced transition is the first moment at which the freshness of  *)
(* the published reading changes.                                          *)
FreshnessAt(t) == _freshness(t - data.source.at, data.available, InForce)
TransitionIsFirst ==
  next_freshness_transition # None /\ data.settings = InForce =>
    /\ \A t \in data.taken..(next_freshness_transition - 1) : FreshnessAt(t) = data.freshness
    /\ FreshnessAt(next_freshness_transition) # data.freshness

(* Health is the worse of what the battery and what the freshness deserve. *)
Grade == [Unknown |-> 0, Poor |-> 1, Fair |-> 2, Good |-> 3, Excellent |-> 4]
Deserved == [Offline |-> 1, Stale |-> 2, Aging |-> 3, Fresh |-> 4]
OfBattery(b, s) == IF b >= s.battery_warning /\ b >= 80 THEN 4
                   ELSE IF b >= s.battery_warning THEN 3
                   ELSE IF b >= s.battery_critical THEN 2 ELSE 1
HealthIsWorst ==
  data.battery # None =>
    Grade[data.health] = CHOOSE g \in {OfBattery(data.battery, data.settings), Deserved[data.freshness]} :
      g <= OfBattery(data.battery, data.settings) /\ g <= Deserved[data.freshness]

(* Time alone improves nothing: a snapshot of the same reading under the   *)
(* same settings is never better than the one before it.                   *)
AgeingOnlyWorsens ==
  [][data'.source = data.source /\ data'.settings = data.settings =>
       /\ Deserved[data'.freshness] <= Deserved[data.freshness]
       /\ Grade[data'.health] <= Grade[data.health]]_vars

(* A reading between the configured empty and full voltage has a battery.  *)
ConfiguredRangeCounts ==
  data.available /\ data.settings.empty_voltage <= data.source.value + data.settings.voltage_offset
                 /\ data.source.value + data.settings.voltage_offset <= data.settings.full_voltage
    => data.battery # None

(* The stale age ends the stale band.                                      *)
StaleAgeCounts ==
  data.freshness = "Stale" => data.taken - data.source.at < data.settings.stale_max_age

(* A reading that was confirmed by telemetry within the fresh age is fresh.*)
LatestTelemetryIsFresh ==
  data.available /\ heard <= data.taken /\ data.taken - heard < data.settings.fresh_max_age
    => data.freshness = "Fresh"
=============================================================================
