# MeshCore NOC: TLA+ specifications

MeshCore NOC is a Home Assistant custom integration
(`custom_components/meshcore_noc`) that watches the repeaters of a MeshCore radio
network: it checks and sets their clocks over the air, runs both fleet-wide, keeps
per-repeater settings, rates their health and updates itself. It runs in the one
event loop of Home Assistant: coroutines interleave only at an `await`, callbacks
run to completion. What is hard is in those awaits. A clock operation lasts
minutes, crosses an unreliable radio, shares a result object, three registries and
two fleet gates with every other operation, and can be cancelled at each await.

Paths below are relative to `custom_components/meshcore_noc/`.

## 1. Inventory

**What runs in production.** `management.py:438-451` installs the chain
`epoch_sync_beta8 .. beta15`, each replacing functions of the one before. What is
left active: `async_check_clock` is `epoch_sync_beta14.py:165`,
`async_sync_repeater_clock` is `epoch_sync_beta15.py:355` wrapping
`epoch_sync_beta10.py:394`, the raw event handler is beta15 -> beta10 -> beta8 ->
`clock.py:912`, logins go through `epoch_sync_beta14.py:68`, companion repair
through `epoch_sync_beta9.py:287`, fleet checks start without delays
(`epoch_sync_beta8.py:71`), automatic syncs through `epoch_sync_beta15.py:416`. The
same functions in `clock.py` (551-884) and in the other betas never run.

| Component | State | Operations | Hard part | What makes it correct |
|---|---|---|---|---|
| Clock manager (`clock.py`, beta14, beta8) | `_pending`, `_pending_sync`, `_sync_tasks`, `_results`, pending login futures, fleet gates | check, raw event, start, stop, reserve/release, begin/end fleet sync | checks register late; maps keyed by prefix are popped by whoever ends first; shared result | no leaked registration, every call returns |
| Single sync (beta10, beta15) | entry in `_pending_sync`, transcript | pre-check, gate, inner pre-check, write, post-check, cancel | gate read after an await; cancellation swallowed | exclusive past the gate; SUCCESS only with a fresh reading |
| Companion clock and anti-replay (beta9, beta10, beta15) | companion lock, companion clock, recovery epochs | repair contacts, reboot, set forward, recovery `clkreboot`, `clock sync` | two syncs share one companion; forward-only clocks; late replies | a safe source from its verification to the write; SUCCESS means the clock is set; every sync ends |
| Fleet check (`fleet_clock.py`) | `_current_run`, `_cancel_event`, rotation index, timer, history | start, cancel, scheduled start, stop | task cancelled mid-check; failures isolated | covers the fleet, releases its reservation, ends |
| Fleet sync (`fleet_sync.py`) | `_current_run`, `_task`, `_cancel_event`, due time, stored summary | sync all, scheduled start, initialize, stop, save | runs inside its caller's task; the save races the unload | gate held exactly while active; ends |
| Schedules (`fleet_sync.py`, `fleet_clock.py`) | timers, due time, stored summary, the file | load, arm, fire, save, stop | reload during a run, late saves, crashes | one timer each, one catch-up, due time survives, the file follows |
| Setup and unload (`__init__.py`) | runtime data, services, unload callbacks, reconciliation summary, registry records | setup, unload, reload, options update | order of the callbacks; partial failure; options that change during a reload | nothing keeps running or stays reserved; coordinators, listeners and records follow the selection |
| Management store (`management.py`) | records in memory and in a file | save, reset, set/remove password, load | memory is changed before the save; an error of the write is only logged; a save outlives a reload | what was reported as saved is kept in memory and, unless a write failed, in the file; password kept |
| Updater (`updater.py`) | offer, lock, installation state, directories | check, install, restart | two renames, crash, a rollback that may fail itself, a refresh during the download | an integration is always installed or restorable |
| Health (`coordinator.py`, `models.py`) | source states, settings in force, debouncer, poll | source event, refresh, poll | a refresh that is called off; ages at the boundary | shown in time; health is the worst of its sources |
| Discovery, targets (`discovery.py`, `__init__.py:311`) | registry snapshots | discover, reconcile, resolve | ambiguous prefixes | one target per prefix |
| Readings (`clock.py`) | - | parse, offset, classify | boundaries of thresholds | total and monotone |
| Dashboard (`dashboard.py`) | panel registration | register, remove | repeated setup | one panel per loaded entry |
| Entities, diagnostics, config flow, front end | - | read-only views and forms | - | - |

Interactions: services and buttons call the manager and the two orchestrators; both
orchestrators call the manager's check and sync and take its gates; the radio
(external: the MeshCore integration's services and its `meshcore_raw_event`)
completes the manager's futures; unload stops the three in one batch; the
password comes from the management store through the entry's runtime data.

## 2. Plan

1. *(done)* `ClockManager`: checks and single syncs over a lossy radio.
2. *(done)* `FleetClock`, `FleetSync`: the two orchestrators on top of it.
3. *(done)* `ClockGate`, the abstract promise, and `ClockSystem`, the composition
   that implements it.
4. *(done)* `ClockWrite`: the write transaction with clock values, replay protection
   and the shared companion; `LatencyProbe`: the compensation of radio delay.
5. *(done)* `Schedules`: timers, due times, the stored summary, reloads and crashes.
6. *(done)* `UpdateOffer`, `Updater`: what is offered, and its installation with
   crash, rollback and pruning.
7. *(done)* `ManagementStore`, `Health`, `Lifecycle`: the settings and their file, the
   snapshot that shows them, and the entry that owns both.

Proofs *(done)*: every invariant and every action property that a passing run checks,
and the refinement of the gate, is also a theorem. What stays with TLC is liveness. Next
would be that `ClockWrite` implements the await `ClockManager` leaves open, as a step-by-step
refinement. No module with proofs declares a RECURSIVE operator.

## 3. Modules

* **ClockManager** - one task per call. `pc` is the await a task is suspended in,
  `stage` which check of which operation it runs, `future` the future it waits on,
  `outcome` what it returned. `pending`, `pendingLogin`, `pendingSync`, `syncTasks`,
  `result`, `fleetRunId`, `reserved` and `fleetSyncId` are the manager's fields. An
  action is the code of one task between two awaits: `Check`/`Sync` (guards to the
  first await), `LoginAccepted`, `LoginFails`, `LoginUnconfirmed`, `LoginAgain`,
  `LoginRaises`, `ClockSent`, `ClockAnswered`, `ClockAgain`, `ClockTimesOut`,
  `ClockSendFails`, `WriteDone`, `WriteFails`, `CancelDelivered`; or one radio event
  (`LoginEvent`, `ClockReply`); or `StopManager`. What a check does when it returns
  depends on who awaits it (`CheckReturns`): a user, the ungated pre-check of beta15,
  the pre-check or the post-check of beta10.
  Abstractions: a reading is only in or out of the 30-second tolerance; the write
  between pre- and post-check is one await with a nondeterministic end; the pause
  before a second `clock` is merged with the await before it (the check stays
  registered and its future open). A second latency correction of one reading
  is the subject of `LatencyProbe`.
* **FleetClock**, **FleetSync** - the orchestrators: the task of a run is also its
  run id. `Check` and `Sync` are those of the manager. `async_create_task` is eager
  wherever `entry.runtime_data` exists, so starting a run includes its first check.
  Between the return of a check and the run's bookkeeping there is no await in the
  code: they are two actions here, and `Settled` in ClockSystem lets no other step in
  between.
* **ClockSystem** - both orchestrators over one manager, with `Unload` running the
  three `async_stop` in the order Home Assistant does.
* **ClockGate** - what the three promise together, in eight actions and four variables.
* **ClockWrite** - the await that `ClockManager` leaves open, for syncs of different
  repeaters that share one companion. Clocks, contact timestamps and replay stamps are
  offsets in seconds from Home Assistant's UTC, and the passage of time is left out:
  what decides is how far clocks stand apart. `pc` is the await of a sync, `seen` the
  companion offset its coroutine holds, `lock` the companion lock; an action is the code
  between two awaits (`Verify`, `Reset`, `Recover`, `Acquire`, `Repair`, `Reboot`,
  `Forward`, `Confirm`, `Send`, `PostReads`, ...). What the firmware does (replay check,
  blank login of a saved administrator, forward-only clock, clock after a boot) is
  external, modelled as the source and its comments rely on it. The informational pre-check
  that beta10 sends inside the gate (lines 499-525) is merged with the one beta15 sends before
  it, as if the two were one await: its offset is only logged, and the stamp or the late reply
  it may leave is taken to be that of the first. (`ClockManager` has both, one after the other.)
* **LatencyProbe** - the probes of beta15 for one repeater whose clock is exact, so
  that the published offset is the error of the measurement. Time runs in ticks,
  offsets in half ticks.
* **Schedules** - both timers, the restored and the published due time, saves on their
  way to the file, and `ghost`, the orchestrator of an earlier load whose cancelled run
  and saves are not over. A time is how far ahead it lies. A tick is an hour: a due timer
  has fired, and a save that was asked for is in the file, before the next one
  (`_save_later` and Home Assistant's delayed write take seconds). `promise` and
  `overtaken` are histories: the due time last announced, kept only over a stop that
  found it saved and no sync under way, and whether a stopped orchestrator wrote the
  file last. `stops` bounds unloads and crashes. Saves that fail are not modelled here.
* **UpdateOffer** - the two channels, the choice among the releases and
  `version_is_newer`; a version is a base and its alpha iteration, `Order` the order in
  which the project makes them, `MadeBefore` what that order respects. Any version, an alpha
  too, may be published without the draft and prerelease flags, which are all the code tests
  of a stable offer. **Updater** - the install call under the coordinator's lock and the
  executor job, one action per file operation, each of which can fail, those of the rollback
  handler too: a deletion that fails leaves a broken tree or the whole one, and an error in the
  handler ends it where it stands. A backup is begun (`BackUp`) and ends later (`Saved`); a job
  that changes the tree meanwhile (`Touch`) makes the copy a broken one. Callers are cancelled,
  the entry is reloaded, Home Assistant stops anywhere. A directory is absent, broken or a
  whole tree of some version. Backups are pruned in the order of their names, timestamps to
  the second, which is taken to be that of their creation: the wall clock is not set back
  between them and no two are made in one second.
  `world` never changes: it says which of these happen in a behaviour (`overlap`,
  `crashes`, whether the archive is the head of a branch) and bounds versions and installs.
  `left` has the whole trees that ended jobs leave under the name they were set aside.
  `made` and `hurt` are histories: the backups begun since the running version was loaded,
  and whether, since an install last succeeded, Home Assistant was stopped while the old tree
  was set aside or a rollback failed.
* **ManagementStore** - store objects, each with its records in memory, the one file, and
  requests that change a record at once and then await the save. An unload waits for no
  request, and each load makes a new store, so that the saves of two stores may overlap. The
  versions of a field stand for its values. Home Assistant's `Store` is external: one write
  at a time per store object, of the data as it is when the write begins, unless an earlier
  write already took it; the file is replaced in one piece. A write that ends in a `WriteError`
  or `SerializationError` is logged there and the save returns normally (`WriteIsLogged`), so
  that the request is answered as saved; any other exception reaches the request
  (`WriteFails`). A save while Home Assistant is stopping, which its `Store` defers to the
  final write, is not modelled, nor a record changed while the executor serialises it. `told`
  is a history, what was answered as saved; `behind` says that the last write failed or was
  that of an earlier store, which is when the file need not have it. `told` starts anew from
  the file at a load that finds such a difference, or a save still under way.
* **Health** - the snapshot of one repeater, its source entity, its settings, the
  debouncer and the poll of Home Assistant's `DataUpdateCoordinator` (external). The
  wall clock is not set back; percentages are rounded half up; the individual limits of
  `validate_repeater_settings` are those of the code in tenths of a volt, ages in ticks.
* **Lifecycle** - the entry: set-up, unload and reload under Home Assistant's lock, the
  update listener and the summary it leaves, the registry records with their Alpha2 or
  later unique IDs. `reconciliation` is the set of removed IDs the summary holds, empty
  without one. The listener runs eagerly with the change of the options; set-ups that raise,
  unloads that fail and restarts are bounded together (`Faults`), a selection by `Most`.
* **..._proofs** - the theorems: `ClockManager_proofs`, `ClockGate_proofs`,
  `ClockSystem_proofs` and `ManagementStore_proofs` of the module they are named after,
  `ClockWrite_proofs` of `ClockWrite` and its calm instance, `MCClockGate_proofs` of
  `LatencyProbe` and `Schedules`, `MCUpdater_proofs` of `Updater` and `UpdateOffer`,
  `MCManagementStore_proofs` of `Health` and `Lifecycle`.
* **MC...** - instances. `MCClockManager` and `MCClockSystem` only give model values: a
  task set of n elements bounds the calls to n, the attempt limits are constants (2 in
  the code). The others put parts side by side (below).

**Parts side by side.** `MCClockWrite`, `MCClockGate`, `MCUpdater` and
`MCManagementStore` check several instances, or several components that share no
state, in one run. A variable chosen by `Init` and never changed (`world`, `part`) says
whose behaviour this is; only that part's actions are enabled, the others keep one initial
state, and the fairness conditions of a part mention its actions only, so that they are
vacuous elsewhere. The behaviours of the run are thus exactly those of the parts, taken
one at a time: an invariant of the run is the conjunction of the parts' invariants, and
nothing is hidden by the composition or gained from it. The parameters of the parts are
constants of the MC module that the `.cfg` gives values, so that the theorems about them
hold for every value.

## 4. Runs

| Run | Instance | Properties | Shows |
|---|---|---|---|
| `one_repeater` | 1 repeater, 1 check, 2 syncs, 1 attempt, symmetric calls | `ManagerTypeOK`, `NoLeakedRegistration`, `SyncHoldsItsRepeater`, `SuccessIsVerified` | three operations that overlap in every stage, cancellation and unload anywhere |
| `two_repeaters` | 2 repeaters, 1 check, 1 sync, 2 attempts | `CallsReturn` | retries, login events that go to the wrong prefix, termination |
| `fleet_checks` | 2 repeaters (one without a password), 2 rotating fleet checks, 1 sync | `FullRunCoversFleet`, `GatesFollowRuns`, `FleetRunsEnd` | failure isolation, rotation, release |
| `fleet_sync` | 2 repeaters, 1 fleet sync, 1 sync | `ImplementsGate`, `FleetRunsEnd` | the refinement with a competing single sync |
| `fleet_pair` | 2 repeaters, 1 fleet check, 1 fleet sync | `StopsBeforeNextRepeater` | a run that is cancelled or unloaded between its repeaters while another asks for the gates |
| `gate` | gate: 4 owners, 4 places | `Exclusive` | the promise means exclusion |
| | latency probe: 2 checks of 2 attempts, delays up to 2 ticks, a wait of 3, 12 ticks | `WithinDelay` | travel time is never reported as a clock that is behind, and without a retransmission not as one that is ahead |
| | schedules: intervals 1 and 2 hours, checks every 2, 2 stops | `OneTimerEach`, `SpacedRuns`, `DueSurvives`, `FileFollows`, `KeepsTrying` | reloads, crashes and late saves neither lose a due time nor double a timer |
| `write` | 2 repeaters, 1 companion; three worlds | `SafeSource`, `SuccessMeansSet`, `WritesSafeTime`, `SyncsEnd`, `CalmSyncSucceeds` | the clock write, below |
| `updates` | one at a time: 2 calls, 3 installs begun, 3 versions, stops anywhere, branch archives; overlapping: 2 calls, 2 installs begun, 2 versions, 2 coordinators; 2 backups kept | `Restorable`, `WholeWhenSettled`, `RollsBack`, `InstallsEnd` | nothing is lost, a failed swap leaves the tree it found, in place or aside, every install ends |
| | offers: 6 versions, 2 releases | `OffersGoForward`, `LaterCanBeInstalled` | no offer goes back or is held back |
| `records` | store: 2 repeaters, 3 requests, 2 store objects, 3 changes | `SavedIsInFile`, `FileCatchesUp` | overlapping, failing and interrupted saves, saves that outlive their entry |
| | health: 2 readings, 3 settings (one invalid), poll 3, cooldown 1, 6 ticks | `ShownInTime`, `ShownIsRight`, `AgeingOnlyWorsens` | the snapshot keeps up |
| | entry: 2 devices, selections of at most 2, 2 option changes, 1 fault, 2 waiting reloads | `RunsSelection`, `DeselectionCleans`, `IdentityStays`, `ReloadsEnd` | the selection is what runs |

The three worlds of `write`: *shared*, a companion at 30 s or two hours ahead, lost
frames, cancelled callers, slow boots; *faulty*, with late replies, a guest's password and
a companion that restarts on its own besides; *calm*, nothing lost, one repeater synchronized, and a companion behind,
exact, at 29 s, 31 s, hours and days ahead, each with seven repeater offsets and three
replay stamps. Without a restart of the companion it stays a safe source from its
verification to the write, and no write moves a clock further than one second past the safe
lead; without a late pre-check reply SUCCESS means a clock within the tolerance.

**Bounds.** Every conflict of the manager is between two tasks on one prefix (or one
fleet gate), a third adding only who clears whose entry; two repeaters show every effect
of a run's order, of a login event that reaches another prefix, and of a first and a last
repeater. `ClockWrite` needs two syncs, one holding the lock while the other waits;
`Schedules` two stops, so that what one load leaves meets the next, and intervals equal to
and different from the check's; `Updater` a limit below the number of installs, so that
pruning drops a backup, and a third version, so that a second update lands on one that was
not loaded; `ManagementStore` two store objects, the one before the reload and the one after
it, a third load waiting until one has no request left, and three requests, so that one can
wait in each store while a third writes; in the updater's overlapping world a check does not withdraw an offer once an install
has begun (`OffersStand`), it only changes it. `Lifecycle` needs two changes, the second
while the reload of the first runs; `Health` a span longer than every age of the
settings but `Patient`'s last. Deadlock checking is off: when all calls of an instance have
returned, or its bound is reached, the system rightly stops.

**Fairness.** `ClockManager`, `ClockSystem`: weak fairness of `Progress(t)` and of the steps
of a fleet run: the event loop runs a task whose await has ended, and every await ends - a
service call, `asyncio.timeout` or a sleep. `ClockWrite`: the same for each sync, and the
companion boots. `Schedules`: timers fire, operations and writes end, time passes.
`Updater`: a download ends or times out (aiohttp's timeout), a file operation ends.
`ManagementStore` has none, its properties are all of safety. `Lifecycle`: an operation that holds the entry's lock goes on.
A user's call, a cancellation, an unload, a radio event or a fault have no fairness: nothing
in the code makes them happen.

Every property of a passing run has a mutant in `PROJECT.json`, a plausible bug in a
modelled definition that TLC finds with that property; mutated forms stand before the
definition they mutate.

### Disagreements seen in the model

Three runs end in a violation: the code differs from what a document or a test says.

* `single_flight` - `tests/test_clock.py:396` says one target is single-flight.
  beta14 enters the check in `_pending` only after login and settling (line 279), so
  two checks of a repeater pass the guard and transmit together. What still holds is
  `NoLeakedRegistration` and `CallsReturn`.
* `fleet_alone` - `README.md:70-71` and `docs/V4_1_OPERATIONAL_INTELLIGENCE.md:160-161`:
  checks, single syncs and fleet syncs share a gate, and fleet runs do not overlap
  with other transactions. The pre-check of beta15 (line 372) runs before any gate.
  What still holds is `ImplementsGate`: no *write* overlaps.
* `write_late_reply` - `docs/V1_1_RELEASE.md:73`: a sync is successful only when the final
  verified offset is within 30 seconds. A clock reply carries no request id, so a late one
  to the pre-check completes the post-check of a repeater whose clock was reset and never
  written (beta10, line 672). What still holds is `SuccessMeansSet`.

The other definitions below state what a document says and are false of the module they
stand in: name one as the invariant or property of an instance to see the trace. No run
does; where a weaker property holds it is checked above.

| Module: definition | What the code does | What is said |
|---|---|---|
| ClockManager: `EndedCheckIsClassified` | an exception of the login call leaves `calling_service` with no outcome (beta14:241) | `docs/V4_1_OPERATIONAL_INTELLIGENCE.md:203-206` |
| ClockManager: `UntouchedIfHealthy` | the gated pre-check only logs its offset: after an ungated one without a reading, a repeater in tolerance is reset and written (beta10:512) | `README.md:60-61` |
| ClockWrite: `CleanSyncSucceeds`, with a companion at 30 | the gate accepts a lead of 30 s and the write sends the second after it: 31 s, which the verification refuses (beta15:305) | comment at `epoch_sync_beta12.py:63-65` |
| ClockWrite: `RecoveryResets` | the recovery stamp is at most a day ahead of the companion as it is after another sync's repair, and may be below the stamp it should exceed (beta10:330) | `CHANGELOG.md:61-62` |
| ClockWrite: `WritesSafeTime` without `restarts = 0` | the companion is read again for the write and not verified again (beta15:298) | `epoch_sync_beta9.py:7-9` |
| LatencyProbe: `RetriesWithinDelay` | a reply in the retry gap is followed by a retransmission whose probe corrects the offset once more (beta15:205) | `epoch_sync_beta15.py:6-7` |
| Schedules: `DueSurvives` without `~Syncing` in `Settled` | `async_stop` clears the due time before the cancelled run saves (`fleet_sync.py:452`) | `docs/V4_1_OPERATIONAL_INTELLIGENCE.md:164-166` |
| Schedules: `SyncsRun` | at equal intervals the check's timer fires first and the sync is dropped each time (`fleet_sync.py:311`) | `README.md:73-74` |
| Updater: `OneInstall` | a cancelled call or a reload frees the lock while the job goes on (`updater.py:234`) | `updater.py:213` |
| Updater: `InstallsWhatWasShown` | the offered version is read again after the download (`updater.py:232`) | `docs/updates.md:42-49` |
| Updater: `BackupsLabelled` | the backup is named after the running version, not the tree it copies (`updater.py:509`) | `docs/MH-104_Release_Process.md:142-145` |
| Updater: `BackupsBounded` | backups are pruned only after a success (`updater.py:528`) | `docs/updates.md:51-52` |
| UpdateOffer: `OffersNewest` | the first eligible release of the list is offered (`updater.py:270`) | `docs/updates.md:10-11` |
| ManagementStore: `SavedSurvives` | a failed write is only logged, and a save of the store before a reload may replace the file after the new one read it: what was answered as saved is then gone at the next load (`management.py:239`) | `docs/V1_1_BETA5_REPEATER_MANAGEMENT.md:8-9` |
| Health: `ConfiguredRangeCounts` | a calibrated voltage outside 2.5 to 5.0 V has no percentage (`coordinator.py:169`) | `docs/V1_1_BETA5_REPEATER_MANAGEMENT.md:29` |
| Health: `StaleAgeCounts` | `stale_max_age` is stored and not used (`coordinator.py:187`) | `README.md:108-110` |
| Health: `LatestTelemetryIsFresh` | the age is that of the last *change* of the state (`coordinator.py:178`) | `binary_sensor.py:34` |
| Lifecycle: `SubscribesOnce` | a set-up that raises after its coordinators started leaves their listeners (`__init__.py:278`) | `docs/ARCHITECTURE.md:254` |
| Lifecycle: `DeselectedIsRemoved` | the set-up of one reload takes the summary of the next (`__init__.py:185`) | `docs/MH-103_Architecture.md:261` |
| Lifecycle: `OptionsApplied` | options saved during a set-up are heard by nobody (`__init__.py:307`) | `docs/MH-103_Architecture.md:103` |
| Lifecycle: `OneIdentity` | deselecting the owner of the Alpha2 identity gives it to a device that has its own (`__init__.py:681`) | `tests/test_init.py:144` |

A change answered as not saved is not taken back either: it stays in memory and the next
save writes it (`WriteFails`; `management.py:226`), while
`docs/V1_1_BETA5_REPEATER_MANAGEMENT.md:12` says that changes are persisted only after Save.

`Restorable` is conditional for a reason of the same kind: installs that succeed one after
another without the restart in between push the running version's backup out of the five
that are kept.

## 5. Proofs

`ClockManager_proofs` proves, for any repeaters, any sets of calls and any
attempt limits, `ManagerSpec => []P` for

* `TypeCorrect` (`ManagerTypeOK`),
* `RegistrationsEnd` (`NoLeakedRegistration`),
* `SyncIsExclusive` (`SyncHoldsItsRepeater`),
* `SuccessNeedsReading` (`SuccessIsVerified`).

The four follow from one inductive invariant, `ManagerInv`. None is inductive alone.
`OperationShape` says what a task in flight looks like: without it a step of an
unreachable task could leave its finally block with another task's prefix.
`ReadingIsRecent` says that an in-tolerance result was seen by every operation now under
way on its repeater: every check overwrites the shared result when it starts, and that is
why reading it after the await is harmless. `SyncHoldsItsRepeater` is also what
makes `pendingSync[r] := NoTask` in a finally block remove the task's own entry; for
`pending` nothing of the sort holds (a check may remove another's entry), and
`NoLeakedRegistration` needs only that an entry's owner still waits.
The proof has one lemma per part of a step (`LeaveSafe`, `OpenLoginSafe`, `EnterSyncSafe`,
`LeaveSyncSafe`, `CheckReturnsSafe`) and one per action; they do not mention `ManagerSpec`
and are used again for `ClockSystem`.

`ClockGate_proofs` proves `GateIsExclusive`: `Spec => []Exclusive` for all owners and
places.

`ClockSystem_proofs` proves of `SysSpec`, for any fleet, any runs of both kinds, any single
calls and any attempt limits:

* `GatesFollow` (`GatesFollowRuns`), `FullRunsCover` (`FullRunCoversFleet`), invariants, and
  `SysTypeCorrect`, the types of the whole state (`SysTypeOK`, which no run lists: the runs
  check the manager's part of it),
* `StopsHold` (`StopsBeforeNextRepeater`), an action property,
* `GateIsImplemented` (`ImplementsGate`), the refinement of `ClockGate`; with
  `GateIsExclusive` no two writes share a repeater and no write runs beside a fleet check.

They follow from `SysInv`: `ManagerInv` and what ties the runs to their tasks.
`CheckRunShape` and `SyncRunShape` say that a run reports itself active exactly while
its task is under way, and that a fleet check has checked a prefix of its order and is at
the next element: only so does the end of a run release its own gate, and only so does a
full run (with `OrderedCovers`, on the wrap-around of the rotation) cover the fleet.
`StopsShape` keeps a stop visible: after the unload both cancel events stay set, so that
a sync which swallowed its cancellation still ends its loop. `GateHolders` is the exclusion
itself, needed to show that `EndSync` finds no writer and `EnterWrite` no fleet check. One
lemma sums up what a step of a task can do to all this (`Moves`: it stays under way, and
enters its gate only if `GateFree`), one what the end of a run does (`Rests`); invariance,
the stop property and the refinement all use them. The refinement maps the step that passes the gate of a
sync to `EnterWrite`, its finally block to `LeaveWrite`, the start and the end of a run to
`BeginCheck`, `BeginSync`, `EndCheck`, `EndSync`, and every other step to a stutter. That
a fleet sync does not start *and* pass the gate of its first repeater in one step is
`FirstSyncBeforeGate`: nothing is registered then, so the pre-check goes first.

`ClockWrite_proofs` proves of its `Spec`, for any repeaters that share a companion, any
clocks, stamps and estimates and any faults switched on:

* `WriteTypeCorrect` (`TypeOK`), `SourceStaysSafe` (`SafeSource`), `SuccessIsSet`
  (`SuccessMeansSet`), invariants,
* `WritesStaySafe` (`WritesSafeTime`), an action property.

The invariant is `TypeOK`, `LockInv` and, as long as Home Assistant was not restarted,
`SourceInv`. `LockInv` carries the argument: the companion lock is held by exactly the sync
whose `pc` lies in the companion's section (`Locked`), so that no other sync can repair or
reboot the companion meanwhile. `SourceInv` says that what the holder verified of the
companion is then still true: it is up, nobody repairs it and its lead is safe. `SourceStep`
proves it step by step, and `RestartsStep` that a behaviour without a restart had none
before. `SuccessInv` ties SUCCESS to the reading that was verified.

`ManagementStore_proofs` proves, for any repeaters, requests and stores, `TypesHold`
(`TypeOK`), `SavedStays` (`SavedIsInFile`) and `FileFollows` (`FileCatchesUp`). The types
apart, the invariant speaks of the store that is loaded, since what an earlier one holds is
arbitrary. `LatestInv`: no version exists that was not given out. `RequestInv`: a request's
version is at most the one in memory. `WriteInv`: one request at a time writes, and what it
writes has all that was reported and its own change, and is all of memory unless later data
is pending. `PendingInv`: pending data has a request that waits to write it, so that none is
left in memory only. `ToldInv` and `FileInv` say of memory and file what the two properties
say, in every state: the file equals memory once nothing is pending or being written, unless
the last write failed or was an earlier store's.

`ClockWrite_proofs` also proves `CalmSyncsSucceed` of `MCSpec`: with no frame lost, every
sync with an administrator's password, one after another, succeeds (`CalmSyncSucceeds`), from any
clock, any replay stamp less than a day ahead and any companion that can be repaired.
`CalmInv` follows the one way a sync can go. `Stamped` says what the replay state is before
the recovery, after the reset and after the write, so that no command is refused as a
replay; `Repairable` that an unsafe companion has a contact far enough ahead to be repaired
and is safe once it is; `SuccessComes` that what the post-check reads is then in tolerance.

`MCClockGate_proofs` proves of `MCSpec`, for any delay, wait, gap and number of attempts,
`TravelTimeIsNotDrift` (`WithinDelay`), and for any intervals, options and any number of
reloads, crashes and late saves

* `TimersFollowOptions` (`OneTimerEach`), `AnnouncedTimesSurvive` (`DueSurvives`),
  `FileHasTheState` (`FileFollows`), invariants,
* `RunsAreSpaced` (`SpacedRuns`), an action property.

`WithinDelay` needs to know of the replies still on the air that each was read at most one
delay after the last transmission (`OnTheAir`), and of the check that a first attempt that
is answered leaves no probe (`ProbeShape`). `ScheduleInv` ties the timers to the due time and the
options (`TimerShape`), the queue of saves and the file to the state (`LastSaveIsCurrent`),
and the announced due time to whichever of the loaded entry, the file and the restored value
holds it (`PromiseIsKept`): a promise passes through all three between an unload and the
next load. `SinceLastSync` makes the spacing hold across it.

`MCUpdater_proofs` proves of the `Spec` of `Updater`, in every world and for any installs,
versions, coordinators and backup limit,

* `NothingIsLost` (`Restorable`), `SettledIsWhole` (`WholeWhenSettled`), invariants,
* `FailureRollsBack` (`RollsBack`), an action property,

and of `MCSpec`, for any order of versions, `LaterIsOffered` (`LaterCanBeInstalled`) and
`UpdatesGoForward` (`OffersGoForward`). That a backup exists is not inductive: the next
pruning might take it. `Kept` says where it lies, among the last `made` backups, which a
pruning keeps as long as `made <= Limit`; and that until the running version has such a
backup, it is in place, no job has come far enough to touch it, and a copy under way reads
it. `Marked` says that what is still being copied is not whole. The two properties of
installs one at a time rest on `OneAtATime`: the lock admits one job (`Alone`), the place
of that job says where the tree is that it found (`Swap`); unless a rollback failed or a stop
came in the middle, that tree is whole, and so is what is in place (`WholeTrees`), and in any
case a whole one is in place, left behind or set aside (`Somewhere`). For the offers,
`NewerIsLater` shows that `version_is_newer` decides exactly the order in which versions are
made, and `OffersReleased` that a stable offer is in the list of releases.

`MCManagementStore_proofs` proves of `MCSpec`, for any devices, selections, options, faults,
readings, settings, poll and cooldown,

* `EntryRunsSelection` (`RunsSelection`), `NoRecordsLeft` (`DeselectionCleans`),
  `ChangesAreShown` (`ShownInTime`), `PublishedIsRight` (`ShownIsRight`), invariants,
* `IdentityIsKept` (`IdentityStays`), `AgeImprovesNothing` (`AgeingOnlyWorsens`), action
  properties.

The properties of the entry speak of the moments at which it is idle. `EntryInv` says what
leads there: from the set-up's reading of the options, its coordinators are those selected (`Runs`);
the records of a deselected device wait for an unload that knows of them, because the
listener left them for the reload it asked for, or the running unload removes them
(`Pending`, `Cleans`); at most one device has the Alpha2 identity, and a set-up that selects
it knows that (`Owner`). `HealthInv` says that a change not yet shown waits for a debouncer
that answers at once or for the end of a cooldown that began no later (`Waits`), and that
what is published is the snapshot of one source under one valid setting at one time
(`Published`); `LaterIsNoBetter` then compares two times.

Assumed of the constants, and evaluated by TLC in every run: `ConstantsAssumption` of each
module - prefixes are unique, kinds of calls disjoint, limits positive (manager); the
largest delay is within the correction's cap (probe); the intervals have a largest one, as
the options do (schedules); versions are made in an order that `MadeBefore` respects (offers);
a world has some version and a bound on installs, and `None` is no install (updater); there
is a store object (management store); settings are integers and the
default ones valid, as `validate_repeater_settings` makes them (health) - and
`RotatingAssumption`, `NobodyAssumption` and `CalmAssumption`. The last describes the calm
instance: no companion or contact is at exactly the safe lead (there the code fails, see
`CleanSyncSucceeds` above), a companion ahead of it has a contact more than the grace ahead,
replay stamps are less than a day ahead and a write is estimated at 1 to 30 seconds.

Only model-checked: the liveness properties (`CallsReturn`, `FleetRunsEnd`, `SyncsEnd`,
`KeepsTrying`, `InstallsEnd`, `ReloadsEnd`), since liveness under fairness
is beyond TLAPS.

## 6. Not modelled, and why

* The text of a clock reply, its parsing, and the classification of an offset by two
  thresholds (`clock.py:271-324`): pure functions on one value, which the other modules use
  through what they decide.
* How discovery matches candidates to registry records (`discovery.py`, `naming.py`) and
  how a target is resolved (`clock.py:518`): look-ups in registries that belong to another
  integration. `Lifecycle` takes what is found, `ClockManager` the resolved prefix.
* Of the set-up, the schemas of the services and the panel (`dashboard.py`), whose state is
  Home Assistant's; a failure of either is `SetupRaises`.
* Of the flows, the forms and their validation; of the manager, the history and the `last_*`
  diagnostics; of the updater, URLs, sizes and path checks of an archive.
* Entities, diagnostics and the JavaScript front end (views without state of their own), the
  superseded implementations (never run), the wording of errors, transcripts and logs.

The MeshCore integration and the radio are external: a service call may return or raise, an
event may come at any time or never.
