------------------------- MODULE MCManagementStore -------------------------
(***************************************************************************)
(* In one run, the records of the managed repeaters and their file, the    *)
(* snapshot of one repeater and the life of the config entry.  A behaviour *)
(* is of one of the three, and the other two stay in an initial state.     *)
(***************************************************************************)
EXTENDS ManagementStore, Sequences

CONSTANTS
  Ids, Most, Selections, Moves, Reloads, Faults,     (* Lifecycle's         *)
  Readings, Inputs, Default, MinAge, MaxAge, Poll, Cooldown, Asks, MaxTime,
  Down                                               (* Health's            *)

VARIABLES
  part,
  now, source, settings, saving, asked, timer, atEnd, poll, data, unseen, heard,
  present, options, state, pc, waiting, hearing, reconciliation, deselected, selected,
  found, active, legacy, listeners, registry, excused, missed, raised, changes, moves,
  faults

health_vars == <<now, source, settings, saving, asked, timer, atEnd, poll, data, unseen,
                 heard>>
entry_vars  == <<present, options, state, pc, waiting, hearing, reconciliation, deselected,
                 selected, found, active, legacy, listeners, registry, excused, missed,
                 raised, changes, moves, faults>>
mcvars == <<part, vars, health_vars, entry_vars>>

(* Settings with other calibrations and ages, one with ages out of order;  *)
(* between them the two readings deserve every grade of health.            *)
Defaults == [voltage_offset |-> -8, empty_voltage |-> 30, full_voltage |-> 42,
             battery_warning |-> 40, battery_critical |-> 20,
             fresh_max_age |-> 2, aging_max_age |-> 3, stale_max_age |-> 5,
             offline_max_age |-> 5]
Patient  == [Defaults EXCEPT !.voltage_offset = -5, !.fresh_max_age = 3,
             !.aging_max_age = 4, !.stale_max_age = 5, !.offline_max_age = 6]
Mixed    == [Defaults EXCEPT !.fresh_max_age = 4]
SmallInputs == {Defaults, Patient, Mixed}

Health == INSTANCE Health
Entry  == INSTANCE Lifecycle WITH Changes <- Selections

ASSUME HealthAssumption == Health!ConstantsAssumption
ASSUME EntryAssumption  == Entry!ConstantsAssumption

MCInit ==
  /\ part \in {"store", "health", "entry"}
  /\ Init /\ Health!Init /\ Entry!Init
  /\ part # "health" => source = None /\ settings = Default
  /\ part # "entry" => present = {} /\ options = <<>>

OfStore(step) == part = "store" /\ step /\ UNCHANGED <<part, health_vars, entry_vars>>
OfEntry(step) == part = "entry" /\ step /\ UNCHANGED <<part, vars, health_vars>>

MCNext ==
  \/ OfStore(Next)
  \/ OfEntry(Entry!Next)
  \/ part = "health" /\ Health!Next /\ UNCHANGED <<part, vars, entry_vars>>

MCSpec == MCInit /\ [][MCNext]_mcvars /\ WF_mcvars(OfEntry(Entry!Operation))

(* A change of the source or of saved settings is shown within one cooldown*)
(* of the debouncer, whatever a poll calls off, and ageing within one poll.*)
(* (The state of the snapshot is well typed as well.)                      *)
ShownInTime == Health!TypeOK /\ Health!ShownSoon /\ Health!NeverOld

(* What is published is right: health is the worse of what the battery and *)
(* the freshness deserve, and the transition that is announced is the first*)
(* moment at which the freshness changes.                                  *)
ShownIsRight == Health!HealthIsWorst /\ Health!TransitionIsFirst

(* Time alone improves nothing: a snapshot of the same reading under the   *)
(* same settings is never better than the one before it.                   *)
AgeingOnlyWorsens == Health!AgeingOnlyWorsens

(* An entry with nothing to do runs the selection of the options, unless   *)
(* they were saved while a set-up that had read them went on; exactly its  *)
(* coordinators listen to a source, unless a set-up raised.  (And the state*)
(* of the entry is well typed.)                                            *)
RunsSelection == Entry!TypeOK /\ Entry!RunsSelection /\ Entry!OneListenerEach

(* A device deselected while the entry was loaded and idle leaves no       *)
(* records.                                                                *)
DeselectionCleans == Entry!DeselectionCleans

(* A device loses the Alpha2 identity only by being deselected.            *)
IdentityStays == Entry!IdentityStays

(* Every reload gets the entry's lock and ends.                            *)
ReloadsEnd == part = "entry" => Entry!ReloadsEnd
=============================================================================
