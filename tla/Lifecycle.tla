----------------------------- MODULE Lifecycle ------------------------------
(***************************************************************************)
(* The life of the config entry: options that select the managed devices,  *)
(* set-up and unload under the entry's lock, what the update listener      *)
(* leaves for the unload to clean up, source listeners, and the registry   *)
(* records of the managed devices with the identity of the first one       *)
(* (unique IDs from Alpha2).  Options change at any moment; Home Assistant *)
(* restarts at any moment.                                                 *)
(***************************************************************************)
EXTENDS Integers, Sequences, FiniteSets

CONSTANTS
  Ids,      (* stable IDs                                                  *)
  Most,     (* bound: devices that are selected                            *)
  Changes,  (* bound: changes of the options                               *)
  Moves,    (* bound: changes of what MeshCore has                         *)
  Reloads,  (* bound: reloads that wait for the lock                       *)
  Faults,   (* bound: failing set-ups and unloads, restarts                *)
  None

ConstantsAssumption ==
  /\ Most \in Nat /\ Changes \in Nat /\ Moves \in Nat /\ Reloads \in Nat /\ Faults \in Nat
  /\ None \notin Ids

VARIABLES
  present,    (* what a discovery would find                               *)
  options,    (* managed_repeater_ids, in order                            *)
  state,      (* ConfigEntryState                                          *)
  pc,         (* the operation that holds the entry's lock                 *)
  waiting,    (* reloads that wait for the lock                            *)
  hearing,    (* the update listener is registered                         *)
  reconciliation, (* the removed IDs of the stored summary, {} without one *)
  deselected, (* deselected_ids of the running unload                      *)
  selected,   (* selected, as the running or last set-up read it           *)
  found,      (* history: what that set-up discovered                      *)
  active,     (* stable IDs of the coordinators                            *)
  legacy,     (* legacy_stable_id                                          *)
  listeners,  (* stable ID -> source listeners                             *)
  registry,   (* stable ID -> prefixes of its entities' unique IDs         *)
  excused,    (* history: IDs whose deselection the unload cannot know     *)
  missed,     (* history: options saved since the set-up read them, unheard *)
  raised,     (* history: a set-up raised after its coordinators started   *)
  changes, moves, faults

bounds == <<changes, moves, faults>>
vars == <<present, options, state, pc, waiting, hearing, reconciliation, deselected,
          selected, found, active, legacy, listeners, registry, excused, missed, raised,
          changes, moves, faults>>

Of(seq) == {seq[i] : i \in DOMAIN seq}
Orders == {seq \in UNION {[1..n -> Ids] : n \in 0..Most} :
             \A m, n \in DOMAIN seq : seq[m] = seq[n] => m = n}
Prefixes == {"promicro_repeater", "managed_repeater"}

Init ==
  /\ present \in SUBSET Ids /\ options \in Orders /\ Of(options) \subseteq present
  /\ state = "not_loaded" /\ pc = "set up" /\ waiting = 0 /\ hearing = FALSE
  /\ reconciliation = {} /\ deselected = {} /\ selected = <<>> /\ found = {}
  /\ active = {} /\ legacy = None /\ listeners = [i \in Ids |-> 0]
  /\ registry = [i \in Ids |-> {}] /\ excused = {}
  /\ missed = FALSE /\ raised = FALSE
  /\ changes = 0 /\ moves = 0 /\ faults = 0

-----------------------------------------------------------------------------
(* MeshCore gains and loses devices; nobody tells the entry.               *)
Move ==
  /\ moves < Moves /\ moves' = moves + 1
  /\ present' \in SUBSET Ids \ {present}
  /\ UNCHANGED <<options, state, pc, waiting, hearing, reconciliation, deselected, selected,
                 found, active, legacy, listeners, registry, excused, missed, raised, changes, faults>>

(* The update listener leaves what the selection does to the coordinators  *)
(* for the reload that it then waits for.                                  *)
Removed(new) == active \ Of(new)

RemembersOnly(new) == reconciliation' = Removed(new) /\ UNCHANGED waiting (* a mutant *)
_async_update_listener(new) ==
  /\ reconciliation' = Removed(new)
  /\ waiting < Reloads /\ waiting' = waiting + 1

(* The options flow takes a selection of devices it discovers.             *)
SaveOptions(new) ==
  /\ changes < Changes /\ changes' = changes + 1
  /\ new # options /\ Of(new) \subseteq present
  /\ options' = new
  /\ IF hearing
     THEN _async_update_listener(new)
     ELSE UNCHANGED <<waiting, reconciliation>>
  /\ missed' = (missed \/ (~hearing /\ pc \in {"reconcile", "platforms"}))
  /\ excused' = (excused \ Of(new)) \cup
       {i \in Of(options) \ Of(new) : ~hearing \/ pc # "idle" \/ waiting > 0 \/ i \notin active}
  /\ UNCHANGED <<present, state, pc, hearing, deselected, selected, found, active, legacy,
                 listeners, registry, raised, moves, faults>>

(* A user, or the retry of a set-up that was not ready, asks for a reload. *)
AskReload ==
  /\ waiting = 0 /\ pc = "idle" /\ Reloads > 0
  /\ state # "failed_unload"
  /\ waiting' = 1
  /\ UNCHANGED <<present, options, state, pc, hearing, reconciliation, deselected, selected,
                 found, active, legacy, listeners, registry, excused, missed, raised, bounds>>

(* A reload gets the lock; an entry whose unload failed cannot be reloaded.*)
Forgotten == {}                                               (* a mutant *)
Deselected == reconciliation

Begin ==
  /\ waiting > 0 /\ pc = "idle"
  /\ waiting' = waiting - 1
  /\ pc' = CASE state = "loaded" -> "unload"
             [] state = "failed_unload" -> "idle"
             [] OTHER -> "set up"
  /\ deselected' = IF state = "loaded" THEN Deselected ELSE {}
  /\ UNCHANGED <<present, options, state, hearing, reconciliation, selected, found, active,
                 legacy, listeners, registry, excused, missed, raised, bounds>>

Fault == faults < Faults /\ faults' = faults + 1

UnloadFails ==
  /\ pc = "unload" /\ Fault
  /\ pc' = "idle" /\ state' = "failed_unload" /\ deselected' = {}
  /\ UNCHANGED <<present, options, waiting, hearing, reconciliation, selected,
                 found, active, legacy, listeners, registry, excused, missed, raised, changes, moves>>

(* The platforms are unloaded: listeners stop, the records of deselected   *)
(* devices go, the callbacks of the entry run.                             *)
_remove_deselected_registry_entries ==
  registry' = [i \in Ids |-> IF i \in deselected THEN {} ELSE registry[i]]

LeavesListeners == UNCHANGED listeners                        (* a mutant *)
StopsListeners ==
  listeners' = [i \in Ids |-> listeners[i] - (IF i \in active THEN 1 ELSE 0)]

Unload ==
  /\ pc = "unload"
  /\ StopsListeners
  /\ _remove_deselected_registry_entries
  /\ active' = {} /\ hearing' = FALSE
  /\ deselected' = {} /\ state' = "not_loaded" /\ pc' = "set up"
  /\ UNCHANGED <<present, options, waiting, reconciliation, selected, found,
                 legacy, excused, missed, raised, bounds>>

(* Whoever has the Alpha2 identity keeps it while it is selected.          *)
FirstSelected(seq) == IF seq = <<>> THEN None ELSE seq[1]     (* a mutant *)
_legacy_managed_stable_id(seq) ==
  LET owners == {i \in Of(seq) : "promicro_repeater" \in registry[i]}
  IN  IF seq = <<>> THEN None
      ELSE IF owners # {} THEN CHOOSE i \in owners : TRUE ELSE seq[1]

(* Set-up discovers, reads the selection, and starts a coordinator with a  *)
(* listener for every selected device it found.                            *)
Discover ==
  /\ pc = "set up" /\ present # {}
  /\ selected' = options /\ found' = present
  /\ active' = Of(options) \cap present
  /\ legacy' = _legacy_managed_stable_id(options)
  /\ listeners' = [i \in Ids |-> listeners[i] + (IF i \in active' THEN 1 ELSE 0)]
  /\ pc' = "reconcile" /\ missed' = FALSE
  /\ UNCHANGED <<present, options, state, waiting, hearing, reconciliation, deselected,
                 registry, excused, raised, bounds>>

(* No MeshCore, or a first refresh that is not ready: whatever was started *)
(* is stopped, and the set-up is left to a later try.                      *)
WaitsForMeshCore == pc = "set up" /\ present = {} /\ UNCHANGED vars (* a mutant *)
NotReady ==
  /\ pc = "set up"
  /\ (present = {} /\ UNCHANGED faults) \/ (present # {} /\ Fault)
  /\ state' = "setup_retry" /\ pc' = "idle"
  /\ UNCHANGED <<present, options, waiting, hearing, reconciliation, deselected, selected,
                 found, active, legacy, listeners, registry, excused, missed, raised, changes, moves>>

(* The stored summary is taken; dashboard, clock manager and orchestrators *)
(* are made, and the platforms are set up.                                 *)
TakesSummary == reconciliation' = {}

Reconcile ==
  /\ pc = "reconcile"
  /\ TakesSummary
  /\ pc' = "platforms"
  /\ UNCHANGED <<present, options, state, waiting, hearing, deselected, selected, found,
                 active, legacy, listeners, registry, excused, missed, raised, bounds>>

(* Anything else that fails is not caught: the listeners stay.             *)
SetupRaises ==
  /\ pc \in {"reconcile", "platforms"} /\ Fault
  /\ IF pc = "reconcile" THEN TakesSummary ELSE UNCHANGED reconciliation
  /\ state' = "setup_error" /\ pc' = "idle" /\ raised' = TRUE
  /\ active' = {}
  /\ UNCHANGED <<present, options, waiting, hearing, deselected, selected, found, legacy,
                 listeners, registry, excused, missed, changes, moves>>

(* The platforms add the entities of each coordinator; a unique ID that is *)
(* known moves to the device it is added for.                              *)
Prefix(i) == IF i = legacy THEN "promicro_repeater" ELSE "managed_repeater"
Loaded ==
  /\ pc = "platforms"
  /\ registry' = [i \in Ids |->
       IF i \in active THEN registry[i] \cup {Prefix(i)}
       ELSE IF legacy \in active THEN registry[i] \ {"promicro_repeater"} ELSE registry[i]]
  /\ state' = "loaded" /\ hearing' = TRUE /\ pc' = "idle"
  /\ UNCHANGED <<present, options, waiting, reconciliation, deselected, selected, found,
                 active, legacy, listeners, excused, missed, raised, bounds>>

Restart ==
  /\ Fault
  /\ state' = "not_loaded" /\ pc' = "set up" /\ waiting' = 0 /\ hearing' = FALSE
  /\ reconciliation' = {} /\ active' = {} /\ listeners' = [i \in Ids |-> 0]
  /\ raised' = FALSE /\ excused' = Ids \ Of(options) /\ missed' = FALSE
  /\ deselected' = {} /\ selected' = <<>> /\ found' = {} /\ legacy' = None
  /\ UNCHANGED <<present, options, registry, changes, moves>>

Operation == Begin \/ UnloadFails \/ Unload \/ Discover \/ NotReady \/ Reconcile
             \/ SetupRaises \/ Loaded
Next == \/ Move \/ AskReload \/ Restart \/ Operation
        \/ \E new \in Orders : SaveOptions(new)

(* The lock is handed on and an operation that holds it runs.              *)
Spec == Init /\ [][Next]_vars /\ WF_vars(Operation)

-----------------------------------------------------------------------------
TypeOK ==
  /\ present \in SUBSET Ids /\ options \in Orders /\ selected \in Orders
  /\ state \in {"not_loaded", "loaded", "setup_retry", "setup_error", "failed_unload"}
  /\ pc \in {"idle", "unload", "set up", "reconcile", "platforms"}
  /\ waiting \in 0..Reloads
  /\ hearing \in BOOLEAN /\ missed \in BOOLEAN /\ raised \in BOOLEAN
  /\ reconciliation \in SUBSET Ids /\ deselected \in SUBSET Ids
  /\ found \in SUBSET Ids /\ active \in SUBSET Ids /\ excused \in SUBSET Ids
  /\ legacy \in Ids \cup {None}
  /\ listeners \in [Ids -> Nat] /\ registry \in [Ids -> SUBSET Prefixes]
  /\ state = "loaded" => hearing /\ pc \in {"idle", "unload"}

Quiet == state = "loaded" /\ pc = "idle" /\ waiting = 0

(* Unless a set-up raised, exactly the coordinators have a source listener,*)
(* and each has one.                                                       *)
OneListenerEach ==
  ~raised => \A i \in Ids : listeners[i] = (IF i \in active THEN 1 ELSE 0)

(* An entry with nothing to do runs the selection of the options, unless   *)
(* they were saved while a set-up that had read them went on.              *)
RunsSelection == Quiet /\ ~missed => active = Of(options) \cap found

(* A deselection while the entry was loaded and idle and the device was    *)
(* active leaves no records.                                               *)
DeselectionCleans ==
  Quiet => \A i \in Ids \ Of(options) : registry[i] # {} => i \in excused

(* A device loses the Alpha2 identity only by being deselected.            *)
IdentityStays ==
  [][\A i \in Ids : "promicro_repeater" \in registry[i] \ registry'[i] =>
       i \in deselected \/ i \notin Of(selected)]_vars

(* Every reload gets the lock and ends.                                    *)
ReloadsEnd == waiting > 0 ~> waiting = 0 /\ pc = "idle"

(* The listeners of a set-up that raised are gone when the next one is     *)
(* done: one subscription per source.                                      *)
SubscribesOnce == Quiet => \A i \in Ids : listeners[i] <= 1

(* Whatever is not selected has no records once the entry is quiet.        *)
DeselectedIsRemoved == Quiet => \A i \in Ids \ Of(options) : registry[i] = {}

(* The entry that is quiet runs the selection of the options.              *)
OptionsApplied == Quiet => Of(selected) = Of(options)

(* A managed device has one identity, whatever is selected beside it.      *)
OneIdentity == Quiet => \A i \in Ids : Cardinality(registry[i]) <= 1
=============================================================================
