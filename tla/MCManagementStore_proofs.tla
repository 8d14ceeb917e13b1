---------------------- MODULE MCManagementStore_proofs ----------------------
(***************************************************************************)
(* What the run of the management store checks of Lifecycle and of Health, *)
(* for any devices, readings, settings, bounds and periods.  (The records  *)
(* and their file are the subject of ManagementStore_proofs.)              *)
(***************************************************************************)
EXTENDS MCManagementStore, TLAPS

(* The life of the entry: the steps of Lifecycle.                          *)
LEMMA IdsAre == None \notin Ids /\ Most \in Nat /\ Reloads \in Nat
BY EntryAssumption DEF Entry!ConstantsAssumption

LEMMA WaitingIs ==
  ASSUME NEW w \in 0..Reloads
  PROVE  /\ w \in Nat /\ 0 \in 0..Reloads
         /\ w < Reloads => w + 1 \in 0..Reloads
         /\ w > 0 => w - 1 \in 0..Reloads
<1>1. Reloads \in Int
  BY IdsAre
<1> QED BY <1>1

LEMMA OrdersAre ==
  ASSUME NEW seq \in Entry!Orders
  PROVE  /\ Entry!Of(seq) \subseteq Ids
         /\ seq # <<>> => seq[1] \in Entry!Of(seq)
<1>1. PICK n \in 0..Most : seq \in [1..n -> Ids]
  BY DEF Entry!Orders
<1>2. n \in Nat
  BY <1>1
<1>3. Entry!Of(seq) \subseteq Ids
  BY <1>1 DEF Entry!Of
<1>4. ASSUME seq # <<>> PROVE seq[1] \in Entry!Of(seq)
  <2>1. n # 0
    BY <1>1, <1>4
  <2>2. 1 \in DOMAIN seq
    BY <1>1, <1>2, <2>1
  <2> QED BY <2>2 DEF Entry!Of
<1> QED BY <1>3, <1>4

(* Which states go together: the coordinators of a set-up run until it is  *)
(* done or undone, and whoever hears the update listener is loaded.        *)
Phases ==
  /\ state = "failed_unload" => pc = "idle"
  /\ pc = "unload" => state = "loaded"
  /\ hearing => state \in {"loaded", "failed_unload"}
  /\ active # {} => pc \in {"reconcile", "platforms"} \/ state \in {"loaded", "failed_unload"}
  /\ \A i \in active : listeners[i] >= 1

EntryTypes == Entry!TypeOK /\ Phases

LEMMA EntryFacts ==
  ASSUME EntryTypes
  PROVE  /\ Entry!Of(options) \subseteq Ids /\ Entry!Of(selected) \subseteq Ids
         /\ active \subseteq Ids /\ excused \subseteq Ids /\ deselected \subseteq Ids
         /\ pc \in {"set up", "reconcile", "platforms"} => state \notin {"loaded", "failed_unload"}
         /\ pc = "set up" => active = {}
         /\ waiting \in Nat /\ hearing \in BOOLEAN /\ missed \in BOOLEAN /\ raised \in BOOLEAN
<1>1. /\ hearing \in BOOLEAN /\ missed \in BOOLEAN /\ raised \in BOOLEAN
      /\ active \subseteq Ids /\ excused \subseteq Ids /\ deselected \subseteq Ids
      /\ options \in Entry!Orders /\ selected \in Entry!Orders /\ waiting \in 0..Reloads
  BY DEF EntryTypes, Entry!TypeOK
<1>2. waiting \in Nat
  BY <1>1, IdsAre
<1>3. pc \in {"set up", "reconcile", "platforms"} => state \notin {"loaded", "failed_unload"}
  BY DEF EntryTypes, Phases, Entry!TypeOK
<1>4. pc = "set up" => active = {}
  BY <1>3 DEF EntryTypes, Phases
<1> QED BY <1>1, <1>2, <1>3, <1>4, OrdersAre

LEMMA EntryTypeInit == Entry!Init => EntryTypes
<1> SUFFICES ASSUME Entry!Init PROVE EntryTypes
  OBVIOUS
<1>1. <<>> \in Entry!Orders
  <2>1. 0 \in 0..Most
    BY IdsAre
  <2>2. <<>> \in [1..0 -> Ids]
    OBVIOUS
  <2>3. \A m, n \in DOMAIN <<>> : <<>>[m] = <<>>[n] => m = n
    OBVIOUS
  <2> QED BY <2>1, <2>2, <2>3 DEF Entry!Orders
<1>2. listeners \in [Ids -> Nat] /\ registry \in [Ids -> SUBSET Entry!Prefixes]
  BY DEF Entry!Init
<1>3. waiting \in 0..Reloads
  <2>1. waiting = 0
    BY DEF Entry!Init
  <2>2. Reloads \in Nat
    BY IdsAre
  <2> QED BY <2>1, <2>2
<1> QED BY <1>1, <1>2, <1>3, IdsAre DEF Entry!Init, EntryTypes, Phases, Entry!TypeOK

LEMMA EntryTypeStep == EntryTypes /\ [Entry!Next]_entry_vars => EntryTypes'
<1> SUFFICES ASSUME EntryTypes, [Entry!Next]_entry_vars PROVE EntryTypes'
  OBVIOUS
<1>0. Entry!TypeOK /\ Phases
  BY DEF EntryTypes
<1> USE IdsAre
<1>1. CASE Entry!Move
  <2>1. present' \in SUBSET Ids
    BY <1>1 DEF Entry!Move
  <2> QED BY <1>0, <1>1, <2>1 DEF Entry!Move, EntryTypes, Phases, Entry!TypeOK
<1>2. CASE Entry!AskReload
  <2>1. waiting' \in 0..Reloads
    BY <1>2 DEF Entry!AskReload
  <2> QED BY <1>0, <1>2, <2>1 DEF Entry!AskReload, Entry!bounds, EntryTypes, Phases, Entry!TypeOK
<1>3. CASE Entry!Restart
  <2>1. <<>> \in Entry!Orders
    <3>1. 0 \in 0..Most /\ <<>> \in [1..0 -> Ids]
      OBVIOUS
    <3>2. \A m, n \in DOMAIN <<>> : <<>>[m] = <<>>[n] => m = n
      OBVIOUS
    <3> QED BY <3>1, <3>2 DEF Entry!Orders
  <2>2. 0 \in 0..Reloads
    BY <1>0, WaitingIs DEF Entry!TypeOK
  <2>4. listeners' \in [Ids -> Nat]
    BY <1>3 DEF Entry!Restart
  <2>3. excused' \in SUBSET Ids
    BY <1>3 DEF Entry!Restart
  <2> QED BY <1>0, <1>3, <2>1, <2>2, <2>3, <2>4 DEF Entry!Restart, EntryTypes, Phases, Entry!TypeOK
<1>4. CASE Entry!Begin
  <2>1. waiting' \in 0..Reloads
    <3>1. waiting \in 0..Reloads /\ waiting > 0 /\ waiting' = waiting - 1
      BY <1>0, <1>4 DEF Entry!Begin, Entry!TypeOK
    <3> QED BY <3>1, WaitingIs
  <2>2. deselected' \in SUBSET Ids
    BY <1>0, <1>4 DEF Entry!Begin, Entry!Deselected, Entry!TypeOK
  <2>3. /\ pc' \in {"idle", "unload", "set up"}
        /\ state = "loaded" => pc' = "unload"
        /\ state = "failed_unload" => pc' = "idle" 
        /\ state \notin {"loaded", "failed_unload"} => pc' = "set up"
        /\ pc = "idle"
    BY <1>4 DEF Entry!Begin
  <2>4. UNCHANGED <<present, options, state, hearing, reconciliation, selected, found, active,
                    legacy, listeners, registry, excused, missed, raised>>
    BY <1>4 DEF Entry!Begin
  <2>5. Entry!TypeOK'
    BY <1>0, <2>1, <2>2, <2>3, <2>4 DEF Entry!TypeOK
  <2>6. Phases'
    BY <1>0, <2>3, <2>4 DEF Phases
  <2> QED BY <2>5, <2>6 DEF EntryTypes
<1>5. CASE Entry!UnloadFails
  BY <1>0, <1>5 DEF Entry!UnloadFails, EntryTypes, Phases, Entry!TypeOK
<1>6. CASE Entry!Unload
  <2>1. listeners' \in [Ids -> Nat]
    <3>1. ASSUME NEW i \in Ids PROVE listeners[i] - (IF i \in active THEN 1 ELSE 0) \in Nat
      <4>1. listeners[i] \in Nat
        BY <1>0 DEF Entry!TypeOK
      <4>2. i \in active => listeners[i] >= 1
        BY <1>0 DEF Phases
      <4> QED BY <4>1, <4>2
    <3> QED BY <1>6, <3>1 DEF Entry!Unload, Entry!StopsListeners
  <2>2. registry' \in [Ids -> SUBSET Entry!Prefixes]
    BY <1>0, <1>6 DEF Entry!Unload, Entry!_remove_deselected_registry_entries, Entry!TypeOK
  <2> QED BY <1>0, <1>6, <2>1, <2>2 DEF Entry!Unload, Entry!bounds, EntryTypes, Phases, Entry!TypeOK
<1>7. CASE Entry!Discover
  <2>1. active' \in SUBSET Ids /\ active' = Entry!Of(options) \cap present
    BY <1>0, <1>7, EntryFacts DEF Entry!Discover
  <2>2. listeners' \in [Ids -> Nat] /\ \A i \in active' : listeners'[i] >= 1
    <3>1. listeners' = [i \in Ids |-> listeners[i] + (IF i \in active' THEN 1 ELSE 0)]
      BY <1>7 DEF Entry!Discover
    <3>2. listeners \in [Ids -> Nat]
      BY <1>0 DEF Entry!TypeOK
    <3> QED BY <2>1, <3>1, <3>2
  <2>3. legacy' \in Ids \cup {None}
    <3> DEFINE owners == {i \in Entry!Of(options) : "promicro_repeater" \in registry[i]}
    <3>1. legacy' = IF options = <<>> THEN None
                    ELSE IF owners # {} THEN CHOOSE i \in owners : TRUE ELSE options[1]
      BY <1>7 DEF Entry!Discover, Entry!_legacy_managed_stable_id
    <3>2. owners \subseteq Ids
      BY EntryFacts
    <3>3. options # <<>> => options[1] \in Ids
      BY <1>0, EntryFacts, OrdersAre DEF Entry!TypeOK
    <3> HIDE DEF owners
    <3> QED BY <3>1, <3>2, <3>3
  <2>4. pc = "set up" /\ state \notin {"loaded", "failed_unload"}
    BY <1>7, EntryFacts DEF Entry!Discover
  <2> QED BY <1>0, <1>7, <2>1, <2>2, <2>3, <2>4
          DEF Entry!Discover, Entry!bounds, EntryTypes, Phases, Entry!TypeOK
<1>8. CASE Entry!NotReady
  <2>1. pc = "set up" /\ active = {} /\ ~hearing
    <3>1. pc = "set up"
      BY <1>8 DEF Entry!NotReady
    <3> QED BY <1>0, <3>1, EntryFacts DEF Phases
  <2> QED BY <1>0, <1>8, <2>1 DEF Entry!NotReady, EntryTypes, Phases, Entry!TypeOK
<1>9. CASE Entry!Reconcile
  BY <1>0, <1>9 DEF Entry!Reconcile, Entry!TakesSummary, Entry!bounds, EntryTypes, Phases, Entry!TypeOK
<1>10. CASE Entry!SetupRaises
  <2>1. reconciliation' \in SUBSET Ids
    BY <1>0, <1>10 DEF Entry!SetupRaises, Entry!TakesSummary, Entry!TypeOK
  <2>2. ~hearing
    BY <1>0, <1>10, EntryFacts DEF Entry!SetupRaises, Phases
  <2> QED BY <1>0, <1>10, <2>1, <2>2 DEF Entry!SetupRaises, EntryTypes, Phases, Entry!TypeOK
<1>11. CASE Entry!Loaded
  <2>1. registry' \in [Ids -> SUBSET Entry!Prefixes]
    <3>1. \A i \in Ids : registry[i] \in SUBSET Entry!Prefixes
      BY <1>0 DEF Entry!TypeOK
    <3>2. \A i \in Ids : Entry!Prefix(i) \in Entry!Prefixes
      BY DEF Entry!Prefix, Entry!Prefixes
    <3> QED BY <1>11, <3>1, <3>2 DEF Entry!Loaded
  <2> QED BY <1>0, <1>11, <2>1 DEF Entry!Loaded, Entry!bounds, EntryTypes, Phases, Entry!TypeOK
<1>12. ASSUME NEW new \in Entry!Orders, Entry!SaveOptions(new) PROVE EntryTypes'
  <2>1. UNCHANGED <<present, state, pc, hearing, deselected, selected, found, active, legacy,
                    listeners, registry, raised>>
    BY <1>12 DEF Entry!SaveOptions
  <2>2. options' \in Entry!Orders
    BY <1>12 DEF Entry!SaveOptions
  <2>3. waiting' \in 0..Reloads
    <3>1. waiting \in 0..Reloads
      BY <1>0 DEF Entry!TypeOK
    <3>2. waiting' = waiting \/ (waiting < Reloads /\ waiting' = waiting + 1)
      BY <1>12 DEF Entry!SaveOptions, Entry!_async_update_listener
    <3> QED BY <3>1, <3>2, WaitingIs
  <2>4. reconciliation' \in SUBSET Ids
    BY <1>0, <1>12 DEF Entry!SaveOptions, Entry!_async_update_listener, Entry!Removed, Entry!TypeOK
  <2>5. excused' \in SUBSET Ids
    BY <1>12, EntryFacts DEF Entry!SaveOptions
  <2>6. missed' \in BOOLEAN
    BY <1>12 DEF Entry!SaveOptions
  <2>7. Entry!TypeOK'
    BY <1>0, <2>1, <2>2, <2>3, <2>4, <2>5, <2>6 DEF Entry!TypeOK
  <2>8. Phases'
    BY <1>0, <2>1 DEF Phases
  <2> QED BY <2>7, <2>8 DEF EntryTypes
<1>13. CASE UNCHANGED entry_vars
  BY <1>0, <1>13 DEF entry_vars, EntryTypes, Phases, Entry!TypeOK
<1> QED BY <1>1, <1>2, <1>3, <1>4, <1>5, <1>6, <1>7, <1>8, <1>9, <1>10, <1>11, <1>12, <1>13
        DEF Entry!Next, Entry!Operation

-----------------------------------------------------------------------------
(* What runs.  From the moment a set-up has read the options until they    *)
(* change, or a reload is under way, its coordinators are those selected.  *)
Runs == ~missed /\ (Entry!Quiet \/ pc \in {"reconcile", "platforms"})
          => active = Entry!Of(options) \cap found

LEMMA ListenersStep ==
  EntryTypes /\ Entry!OneListenerEach /\ [Entry!Next]_entry_vars => Entry!OneListenerEach'
<1> SUFFICES ASSUME EntryTypes, Entry!OneListenerEach, [Entry!Next]_entry_vars, ~raised'
             PROVE  \A i \in Ids : listeners'[i] = (IF i \in active' THEN 1 ELSE 0)
  BY DEF Entry!OneListenerEach
<1>0. listeners \in [Ids -> Nat] /\ raised \in BOOLEAN
  BY EntryFacts DEF EntryTypes, Entry!TypeOK
<1>1. CASE Entry!Restart
  BY <1>1 DEF Entry!Restart
<1>2. CASE Entry!Unload
  <2>1. ~raised /\ active' = {} /\ listeners' = [i \in Ids |-> listeners[i] - (IF i \in active THEN 1 ELSE 0)]
    BY <1>2 DEF Entry!Unload, Entry!StopsListeners
  <2>2. \A i \in Ids : listeners[i] = (IF i \in active THEN 1 ELSE 0)
    BY <2>1 DEF Entry!OneListenerEach
  <2> QED BY <1>0, <2>1, <2>2
<1>3. CASE Entry!Discover
  <2>1. ~raised /\ active = {} /\ listeners' = [i \in Ids |-> listeners[i] + (IF i \in active' THEN 1 ELSE 0)]
    BY <1>3, EntryFacts DEF Entry!Discover
  <2>2. \A i \in Ids : listeners[i] = 0
    BY <2>1 DEF Entry!OneListenerEach
  <2> QED BY <1>0, <2>1, <2>2
<1>4. CASE Entry!SetupRaises
  BY <1>4 DEF Entry!SetupRaises
<1>5. CASE \/ Entry!Move \/ Entry!AskReload \/ Entry!Begin \/ Entry!UnloadFails \/ Entry!NotReady
           \/ Entry!Reconcile \/ Entry!Loaded \/ (\E new \in Entry!Orders : Entry!SaveOptions(new))
           \/ UNCHANGED entry_vars
  <2>1. UNCHANGED <<active, listeners, raised>>
    BY <1>5 DEF Entry!Move, Entry!AskReload, Entry!Begin, Entry!UnloadFails, Entry!NotReady,
       Entry!Reconcile, Entry!Loaded, Entry!SaveOptions, entry_vars
  <2> QED BY <2>1 DEF Entry!OneListenerEach
<1> QED BY <1>1, <1>2, <1>3, <1>4, <1>5 DEF Entry!Next, Entry!Operation

LEMMA RunsStep == EntryTypes /\ Runs /\ [Entry!Next]_entry_vars => Runs'
<1> SUFFICES ASSUME EntryTypes, Runs, [Entry!Next]_entry_vars, ~missed',
                    Entry!Quiet' \/ pc' \in {"reconcile", "platforms"}
             PROVE  active' = Entry!Of(options') \cap found'
  BY DEF Runs, Entry!Of
<1>0. /\ Phases /\ waiting \in Nat /\ missed \in BOOLEAN /\ hearing \in BOOLEAN
      /\ state = "loaded" => hearing /\ pc \in {"idle", "unload"}
  BY EntryFacts DEF EntryTypes, Entry!TypeOK
<1>1. CASE Entry!Discover
  BY <1>1 DEF Entry!Discover, Entry!Of
<1>2. CASE Entry!Loaded \/ Entry!Reconcile
  <2>1. UNCHANGED <<active, options, found, missed>> /\ pc \in {"reconcile", "platforms"}
    BY <1>2 DEF Entry!Loaded, Entry!Reconcile
  <2> QED BY <2>1 DEF Runs, Entry!Of
<1>3. CASE \/ Entry!Restart \/ Entry!UnloadFails \/ Entry!Unload \/ Entry!NotReady \/ Entry!SetupRaises
  BY <1>3 DEF Entry!Restart, Entry!UnloadFails, Entry!Unload, Entry!NotReady, Entry!SetupRaises,
     Entry!Quiet
<1>4. CASE Entry!Begin
  <2>1. state' = state /\ pc' \in {"idle", "unload", "set up"} /\ (state = "loaded" => pc' = "unload")
    BY <1>4 DEF Entry!Begin
  <2> QED BY <2>1 DEF Entry!Quiet
<1>5. CASE Entry!AskReload
  BY <1>0, <1>5 DEF Entry!AskReload, Entry!Quiet
<1>6. ASSUME NEW new \in Entry!Orders, Entry!SaveOptions(new) PROVE FALSE
  <2>1. /\ missed' = (missed \/ (~hearing /\ pc \in {"reconcile", "platforms"}))
        /\ pc' = pc /\ state' = state
        /\ hearing => waiting' = waiting + 1
    BY <1>6 DEF Entry!SaveOptions, Entry!_async_update_listener
  <2>2. CASE pc \in {"reconcile", "platforms"}
    <3>1. ~hearing
      BY <1>0, <2>2, EntryFacts DEF Phases
    <3> QED BY <2>1, <2>2, <3>1
  <2>3. CASE pc \notin {"reconcile", "platforms"}
    <3>1. state = "loaded" /\ waiting' = 0
      BY <2>1, <2>3 DEF Entry!Quiet
    <3> QED BY <1>0, <2>1, <3>1
  <2> QED BY <2>2, <2>3
<1>7. CASE Entry!Move
  BY <1>7 DEF Entry!Move, Runs, Entry!Quiet, Entry!Of
<1>8. CASE UNCHANGED entry_vars
  BY <1>8 DEF entry_vars, Runs, Entry!Quiet, Entry!Of
<1> QED BY <1>1, <1>2, <1>3, <1>4, <1>5, <1>6, <1>7, <1>8 DEF Entry!Next, Entry!Operation

-----------------------------------------------------------------------------
(* What is cleaned up.  The records of a device that is not selected and   *)
(* whose deselection the unload can know wait for that unload: the device  *)
(* is one the update listener has left for the reload that was asked for,  *)
(* or one the running unload removes, or no unload ever succeeds again.    *)
Pending(i) ==
  \/ /\ hearing /\ state = "loaded" /\ pc = "idle" /\ waiting > 0
     /\ i \in reconciliation /\ i \in active
  \/ pc = "unload" /\ i \in deselected
  \/ state = "failed_unload"
Cleans ==
  /\ \A i \in Ids \ Entry!Of(options) : registry[i] # {} => i \in excused \/ Pending(i)
  /\ pc \in {"reconcile", "platforms"} => active \ Entry!Of(options) \subseteq excused

LEMMA CleansStep == EntryTypes /\ Cleans /\ [Entry!Next]_entry_vars => Cleans'
<1> SUFFICES ASSUME EntryTypes, Cleans, [Entry!Next]_entry_vars PROVE Cleans'
  OBVIOUS
<1>0. /\ Phases /\ waiting \in Nat /\ hearing \in BOOLEAN /\ active \subseteq Ids
      /\ state = "loaded" => hearing /\ pc \in {"idle", "unload"}
      /\ registry \in [Ids -> SUBSET Entry!Prefixes] /\ Entry!Of(options) \subseteq Ids
  BY EntryFacts DEF EntryTypes, Entry!TypeOK
<1>1. CASE Entry!Restart
  BY <1>1 DEF Entry!Restart, Cleans, Entry!Of
<1>2. CASE Entry!Unload
  <2>1. /\ UNCHANGED <<options, excused>> /\ pc' = "set up" /\ pc = "unload"
        /\ \A i \in Ids : registry'[i] = IF i \in deselected THEN {} ELSE registry[i]
    BY <1>2 DEF Entry!Unload, Entry!_remove_deselected_registry_entries
  <2>2. ASSUME NEW i \in Ids \ Entry!Of(options), registry'[i] # {} PROVE i \in excused
    BY <1>0, <2>1, <2>2 DEF Cleans, Pending, Phases
  <2> QED BY <2>1, <2>2 DEF Cleans, Entry!Of
<1>3. CASE Entry!Discover
  <2>1. /\ UNCHANGED <<options, excused, registry>> /\ pc = "set up"
        /\ active' \subseteq Entry!Of(options)
    BY <1>3 DEF Entry!Discover
  <2>2. state # "failed_unload"
    BY <2>1, EntryFacts
  <2> QED BY <2>1, <2>2 DEF Cleans, Pending, Entry!Of
<1>4. CASE Entry!NotReady \/ Entry!SetupRaises
  <2>1. /\ UNCHANGED <<options, excused, registry>> /\ pc' = "idle"
        /\ pc \in {"set up", "reconcile", "platforms"}
    BY <1>4 DEF Entry!NotReady, Entry!SetupRaises
  <2>2. state # "failed_unload"
    BY <2>1, EntryFacts
  <2> QED BY <2>1, <2>2 DEF Cleans, Pending, Entry!Of
<1>5. CASE Entry!Reconcile
  <2>1. /\ UNCHANGED <<options, excused, registry, active, state>> /\ pc = "reconcile"
        /\ pc' = "platforms"
    BY <1>5 DEF Entry!Reconcile
  <2> QED BY <2>1 DEF Cleans, Pending, Entry!Of
<1>6. CASE Entry!Loaded
  <2>1. /\ UNCHANGED <<options, excused, active>> /\ pc = "platforms" /\ pc' = "idle"
        /\ \A i \in Ids : i \notin active => registry'[i] \subseteq registry[i]
    BY <1>0, <1>6 DEF Entry!Loaded
  <2>2. state # "failed_unload"
    BY <2>1, EntryFacts
  <2>3. ASSUME NEW i \in Ids \ Entry!Of(options), registry'[i] # {} PROVE i \in excused
    <3>1. CASE i \in active
      BY <2>1, <2>3, <3>1 DEF Cleans
    <3>2. CASE i \notin active
      <4>1. registry[i] # {}
        BY <2>1, <2>3, <3>2
      <4> QED BY <2>1, <2>2, <4>1 DEF Cleans, Pending
    <3> QED BY <3>1, <3>2
  <2> QED BY <2>1, <2>3 DEF Cleans, Entry!Of
<1>7. CASE Entry!Begin
  <2>1. /\ UNCHANGED <<options, excused, registry, state>> /\ pc = "idle"
        /\ pc' \in {"idle", "unload", "set up"}
        /\ state = "loaded" => pc' = "unload" /\ deselected' = Entry!Deselected
    BY <1>7 DEF Entry!Begin
  <2> QED BY <2>1 DEF Cleans, Pending, Entry!Deselected, Entry!Of
<1>8. CASE Entry!UnloadFails
  BY <1>8 DEF Entry!UnloadFails, Cleans, Pending, Entry!Of
<1>9. CASE Entry!AskReload
  <2>1. /\ UNCHANGED <<options, excused, registry, state, pc, active, deselected>> /\ waiting = 0
    BY <1>9 DEF Entry!AskReload
  <2> QED BY <2>1 DEF Cleans, Pending, Entry!Of
<1>10. ASSUME NEW new \in Entry!Orders, Entry!SaveOptions(new) PROVE Cleans'
  <2>1. /\ options' = new
        /\ UNCHANGED <<registry, state, pc, active, hearing, deselected>>
        /\ excused' = (excused \ Entry!Of(new)) \cup
             {i \in Entry!Of(options) \ Entry!Of(new) :
                ~hearing \/ pc # "idle" \/ waiting > 0 \/ i \notin active}
        /\ hearing => reconciliation' = active \ Entry!Of(new) /\ waiting' = waiting + 1
        /\ ~hearing => UNCHANGED <<waiting, reconciliation>>
    BY <1>10 DEF Entry!SaveOptions, Entry!_async_update_listener, Entry!Removed
  <2>3. ASSUME NEW i \in Ids \ Entry!Of(new), registry[i] # {}, i \notin excused'
        PROVE  Pending(i)'
    <3>1. CASE i \in Entry!Of(options)
      <4>1. hearing /\ pc = "idle" /\ waiting = 0 /\ i \in active
        BY <1>0, <2>1, <2>3, <3>1
      <4>2. state \in {"loaded", "failed_unload"}
        BY <1>0, <4>1 DEF Phases
      <4> QED BY <1>0, <2>1, <2>3, <4>1, <4>2 DEF Pending
    <3>2. CASE i \notin Entry!Of(options)
      <4>1. Pending(i)
        BY <2>1, <2>3, <3>2 DEF Cleans
      <4> QED BY <1>0, <2>1, <2>3, <4>1 DEF Pending
    <3> QED BY <3>1, <3>2
  <2>4. ASSUME pc \in {"reconcile", "platforms"} PROVE active \ Entry!Of(new) \subseteq excused'
    BY <2>1, <2>4 DEF Cleans
  <2> QED BY <2>1, <2>3, <2>4 DEF Cleans, Entry!Of
<1>11. CASE Entry!Move
  BY <1>11 DEF Entry!Move, Cleans, Pending, Entry!Of
<1>12. CASE UNCHANGED entry_vars
  BY <1>12 DEF entry_vars, Cleans, Pending, Entry!Of
<1> QED BY <1>1, <1>2, <1>3, <1>4, <1>5, <1>6, <1>7, <1>8, <1>9, <1>10, <1>11, <1>12
        DEF Entry!Next, Entry!Operation

-----------------------------------------------------------------------------
(* Whose identity it is.  At most one device has the Alpha2 identity, and  *)
(* a set-up that selects it knows that.                                    *)
Has(i) == "promicro_repeater" \in registry[i]
Owner ==
  /\ \A i, k \in Ids : Has(i) /\ Has(k) => i = k
  /\ pc \in {"reconcile", "platforms"} =>
       /\ active \subseteq Entry!Of(selected)
       /\ \A i \in Entry!Of(selected) : Has(i) => legacy = i

LEMMA OwnerStep == EntryTypes /\ Owner /\ [Entry!Next]_entry_vars => Owner'
<1> SUFFICES ASSUME EntryTypes, Owner, [Entry!Next]_entry_vars PROVE Owner'
  OBVIOUS
<1>0. /\ \A i, k \in Ids : Has(i) /\ Has(k) => i = k
      /\ registry \in [Ids -> SUBSET Entry!Prefixes]
      /\ active \subseteq Ids /\ Entry!Of(options) \subseteq Ids
  BY EntryFacts DEF Owner, EntryTypes, Entry!TypeOK
<1>1. CASE Entry!Unload
  <2>1. pc' = "set up" /\ registry' = [i \in Ids |-> IF i \in deselected THEN {} ELSE registry[i]]
    BY <1>1 DEF Entry!Unload, Entry!_remove_deselected_registry_entries
  <2>2. \A i \in Ids : Has(i)' => Has(i)
    BY <2>1 DEF Has
  <2> QED BY <1>0, <2>1, <2>2 DEF Owner, Entry!Of
<1>2. CASE Entry!Discover
  <2> DEFINE owners == {i \in Entry!Of(options) : Has(i)}
  <2>1. /\ registry' = registry /\ selected' = options
        /\ active' \subseteq Entry!Of(options)
        /\ legacy' = IF options = <<>> THEN None
                     ELSE IF owners # {} THEN CHOOSE i \in owners : TRUE ELSE options[1]
    BY <1>2 DEF Entry!Discover, Entry!_legacy_managed_stable_id, Has
  <2>2. options = <<>> => Entry!Of(options) = {}
    BY DEF Entry!Of
  <2>3. ASSUME NEW i \in Entry!Of(options), Has(i) PROVE legacy' = i
    <3>1. options # <<>> /\ i \in owners
      BY <2>2, <2>3
    <3>2. legacy' \in owners
      BY <2>1, <3>1
    <3> QED BY <1>0, <2>3, <3>2
  <2>4. Entry!Of(selected)' = Entry!Of(options)
    BY <2>1 DEF Entry!Of
  <2>5. \A i : Has(i)' <=> Has(i)
    BY <2>1 DEF Has
  <2> QED BY <1>0, <2>1, <2>3, <2>4, <2>5 DEF Owner
<1>3. CASE Entry!Loaded
  <2>1. /\ pc = "platforms" /\ pc' = "idle"
        /\ registry' = [i \in Ids |->
             IF i \in active THEN registry[i] \cup {Entry!Prefix(i)}
             ELSE IF legacy \in active THEN registry[i] \ {"promicro_repeater"} ELSE registry[i]]
    BY <1>3 DEF Entry!Loaded
  <2>2. \A i \in active : Has(i) => legacy = i
    BY <2>1 DEF Owner
  <2>3. ASSUME NEW i \in Ids, Has(i)'
        PROVE  IF legacy \in active THEN i = legacy ELSE Has(i)
    <3>1. CASE i \in active
      <4>1. Has(i) \/ Entry!Prefix(i) = "promicro_repeater"
        BY <2>1, <2>3, <3>1 DEF Has
      <4> QED BY <2>2, <3>1, <4>1 DEF Entry!Prefix
    <3>2. CASE i \notin active
      BY <2>1, <2>3, <3>2 DEF Has
    <3> QED BY <3>1, <3>2
  <2> QED BY <1>0, <2>1, <2>3 DEF Owner
<1>4. CASE Entry!Restart
  <2>1. pc' = "set up" /\ registry' = registry
    BY <1>4 DEF Entry!Restart
  <2> QED BY <1>0, <2>1 DEF Owner, Has
<1>5. CASE Entry!NotReady \/ Entry!UnloadFails \/ Entry!SetupRaises
  <2>1. pc' = "idle" /\ registry' = registry
    BY <1>5 DEF Entry!NotReady, Entry!UnloadFails, Entry!SetupRaises
  <2> QED BY <1>0, <2>1 DEF Owner, Has
<1>6. CASE Entry!Begin
  <2>1. pc' \in {"idle", "unload", "set up"} /\ registry' = registry
    BY <1>6 DEF Entry!Begin
  <2> QED BY <1>0, <2>1 DEF Owner, Has
<1>7. CASE \/ Entry!Move \/ Entry!AskReload \/ Entry!Reconcile \/ UNCHANGED entry_vars
           \/ (\E new \in Entry!Orders : Entry!SaveOptions(new))
  <2>1. /\ UNCHANGED <<active, selected, legacy, registry>>
        /\ pc' = pc \/ (pc = "reconcile" /\ pc' = "platforms")
    BY <1>7 DEF Entry!Move, Entry!AskReload, Entry!Reconcile, Entry!SaveOptions, entry_vars
  <2> QED BY <2>1 DEF Owner, Has, Entry!Of
<1> QED BY <1>1, <1>2, <1>3, <1>4, <1>5, <1>6, <1>7 DEF Entry!Next, Entry!Operation

LEMMA IdentityStep ==
  ASSUME EntryTypes, Owner, [Entry!Next]_entry_vars,
         NEW i \in Ids, "promicro_repeater" \in registry[i] \ registry'[i]
  PROVE  i \in deselected \/ i \notin Entry!Of(selected)
<1>1. CASE Entry!Unload
  BY <1>1 DEF Entry!Unload, Entry!_remove_deselected_registry_entries
<1>2. CASE Entry!Loaded
  <2>1. pc = "platforms" /\ i \notin active /\ legacy \in active
    BY <1>2 DEF Entry!Loaded
  <2> QED BY <2>1 DEF Owner, Has
<1>3. registry' # registry
  OBVIOUS
<1> QED BY <1>1, <1>2, <1>3 DEF Entry!Next, Entry!Operation, Entry!Move, Entry!AskReload,
        Entry!Restart, Entry!Begin, Entry!UnloadFails, Entry!Discover, Entry!NotReady,
        Entry!Reconcile, Entry!SetupRaises, Entry!SaveOptions, Entry!bounds, entry_vars

-----------------------------------------------------------------------------
(* All of it together, in a behaviour of the run's specification.          *)
EntryInv == EntryTypes /\ Entry!OneListenerEach /\ Runs /\ Cleans /\ Owner

LEMMA EntryInvInit == MCInit => EntryInv
<1> SUFFICES ASSUME Entry!Init PROVE EntryInv
  BY DEF MCInit
<1>1. EntryTypes
  BY EntryTypeInit
<1>2. /\ pc = "set up" /\ state = "not_loaded" /\ active = {}
      /\ listeners = [i \in Ids |-> 0] /\ registry = [i \in Ids |-> {}]
  BY DEF Entry!Init
<1>3. Entry!OneListenerEach /\ Runs /\ Cleans /\ Owner
  BY <1>2 DEF Entry!OneListenerEach, Runs, Cleans, Owner, Has, Entry!Quiet
<1> QED BY <1>1, <1>3 DEF EntryInv

LEMMA EntryOnly == [MCNext]_mcvars => [Entry!Next]_entry_vars
BY DEF MCNext, OfStore, OfEntry, mcvars

LEMMA EntryInvStep == EntryInv /\ [MCNext]_mcvars => EntryInv'
<1> SUFFICES ASSUME EntryInv, [Entry!Next]_entry_vars PROVE EntryInv'
  BY EntryOnly
<1> QED BY EntryTypeStep, ListenersStep, RunsStep, CleansStep, OwnerStep DEF EntryInv

LEMMA EntryInvariant == MCSpec => []EntryInv
BY EntryInvInit, EntryInvStep, PTL DEF MCSpec

(* An entry with nothing to do runs the selection of the options, unless   *)
(* they were saved while a set-up that had read them went on, and only its *)
(* coordinators listen to a source.                                        *)
THEOREM EntryRunsSelection == MCSpec => []RunsSelection
<1>1. EntryInv => RunsSelection
  BY DEF EntryInv, EntryTypes, Runs, RunsSelection, Entry!RunsSelection
<1> QED BY <1>1, EntryInvariant, PTL

(* What is deselected while the entry is loaded and idle leaves no records.*)
THEOREM NoRecordsLeft == MCSpec => []DeselectionCleans
<1>1. EntryInv => DeselectionCleans
  BY DEF EntryInv, Cleans, Pending, DeselectionCleans, Entry!DeselectionCleans, Entry!Quiet
<1> QED BY <1>1, EntryInvariant, PTL

(* A device loses the Alpha2 identity only by being deselected.            *)
THEOREM IdentityIsKept == MCSpec => IdentityStays
<1>1. EntryInv /\ [MCNext]_mcvars =>
        [\A i \in Ids : "promicro_repeater" \in registry[i] \ registry'[i] =>
           i \in deselected \/ i \notin Entry!Of(selected)]_(Entry!vars)
  BY EntryOnly, IdentityStep DEF EntryInv
<1> QED BY <1>1, EntryInvariant, PTL DEF MCSpec, IdentityStays, Entry!IdentityStays

-----------------------------------------------------------------------------
(* The snapshot of one repeater: the facts about Health's operators.       *)
LEMMA PeriodsAre ==
  /\ Poll \in Nat \ {0} /\ Cooldown \in Nat \ {0} /\ Cooldown < Poll
  /\ Asks \in Nat /\ MaxTime \in Nat
  /\ None \notin Int /\ Down \notin Int /\ None # Down /\ Readings \subseteq Int
  /\ Default \in Inputs /\ Health!Valid(Default)
BY HealthAssumption DEF Health!ConstantsAssumption

ValidInputs == {s \in Inputs : Health!Valid(s)}

LEMMA InForceIs == settings \in Inputs => Health!InForce \in ValidInputs
BY PeriodsAre DEF Health!InForce, ValidInputs

LEMMA BandsAre ==
  ASSUME NEW s \in ValidInputs
  PROVE  /\ s.fresh_max_age \in Int /\ s.aging_max_age \in Int /\ s.offline_max_age \in Int
         /\ s.fresh_max_age < s.aging_max_age /\ s.aging_max_age < s.offline_max_age
         /\ s.battery_critical \in Int /\ s.battery_warning \in Int
         /\ s.battery_critical < s.battery_warning
<1>1. s \in [voltage_offset : Int, empty_voltage : Int, full_voltage : Int,
             battery_warning : Int, battery_critical : Int, fresh_max_age : Int,
             aging_max_age : Int, stale_max_age : Int, offline_max_age : Int]
  BY HealthAssumption DEF Health!ConstantsAssumption, ValidInputs
<1>2. Health!Valid(s)
  BY DEF ValidInputs
<1>3. /\ s.fresh_max_age \in Int /\ s.aging_max_age \in Int /\ s.stale_max_age \in Int
      /\ s.offline_max_age \in Int /\ s.battery_critical \in Int /\ s.battery_warning \in Int
  BY <1>1
<1>4. /\ s.fresh_max_age < s.aging_max_age /\ s.aging_max_age < s.stale_max_age
      /\ s.stale_max_age <= s.offline_max_age /\ s.battery_critical < s.battery_warning
  BY <1>2 DEF Health!Valid, Health!AgesInOrder
<1> QED BY <1>3, <1>4

(* The four grades of freshness, by the age alone.                         *)
LEMMA FreshnessIs ==
  ASSUME NEW s \in ValidInputs, NEW age, NEW available \in BOOLEAN, available => age \in Int
  PROVE  Health!_freshness(age, available, s) =
           IF ~available \/ s.offline_max_age <= age THEN "Offline"
           ELSE IF s.aging_max_age <= age THEN "Stale"
           ELSE IF s.fresh_max_age <= age THEN "Aging" ELSE "Fresh"
<1>1. CASE ~available \/ age >= s.offline_max_age
  <2>1. available => age >= s.offline_max_age /\ ~(age < s.offline_max_age) /\ ~(age < s.aging_max_age)
    BY <1>1, BandsAre
  <2> QED BY <1>1, <2>1, BandsAre DEF Health!_freshness
<1>2. CASE ~(~available \/ age >= s.offline_max_age)
  <2>1. age \in Int /\ available
    BY <1>2
  <2> QED BY <1>2, <2>1, BandsAre DEF Health!_freshness
<1> QED BY <1>1, <1>2

(* The battery is a percentage or unknown.                                 *)
LEMMA BatteryIs ==
  ASSUME NEW s \in ValidInputs, NEW v
  PROVE  Health!Battery(v, s) \in Int \cup {None}
<1>1. CASE v \in Readings /\ Health!Plausible(v + s.voltage_offset)
  <2>1. /\ v \in Int /\ s.voltage_offset \in Int /\ s.empty_voltage \in Int /\ s.full_voltage \in Int
        /\ s.empty_voltage < s.full_voltage
    BY <1>1, HealthAssumption DEF Health!ConstantsAssumption, ValidInputs, Health!Valid
  <2> DEFINE a == 200 * ((v + s.voltage_offset) - s.empty_voltage) + s.full_voltage - s.empty_voltage
             b == 2 * (s.full_voltage - s.empty_voltage)
  <2>2. a \in Int /\ b \in Int /\ b > 0
    BY <2>1
  <2>3. Health!Battery(v, s) = Health!Clamp(a \div b)
    <3>1. Health!Battery(v, s) = Health!Percent(v + s.voltage_offset, s)
      BY <1>1 DEF Health!Battery
    <3>2. Health!Percent(v + s.voltage_offset, s) = Health!Clamp(a \div b)
      BY Zenon DEF Health!Percent
    <3> QED BY <3>1, <3>2
  <2> HIDE DEF a, b
  <2>4. a \div b \in Int
    BY <2>2
  <2> QED BY <2>3, <2>4 DEF Health!Clamp
<1>2. CASE ~(v \in Readings /\ Health!Plausible(v + s.voltage_offset))
  BY <1>2 DEF Health!Battery
<1> QED BY <1>1, <1>2

(* What is published of a source under settings at a time.                 *)
SourcesEver == {None} \cup [value : Readings \cup {Down}, at : Int]
Available(src) == src # None /\ src.value # Down
BatteryOf(src, s) == IF Available(src) THEN Health!Battery(src.value, s) ELSE None
FreshnessOf(src, s, t) ==
  Health!_freshness(IF src = None THEN None ELSE t - src.at, Available(src), s)
SnapshotOf(src, s, t) ==
  [source |-> src, available |-> Available(src), battery |-> BatteryOf(src, s),
   freshness |-> FreshnessOf(src, s, t),
   health |-> Health!calculate_health(BatteryOf(src, s), FreshnessOf(src, s, t), s),
   settings |-> s, taken |-> t]

LEMMA SnapshotIs == Health!Snapshot = SnapshotOf(source, Health!InForce, now)
BY DEF Health!Snapshot, SnapshotOf, Available, BatteryOf, FreshnessOf, Health!Age

LEMMA FieldsAre ==
  ASSUME NEW src, NEW s, NEW t
  PROVE  /\ SnapshotOf(src, s, t).source = src
         /\ SnapshotOf(src, s, t).available = Available(src)
         /\ SnapshotOf(src, s, t).battery = BatteryOf(src, s)
         /\ SnapshotOf(src, s, t).freshness = FreshnessOf(src, s, t)
         /\ SnapshotOf(src, s, t).health
              = Health!calculate_health(BatteryOf(src, s), FreshnessOf(src, s, t), s)
         /\ SnapshotOf(src, s, t).settings = s
         /\ SnapshotOf(src, s, t).taken = t
BY DEF SnapshotOf

LEMMA FreshnessOfIs ==
  ASSUME NEW src \in SourcesEver, NEW s \in ValidInputs, NEW t \in Int
  PROVE  /\ ~Available(src) => FreshnessOf(src, s, t) = "Offline"
         /\ Available(src) =>
              /\ src.at \in Int
              /\ FreshnessOf(src, s, t) =
                   IF s.offline_max_age <= t - src.at THEN "Offline"
                   ELSE IF s.aging_max_age <= t - src.at THEN "Stale"
                   ELSE IF s.fresh_max_age <= t - src.at THEN "Aging" ELSE "Fresh"
<1> DEFINE age == IF src = None THEN None ELSE t - src.at
<1>1. Available(src) \in BOOLEAN
  BY DEF Available
<1>2. Available(src) => src.at \in Int /\ age = t - src.at /\ age \in Int
  BY DEF Available, SourcesEver
<1>3. FreshnessOf(src, s, t) = Health!_freshness(age, Available(src), s)
  BY DEF FreshnessOf
<1> HIDE DEF age
<1>4. Health!_freshness(age, Available(src), s) =
           IF ~Available(src) \/ s.offline_max_age <= age THEN "Offline"
           ELSE IF s.aging_max_age <= age THEN "Stale"
           ELSE IF s.fresh_max_age <= age THEN "Aging" ELSE "Fresh"
  BY <1>1, <1>2, FreshnessIs
<1> QED BY <1>2, <1>3, <1>4

LEMMA BatteryOfIs ==
  ASSUME NEW src, NEW s \in ValidInputs
  PROVE  /\ BatteryOf(src, s) \in Int \cup {None}
         /\ ~Available(src) => BatteryOf(src, s) = None
BY BatteryIs DEF BatteryOf

(* Health is the worse of two grades.                                      *)
LEMMA WorseOf ==
  ASSUME NEW a \in Int, NEW b \in Int
  PROVE  (CHOOSE g \in {a, b} : g <= a /\ g <= b) = IF a <= b THEN a ELSE b
OBVIOUS

Freshnesses == {"Offline", "Stale", "Aging", "Fresh"}

LEMMA HealthIs ==
  ASSUME NEW s \in ValidInputs, NEW b \in Int, NEW f \in Freshnesses
  PROVE  /\ Health!Grade[Health!calculate_health(b, f, s)]
              = IF Health!OfBattery(b, s) <= Health!Deserved[f]
                THEN Health!OfBattery(b, s) ELSE Health!Deserved[f]
         /\ Health!OfBattery(b, s) \in Int /\ Health!Deserved[f] \in Int
<1>1. b # None
  BY PeriodsAre
<1>2. Health!OfBattery(b, s) \in 1..4
  BY DEF Health!OfBattery
<1>3. /\ Health!Deserved["Offline"] = 1 /\ Health!Deserved["Stale"] = 2
      /\ Health!Deserved["Aging"] = 3 /\ Health!Deserved["Fresh"] = 4
  BY DEF Health!Deserved
<1>4. /\ Health!Grade["Poor"] = 1 /\ Health!Grade["Fair"] = 2
      /\ Health!Grade["Good"] = 3 /\ Health!Grade["Excellent"] = 4
  BY DEF Health!Grade
<1>5. CASE f = "Offline"
  BY <1>1, <1>2, <1>3, <1>4, <1>5, BandsAre DEF Health!calculate_health, Health!OfBattery
<1>6. CASE f = "Stale"
  BY <1>1, <1>2, <1>3, <1>4, <1>6, BandsAre DEF Health!calculate_health, Health!OfBattery
<1>7. CASE f = "Aging"
  BY <1>1, <1>2, <1>3, <1>4, <1>7, BandsAre DEF Health!calculate_health, Health!OfBattery
<1>8. CASE f = "Fresh"
  BY <1>1, <1>2, <1>3, <1>4, <1>8, BandsAre DEF Health!calculate_health, Health!OfBattery
<1> QED BY <1>5, <1>6, <1>7, <1>8 DEF Freshnesses

LEMMA UnknownIs ==
  ASSUME NEW s, NEW f
  PROVE  Health!calculate_health(None, f, s) = "Unknown"
BY DEF Health!calculate_health

-----------------------------------------------------------------------------
(* In time.  A change that waits to be shown either has asked and the      *)
(* debouncer must answer at once, or waits for the end of a cooldown that  *)
(* began before it.                                                        *)
Waits ==
  /\ data.taken \in Int /\ poll = data.taken + Poll
  /\ unseen # None =>
       /\ unseen \in Int /\ unseen <= now
       /\ timer # None => timer <= unseen + Cooldown
       /\ atEnd \/ (asked > 0 /\ unseen = now)
Timing == Health!TypeOK /\ Waits

LEMMA TimingInit == Health!Init => Timing
<1> SUFFICES ASSUME Health!Init PROVE Timing
  OBVIOUS
<1> USE PeriodsAre
<1>1. data.taken = 0
  BY SnapshotIs, FieldsAre DEF Health!Init
<1>2. Health!TypeOK
  <2>1. /\ now = 0 /\ asked = 0 /\ poll = Poll /\ heard = 0 /\ timer = None /\ atEnd = FALSE
        /\ saving = None /\ settings \in Inputs
    BY DEF Health!Init
  <2>2. now \in 0..MaxTime /\ asked \in 0..Asks /\ heard \in 0..now
    BY <2>1
  <2>3. poll \in now..(now + Poll)
    BY <2>1
  <2>4. atEnd \in BOOLEAN /\ ~atEnd
    BY <2>1
  <2>5. timer = None \/ timer \in now..(now + Cooldown)
    BY <2>1
  <2>6. saving \in Inputs \cup {None} /\ data.taken <= now
    BY <1>1, <2>1
  <2> QED BY <2>1, <2>2, <2>3, <2>4, <2>5, <2>6 DEF Health!TypeOK
<1>3. Waits
  BY <1>1 DEF Health!Init, Waits
<1> QED BY <1>2, <1>3 DEF Timing

(* A refresh shows everything, and the next poll is one period away.       *)
LEMMA RefreshIs ==
  ASSUME Health!Refresh, Health!TypeOK
  PROVE  /\ data'.taken = now /\ poll' = now + Poll /\ unseen' = None
         /\ poll' \in now..(now + Poll)
<1>1. data'.taken = now
  BY SnapshotIs, FieldsAre DEF Health!Refresh
<1>2. now \in Int
  BY DEF Health!TypeOK
<1>3. poll' = now + Poll /\ unseen' = None
  BY DEF Health!Refresh
<1>4. now + Poll \in now..(now + Poll)
  BY <1>2, PeriodsAre
<1> QED BY <1>1, <1>3, <1>4

LEMMA TimingStep == Timing /\ [Health!Next]_health_vars => Timing'
<1> SUFFICES ASSUME Timing, [Health!Next]_health_vars PROVE Timing'
  OBVIOUS
<1> USE PeriodsAre
<1>0. Health!TypeOK /\ Waits
  BY DEF Timing
<1>n. /\ now \in Int /\ asked \in Int /\ poll \in Int
      /\ data.taken \in Int /\ data.taken <= now
  BY <1>0 DEF Health!TypeOK, Waits
<1>1. CASE Health!SourceChanges
  <2>1. /\ asked < Asks /\ asked' = asked + 1 /\ asked' > 0 /\ asked' \in 0..Asks
        /\ unseen' = IF unseen = None THEN now ELSE unseen
        /\ heard' = now \/ heard' = heard
        /\ UNCHANGED <<now, settings, saving, timer, atEnd, poll, data>>
    BY <1>0, <1>1, <1>n DEF Health!SourceChanges, Health!Listens, Health!Noticed, Health!TypeOK
  <2>2. Health!TypeOK'
    BY <1>0, <1>n, <2>1 DEF Health!TypeOK
  <2>3. timer # None => timer <= now + Cooldown
    BY <1>0, <1>n DEF Health!TypeOK
  <2>4. Waits'
    BY <1>0, <1>n, <2>1, <2>3 DEF Waits
  <2> QED BY <2>2, <2>4 DEF Timing
<1>2. CASE Health!SameAgain
  <2>1. heard' = now /\ UNCHANGED <<now, settings, saving, asked, timer, atEnd, poll, data, unseen>>
    BY <1>2 DEF Health!SameAgain
  <2> QED BY <1>0, <1>n, <2>1 DEF Timing, Health!TypeOK, Waits
<1>3. CASE Health!SaveSettings
  <2>1. /\ settings' \in Inputs /\ saving' \in Inputs
        /\ UNCHANGED <<now, asked, timer, atEnd, poll, data, unseen, heard>>
    BY <1>3 DEF Health!SaveSettings
  <2> QED BY <1>0, <1>n, <2>1 DEF Timing, Health!TypeOK, Waits
<1>4. CASE Health!Saved
  <2>1. /\ asked < Asks /\ asked' = asked + 1 /\ asked' > 0 /\ asked' \in 0..Asks
        /\ unseen' = IF unseen = None THEN now ELSE unseen
        /\ saving' = None
        /\ UNCHANGED <<now, settings, timer, atEnd, poll, data, heard>>
    BY <1>0, <1>4, <1>n DEF Health!Saved, Health!Noticed, Health!TypeOK
  <2>2. Health!TypeOK'
    BY <1>0, <1>n, <2>1 DEF Health!TypeOK
  <2>3. timer # None => timer <= now + Cooldown
    BY <1>0, <1>n DEF Health!TypeOK
  <2>4. Waits'
    BY <1>0, <1>n, <2>1, <2>3 DEF Waits
  <2> QED BY <2>2, <2>4 DEF Timing
<1>5. CASE Health!SaveFails
  <2>1. /\ saving' = None
        /\ UNCHANGED <<now, settings, asked, timer, atEnd, poll, data, unseen, heard>>
    BY <1>5 DEF Health!SaveFails
  <2> QED BY <1>0, <1>n, <2>1 DEF Timing, Health!TypeOK, Waits
<1>6. CASE Health!RequestRefresh
  <2>1. asked' \in 0..Asks /\ UNCHANGED <<now, settings, saving, heard>>
    BY <1>0, <1>6, <1>n DEF Health!RequestRefresh, Health!TypeOK
  <2>2. CASE timer = None /\ Health!Refresh /\ timer' = now + Cooldown /\ atEnd' = FALSE
    <3>1. timer' \in now..(now + Cooldown)
      BY <1>n, <2>2
    <3>2. Health!TypeOK'
      <4>1. data'.taken = now /\ poll' \in now..(now + Poll)
        BY <1>0, <2>2, RefreshIs
      <4>2. atEnd' \in BOOLEAN /\ ~atEnd'
        BY <2>1, <2>2
      <4>3. timer' \in now'..(now' + Cooldown) /\ poll' \in now'..(now' + Poll)
        BY <2>1, <3>1, <4>1
      <4>4. now' \in 0..MaxTime /\ heard' \in 0..now' /\ data'.taken <= now'
        BY <1>0, <1>n, <2>1, <4>1 DEF Health!TypeOK
      <4>5. asked' \in 0..Asks /\ settings' \in Inputs /\ saving' \in Inputs \cup {None}
        BY <1>0, <2>1 DEF Health!TypeOK
      <4> QED BY <4>2, <4>3, <4>4, <4>5 DEF Health!TypeOK
    <3>3. Waits'
      BY <1>0, <1>n, <2>1, <2>2, RefreshIs DEF Waits
    <3> QED BY <3>2, <3>3 DEF Timing
  <2>3. CASE timer # None /\ atEnd' = TRUE /\ UNCHANGED <<timer, poll, data, unseen>>
    <3>1. Health!TypeOK'
      BY <1>0, <1>n, <2>1, <2>3 DEF Health!TypeOK
    <3>2. Waits'
      BY <1>0, <1>n, <2>1, <2>3 DEF Waits
    <3> QED BY <3>1, <3>2 DEF Timing
  <2> QED BY <1>6, <2>2, <2>3 DEF Health!RequestRefresh
<1>7. CASE Health!CooldownEnds
  <2>1. timer = now /\ atEnd' = FALSE /\ UNCHANGED <<now, settings, saving, asked, heard>>
    BY <1>7 DEF Health!CooldownEnds
  <2>2. CASE atEnd /\ Health!Refresh /\ timer' = now + Cooldown
    <3>1. timer' \in now..(now + Cooldown)
      BY <1>n, <2>2
    <3>2. Health!TypeOK'
      <4>1. data'.taken = now /\ poll' \in now..(now + Poll)
        BY <1>0, <2>2, RefreshIs
      <4>2. atEnd' \in BOOLEAN /\ ~atEnd'
        BY <2>1, <2>2
      <4>3. timer' \in now'..(now' + Cooldown) /\ poll' \in now'..(now' + Poll)
        BY <2>1, <3>1, <4>1
      <4>4. now' \in 0..MaxTime /\ heard' \in 0..now' /\ data'.taken <= now'
        BY <1>0, <1>n, <2>1, <4>1 DEF Health!TypeOK
      <4>5. asked' \in 0..Asks /\ settings' \in Inputs /\ saving' \in Inputs \cup {None}
        BY <1>0, <2>1 DEF Health!TypeOK
      <4> QED BY <4>2, <4>3, <4>4, <4>5 DEF Health!TypeOK
    <3>3. Waits'
      BY <1>0, <1>n, <2>1, <2>2, RefreshIs DEF Waits
    <3> QED BY <3>2, <3>3 DEF Timing
  <2>3. CASE ~atEnd /\ timer' = None /\ UNCHANGED <<poll, data, unseen>>
    <3>1. Health!TypeOK'
      BY <1>0, <1>n, <2>1, <2>3 DEF Health!TypeOK
    <3>2. Waits'
      BY <1>0, <1>n, <2>1, <2>3 DEF Waits
    <3> QED BY <3>1, <3>2 DEF Timing
  <2> QED BY <1>7, <2>2, <2>3 DEF Health!CooldownEnds
<1>8. CASE Health!PollDue
  <2>1. /\ Health!Refresh /\ timer' = None /\ atEnd' = FALSE
        /\ UNCHANGED <<now, settings, saving, asked, heard>>
    BY <1>8 DEF Health!PollDue
  <2>2. Health!TypeOK'
    <3>1. data'.taken = now /\ poll' \in now..(now + Poll)
      BY <1>0, <2>1, RefreshIs
    <3>2. atEnd' \in BOOLEAN /\ ~atEnd'
      BY <2>1
    <3>3. poll' \in now'..(now' + Poll) /\ timer' = None
      BY <2>1, <3>1
    <3>4. now' \in 0..MaxTime /\ heard' \in 0..now' /\ data'.taken <= now'
      BY <1>0, <1>n, <2>1, <3>1 DEF Health!TypeOK
    <3>5. asked' \in 0..Asks /\ settings' \in Inputs /\ saving' \in Inputs \cup {None}
      BY <1>0, <2>1 DEF Health!TypeOK
    <3> QED BY <3>2, <3>3, <3>4, <3>5 DEF Health!TypeOK
  <2>3. Waits'
    BY <1>0, <1>n, <2>1, RefreshIs DEF Waits
  <2> QED BY <2>2, <2>3 DEF Timing
<1>9. CASE Health!Tick
  <2>1. /\ now < MaxTime /\ asked = 0 /\ timer # now /\ poll # now /\ now' = now + 1
        /\ UNCHANGED <<settings, saving, asked, timer, atEnd, poll, data, unseen, heard>>
    BY <1>9 DEF Health!Tick
  <2>2. now' \in 0..MaxTime /\ heard' \in 0..now' /\ poll' \in now'..(now' + Poll)
    BY <1>0, <1>n, <2>1 DEF Health!TypeOK
  <2>3. timer' = None \/ timer' \in now'..(now' + Cooldown)
    BY <1>0, <1>n, <2>1 DEF Health!TypeOK
  <2>4. data'.taken <= now'
    BY <1>n, <2>1
  <2>5. Health!TypeOK'
    BY <1>0, <1>n, <2>1, <2>2, <2>3, <2>4 DEF Health!TypeOK
  <2>6. Waits'
    BY <1>0, <1>n, <2>1 DEF Waits
  <2> QED BY <2>5, <2>6 DEF Timing
<1>10. CASE UNCHANGED health_vars
  BY <1>0, <1>10 DEF health_vars, Timing, Health!TypeOK, Waits
<1> QED BY <1>1, <1>2, <1>3, <1>4, <1>5, <1>6, <1>7, <1>8, <1>9, <1>10 DEF Health!Next

LEMMA HealthInTime == Timing => ShownInTime
<1> SUFFICES ASSUME Timing PROVE ShownInTime
  OBVIOUS
<1> USE PeriodsAre
<1>0. Health!TypeOK /\ Waits
  BY DEF Timing
<1>1. ASSUME unseen # None PROVE now - unseen <= Cooldown
  <2>1. now \in Int /\ unseen \in Int
    BY <1>0, <1>1 DEF Health!TypeOK, Waits
  <2>2. CASE atEnd
    <3>1. timer \in now..(now + Cooldown) /\ timer <= unseen + Cooldown
      BY <1>0, <1>1, <2>2 DEF Health!TypeOK, Waits
    <3> QED BY <2>1, <3>1
  <2>3. CASE ~atEnd
    <3>1. unseen = now
      BY <1>0, <1>1, <2>3 DEF Waits
    <3> QED BY <2>1, <3>1
  <2> QED BY <2>2, <2>3
<1>2. now - data.taken <= Poll
  <2>1. now \in Int /\ data.taken \in Int /\ poll = data.taken + Poll /\ now <= poll
    BY <1>0 DEF Health!TypeOK, Waits
  <2> QED BY <2>1
<1> QED BY <1>0, <1>1, <1>2 DEF ShownInTime, Health!ShownSoon, Health!NeverOld

-----------------------------------------------------------------------------
(* Right.  What is published is the snapshot of one source under valid     *)
(* settings at one time.                                                   *)
Published ==
  /\ source \in SourcesEver
  /\ data.source \in SourcesEver /\ data.settings \in ValidInputs
  /\ data = SnapshotOf(data.source, data.settings, data.taken)

LEMMA PublishedInit == Health!Init => Published
<1> SUFFICES ASSUME Health!Init PROVE Published
  OBVIOUS
<1>1. source \in SourcesEver
  BY DEF Health!Init, Health!Sources, SourcesEver
<1>2. Health!InForce \in ValidInputs /\ data = SnapshotOf(source, Health!InForce, now)
  BY InForceIs, SnapshotIs DEF Health!Init
<1>3. data.source = source /\ data.settings = Health!InForce /\ data.taken = now
  BY <1>2, FieldsAre
<1> QED BY <1>1, <1>2, <1>3 DEF Published

LEMMA PublishesOf ==
  ASSUME Health!Refresh, Health!TypeOK, Published
  PROVE  /\ data'.source = source /\ data'.settings = Health!InForce /\ data'.taken = now
         /\ data' = SnapshotOf(source, Health!InForce, now)
         /\ Health!InForce \in ValidInputs
<1>1. data' = SnapshotOf(source, Health!InForce, now)
  BY SnapshotIs DEF Health!Refresh
<1>2. Health!InForce \in ValidInputs
  BY InForceIs DEF Health!TypeOK
<1> QED BY <1>1, <1>2, FieldsAre

LEMMA SnapshotOrNot ==
  [Health!Next]_health_vars => UNCHANGED data \/ Health!Refresh
BY DEF Health!Next, Health!SourceChanges, Health!SameAgain, Health!SaveSettings, Health!Saved,
   Health!SaveFails, Health!RequestRefresh, Health!CooldownEnds, Health!PollDue, Health!Tick,
   health_vars

LEMMA PublishedStep == Timing /\ Published /\ [Health!Next]_health_vars => Published'
<1> SUFFICES ASSUME Timing, Published, [Health!Next]_health_vars PROVE Published'
  OBVIOUS
<1>0. Health!TypeOK /\ now \in Int /\ source \in SourcesEver
  BY PeriodsAre DEF Timing, Health!TypeOK, Published
<1>1. source' \in SourcesEver
  <2>1. CASE Health!SourceChanges
    <3>1. source' \in {None} \cup [value : Readings \cup {Down}, at : {now}]
      BY <2>1 DEF Health!SourceChanges
    <3> QED BY <1>0, <3>1 DEF SourcesEver
  <2>2. CASE ~Health!SourceChanges
    <3>1. source' = source
      BY <2>2 DEF Health!Next, Health!SameAgain, Health!SaveSettings, Health!Saved,
         Health!SaveFails, Health!RequestRefresh, Health!CooldownEnds, Health!PollDue,
         Health!Tick, health_vars
    <3> QED BY <1>0, <3>1
  <2> QED BY <2>1, <2>2
<1>2. CASE UNCHANGED data
  BY <1>1, <1>2 DEF Published
<1>3. CASE Health!Refresh
  BY <1>0, <1>1, <1>3, PublishesOf DEF Published
<1> QED BY <1>2, <1>3, SnapshotOrNot

(* The fields of what is published.                                        *)
LEMMA PublishedIs ==
  ASSUME Published
  PROVE  /\ data.available = Available(data.source)
         /\ data.battery = BatteryOf(data.source, data.settings)
         /\ data.freshness = FreshnessOf(data.source, data.settings, data.taken)
         /\ data.health = Health!calculate_health(data.battery, data.freshness, data.settings)
<1>1. PICK src, s, t : src = data.source /\ s = data.settings /\ t = data.taken
  OBVIOUS
<1>2. data = SnapshotOf(src, s, t)
  BY <1>1 DEF Published
<1> QED BY <1>1, <1>2, FieldsAre

LEMMA HealthOfWorst == Timing /\ Published => Health!HealthIsWorst
<1> SUFFICES ASSUME Timing, Published, data.battery # None PROVE Health!HealthIsWorst
  BY DEF Health!HealthIsWorst
<1>1. PICK b, f, s, src, t :
        /\ b = data.battery /\ f = data.freshness /\ s = data.settings
        /\ src = data.source /\ t = data.taken
  OBVIOUS
<1>2. src \in SourcesEver /\ s \in ValidInputs /\ t \in Int
  BY <1>1 DEF Published, Timing, Waits
<1>3. f \in Freshnesses
  BY <1>1, <1>2, PublishedIs, FreshnessOfIs DEF Freshnesses
<1>4. b \in Int
  BY <1>1, <1>2, PublishedIs, BatteryOfIs
<1>5. data.health = Health!calculate_health(b, f, s)
  BY <1>1, PublishedIs
<1>6. Health!Grade[data.health] =
        CHOOSE g \in {Health!OfBattery(b, s), Health!Deserved[f]} :
          g <= Health!OfBattery(b, s) /\ g <= Health!Deserved[f]
  BY <1>2, <1>3, <1>4, <1>5, HealthIs, WorseOf
<1> QED BY <1>1, <1>6 DEF Health!HealthIsWorst

LEMMA FirstTransition == Timing /\ Published => Health!TransitionIsFirst
<1> SUFFICES ASSUME Timing, Published, Health!next_freshness_transition # None,
                    data.settings = Health!InForce
             PROVE  /\ \A t \in data.taken..(Health!next_freshness_transition - 1) :
                         Health!FreshnessAt(t) = data.freshness
                    /\ Health!FreshnessAt(Health!next_freshness_transition) # data.freshness
  BY DEF Health!TransitionIsFirst
<1>1. PICK src, s, taken, f, next :
        /\ src = data.source /\ s = data.settings /\ taken = data.taken /\ f = data.freshness
        /\ next = Health!next_freshness_transition
  OBVIOUS
<1>2. src \in SourcesEver /\ s \in ValidInputs /\ taken \in Int /\ s = Health!InForce
  BY <1>1 DEF Published, Timing, Waits
<1>3. /\ data.available = Available(src) /\ f = FreshnessOf(src, s, taken)
      /\ Available(src) /\ f # "Offline" /\ next = src.at + Health!NextBand[f]
  BY <1>1, PublishedIs DEF Health!next_freshness_transition
<1>4. ASSUME NEW t \in Int PROVE Health!FreshnessAt(t) = FreshnessOf(src, s, t)
  BY <1>1, <1>2, <1>3 DEF Health!FreshnessAt, FreshnessOf, Available
<1>5. /\ src.at \in Int
      /\ \A t \in Int : FreshnessOf(src, s, t) =
           IF s.offline_max_age <= t - src.at THEN "Offline"
           ELSE IF s.aging_max_age <= t - src.at THEN "Stale"
           ELSE IF s.fresh_max_age <= t - src.at THEN "Aging" ELSE "Fresh"
  BY <1>2, <1>3, FreshnessOfIs
<1>6. /\ Health!NextBand["Fresh"] = s.fresh_max_age /\ Health!NextBand["Aging"] = s.aging_max_age
      /\ Health!NextBand["Stale"] = s.offline_max_age
  BY <1>2 DEF Health!NextBand
<1>7. /\ s.fresh_max_age \in Int /\ s.aging_max_age \in Int /\ s.offline_max_age \in Int
      /\ s.fresh_max_age < s.aging_max_age /\ s.aging_max_age < s.offline_max_age
  BY <1>2, BandsAre
<1>8. /\ next \in Int
      /\ \A t \in taken..(next - 1) : FreshnessOf(src, s, t) = f
      /\ FreshnessOf(src, s, next) # f
  <2>0. /\ taken - src.at \in Int
        /\ f = IF s.offline_max_age <= taken - src.at THEN "Offline"
               ELSE IF s.aging_max_age <= taken - src.at THEN "Stale"
               ELSE IF s.fresh_max_age <= taken - src.at THEN "Aging" ELSE "Fresh"
    BY <1>2, <1>3, <1>5
  <2>1. CASE f = "Fresh"
    <3>0. next = src.at + s.fresh_max_age
      BY <1>3, <1>6, <2>1
    <3>1. taken - src.at < s.fresh_max_age
      BY <1>7, <2>0, <2>1
    <3> QED BY <1>2, <1>5, <1>7, <2>1, <3>0, <3>1
  <2>2. CASE f = "Aging"
    <3>0. next = src.at + s.aging_max_age
      BY <1>3, <1>6, <2>2
    <3>1. s.fresh_max_age <= taken - src.at /\ taken - src.at < s.aging_max_age
      BY <1>7, <2>0, <2>2
    <3> QED BY <1>2, <1>5, <1>7, <2>2, <3>0, <3>1
  <2>3. CASE f = "Stale"
    <3>0. next = src.at + s.offline_max_age
      BY <1>3, <1>6, <2>3
    <3>1. s.aging_max_age <= taken - src.at /\ taken - src.at < s.offline_max_age
      BY <1>7, <2>0, <2>3
    <3> QED BY <1>2, <1>5, <1>7, <2>3, <3>0, <3>1
  <2> QED BY <1>2, <1>3, <1>5, <2>1, <2>2, <2>3
<1>9. \A t \in taken..(next - 1) : t \in Int
  OBVIOUS
<1> QED BY <1>1, <1>4, <1>8, <1>9

(* Of one source under the same settings, the later snapshot is no better. *)
LEMMA LaterIsNoBetter ==
  ASSUME NEW src \in SourcesEver, NEW s \in ValidInputs, NEW t \in Int, NEW u \in Int, t <= u
  PROVE  LET d == SnapshotOf(src, s, t)
             e == SnapshotOf(src, s, u)
         IN  /\ Health!Deserved[e.freshness] <= Health!Deserved[d.freshness]
             /\ Health!Grade[e.health] <= Health!Grade[d.health]
<1> DEFINE f == FreshnessOf(src, s, t)
           h == FreshnessOf(src, s, u)
           b == BatteryOf(src, s)
<1>1. f \in Freshnesses /\ h \in Freshnesses
  BY FreshnessOfIs DEF Freshnesses
<1>2. /\ Health!Deserved["Offline"] = 1 /\ Health!Deserved["Stale"] = 2
      /\ Health!Deserved["Aging"] = 3 /\ Health!Deserved["Fresh"] = 4
  BY DEF Health!Deserved
<1>3. Health!Deserved[h] <= Health!Deserved[f]
  <2>1. CASE ~Available(src)
    BY <1>2, <2>1, FreshnessOfIs
  <2>2. CASE Available(src)
    <3>1. src.at \in Int
      BY <2>2, FreshnessOfIs
    <3>2. t - src.at \in Int /\ u - src.at \in Int /\ t - src.at <= u - src.at
      BY <3>1
    <3> QED BY <1>2, <2>2, <3>2, BandsAre, FreshnessOfIs
  <2> QED BY <2>1, <2>2
<1>4. Health!Grade[Health!calculate_health(b, h, s)] <= Health!Grade[Health!calculate_health(b, f, s)]
  <2>1. CASE b = None
    <3>1. Health!Grade["Unknown"] = 0
      BY DEF Health!Grade
    <3> QED BY <2>1, <3>1, UnknownIs
  <2>2. CASE b # None
    <3>1. b \in Int
      BY <2>2, BatteryOfIs
    <3> DEFINE o == Health!OfBattery(b, s)
               x == Health!Deserved[f]
               y == Health!Deserved[h]
    <3>2. /\ o \in Int /\ x \in Int /\ y \in Int /\ y <= x
          /\ Health!Grade[Health!calculate_health(b, f, s)] = IF o <= x THEN o ELSE x
          /\ Health!Grade[Health!calculate_health(b, h, s)] = IF o <= y THEN o ELSE y
      BY <1>1, <1>3, <3>1, HealthIs
    <3> HIDE DEF o, x, y
    <3> QED BY <3>2
  <2> QED BY <2>1, <2>2
<1> QED BY <1>3, <1>4, FieldsAre

LEMMA AgeingStep ==
  ASSUME Timing, Published, [Health!Next]_health_vars,
         data'.source = data.source, data'.settings = data.settings
  PROVE  /\ Health!Deserved[data'.freshness] <= Health!Deserved[data.freshness]
         /\ Health!Grade[data'.health] <= Health!Grade[data.health]
<1>1. PICK src, s, t :
        /\ src = data.source /\ s = data.settings /\ t = data.taken
  OBVIOUS
<1>2. /\ src \in SourcesEver /\ s \in ValidInputs /\ t \in Int
      /\ now \in Int /\ t <= now /\ data = SnapshotOf(src, s, t)
  BY <1>1, PeriodsAre DEF Timing, Waits, Published, Health!TypeOK
<1>3. CASE UNCHANGED data
  <2>1. data' = SnapshotOf(src, s, t)
    BY <1>2, <1>3
  <2> QED BY <1>2, <2>1, LaterIsNoBetter
<1>4. CASE Health!Refresh
  <2>1. PICK u : u = now
    OBVIOUS
  <2>2. data' = SnapshotOf(src, s, u)
    BY <1>1, <1>4, <2>1, PublishesOf DEF Timing
  <2> QED BY <1>2, <2>1, <2>2, LaterIsNoBetter
<1> QED BY <1>3, <1>4, SnapshotOrNot

-----------------------------------------------------------------------------
HealthInv == Timing /\ Published

LEMMA HealthOnly == [MCNext]_mcvars => [Health!Next]_health_vars
BY DEF MCNext, OfStore, OfEntry, mcvars

LEMMA HealthInvariant == MCSpec => []HealthInv
<1>1. MCInit => HealthInv
  BY TimingInit, PublishedInit DEF MCInit, HealthInv
<1>2. HealthInv /\ [MCNext]_mcvars => HealthInv'
  BY HealthOnly, TimingStep, PublishedStep DEF HealthInv
<1> QED BY <1>1, <1>2, PTL DEF MCSpec

(* A change is shown within one cooldown, and ageing within one poll.      *)
THEOREM ChangesAreShown == MCSpec => []ShownInTime
<1>1. HealthInv => ShownInTime
  BY HealthInTime DEF HealthInv
<1> QED BY <1>1, HealthInvariant, PTL

(* Health is the worse of what battery and freshness deserve, and the      *)
(* announced transition is the first moment the freshness changes.         *)
THEOREM PublishedIsRight == MCSpec => []ShownIsRight
<1>1. HealthInv => ShownIsRight
  BY HealthOfWorst, FirstTransition DEF HealthInv, ShownIsRight
<1> QED BY <1>1, HealthInvariant, PTL

(* Time alone improves nothing.                                            *)
THEOREM AgeImprovesNothing == MCSpec => AgeingOnlyWorsens
<1>1. HealthInv /\ [MCNext]_mcvars =>
        [data'.source = data.source /\ data'.settings = data.settings =>
           /\ Health!Deserved[data'.freshness] <= Health!Deserved[data.freshness]
           /\ Health!Grade[data'.health] <= Health!Grade[data.health]]_(Health!vars)
  BY HealthOnly, AgeingStep DEF HealthInv
<1> QED BY <1>1, HealthInvariant, PTL DEF MCSpec, AgeingOnlyWorsens, Health!AgeingOnlyWorsens
=============================================================================
