----------------------------- MODULE ClockGate ------------------------------
(***************************************************************************)
(* What the clock manager and the two fleet orchestrators promise together *)
(* about clock writes while the integration is loaded: an operation that   *)
(* may reboot a repeater or set its clock holds that repeater alone, a     *)
(* fleet check and writes exclude each other, and a fleet synchronization  *)
(* is the only writer while it owns the fleet gate.                        *)
(***************************************************************************)
CONSTANTS Owners, Places, Nobody

ASSUME NobodyAssumption == Nobody \notin Owners

VARIABLES
  loaded,    (* the integration is loaded                                  *)
  checker,   (* the fleet check that reserved the fleet                    *)
  syncer,    (* the fleet synchronization that holds the fleet gate        *)
  writers    (* <<owner, place>>: a write transaction under way            *)

gate == <<loaded, checker, syncer, writers>>

Init ==
  /\ loaded = TRUE
  /\ checker = Nobody
  /\ syncer = Nobody
  /\ writers = {}

Idle == loaded /\ checker = Nobody /\ syncer = Nobody /\ writers = {}

BeginCheck(o) == Idle /\ checker' = o /\ UNCHANGED <<loaded, syncer, writers>>

BeginSync(o) == Idle /\ syncer' = o /\ UNCHANGED <<loaded, checker, writers>>

EndCheck ==
  /\ checker # Nobody
  /\ checker' = Nobody
  /\ UNCHANGED <<loaded, syncer, writers>>

EndSync ==
  /\ syncer # Nobody
  /\ writers = {}
  /\ syncer' = Nobody
  /\ UNCHANGED <<loaded, checker, writers>>

(* Mutants of EnterWrite: it forgets the fleet check, or swaps the pair.   *)
WriteDuringCheck(o, p) ==
  /\ loaded
  /\ syncer \in {Nobody, o}
  /\ \A w \in writers : w[2] # p /\ w[1] # o
  /\ writers' = writers \cup {<<o, p>>}
  /\ UNCHANGED <<loaded, checker, syncer>>

WriteSwapped(o, p) ==
  /\ loaded
  /\ checker = Nobody
  /\ syncer \in {Nobody, o}
  /\ writers' = writers \cup {<<p, o>>}
  /\ UNCHANGED <<loaded, checker, syncer>>

EnterWrite(o, p) ==
  /\ loaded
  /\ checker = Nobody
  /\ syncer \in {Nobody, o}
  /\ \A w \in writers : w[2] # p /\ w[1] # o
  /\ writers' = writers \cup {<<o, p>>}
  /\ UNCHANGED <<loaded, checker, syncer>>

LeaveWrite(o, p) ==
  /\ <<o, p>> \in writers
  /\ writers' = writers \ {<<o, p>>}
  /\ UNCHANGED <<loaded, checker, syncer>>

(* After the unload nothing is promised.                                   *)
Unload ==
  /\ loaded
  /\ loaded' = FALSE
  /\ checker' = Nobody
  /\ syncer' = Nobody
  /\ writers' = {}

Next ==
  \/ \E o \in Owners : BeginCheck(o) \/ BeginSync(o)
  \/ EndCheck
  \/ EndSync
  \/ \E o \in Owners, p \in Places : EnterWrite(o, p) \/ LeaveWrite(o, p)
  \/ Unload

Spec == Init /\ [][Next]_gate

-----------------------------------------------------------------------------
(* The types of the gate's variables.                                      *)
TypeOK ==
  /\ loaded \in BOOLEAN
  /\ checker \in Owners \cup {Nobody}
  /\ syncer \in Owners \cup {Nobody}
  /\ writers \subseteq Owners \X Places

(* The exclusion that the actions add up to: one writer per place, no      *)
(* write during a fleet check, and none but its own during a fleet sync.   *)
Exclusive ==
  /\ checker = Nobody \/ syncer = Nobody
  /\ checker # Nobody => writers = {}
  /\ syncer # Nobody => \A w \in writers : w[1] = syncer
  /\ \A v, w \in writers : v[2] = w[2] => v = w
=============================================================================
