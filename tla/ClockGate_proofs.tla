-------------------------- MODULE ClockGate_proofs --------------------------
(* The exclusion of ClockGate, for any owners and any repeaters.           *)
EXTENDS ClockGate, TLAPS

Inv == TypeOK /\ Exclusive

LEMMA InitInv == Init => Inv
BY DEF Init, Inv, TypeOK, Exclusive

LEMMA NextInv == Inv /\ [Next]_gate => Inv'
<1> SUFFICES ASSUME Inv, [Next]_gate PROVE Inv'
  OBVIOUS
<1> USE NobodyAssumption DEF Inv, TypeOK, Exclusive
<1>1. ASSUME NEW o \in Owners, BeginCheck(o) PROVE Inv'
  BY <1>1 DEF BeginCheck, Idle
<1>2. ASSUME NEW o \in Owners, BeginSync(o) PROVE Inv'
  BY <1>2 DEF BeginSync, Idle
<1>3. CASE EndCheck
  BY <1>3 DEF EndCheck
<1>4. CASE EndSync
  BY <1>4 DEF EndSync
<1>5. ASSUME NEW o \in Owners, NEW p \in Places, EnterWrite(o, p) PROVE Inv'
  BY <1>5 DEF EnterWrite
<1>6. ASSUME NEW o \in Owners, NEW p \in Places, LeaveWrite(o, p) PROVE Inv'
  BY <1>6 DEF LeaveWrite
<1>7. CASE Unload
  BY <1>7 DEF Unload
<1>8. CASE UNCHANGED gate
  BY <1>8 DEF gate
<1> QED
  BY <1>1, <1>2, <1>3, <1>4, <1>5, <1>6, <1>7, <1>8 DEF Next

(* The gate keeps its exclusion: one writer per repeater, no write during  *)
(* a fleet check, and only the fleet synchronization's own during its run. *)
THEOREM GateIsExclusive == Spec => []Exclusive
<1>1. Inv => Exclusive
  BY DEF Inv
<1> QED
  BY InitInv, NextInv, <1>1, PTL DEF Spec
=============================================================================
