--------------------------- MODULE MCClockManager ---------------------------
(* Model values for the single-repeater operations of ClockManager.        *)
EXTENDS ClockManager, TLC

CONSTANTS r1, r2
OneRepeater  == <<r1>>
TwoRepeaters == <<r1, r2>>

Symmetry == Permutations(CheckCalls) \cup Permutations(SyncCalls)
=============================================================================
