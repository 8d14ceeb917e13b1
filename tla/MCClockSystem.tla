---------------------------- MODULE MCClockSystem ---------------------------
(* Model values for the composed clock system: two repeaters in order.     *)
EXTENDS ClockSystem

CONSTANTS r1, r2
OneRepeater  == <<r1>>
TwoRepeaters == <<r1, r2>>
=============================================================================
