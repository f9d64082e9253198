------------------------------- MODULE MCTimer -------------------------------
(***************************************************************************)
(* The clock, the memory refresh, and two that are no counter: 3, whose    *)
(* control word is a read-back, and 4, whose control word is one for       *)
(* counter 0.  Frequencies on both sides of the two bounds, the 18 of the  *)
(* test and the 19 from which on a divisor fits, the 60 of the system and  *)
(* one above the clock.  An uninitialised status is all zeros, or one of   *)
(* the other base and mode.                                                *)
(***************************************************************************)
EXTENDS Timer

MCTimers == {0, 1, 3, 4}
MCFreqs == {17, 18, 19, 60, 2000000}
MCGarbage == {[access |-> 0, low |-> 0], [access |-> 3, low |-> 5]}
=============================================================================
