------------------------------ MODULE MCGesture ------------------------------
(***************************************************************************)
(* Gesture for TLC: the packets of a gesture, flat strokes and the middle  *)
(* button.                                                                 *)
(***************************************************************************)
EXTENDS Gesture

MCPackets ==
  [buttons : SUBSET {"left", "right"} \cup {{"middle"}}, dx : {0, 2}, dy : {-5, 0, 5}]
=============================================================================
