----------------------------- MODULE MCTestLoops -----------------------------
(***************************************************************************)
(* Up to three seconds of three ticks each, or up to three packets.        *)
(***************************************************************************)
EXTENDS TestLoops

MCArgs == 0 .. 3
=============================================================================
