---------------------------- MODULE MCController ----------------------------
(***************************************************************************)
(* Controller for TLC.  Its constants are numbers, given in the configs.   *)
(***************************************************************************)
EXTENDS Controller
=============================================================================
