------------------------------- MODULE MCMatch -------------------------------
(***************************************************************************)
(* Match on a screen of 8 by 8 pixels, cycles of 2 by 2: four columns and  *)
(* four rows of cells, and four mapped pixels behind the screen.           *)
(***************************************************************************)
EXTENDS Match

MCDay == {18}
=============================================================================
