------------------------------- MODULE MCMouse -------------------------------
(***************************************************************************)
(* A screen of 80 by 70 pixels leaves the cursor 21 by 11 positions.  The  *)
(* device sends a click, a drag to the right, a move to the right and up,  *)
(* one to the left and one down, and two whose deltas look like first      *)
(* bytes: by -1 to the left, and by 9 to the right and -8 down.  A first   *)
(* byte heard three times over, <<9, 9, 9>>, is a click at the top right   *)
(* corner: the entries are placed so that a loop out of step may choose.   *)
(***************************************************************************)
EXTENDS Mouse

MCPackets == {<<9, 0, 0>>, <<9, 6, 0>>, <<8, 7, 2>>, <<24, 245, 0>>, <<40, 0, 247>>,
              <<24, 255, 0>>, <<40, 9, 248>>}
MCStatuses == {{"OUT_FULL", "AUX"}, {"OUT_FULL", "AUX", "PAR_ERR"}}
MCEntries == [S_GAME |-> [x1 |-> 37, y1 |-> 30, x2 |-> 50, y2 |-> 33],
              M_GAME |-> [x1 |-> 37, y1 |-> 34, x2 |-> 43, y2 |-> 36],
              QUIT |-> [x1 |-> 38, y1 |-> 38, x2 |-> 42, y2 |-> 40]]
=============================================================================
