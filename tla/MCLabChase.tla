----------------------------- MODULE MCLabChase -----------------------------
(***************************************************************************)
(* LabChase on a screen of 12 by 4 pixels, cycles of 2 by 2: six columns   *)
(* and two rows of squares, words of four bits, and four mapped pixels     *)
(* behind the screen.                                                      *)
(***************************************************************************)
EXTENDS LabChase

\* W and A steer blue, up arrow orange, P pauses, 30 is the make code of A
MCScanCodes == {145, 158, 200, 153, 30}
MCStatuses == {{"OUT_FULL"}, {"OUT_FULL", "PAR_ERR"}}
MCGoodStatus == {{"OUT_FULL"}}
\* 0x12 is noon, 0x20 eight in the evening
MCHours == {18, 32}
MCDay == {18}
MCEvening == {32}
\* W for blue, up arrow for orange, and P
MCFewKeys == {145, 200, 153}
\* The letters of the pause picture
MCPauseText == {2, 3, 14, 15}
=============================================================================
