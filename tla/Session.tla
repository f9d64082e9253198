------------------------------- MODULE Session -------------------------------
(***************************************************************************)
(* What the screens of the game promise to the people in front of them, in *)
(* terms of the screen, whether a round has been dealt, and the picture of *)
(* that round:                                                             *)
(*   - a round is dealt once after every choice in a menu, onto a blank    *)
(*     picture, and a menu is left only after the last round is put away;  *)
(*   - while a round is played its picture only gains paint;               *)
(*   - the pause leaves the round dealt and its picture as it was;         *)
(*   - the program is left from a menu, or from a dealt round.             *)
(***************************************************************************)
CONSTANTS Pixels, BlankPictures, NoPicture, Inks

VARIABLES screen, dealt, picture

vars == <<screen, dealt, picture>>

Menus == {"MAIN", "GOONE", "GOTWO"}

\* Pixels keep their colour or take the colour of a cycle.
OnlyGainsPaint(before, after) ==
  \A i \in Pixels : after[i] = before[i] \/ after[i] \in Inks

Init == screen = "MAIN" /\ dealt = FALSE /\ picture = NoPicture

Choose ==
  /\ screen \in Menus /\ ~dealt
  /\ screen' \in {"S_GAME", "M_GAME", "QUIT"}
  /\ UNCHANGED <<dealt, picture>>

PutAway ==
  /\ screen \in Menus /\ dealt /\ dealt' = FALSE /\ picture' = NoPicture
  /\ UNCHANGED screen

Deal ==
  /\ screen \in {"S_GAME", "M_GAME"} /\ ~dealt /\ dealt' = TRUE
  /\ picture' \in BlankPictures
  /\ UNCHANGED screen

Play ==
  /\ screen = "S_GAME" /\ dealt
  /\ screen' \in {"S_GAME", "PAUSE", "GOONE", "GOTWO", "QUIT"}
  /\ OnlyGainsPaint(picture, picture')
  /\ UNCHANGED dealt

Paused ==
  /\ screen = "PAUSE" /\ dealt
  /\ screen' \in {"S_GAME", "QUIT"}
  /\ UNCHANGED <<dealt, picture>>

Next == Choose \/ PutAway \/ Deal \/ Play \/ Paused

Spec == Init /\ [][Next]_vars
=============================================================================
