------------------------------- MODULE Keyboard -------------------------------
(***************************************************************************)
(* The keyboard interrupt handler of proj/src/keyboard.c.  kbc_ih reads    *)
(* the status register and the output buffer of the KBC, and when the      *)
(* status shows a good keyboard byte it acts on it: P toggles the pause,   *)
(* a movement key overwrites nextMove.  Nothing ever resets nextMove.      *)
(***************************************************************************)
EXTENDS Integers

\* The bits of the KBC status register that the handlers look at
StatusBits == {"OUT_FULL", "AUX", "PAR_ERR", "TO_ERR"}
KbcStatus == SUBSET StatusBits

\* Break codes: the program reacts to keys being released
P_BREAK_CODE == 153

\* W S A D for blue, the arrows (second byte) for orange
BlueKeys == {145, 159, 158, 160}
OrangeKeys == {200, 208, 203, 205}
MoveKeys == BlueKeys \cup OrangeKeys

KeyMove(k) ==
  [dir |-> CASE k \in {145, 200} -> "UP"
             [] k \in {159, 208} -> "DOWN"
             [] k \in {158, 203} -> "LEFT"
             [] OTHER -> "RIGHT",
   playerColor |-> IF k \in BlueKeys THEN "BLUE" ELSE "ORANGE"]

\* A byte is used only if it is there, is the keyboard's and came without error
Accepted(status) ==
  "OUT_FULL" \in status /\ status \cap {"PAR_ERR", "TO_ERR", "AUX"} = {}

TogglePause(screenState) == IF screenState = "PAUSE" THEN "S_GAME" ELSE "PAUSE"

(***************************************************************************)
(* kbc_ih, as the new values of the globals it writes.  k = [screenState,  *)
(* nextMove, scanCode] is what they were.                                  *)
(***************************************************************************)
kbc_ih(k, status, temp) ==
  IF ~Accepted(status)
    THEN k
    ELSE [screenState |-> IF temp = P_BREAK_CODE
                            THEN TogglePause(k.screenState) ELSE k.screenState,
          nextMove |-> IF temp \in MoveKeys THEN KeyMove(temp) ELSE k.nextMove,
          scanCode |-> temp]
=============================================================================
