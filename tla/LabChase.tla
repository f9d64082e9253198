------------------------------- MODULE LabChase -------------------------------
(***************************************************************************)
(* The main loop of the game, proj_main_loop of proj/src/main.c.           *)
(*                                                                         *)
(* The program is one process.  It runs one inner loop per screen; every   *)
(* turn of an inner loop first does what is due on arriving at the screen  *)
(* (the head of the loop, steered by the flags printed, startGame and      *)
(* paused) and then blocks in driver_receive.  What arrives is a mask of   *)
(* interrupts: the kernel merges the ones raised since the last receive,   *)
(* so that a timer tick and a key can come in one notification, and the    *)
(* handler serves them in the order of the code.                           *)
(*                                                                         *)
(* A head and a handler are one step each.  In the menus the mouse bytes   *)
(* are abstracted to what a completed packet does: redraw the screen and,  *)
(* if the button is down over an entry, choose it.                         *)
(*                                                                         *)
(* proj/src/main.c has no action for the Esc key, no way back to MAIN and  *)
(* no receive in M_GAME; neither has this module.                          *)
(***************************************************************************)
EXTENDS VideoGr, Keyboard

CONSTANTS
  TickPeriod,  \* interrupts of the timer per move of the cycles      [5]
  Hours,       \* values the RTC may show at startup, in BCD
  ScanCodes,   \* bytes the keyboard may send
  Statuses,    \* values of the status register seen by kbc_ih
  PauseText,   \* pixels of the pause picture that are not black
  ClearedPixels\* what the memset of a new round clears, (24 + 7) bits for
               \* each pixel of the screen                       [620000]

ASSUME LoopAssumption ==
  /\ TickPeriod \in Nat \ {0}
  /\ Hours \subseteq Nat
  /\ ScanCodes \subseteq 0 .. 255
  /\ Statuses \subseteq KbcStatus
  /\ PauseText \subseteq Screen
  /\ ClearedPixels \in Nat

Menus == {"MAIN", "GOONE", "GOTWO"}
ScreenStates == Menus \cup {"S_GAME", "M_GAME", "PAUSE", "QUIT"}

VARIABLES
  screenState,    \* which screen the program is in
  loop,           \* "head" of an inner loop, or in driver_"receive"
  printed, startGame, paused,  \* the flags of proj_main_loop
  hour,           \* read once, before the loop
  nextMove,       \* last movement key, of either player
  scanCode,       \* last byte accepted from the keyboard
  totalInterrupts,\* modulo TickPeriod, all the program asks of it
  arena,          \* video_mem, bluePlayer and orangePlayer
  saveGameScreen, \* what PAUSE put aside
  shown,          \* the picture that video_mem was last filled with
  proc            \* "running", "exited" or "killed" by a fault

VARIABLES  \* history, never read by the program
  crashed,        \* cycles whose square was occupied, in this round
  freshMove       \* nextMove was set in this round

program == <<screenState, loop, printed, startGame, paused, hour, nextMove,
             scanCode, totalInterrupts, arena, saveGameScreen, shown, proc>>
history == <<crashed, freshMove>>
vars == <<program, history>>

-----------------------------------------------------------------------------
(* The pictures, as load_images leaves them: gameOver1 is assigned twice,  *)
(* gameOver2 never.                                                        *)
Uninit == "uninitialised"
imgs == [main |-> "MainScreen", pause |-> "PauseScreen",
         gameOver1 |-> "GOPTwoWins", gameOver2 |-> Uninit]
Pictures == {"MainScreen", "PauseScreen", "GOPOneWins", "GOPTwoWins",
             "garbage", "game"}

\* Their pixels.  One menu is as good as another for what is drawn over it.
MenuPicture == [i \in Screen |-> White]
PausePicture == [i \in Screen |-> IF i \in PauseText THEN White ELSE Black]

\* What malloc returns: no colour, so that restoring it would show
Undefined == -1

(* Drawing the picture of a menu.  The fields of an uninitialised         *)
(* xpm_image_t are whatever the stack holds: something is drawn, or        *)
(* nothing, or the process dies of a fault.                                *)
DrawPicture(img) ==
  \/ /\ shown' = IF img = Uninit THEN "garbage" ELSE img
     /\ arena' = [arena EXCEPT !.vram = draw_img(@, MenuPicture)]
     /\ UNCHANGED proc
  \/ img = Uninit /\ shown' = "garbage" /\ UNCHANGED <<arena, proc>>
  \/ img = Uninit /\ proc' = "killed" /\ UNCHANGED <<arena, shown>>

-----------------------------------------------------------------------------
Init ==
  /\ screenState = "MAIN" /\ loop = "head"
  /\ printed = FALSE /\ startGame = FALSE /\ paused = FALSE
  /\ hour \in Hours
  /\ nextMove = [dir |-> "UNCHANGED", playerColor |-> "BLUE"]
  /\ scanCode = 0 /\ totalInterrupts = 0
  /\ arena = [vram |-> [i \in Memory |-> Black],
              pos |-> [p \in Players |->
                         [x |-> 0, y |-> 0, currentDirection |-> "UP"]]]
  /\ saveGameScreen = [i \in Screen |-> Undefined]
  /\ shown = "garbage" /\ proc = "running"
  /\ crashed = {} /\ freshMove = FALSE

AtHead(states) == proc = "running" /\ loop = "head" /\ screenState \in states
Receiving(states) ==
  proc = "running" /\ loop = "receive" /\ screenState \in states

-----------------------------------------------------------------------------
(* Heads of the inner loops *)

PictureOf(s) == CASE s = "MAIN" -> imgs.main
                  [] s = "GOONE" -> imgs.gameOver1
                  [] OTHER -> imgs.gameOver2

MenuHead ==
  /\ AtHead(Menus)
  /\ loop' = "receive"
  /\ IF printed
       THEN UNCHANGED <<printed, startGame, arena, shown, proc>>
       ELSE /\ printed' = TRUE /\ startGame' = FALSE
            /\ DrawPicture(PictureOf(screenState))
  /\ UNCHANGED <<screenState, paused, hour, nextMove, scanCode,
                 totalInterrupts, saveGameScreen, history>>

PauseHead ==
  /\ AtHead({"PAUSE"})
  /\ loop' = "receive"
  /\ IF printed
       THEN UNCHANGED <<printed, paused, arena, saveGameScreen, shown>>
       ELSE /\ saveGameScreen' = [i \in Screen |-> arena.vram[i]]
            /\ printed' = TRUE /\ paused' = TRUE
            /\ arena' = [arena EXCEPT !.vram = draw_img(@, PausePicture)]
            /\ shown' = imgs.pause
  /\ UNCHANGED <<screenState, startGame, hour, nextMove, scanCode,
                 totalInterrupts, proc, history>>

\* A new round: the memset, start_game and the flags
BeginRound(a) == IF startGame THEN a ELSE start_game(hour)
\* mutants: the screen is copied back always, or never
RestoreAlways(a) == [a EXCEPT !.vram = draw_img(@, saveGameScreen)]
RestoreNever(a) == a

\* Back from the pause: the saved screen is copied over the pause picture
Restore(a) ==
  IF paused THEN [a EXCEPT !.vram = draw_img(@, saveGameScreen)] ELSE a

\* mutant: printed stays set when a round begins or goes on
PrintedKept == [startGame |-> TRUE, paused |-> FALSE, printed |-> printed]

\* The flags that the head of S_GAME leaves
RoundFlags == [startGame |-> TRUE, paused |-> FALSE,
               printed |-> printed /\ startGame /\ ~paused]

GameHead ==
  /\ AtHead({"S_GAME"})
  /\ loop' = "receive"
  /\ arena' = Restore(BeginRound(arena))
  /\ startGame' = RoundFlags.startGame /\ paused' = RoundFlags.paused
  /\ printed' = RoundFlags.printed
  /\ shown' = IF startGame /\ ~paused THEN shown ELSE "game"
  /\ IF startGame
       THEN UNCHANGED history
       ELSE crashed' = {} /\ freshMove' = FALSE
  /\ UNCHANGED <<screenState, hour, nextMove, scanCode, totalInterrupts,
                 saveGameScreen, proc>>

\* The loop of the serial mode never receives: it spins on its head.
SerialHead ==
  /\ AtHead({"M_GAME"})
  /\ arena' = BeginRound(arena)
  /\ startGame' = TRUE
  /\ printed' = (printed /\ startGame)
  /\ shown' = IF startGame THEN shown ELSE "game"
  /\ IF startGame
       THEN UNCHANGED history
       ELSE crashed' = {} /\ freshMove' = FALSE
  /\ UNCHANGED <<screenState, loop, paused, hour, nextMove, scanCode,
                 totalInterrupts, saveGameScreen, proc>>

\* The memset of a new round runs past the mapping.  What lies there is not
\* the program's to know: the process may survive it, as above, or not.
ClearFaults ==
  /\ AtHead({"S_GAME", "M_GAME"}) /\ ~startGame
  /\ ClearedPixels > MappedPixels
  /\ proc' = "killed"
  /\ UNCHANGED <<screenState, loop, printed, startGame, paused, hour, nextMove,
                 scanCode, totalInterrupts, arena, saveGameScreen, shown,
                 history>>

\* Leaving the outer loop: back to text mode, interrupts unsubscribed
Exit ==
  /\ AtHead({"QUIT"})
  /\ proc' = "exited"
  /\ UNCHANGED <<screenState, loop, printed, startGame, paused, hour, nextMove,
                 scanCode, totalInterrupts, arena, saveGameScreen, shown,
                 history>>

-----------------------------------------------------------------------------
(* Handlers of the notifications *)

\* driver_receive fails, or brings nothing this screen listens to, or a
\* mouse byte that does not complete a packet
NothingToDo ==
  /\ Receiving(ScreenStates)
  /\ loop' = "head"
  /\ UNCHANGED <<screenState, printed, startGame, paused, hour, nextMove,
                 scanCode, totalInterrupts, arena, saveGameScreen, shown, proc,
                 history>>

\* The picture that a packet redraws under the cursor
RedrawnIn(s) == IF s = "MAIN" THEN imgs.main ELSE imgs.gameOver2

\* The third byte of a packet.  The entry under the cursor is taken if the
\* left button is down: the screen stays otherwise.
MousePacket(choice) ==
  /\ Receiving(Menus)
  /\ loop' = "head"
  /\ DrawPicture(RedrawnIn(screenState))
  /\ screenState' = IF proc' = "running" /\ choice # "none"
                      THEN choice ELSE screenState
  /\ UNCHANGED <<printed, startGame, paused, hour, nextMove, scanCode,
                 totalInterrupts, saveGameScreen, history>>

(***************************************************************************)
(* The handlers of S_GAME and PAUSE work on the globals in g, the fields   *)
(* of which are the variables they are named after; dead: a fault has      *)
(* killed the process.                                                     *)
(***************************************************************************)
Globals ==
  [screenState |-> screenState, nextMove |-> nextMove, scanCode |-> scanCode,
   arena |-> arena, totalInterrupts |-> totalInterrupts, crashed |-> crashed,
   freshMove |-> freshMove, dead |-> FALSE]

(* Line 250: the tick is counted, every TickPeriod of them move the cycles *)
TimerInterrupt(g) ==
  LET ticks == (g.totalInterrupts + 1) % TickPeriod
      moved == passive_move_players(g.arena)
      counted == [g EXCEPT !.totalInterrupts = ticks]
  IN  IF ticks # 0 THEN counted
      ELSE [counted EXCEPT
              !.arena = moved.arena,
              !.dead = moved.fault,
              !.screenState = CASE moved.code = 1 -> "GOTWO"
                                [] moved.code = 2 -> "GOONE"
                                [] OTHER -> @,
              !.crashed = CASE moved.code = 1 -> @ \cup {"BLUE"}
                            [] moved.code = 2 -> @ \cup {"ORANGE"}
                            [] OTHER -> @]

(* Lines 217 and 262: kbc_ih, then the last movement key is applied again, *)
(* whatever key this interrupt was about                                   *)
KeyboardInterrupt(g, status, temp) ==
  LET k == kbc_ih([screenState |-> g.screenState, nextMove |-> g.nextMove,
                   scanCode |-> g.scanCode], status, temp)
      moved == move_player(g.arena, k.nextMove, FALSE)
      heard == [g EXCEPT !.screenState = k.screenState,
                         !.nextMove = k.nextMove,
                         !.scanCode = k.scanCode,
                         !.freshMove = @ \/ (Accepted(status)
                                             /\ temp \in MoveKeys)]
  IN  IF k.nextMove.dir = "UNCHANGED" THEN heard
      ELSE [heard EXCEPT
              !.arena = moved.arena,
              !.dead = moved.fault,
              !.screenState = IF moved.code = 1 THEN "QUIT" ELSE @,
              !.crashed = IF moved.code = 1
                            THEN @ \cup {k.nextMove.playerColor} ELSE @]

Commit(g) ==
  /\ loop' = "head"
  /\ screenState' = g.screenState
  /\ nextMove' = g.nextMove /\ scanCode' = g.scanCode
  /\ totalInterrupts' = g.totalInterrupts
  /\ arena' = g.arena
  /\ proc' = IF g.dead THEN "killed" ELSE "running"
  /\ crashed' = g.crashed /\ freshMove' = g.freshMove
  /\ UNCHANGED <<printed, startGame, paused, hour, saveGameScreen, shown>>

GameTimer ==
  /\ Receiving({"S_GAME"})
  /\ Commit(TimerInterrupt(Globals))

GameKeyboard(status, temp) ==
  /\ Receiving({"S_GAME"})
  /\ Commit(KeyboardInterrupt(Globals, status, temp))

\* Both bits in one notification: the timer is served first.
GameTimerAndKeyboard(status, temp) ==
  /\ Receiving({"S_GAME"})
  /\ LET g == TimerInterrupt(Globals)
     IN  Commit(IF g.dead THEN g ELSE KeyboardInterrupt(g, status, temp))

\* PAUSE listens to the keyboard only, and handles it as S_GAME does.
PauseKeyboard(status, temp) ==
  /\ Receiving({"PAUSE"})
  /\ Commit(KeyboardInterrupt(Globals, status, temp))

-----------------------------------------------------------------------------
Head == MenuHead \/ PauseHead \/ GameHead \/ SerialHead \/ ClearFaults \/ Exit

TimerStep ==
  \/ GameTimer
  \/ \E status \in Statuses, temp \in ScanCodes :
       GameTimerAndKeyboard(status, temp)

Next ==
  \/ Head
  \/ NothingToDo
  \/ \E choice \in {"none", "S_GAME", "M_GAME", "QUIT"} : MousePacket(choice)
  \/ TimerStep
  \/ \E status \in Statuses, temp \in ScanCodes :
       GameKeyboard(status, temp) \/ PauseKeyboard(status, temp)

Spec == Init /\ [][Next]_vars

(***************************************************************************)
(* The process is scheduled, and the timer never falls silent: a tick      *)
(* raised while the process is busy stays pending and is delivered by the  *)
(* next receive, alone or with what else has arrived.  TimerStep is        *)
(* enabled exactly in the receive of S_GAME, so that the second conjunct   *)
(* is strong fairness of TimerStep.                                        *)
(***************************************************************************)
Ticking == []<>Receiving({"S_GAME"}) => []<><<TimerStep>>_vars
Fairness == WF_vars(Head) /\ Ticking
FairSpec == Spec /\ Fairness

-----------------------------------------------------------------------------
(* Properties *)

\* Every variable has its type.  In particular the frame buffer only ever
\* holds colours: memory that was never written is not shown.
TypeOK ==
  /\ screenState \in ScreenStates
  /\ loop \in {"head", "receive"}
  /\ printed \in BOOLEAN /\ startGame \in BOOLEAN /\ paused \in BOOLEAN
  /\ hour \in Hours
  /\ nextMove \in MovementInfo
  /\ scanCode \in 0 .. 255
  /\ totalInterrupts \in 0 .. (TickPeriod - 1)
  /\ arena \in Arena
  /\ saveGameScreen \in [Screen -> Colors \cup {Undefined}]
  /\ shown \in Pictures
  /\ proc \in {"running", "exited", "killed"}
  /\ crashed \in SUBSET Players
  /\ freshMove \in BOOLEAN

(***************************************************************************)
(* The protocol of the three flags, screen by screen: whenever a screen is *)
(* about to wait for input it has been drawn, a menu has put the last      *)
(* round away, a game has been dealt and is not under the pause picture,   *)
(* and the pause has saved the screen of a dealt round.                    *)
(***************************************************************************)
FlagProtocol ==
  /\ paused => screenState \in {"PAUSE", "S_GAME", "QUIT"} /\ startGame
  /\ screenState \in Menus /\ printed => ~startGame
  /\ screenState \in Menus /\ loop = "receive" => printed /\ ~startGame
  /\ screenState = "PAUSE" => startGame /\ printed = paused
  /\ screenState = "PAUSE" /\ loop = "receive" => printed
  /\ screenState = "S_GAME" /\ startGame => printed = paused
  /\ screenState = "S_GAME" /\ loop = "receive" => startGame /\ ~paused

\* The main menu, a round and the pause each wait for input under their own
\* picture: none of them is entered, left or returned to without being drawn
\* (main.c:87-89, 204-208, 230-242).
ShownMatchesScreen ==
  loop = "receive" =>
    /\ screenState = "S_GAME" => shown = "game"
    /\ screenState = "PAUSE" => shown = "PauseScreen"
    /\ screenState = "MAIN" => shown = "MainScreen"

\* nextMove is applied again on every keyboard interrupt (main.c:219, 264).
\* Within a round that is harmless: the last movement key of the round names
\* the direction its cycle already has, or the one it refuses to take.
RepeatedMoveIsIgnored ==
  screenState \in {"S_GAME", "PAUSE"} /\ freshMove /\ proc = "running" =>
    Ignored(arena.pos[nextMove.playerColor].currentDirection, nextMove.dir,
            FALSE)

\* A round that is not interrupted comes to an end: each move lights a pixel
\* that was dark, or is a crash (main.c:250-260, video_gr.c:120).
RoundEnds == screenState = "S_GAME" ~> screenState # "S_GAME" \/ proc # "running"

\* The round is dealt, painted, paused, resumed and put away as Session
\* promises.  Its picture is in video_mem, or put aside while the pause
\* picture is on the screen.
BlankPicture(c) == [i \in Screen |-> c]
RoundPicture ==
  IF ~startGame THEN BlankPicture(Black)
  ELSE IF paused THEN saveGameScreen
  ELSE [i \in Screen |-> arena.vram[i]]

Sess == INSTANCE Session WITH
          Pixels <- Screen, NoPicture <- BlankPicture(Black),
          BlankPictures <- {BlankPicture(Black), BlankPicture(White)},
          Inks <- {COLOR_BLUE, COLOR_ORANGE},
          screen <- screenState, dealt <- startGame, picture <- RoundPicture

ImplementsSession == Sess!Spec
=============================================================================
