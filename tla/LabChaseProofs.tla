---------------------------- MODULE LabChaseProofs ----------------------------
(***************************************************************************)
(* Proofs about LabChase, for every screen, word width, keyboard and clock *)
(* that satisfy the assumptions.  The inductive invariant is               *)
(*   TypeOK /\ FlagProtocol /\ SavedIsPicture /\ RepeatIgnored             *)
(* and, for what is on the screen, ShownOnWay on top of it.                *)
(* TypeOK alone is not inductive, because the copy of saveGameScreen to    *)
(* video_mem is only harmless after something has been saved there.        *)
(***************************************************************************)
EXTENDS LabChase, VideoGrProofs

\* What is restored has been saved: malloc's bytes never reach the screen.
SavedIsPicture == paused => saveGameScreen \in [Screen -> Colors]

\* RepeatedMoveIsIgnored on every screen, not only while a round is played
RepeatIgnored ==
  freshMove /\ proc = "running" =>
    Ignored(arena.pos[nextMove.playerColor].currentDirection, nextMove.dir,
            FALSE)

IInv == TypeOK /\ FlagProtocol /\ SavedIsPicture /\ RepeatIgnored

-----------------------------------------------------------------------------
(* The handlers as functions on the globals *)

GlobalsType ==
  [screenState : ScreenStates, nextMove : MovementInfo, scanCode : 0 .. 255,
   arena : Arena, totalInterrupts : 0 .. (TickPeriod - 1),
   crashed : SUBSET Players, freshMove : BOOLEAN, dead : BOOLEAN]

\* RepeatIgnored of the globals a handler works on
Repeats(g) ==
  g.freshMove =>
    Ignored(g.arena.pos[g.nextMove.playerColor].currentDirection,
            g.nextMove.dir, FALSE)

LEMMA GlobalsInType == TypeOK => Globals \in GlobalsType
BY DEF TypeOK, Globals, GlobalsType

\* A tick turns no cycle, adds only ink, and stays in the game or ends it.
LEMMA TimerInterruptType ==
  ASSUME NEW g \in GlobalsType
  PROVE  LET h == TimerInterrupt(g)
         IN  /\ h \in GlobalsType
             /\ h.screenState \in {g.screenState, "GOONE", "GOTWO"}
             /\ OnlyInk(g.arena.vram, h.arena.vram)
             /\ Repeats(g) => Repeats(h)
<1> DEFINE h == TimerInterrupt(g)
           moved == passive_move_players(g.arena)
           ticks == (g.totalInterrupts + 1) % TickPeriod
           screen == CASE moved.code = 1 -> "GOTWO"
                       [] moved.code = 2 -> "GOONE"
                       [] OTHER -> g.screenState
           lost == CASE moved.code = 1 -> g.crashed \cup {"BLUE"}
                     [] moved.code = 2 -> g.crashed \cup {"ORANGE"}
                     [] OTHER -> g.crashed
<1> SUFFICES /\ h \in GlobalsType
             /\ h.screenState \in {g.screenState, "GOONE", "GOTWO"}
             /\ OnlyInk(g.arena.vram, h.arena.vram)
             /\ Repeats(g) => Repeats(h)
  OBVIOUS
<1>0. /\ g.arena \in Arena /\ g.totalInterrupts \in 0 .. (TickPeriod - 1)
      /\ g.screenState \in ScreenStates /\ g.crashed \in SUBSET Players
      /\ g.nextMove \in MovementInfo /\ g.freshMove \in BOOLEAN
      /\ g.scanCode \in 0 .. 255 /\ g.dead \in BOOLEAN
  BY DEF GlobalsType
<1>1. ticks \in 0 .. (TickPeriod - 1)
  BY <1>0, LoopAssumption
<1>2. /\ moved.arena \in Arena /\ moved.fault \in BOOLEAN
      /\ OnlyInk(g.arena.vram, moved.arena.vram)
      /\ \A p \in Players : moved.arena.pos[p].currentDirection
                              = g.arena.pos[p].currentDirection
  BY <1>0, PassiveType
<1>3. screen \in {g.screenState, "GOONE", "GOTWO"} /\ screen \in ScreenStates
  BY <1>0 DEF ScreenStates, Menus
<1>4. lost \in SUBSET Players
  BY <1>0 DEF Players
<1>5. CASE ticks # 0
  <2>1. h = [g EXCEPT !.totalInterrupts = ticks]
    BY <1>5 DEF TimerInterrupt
  <2> HIDE DEF h, ticks
  <2>2. h = [screenState |-> g.screenState, nextMove |-> g.nextMove,
             scanCode |-> g.scanCode, arena |-> g.arena,
             totalInterrupts |-> ticks, crashed |-> g.crashed,
             freshMove |-> g.freshMove, dead |-> g.dead]
    BY <2>1 DEF GlobalsType
  <2>3. h \in GlobalsType
    BY <1>0, <1>1, <2>2 DEF GlobalsType
  <2> QED
    BY <2>2, <2>3 DEF OnlyInk, Repeats
<1>6. CASE ticks = 0
  <2>1. h = [g EXCEPT !.totalInterrupts = ticks, !.arena = moved.arena,
                      !.dead = moved.fault, !.screenState = screen,
                      !.crashed = lost]
    BY <1>6 DEF TimerInterrupt, GlobalsType
  <2> HIDE DEF h, ticks, moved, screen, lost
  <2>2. h = [screenState |-> screen, nextMove |-> g.nextMove,
             scanCode |-> g.scanCode, arena |-> moved.arena,
             totalInterrupts |-> ticks, crashed |-> lost,
             freshMove |-> g.freshMove, dead |-> moved.fault]
    BY <2>1 DEF GlobalsType
  <2>3. h \in GlobalsType
    BY <1>0, <1>1, <1>2, <1>3, <1>4, <2>2 DEF GlobalsType
  <2>4. Repeats(g) => Repeats(h)
    <3>1. g.nextMove.playerColor \in Players
      BY <1>0 DEF MovementInfo
    <3> QED
      BY <1>2, <2>2, <3>1 DEF Repeats
  <2> QED
    BY <1>2, <1>3, <2>2, <2>3, <2>4
<1> QED
  BY <1>5, <1>6

\* kbc_ih changes the screen only by toggling the pause, and a movement key
\* that is accepted becomes the next move.
LEMMA KbcIhType ==
  ASSUME NEW s \in ScreenStates, NEW m \in MovementInfo, NEW c \in 0 .. 255,
         NEW status, NEW temp \in 0 .. 255
  PROVE  LET k == kbc_ih([screenState |-> s, nextMove |-> m, scanCode |-> c],
                         status, temp)
         IN  /\ k.screenState \in {s, TogglePause(s)}
             /\ k.screenState \in ScreenStates
             /\ k.nextMove \in MovementInfo
             /\ k.scanCode \in 0 .. 255
             /\ k.nextMove = m \/ (k.nextMove.dir \in Dirs
                                   /\ Accepted(status) /\ temp \in MoveKeys)
             /\ Accepted(status) /\ temp \in MoveKeys => k.nextMove.dir \in Dirs
<1>1. KeyMove(temp) \in MovementInfo /\ KeyMove(temp).dir \in Dirs
  BY DEF KeyMove, MovementInfo, Dirs, Players
<1>2. TogglePause(s) \in ScreenStates
  BY DEF TogglePause, ScreenStates
<1> QED
  BY <1>1, <1>2 DEF kbc_ih

\* A key toggles the pause or leaves the program, adds only ink, and leaves
\* behind a next move that would be ignored if it were made again.
LEMMA KeyboardInterruptType ==
  ASSUME NEW g \in GlobalsType, NEW status, NEW temp \in 0 .. 255
  PROVE  LET h == KeyboardInterrupt(g, status, temp)
         IN  /\ h \in GlobalsType
             /\ h.screenState \in {g.screenState, TogglePause(g.screenState), "QUIT"}
             /\ OnlyInk(g.arena.vram, h.arena.vram)
             /\ Repeats(g) /\ ~h.dead => Repeats(h)
<1> DEFINE h == KeyboardInterrupt(g, status, temp)
           k == kbc_ih([screenState |-> g.screenState, nextMove |-> g.nextMove,
                        scanCode |-> g.scanCode], status, temp)
           moved == move_player(g.arena, k.nextMove, FALSE)
           fresh == g.freshMove \/ (Accepted(status) /\ temp \in MoveKeys)
           screen == IF moved.code = 1 THEN "QUIT" ELSE k.screenState
           lost == IF moved.code = 1 THEN g.crashed \cup {k.nextMove.playerColor}
                                     ELSE g.crashed
           p == k.nextMove.playerColor
<1> SUFFICES /\ h \in GlobalsType
             /\ h.screenState \in {g.screenState, TogglePause(g.screenState), "QUIT"}
             /\ OnlyInk(g.arena.vram, h.arena.vram)
             /\ Repeats(g) /\ ~h.dead => Repeats(h)
  OBVIOUS
<1>0. /\ g.arena \in Arena /\ g.totalInterrupts \in 0 .. (TickPeriod - 1)
      /\ g.screenState \in ScreenStates /\ g.crashed \in SUBSET Players
      /\ g.nextMove \in MovementInfo /\ g.freshMove \in BOOLEAN
      /\ g.scanCode \in 0 .. 255 /\ g.dead \in BOOLEAN
  BY DEF GlobalsType
<1>1. /\ k.screenState \in {g.screenState, TogglePause(g.screenState)}
      /\ k.screenState \in ScreenStates
      /\ k.nextMove \in MovementInfo
      /\ k.scanCode \in 0 .. 255
      /\ k.nextMove = g.nextMove \/ (k.nextMove.dir \in Dirs
                                     /\ Accepted(status) /\ temp \in MoveKeys)
      /\ Accepted(status) /\ temp \in MoveKeys => k.nextMove.dir \in Dirs
  BY <1>0, KbcIhType
<1>2. p \in Players
  BY <1>1 DEF MovementInfo
<1>3. fresh \in BOOLEAN
  BY <1>0
<1>4. CASE k.nextMove.dir = "UNCHANGED"
  <2>1. h = [g EXCEPT !.screenState = k.screenState, !.nextMove = k.nextMove,
                      !.scanCode = k.scanCode, !.freshMove = fresh]
    BY <1>4 DEF KeyboardInterrupt, GlobalsType
  <2>2. ~(Accepted(status) /\ temp \in MoveKeys) /\ k.nextMove = g.nextMove
    BY <1>1, <1>4 DEF Dirs
  <2>3. fresh = g.freshMove
    BY <1>0, <2>2
  <2> HIDE DEF h, k, fresh
  <2>4. h = [screenState |-> k.screenState, nextMove |-> k.nextMove,
             scanCode |-> k.scanCode, arena |-> g.arena,
             totalInterrupts |-> g.totalInterrupts, crashed |-> g.crashed,
             freshMove |-> fresh, dead |-> g.dead]
    BY <2>1 DEF GlobalsType
  <2>5. h \in GlobalsType
    BY <1>0, <1>1, <1>3, <2>4 DEF GlobalsType
  <2> QED
    BY <1>1, <2>2, <2>3, <2>4, <2>5 DEF OnlyInk, Repeats
<1>5. CASE k.nextMove.dir # "UNCHANGED"
  <2>1. h = [g EXCEPT !.screenState = screen, !.nextMove = k.nextMove,
                      !.scanCode = k.scanCode, !.freshMove = fresh,
                      !.arena = moved.arena, !.dead = moved.fault,
                      !.crashed = lost]
    BY <1>5 DEF KeyboardInterrupt, GlobalsType
  <2>2. FALSE \in BOOLEAN
    OBVIOUS
  <2>3. /\ moved.arena \in Arena /\ moved.code \in {0, 1}
        /\ moved.fault \in BOOLEAN
        /\ OnlyInk(g.arena.vram, moved.arena.vram)
    <3> HIDE DEF k
    <3> QED BY <1>0, <1>1, TurnType
  <2>4. ~moved.fault =>
          Ignored(moved.arena.pos[p].currentDirection, k.nextMove.dir, FALSE)
    <3>1. k.nextMove.dir \in Dirs
      BY <1>1, <1>5 DEF MovementInfo
    <3> HIDE DEF k
    <3> QED BY <1>0, <1>1, <3>1, TurnType
  <2>5. screen \in {g.screenState, TogglePause(g.screenState), "QUIT"}
        /\ screen \in ScreenStates
    BY <1>1 DEF ScreenStates
  <2>6. lost \in SUBSET Players
    BY <1>0, <1>2
  <2> HIDE DEF h, k, fresh, moved, screen, lost
  <2>7. h = [screenState |-> screen, nextMove |-> k.nextMove,
             scanCode |-> k.scanCode, arena |-> moved.arena,
             totalInterrupts |-> g.totalInterrupts, crashed |-> lost,
             freshMove |-> fresh, dead |-> moved.fault]
    BY <2>1 DEF GlobalsType
  <2>8. h \in GlobalsType
    BY <1>0, <1>1, <1>3, <2>3, <2>5, <2>6, <2>7 DEF GlobalsType
  <2> QED
    BY <2>3, <2>4, <2>5, <2>7, <2>8 DEF Repeats
<1> QED
  BY <1>4, <1>5

-----------------------------------------------------------------------------
(* The invariant *)

LEMMA PicturesAreColors ==
  /\ MenuPicture \in [Screen -> Colors]
  /\ PausePicture \in [Screen -> Colors]
BY DEF MenuPicture, PausePicture, Colors

\* Drawing a menu leaves an arena in which the cycles stand where they stood.
LEMMA DrawPictureType ==
  ASSUME TypeOK, NEW img \in Pictures \cup {Uninit}, DrawPicture(img)
  PROVE  /\ arena' \in Arena /\ arena'.pos = arena.pos
         /\ shown' \in Pictures
         /\ proc' \in {proc, "killed"}
<1>1. arena.vram \in [Memory -> Colors] /\ arena \in Arena
  BY DEF TypeOK, Arena
<1>2. /\ [arena EXCEPT !.vram = draw_img(arena.vram, MenuPicture)] \in Arena
      /\ [arena EXCEPT !.vram = draw_img(arena.vram, MenuPicture)].pos = arena.pos
  BY <1>1, PicturesAreColors, DrawImgType DEF Arena
<1> QED
  BY <1>1, <1>2 DEF DrawPicture, Pictures, TypeOK

LEMMA InitInv == Init => IInv
<1> SUFFICES ASSUME Init PROVE IInv
  OBVIOUS
<1>1. [vram |-> [i \in Memory |-> Black],
       pos |-> [p \in Players |->
                  [x |-> 0, y |-> 0, currentDirection |-> "UP"]]] \in Arena
  BY ScreenAssumption
     DEF Arena, Colors, PlayerPosition, Word, Dirs
<1>2. saveGameScreen \in [Screen -> Colors \cup {Undefined}]
  BY DEF Init
<1>3. arena \in Arena
  BY <1>1 DEF Init
<1>4. nextMove \in MovementInfo
  BY DEF Init, MovementInfo, Players
<1>5. totalInterrupts \in 0 .. (TickPeriod - 1) /\ scanCode \in 0 .. 255
  BY LoopAssumption DEF Init
<1>6. TypeOK
  BY <1>2, <1>3, <1>4, <1>5 DEF Init, TypeOK, ScreenStates, Menus, Pictures
<1> QED
  BY <1>6 DEF Init, IInv, FlagProtocol, SavedIsPicture, RepeatIgnored, Menus

\* Whatever a handler of the game or of the pause leaves behind
LEMMA CommitInv ==
  ASSUME IInv, NEW g \in GlobalsType, Commit(g),
         startGame, printed = paused,
         paused => g.screenState \in {"PAUSE", "S_GAME", "QUIT"},
         ~g.dead => Repeats(g)
  PROVE  IInv'
<1>1. TypeOK'
  BY DEF IInv, TypeOK, Commit, GlobalsType
<1>2. FlagProtocol'
  BY DEF IInv, TypeOK, FlagProtocol, Commit, Menus
<1>3. SavedIsPicture'
  BY DEF IInv, SavedIsPicture, Commit
<1>4. RepeatIgnored'
  BY DEF RepeatIgnored, Commit, Repeats
<1> QED
  BY <1>1, <1>2, <1>3, <1>4 DEF IInv

LEMMA MenuHeadInv == IInv /\ MenuHead => IInv'
<1> SUFFICES ASSUME IInv, MenuHead PROVE IInv'
  OBVIOUS
<1>1. CASE printed
  <2>1. TypeOK'
    BY <1>1 DEF IInv, MenuHead, TypeOK, history
  <2>2. FlagProtocol'
    BY <1>1 DEF IInv, MenuHead, AtHead, TypeOK, FlagProtocol, history, Menus
  <2>3. SavedIsPicture' /\ RepeatIgnored'
    BY <1>1 DEF IInv, MenuHead, SavedIsPicture, RepeatIgnored, history
  <2> QED
    BY <2>1, <2>2, <2>3 DEF IInv
<1>2. CASE ~printed
  <2>1. PictureOf(screenState) \in Pictures \cup {Uninit}
    BY DEF PictureOf, imgs, Pictures
  <2>2. /\ arena' \in Arena /\ arena'.pos = arena.pos
        /\ shown' \in Pictures /\ proc' \in {proc, "killed"}
    BY <1>2, <2>1, DrawPictureType DEF MenuHead, IInv
  <2>3. TypeOK'
    BY <1>2, <2>2 DEF IInv, MenuHead, TypeOK, history
  <2>4. FlagProtocol'
    BY <1>2 DEF IInv, MenuHead, AtHead, TypeOK, FlagProtocol, history, Menus
  <2>5. SavedIsPicture' /\ RepeatIgnored'
    BY <1>2, <2>2 DEF IInv, TypeOK, MenuHead, AtHead, SavedIsPicture,
                      RepeatIgnored, history
  <2> QED
    BY <2>3, <2>4, <2>5 DEF IInv
<1> QED
  BY <1>1, <1>2

LEMMA PauseHeadInv == IInv /\ PauseHead => IInv'
<1> SUFFICES ASSUME IInv, PauseHead PROVE IInv'
  OBVIOUS
<1>0. arena \in Arena /\ arena.vram \in [Memory -> Colors]
  BY DEF IInv, TypeOK, Arena
<1>1. [i \in Screen |-> arena.vram[i]] \in [Screen -> Colors]
  BY <1>0, ScreenInMemory
<1>2. /\ [arena EXCEPT !.vram = draw_img(arena.vram, PausePicture)] \in Arena
      /\ [arena EXCEPT !.vram = draw_img(arena.vram, PausePicture)].pos = arena.pos
  BY <1>0, PicturesAreColors, DrawImgType DEF Arena
<1>3. arena' \in Arena /\ arena'.pos = arena.pos
  BY <1>0, <1>2 DEF PauseHead
<1>4. saveGameScreen' \in [Screen -> Colors \cup {Undefined}]
  BY <1>1 DEF PauseHead, IInv, TypeOK
<1>5. TypeOK'
  BY <1>3, <1>4 DEF IInv, PauseHead, TypeOK, history, imgs, Pictures
<1>6. FlagProtocol'
  BY DEF IInv, PauseHead, AtHead, TypeOK, FlagProtocol, Menus
<1>7. SavedIsPicture'
  BY <1>1 DEF IInv, PauseHead, SavedIsPicture
<1>8. RepeatIgnored'
  BY <1>3 DEF IInv, PauseHead, RepeatIgnored, history
<1> QED
  BY <1>5, <1>6, <1>7, <1>8 DEF IInv

\* A new round, if one is due
LEMMA BeginRoundType ==
  ASSUME TypeOK
  PROVE  /\ BeginRound(arena) \in Arena
         /\ startGame => BeginRound(arena) = arena
BY StartGameType, LoopAssumption DEF BeginRound, TypeOK

LEMMA GameHeadInv == IInv /\ GameHead => IInv'
<1> SUFFICES ASSUME IInv, GameHead PROVE IInv'
  OBVIOUS
<1> DEFINE a == BeginRound(arena)
<1>1. a \in Arena /\ (startGame => a = arena)
  BY BeginRoundType DEF IInv
<1>2. Restore(a) \in Arena /\ Restore(a).pos = a.pos
  <2> HIDE DEF a
  <2>1. CASE paused
    <3>1. saveGameScreen \in [Screen -> Colors]
      BY <2>1 DEF IInv, SavedIsPicture
    <3>2. a.vram \in [Memory -> Colors]
      BY <1>1 DEF Arena
    <3>3. draw_img(a.vram, saveGameScreen) \in [Memory -> Colors]
      BY <3>1, <3>2, DrawImgType
    <3> QED
      BY <1>1, <2>1, <3>3 DEF Restore, Arena
  <2>2. CASE ~paused
    BY <1>1, <2>2 DEF Restore
  <2> QED
    BY <2>1, <2>2
<1>3. arena' \in Arena /\ (startGame => arena'.pos = arena.pos)
  BY <1>1, <1>2 DEF GameHead
<1>4. TypeOK'
  BY <1>3 DEF IInv, GameHead, RoundFlags, TypeOK, history, Pictures
<1>5. FlagProtocol'
  BY DEF IInv, GameHead, RoundFlags, AtHead, TypeOK, FlagProtocol, Menus
<1>6. SavedIsPicture'
  BY DEF GameHead, RoundFlags, SavedIsPicture
<1>7. RepeatIgnored'
  BY <1>3 DEF IInv, GameHead, RepeatIgnored, history
<1> QED
  BY <1>4, <1>5, <1>6, <1>7 DEF IInv

LEMMA SerialHeadInv == IInv /\ SerialHead => IInv'
<1> SUFFICES ASSUME IInv, SerialHead PROVE IInv'
  OBVIOUS
<1>1. arena' \in Arena /\ (startGame => arena' = arena)
  BY BeginRoundType DEF IInv, SerialHead
<1>2. TypeOK'
  BY <1>1 DEF IInv, SerialHead, TypeOK, history, Pictures
<1>3. FlagProtocol'
  BY DEF IInv, SerialHead, AtHead, TypeOK, FlagProtocol, Menus
<1>4. SavedIsPicture'
  BY DEF IInv, SerialHead, SavedIsPicture
<1>5. RepeatIgnored'
  BY <1>1 DEF IInv, SerialHead, RepeatIgnored, history
<1> QED
  BY <1>2, <1>3, <1>4, <1>5 DEF IInv

LEMMA MousePacketInv ==
  ASSUME IInv, NEW choice \in {"none", "S_GAME", "M_GAME", "QUIT"},
         MousePacket(choice)
  PROVE  IInv'
<1>1. RedrawnIn(screenState) \in Pictures \cup {Uninit}
  BY DEF RedrawnIn, imgs, Pictures
<1>2. /\ arena' \in Arena /\ arena'.pos = arena.pos
      /\ shown' \in Pictures /\ proc' \in {proc, "killed"}
  BY <1>1, DrawPictureType DEF MousePacket, IInv
<1>3. TypeOK'
  BY <1>2 DEF IInv, MousePacket, TypeOK, history, ScreenStates
<1>4. FlagProtocol'
  BY DEF IInv, MousePacket, Receiving, TypeOK, FlagProtocol, Menus
<1>5. SavedIsPicture'
  BY DEF IInv, MousePacket, SavedIsPicture
<1>6. RepeatIgnored'
  BY <1>2 DEF IInv, MousePacket, Receiving, RepeatIgnored, history
<1> QED
  BY <1>3, <1>4, <1>5, <1>6 DEF IInv

\* A key in the game, alone or after a tick in the same notification
LEMMA GameHandlersInv ==
  ASSUME IInv, NEW status \in Statuses, NEW temp \in ScanCodes,
         GameKeyboard(status, temp) \/ GameTimerAndKeyboard(status, temp)
  PROVE  IInv'
<1> DEFINE t == TimerInterrupt(Globals)
           k == KeyboardInterrupt(Globals, status, temp)
           tk == KeyboardInterrupt(t, status, temp)
<1>0. temp \in 0 .. 255
  BY LoopAssumption
<1>1. startGame /\ printed = paused /\ ~paused
  BY DEF IInv, FlagProtocol, GameKeyboard, GameTimerAndKeyboard,
         Receiving
<1>2. Globals \in GlobalsType
  BY GlobalsInType DEF IInv
<1>3. Repeats(Globals)
  BY DEF IInv, RepeatIgnored, Repeats, Globals, GameKeyboard,
         GameTimerAndKeyboard, Receiving
<1>4. t \in GlobalsType /\ Repeats(t)
  BY <1>2, <1>3, TimerInterruptType
<1>5. k \in GlobalsType /\ (~k.dead => Repeats(k))
  BY <1>0, <1>2, <1>3, KeyboardInterruptType
<1>6. tk \in GlobalsType /\ (~tk.dead => Repeats(tk))
  <2> HIDE DEF t
  <2> QED BY <1>0, <1>4, KeyboardInterruptType
<1>7. (t.dead /\ Commit(t)) \/ Commit(k) \/ Commit(tk)
  BY DEF GameKeyboard, GameTimerAndKeyboard
<1> QED
  <2> HIDE DEF t, k, tk
  <2> QED BY <1>1, <1>4, <1>5, <1>6, <1>7, CommitInv

LEMMA TickAloneInv == IInv /\ GameTimer => IInv'
<1> SUFFICES ASSUME IInv, GameTimer PROVE IInv'
  OBVIOUS
<1> DEFINE t == TimerInterrupt(Globals)
<1>1. startGame /\ printed = paused /\ ~paused
  BY DEF IInv, FlagProtocol, GameTimer, Receiving
<1>2. Globals \in GlobalsType
  BY GlobalsInType DEF IInv
<1>3. Repeats(Globals)
  BY DEF IInv, RepeatIgnored, Repeats, Globals, GameTimer, Receiving
<1>4. t \in GlobalsType /\ Repeats(t)
  BY <1>2, <1>3, TimerInterruptType
<1>5. Commit(t)
  BY DEF GameTimer
<1> QED
  <2> HIDE DEF t
  <2> QED BY <1>1, <1>4, <1>5, CommitInv

LEMMA PauseKeyboardInv ==
  ASSUME IInv, NEW status \in Statuses, NEW temp \in ScanCodes,
         PauseKeyboard(status, temp)
  PROVE  IInv'
<1> DEFINE k == KeyboardInterrupt(Globals, status, temp)
<1>0. temp \in 0 .. 255
  BY LoopAssumption
<1>1. startGame /\ printed = paused
  BY DEF IInv, FlagProtocol, PauseKeyboard, Receiving
<1>2. Globals \in GlobalsType /\ Globals.screenState = "PAUSE"
  BY GlobalsInType DEF IInv, Globals, PauseKeyboard, Receiving
<1>3. Repeats(Globals)
  BY DEF IInv, RepeatIgnored, Repeats, Globals, PauseKeyboard, Receiving
<1>4. /\ k \in GlobalsType /\ (~k.dead => Repeats(k))
      /\ k.screenState \in {"PAUSE", TogglePause("PAUSE"), "QUIT"}
  BY <1>0, <1>2, <1>3, KeyboardInterruptType
<1>5. k.screenState \in {"PAUSE", "S_GAME", "QUIT"}
  BY <1>4 DEF TogglePause
<1>6. Commit(k)
  BY DEF PauseKeyboard
<1> QED
  <2> HIDE DEF k
  <2> QED BY <1>1, <1>4, <1>5, <1>6, CommitInv

\* Steps that only move between the head of a loop and the receive, or end
\* the process
LEMMA IdleInv == IInv /\ (NothingToDo \/ ClearFaults \/ Exit) => IInv'
<1> SUFFICES ASSUME IInv, NothingToDo \/ ClearFaults \/ Exit PROVE IInv'
  OBVIOUS
<1>1. TypeOK'
  BY DEF IInv, TypeOK, NothingToDo, ClearFaults, Exit, history
<1>2. FlagProtocol'
  BY DEF IInv, FlagProtocol, NothingToDo, ClearFaults, Exit, AtHead,
         Receiving, Menus
<1>3. SavedIsPicture'
  BY DEF IInv, SavedIsPicture, NothingToDo, ClearFaults, Exit
<1>4. RepeatIgnored'
  <2>1. CASE NothingToDo
    BY <2>1 DEF IInv, RepeatIgnored, NothingToDo, history
  <2>2. CASE ClearFaults \/ Exit
    BY <2>2 DEF RepeatIgnored, ClearFaults, Exit
  <2> QED
    BY <2>1, <2>2
<1> QED
  BY <1>1, <1>2, <1>3, <1>4 DEF IInv

LEMMA NextInv == IInv /\ [Next]_vars => IInv'
<1> SUFFICES ASSUME IInv, [Next]_vars PROVE IInv'
  OBVIOUS
<1>1. CASE Head
  BY <1>1, MenuHeadInv, PauseHeadInv, GameHeadInv, SerialHeadInv, IdleInv
     DEF Head
<1>2. CASE NothingToDo
  BY <1>2, IdleInv
<1>3. CASE \E choice \in {"none", "S_GAME", "M_GAME", "QUIT"} :
             MousePacket(choice)
  BY <1>3, MousePacketInv
<1>4. CASE GameTimer
  BY <1>4, TickAloneInv
<1>5. CASE \E status \in Statuses, temp \in ScanCodes :
             GameTimerAndKeyboard(status, temp) \/ GameKeyboard(status, temp)
  BY <1>5, GameHandlersInv
<1>6. CASE \E status \in Statuses, temp \in ScanCodes :
             PauseKeyboard(status, temp)
  BY <1>6, PauseKeyboardInv
<1>7. CASE UNCHANGED vars
  BY <1>7 DEF IInv, TypeOK, FlagProtocol, SavedIsPicture, RepeatIgnored, vars,
              program, history
<1> QED
  BY <1>1, <1>2, <1>3, <1>4, <1>5, <1>6, <1>7 DEF Next, TimerStep

-----------------------------------------------------------------------------
(* Theorems *)

\* Every variable keeps its type; in particular nothing but colours reaches
\* the screen, although saveGameScreen starts out as what malloc returned.
THEOREM TypeCorrect == Spec => []TypeOK
<1>1. Spec => []IInv
  BY InitInv, NextInv, PTL DEF Spec
<1>2. IInv => TypeOK
  BY DEF IInv
<1> QED
  BY <1>1, <1>2, PTL

\* The flags printed, startGame and paused of proj_main_loop follow their
\* protocol on every screen, whatever the order of ticks, keys and packets.
THEOREM FlagsCorrect == Spec => []FlagProtocol
<1>1. Spec => []IInv
  BY InitInv, NextInv, PTL DEF Spec
<1>2. IInv => FlagProtocol
  BY DEF IInv
<1> QED
  BY <1>1, <1>2, PTL

\* Within a round, applying nextMove again on a later keyboard interrupt
\* (main.c:219, 264) does nothing.
THEOREM RepeatCorrect == Spec => []RepeatedMoveIsIgnored
<1>1. Spec => []IInv
  BY InitInv, NextInv, PTL DEF Spec
<1>2. IInv => RepeatedMoveIsIgnored
  BY DEF IInv, RepeatIgnored, RepeatedMoveIsIgnored
<1> QED
  BY <1>1, <1>2, PTL

-----------------------------------------------------------------------------
(* LabChase implements Session *)

\* The pixels of the round, when they are in video_mem
OnScreen(a) == [i \in Screen |-> a.vram[i]]

LEMMA RoundPictureCases ==
  /\ ~startGame => RoundPicture = BlankPicture(Black)
  /\ startGame /\ paused => RoundPicture = saveGameScreen
  /\ startGame /\ ~paused => RoundPicture = OnScreen(arena)
BY DEF RoundPicture, OnScreen

LEMMA RoundPictureNext ==
  /\ ~startGame' => RoundPicture' = BlankPicture(Black)
  /\ startGame' /\ paused' => RoundPicture' = saveGameScreen'
  /\ startGame' /\ ~paused' => RoundPicture' = OnScreen(arena)'
BY DEF RoundPicture, OnScreen, BlankPicture

LEMMA InitSession == Init => Sess!Init
BY RoundPictureCases DEF Init, Sess!Init

LEMMA MenuHeadSession ==
  ASSUME IInv, MenuHead
  PROVE  Sess!PutAway \/ UNCHANGED Sess!vars
<1>1. CASE startGame
  <2>1. ~printed /\ startGame' = FALSE /\ screenState' = screenState
    BY <1>1 DEF IInv, TypeOK, FlagProtocol, MenuHead, AtHead
  <2> QED
    BY <1>1, <2>1, RoundPictureNext
       DEF MenuHead, AtHead, Sess!PutAway, Sess!Menus, Menus
<1>2. CASE ~startGame
  <2>1. startGame' = startGame /\ screenState' = screenState
    BY <1>2 DEF IInv, TypeOK, MenuHead
  <2> QED
    BY <1>2, <2>1, RoundPictureCases, RoundPictureNext DEF Sess!vars
<1> QED
  BY <1>1, <1>2

\* Putting the round aside does not change it.
LEMMA PauseHeadSession ==
  ASSUME IInv, PauseHead
  PROVE  UNCHANGED Sess!vars
<1>1. startGame /\ startGame' = startGame /\ screenState' = screenState
  BY DEF IInv, FlagProtocol, PauseHead, AtHead
<1>2. CASE printed
  BY <1>1, <1>2 DEF PauseHead, RoundPicture, Sess!vars
<1>3. CASE ~printed
  <2>1. ~paused /\ paused' /\ saveGameScreen' = OnScreen(arena)
    BY <1>3 DEF IInv, TypeOK, FlagProtocol, PauseHead, AtHead, OnScreen
  <2> QED
    BY <1>1, <2>1, RoundPictureCases, RoundPictureNext DEF Sess!vars
<1> QED
  BY <1>2, <1>3

\* A new round starts on a blank picture.
LEMMA NewRoundBlank ==
  ASSUME TypeOK, ~startGame
  PROVE  OnScreen(BeginRound(arena)) \in {BlankPicture(Black), BlankPicture(White)}
<1>1. hour \in Nat
  BY LoopAssumption DEF TypeOK
<1>2. /\ \A i \in Screen : BeginRound(arena).vram[i] = Background(hour)
      /\ Background(hour) \in {Black, White}
  BY <1>1, StartGameType DEF BeginRound
<1>3. OnScreen(BeginRound(arena)) = BlankPicture(Background(hour))
  BY <1>2 DEF OnScreen, BlankPicture
<1> QED
  BY <1>2, <1>3

LEMMA GameHeadSession ==
  ASSUME IInv, GameHead
  PROVE  Sess!Deal \/ UNCHANGED Sess!vars
<1>0. startGame' /\ ~paused' /\ screenState' = screenState /\ screenState = "S_GAME"
  BY DEF GameHead, RoundFlags, AtHead
<1>1. CASE ~startGame
  <2>1. ~paused
    BY <1>1 DEF IInv, FlagProtocol
  <2>2. arena' = BeginRound(arena)
    BY <2>1 DEF GameHead, Restore
  <2>3. RoundPicture' \in {BlankPicture(Black), BlankPicture(White)}
    BY <1>0, <1>1, <2>2, RoundPictureNext, NewRoundBlank DEF IInv, OnScreen
  <2> QED
    BY <1>0, <1>1, <2>3 DEF Sess!Deal, GameHead, RoundFlags
<1>2. CASE startGame /\ paused
  <2>1. saveGameScreen \in [Screen -> Colors] /\ arena.vram \in [Memory -> Colors]
    BY <1>2 DEF IInv, TypeOK, SavedIsPicture, Arena
  <2>2. arena' = [arena EXCEPT !.vram = draw_img(arena.vram, saveGameScreen)]
    BY <1>2 DEF GameHead, Restore, BeginRound
  <2>3. arena'.vram = draw_img(arena.vram, saveGameScreen)
    BY <2>2 DEF IInv, TypeOK, Arena
  <2>4. \A i \in Screen : arena'.vram[i] = saveGameScreen[i]
    BY <2>1, <2>3, DrawImgType
  <2>5. OnScreen(arena)' = saveGameScreen
    BY <2>1, <2>4 DEF OnScreen
  <2> QED
    BY <1>0, <1>2, <2>5, RoundPictureCases, RoundPictureNext
       DEF Sess!vars, GameHead, RoundFlags, IInv, TypeOK
<1>3. CASE startGame /\ ~paused
  <2>1. arena' = arena
    BY <1>3 DEF GameHead, Restore, BeginRound
  <2> QED
    BY <1>0, <1>3, <2>1, RoundPictureCases, RoundPictureNext
       DEF Sess!vars, GameHead, RoundFlags, OnScreen, IInv, TypeOK
<1> QED
  BY <1>1, <1>2, <1>3

LEMMA SerialHeadSession ==
  ASSUME IInv, SerialHead
  PROVE  Sess!Deal \/ UNCHANGED Sess!vars
<1>0. /\ startGame' /\ paused' = paused /\ screenState' = screenState
      /\ screenState = "M_GAME" /\ arena' = BeginRound(arena)
      /\ saveGameScreen' = saveGameScreen
  BY DEF SerialHead, AtHead
<1>1. CASE ~startGame
  <2>1. ~paused
    BY <1>1 DEF IInv, FlagProtocol
  <2>2. RoundPicture' \in {BlankPicture(Black), BlankPicture(White)}
    BY <1>0, <1>1, <2>1, RoundPictureNext, NewRoundBlank DEF IInv, OnScreen
  <2> QED
    BY <1>0, <1>1, <2>2 DEF Sess!Deal, SerialHead
<1>2. CASE startGame
  <2>1. arena' = arena /\ startGame' = startGame
    BY <1>2 DEF SerialHead, BeginRound, IInv, TypeOK
  <2> QED
    BY <1>0, <2>1 DEF Sess!vars, RoundPicture
<1> QED
  BY <1>1, <1>2

LEMMA MousePacketSession ==
  ASSUME IInv, NEW choice \in {"none", "S_GAME", "M_GAME", "QUIT"},
         MousePacket(choice)
  PROVE  Sess!Choose \/ UNCHANGED Sess!vars
<1>1. ~startGame /\ startGame' = startGame /\ screenState \in Menus
  BY DEF IInv, FlagProtocol, MousePacket, Receiving
<1>2. screenState' \in {screenState, "S_GAME", "M_GAME", "QUIT"}
  BY DEF MousePacket
<1>3. RoundPicture' = RoundPicture
  BY <1>1, RoundPictureCases, RoundPictureNext
<1> QED
  BY <1>1, <1>2, <1>3 DEF Sess!Choose, Sess!Menus, Sess!vars, Menus

\* A handler of the game that adds only ink to the round
LEMMA CommitSession ==
  ASSUME IInv, NEW g, Commit(g), startGame, ~paused, screenState = "S_GAME",
         g.screenState \in {"S_GAME", "PAUSE", "GOONE", "GOTWO", "QUIT"},
         OnlyInk(arena.vram, g.arena.vram)
  PROVE  Sess!Play
<1>1. startGame' = startGame /\ paused' = paused /\ arena' = g.arena
      /\ screenState' = g.screenState
  BY DEF Commit
<1>2. RoundPicture = OnScreen(arena) /\ RoundPicture' = OnScreen(arena')
  BY <1>1, RoundPictureCases, RoundPictureNext DEF OnScreen
<1>3. \A i \in Screen : \/ RoundPicture'[i] = RoundPicture[i]
                        \/ RoundPicture'[i] \in {COLOR_BLUE, COLOR_ORANGE}
  BY <1>1, <1>2, ScreenInMemory DEF OnScreen, OnlyInk
<1> QED
  BY <1>1, <1>3 DEF Sess!Play, Sess!OnlyGainsPaint

LEMMA TickSession ==
  ASSUME IInv, GameTimer
  PROVE  Sess!Play
<1> DEFINE t == TimerInterrupt(Globals)
<1>1. startGame /\ ~paused /\ screenState = "S_GAME"
  BY DEF IInv, FlagProtocol, GameTimer, Receiving
<1>2. Globals \in GlobalsType /\ Globals.arena = arena
      /\ Globals.screenState = screenState
  BY GlobalsInType DEF IInv, Globals
<1>3. t.screenState \in {"S_GAME", "GOONE", "GOTWO"}
      /\ OnlyInk(arena.vram, t.arena.vram)
  BY <1>1, <1>2, TimerInterruptType
<1>4. Commit(t)
  BY DEF GameTimer
<1> QED
  <2> HIDE DEF t
  <2> QED BY <1>1, <1>3, <1>4, CommitSession

LEMMA KeySession ==
  ASSUME IInv, NEW status \in Statuses, NEW temp \in ScanCodes,
         GameKeyboard(status, temp) \/ GameTimerAndKeyboard(status, temp)
  PROVE  Sess!Play
<1> DEFINE t == TimerInterrupt(Globals)
           k == KeyboardInterrupt(Globals, status, temp)
           tk == KeyboardInterrupt(t, status, temp)
           Ends == {"S_GAME", "PAUSE", "GOONE", "GOTWO", "QUIT"}
<1>0. temp \in 0 .. 255
  BY LoopAssumption
<1>1. startGame /\ ~paused /\ screenState = "S_GAME"
  BY DEF IInv, FlagProtocol, GameKeyboard, GameTimerAndKeyboard, Receiving
<1>2. Globals \in GlobalsType /\ Globals.arena = arena
      /\ Globals.screenState = screenState
  BY GlobalsInType DEF IInv, Globals
<1>3. /\ t \in GlobalsType /\ t.screenState \in {"S_GAME", "GOONE", "GOTWO"}
      /\ OnlyInk(arena.vram, t.arena.vram)
  BY <1>1, <1>2, TimerInterruptType
<1>4. k.screenState \in Ends /\ OnlyInk(arena.vram, k.arena.vram)
  <2>1. /\ k.screenState \in {screenState, TogglePause(screenState), "QUIT"}
        /\ OnlyInk(arena.vram, k.arena.vram)
    BY <1>0, <1>2, KeyboardInterruptType
  <2> QED
    BY <1>1, <2>1 DEF TogglePause
<1>5. tk.screenState \in Ends /\ OnlyInk(arena.vram, tk.arena.vram)
  <2> HIDE DEF t
  <2>1. /\ tk.screenState \in {t.screenState, TogglePause(t.screenState), "QUIT"}
        /\ OnlyInk(t.arena.vram, tk.arena.vram)
    BY <1>0, <1>3, KeyboardInterruptType
  <2>2. tk.screenState \in Ends
    BY <1>3, <2>1 DEF TogglePause
  <2>3. OnlyInk(arena.vram, tk.arena.vram)
    BY <1>3, <2>1 DEF OnlyInk
  <2> QED
    BY <2>2, <2>3
<1>6. Commit(t) \/ Commit(k) \/ Commit(tk)
  BY DEF GameKeyboard, GameTimerAndKeyboard
<1> QED
  <2> HIDE DEF t, k, tk
  <2> QED BY <1>1, <1>3, <1>4, <1>5, <1>6, CommitSession

\* What the keyboard does to the pause picture does not touch the round.
LEMMA PauseKeyboardSession ==
  ASSUME IInv, NEW status \in Statuses, NEW temp \in ScanCodes,
         PauseKeyboard(status, temp)
  PROVE  Sess!Paused \/ UNCHANGED Sess!vars
<1> DEFINE k == KeyboardInterrupt(Globals, status, temp)
<1>0. temp \in 0 .. 255
  BY LoopAssumption
<1>1. startGame /\ paused /\ screenState = "PAUSE"
  BY DEF IInv, FlagProtocol, PauseKeyboard, Receiving
<1>2. Globals \in GlobalsType /\ Globals.screenState = "PAUSE"
  BY <1>1, GlobalsInType DEF IInv, Globals
<1>3. k.screenState \in {"PAUSE", TogglePause("PAUSE"), "QUIT"}
  BY <1>0, <1>2, KeyboardInterruptType
<1>4. k.screenState \in {"PAUSE", "S_GAME", "QUIT"}
  BY <1>3 DEF TogglePause
<1>5. Commit(k)
  BY DEF PauseKeyboard
<1>6. /\ screenState' \in {"PAUSE", "S_GAME", "QUIT"}
      /\ startGame' = startGame /\ paused' = paused
      /\ saveGameScreen' = saveGameScreen
  <2> HIDE DEF k
  <2> QED BY <1>4, <1>5 DEF Commit
<1>7. RoundPicture' = RoundPicture
  BY <1>1, <1>6, RoundPictureCases, RoundPictureNext
<1> QED
  BY <1>1, <1>6, <1>7 DEF Sess!Paused, Sess!vars

LEMMA NextSession == IInv /\ [Next]_vars => [Sess!Next]_Sess!vars
<1> SUFFICES ASSUME IInv, [Next]_vars PROVE Sess!Next \/ UNCHANGED Sess!vars
  BY DEF Sess!vars
<1>1. CASE MenuHead
  BY <1>1, MenuHeadSession DEF Sess!Next
<1>2. CASE PauseHead
  BY <1>2, PauseHeadSession
<1>3. CASE GameHead
  BY <1>3, GameHeadSession DEF Sess!Next
<1>4. CASE SerialHead
  BY <1>4, SerialHeadSession DEF Sess!Next
<1>5. CASE ClearFaults \/ Exit \/ NothingToDo \/ UNCHANGED vars
  <2>1. UNCHANGED <<screenState, startGame, paused, arena, saveGameScreen>>
    BY <1>5 DEF ClearFaults, Exit, NothingToDo, vars, program
  <2> QED
    BY <2>1 DEF Sess!vars, RoundPicture
<1>6. CASE \E choice \in {"none", "S_GAME", "M_GAME", "QUIT"} :
             MousePacket(choice)
  BY <1>6, MousePacketSession DEF Sess!Next
<1>7. CASE TimerStep
  BY <1>7, TickSession, KeySession DEF TimerStep, Sess!Next
<1>8. CASE \E status \in Statuses, temp \in ScanCodes :
             GameKeyboard(status, temp) \/ PauseKeyboard(status, temp)
  BY <1>8, KeySession, PauseKeyboardSession DEF Sess!Next
<1> QED
  BY <1>1, <1>2, <1>3, <1>4, <1>5, <1>6, <1>7, <1>8 DEF Next, Head

\* The screens keep the promises of Session, for every screen and keyboard:
\* one deal per choice, a round that only gains paint, and a pause that
\* returns the round as it was.
THEOREM SessionImplemented == Spec => ImplementsSession
<1>1. Spec => []IInv
  BY InitInv, NextInv, PTL DEF Spec
<1> QED
  BY <1>1, InitSession, NextSession, PTL DEF Spec, ImplementsSession, Sess!Spec

-----------------------------------------------------------------------------
(* What is on the screen *)

\* The picture of a dealt round: its own, or that of the pause
RoundOrPause == IF paused THEN "PauseScreen" ELSE "game"

\* ShownMatchesScreen between the receives as well: on the way from the game
\* to the pause and back the flags say which picture is still on the screen.
ShownOnWay ==
  /\ screenState = "S_GAME" /\ startGame => shown = RoundOrPause
  /\ screenState = "PAUSE" => shown = RoundOrPause
  /\ screenState = "MAIN" /\ printed => shown = "MainScreen"

\* A menu puts the last round away, and the main menu is drawn at once.
LEMMA MenuHeadShown == IInv /\ ShownOnWay /\ MenuHead => ShownOnWay'
<1> SUFFICES ASSUME IInv, ShownOnWay, MenuHead PROVE ShownOnWay'
  OBVIOUS
<1>1. screenState \in Menus /\ screenState' = screenState
  BY DEF MenuHead, AtHead
<1>2. screenState = "MAIN" => shown' = "MainScreen"
  <2>1. CASE printed
    BY <2>1 DEF MenuHead, ShownOnWay
  <2>2. CASE ~printed
    BY <2>2 DEF MenuHead, DrawPicture, PictureOf, imgs, Uninit
  <2> QED
    BY <2>1, <2>2
<1> QED
  BY <1>1, <1>2 DEF ShownOnWay, Menus

\* The pause, the game and the serial mode draw what they set the flags for.
LEMMA RoundHeadShown ==
  IInv /\ ShownOnWay /\ (PauseHead \/ GameHead \/ SerialHead) => ShownOnWay'
<1> SUFFICES ASSUME IInv, ShownOnWay, PauseHead \/ GameHead \/ SerialHead
             PROVE  ShownOnWay'
  OBVIOUS
<1>1. CASE PauseHead
  <2>1. screenState = "PAUSE" /\ screenState' = screenState
    BY <1>1 DEF PauseHead, AtHead
  <2>2. shown' = IF paused' THEN "PauseScreen" ELSE "game"
    BY <1>1, <2>1 DEF PauseHead, ShownOnWay, RoundOrPause, imgs
  <2> QED
    BY <2>1, <2>2 DEF ShownOnWay, RoundOrPause
<1>2. CASE GameHead
  <2>1. screenState = "S_GAME" /\ screenState' = screenState
    BY <1>2 DEF GameHead, AtHead
  <2>2. shown' = "game" /\ ~paused'
    BY <1>2, <2>1 DEF GameHead, RoundFlags, ShownOnWay, RoundOrPause
  <2> QED
    BY <2>1, <2>2 DEF ShownOnWay, RoundOrPause
<1>3. CASE SerialHead
  BY <1>3 DEF SerialHead, AtHead, ShownOnWay
<1> QED
  BY <1>1, <1>2, <1>3

\* A packet redraws its menu; the choice it may bring finds no round dealt.
LEMMA MousePacketShown ==
  ASSUME IInv, ShownOnWay, NEW choice \in {"none", "S_GAME", "M_GAME", "QUIT"},
         MousePacket(choice)
  PROVE  ShownOnWay'
<1>1. screenState \in Menus /\ ~startGame /\ startGame' = startGame
  BY DEF IInv, FlagProtocol, MousePacket, Receiving
<1>2. screenState' \in {screenState, "S_GAME", "M_GAME", "QUIT"}
  BY DEF MousePacket
<1>3. screenState = "MAIN" => shown' = "MainScreen"
  BY DEF MousePacket, DrawPicture, RedrawnIn, imgs, Uninit
<1> QED
  BY <1>1, <1>2, <1>3 DEF ShownOnWay, Menus

\* The handlers of the game and the pause leave the picture to the next head.
LEMMA HandlerShown ==
  ASSUME IInv, ShownOnWay, Sess!Play \/ Sess!Paused \/ UNCHANGED Sess!vars,
         screenState \in {"S_GAME", "PAUSE"}, startGame,
         UNCHANGED <<printed, startGame, paused, shown>>
  PROVE  ShownOnWay'
<1>1. screenState' # "MAIN"
  BY DEF Sess!Play, Sess!Paused, Sess!vars
<1> QED
  BY <1>1 DEF ShownOnWay, RoundOrPause

LEMMA InitShown == Init => ShownOnWay
BY DEF Init, ShownOnWay

LEMMA NextShown == IInv /\ ShownOnWay /\ [Next]_vars => ShownOnWay'
<1> SUFFICES ASSUME IInv, ShownOnWay, [Next]_vars PROVE ShownOnWay'
  OBVIOUS
<1>1. CASE MenuHead
  BY <1>1, MenuHeadShown
<1>2. CASE PauseHead \/ GameHead \/ SerialHead
  BY <1>2, RoundHeadShown
<1>3. CASE ClearFaults \/ Exit \/ NothingToDo \/ UNCHANGED vars
  BY <1>3 DEF ClearFaults, Exit, NothingToDo, vars, program, ShownOnWay,
              RoundOrPause
<1>4. CASE \E choice \in {"none", "S_GAME", "M_GAME", "QUIT"} :
             MousePacket(choice)
  BY <1>4, MousePacketShown
<1>5. CASE GameTimer
  <2>1. UNCHANGED <<printed, startGame, paused, shown>>
        /\ screenState = "S_GAME" /\ startGame
    BY <1>5 DEF IInv, FlagProtocol, GameTimer, Receiving, Commit
  <2> QED
    BY <1>5, <2>1, TickSession, HandlerShown
<1>6. ASSUME NEW status \in Statuses, NEW temp \in ScanCodes,
             GameKeyboard(status, temp) \/ GameTimerAndKeyboard(status, temp)
      PROVE  ShownOnWay'
  <2>1. UNCHANGED <<printed, startGame, paused, shown>>
        /\ screenState = "S_GAME" /\ startGame
    BY <1>6 DEF IInv, FlagProtocol, GameKeyboard, GameTimerAndKeyboard,
                Receiving, Commit
  <2> QED
    BY <1>6, <2>1, KeySession, HandlerShown
<1>7. ASSUME NEW status \in Statuses, NEW temp \in ScanCodes,
             PauseKeyboard(status, temp)
      PROVE  ShownOnWay'
  <2>1. UNCHANGED <<printed, startGame, paused, shown>>
        /\ screenState = "PAUSE" /\ startGame
    BY <1>7 DEF IInv, FlagProtocol, PauseKeyboard, Receiving, Commit
  <2> QED
    BY <1>7, <2>1, PauseKeyboardSession, HandlerShown
<1> QED
  BY <1>1, <1>2, <1>3, <1>4, <1>5, <1>6, <1>7 DEF Next, Head, TimerStep

\* The main menu, a round and the pause each wait for input under their own
\* picture (main.c:87-89, 204-208, 230-242), however often the game is paused
\* and whatever ticks, keys and packets come in between.
THEOREM RightPictureShown == Spec => []ShownMatchesScreen
<1>1. Init => IInv /\ ShownOnWay
  BY InitInv, InitShown
<1>2. IInv /\ ShownOnWay /\ [Next]_vars => (IInv /\ ShownOnWay)'
  BY NextInv, NextShown
<1>3. IInv /\ ShownOnWay => ShownMatchesScreen
  BY DEF IInv, TypeOK, FlagProtocol, ShownOnWay, RoundOrPause,
         ShownMatchesScreen, Menus
<1> QED
  BY <1>1, <1>2, <1>3, PTL DEF Spec
=============================================================================
