-------------------------------- MODULE Match --------------------------------
(***************************************************************************)
(* One round after another as proj/src/video_gr.c plays them in video_mem, *)
(* without the screens around it: start_game, passive_move_players on a    *)
(* tick, move_player on a movement key.                                    *)
(*                                                                         *)
(* The code looks at one pixel, the top left one of the square it is about *)
(* to paint.  That this is enough, and finds exactly the collisions of the *)
(* game on a grid of cells (LightCycle), rests on the cycles starting on   *)
(* the grid and on the map, advancing by the side of their square, and the *)
(* background being black.  It holds until a cycle leaves the map.         *)
(***************************************************************************)
EXTENDS VideoGr

ASSUME GridAssumption ==
  /\ MOVEMENT_STEP = SIZE_FRONT_END
  /\ HRes % SIZE_FRONT_END = 0 /\ VRes % SIZE_FRONT_END = 0
  /\ (HRes \div 2) % SIZE_FRONT_END = 0 /\ (VRes \div 2) % SIZE_FRONT_END = 0
  /\ StartGap % SIZE_FRONT_END = 0
  /\ HRes <= U16 - SIZE_FRONT_END /\ VRes <= U16 - SIZE_FRONT_END
  /\ HRes \div 2 + StartGap + SIZE_FRONT_END <= HRes
  /\ VRes \div 2 + SIZE_FRONT_END <= VRes

CONSTANT Hours  \* values the RTC may show, in BCD

ASSUME HoursAssumption == Hours \subseteq Nat

VARIABLES
  arena,  \* video_mem, bluePlayer and orangePlayer
  phase   \* "idle", "play", the player found to have crashed, or "stray"

vars == <<arena, phase>>

\* Static variables are zero, and so is video_mem
Init ==
  /\ arena = [vram |-> [i \in Memory |-> Black],
              pos |-> [p \in Players |->
                         [x |-> 0, y |-> 0, currentDirection |-> "UP"]]]
  /\ phase = "idle"

\* The verdict on what move_player or passive_move_players has done
Verdict(moved, loser) ==
  IF moved.fault \/ \E p \in Players : ~OnMap(moved.arena.pos[p]) THEN "stray"
  ELSE IF moved.code # 0 THEN loser ELSE "play"

\* S_GAME is entered: memset and start_game
Start ==
  /\ phase # "play" /\ phase' = "play"
  /\ \E hour \in Hours : arena' = start_game(hour)

\* The timer: code 1 means blue, code 2 orange
Tick ==
  LET moved == passive_move_players(arena)
  IN  /\ phase = "play"
      /\ arena' = moved.arena
      /\ phase' = Verdict(moved,
                   IF moved.code = 1 THEN "BLUE" ELSE "ORANGE")

\* The keyboard: a movement key of player p
Turn(p, d) ==
  LET moved == move_player(arena, [dir |-> d, playerColor |-> p], FALSE)
  IN  /\ phase = "play"
      /\ arena' = moved.arena
      /\ phase' = Verdict(moved, p)

Next == Start \/ Tick \/ \E p \in Players, d \in Dirs : Turn(p, d)

Spec == Init /\ [][Next]_vars

-----------------------------------------------------------------------------
TypeOK ==
  /\ arena \in Arena
  /\ phase \in {"idle", "play", "stray"} \cup Players

\* On the map, all pixels of a cell have one colour and the cycles stand on
\* cells: the pixel that vg_draw_rectangle tests speaks for the square it is
\* about to paint (video_gr.c:120).
Aligned(q) == q.x % SIZE_FRONT_END = 0 /\ q.y % SIZE_FRONT_END = 0
Origins == {q \in (0 .. (HRes - 1)) \X (0 .. (VRes - 1)) :
              q[1] % SIZE_FRONT_END = 0 /\ q[2] % SIZE_FRONT_END = 0}

BlocksAreUniform ==
  phase = "play" =>
    /\ \A p \in Players : Aligned(arena.pos[p])
    /\ \A q \in Origins : \A i \in Square(q[1], q[2]) :
         arena.vram[i] = find_color(arena.vram, q[1], q[2])

\* By day, what the code paints and finds is the game on the grid: a cycle
\* is found to have crashed exactly when it enters a cell that a cycle has
\* entered before in this round (video_gr.c:118-127, 203-259).
Cell(q) == <<q.x \div SIZE_FRONT_END, q.y \div SIZE_FRONT_END>>

Grid == INSTANCE LightCycle WITH
          Cols <- HRes \div SIZE_FRONT_END, Rows <- VRes \div SIZE_FRONT_END,
          StartCell <- [p \in Players |-> Cell(StartPosition[p])],
          StartHeading <- [p \in Players |-> StartPosition[p].currentDirection],
          head <- [p \in Players |-> Cell(arena.pos[p])],
          heading <- [p \in Players |-> arena.pos[p].currentDirection],
          wall <- {<<q[1] \div SIZE_FRONT_END, q[2] \div SIZE_FRONT_END>> :
                     q \in {o \in Origins :
                              find_color(arena.vram, o[1], o[2]) # Black}},
          phase <- phase

PlaysLightCycle == Grid!Spec
=============================================================================
