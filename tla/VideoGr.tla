------------------------------- MODULE VideoGr -------------------------------
(***************************************************************************)
(* The game half of proj/src/video_gr.c: the frame buffer, the two light   *)
(* cycles and what moving one of them does to both.                        *)
(*                                                                         *)
(* The functions of the C file read and write three globals (video_mem,    *)
(* bluePlayer, orangePlayer), and one notification handled by the main     *)
(* loop may call several of them in a row.  They are therefore written as  *)
(* operators from an arena record [vram, pos] to the arena they leave      *)
(* behind plus what they return, so that a caller can chain them the way   *)
(* the C code does.  The names are the ones of the source.                 *)
(*                                                                         *)
(* A pixel is addressed as the code does, by y * h_res + x from the start  *)
(* of the mapping: nothing relates a coordinate to the screen, and x and y *)
(* are uint16_t.  The constants are parameters so that TLC can use a small *)
(* screen and a small word; the values of the program are in brackets.     *)
(***************************************************************************)
EXTENDS Integers

CONSTANTS
  HRes,           \* h_res, pixels per line                           [800]
  VRes,           \* v_res, lines                                     [600]
  MOVEMENT_STEP,  \* pixels a cycle advances per move                   [5]
  SIZE_FRONT_END, \* side of the square a cycle paints                  [5]
  StartGap,       \* distance of a starting cycle from the middle     [100]
  U16,            \* values of a uint16_t                           [65536]
  MappedPixels    \* pixels of video_mem that are mapped: the frame buffer
                  \* rounded up to whole pages                     [480597]

ASSUME ScreenAssumption ==
  /\ HRes \in Nat \ {0} /\ VRes \in Nat \ {0} /\ U16 \in Nat \ {0}
  /\ StartGap \in Nat /\ StartGap <= HRes \div 2
  /\ HRes \div 2 + StartGap < U16 /\ VRes \div 2 < U16
  /\ MOVEMENT_STEP \in 1 .. (U16 - 1)
  /\ SIZE_FRONT_END \in Nat \ {0}
  /\ HRes * VRes \in Nat
  /\ MappedPixels \in Nat /\ HRes * VRes <= MappedPixels

Players == {"BLUE", "ORANGE"}
Dirs == {"UP", "DOWN", "LEFT", "RIGHT"}
Word == 0 .. (U16 - 1)

Memory == 0 .. (MappedPixels - 1)   \* what video_mem may be indexed with
Screen == 0 .. (HRes * VRes - 1)    \* the part of it that is displayed

(***************************************************************************)
(* Pixels of mode 0x115 are three bytes wide.  memset(video_mem, 255, ...) *)
(* gives White, which is not 255.                                          *)
(***************************************************************************)
Black == 0
White == 16777215
COLOR_BLUE == 2052607               \* 0x1F51FF
COLOR_ORANGE == 16736031            \* 0xFF5F1F
Colors == {Black, White, COLOR_BLUE, COLOR_ORANGE}

PlayerPosition == [x : Word, y : Word, currentDirection : Dirs]
MovementInfo == [dir : Dirs \cup {"UNCHANGED"}, playerColor : Players]
Arena == [vram : [Memory -> Colors], pos : [Players -> PlayerPosition]]

-----------------------------------------------------------------------------
(* uint16_t arithmetic, modulo U16.  Here and below, a definition that is  *)
(* called a mutant is a plausible mistake in the one that follows it; the  *)
(* runs are repeated with it in place to see that they would notice.       *)

\* mutant: the difference is not reduced
SignedMinus(a, b) == a - b

Plus16(a, b) == IF a + b < U16 THEN a + b ELSE a + b - U16
Minus16(a, b) == IF a >= b THEN a - b ELSE a - b + U16

Index(x, y) == y * HRes + x

find_color(vram, x, y) == vram[Index(x, y)]

\* mutants: trails do not count; only blue's trail counts
NeverObstacle(color) == FALSE
BlueObstacle(color) == color = COLOR_BLUE

\* The test of vg_draw_rectangle on the pixel it finds
IsObstacle(color) == color # 0 /\ color # 255

\* What vg_draw_rectangle paints, line by line and pixel by pixel
Square(x, y) ==
  {Index(Plus16(x, dx), Plus16(y, dy)) :
     dx \in 0 .. (SIZE_FRONT_END - 1), dy \in 0 .. (SIZE_FRONT_END - 1)}

\* An access outside the mapping kills the process before it returns.
Faults(x, y) == ~(Square(x, y) \subseteq Memory)

Paint(vram, pixels, color) ==
  [i \in Memory |-> IF i \in pixels THEN color ELSE vram[i]]

\* mutant: the last line of the square is left out
ShortRectangle(vram, x, y, color) ==
  [vram |-> Paint(vram, {i \in Square(x, y) :
                           i < Index(0, Plus16(y, SIZE_FRONT_END - 1))}, color),
   flag |-> IF IsObstacle(find_color(vram, x, y)) THEN 1 ELSE 0]

vg_draw_rectangle(vram, x, y, color) ==
  [vram |-> Paint(vram, Square(x, y), color),
   flag |-> IF IsObstacle(find_color(vram, x, y)) THEN 1 ELSE 0]

\* A picture as large as the screen, drawn at (0, 0)
draw_img(vram, picture) ==
  [i \in Memory |-> IF i \in Screen THEN picture[i] ELSE vram[i]]

-----------------------------------------------------------------------------
opposite(dir) ==
  CASE dir = "LEFT" -> "RIGHT"
    [] dir = "UP" -> "DOWN"
    [] dir = "DOWN" -> "UP"
    [] dir = "RIGHT" -> "LEFT"
    [] OTHER -> "DOWN"

PlayerColor(p) == IF p = "BLUE" THEN COLOR_BLUE ELSE COLOR_ORANGE

\* Where a cycle at q stands after one step towards dir
Advance(q, dir) ==
  [x |-> CASE dir = "LEFT" -> Minus16(q.x, MOVEMENT_STEP)
           [] dir = "RIGHT" -> Plus16(q.x, MOVEMENT_STEP)
           [] OTHER -> q.x,
   y |-> CASE dir = "UP" -> Minus16(q.y, MOVEMENT_STEP)
           [] dir = "DOWN" -> Plus16(q.y, MOVEMENT_STEP)
           [] OTHER -> q.y,
   currentDirection |-> dir]

\* mutant: a turn to where the cycle already heads is carried out
OnlyReversalIgnored(cur, dir, isPassiveMovement) == dir = opposite(cur)

\* Requests that move_player drops: a turn to where the cycle already
\* heads, and a turn back onto its own trail
Ignored(cur, dir, isPassiveMovement) ==
  \/ ~isPassiveMovement /\ dir = cur
  \/ dir = opposite(cur)

(***************************************************************************)
(* move_player: the arena it leaves, the code it returns, and whether the  *)
(* process died of a fault on the way.  The position is stored even when   *)
(* the square was occupied.                                                *)
(***************************************************************************)
move_player(a, m, isPassiveMovement) ==
  LET p == m.playerColor
      to == Advance(a.pos[p], m.dir)
      drawn == vg_draw_rectangle(a.vram, to.x, to.y, PlayerColor(p))
  IN  IF Ignored(a.pos[p].currentDirection, m.dir, isPassiveMovement)
        THEN [arena |-> a, code |-> 0, fault |-> FALSE]
      ELSE IF m.dir \notin Dirs
        THEN [arena |-> a, code |-> 1, fault |-> FALSE]
      ELSE IF Faults(to.x, to.y)
        THEN [arena |-> a, code |-> 0, fault |-> TRUE]
      ELSE [arena |-> [vram |-> drawn.vram, pos |-> [a.pos EXCEPT ![p] = to]],
            code |-> drawn.flag, fault |-> FALSE]

Onward(a, p) == [dir |-> a.pos[p].currentDirection, playerColor |-> p]

(***************************************************************************)
(* passive_move_players: blue first; if blue hits something orange does    *)
(* not move.  1: blue has crashed, 2: orange has crashed, 0: play on.      *)
(***************************************************************************)
passive_move_players(a) ==
  LET blue == move_player(a, Onward(a, "BLUE"), TRUE)
      orange == move_player(blue.arena, Onward(a, "ORANGE"), TRUE)
  IN  IF blue.fault
        THEN blue
      ELSE IF blue.code # 0
        THEN [blue EXCEPT !.code = 1]
      ELSE IF orange.code # 0
        THEN [orange EXCEPT !.code = 2]
      ELSE orange

\* The first hour, in BCD, at which start_game paints the arena white
FirstWhiteHour == 25                \* 0x19
Background(hour) == IF hour >= FirstWhiteHour THEN White ELSE Black

StartPosition ==
  [p \in Players |->
     IF p = "BLUE"
       THEN [x |-> HRes \div 2 - StartGap, y |-> VRes \div 2,
             currentDirection |-> "RIGHT"]
       ELSE [x |-> HRes \div 2 + StartGap, y |-> VRes \div 2,
             currentDirection |-> "LEFT"]]

\* start_game, after the memset to zero with which the main loop precedes it
start_game(hour) ==
  [vram |-> [i \in Memory |->
               IF i \in Screen THEN Background(hour) ELSE Black],
   pos |-> StartPosition]

\* A cycle is on the map when the square it paints is on the screen
OnMap(q) == q.x + SIZE_FRONT_END <= HRes /\ q.y + SIZE_FRONT_END <= VRes
=============================================================================
