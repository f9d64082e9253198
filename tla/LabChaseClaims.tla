--------------------------- MODULE LabChaseClaims ---------------------------
(***************************************************************************)
(* What README.md says of the game, stated of LabChase.  Each of these is  *)
(* refuted by a run of its own: the program does something else.           *)
(***************************************************************************)
EXTENDS MCLabChase

\* README.md:4 "survive longer than the opposing player by avoiding
\* collisions": once a cycle has crashed its round is not played on.
\* (keyboard.c:56-62 overwrites the verdict of main.c:255 with PAUSE.)
NoPlayAfterCrash ==
  screenState = "S_GAME" /\ startGame => crashed = {}

\* README.md:12 "Detection of collisions with trails, map edges, and other
\* players": on the map, what a tick finds a cycle to have crashed into is a
\* trail, or the other player, who may have moved there in the same tick.
\* (video_gr.c:120 takes the white of the evening for a trail.)
CrashHasCause ==
  [][GameTimer => \A p \in crashed' \ crashed :
       LET q == arena'.pos[p]
           other == CHOOSE o \in Players : o # p
       IN  \/ ~OnMap(q)
           \/ find_color(arena.vram, q.x, q.y) \in {COLOR_BLUE, COLOR_ORANGE}
           \/ Index(q.x, q.y) \in Square(arena'.pos[other].x, arena'.pos[other].y)]_vars

\* README.md:16-20, the movement keys of the players: between ticks only they
\* move a cycle.  (main.c:264 applies the last one of an earlier round when
\* any other key is pressed or released.)
OnlyMovementKeysMove ==
  [][/\ Receiving({"S_GAME"}) /\ ~TimerStep
     /\ scanCode' # scanCode /\ scanCode' \notin MoveKeys
     => arena'.pos = arena.pos]_vars
=============================================================================
