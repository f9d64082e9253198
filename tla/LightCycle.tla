------------------------------ MODULE LightCycle ------------------------------
(***************************************************************************)
(* The game as its players see it: two cycles on a grid of cells, each     *)
(* leaving a wall behind.  A cycle that enters a cell of the wall loses.   *)
(* Who moves first in a tick is left open.  Nothing is promised of a round *)
(* in which a cycle has left the grid ("stray").                           *)
(***************************************************************************)
EXTENDS Integers

CONSTANTS Cols, Rows, StartCell, StartHeading

Players == {"BLUE", "ORANGE"}
Dirs == {"UP", "DOWN", "LEFT", "RIGHT"}
Grid == (0 .. (Cols - 1)) \X (0 .. (Rows - 1))

VARIABLES
  head,     \* the cell of each cycle
  heading,  \* where it is going
  wall,     \* cells that are lethal
  phase     \* "idle", "play", "stray", or the player that has lost

vars == <<head, heading, wall, phase>>

Other(p) == IF p = "BLUE" THEN "ORANGE" ELSE "BLUE"

Neighbour(c, d) ==
  CASE d = "UP" -> <<c[1], c[2] - 1>>
    [] d = "DOWN" -> <<c[1], c[2] + 1>>
    [] d = "LEFT" -> <<c[1] - 1, c[2]>>
    [] d = "RIGHT" -> <<c[1] + 1, c[2]>>

Reverse(d) == CASE d = "UP" -> "DOWN" [] d = "DOWN" -> "UP"
                [] d = "LEFT" -> "RIGHT" [] d = "RIGHT" -> "LEFT"

\* What is at stake in a round, and one cycle taking one step
Round == [head |-> head, heading |-> heading, wall |-> wall, phase |-> phase]

Step(r, p, d) ==
  LET c == Neighbour(r.head[p], d)
  IN  [head |-> [r.head EXCEPT ![p] = c],
       heading |-> [r.heading EXCEPT ![p] = d],
       wall |-> r.wall \cup {c},
       phase |-> CASE c \notin Grid -> "stray"
                   [] c \in r.wall -> p
                   [] OTHER -> "play"]

\* What the cycle that moves second does depends on how the first one fared.
Both(first) ==
  LET r == Step(Round, first, heading[first])
  IN  IF r.phase = "play" THEN Step(r, Other(first), heading[Other(first)]) ELSE r

\* Once a cycle has left the grid only that fact counts.
Becomes(r) ==
  /\ phase' = r.phase
  /\ r.phase # "stray" => /\ head' = r.head /\ heading' = r.heading
                          /\ wall' = r.wall

\* Where the cycles are before the first round is left open.
Init ==
  /\ phase = "idle" /\ wall = {}
  /\ head \in [Players -> Grid] /\ heading \in [Players -> Dirs]

Start ==
  /\ phase # "play" /\ phase' = "play"
  /\ head' = StartCell /\ heading' = StartHeading /\ wall' = {}

Tick == phase = "play" /\ \E first \in Players : Becomes(Both(first))

\* A turn takes effect at once; going on, or back, is not a turn.
Turn ==
  /\ phase = "play"
  /\ \E p \in Players, d \in Dirs :
       d \notin {heading[p], Reverse(heading[p])} /\ Becomes(Step(Round, p, d))

Next == Start \/ Tick \/ Turn

Spec == Init /\ [][Next]_vars
=============================================================================
