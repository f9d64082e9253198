---------------------------- MODULE VideoGrProofs ----------------------------
(***************************************************************************)
(* Facts about the operators of VideoGr: what moving a cycle returns, what *)
(* it does to the picture, and which direction it leaves the cycles with.  *)
(***************************************************************************)
EXTENDS VideoGr, TLAPS

\* A cycle of the arena stays a cycle: its words do not overflow.
LEMMA AdvanceType ==
  ASSUME NEW q \in PlayerPosition, NEW d \in Dirs
  PROVE  Advance(q, d) \in PlayerPosition
BY ScreenAssumption
   DEF Advance, PlayerPosition, Dirs, Word, Plus16, Minus16

\* Painting with a colour leaves colours.
LEMMA PaintType ==
  ASSUME NEW vram \in [Memory -> Colors], NEW pixels, NEW c \in Colors
  PROVE  Paint(vram, pixels, c) \in [Memory -> Colors]
BY DEF Paint

\* The screen is part of the mapping.
LEMMA ScreenInMemory == Screen \subseteq Memory
BY ScreenAssumption DEF Screen, Memory

\* Covering the screen with a picture leaves colours, and the picture on it.
LEMMA DrawImgType ==
  ASSUME NEW vram \in [Memory -> Colors], NEW picture \in [Screen -> Colors]
  PROVE  /\ draw_img(vram, picture) \in [Memory -> Colors]
         /\ \A i \in Screen : draw_img(vram, picture)[i] = picture[i]
BY ScreenInMemory DEF draw_img

\* start_game deals an arena on a blank picture.
LEMMA StartGameType ==
  ASSUME NEW hour \in Nat
  PROVE  /\ start_game(hour) \in Arena
         /\ \A i \in Screen : start_game(hour).vram[i] = Background(hour)
         /\ Background(hour) \in {Black, White}
<1>1. StartPosition \in [Players -> PlayerPosition]
  BY ScreenAssumption
     DEF StartPosition, Players, PlayerPosition, Word, Dirs
<1>2. Background(hour) \in {Black, White}
  BY DEF Background
<1>3. [i \in Memory |-> IF i \in Screen THEN Background(hour) ELSE Black]
        \in [Memory -> Colors]
  BY <1>2 DEF Colors
<1> QED
  BY <1>1, <1>2, <1>3, ScreenInMemory DEF start_game, Arena

\* Pixels keep their colour or take that of a cycle.
OnlyInk(before, after) ==
  \A i \in Memory : after[i] = before[i] \/ after[i] \in {COLOR_BLUE, COLOR_ORANGE}

\* move_player, case by case: the request is dropped, or the process dies of
\* a fault, or the cycle stands one step further in the direction asked for
\* and its square has been painted.
LEMMA MovePlayerCases ==
  ASSUME NEW a \in Arena, NEW m \in MovementInfo, NEW b \in BOOLEAN
  PROVE  LET p == m.playerColor
             r == move_player(a, m, b)
             to == Advance(a.pos[p], m.dir)
         IN  \/ /\ Ignored(a.pos[p].currentDirection, m.dir, b) \/ m.dir \notin Dirs
                /\ r.arena = a /\ r.code \in {0, 1} /\ r.fault = FALSE
             \/ m.dir \in Dirs /\ r.arena = a /\ r.code = 0 /\ r.fault = TRUE
             \/ /\ m.dir \in Dirs /\ r.code \in {0, 1} /\ r.fault = FALSE
                /\ r.arena = [vram |-> Paint(a.vram, Square(to.x, to.y), PlayerColor(p)),
                              pos |-> [a.pos EXCEPT ![p] = to]]
BY DEF move_player, vg_draw_rectangle

\* What move_player leaves behind is an arena, the code is 0 or 1, only ink
\* has been added, the other cycle stands still, and a cycle whose request
\* was not dropped heads in the direction it asked for.
LEMMA MovePlayerType ==
  ASSUME NEW a \in Arena, NEW m \in MovementInfo, NEW b \in BOOLEAN
  PROVE  LET p == m.playerColor
             r == move_player(a, m, b)
         IN  /\ r.arena \in Arena
             /\ r.code \in {0, 1}
             /\ r.fault \in BOOLEAN
             /\ OnlyInk(a.vram, r.arena.vram)
             /\ \A o \in Players : o # p => r.arena.pos[o] = a.pos[o]
             /\ r.arena = a \/ r.arena.pos[p].currentDirection = m.dir
<1> DEFINE p == m.playerColor
           r == move_player(a, m, b)
           to == Advance(a.pos[p], m.dir)
           painted == Paint(a.vram, Square(to.x, to.y), PlayerColor(p))
<1>0. p \in Players /\ a.pos \in [Players -> PlayerPosition]
      /\ a.vram \in [Memory -> Colors]
  BY DEF Arena, MovementInfo
<1>1. CASE r.arena = a /\ r.code \in {0, 1} /\ r.fault \in BOOLEAN
  BY <1>1 DEF OnlyInk
<1>2. CASE /\ m.dir \in Dirs /\ r.code \in {0, 1} /\ r.fault = FALSE
           /\ r.arena = [vram |-> painted, pos |-> [a.pos EXCEPT ![p] = to]]
  <2>1. to \in PlayerPosition
    BY <1>0, <1>2, AdvanceType
  <2>2. PlayerColor(p) \in {COLOR_BLUE, COLOR_ORANGE}
    BY DEF PlayerColor
  <2>3. painted \in [Memory -> Colors]
    BY <1>0, <2>2, PaintType DEF Colors
  <2>4. OnlyInk(a.vram, painted)
    BY <1>0, <2>2 DEF OnlyInk, Paint
  <2>5. to.currentDirection = m.dir
    BY DEF Advance
  <2>6. [a.pos EXCEPT ![p] = to] \in [Players -> PlayerPosition]
    BY <1>0, <2>1
  <2>7. r.arena \in Arena
    BY <1>2, <2>3, <2>6 DEF Arena
  <2>8. r.arena.vram = painted /\ r.arena.pos = [a.pos EXCEPT ![p] = to]
    BY <1>2
  <2>9. \A o \in Players : o # p => r.arena.pos[o] = a.pos[o]
    BY <1>0, <2>8
  <2>10. r.arena.pos[p].currentDirection = m.dir
    BY <1>0, <2>5, <2>8
  <2> QED
    BY <1>2, <2>4, <2>7, <2>8, <2>9, <2>10
<1> QED
  BY <1>1, <1>2, MovePlayerCases

\* The same of a turn.  A turn that does not fault is one that would be
\* dropped if it were asked for again: the cycle heads there now.
LEMMA TurnType ==
  ASSUME NEW a \in Arena, NEW m \in MovementInfo
  PROVE  LET p == m.playerColor
             r == move_player(a, m, FALSE)
         IN  /\ r.arena \in Arena
             /\ r.code \in {0, 1}
             /\ r.fault \in BOOLEAN
             /\ OnlyInk(a.vram, r.arena.vram)
             /\ m.dir \in Dirs /\ ~r.fault =>
                  Ignored(r.arena.pos[p].currentDirection, m.dir, FALSE)
<1> DEFINE p == m.playerColor
           r == move_player(a, m, FALSE)
<1>1. FALSE \in BOOLEAN
  OBVIOUS
<1>2. /\ r.arena \in Arena
      /\ r.code \in {0, 1}
      /\ r.fault \in BOOLEAN
      /\ OnlyInk(a.vram, r.arena.vram)
      /\ r.arena = a \/ r.arena.pos[p].currentDirection = m.dir
  BY <1>1, MovePlayerType, Zenon
<1>3. r.arena = a /\ m.dir \in Dirs /\ ~r.fault =>
        Ignored(a.pos[p].currentDirection, m.dir, FALSE)
        \/ r.arena.pos[p].currentDirection = m.dir
  <2> DEFINE to == Advance(a.pos[p], m.dir)
  <2>1. \/ Ignored(a.pos[p].currentDirection, m.dir, FALSE) \/ m.dir \notin Dirs
        \/ r.fault
        \/ r.arena = [vram |-> Paint(a.vram, Square(to.x, to.y), PlayerColor(p)),
                      pos |-> [a.pos EXCEPT ![p] = to]]
    BY <1>1, MovePlayerCases, Zenon
  <2>2. to.currentDirection = m.dir
    BY DEF Advance
  <2>3. p \in Players /\ a.pos \in [Players -> PlayerPosition]
    BY DEF Arena, MovementInfo
  <2> HIDE DEF r, to
  <2>4. r.arena = [vram |-> Paint(a.vram, Square(to.x, to.y), PlayerColor(p)),
                   pos |-> [a.pos EXCEPT ![p] = to]]
        => r.arena.pos[p].currentDirection = m.dir
    BY <2>2, <2>3
  <2> QED
    BY <2>1, <2>4, Zenon
<1>4. m.dir \in Dirs /\ ~r.fault =>
        Ignored(r.arena.pos[p].currentDirection, m.dir, FALSE)
  <2> HIDE DEF r
  <2> QED BY <1>2, <1>3 DEF Ignored
<1> QED
  BY <1>2, <1>4

\* The same of a cycle that goes on by itself
LEMMA MoveOnType ==
  ASSUME NEW a \in Arena, NEW m \in MovementInfo
  PROVE  LET p == m.playerColor
             r == move_player(a, m, TRUE)
         IN  /\ r.arena \in Arena
             /\ r.code \in {0, 1}
             /\ r.fault \in BOOLEAN
             /\ OnlyInk(a.vram, r.arena.vram)
             /\ \A o \in Players : o # p => r.arena.pos[o] = a.pos[o]
             /\ r.arena = a \/ r.arena.pos[p].currentDirection = m.dir
<1>1. TRUE \in BOOLEAN
  OBVIOUS
<1> QED
  BY <1>1, MovePlayerType, Zenon

\* passive_move_players leaves an arena, tells who has crashed, adds only
\* ink, and turns no cycle.
LEMMA PassiveType ==
  ASSUME NEW a \in Arena
  PROVE  LET r == passive_move_players(a)
         IN  /\ r.arena \in Arena
             /\ r.code \in {0, 1, 2}
             /\ r.fault \in BOOLEAN
             /\ OnlyInk(a.vram, r.arena.vram)
             /\ \A p \in Players :
                  r.arena.pos[p].currentDirection = a.pos[p].currentDirection
<1> DEFINE mb == Onward(a, "BLUE")
           mo == Onward(a, "ORANGE")
           blue == move_player(a, mb, TRUE)
           orange == move_player(blue.arena, mo, TRUE)
           r == passive_move_players(a)
<1>0. a.pos \in [Players -> PlayerPosition] /\ a.vram \in [Memory -> Colors]
  BY DEF Arena
<1>1. /\ mb \in MovementInfo /\ mb.playerColor = "BLUE"
      /\ mb.dir = a.pos["BLUE"].currentDirection
  BY <1>0 DEF Onward, MovementInfo, Players, PlayerPosition
<1>2. /\ mo \in MovementInfo /\ mo.playerColor = "ORANGE"
      /\ mo.dir = a.pos["ORANGE"].currentDirection
  BY <1>0 DEF Onward, MovementInfo, Players, PlayerPosition
<1>3. /\ blue.arena \in Arena /\ blue.code \in {0, 1} /\ blue.fault \in BOOLEAN
      /\ OnlyInk(a.vram, blue.arena.vram)
      /\ \A p \in Players :
           blue.arena.pos[p].currentDirection = a.pos[p].currentDirection
  <2> HIDE DEF mb
  <2>1. /\ blue.arena \in Arena /\ blue.code \in {0, 1} /\ blue.fault \in BOOLEAN
        /\ OnlyInk(a.vram, blue.arena.vram)
        /\ \A o \in Players : o # "BLUE" => blue.arena.pos[o] = a.pos[o]
        /\ blue.arena = a \/ blue.arena.pos["BLUE"].currentDirection = mb.dir
    <3>1. a \in Arena /\ mb \in MovementInfo
      BY <1>1
    <3>2. /\ blue.arena \in Arena /\ blue.code \in {0, 1} /\ blue.fault \in BOOLEAN
          /\ OnlyInk(a.vram, blue.arena.vram)
          /\ \A o \in Players : o # mb.playerColor => blue.arena.pos[o] = a.pos[o]
          /\ blue.arena = a \/ blue.arena.pos[mb.playerColor].currentDirection = mb.dir
      BY <3>1, MoveOnType
    <3> QED
      BY <1>1, <3>2
  <2> QED
    BY <1>1, <2>1
<1>4. /\ orange.arena \in Arena /\ orange.code \in {0, 1} /\ orange.fault \in BOOLEAN
      /\ OnlyInk(a.vram, orange.arena.vram)
      /\ \A p \in Players :
           orange.arena.pos[p].currentDirection = a.pos[p].currentDirection
  <2> HIDE DEF mo, blue
  <2>1. /\ orange.arena \in Arena /\ orange.code \in {0, 1} /\ orange.fault \in BOOLEAN
        /\ OnlyInk(blue.arena.vram, orange.arena.vram)
        /\ \A o \in Players : o # "ORANGE" =>
             orange.arena.pos[o] = blue.arena.pos[o]
        /\ orange.arena = blue.arena
           \/ orange.arena.pos["ORANGE"].currentDirection = mo.dir
    <3>1. blue.arena \in Arena /\ mo \in MovementInfo
      BY <1>2, <1>3
    <3>2. /\ orange.arena \in Arena /\ orange.code \in {0, 1} /\ orange.fault \in BOOLEAN
          /\ OnlyInk(blue.arena.vram, orange.arena.vram)
          /\ \A o \in Players : o # mo.playerColor =>
               orange.arena.pos[o] = blue.arena.pos[o]
          /\ orange.arena = blue.arena
             \/ orange.arena.pos[mo.playerColor].currentDirection = mo.dir
      BY <3>1, MoveOnType
    <3> HIDE DEF orange
    <3> QED
      BY <1>2, <3>2
  <2>2. OnlyInk(a.vram, orange.arena.vram)
    BY <1>3, <2>1 DEF OnlyInk
  <2>3. \A p \in Players :
          orange.arena.pos[p].currentDirection = a.pos[p].currentDirection
    BY <1>2, <1>3, <2>1
  <2> QED
    BY <2>1, <2>2, <2>3
<1>5. r \in {blue, [blue EXCEPT !.code = 1], [orange EXCEPT !.code = 2], orange}
  BY DEF passive_move_players
<1>6. /\ blue = [arena |-> blue.arena, code |-> blue.code, fault |-> blue.fault]
      /\ orange = [arena |-> orange.arena, code |-> orange.code, fault |-> orange.fault]
  BY DEF move_player
<1>7. \/ r.arena = blue.arena /\ r.fault = blue.fault /\ r.code \in {0, 1}
      \/ r.arena = orange.arena /\ r.fault = orange.fault /\ r.code \in {0, 1, 2}
  <2> HIDE DEF blue, orange, r
  <2> QED BY <1>3, <1>4, <1>5, <1>6
<1> QED
  <2> HIDE DEF blue, orange, r
  <2>1. r.arena \in Arena /\ r.code \in {0, 1, 2} /\ r.fault \in BOOLEAN
    BY <1>3, <1>4, <1>7
  <2>2. /\ OnlyInk(a.vram, r.arena.vram)
        /\ \A p \in Players :
             r.arena.pos[p].currentDirection = a.pos[p].currentDirection
    BY <1>3, <1>4, <1>7
  <2> QED BY <2>1, <2>2 DEF r
=============================================================================
