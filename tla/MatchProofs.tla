---------------------------- MODULE MatchProofs ----------------------------
(***************************************************************************)
(* On the map the pixel that vg_draw_rectangle looks at speaks for its     *)
(* square, and by day what the code plays is LightCycle: for every size of *)
(* the screen and of the squares that satisfies GridAssumption.            *)
(***************************************************************************)
EXTENDS Match, VideoGrProofs

-----------------------------------------------------------------------------
(* Arithmetic of cells and pixels *)

\* Products grow with their factors.
LEMMA TimesMono ==
  ASSUME NEW n \in Nat, NEW a \in Int, NEW b \in Int, a <= b
  PROVE  a * n <= b * n
<1>1. (b - a) \in Nat /\ (b - a) * n \in Nat
  OBVIOUS
<1>2. (b - a) * n = b * n - a * n
  OBVIOUS
<1> QED
  BY <1>1, <1>2

\* A number has one quotient and one remainder.
LEMMA DivideUnique ==
  ASSUME NEW n \in Nat \ {0}, NEW a \in Int, NEW b \in Int,
         NEW d \in 0 .. (n - 1), NEW e \in 0 .. (n - 1),
         a * n + d = b * n + e
  PROVE  a = b /\ d = e
<1>1. ~(a < b)
  <2> SUFFICES ASSUME a < b PROVE FALSE
    OBVIOUS
  <2>1. (a + 1) * n <= b * n
    BY TimesMono
  <2>2. (a + 1) * n = a * n + n
    OBVIOUS
  <2>3. a * n \in Int /\ b * n \in Int
    OBVIOUS
  <2> QED BY <2>1, <2>2, <2>3
<1>2. ~(b < a)
  <2> SUFFICES ASSUME b < a PROVE FALSE
    OBVIOUS
  <2>1. (b + 1) * n <= a * n
    BY TimesMono
  <2>2. (b + 1) * n = b * n + n
    OBVIOUS
  <2>3. a * n \in Int /\ b * n \in Int
    OBVIOUS
  <2> QED BY <2>1, <2>2, <2>3
<1>3. a = b
  BY <1>1, <1>2
<1>4. a * n \in Int
  OBVIOUS
<1> QED
  BY <1>3, <1>4

\* A multiple is its quotient times the divisor.
LEMMA MultipleOf ==
  ASSUME NEW n \in Nat \ {0}, NEW a \in Nat, a % n = 0
  PROVE  a \div n \in Nat /\ a = (a \div n) * n
OBVIOUS

\* And back: quotient and remainder of a multiple
LEMMA OfMultiple ==
  ASSUME NEW n \in Nat \ {0}, NEW k \in Nat
  PROVE  k * n \in Nat /\ (k * n) % n = 0 /\ (k * n) \div n = k
<1>1. n \in Nat /\ n > 0
  OBVIOUS
<1>2. k * n \in Nat
  OBVIOUS
<1>3. (k * n) % n = 0
  BY <1>1, Z3
<1>4. (k * n) \div n = k
  BY <1>1, Z3
<1> QED BY <1>2, <1>3, <1>4

\* What the proofs use of the assumptions
LEMMA CellAssumption ==
  /\ SIZE_FRONT_END \in Nat \ {0} /\ HRes \in Nat \ {0} /\ VRes \in Nat \ {0}
  /\ HRes % SIZE_FRONT_END = 0 /\ VRes % SIZE_FRONT_END = 0
  /\ U16 \in Nat /\ HRes + SIZE_FRONT_END <= U16 /\ VRes + SIZE_FRONT_END <= U16
  /\ MOVEMENT_STEP = SIZE_FRONT_END
BY ScreenAssumption, GridAssumption

\* The neighbours of a multiple
LEMMA NextMultiple ==
  ASSUME NEW n \in Nat \ {0}, NEW a \in Nat, a % n = 0
  PROVE  /\ (a + n) % n = 0 /\ (a + n) \div n = a \div n + 1
         /\ a >= n => (a - n) % n = 0 /\ (a - n) \div n = a \div n - 1
         /\ a < n => a \div n = 0
<1> DEFINE k == a \div n
<1>1. k \in Nat /\ a = k * n
  BY MultipleOf
<1> HIDE DEF k
<1>2. (a + n) % n = 0 /\ (a + n) \div n = k + 1
  <2>1. a + n = (k + 1) * n /\ k + 1 \in Nat
    BY <1>1
  <2> QED BY <2>1, OfMultiple
<1>3. ASSUME a >= n
      PROVE  (a - n) % n = 0 /\ (a - n) \div n = k - 1
  <2>1. k # 0
    BY <1>1, <1>3
  <2>2. a - n = (k - 1) * n /\ k - 1 \in Nat
    BY <1>1, <2>1
  <2> QED BY <2>2, OfMultiple
<1>4. ASSUME a < n
      PROVE  k = 0
  <2> SUFFICES ASSUME 1 <= k PROVE FALSE
    BY <1>1
  <2>1. 1 * n <= k * n
    BY <1>1, TimesMono
  <2> QED BY <1>1, <1>4, <2>1
<1> QED
  BY <1>2, <1>3, <1>4 DEF k

\* A cell that begins before the edge ends before it.
LEMMA MultipleFits ==
  ASSUME NEW n \in Nat \ {0}, NEW a \in Nat, NEW m \in Nat, a % n = 0, m % n = 0
  PROVE  /\ a < m <=> a + n <= m
         /\ a < m <=> a \div n < m \div n
<1>1. PICK k \in Nat : k = a \div n /\ a = k * n
  BY MultipleOf
<1>2. PICK l \in Nat : l = m \div n /\ m = l * n
  BY MultipleOf
<1>3. ASSUME k < l PROVE a + n <= m /\ a < m
  <2>1. (k + 1) * n <= l * n
    BY <1>3, TimesMono
  <2>2. (k + 1) * n = a + n
    BY <1>1
  <2> QED BY <1>2, <2>1, <2>2
<1>4. ASSUME l <= k PROVE ~(a < m) /\ ~(a + n <= m)
  <2>1. l * n <= k * n
    BY <1>4, TimesMono
  <2> QED BY <1>1, <1>2, <2>1
<1>5. k < l \/ l <= k
  OBVIOUS
<1> QED BY <1>1, <1>2, <1>3, <1>4, <1>5

-----------------------------------------------------------------------------
(* Squares on the map *)

\* (x, y) is the top left pixel of a cell
OnCell(x, y) ==
  /\ x \in Nat /\ x % SIZE_FRONT_END = 0 /\ x + SIZE_FRONT_END <= HRes
  /\ y \in Nat /\ y % SIZE_FRONT_END = 0 /\ y + SIZE_FRONT_END <= VRes

\* The origins of the model are these pixels.
LEMMA OriginsAreCells ==
  /\ \A x, y : OnCell(x, y) <=> <<x, y>> \in Origins
  /\ \A q \in Origins : q = <<q[1], q[2]>>
<1>1. ASSUME NEW x, NEW y PROVE OnCell(x, y) <=> <<x, y>> \in Origins
  <2>1. /\ SIZE_FRONT_END \in Nat \ {0} /\ HRes \in Nat /\ VRes \in Nat
        /\ HRes % SIZE_FRONT_END = 0 /\ VRes % SIZE_FRONT_END = 0
    BY CellAssumption
  <2>2. ASSUME x \in Nat, x % SIZE_FRONT_END = 0
        PROVE  x < HRes <=> x + SIZE_FRONT_END <= HRes
    BY <2>1, <2>2, MultipleFits
  <2>3. ASSUME y \in Nat, y % SIZE_FRONT_END = 0
        PROVE  y < VRes <=> y + SIZE_FRONT_END <= VRes
    BY <2>1, <2>3, MultipleFits
  <2>4. /\ x \in 0 .. (HRes - 1) <=> x \in Nat /\ x < HRes
        /\ y \in 0 .. (VRes - 1) <=> y \in Nat /\ y < VRes
    BY <2>1
  <2>5. <<x, y>> \in Origins <=>
          /\ x \in 0 .. (HRes - 1) /\ y \in 0 .. (VRes - 1)
          /\ x % SIZE_FRONT_END = 0 /\ y % SIZE_FRONT_END = 0
    BY Zenon DEF Origins
  <2> QED
    BY <2>2, <2>3, <2>4, <2>5, Zenon DEF OnCell
<1>2. \A q \in Origins : q = <<q[1], q[2]>>
  BY DEF Origins
<1> QED
  BY <1>1, <1>2

\* Pixels on the map are on the screen, each at an index of its own.
LEMMA IndexOnScreen ==
  ASSUME NEW x \in 0 .. (HRes - 1), NEW y \in 0 .. (VRes - 1)
  PROVE  Index(x, y) \in Screen
<1>1. HRes \in Nat \ {0} /\ VRes \in Nat \ {0} /\ x \in Nat /\ y \in Nat /\ y <= VRes - 1
  BY CellAssumption
<1>2. y * HRes <= (VRes - 1) * HRes
  BY <1>1, TimesMono
<1>3. (VRes - 1) * HRes = HRes * VRes - HRes
  BY <1>1
<1>4. y * HRes \in Nat /\ HRes * VRes \in Nat
  BY <1>1
<1>5. y * HRes + x \in 0 .. (HRes * VRes - 1)
  BY <1>1, <1>2, <1>3, <1>4
<1> QED
  BY <1>5 DEF Index, Screen

LEMMA IndexInjective ==
  ASSUME NEW x \in 0 .. (HRes - 1), NEW y \in 0 .. (VRes - 1),
         NEW u \in 0 .. (HRes - 1), NEW v \in 0 .. (VRes - 1),
         Index(x, y) = Index(u, v)
  PROVE  x = u /\ y = v
<1>1. HRes \in Nat \ {0} /\ y \in Int /\ v \in Int
  BY CellAssumption
<1>2. y * HRes + x = v * HRes + u
  BY DEF Index
<1> QED
  BY <1>1, <1>2, DivideUnique

\* A square on the map does not wrap around: it is made of the pixels of its
\* cell.
LEMMA SquareOfCell ==
  ASSUME NEW x, NEW y, OnCell(x, y)
  PROVE  /\ \A i : i \in Square(x, y) <=>
                \E dx \in 0 .. (SIZE_FRONT_END - 1), dy \in 0 .. (SIZE_FRONT_END - 1) :
                  i = Index(x + dx, y + dy)
         /\ \A dx \in 0 .. (SIZE_FRONT_END - 1) : x + dx \in 0 .. (HRes - 1)
         /\ \A dy \in 0 .. (SIZE_FRONT_END - 1) : y + dy \in 0 .. (VRes - 1)
<1>1. /\ x \in Nat /\ y \in Nat /\ x + SIZE_FRONT_END <= HRes /\ y + SIZE_FRONT_END <= VRes
      /\ SIZE_FRONT_END \in Nat \ {0} /\ HRes \in Nat /\ VRes \in Nat
      /\ U16 \in Nat /\ HRes + SIZE_FRONT_END <= U16 /\ VRes + SIZE_FRONT_END <= U16
  BY CellAssumption DEF OnCell
<1>2. \A dx \in 0 .. (SIZE_FRONT_END - 1) :
        Plus16(x, dx) = x + dx /\ x + dx \in 0 .. (HRes - 1)
  BY <1>1 DEF Plus16
<1>3. \A dy \in 0 .. (SIZE_FRONT_END - 1) :
        Plus16(y, dy) = y + dy /\ y + dy \in 0 .. (VRes - 1)
  BY <1>1 DEF Plus16
<1>4. \A dx \in 0 .. (SIZE_FRONT_END - 1), dy \in 0 .. (SIZE_FRONT_END - 1) :
        Index(Plus16(x, dx), Plus16(y, dy)) = Index(x + dx, y + dy)
  BY <1>2, <1>3
<1>5. \A i : i \in Square(x, y) <=>
        \E dx \in 0 .. (SIZE_FRONT_END - 1), dy \in 0 .. (SIZE_FRONT_END - 1) :
          i = Index(Plus16(x, dx), Plus16(y, dy))
  BY DEF Square
<1>6. \A i : i \in Square(x, y) <=>
        \E dx \in 0 .. (SIZE_FRONT_END - 1), dy \in 0 .. (SIZE_FRONT_END - 1) :
          i = Index(x + dx, y + dy)
  BY <1>4, <1>5
<1>7. \A dx \in 0 .. (SIZE_FRONT_END - 1) : x + dx \in 0 .. (HRes - 1)
  BY <1>2, Zenon
<1>8. \A dy \in 0 .. (SIZE_FRONT_END - 1) : y + dy \in 0 .. (VRes - 1)
  BY <1>3, Zenon
<1> QED
  BY <1>6, <1>7, <1>8, Zenon

\* It is on the screen, and holds the pixel that is looked at.
LEMMA SquareOnScreen ==
  ASSUME NEW x, NEW y, OnCell(x, y)
  PROVE  Square(x, y) \subseteq Screen /\ Index(x, y) \in Square(x, y)
<1>1. Square(x, y) \subseteq Screen
  BY SquareOfCell, IndexOnScreen
<1>2. 0 \in 0 .. (SIZE_FRONT_END - 1)
  BY CellAssumption
<1>3. Index(x + 0, y + 0) \in Square(x, y)
  BY <1>2, SquareOfCell
<1>4. x + 0 = x /\ y + 0 = y
  BY DEF OnCell
<1> QED
  BY <1>1, <1>3, <1>4

\* Squares of two cells have no pixel in common.
LEMMA SquaresDisjoint ==
  ASSUME NEW x, NEW y, OnCell(x, y), NEW u, NEW v, OnCell(u, v),
         NEW i \in Square(x, y), i \in Square(u, v)
  PROVE  x = u /\ y = v
<1> DEFINE D == 0 .. (SIZE_FRONT_END - 1)
<1>1. PICK dx \in D, dy \in D : i = Index(x + dx, y + dy)
  BY SquareOfCell
<1>2. PICK du \in D, dv \in D : i = Index(u + du, v + dv)
  BY SquareOfCell
<1>3. /\ x + dx \in 0 .. (HRes - 1) /\ y + dy \in 0 .. (VRes - 1)
      /\ u + du \in 0 .. (HRes - 1) /\ v + dv \in 0 .. (VRes - 1)
  BY SquareOfCell
<1>4. x + dx = u + du /\ y + dy = v + dv
  BY <1>1, <1>2, <1>3, IndexInjective
<1>5. SIZE_FRONT_END \in Nat \ {0} /\ x \in Nat /\ y \in Nat /\ u \in Nat /\ v \in Nat
  BY CellAssumption DEF OnCell
<1>6. x = u
  <2>1. PICK k \in Nat : x = k * SIZE_FRONT_END
    BY <1>5, MultipleOf DEF OnCell
  <2>2. PICK l \in Nat : u = l * SIZE_FRONT_END
    BY <1>5, MultipleOf DEF OnCell
  <2>3. k * SIZE_FRONT_END + dx = l * SIZE_FRONT_END + du
    BY <1>4, <2>1, <2>2
  <2>4. k = l
    BY <1>5, <2>3, DivideUnique
  <2> QED BY <2>1, <2>2, <2>4
<1>7. y = v
  <2>1. PICK k \in Nat : y = k * SIZE_FRONT_END
    BY <1>5, MultipleOf DEF OnCell
  <2>2. PICK l \in Nat : v = l * SIZE_FRONT_END
    BY <1>5, MultipleOf DEF OnCell
  <2>3. k * SIZE_FRONT_END + dy = l * SIZE_FRONT_END + dv
    BY <1>4, <2>1, <2>2
  <2>4. k = l
    BY <1>5, <2>3, DivideUnique
  <2> QED BY <2>1, <2>2, <2>4
<1> QED BY <1>6, <1>7

\* All pixels of a cell have one colour.
Uniform(vram) ==
  \A x, y : OnCell(x, y) =>
    \A i \in Square(x, y) : vram[i] = find_color(vram, x, y)

\* Painting the square of a cell colours that cell and no other.
LEMMA PaintCell ==
  ASSUME NEW vram \in [Memory -> Colors], Uniform(vram), NEW c,
         NEW x, NEW y, OnCell(x, y)
  PROVE  LET painted == Paint(vram, Square(x, y), c)
         IN  /\ Uniform(painted)
             /\ \A u, v : OnCell(u, v) =>
                  find_color(painted, u, v) =
                    IF u = x /\ v = y THEN c ELSE find_color(vram, u, v)
<1> DEFINE painted == Paint(vram, Square(x, y), c)
<1>1. \A i \in Screen : painted[i] = IF i \in Square(x, y) THEN c ELSE vram[i]
  BY ScreenInMemory DEF Paint
<1> HIDE DEF painted
<1>2. ASSUME NEW u, NEW v, OnCell(u, v), NEW i \in Square(u, v)
      PROVE  painted[i] = IF u = x /\ v = y THEN c ELSE find_color(vram, u, v)
  <2>1. i \in Screen
    BY <1>2, SquareOnScreen
  <2>2. CASE u = x /\ v = y
    BY <1>1, <1>2, <2>1, <2>2
  <2>3. CASE ~(u = x /\ v = y)
    <3>1. i \notin Square(x, y)
      BY <1>2, <2>3, SquaresDisjoint
    <3>2. vram[i] = find_color(vram, u, v)
      BY <1>2 DEF Uniform
    <3> QED BY <1>1, <2>1, <2>3, <3>1, <3>2
  <2> QED BY <2>2, <2>3
<1>3. ASSUME NEW u, NEW v, OnCell(u, v)
      PROVE  find_color(painted, u, v) =
               IF u = x /\ v = y THEN c ELSE find_color(vram, u, v)
  BY <1>2, <1>3, SquareOnScreen DEF find_color
<1>4. Uniform(painted)
  BY <1>2, <1>3 DEF Uniform
<1> QED
  BY <1>3, <1>4 DEF painted

-----------------------------------------------------------------------------
(* Steps on the map *)

\* One coordinate a of a cycle on a cell, along an axis of res pixels: where
\* a step forward, a step back and no step lead, in pixels and in cells.  A
\* step back over the edge wraps around and is seen to leave the map.
StepsAlong(a, res, n) ==
  /\ a \div n \in 0 .. (res \div n - 1)
  /\ Plus16(a, n) = a + n /\ (a + n) % n = 0 /\ (a + n) \div n = a \div n + 1
  /\ Plus16(a, n) + n <= res <=> a \div n + 1 \in 0 .. (res \div n - 1)
  /\ Minus16(a, n) + n <= res <=> a \div n - 1 \in 0 .. (res \div n - 1)
  /\ Minus16(a, n) + n <= res =>
       /\ Minus16(a, n) = a - n /\ Minus16(a, n) \in Nat
       /\ (a - n) % n = 0 /\ (a - n) \div n = a \div n - 1

LEMMA Coordinate ==
  ASSUME NEW a \in Nat, NEW res \in Nat, NEW n \in Nat \ {0},
         a % n = 0, res % n = 0, a + n <= res, res + n <= U16
  PROVE  StepsAlong(a, res, n)
<1>0. U16 \in Nat
  BY CellAssumption
<1>1. a \div n \in Nat /\ res \div n \in Nat
  BY MultipleOf
<1>2. a \div n < res \div n
  BY MultipleFits
<1>3. /\ (a + n) % n = 0 /\ (a + n) \div n = a \div n + 1
      /\ a >= n => (a - n) % n = 0 /\ (a - n) \div n = a \div n - 1
      /\ a < n => a \div n = 0
  BY NextMultiple
<1>4. a + n \in Nat /\ (a + n < res <=> (a + n) + n <= res)
      /\ (a + n < res <=> (a + n) \div n < res \div n)
  BY <1>3, MultipleFits
<1>5. a >= n => a \div n >= 1
  <2> SUFFICES ASSUME a >= n PROVE a \div n >= 1
    OBVIOUS
  <2>1. a - n \in Nat
    OBVIOUS
  <2>2. (a - n) \div n \in Nat
    BY <1>3, <2>1, MultipleOf
  <2> QED BY <1>1, <1>3, <2>2
<1> DEFINE k == a \div n
           l == res \div n
<1> HIDE DEF k, l
<1>6. k \in Nat /\ l \in Nat /\ k < l
  BY <1>1, <1>2 DEF k, l
<1>7. Plus16(a, n) = a + n
  BY <1>0 DEF Plus16
<1>8. Plus16(a, n) + n <= res <=> k + 1 \in 0 .. (l - 1)
  <2>1. (a + n) + n <= res <=> k + 1 < l
    BY <1>3, <1>4 DEF k, l
  <2> QED BY <1>6, <1>7, <2>1
<1>9. Minus16(a, n) + n <= res <=> a >= n
  BY <1>0 DEF Minus16
<1>10. a >= n <=> k - 1 \in 0 .. (l - 1)
  <2>1. (a >= n => k >= 1) /\ (a < n => k = 0)
    BY <1>3, <1>5 DEF k
  <2> QED BY <1>6, <2>1
<1>11. a >= n => Minus16(a, n) = a - n /\ Minus16(a, n) \in Nat
  BY DEF Minus16
<1>12. k \in 0 .. (l - 1)
  BY <1>6
<1> QED
  BY <1>3, <1>7, <1>8, <1>9, <1>10, <1>11, <1>12 DEF k, l, StepsAlong

\* A cycle on a cell that steps stands on the neighbouring cell, or has left
\* the map.
LEMMA AdvanceOnMap ==
  ASSUME NEW q \in PlayerPosition, OnCell(q.x, q.y), NEW d \in Dirs
  PROVE  LET to == Advance(q, d)
             c == Grid!Neighbour(Cell(q), d)
         IN  /\ OnMap(to) <=> c \in Grid!Grid
             /\ OnMap(to) => OnCell(to.x, to.y) /\ Cell(to) = c
<1> DEFINE n == SIZE_FRONT_END
           to == Advance(q, d)
           c == Grid!Neighbour(Cell(q), d)
           k == q.x \div n
           l == q.y \div n
<1>0. /\ n \in Nat \ {0} /\ HRes \in Nat /\ VRes \in Nat /\ U16 \in Nat
      /\ HRes % n = 0 /\ VRes % n = 0 /\ HRes + n <= U16 /\ VRes + n <= U16
      /\ MOVEMENT_STEP = n
  BY CellAssumption
<1>1. /\ q.x \in Nat /\ q.x % n = 0 /\ q.x + n <= HRes
      /\ q.y \in Nat /\ q.y % n = 0 /\ q.y + n <= VRes
  BY DEF OnCell
<1>2. /\ k \in 0 .. (HRes \div n - 1)
      /\ Plus16(q.x, n) = q.x + n /\ (q.x + n) % n = 0 /\ (q.x + n) \div n = k + 1
      /\ Plus16(q.x, n) + n <= HRes <=> k + 1 \in 0 .. (HRes \div n - 1)
      /\ Minus16(q.x, n) + n <= HRes <=> k - 1 \in 0 .. (HRes \div n - 1)
      /\ Minus16(q.x, n) + n <= HRes =>
           /\ Minus16(q.x, n) = q.x - n /\ Minus16(q.x, n) \in Nat
           /\ (q.x - n) % n = 0 /\ (q.x - n) \div n = k - 1
  <2>1. StepsAlong(q.x, HRes, n)
    BY <1>0, <1>1, Coordinate
  <2> QED BY <2>1, Zenon DEF StepsAlong
<1>3. /\ l \in 0 .. (VRes \div n - 1)
      /\ Plus16(q.y, n) = q.y + n /\ (q.y + n) % n = 0 /\ (q.y + n) \div n = l + 1
      /\ Plus16(q.y, n) + n <= VRes <=> l + 1 \in 0 .. (VRes \div n - 1)
      /\ Minus16(q.y, n) + n <= VRes <=> l - 1 \in 0 .. (VRes \div n - 1)
      /\ Minus16(q.y, n) + n <= VRes =>
           /\ Minus16(q.y, n) = q.y - n /\ Minus16(q.y, n) \in Nat
           /\ (q.y - n) % n = 0 /\ (q.y - n) \div n = l - 1
  <2>1. StepsAlong(q.y, VRes, n)
    BY <1>0, <1>1, Coordinate
  <2> QED BY <2>1, Zenon DEF StepsAlong
<1>4. Cell(q) = <<k, l>>
  BY DEF Cell
<1>5. \A i, j : <<i, j>> \in Grid!Grid <=>
        i \in 0 .. (HRes \div n - 1) /\ j \in 0 .. (VRes \div n - 1)
  BY DEF Grid!Grid
<1>6. OnMap(to) <=> to.x + n <= HRes /\ to.y + n <= VRes
  BY DEF OnMap
<1>7. Cell(to) = <<to.x \div n, to.y \div n>>
  BY DEF Cell
<1>8. OnCell(to.x, to.y) <=>
        /\ to.x \in Nat /\ to.x % n = 0 /\ to.x + n <= HRes
        /\ to.y \in Nat /\ to.y % n = 0 /\ to.y + n <= VRes
  BY DEF OnCell
<1>9. q.x + n \in Nat /\ q.y + n \in Nat
  BY <1>0, <1>1
<1> HIDE DEF n, k, l, to, c
<1>10. CASE d = "UP"
  <2>1. to.x = q.x /\ to.y = Minus16(q.y, n) /\ c = <<k, l - 1>>
    BY <1>0, <1>4, <1>10 DEF Advance, to, c, Grid!Neighbour
  <2> QED BY <1>1, <1>2, <1>3, <1>5, <1>6, <1>7, <1>8, <2>1 DEF k, to, c
<1>11. CASE d = "DOWN"
  <2>1. to.x = q.x /\ to.y = Plus16(q.y, n) /\ c = <<k, l + 1>>
    BY <1>0, <1>4, <1>11 DEF Advance, to, c, Grid!Neighbour
  <2> QED BY <1>1, <1>2, <1>3, <1>5, <1>6, <1>7, <1>8, <1>9, <2>1 DEF k, to, c
<1>12. CASE d = "LEFT"
  <2>1. to.x = Minus16(q.x, n) /\ to.y = q.y /\ c = <<k - 1, l>>
    BY <1>0, <1>4, <1>12 DEF Advance, to, c, Grid!Neighbour
  <2> QED BY <1>1, <1>2, <1>3, <1>5, <1>6, <1>7, <1>8, <2>1 DEF l, to, c
<1>13. CASE d = "RIGHT"
  <2>1. to.x = Plus16(q.x, n) /\ to.y = q.y /\ c = <<k + 1, l>>
    BY <1>0, <1>4, <1>13 DEF Advance, to, c, Grid!Neighbour
  <2> QED BY <1>1, <1>2, <1>3, <1>5, <1>6, <1>7, <1>8, <1>9, <2>1 DEF l, to, c
<1> QED
  BY <1>10, <1>11, <1>12, <1>13 DEF Dirs

-----------------------------------------------------------------------------
(* The wall, and one move *)

\* The cells that are not black, as Match maps them to the wall of the game
Wall(vram) ==
  {<<q[1] \div SIZE_FRONT_END, q[2] \div SIZE_FRONT_END>> :
     q \in {o \in Origins : find_color(vram, o[1], o[2]) # Black}}

CellAt(x, y) == <<x \div SIZE_FRONT_END, y \div SIZE_FRONT_END>>

LEMMA WallMember ==
  ASSUME NEW vram, NEW e
  PROVE  e \in Wall(vram) <=>
           \E x, y : OnCell(x, y) /\ find_color(vram, x, y) # Black /\ e = CellAt(x, y)
<1>1. e \in Wall(vram) <=>
        \E q \in Origins : /\ find_color(vram, q[1], q[2]) # Black
                           /\ e = CellAt(q[1], q[2])
  BY DEF Wall, CellAt
<1>2. ASSUME NEW q \in Origins, find_color(vram, q[1], q[2]) # Black,
             e = CellAt(q[1], q[2])
      PROVE  \E x, y : OnCell(x, y) /\ find_color(vram, x, y) # Black /\ e = CellAt(x, y)
  <2>1. OnCell(q[1], q[2])
    BY OriginsAreCells
  <2> QED BY <1>2, <2>1
<1>3. ASSUME NEW x, NEW y, OnCell(x, y), find_color(vram, x, y) # Black, e = CellAt(x, y)
      PROVE  e \in Wall(vram)
  <2>1. <<x, y>> \in Origins /\ <<x, y>>[1] = x /\ <<x, y>>[2] = y
    BY <1>3, OriginsAreCells
  <2> QED BY <1>1, <1>3, <2>1
<1> QED
  BY <1>1, <1>2, <1>3, Zenon

\* Different cells of the screen are different cells of the grid.
LEMMA CellAtInjective ==
  ASSUME NEW x, NEW y, OnCell(x, y), NEW u, NEW v, OnCell(u, v),
         CellAt(x, y) = CellAt(u, v)
  PROVE  x = u /\ y = v
<1>1. SIZE_FRONT_END \in Nat \ {0}
  BY CellAssumption
<1>2. /\ x = (x \div SIZE_FRONT_END) * SIZE_FRONT_END
      /\ u = (u \div SIZE_FRONT_END) * SIZE_FRONT_END
      /\ y = (y \div SIZE_FRONT_END) * SIZE_FRONT_END
      /\ v = (v \div SIZE_FRONT_END) * SIZE_FRONT_END
  BY <1>1, MultipleOf DEF OnCell
<1>3. /\ x \div SIZE_FRONT_END = u \div SIZE_FRONT_END
      /\ y \div SIZE_FRONT_END = v \div SIZE_FRONT_END
  BY DEF CellAt
<1> QED
  BY <1>2, <1>3, Zenon

\* Cells, and with them the wall, are on the grid.
LEMMA CellInGrid ==
  ASSUME NEW x, NEW y, OnCell(x, y)
  PROVE  CellAt(x, y) \in Grid!Grid
<1>1. /\ x \div SIZE_FRONT_END \in 0 .. (HRes \div SIZE_FRONT_END - 1)
      /\ y \div SIZE_FRONT_END \in 0 .. (VRes \div SIZE_FRONT_END - 1)
  <2>1. StepsAlong(x, HRes, SIZE_FRONT_END) /\ StepsAlong(y, VRes, SIZE_FRONT_END)
    BY CellAssumption, Coordinate DEF OnCell
  <2> QED BY <2>1, Zenon DEF StepsAlong
<1> QED
  BY <1>1 DEF CellAt, Grid!Grid

LEMMA WallInGrid ==
  ASSUME NEW vram
  PROVE  Wall(vram) \subseteq Grid!Grid
BY WallMember, CellInGrid

\* A cell belongs to the wall when the pixel that is looked at is not black.
LEMMA CellInWall ==
  ASSUME NEW vram, NEW x, NEW y, OnCell(x, y)
  PROVE  CellAt(x, y) \in Wall(vram) <=> find_color(vram, x, y) # Black
BY WallMember, CellAtInjective

\* Painting a square adds its cell to the wall.
LEMMA PaintAddsToWall ==
  ASSUME NEW vram \in [Memory -> Colors], Uniform(vram), NEW c, c # Black,
         NEW x, NEW y, OnCell(x, y)
  PROVE  Wall(Paint(vram, Square(x, y), c)) = Wall(vram) \cup {CellAt(x, y)}
<1> DEFINE painted == Paint(vram, Square(x, y), c)
<1>1. \A u, v : OnCell(u, v) =>
        find_color(painted, u, v) =
          IF u = x /\ v = y THEN c ELSE find_color(vram, u, v)
  BY PaintCell
<1> HIDE DEF painted
<1>2. \A u, v : OnCell(u, v) => (CellAt(u, v) = CellAt(x, y) <=> u = x /\ v = y)
  BY CellAtInjective
<1>3. ASSUME NEW e PROVE e \in Wall(painted) <=> e \in Wall(vram) \cup {CellAt(x, y)}
  <2>1. e \in Wall(painted) <=>
          \E u, v : OnCell(u, v) /\ find_color(painted, u, v) # Black /\ e = CellAt(u, v)
    BY WallMember
  <2>2. e \in Wall(vram) <=>
          \E u, v : OnCell(u, v) /\ find_color(vram, u, v) # Black /\ e = CellAt(u, v)
    BY WallMember
  <2> QED
    BY <1>1, <1>2, <2>1, <2>2
<1> QED
  BY <1>3 DEF painted

\* An arena in play: both cycles on cells, every cell of one colour
OnGrid(a) ==
  /\ a \in Arena
  /\ \A p \in Players : OnCell(a.pos[p].x, a.pos[p].y)
  /\ Uniform(a.vram)

LEMMA OnCellMeans ==
  ASSUME NEW q \in PlayerPosition
  PROVE  /\ OnCell(q.x, q.y) <=> Aligned(q) /\ OnMap(q)
         /\ Cell(q) = CellAt(q.x, q.y)
BY DEF OnCell, Aligned, OnMap, PlayerPosition, Word, Cell, CellAt

LEMMA OnGridOnMap ==
  ASSUME NEW a, OnGrid(a), NEW p \in Players
  PROVE  OnMap(a.pos[p])
<1>1. a.pos[p] \in PlayerPosition /\ OnCell(a.pos[p].x, a.pos[p].y)
  BY DEF OnGrid, Arena
<1> QED
  BY <1>1, OnCellMeans

\* The test of vg_draw_rectangle tells the wall from the rest.
LEMMA ObstacleIsWall ==
  ASSUME NEW c \in Colors
  PROVE  IsObstacle(c) <=> c # Black
BY DEF Colors, IsObstacle, Black, White, COLOR_BLUE, COLOR_ORANGE

\* r is what moving p to position to, in cell c, makes of the arena a: the
\* cycle stands there, the cell belongs to the wall, and the code tells
\* whether it did before; or the cycle has left the map.
MovedTo(a, r, p, to, c) ==
  /\ c \in Grid!Grid =>
       /\ r.fault = FALSE /\ OnGrid(r.arena)
       /\ r.arena.pos = [a.pos EXCEPT ![p] = to] /\ Cell(to) = c
       /\ r.code = IF c \in Wall(a.vram) THEN 1 ELSE 0
       /\ Wall(r.arena.vram) = Wall(a.vram) \cup {c}
  /\ c \notin Grid!Grid =>
       \/ r.fault = TRUE
       \/ r.arena.pos = [a.pos EXCEPT ![p] = to] /\ ~OnMap(to) /\ r.fault = FALSE

\* That is what a move does that is not dropped, c being the neighbour.
LEMMA MoveOnGrid ==
  ASSUME NEW a, OnGrid(a), NEW p \in Players, NEW d \in Dirs, NEW b,
         ~Ignored(a.pos[p].currentDirection, d, b)
  PROVE  MovedTo(a, move_player(a, [dir |-> d, playerColor |-> p], b), p,
                 Advance(a.pos[p], d), Grid!Neighbour(Cell(a.pos[p]), d))
<1> DEFINE m == [dir |-> d, playerColor |-> p]
           r == move_player(a, m, b)
           to == Advance(a.pos[p], d)
           c == Grid!Neighbour(Cell(a.pos[p]), d)
           drawn == vg_draw_rectangle(a.vram, to.x, to.y, PlayerColor(p))
<1>1. /\ a.vram \in [Memory -> Colors] /\ a.pos \in [Players -> PlayerPosition]
      /\ a.pos[p] \in PlayerPosition
  BY DEF OnGrid, Arena
<1>2. to \in PlayerPosition
  BY <1>1, AdvanceType
<1>3. r = IF Faults(to.x, to.y)
            THEN [arena |-> a, code |-> 0, fault |-> TRUE]
            ELSE [arena |-> [vram |-> drawn.vram, pos |-> [a.pos EXCEPT ![p] = to]],
                  code |-> drawn.flag, fault |-> FALSE]
  BY DEF move_player
<1>4. /\ OnMap(to) <=> c \in Grid!Grid
      /\ OnMap(to) => OnCell(to.x, to.y) /\ Cell(to) = c
  <2>1. OnCell(a.pos[p].x, a.pos[p].y)
    BY DEF OnGrid
  <2> QED BY <1>1, <2>1, AdvanceOnMap
<1>5. /\ drawn.vram = Paint(a.vram, Square(to.x, to.y), PlayerColor(p))
      /\ drawn.flag = IF IsObstacle(find_color(a.vram, to.x, to.y)) THEN 1 ELSE 0
  BY DEF vg_draw_rectangle
<1> HIDE DEF r, to, c, drawn
<1>6. ASSUME c \in Grid!Grid
      PROVE  /\ r.fault = FALSE /\ OnGrid(r.arena)
             /\ r.arena.pos = [a.pos EXCEPT ![p] = to] /\ Cell(to) = c
             /\ r.code = IF c \in Wall(a.vram) THEN 1 ELSE 0
             /\ Wall(r.arena.vram) = Wall(a.vram) \cup {c}
  <2>1. OnCell(to.x, to.y) /\ Cell(to) = c /\ c = CellAt(to.x, to.y)
    BY <1>2, <1>4, <1>6, OnCellMeans
  <2>2. ~Faults(to.x, to.y)
    BY <2>1, SquareOnScreen, ScreenInMemory DEF Faults
  <2>3. /\ r.arena.vram = drawn.vram /\ r.arena.pos = [a.pos EXCEPT ![p] = to]
        /\ r.arena = [vram |-> drawn.vram, pos |-> [a.pos EXCEPT ![p] = to]]
        /\ r.code = drawn.flag /\ r.fault = FALSE
    BY <1>3, <2>2
  <2>4. PlayerColor(p) \in Colors /\ PlayerColor(p) # Black
    BY DEF PlayerColor, Colors, Black, COLOR_BLUE, COLOR_ORANGE
  <2>5. Uniform(a.vram)
    BY DEF OnGrid
  <2>6. Uniform(drawn.vram)
    BY <1>1, <1>5, <2>1, <2>5, PaintCell
  <2>7. Wall(drawn.vram) = Wall(a.vram) \cup {c}
    BY <1>1, <1>5, <2>1, <2>4, <2>5, PaintAddsToWall
  <2>8. drawn.flag = IF c \in Wall(a.vram) THEN 1 ELSE 0
    <3>1. Index(to.x, to.y) \in Memory
      BY <2>1, SquareOnScreen, ScreenInMemory
    <3>2. find_color(a.vram, to.x, to.y) \in Colors
      BY <1>1, <3>1 DEF find_color
    <3>3. IsObstacle(find_color(a.vram, to.x, to.y)) <=> c \in Wall(a.vram)
      BY <2>1, <3>2, ObstacleIsWall, CellInWall
    <3> QED BY <1>5, <3>3, Zenon
  <2>9. OnGrid(r.arena)
    <3>1. drawn.vram \in [Memory -> Colors]
      BY <1>1, <1>5, <2>4, PaintType
    <3>2. [a.pos EXCEPT ![p] = to] \in [Players -> PlayerPosition]
      BY <1>1, <1>2
    <3>3. r.arena \in Arena
      BY <2>3, <3>1, <3>2 DEF Arena
    <3>4. \A o \in Players : OnCell(r.arena.pos[o].x, r.arena.pos[o].y)
      BY <1>1, <2>1, <2>3 DEF OnGrid
    <3> QED BY <2>3, <2>6, <3>3, <3>4 DEF OnGrid
  <2> QED
    BY <2>1, <2>3, <2>7, <2>8, <2>9
<1>7. ASSUME c \notin Grid!Grid
      PROVE  \/ r.fault = TRUE
             \/ r.arena.pos = [a.pos EXCEPT ![p] = to] /\ ~OnMap(to) /\ r.fault = FALSE
  <2>1. ~OnMap(to)
    BY <1>4, <1>7
  <2>2. CASE Faults(to.x, to.y)
    BY <1>3, <2>2
  <2>3. CASE ~Faults(to.x, to.y)
    BY <1>3, <2>1, <2>3
  <2> QED BY <2>2, <2>3
<1>8. MovedTo(a, r, p, to, c)
  BY <1>6, <1>7, Zenon DEF MovedTo
<1> QED
  BY <1>8 DEF r, to, c

-----------------------------------------------------------------------------
(* Moves as steps of the game *)

\* An arena as a round of LightCycle
Seen(a, ph) ==
  [head |-> [p \in Players |-> Cell(a.pos[p])],
   heading |-> [p \in Players |-> a.pos[p].currentDirection],
   wall |-> Wall(a.vram),
   phase |-> ph]

\* r is what a move of p has left, g what the same step does on the grid
Agrees(r, g, p) ==
  /\ g.phase \in {"play", "stray", p}
  /\ g.phase = "stray" => r.fault = TRUE \/ ~OnMap(r.arena.pos[p])
  /\ g.phase # "stray" =>
       /\ r.fault = FALSE /\ OnGrid(r.arena) /\ g = Seen(r.arena, g.phase)
       /\ r.code = IF g.phase = "play" THEN 0 ELSE 1

LEMMA MoveIsStep ==
  ASSUME NEW a, OnGrid(a), NEW p \in Players, NEW d \in Dirs, NEW b, NEW ph,
         ~Ignored(a.pos[p].currentDirection, d, b)
  PROVE  Agrees(move_player(a, [dir |-> d, playerColor |-> p], b),
                Grid!Step(Seen(a, ph), p, d), p)
<1> DEFINE r == move_player(a, [dir |-> d, playerColor |-> p], b)
           to == Advance(a.pos[p], d)
           c == Grid!Neighbour(Cell(a.pos[p]), d)
           g == Grid!Step(Seen(a, ph), p, d)
<1>1. MovedTo(a, r, p, to, c)
  BY MoveOnGrid
<1>2. a.pos \in [Players -> PlayerPosition]
  BY DEF OnGrid, Arena
<1>3. to.currentDirection = d
  BY DEF Advance
<1>4. /\ Seen(a, ph).head = [o \in Players |-> Cell(a.pos[o])]
      /\ Seen(a, ph).heading = [o \in Players |-> a.pos[o].currentDirection]
      /\ Seen(a, ph).wall = Wall(a.vram)
      /\ Seen(a, ph).head[p] = Cell(a.pos[p])
  BY DEF Seen
<1>5. g = [head |-> [Seen(a, ph).head EXCEPT ![p] = c],
           heading |-> [Seen(a, ph).heading EXCEPT ![p] = d],
           wall |-> Wall(a.vram) \cup {c},
           phase |-> CASE c \notin Grid!Grid -> "stray"
                       [] c \in Wall(a.vram) -> p
                       [] OTHER -> "play"]
  BY <1>4, Zenon DEF Grid!Step
<1>6. p # "stray" /\ p # "play"
  BY DEF Players
<1> HIDE DEF r, to, c, g
<1>7. CASE c \notin Grid!Grid
  <2>1. g.phase = "stray"
    BY <1>5, <1>7, WallInGrid
  <2>2. r.fault = TRUE \/ ~OnMap(r.arena.pos[p])
    BY <1>1, <1>2, <1>7 DEF MovedTo
  <2> QED BY <2>1, <2>2 DEF Agrees, r, g
<1>8. CASE c \in Grid!Grid
  <2>1. g.phase = IF c \in Wall(a.vram) THEN p ELSE "play"
    BY <1>5, <1>8
  <2>2. r.code = IF g.phase = "play" THEN 0 ELSE 1
    BY <1>1, <1>6, <1>8, <2>1 DEF MovedTo
  <2>3. g = Seen(r.arena, g.phase)
    <3>1. r.arena.pos = [a.pos EXCEPT ![p] = to]
      BY <1>1, <1>8 DEF MovedTo
    <3>2. [o \in Players |-> Cell(r.arena.pos[o])] = [Seen(a, ph).head EXCEPT ![p] = c]
      BY <1>1, <1>2, <1>4, <1>8, <3>1 DEF MovedTo
    <3>3. [o \in Players |-> r.arena.pos[o].currentDirection]
            = [Seen(a, ph).heading EXCEPT ![p] = d]
      BY <1>2, <1>3, <1>4, <3>1
    <3>4. Wall(r.arena.vram) = Wall(a.vram) \cup {c}
      BY <1>1, <1>8 DEF MovedTo
    <3> QED BY <1>5, <3>2, <3>3, <3>4 DEF Seen
  <2>4. r.fault = FALSE /\ OnGrid(r.arena)
    BY <1>1, <1>8 DEF MovedTo
  <2>5. g.phase \in {"play", "stray", p} /\ g.phase # "stray"
    BY <1>6, <2>1
  <2> QED BY <2>2, <2>3, <2>4, <2>5, Zenon DEF Agrees, r, g
<1> QED BY <1>7, <1>8

\* Going on is never dropped.
LEMMA OnwardNotIgnored ==
  ASSUME NEW d \in Dirs
  PROVE  ~Ignored(d, d, TRUE)
BY DEF Ignored, opposite, Dirs

\* A tick is both cycles moving on, blue first, orange only if blue has not
\* crashed.
LEMMA PassiveIsBoth ==
  ASSUME NEW a, OnGrid(a), NEW ph
  PROVE  LET moved == passive_move_players(a)
             g == Grid!Step(Seen(a, ph), "BLUE", a.pos["BLUE"].currentDirection)
             h == Grid!Step(g, "ORANGE", a.pos["ORANGE"].currentDirection)
             loser == IF moved.code = 1 THEN "BLUE" ELSE "ORANGE"
             both == IF g.phase = "play" THEN h ELSE g
         IN  /\ Verdict(moved, loser) = both.phase
             /\ both.phase # "stray" =>
                  OnGrid(moved.arena) /\ both = Seen(moved.arena, both.phase)
             /\ both.phase \in {"play", "stray"} \cup Players
<1> DEFINE dirB == a.pos["BLUE"].currentDirection
           dirO == a.pos["ORANGE"].currentDirection
           blue == move_player(a, Onward(a, "BLUE"), TRUE)
           orange == move_player(blue.arena, Onward(a, "ORANGE"), TRUE)
           moved == passive_move_players(a)
           g == Grid!Step(Seen(a, ph), "BLUE", dirB)
           h == Grid!Step(g, "ORANGE", dirO)
           loser == IF moved.code = 1 THEN "BLUE" ELSE "ORANGE"
           both == IF g.phase = "play" THEN h ELSE g
<1>0. "BLUE" \in Players /\ "ORANGE" \in Players /\ Players = {"BLUE", "ORANGE"}
  BY DEF Players
<1>1. /\ a \in Arena /\ a.pos \in [Players -> PlayerPosition]
      /\ dirB \in Dirs /\ dirO \in Dirs
  BY <1>0 DEF OnGrid, Arena, PlayerPosition
<1>2. /\ Onward(a, "BLUE") = [dir |-> dirB, playerColor |-> "BLUE"]
      /\ Onward(a, "ORANGE") = [dir |-> dirO, playerColor |-> "ORANGE"]
  BY DEF Onward
<1>3. Onward(a, "BLUE") \in MovementInfo /\ Onward(a, "ORANGE") \in MovementInfo
  BY <1>0, <1>1, <1>2 DEF MovementInfo
<1>4. Agrees(blue, g, "BLUE")
  <2>1. ~Ignored(a.pos["BLUE"].currentDirection, dirB, TRUE)
    BY <1>1, OnwardNotIgnored
  <2> QED BY <1>0, <1>1, <1>2, <2>1, MoveIsStep
<1>5. /\ blue.arena \in Arena /\ blue.code \in {0, 1} /\ blue.fault \in BOOLEAN
      /\ blue.arena.pos["ORANGE"] = a.pos["ORANGE"]
  <2>1. Onward(a, "BLUE").playerColor = "BLUE"
    BY <1>2
  <2> QED BY <1>0, <1>1, <1>3, <2>1, MoveOnType
<1>6. /\ orange.arena \in Arena /\ orange.code \in {0, 1} /\ orange.fault \in BOOLEAN
      /\ orange.arena.pos["BLUE"] = blue.arena.pos["BLUE"]
  <2> HIDE DEF blue
  <2>1. Onward(a, "ORANGE").playerColor = "ORANGE"
    BY <1>2
  <2> QED BY <1>0, <1>3, <1>5, <2>1, MoveOnType
<1>7. moved = IF blue.fault THEN blue
              ELSE IF blue.code # 0 THEN [blue EXCEPT !.code = 1]
              ELSE IF orange.code # 0 THEN [orange EXCEPT !.code = 2]
              ELSE orange
  BY DEF passive_move_players
<1>8. /\ blue = [arena |-> blue.arena, code |-> blue.code, fault |-> blue.fault]
      /\ orange = [arena |-> orange.arena, code |-> orange.code, fault |-> orange.fault]
  BY DEF move_player
<1>9. g.phase = "play" => Agrees(orange, h, "ORANGE")
  <2> SUFFICES ASSUME g.phase = "play" PROVE Agrees(orange, h, "ORANGE")
    OBVIOUS
  <2>1. OnGrid(blue.arena) /\ g = Seen(blue.arena, g.phase)
    BY <1>4 DEF Agrees
  <2>2. ~Ignored(blue.arena.pos["ORANGE"].currentDirection, dirO, TRUE)
    BY <1>1, <1>5, OnwardNotIgnored
  <2> HIDE DEF blue, g, dirO
  <2>3. Agrees(move_player(blue.arena, [dir |-> dirO, playerColor |-> "ORANGE"], TRUE),
               Grid!Step(Seen(blue.arena, g.phase), "ORANGE", dirO), "ORANGE")
    BY <1>0, <1>1, <2>1, <2>2, MoveIsStep
  <2> QED BY <1>2, <2>1, <2>3
<1>11. \A x : OnGrid(x) => \A p \in Players : OnMap(x.pos[p])
  BY OnGridOnMap
<1> HIDE DEF blue, orange, moved, g, h, both
<1>12. Verdict(moved, loser) =
         IF moved.fault \/ ~OnMap(moved.arena.pos["BLUE"])
                        \/ ~OnMap(moved.arena.pos["ORANGE"]) THEN "stray"
         ELSE IF moved.code # 0 THEN loser ELSE "play"
  BY <1>0 DEF Verdict
<1>13. CASE g.phase = "stray"
  <2>1. both = g /\ both.phase = "stray"
    BY <1>13 DEF both
  <2>2. blue.fault = TRUE \/ ~OnMap(blue.arena.pos["BLUE"])
    BY <1>4, <1>13 DEF Agrees
  <2>3. moved.fault \/ ~OnMap(moved.arena.pos["BLUE"])
    <3>1. CASE blue.fault
      BY <1>7, <3>1
    <3>2. CASE ~blue.fault
      <4>1. moved.arena = blue.arena \/ moved.arena = orange.arena
        BY <1>7, <1>8
      <4> QED BY <1>6, <2>2, <3>2, <4>1
    <3> QED BY <3>1, <3>2
  <2> QED BY <1>12, <2>1, <2>3 DEF both, moved, g, h
<1>14. CASE g.phase = "BLUE"
  <2>1. both = g /\ both.phase = "BLUE"
    BY <1>14 DEF both
  <2>2. /\ blue.fault = FALSE /\ OnGrid(blue.arena) /\ g = Seen(blue.arena, g.phase)
        /\ blue.code = 1
    BY <1>4, <1>14 DEF Agrees
  <2>3. moved.arena = blue.arena /\ moved.fault = FALSE /\ moved.code = 1
    BY <1>7, <1>8, <2>2
  <2>4. Verdict(moved, loser) = "BLUE"
    BY <1>0, <1>11, <1>12, <2>2, <2>3
  <2> QED BY <1>0, <2>1, <2>2, <2>3, <2>4 DEF both, moved, g, h
<1>15. CASE g.phase = "play"
  <2>1. both = h
    BY <1>15 DEF both
  <2>2. /\ blue.fault = FALSE /\ OnGrid(blue.arena) /\ blue.code = 0
    BY <1>4, <1>15 DEF Agrees
  <2>3. Agrees(orange, h, "ORANGE")
    BY <1>9, <1>15
  <2>4. /\ moved.arena = orange.arena /\ moved.fault = orange.fault
        /\ moved.code = IF orange.code # 0 THEN 2 ELSE 0
    BY <1>6, <1>7, <1>8, <2>2
  <2>5. CASE h.phase = "stray"
    <3>1. Verdict(moved, loser) = "stray"
      BY <1>12, <2>3, <2>4, <2>5 DEF Agrees
    <3> QED BY <2>1, <2>5, <3>1 DEF both, moved, g, h
  <2>6. CASE h.phase # "stray"
    <3>1. /\ orange.fault = FALSE /\ OnGrid(orange.arena) /\ h = Seen(orange.arena, h.phase)
          /\ orange.code = IF h.phase = "play" THEN 0 ELSE 1
          /\ h.phase \in {"play", "ORANGE"}
      BY <2>3, <2>6 DEF Agrees
    <3>2. OnMap(moved.arena.pos["BLUE"]) /\ OnMap(moved.arena.pos["ORANGE"])
      BY <1>0, <1>11, <2>4, <3>1
    <3>3. Verdict(moved, loser) = h.phase
      BY <1>12, <2>4, <3>1, <3>2
    <3>4. OnGrid(moved.arena) /\ h = Seen(moved.arena, h.phase)
      BY <2>4, <3>1
    <3>5. h.phase \in {"play", "stray"} \cup Players
      BY <1>0, <3>1
    <3> QED BY <2>1, <3>3, <3>4, <3>5 DEF both, moved, g, h
  <2> QED BY <2>5, <2>6
<1>16. g.phase \in {"play", "stray", "BLUE"}
  BY <1>4 DEF Agrees
<1> QED
  BY <1>13, <1>14, <1>15, <1>16

-----------------------------------------------------------------------------
(* The invariant *)

\* Sums and differences of multiples
LEMMA MultiplesAdd ==
  ASSUME NEW n \in Nat \ {0}, NEW a \in Nat, NEW b \in Nat, a % n = 0, b % n = 0
  PROVE  (a + b) % n = 0 /\ (b <= a => (a - b) % n = 0)
<1>1. PICK k \in Nat : a = k * n
  BY MultipleOf
<1>2. PICK l \in Nat : b = l * n
  BY MultipleOf
<1>3. (a + b) % n = 0
  <2>1. a + b = (k + l) * n /\ k + l \in Nat
    BY <1>1, <1>2
  <2> QED BY <2>1, OfMultiple
<1>4. ASSUME b <= a PROVE (a - b) % n = 0
  <2>1. CASE l <= k
    <3>1. a - b = (k - l) * n /\ k - l \in Nat
      BY <1>1, <1>2, <2>1
    <3> QED BY <3>1, OfMultiple
  <2>2. CASE k < l
    <3>1. k * n <= l * n
      BY <2>2, TimesMono
    <3>2. a - b = 0 * n
      BY <1>1, <1>2, <1>4, <3>1
    <3> QED BY <3>2, OfMultiple
  <2> QED BY <2>1, <2>2
<1> QED BY <1>3, <1>4

\* A round starts on the grid, on a screen of one colour.
LEMMA StartOnGrid ==
  ASSUME NEW hour \in Nat
  PROVE  OnGrid(start_game(hour))
<1> DEFINE a == start_game(hour)
<1>1. a \in Arena /\ \A i \in Screen : a.vram[i] = Background(hour)
  BY StartGameType
<1>2. Uniform(a.vram)
  <2> HIDE DEF a
  <2> QED BY <1>1, SquareOnScreen DEF Uniform, find_color
<1>3. /\ HRes \div 2 \in Nat /\ VRes \div 2 \in Nat /\ StartGap \in Nat
      /\ StartGap <= HRes \div 2 /\ HRes \in Nat
      /\ HRes \div 2 + StartGap + SIZE_FRONT_END <= HRes
      /\ VRes \div 2 + SIZE_FRONT_END <= VRes
      /\ SIZE_FRONT_END \in Nat \ {0}
  BY ScreenAssumption, GridAssumption
<1>4. /\ (HRes \div 2) % SIZE_FRONT_END = 0 /\ (VRes \div 2) % SIZE_FRONT_END = 0
      /\ StartGap % SIZE_FRONT_END = 0
  BY GridAssumption
<1>5. /\ (HRes \div 2 + StartGap) % SIZE_FRONT_END = 0
      /\ (HRes \div 2 - StartGap) % SIZE_FRONT_END = 0
  BY <1>3, <1>4, MultiplesAdd
<1>6. /\ HRes \div 2 + StartGap \in Nat /\ HRes \div 2 - StartGap \in Nat
      /\ (HRes \div 2 - StartGap) + SIZE_FRONT_END <= HRes
  BY <1>3
<1>7. /\ OnCell(HRes \div 2 - StartGap, VRes \div 2)
      /\ OnCell(HRes \div 2 + StartGap, VRes \div 2)
  BY <1>3, <1>4, <1>5, <1>6, Zenon DEF OnCell
<1>8. \A p \in Players : OnCell(a.pos[p].x, a.pos[p].y)
  <2>1. a.pos = StartPosition
    BY DEF start_game
  <2>2. /\ StartPosition["BLUE"].x = HRes \div 2 - StartGap
        /\ StartPosition["BLUE"].y = VRes \div 2
        /\ StartPosition["ORANGE"].x = HRes \div 2 + StartGap
        /\ StartPosition["ORANGE"].y = VRes \div 2
    BY DEF StartPosition, Players
  <2> HIDE DEF a
  <2> QED BY <1>7, <2>1, <2>2 DEF Players
<1> QED
  BY <1>1, <1>2, <1>8 DEF OnGrid

\* A turn that is not dropped is a step; the verdict is the one of the game.
LEMMA TurnIsStep ==
  ASSUME NEW a, OnGrid(a), NEW p \in Players, NEW d \in Dirs, NEW ph,
         ~Ignored(a.pos[p].currentDirection, d, FALSE)
  PROVE  LET moved == move_player(a, [dir |-> d, playerColor |-> p], FALSE)
             g == Grid!Step(Seen(a, ph), p, d)
         IN  /\ Verdict(moved, p) = g.phase
             /\ g.phase # "stray" =>
                  OnGrid(moved.arena) /\ g = Seen(moved.arena, g.phase)
<1> DEFINE moved == move_player(a, [dir |-> d, playerColor |-> p], FALSE)
           g == Grid!Step(Seen(a, ph), p, d)
<1>1. Agrees(moved, g, p)
  BY MoveIsStep
<1> HIDE DEF moved, g
<1>2. CASE g.phase = "stray"
  BY <1>1, <1>2 DEF Agrees, Verdict, moved, g
<1>3. CASE g.phase # "stray"
  <2>1. /\ moved.fault = FALSE /\ OnGrid(moved.arena) /\ g = Seen(moved.arena, g.phase)
        /\ moved.code = IF g.phase = "play" THEN 0 ELSE 1
        /\ g.phase \in {"play", p}
    BY <1>1, <1>3 DEF Agrees
  <2>2. \A o \in Players : OnMap(moved.arena.pos[o])
    BY <2>1, OnGridOnMap
  <2>3. Verdict(moved, p) = g.phase
    BY <2>1, <2>2 DEF Verdict
  <2> QED BY <2>1, <2>3 DEF moved, g
<1> QED BY <1>2, <1>3

\* A turn that is dropped changes nothing.
LEMMA DroppedTurn ==
  ASSUME NEW a, OnGrid(a), NEW p \in Players, NEW d \in Dirs,
         Ignored(a.pos[p].currentDirection, d, FALSE)
  PROVE  LET moved == move_player(a, [dir |-> d, playerColor |-> p], FALSE)
         IN  moved.arena = a /\ Verdict(moved, p) = "play"
<1> DEFINE moved == move_player(a, [dir |-> d, playerColor |-> p], FALSE)
<1>1. moved.arena = a /\ moved.code = 0 /\ moved.fault = FALSE
  BY DEF move_player
<1> HIDE DEF moved
<1>2. \A o \in Players : OnMap(moved.arena.pos[o])
  BY <1>1, OnGridOnMap
<1>3. Verdict(moved, p) = "play"
  BY <1>1, <1>2 DEF Verdict
<1> QED
  BY <1>1, <1>3 DEF moved

MInv == TypeOK /\ (phase = "play" => OnGrid(arena))

LEMMA InitMInv == Init => MInv
<1>1. [vram |-> [i \in Memory |-> Black],
       pos |-> [p \in Players |->
                  [x |-> 0, y |-> 0, currentDirection |-> "UP"]]] \in Arena
  BY ScreenAssumption DEF Arena, Colors, PlayerPosition, Word, Dirs
<1> QED
  BY <1>1 DEF Init, MInv, TypeOK

LEMMA StartMInv == MInv /\ Start => MInv'
<1> SUFFICES ASSUME MInv, Start PROVE MInv'
  OBVIOUS
<1>1. PICK hour \in Hours : arena' = start_game(hour)
  BY DEF Start
<1>2. hour \in Nat
  BY HoursAssumption
<1>3. OnGrid(arena')
  BY <1>1, <1>2, StartOnGrid
<1>4. arena' \in Arena /\ phase' = "play"
  BY <1>3 DEF OnGrid, Start
<1> QED
  BY <1>3, <1>4 DEF MInv, TypeOK

LEMMA VerdictType ==
  ASSUME NEW moved, NEW loser \in Players
  PROVE  Verdict(moved, loser) \in {"idle", "play", "stray"} \cup Players
BY DEF Verdict

LEMMA TickMInv == MInv /\ Tick => MInv'
<1> SUFFICES ASSUME MInv, Tick PROVE MInv'
  OBVIOUS
<1> DEFINE moved == passive_move_players(arena)
           loser == IF moved.code = 1 THEN "BLUE" ELSE "ORANGE"
<1>1. OnGrid(arena) /\ arena \in Arena
  BY DEF MInv, TypeOK, Tick
<1>2. arena' = moved.arena /\ phase' = Verdict(moved, loser)
  BY DEF Tick
<1>3. moved.arena \in Arena
  BY <1>1, PassiveType
<1>4. loser \in Players
  BY DEF Players
<1>5. Verdict(moved, loser) = "play" => OnGrid(moved.arena)
  BY <1>1, PassiveIsBoth
<1> HIDE DEF moved, loser
<1> QED
  BY <1>2, <1>3, <1>4, <1>5, VerdictType DEF MInv, TypeOK

LEMMA TurnMInv ==
  ASSUME MInv, NEW p \in Players, NEW d \in Dirs, Turn(p, d)
  PROVE  MInv'
<1> DEFINE m == [dir |-> d, playerColor |-> p]
           moved == move_player(arena, m, FALSE)
<1>1. OnGrid(arena) /\ arena \in Arena
  BY DEF MInv, TypeOK, Turn
<1>2. arena' = moved.arena /\ phase' = Verdict(moved, p)
  BY DEF Turn
<1>3. moved.arena \in Arena
  <2>1. m \in MovementInfo
    BY DEF MovementInfo
  <2> HIDE DEF m
  <2> QED BY <1>1, <2>1, TurnType
<1>4. Verdict(moved, p) = "play" => OnGrid(moved.arena)
  <2>1. CASE Ignored(arena.pos[p].currentDirection, d, FALSE)
    BY <1>1, <2>1, DroppedTurn
  <2>2. CASE ~Ignored(arena.pos[p].currentDirection, d, FALSE)
    BY <1>1, <2>2, TurnIsStep
  <2> QED BY <2>1, <2>2
<1> HIDE DEF moved
<1> QED
  BY <1>2, <1>3, <1>4, VerdictType DEF MInv, TypeOK

LEMMA NextMInv == MInv /\ [Next]_vars => MInv'
<1> SUFFICES ASSUME MInv, [Next]_vars PROVE MInv'
  OBVIOUS
<1>1. CASE Start
  BY <1>1, StartMInv
<1>2. CASE Tick
  BY <1>2, TickMInv
<1>3. CASE \E p \in Players, d \in Dirs : Turn(p, d)
  BY <1>3, TurnMInv
<1>4. CASE UNCHANGED vars
  BY <1>4 DEF vars, MInv, TypeOK
<1> QED
  BY <1>1, <1>2, <1>3, <1>4 DEF Next

LEMMA AlwaysMInv == Spec => []MInv
BY InitMInv, NextMInv, PTL DEF Spec

\* The frame buffer keeps its colours and the cycles their words, whatever
\* is played and whenever a cycle leaves the map.
THEOREM TypeCorrect == Spec => []TypeOK
<1>1. MInv => TypeOK
  BY DEF MInv
<1> QED
  BY <1>1, AlwaysMInv, PTL

\* While a round is played the pixel that vg_draw_rectangle tests speaks for
\* the square it is about to paint (video_gr.c:120), by day and by night.
THEOREM OnePixelIsEnough == Spec => []BlocksAreUniform
<1>1. MInv => BlocksAreUniform
  <2> SUFFICES ASSUME MInv, phase = "play"
               PROVE  /\ \A p \in Players : Aligned(arena.pos[p])
                      /\ \A q \in Origins : \A i \in Square(q[1], q[2]) :
                           arena.vram[i] = find_color(arena.vram, q[1], q[2])
    BY DEF BlocksAreUniform
  <2>1. OnGrid(arena)
    BY DEF MInv
  <2>2. ASSUME NEW p \in Players PROVE Aligned(arena.pos[p])
    <3>1. arena.pos[p] \in PlayerPosition /\ OnCell(arena.pos[p].x, arena.pos[p].y)
      BY <2>1 DEF OnGrid, Arena
    <3> QED BY <3>1, OnCellMeans
  <2>3. ASSUME NEW q \in Origins, NEW i \in Square(q[1], q[2])
        PROVE  arena.vram[i] = find_color(arena.vram, q[1], q[2])
    <3>1. OnCell(q[1], q[2])
      BY OriginsAreCells
    <3> QED BY <2>1, <3>1 DEF OnGrid, Uniform
  <2> QED BY <2>2, <2>3
<1> QED
  BY <1>1, AlwaysMInv, PTL

-----------------------------------------------------------------------------
(* By day the code plays LightCycle. *)

\* A white background would count as a wall.
ByDay == \A hour \in Hours : Background(hour) = Black

LEMMA BlackHasNoWall ==
  ASSUME NEW vram, \A i \in Screen : vram[i] = Black
  PROVE  Wall(vram) = {}
<1>1. \A x, y : OnCell(x, y) => find_color(vram, x, y) = Black
  BY SquareOnScreen DEF find_color
<1>2. \A e : e \notin Wall(vram)
  BY <1>1, WallMember
<1> QED
  BY <1>2

LEMMA StartHasNoWall ==
  ASSUME NEW hour \in Nat, Background(hour) = Black
  PROVE  Wall(start_game(hour).vram) = {}
<1> DEFINE vram == start_game(hour).vram
<1>1. \A i \in Screen : vram[i] = Black
  BY StartGameType
<1> HIDE DEF vram
<1>2. Wall(vram) = {}
  BY <1>1, BlackHasNoWall
<1> QED
  BY <1>2 DEF vram

\* What the refinement mapping makes of an arena
LEMMA SeenStart ==
  ASSUME NEW hour \in Nat, Background(hour) = Black
  PROVE  LET a == start_game(hour)
         IN  /\ [p \in Players |-> Cell(a.pos[p])]
                  = [p \in Players |-> Cell(StartPosition[p])]
             /\ [p \in Players |-> a.pos[p].currentDirection]
                  = [p \in Players |-> StartPosition[p].currentDirection]
             /\ Wall(a.vram) = {}
<1>1. start_game(hour).pos = StartPosition
  BY DEF start_game
<1> QED
  BY <1>1, StartHasNoWall

LEMMA InitRefines == Init => Grid!Init
<1> SUFFICES ASSUME Init PROVE Grid!Init
  OBVIOUS
<1>1. /\ arena.vram = [i \in Memory |-> Black] /\ phase = "idle"
      /\ \A p \in Players : /\ arena.pos[p].x = 0 /\ arena.pos[p].y = 0
                             /\ arena.pos[p].currentDirection = "UP"
  BY DEF Init
<1>2. Wall(arena.vram) = {}
  <2>1. \A i \in Screen : i \in Memory
    BY ScreenInMemory
  <2>2. \A i \in Screen : arena.vram[i] = Black
    BY <1>1, <2>1
  <2> QED BY <2>2, BlackHasNoWall
<1>3. \A p \in Players : Cell(arena.pos[p]) = CellAt(0, 0)
  BY <1>1 DEF Cell, CellAt
<1>4. CellAt(0, 0) \in Grid!Grid
  <2>1. \A n \in Nat \ {0} : 0 % n = 0
    OBVIOUS
  <2>2. SIZE_FRONT_END <= HRes /\ SIZE_FRONT_END <= VRes
    BY ScreenAssumption, GridAssumption
  <2>3. OnCell(0, 0)
    BY <2>1, <2>2, CellAssumption DEF OnCell
  <2> QED BY <2>3, CellInGrid
<1>5. /\ [p \in Players |-> Cell(arena.pos[p])] \in [Grid!Players -> Grid!Grid]
      /\ [p \in Players |-> arena.pos[p].currentDirection] \in [Grid!Players -> Grid!Dirs]
  BY <1>1, <1>3, <1>4 DEF Players, Grid!Players, Grid!Dirs
<1> QED
  BY <1>1, <1>2, <1>5, Zenon DEF Grid!Init, Wall

LEMMA StartRefines ==
  ASSUME ByDay, Start
  PROVE  Grid!Start
<1>1. PICK hour \in Hours : arena' = start_game(hour)
  BY DEF Start
<1>2. hour \in Nat /\ Background(hour) = Black
  BY HoursAssumption DEF ByDay
<1>3. /\ [p \in Players |-> Cell(arena'.pos[p])]
           = [p \in Players |-> Cell(StartPosition[p])]
      /\ [p \in Players |-> arena'.pos[p].currentDirection]
           = [p \in Players |-> StartPosition[p].currentDirection]
      /\ Wall(arena'.vram) = {}
  BY <1>1, <1>2, SeenStart
<1>4. phase # "play" /\ phase' = "play"
  BY DEF Start
<1> QED
  BY <1>3, <1>4, Zenon DEF Grid!Start, Wall

LEMMA RoundIsSeen == Grid!Round = Seen(arena, phase)
BY DEF Grid!Round, Seen, Wall

LEMMA TickRefines ==
  ASSUME MInv, Tick
  PROVE  Grid!Tick
<1> DEFINE moved == passive_move_players(arena)
           loser == IF moved.code = 1 THEN "BLUE" ELSE "ORANGE"
           g == Grid!Step(Seen(arena, phase), "BLUE", arena.pos["BLUE"].currentDirection)
           h == Grid!Step(g, "ORANGE", arena.pos["ORANGE"].currentDirection)
           both == IF g.phase = "play" THEN h ELSE g
<1>1. OnGrid(arena) /\ phase = "play"
  BY DEF MInv, Tick
<1>2. arena' = moved.arena /\ phase' = Verdict(moved, loser)
  BY DEF Tick
<1>3. /\ Verdict(moved, loser) = both.phase
      /\ both.phase # "stray" => both = Seen(moved.arena, both.phase)
  BY <1>1, PassiveIsBoth
<1>4. Grid!Both("BLUE") = both
  <2>1. /\ "BLUE" \in Players /\ "ORANGE" \in Players
        /\ Grid!Other("BLUE") = "ORANGE"
    BY DEF Players, Grid!Other
  <2>2. /\ [p \in Players |-> arena.pos[p].currentDirection]["BLUE"]
             = arena.pos["BLUE"].currentDirection
        /\ [p \in Players |-> arena.pos[p].currentDirection]["ORANGE"]
             = arena.pos["ORANGE"].currentDirection
    BY <2>1
  <2> QED
    BY <2>1, <2>2, RoundIsSeen, Zenon DEF Grid!Both
<1> DEFINE now == Grid!Both("BLUE")
<1> HIDE DEF moved, both, g, h, now
<1>5. Grid!Becomes(now)
  <2>1. /\ phase' = now.phase
        /\ now.phase # "stray" => now = Seen(arena', now.phase)
    BY <1>2, <1>3, <1>4 DEF now
  <2>2. now.phase # "stray" =>
          /\ now.head = [p \in Players |-> Cell(arena'.pos[p])]
          /\ now.heading = [p \in Players |-> arena'.pos[p].currentDirection]
          /\ now.wall = Wall(arena'.vram)
    BY <2>1 DEF Seen
  <2> QED BY <2>1, <2>2, Zenon DEF Grid!Becomes, Wall
<1>6. "BLUE" \in Grid!Players
  BY DEF Grid!Players
<1>7. Grid!Becomes(Grid!Both("BLUE"))
  BY <1>5 DEF now
<1>8. \E first \in Grid!Players : Grid!Becomes(Grid!Both(first))
  BY <1>6, <1>7, Zenon DEF Grid!Becomes
<1> QED
  BY <1>1, <1>8 DEF Grid!Tick

\* A turn is a turn of the game, or nothing happens.
LEMMA TurnRefines ==
  ASSUME MInv, NEW p \in Players, NEW d \in Dirs, Turn(p, d)
  PROVE  Grid!Turn \/ UNCHANGED vars
<1> DEFINE moved == move_player(arena, [dir |-> d, playerColor |-> p], FALSE)
           g == Grid!Step(Seen(arena, phase), p, d)
           cur == arena.pos[p].currentDirection
<1>1. OnGrid(arena) /\ phase = "play"
  BY DEF MInv, Turn
<1>2. arena' = moved.arena /\ phase' = Verdict(moved, p)
  BY DEF Turn
<1>3. CASE Ignored(cur, d, FALSE)
  <2>1. moved.arena = arena /\ Verdict(moved, p) = "play"
    BY <1>1, <1>3, DroppedTurn
  <2> QED BY <1>1, <1>2, <2>1 DEF vars
<1>4. CASE ~Ignored(cur, d, FALSE)
  <2>1. /\ Verdict(moved, p) = g.phase
        /\ g.phase # "stray" => g = Seen(moved.arena, g.phase)
    BY <1>1, <1>4, TurnIsStep
  <2>2. cur \in Dirs
    BY <1>1 DEF OnGrid, Arena, PlayerPosition
  <2> HIDE DEF moved
  <2> DEFINE now == Grid!Step(Grid!Round, p, d)
  <2>3. now = g
    BY RoundIsSeen, Zenon
  <2>4. d \notin {cur, Grid!Reverse(cur)}
    <3> HIDE DEF cur
    <3> QED BY <1>4, <2>2 DEF Ignored, opposite, Grid!Reverse, Dirs
  <2>5. [o \in Players |-> arena.pos[o].currentDirection][p] = cur
    OBVIOUS
  <2>6. p \in Grid!Players /\ d \in Grid!Dirs
    BY DEF Players, Dirs, Grid!Players, Grid!Dirs
  <2> HIDE DEF now, g
  <2>7. Grid!Becomes(now)
    <3>1. /\ phase' = now.phase
          /\ now.phase # "stray" => now = Seen(arena', now.phase)
      BY <1>2, <2>1, <2>3
    <3>2. now.phase # "stray" =>
            /\ now.head = [o \in Players |-> Cell(arena'.pos[o])]
            /\ now.heading = [o \in Players |-> arena'.pos[o].currentDirection]
            /\ now.wall = Wall(arena'.vram)
      BY <3>1 DEF Seen
    <3> QED BY <3>1, <3>2, Zenon DEF Grid!Becomes, Wall
  <2>8. Grid!Becomes(Grid!Step(Grid!Round, p, d))
    BY <2>7 DEF now
  <2> QED
    BY <1>1, <2>4, <2>5, <2>6, <2>8, Zenon DEF Grid!Turn
<1> QED
  BY <1>3, <1>4

\* While both cycles are on the map, what video_gr.c paints and finds by day
\* is the game on the grid: looking at one pixel of a frame buffer indexed
\* in uint16_t arithmetic finds exactly the collisions of LightCycle.
THEOREM CodePlaysLightCycle ==
  ASSUME ByDay
  PROVE  Spec => PlaysLightCycle
<1>1. MInv /\ [Next]_vars => [Grid!Next]_(Grid!vars)
  <2> SUFFICES ASSUME MInv, [Next]_vars PROVE [Grid!Next]_(Grid!vars)
    OBVIOUS
  <2>1. CASE Start
    BY <2>1, StartRefines DEF Grid!Next
  <2>2. CASE Tick
    BY <2>2, TickRefines DEF Grid!Next
  <2>3. ASSUME UNCHANGED vars PROVE UNCHANGED Grid!vars
    BY <2>3 DEF vars, Grid!vars
  <2>4. CASE \E p \in Players, d \in Dirs : Turn(p, d)
    BY <2>3, <2>4, TurnRefines DEF Grid!Next
  <2> QED
    BY <2>1, <2>2, <2>3, <2>4 DEF Next
<1> QED
  BY <1>1, InitRefines, AlwaysMInv, PTL DEF Spec, PlaysLightCycle, Grid!Spec
=============================================================================
