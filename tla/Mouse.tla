-------------------------------- MODULE Mouse --------------------------------
(***************************************************************************)
(* The mouse in the menus: mouse_ih and parse_mouse_bytes of               *)
(* proj/src/mouse.c, the assembling of packets that proj/src/main.c does   *)
(* in each of its three menus, and the cursor of proj/src/video_gr.c.      *)
(*                                                                         *)
(* The device sends packets of three bytes.  A byte that arrives while a   *)
(* menu is shown raises mouse_ih; mouse_ih may refuse it, and the loop     *)
(* then goes on with the byte it had before.  Bytes that arrive on another *)
(* screen are never seen by it, and kbc_ih would refuse them.  The three   *)
(* menus differ in the picture they redraw only and are one screen here.   *)
(***************************************************************************)
EXTENDS Keyboard, Sequences

CONSTANTS
  HRes, VRes,   \* the screen                                    [800, 600]
  U16,          \* values of a uint16_t                             [65536]
  Margin,       \* the cursor keeps off the edges by this much         [30]
  Entries,      \* the rectangles of the menu entries
  Packets,      \* packets the device may send, three bytes each
  Statuses      \* values of the status register seen by mouse_ih

Choices == {"S_GAME", "M_GAME", "QUIT"}
Byte == 0 .. 255
Bit(b, n) == (b \div 2 ^ n) % 2 = 1

\* The device sets bit 3 of every first byte.
ASSUME MouseAssumption ==
  /\ HRes \in Nat /\ VRes \in Nat /\ Margin \in Nat /\ U16 \in Nat
  /\ 2 * Margin <= HRes /\ HRes < U16
  /\ 2 * Margin <= VRes /\ VRes < U16
  /\ 256 <= U16
  /\ Entries \in [Choices -> [x1 : Nat, y1 : Nat, x2 : Nat, y2 : Nat]]
  /\ Packets \subseteq [1 .. 3 -> Byte]
  /\ \A p \in Packets : Bit(p[1], 3)
  /\ Statuses \subseteq KbcStatus

VARIABLES
  screenState,    \* "MENU", or what was chosen there
  byteFromMouse,  \* last byte that mouse_ih has accepted
  bytes,          \* pp.bytes[0 .. counter - 1]
  mouse           \* the cursor

VARIABLES  \* the device, and a history variable
  packet, sent,   \* the packet being sent, and how many bytes of it were
  quiet           \* good bytes in a row that could not mislead, up to Settle

\* As many of them bring any loop back in step.
Settle == 4

program == <<screenState, byteFromMouse, bytes, mouse>>
vars == <<program, packet, sent, quiet>>

-----------------------------------------------------------------------------
Plus16(a, b) == (a + b) % U16

\* mouse_ih
Good(status) ==
  {"OUT_FULL", "AUX"} \subseteq status /\ status \cap {"PAR_ERR", "TO_ERR"} = {}
mouse_ih(status, temp) == IF Good(status) THEN temp ELSE byteFromMouse

\* mutant: the first byte of a packet is not looked at
StoreAny(collected, b) == Append(collected, b)

\* A first byte is recognised by its bit 3; nothing is asked of the others.
Store(collected, b) ==
  IF collected = << >> /\ ~Bit(b, 3) THEN collected ELSE Append(collected, b)

\* A delta of nine bits, the sign in the first byte, as the uint16_t in which
\* mouseMovement gets it
Delta(negative, b) == IF negative THEN U16 - 256 + b ELSE b

\* mutant: the wrong bit is taken for the left button
ParseBit3(bs) == [lb |-> Bit(bs[1], 3), delta_x |-> Delta(Bit(bs[1], 4), bs[2]),
                  delta_y |-> Delta(Bit(bs[1], 5), bs[3])]

\* parse_mouse_bytes
parse_mouse_bytes(bs) ==
  [lb |-> Bit(bs[1], 0),
   delta_x |-> Delta(Bit(bs[1], 4), bs[2]),
   delta_y |-> Delta(Bit(bs[1], 5), bs[3])]

\* mutant: no lower bound
ClampUpper(v, res) == IF v >= res - Margin THEN res - Margin ELSE v

\* The bounds are tested in this order: a cursor that has wrapped around
\* below zero is beyond the upper one.
Clamp(v, res) ==
  LET w == IF v >= res - Margin THEN res - Margin ELSE v
  IN  IF w <= Margin THEN Margin ELSE w

\* mutant: the cursor is neither wrapped nor clamped
FreeMovement(m, x, y) == [x |-> m.x + x, y |-> m.y - y]

mouseMovement(m, x, y) ==
  [x |-> Clamp(Plus16(m.x, x), HRes), y |-> Clamp(Plus16(m.y, U16 - y), VRes)]

mouseInPlace(m, r) == m.x >= r.x1 /\ m.x <= r.x2 /\ m.y >= r.y1 /\ m.y <= r.y2

\* The entry that a packet with the cursor at m chooses
ChosenEntry(pp, m) ==
  LET over == {c \in Choices : pp.lb /\ mouseInPlace(m, Entries[c])}
  IN  IF "S_GAME" \in over THEN "S_GAME"
      ELSE IF "M_GAME" \in over THEN "M_GAME"
      ELSE IF "QUIT" \in over THEN "QUIT" ELSE "MENU"

-----------------------------------------------------------------------------
Init ==
  /\ screenState = "MENU" /\ byteFromMouse = 0 /\ bytes = << >>
  /\ mouse = [x |-> HRes \div 2, y |-> VRes \div 2]
  /\ packet \in Packets /\ sent = 0 /\ quiet = Settle

\* The device goes on to its next byte, perhaps of a new packet.
Send ==
  \/ sent < 2 /\ sent' = sent + 1 /\ UNCHANGED packet
  \/ sent = 2 /\ sent' = 0 /\ packet' \in Packets

\* Bytes count towards Settle from the last one that was refused or not heard,
\* or that is a delta but has the bit of a first byte, as -1 to -8 have and 8
\* to 15.  Once in step the loop is not misled by such a delta any more.
Quiet(status) ==
  IF ~Good(status) THEN 0
  ELSE IF quiet = Settle THEN Settle
  ELSE IF sent # 0 /\ Bit(packet[sent + 1], 3) THEN 0
  ELSE quiet + 1

\* A mouse interrupt in a menu.  The third byte completes a packet.
MouseInterrupt(status) ==
  LET b == mouse_ih(status, packet[sent + 1])
      collected == Store(bytes, b)
      pp == parse_mouse_bytes(collected)
  IN  /\ screenState = "MENU"
      /\ byteFromMouse' = b
      /\ IF Len(collected) < 3
           THEN bytes' = collected /\ UNCHANGED <<screenState, mouse>>
           ELSE /\ bytes' = << >>
                /\ mouse' = mouseMovement(mouse, pp.delta_x, pp.delta_y)
                /\ screenState' = ChosenEntry(pp, mouse')
      /\ quiet' = Quiet(status)
      /\ Send

\* A byte that no menu listens to
Unheard ==
  /\ screenState \in {"S_GAME", "M_GAME"}
  /\ quiet' = 0
  /\ Send
  /\ UNCHANGED program

\* The round is over
Back ==
  /\ screenState = "S_GAME" /\ screenState' = "MENU"
  /\ UNCHANGED <<byteFromMouse, bytes, mouse, packet, sent, quiet>>

Next == (\E status \in Statuses : MouseInterrupt(status)) \/ Unheard \/ Back

Spec == Init /\ [][Next]_vars

-----------------------------------------------------------------------------
(* Properties *)

TypeOK ==
  /\ screenState \in Choices \cup {"MENU"}
  /\ byteFromMouse \in Byte
  /\ bytes \in Seq(Byte) /\ Len(bytes) < 3
  /\ mouse \in [x : 0 .. (U16 - 1), y : 0 .. (U16 - 1)]
  /\ packet \in Packets /\ sent \in 0 .. 2 /\ quiet \in 0 .. Settle

\* Whatever bytes arrive, in step or not, the cursor stays off the edges, so
\* that drawing it never leaves the screen (video_gr.c:290-309): the sums
\* wrap around, but the clamp catches what they wrap to.
CursorInside ==
  /\ mouse.x \in Margin .. (HRes - Margin)
  /\ mouse.y \in Margin .. (VRes - Margin)

\* A loop that has lost its place finds it again: after four good bytes in a
\* row of which no delta looks like a first byte, the bytes collected are the
\* ones of the packet being sent.  They stay so whatever deltas follow, up to
\* the next byte that is refused or not heard (main.c:101-106).  Nothing is
\* said of a mouse that keeps moving by -1 to -8 or by 8 to 15: it may keep
\* the loop out of step.
BackInStep ==
  screenState = "MENU" /\ quiet = Settle =>
    Len(bytes) = sent /\ \A i \in 1 .. sent : bytes[i] = packet[i]

\* In that case, and undisturbed since, an entry is chosen only by a packet
\* with the button down that leaves the cursor over it (main.c:110-118).
ChosenByClick ==
  [][screenState = "MENU" /\ screenState' # "MENU" /\ quiet = Settle /\ quiet' = Settle
       => Bit(packet[1], 0) /\ mouseInPlace(mouse', Entries[screenState'])]_vars
=============================================================================
