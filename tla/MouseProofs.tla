---------------------------- MODULE MouseProofs ----------------------------
(***************************************************************************)
(* The cursor stays inside, whatever the device sends and however much of  *)
(* it is lost.  A loop that has lost its place finds it within four good   *)
(* bytes of which no delta can be taken for a first byte, and from then on *)
(* only a click over an entry chooses it.                                  *)
(***************************************************************************)
EXTENDS Mouse, TLAPS

\* The clamp of one coordinate
LEMMA ClampRange ==
  ASSUME NEW v \in Nat, NEW res \in Nat, 2 * Margin <= res
  PROVE  Clamp(v, res) \in Margin .. (res - Margin)
BY MouseAssumption DEF Clamp

\* Sums of words are words.
LEMMA Plus16Type ==
  ASSUME NEW a \in Int, NEW b \in Int
  PROVE  Plus16(a, b) \in Nat
BY MouseAssumption DEF Plus16

\* Bytes stay bytes: what mouse_ih hands over, and what is stored
ByteInv ==
  /\ byteFromMouse \in Byte
  /\ bytes \in Seq(Byte) /\ Len(bytes) < 3
  /\ packet \in [1 .. 3 -> Byte] /\ sent \in 0 .. 2

IInv == ByteInv /\ CursorInside

LEMMA ParseType ==
  ASSUME NEW bs \in Seq(Byte), Len(bs) = 3
  PROVE  /\ parse_mouse_bytes(bs).delta_x \in Int
         /\ parse_mouse_bytes(bs).delta_y \in Int
<1>1. \A i \in 1 .. Len(bs) : bs[i] \in Byte
  OBVIOUS
<1>2. bs[2] \in Byte /\ bs[3] \in Byte
  BY <1>1
<1>3. bs[2] \in Int /\ bs[3] \in Int
  <2>1. \A v \in Byte : v \in Int
    BY DEF Byte
  <2> QED
    BY <1>2, <2>1, Zenon
<1>4. U16 - 256 + bs[2] \in Int /\ U16 - 256 + bs[3] \in Int
  BY <1>3, MouseAssumption
<1>5. /\ parse_mouse_bytes(bs).delta_x \in {bs[2], U16 - 256 + bs[2]}
      /\ parse_mouse_bytes(bs).delta_y \in {bs[3], U16 - 256 + bs[3]}
  BY DEF parse_mouse_bytes, Delta
<1> QED
  BY <1>3, <1>4, <1>5, Zenon

LEMMA InitInv == Init => IInv
<1> SUFFICES ASSUME Init PROVE IInv
  OBVIOUS
<1>1. ByteInv
  BY MouseAssumption DEF Init, ByteInv, Byte
<1>2. CursorInside
  BY MouseAssumption DEF Init, CursorInside
<1> QED
  BY <1>1, <1>2 DEF IInv

LEMMA MouseInterruptInv ==
  ASSUME IInv, NEW status \in Statuses, MouseInterrupt(status)
  PROVE  IInv'
<1> DEFINE b == mouse_ih(status, packet[sent + 1])
           collected == Store(bytes, b)
           pp == parse_mouse_bytes(collected)
<1>1. b \in Byte
  BY DEF mouse_ih, IInv, ByteInv
<1>2. collected \in Seq(Byte) /\ Len(collected) <= 3
  BY <1>1 DEF Store, IInv, ByteInv
<1>3. packet' \in [1 .. 3 -> Byte] /\ sent' \in 0 .. 2
  BY MouseAssumption DEF MouseInterrupt, Send, IInv, ByteInv
<1>4. CASE Len(collected) < 3
  <2>1. bytes' = collected /\ byteFromMouse' = b /\ mouse' = mouse
    BY <1>4 DEF MouseInterrupt
  <2> HIDE DEF collected, b
  <2> QED
    BY <1>1, <1>2, <1>3, <1>4, <2>1 DEF IInv, ByteInv, CursorInside
<1>5. CASE ~(Len(collected) < 3)
  <2>1. /\ bytes' = << >> /\ byteFromMouse' = b
        /\ mouse' = mouseMovement(mouse, pp.delta_x, pp.delta_y)
    BY <1>5 DEF MouseInterrupt
  <2>2. Len(collected) = 3
    <3> HIDE DEF collected
    <3>1. Len(collected) \in Nat
      BY <1>2
    <3>2. \A n \in Nat : n <= 3 /\ ~(n < 3) => n = 3
      OBVIOUS
    <3> QED BY <1>2, <1>5, <3>1, <3>2, Zenon
  <2>3. pp.delta_x \in Int /\ pp.delta_y \in Int
    <3> HIDE DEF collected
    <3> QED BY <1>2, <2>2, ParseType
  <2>4. mouse.x \in Int /\ mouse.y \in Int
    BY MouseAssumption DEF IInv, CursorInside
  <2> HIDE DEF pp, collected, b
  <2>5. Plus16(mouse.x, pp.delta_x) \in Nat /\ Plus16(mouse.y, U16 - pp.delta_y) \in Nat
    <3>1. U16 - pp.delta_y \in Int
      BY <2>3, MouseAssumption
    <3> QED
      BY <2>3, <2>4, <3>1, Plus16Type
  <2>6. /\ mouse'.x = Clamp(Plus16(mouse.x, pp.delta_x), HRes)
        /\ mouse'.y = Clamp(Plus16(mouse.y, U16 - pp.delta_y), VRes)
    BY <2>1 DEF mouseMovement
  <2>7. CursorInside'
    BY <2>5, <2>6, ClampRange, MouseAssumption DEF CursorInside
  <2>8. ByteInv'
    BY <1>1, <1>3, <2>1 DEF ByteInv
  <2> QED
    BY <2>7, <2>8 DEF IInv
<1> QED
  BY <1>4, <1>5

LEMMA NextInv == IInv /\ [Next]_vars => IInv'
<1> SUFFICES ASSUME IInv, [Next]_vars PROVE IInv'
  OBVIOUS
<1>1. CASE \E status \in Statuses : MouseInterrupt(status)
  BY <1>1, MouseInterruptInv
<1>2. CASE Unheard
  <2>1. packet' \in [1 .. 3 -> Byte] /\ sent' \in 0 .. 2
    BY <1>2, MouseAssumption DEF Unheard, Send, IInv, ByteInv
  <2> QED
    BY <1>2, <2>1 DEF Unheard, program, IInv, ByteInv, CursorInside
<1>3. CASE Back
  BY <1>3 DEF Back, IInv, ByteInv, CursorInside
<1>4. CASE UNCHANGED vars
  BY <1>4 DEF vars, program, IInv, ByteInv, CursorInside
<1> QED
  BY <1>1, <1>2, <1>3, <1>4 DEF Next

\* The cursor keeps off the edges by Margin, although mouseMovement adds in
\* uint16_t and a step beyond the left edge wraps around: whatever packets
\* are sent, refused or lost, for every screen of at least two margins.
THEOREM CursorStaysInside == Spec => []CursorInside
<1>1. Spec => []IInv
  BY InitInv, NextInv, PTL DEF Spec
<1>2. IInv => CursorInside
  BY DEF IInv
<1> QED
  BY <1>1, <1>2, PTL

-----------------------------------------------------------------------------
(* What is in the state *)

Types == /\ screenState \in Choices \cup {"MENU"}
         /\ packet \in Packets /\ quiet \in 0 .. Settle
         /\ mouse \in [x : Int, y : Int]

LEMMA ChosenEntryType ==
  ASSUME NEW pp, NEW m
  PROVE  ChosenEntry(pp, m) \in Choices \cup {"MENU"}
BY DEF ChosenEntry, Choices

\* What a mouse interrupt does to the screen and to the cursor
LEMMA MouseInterruptTypes ==
  ASSUME IInv, Types, NEW status \in Statuses, MouseInterrupt(status), IInv'
  PROVE  Types'
<1>1. screenState' \in Choices \cup {"MENU"}
  BY ChosenEntryType DEF MouseInterrupt, Types
<1>2. packet' \in Packets
  BY DEF MouseInterrupt, Send, Types
<1>3. quiet' \in 0 .. Settle
  BY DEF MouseInterrupt, Quiet, Settle, Types
<1>4. mouse' \in [x : Int, y : Int]
  <2>1. CursorInside'
    BY DEF IInv
  <2>2. mouse'.x \in Int /\ mouse'.y \in Int
    BY <2>1, MouseAssumption DEF CursorInside
  <2>3. mouse' = mouse \/ \E x, y : mouse' = mouseMovement(mouse, x, y)
    BY DEF MouseInterrupt
  <2> QED
    BY <2>2, <2>3 DEF mouseMovement, Types
<1> QED
  BY <1>1, <1>2, <1>3, <1>4 DEF Types

LEMMA InitTypes == Init => Types
BY MouseAssumption DEF Init, Types, Settle

LEMMA NextTypes == IInv /\ Types /\ [Next]_vars => Types'
<1> SUFFICES ASSUME IInv, Types, [Next]_vars PROVE Types'
  OBVIOUS
<1>1. CASE \E status \in Statuses : MouseInterrupt(status)
  BY <1>1, MouseInterruptTypes, MouseInterruptInv
<1>2. CASE Unheard
  BY <1>2 DEF Unheard, Send, program, Types, Settle
<1>3. CASE Back
  BY <1>3 DEF Back, Types
<1>4. CASE UNCHANGED vars
  BY <1>4 DEF vars, program, Types
<1> QED
  BY <1>1, <1>2, <1>3, <1>4 DEF Next

\* Every variable keeps its type; in particular at most two bytes are ever
\* collected between two interrupts (main.c:103-108), and what
\* mouseMovement stores fits its uint16_t.
THEOREM TypeCorrect == Spec => []TypeOK
<1>1. Spec => [](IInv /\ Types)
  BY InitInv, NextInv, InitTypes, NextTypes, PTL DEF Spec
<1>2. IInv /\ Types => TypeOK
  <2> SUFFICES ASSUME IInv, Types PROVE TypeOK
    OBVIOUS
  <2>1. mouse.x \in 0 .. (U16 - 1) /\ mouse.y \in 0 .. (U16 - 1)
    BY MouseAssumption DEF IInv, CursorInside
  <2>2. mouse \in [x : 0 .. (U16 - 1), y : 0 .. (U16 - 1)]
    BY <2>1 DEF Types
  <2> QED
    BY <2>2 DEF IInv, ByteInv, Types, TypeOK
<1> QED
  BY <1>1, <1>2, PTL

-----------------------------------------------------------------------------
(* Finding the place again *)

InStep == Len(bytes) = sent /\ \A i \in 1 .. sent : bytes[i] = packet[i]

\* How many good bytes a loop with c bytes collected still needs, at most,
\* when the device has sent s bytes of its packet
Lag(c, s) == CASE c = 0 /\ s = 0 -> 0
               [] c = 1 /\ s = 2 -> 4
               [] OTHER -> 3 - s

Recovering == InStep \/ quiet + Lag(Len(bytes), sent) <= 4

LEMMA LagRange ==
  ASSUME NEW c \in 0 .. 2, NEW s \in 0 .. 2
  PROVE  Lag(c, s) \in 0 .. 4 /\ (Lag(c, s) = 0 => c = 0 /\ s = 0)
BY DEF Lag

LEMMA ShortLength ==
  ASSUME NEW bs \in Seq(Byte), Len(bs) < 3
  PROVE  Len(bs) \in 0 .. 2
<1>1. Len(bs) \in Nat
  OBVIOUS
<1>2. \A n \in Nat : n < 3 => n \in 0 .. 2
  OBVIOUS
<1> QED
  BY <1>1, <1>2, Zenon

LEMMA CollectedRange ==
  ASSUME IInv
  PROVE  Len(bytes) \in 0 .. 2
BY ShortLength, Zenon DEF IInv, ByteInv

LEMMA NextByteType ==
  ASSUME IInv
  PROVE  packet[sent + 1] \in Byte
BY DEF IInv, ByteInv

\* The bytes that a good interrupt leaves, when the loop is out of step or in
LEMMA GoodByte ==
  ASSUME IInv, Types, NEW status \in Statuses,
         MouseInterrupt(status), Good(status)
  PROVE  LET b == packet[sent + 1]
         IN  /\ Len(bytes) = 0 /\ sent = 0 => bytes' = Append(bytes, b)
             /\ Len(bytes) = 0 /\ sent # 0 /\ ~Bit(b, 3) => bytes' = bytes
             /\ Len(bytes) = 1 => bytes' = Append(bytes, b)
             /\ Len(bytes) = 2 => bytes' = << >>
<1> DEFINE b == packet[sent + 1]
<1>1. mouse_ih(status, b) = b
  BY DEF mouse_ih
<1>2. IF Len(Store(bytes, b)) < 3 THEN bytes' = Store(bytes, b) ELSE bytes' = << >>
  BY <1>1 DEF MouseInterrupt
<1>3. bytes \in Seq(Byte) /\ Len(bytes) \in Nat /\ b \in Byte /\ sent \in 0 .. 2
  BY DEF IInv, ByteInv
<1>4. Len(bytes) = 0 <=> bytes = << >>
  BY <1>3
<1>5. sent = 0 => Bit(b, 3)
  <2>1. packet \in Packets
    BY DEF Types
  <2>2. Bit(packet[1], 3)
    BY <2>1, MouseAssumption
  <2>3. sent = 0 => b = packet[1]
    OBVIOUS
  <2> HIDE DEF b
  <2> QED BY <2>2, <2>3, Zenon
<1> HIDE DEF b
<1>6. Append(bytes, b) \in Seq(Byte) /\ Len(Append(bytes, b)) = Len(bytes) + 1
  BY <1>3
<1>7. CASE Len(bytes) = 0
  <2>1. Store(bytes, b) = IF Bit(b, 3) THEN Append(bytes, b) ELSE bytes
    BY <1>4, <1>7, Zenon DEF Store
  <2>2. CASE sent = 0
    <3>1. Len(Store(bytes, b)) < 3
      BY <1>5, <1>6, <1>7, <2>1, <2>2
    <3> QED BY <1>2, <1>5, <1>7, <2>1, <2>2, <3>1 DEF b
  <2>3. CASE sent # 0 /\ ~Bit(b, 3)
    <3>1. Len(Store(bytes, b)) < 3
      BY <1>7, <2>1, <2>3
    <3> QED BY <1>2, <1>7, <2>1, <2>3, <3>1 DEF b
  <2>4. CASE sent # 0 /\ Bit(b, 3)
    BY <1>7, <2>4 DEF b
  <2> QED BY <2>2, <2>3, <2>4
<1>8. CASE Len(bytes) # 0
  <2>1. Store(bytes, b) = Append(bytes, b)
    BY <1>4, <1>8, Zenon DEF Store
  <2>2. Len(Store(bytes, b)) = Len(bytes) + 1
    BY <1>6, <2>1
  <2>3. Len(bytes) = 1 => bytes' = Append(bytes, b)
    BY <1>2, <1>3, <2>1, <2>2
  <2>4. Len(bytes) = 2 => bytes' = << >>
    BY <1>2, <1>3, <2>1, <2>2
  <2> QED
    BY <1>8, <2>3, <2>4 DEF b
<1> QED
  BY <1>7, <1>8

\* A good byte keeps the loop in step; if it is not a delta that looks like a
\* first byte, it brings a loop out of step closer.
LEMMA GoodByteHelps ==
  ASSUME IInv, Types, NEW status \in Statuses,
         MouseInterrupt(status), Good(status), IInv'
  PROVE  /\ InStep => InStep'
         /\ (sent # 0 => ~Bit(packet[sent + 1], 3))
            => InStep' \/ Lag(Len(bytes), sent)' < Lag(Len(bytes), sent)
<1> DEFINE b == packet[sent + 1]
           clear == sent # 0 => ~Bit(packet[sent + 1], 3)
<1>1. /\ Len(bytes) = 0 /\ sent = 0 => bytes' = Append(bytes, b)
      /\ Len(bytes) = 0 /\ sent # 0 /\ clear => bytes' = bytes
      /\ Len(bytes) = 1 => bytes' = Append(bytes, b)
      /\ Len(bytes) = 2 => bytes' = << >>
  BY GoodByte
<1>2. bytes \in Seq(Byte) /\ Len(bytes) \in 0 .. 2 /\ b \in Byte /\ sent \in 0 .. 2
  BY CollectedRange, NextByteType DEF IInv, ByteInv
<1>3. /\ sent < 2 => sent' = sent + 1 /\ packet' = packet
      /\ sent = 2 => sent' = 0
  BY <1>2 DEF MouseInterrupt, Send
<1> SUFFICES /\ InStep => InStep'
             /\ clear => InStep' \/ Lag(Len(bytes), sent)' < Lag(Len(bytes), sent)
  OBVIOUS
<1> HIDE DEF b, clear
<1>4. /\ Len(Append(bytes, b)) = Len(bytes) + 1
      /\ Append(bytes, b)[Len(bytes) + 1] = b
      /\ Len(bytes) = 1 => Append(bytes, b)[1] = bytes[1]
  BY <1>2
<1>5. CASE Len(bytes) = 0 /\ sent = 0
  <2>1. bytes' = Append(bytes, b) /\ sent' = 1 /\ packet' = packet /\ b = packet[1]
    BY <1>1, <1>3, <1>5 DEF b
  <2>2. Len(bytes)' = 1 /\ bytes'[1] = packet'[1]
    BY <1>4, <1>5, <2>1
  <2> QED BY <2>1, <2>2 DEF InStep
<1>6. CASE Len(bytes) = 0 /\ sent # 0
  <2>0. ~InStep
    BY <1>6 DEF InStep
  <2> SUFFICES ASSUME clear
               PROVE  InStep' \/ Lag(Len(bytes), sent)' < Lag(Len(bytes), sent)
    BY <2>0
  <2>1. bytes' = bytes /\ Len(bytes)' = 0
    BY <1>1, <1>6
  <2>2. CASE sent = 1
    BY <1>3, <1>6, <2>1, <2>2 DEF Lag, InStep
  <2>3. CASE sent = 2
    BY <1>3, <1>6, <2>1, <2>3 DEF Lag, InStep
  <2> QED BY <1>2, <1>6, <2>2, <2>3
<1>7. CASE Len(bytes) = 1
  <2>1. bytes' = Append(bytes, b) /\ Len(bytes)' = 2
    BY <1>1, <1>4, <1>7
  <2>2. CASE sent = 1
    <3>1. sent' = 2 /\ packet' = packet /\ b = packet[2]
      BY <1>3, <2>2 DEF b
    <3>2. bytes'[1] = bytes[1] /\ bytes'[2] = packet'[2]
      BY <1>4, <1>7, <2>1, <3>1
    <3>3. InStep => InStep'
      BY <2>1, <2>2, <3>1, <3>2 DEF InStep
    <3> QED BY <1>7, <2>1, <2>2, <3>1, <3>3 DEF Lag
  <2>3. CASE sent # 1
    BY <1>2, <1>3, <1>7, <2>1, <2>3 DEF Lag, InStep
  <2> QED BY <2>2, <2>3
<1>8. CASE Len(bytes) = 2
  <2>1. bytes' = << >> /\ Len(bytes)' = 0
    BY <1>1, <1>8
  <2> QED BY <1>2, <1>3, <1>8, <2>1 DEF Lag, InStep
<1> QED
  BY <1>2, <1>5, <1>6, <1>7, <1>8

LEMMA InitRecovering == Init => Recovering
BY DEF Init, Recovering, InStep

LEMMA SettledInStep ==
  ASSUME IInv, Types, Recovering, quiet = Settle
  PROVE  InStep
<1>1. Len(bytes) \in 0 .. 2 /\ sent \in 0 .. 2
  BY CollectedRange, Zenon DEF IInv, ByteInv
<1>2. /\ Lag(Len(bytes), sent) \in 0 .. 4
      /\ Lag(Len(bytes), sent) = 0 => Len(bytes) = 0 /\ sent = 0
  BY <1>1, LagRange
<1>3. InStep \/ Lag(Len(bytes), sent) = 0
  BY <1>2 DEF Recovering, Settle
<1> QED
  BY <1>2, <1>3 DEF InStep

LEMMA NextRecovering ==
  ASSUME IInv, Types, Recovering, [Next]_vars
  PROVE  Recovering'
<1>1. IInv' /\ Types'
  BY NextInv, NextTypes
<1>2. /\ Len(bytes) \in 0 .. 2 /\ sent \in 0 .. 2 /\ quiet \in 0 .. Settle
      /\ Len(bytes)' \in 0 .. 2 /\ sent' \in 0 .. 2
  <2>1. Len(bytes) \in 0 .. 2
    BY CollectedRange
  <2>2. Len(bytes)' \in 0 .. 2
    BY <1>1, ShortLength, Zenon DEF IInv, ByteInv
  <2> QED
    BY <1>1, <2>1, <2>2, Zenon DEF IInv, ByteInv, Types
<1>3. /\ Lag(Len(bytes), sent) \in 0 .. 4
      /\ Lag(Len(bytes), sent)' \in 0 .. 4
  BY <1>2, LagRange
<1>4. CASE quiet' = 0
  BY <1>3, <1>4 DEF Recovering
<1>5. ASSUME NEW status \in Statuses, MouseInterrupt(status), Good(status)
      PROVE  Recovering'
  <2>1. /\ InStep => InStep'
        /\ (sent # 0 => ~Bit(packet[sent + 1], 3))
           => InStep' \/ Lag(Len(bytes), sent)' < Lag(Len(bytes), sent)
    BY <1>1, <1>5, GoodByteHelps
  <2>2. quiet' = Quiet(status)
    BY <1>5 DEF MouseInterrupt
  <2>3. CASE quiet = Settle
    BY <2>1, <2>3, SettledInStep DEF Recovering
  <2>4. CASE quiet # Settle /\ sent # 0 /\ Bit(packet[sent + 1], 3)
    BY <1>4, <1>5, <2>2, <2>4 DEF Quiet
  <2>5. CASE quiet # Settle /\ ~(sent # 0 /\ Bit(packet[sent + 1], 3))
    <3>1. quiet' = quiet + 1
      BY <1>5, <2>2, <2>5 DEF Quiet
    <3>2. InStep' \/ Lag(Len(bytes), sent)' < Lag(Len(bytes), sent)
      BY <2>1, <2>5
    <3> QED BY <1>2, <1>3, <2>1, <3>1, <3>2 DEF Recovering, Settle
  <2> QED BY <2>3, <2>4, <2>5
<1>6. ASSUME NEW status \in Statuses, MouseInterrupt(status), ~Good(status)
      PROVE  Recovering'
  BY <1>4, <1>6 DEF MouseInterrupt, Quiet
<1>7. CASE Unheard
  BY <1>4, <1>7 DEF Unheard
<1>8. CASE Back
  BY <1>8 DEF Back, Recovering, InStep
<1>9. CASE UNCHANGED vars
  BY <1>9 DEF vars, program, Recovering, InStep
<1> QED
  BY <1>5, <1>6, <1>7, <1>8, <1>9 DEF Next

\* However many bytes were refused or lost on other screens, four good ones
\* of which no delta has bit 3 bring the loops of main.c:101-106 back in step,
\* and whatever good bytes follow keep them there, for all packets of the
\* device.  Three are not enough: a first byte heard twice and then half a
\* packet take four.
THEOREM FindsItsPlace == Spec => []BackInStep
<1>1. Init => IInv /\ Types /\ Recovering
  BY InitInv, InitTypes, InitRecovering
<1>2. IInv /\ Types /\ Recovering /\ [Next]_vars => (IInv /\ Types /\ Recovering)'
  BY NextInv, NextTypes, NextRecovering
<1>3. IInv /\ Types /\ Recovering => BackInStep
  BY SettledInStep DEF BackInStep, InStep
<1> QED
  BY <1>1, <1>2, <1>3, PTL DEF Spec

\* From then on, up to the next byte that is refused or not heard, a menu is
\* left only by a packet of the device, one with the button down whose
\* movement ends over the entry (main.c:107-118).
THEOREM OnlyClicksChoose == Spec => ChosenByClick
<1> DEFINE A == screenState = "MENU" /\ screenState' # "MENU"
                  /\ quiet = Settle /\ quiet' = Settle
                => Bit(packet[1], 0) /\ mouseInPlace(mouse', Entries[screenState'])
<1>1. Init => IInv /\ Types /\ Recovering
  BY InitInv, InitTypes, InitRecovering
<1>2. IInv /\ Types /\ Recovering /\ [Next]_vars => (IInv /\ Types /\ Recovering)'
  BY NextInv, NextTypes, NextRecovering
<1>3. IInv /\ Types /\ Recovering /\ [Next]_vars => [A]_vars
  <2> SUFFICES ASSUME IInv, Types, Recovering, Next,
                      screenState = "MENU", screenState' # "MENU",
                      quiet = Settle, quiet' = Settle
               PROVE  Bit(packet[1], 0) /\ mouseInPlace(mouse', Entries[screenState'])
    BY DEF A
  <2>1. InStep
    BY SettledInStep
  <2>2. PICK status \in Statuses : MouseInterrupt(status)
    BY DEF Next, Unheard, Back
  <2>3. Good(status)
    BY <2>2 DEF MouseInterrupt, Quiet, Settle
  <2> DEFINE b == packet[sent + 1]
             collected == Store(bytes, b)
  <2>4. /\ ~(Len(collected) < 3)
        /\ screenState' = ChosenEntry(parse_mouse_bytes(collected), mouse')
    BY <2>2, <2>3 DEF MouseInterrupt, mouse_ih
  <2>5. /\ parse_mouse_bytes(collected).lb
        /\ mouseInPlace(mouse', Entries[screenState'])
    BY <2>4 DEF ChosenEntry
  <2>6. Bit(collected[1], 0)
    BY <2>5 DEF parse_mouse_bytes
  <2>7. collected[1] = packet[1]
    <3>1. bytes \in Seq(Byte) /\ Len(bytes) \in 0 .. 2 /\ b \in Byte
      BY CollectedRange, NextByteType, Zenon DEF IInv, ByteInv
    <3> HIDE DEF b
    <3>2. Len(Append(bytes, b)) = Len(bytes) + 1
      BY <3>1
    <3>3. collected = bytes \/ collected = Append(bytes, b)
      BY DEF Store
    <3> HIDE DEF collected
    <3>4. collected # bytes
      <4>1. Len(bytes) < 3
        BY DEF IInv, ByteInv
      <4> QED BY <2>4, <4>1, Zenon
    <3>5. collected = Append(bytes, b)
      BY <3>3, <3>4
    <3>6. Len(bytes) = 2
      BY <2>4, <3>1, <3>2, <3>5
    <3>7. collected[1] = bytes[1]
      BY <3>1, <3>5, <3>6
    <3> QED
      BY <2>1, <3>6, <3>7 DEF InStep
  <2> QED
    BY <2>5, <2>6, <2>7
<1>4. ChosenByClick <=> [][A]_vars
  BY DEF ChosenByClick
<1> HIDE DEF A
<1> QED
  BY <1>1, <1>2, <1>3, <1>4, PTL DEF Spec
=============================================================================
