--------------------------- MODULE TestLoopsProofs ---------------------------
(***************************************************************************)
(* The countdowns of TestLoops, for every length of a second and every     *)
(* argument.                                                               *)
(***************************************************************************)
EXTENDS TestLoops, TLAPS

\* The globals of a loop, as the handlers pass them on
GType == [left : 0 .. arg, totalInterrupts : 0 .. (TicksPerSecond - 1),
          esc : BOOLEAN, bit3 : BOOLEAN, counter : 0 .. 2, silence : Nat]
Counted(g) ==
  g.silence = (arg - g.left) * TicksPerSecond + g.totalInterrupts

\* The countdown reaches zero with a full second.
WholeSeconds(g) == g.left = 0 => g.totalInterrupts = 0

GlobalsNow == [left |-> left, totalInterrupts |-> totalInterrupts, esc |-> esc,
               bit3 |-> bit3, counter |-> counter, silence |-> silence]

\* The inductive invariant: besides the count, that it stops at a full second
IInv ==
  /\ TypeOK
  /\ test \in Timed => Counted(GlobalsNow) /\ WholeSeconds(GlobalsNow)
  /\ EndsAfterSilence
  /\ ~running => ~GoesOn

-----------------------------------------------------------------------------
\* Products of the countdown: one second more, and at most arg seconds.
LEMMA OneMore ==
  ASSUME NEW a \in Int, NEW n \in Int
  PROVE  (a + 1) * n = a * n + n
  OBVIOUS

LEMMA Monotone ==
  ASSUME NEW a \in Int, NEW b \in Int, NEW n \in Nat, a <= b
  PROVE  a * n <= b * n
<1>1. PICK d \in Nat : b = a + d
  <2>1. b - a \in Nat /\ b = a + (b - a)
    OBVIOUS
  <2> QED BY <2>1
<1>2. b * n = a * n + d * n
  BY <1>1
<1>3. d * n \in Nat
  OBVIOUS
<1>4. a * n \in Int
  OBVIOUS
<1> QED BY <1>2, <1>3, <1>4

\* The three counters may be set to anything of their types.
LEMMA Updated ==
  ASSUME NEW g \in GType, NEW l \in 0 .. arg,
         NEW t \in 0 .. (TicksPerSecond - 1), NEW s \in Nat
  PROVE  /\ [g EXCEPT !.totalInterrupts = t, !.silence = s, !.left = l] \in GType
         /\ [g EXCEPT !.left = l, !.totalInterrupts = t, !.silence = s] \in GType
  BY DEF GType

\* A tick is counted, and completes a second or not.
LEMMA TickCounts ==
  ASSUME arg \in 0 .. 255, NEW g \in GType, g.left > 0
  PROVE  /\ Tick(g) \in GType
         /\ Counted(g) => Counted(Tick(g)) /\ WholeSeconds(Tick(g))
<1> DEFINE T == TicksPerSecond
           ticks == (g.totalInterrupts + 1) % T
<1>1. T \in Nat /\ T > 1
  BY LoopsAssumption
<1>2. /\ g.left \in 1 .. arg /\ g.totalInterrupts \in 0 .. (T - 1)
      /\ g.silence \in Nat /\ arg \in 0 .. 255
  BY DEF GType
<1>3. \/ g.totalInterrupts + 1 < T /\ ticks = g.totalInterrupts + 1
      \/ g.totalInterrupts + 1 = T /\ ticks = 0
  <2> HIDE DEF T
  <2>1. CASE g.totalInterrupts + 1 < T
    BY <1>1, <1>2, <2>1
  <2>2. CASE g.totalInterrupts + 1 = T
    BY <1>1, <1>2, <2>2
  <2> QED BY <1>1, <1>2, <2>1, <2>2
<1>4. (g.left - 1) % 256 = g.left - 1
  BY <1>2
<1>5. /\ Tick(g).totalInterrupts = ticks
      /\ Tick(g).silence = Longer(g.silence)
      /\ Tick(g).left = IF ticks = 0 THEN g.left - 1 ELSE g.left
      /\ Tick(g).esc = g.esc /\ Tick(g).bit3 = g.bit3
      /\ Tick(g).counter = g.counter
  BY <1>4 DEF Tick, GType
<1>6. ticks \in 0 .. (T - 1)
  BY <1>1, <1>2, <1>3
<1>7. Longer(g.silence) \in Nat
  BY <1>2 DEF Longer
<1>8. Tick(g) \in GType
  <2> DEFINE l == IF ticks = 0 THEN g.left - 1 ELSE g.left
             n == Longer(g.silence)
  <2>1. Tick(g) = [g EXCEPT !.totalInterrupts = ticks,
                            !.silence = n, !.left = l]
    BY <1>4 DEF Tick, GType
  <2>2. l \in 0 .. arg
    BY <1>2
  <2>3. n \in Nat
    BY <1>7
  <2> HIDE DEF ticks, l, n
  <2>4. ticks \in 0 .. (TicksPerSecond - 1)
    BY <1>6
  <2>5. [g EXCEPT !.totalInterrupts = ticks, !.silence = n, !.left = l] \in GType
    BY <2>2, <2>3, <2>4, Updated
  <2> QED BY <2>1, <2>5, Zenon
<1>9. ASSUME Counted(g)
      PROVE  Counted(Tick(g)) /\ WholeSeconds(Tick(g))
  <2> DEFINE k == arg - g.left
  <2>1. k \in Int /\ k * T \in Int /\ k + 1 <= arg
    BY <1>1, <1>2
  <2>2. g.silence = k * T + g.totalInterrupts
    BY <1>9 DEF Counted
  <2>3. (k + 1) * T = k * T + T
    BY <1>1, <2>1, OneMore
  <2>4. (k + 1) * T <= arg * T
    <3> HIDE DEF k, T
    <3> QED BY <1>1, <1>2, <2>1, Monotone
  <2>5. Longer(g.silence) = g.silence + 1
    <3>1. arg * T \in Int
      BY <1>1, <1>2
    <3>2. MaxSilence = arg * T + 1
      BY DEF MaxSilence
    <3>3. g.silence < arg * T
      <4> HIDE DEF k, T
      <4> QED BY <1>1, <1>2, <2>1, <2>2, <2>3, <2>4, <3>1
    <3> QED BY <1>2, <3>1, <3>2, <3>3 DEF Longer
  <2>6. CASE g.totalInterrupts + 1 < T /\ ticks = g.totalInterrupts + 1
    <3>1. Tick(g).left = g.left /\ Tick(g).totalInterrupts = g.totalInterrupts + 1
      BY <1>2, <1>5, <2>6
    <3> QED BY <1>1, <1>2, <1>5, <2>1, <2>2, <2>5, <3>1 DEF Counted, WholeSeconds
  <2>7. CASE g.totalInterrupts + 1 = T /\ ticks = 0
    <3>1. Tick(g).left = g.left - 1 /\ Tick(g).totalInterrupts = 0
      BY <1>5, <2>7
    <3>2. Tick(g).silence = k * T + T
      BY <1>1, <1>2, <1>5, <2>1, <2>2, <2>5, <2>7
    <3>3. arg - Tick(g).left = k + 1
      BY <1>2, <3>1
    <3>4. (arg - Tick(g).left) * T = (k + 1) * T
      BY <3>3
    <3>5. Tick(g).silence = (arg - Tick(g).left) * T + 0
      <4> HIDE DEF k, T
      <4> QED BY <1>1, <2>1, <2>3, <3>2, <3>4
    <3> QED BY <3>1, <3>5 DEF Counted, WholeSeconds
  <2> QED BY <1>3, <2>6, <2>7
<1> QED BY <1>8, <1>9

\* A restart leaves nothing of the count.
LEMMA RestartCounts ==
  ASSUME arg \in 0 .. 255, NEW g \in GType
  PROVE  /\ Restart(g) \in GType /\ Counted(Restart(g))
         /\ WholeSeconds(Restart(g))
         /\ Restart(g).left = arg
<1>1. TicksPerSecond \in Nat /\ TicksPerSecond > 1
  BY LoopsAssumption
<1>2. /\ Restart(g).left = arg /\ Restart(g).totalInterrupts = 0
      /\ Restart(g).silence = 0
  BY DEF Restart, GType
<1>3. Restart(g) \in GType
  <2>1. 0 \in 0 .. (TicksPerSecond - 1) /\ 0 \in Nat /\ arg \in 0 .. arg
    BY <1>1
  <2> QED BY <2>1, Updated DEF Restart
<1>4. (arg - arg) * TicksPerSecond = 0
  BY <1>1
<1>5. Counted(Restart(g)) /\ WholeSeconds(Restart(g)) /\ Restart(g).left = arg
  BY <1>2, <1>4 DEF Counted, WholeSeconds
<1> QED BY <1>3, <1>5

\* The other handlers leave the count alone.
LEMMA KeyKeeps ==
  ASSUME NEW g \in GType, NEW good \in BOOLEAN, NEW b \in BOOLEAN
  PROVE  /\ Key(g, good, b) \in GType
         /\ Key(g, good, b).left = g.left
         /\ Counted(g) => Counted(Key(g, good, b))
         /\ WholeSeconds(g) => WholeSeconds(Key(g, good, b))
  BY DEF GType, Key, Counted, WholeSeconds

LEMMA ByteKeeps ==
  ASSUME NEW g \in GType, NEW good \in BOOLEAN, NEW b \in BOOLEAN
  PROVE  /\ Byte(g, good, b) \in GType
         /\ Byte(g, good, b).left = g.left
         /\ Counted(g) => Counted(Byte(g, good, b))
         /\ WholeSeconds(g) => WholeSeconds(Byte(g, good, b))
<1> DEFINE bit == IF good THEN b ELSE g.bit3
           h == [g EXCEPT !.bit3 = bit,
                          !.counter = IF @ = 0 /\ ~bit THEN 0 ELSE (@ + 1) % 3]
<1>1. Byte(g, good, b) = h
  BY DEF Byte, StoreByte
<1>2. bit \in BOOLEAN
  BY DEF GType
<1>3. h.counter \in 0 .. 2
  BY DEF GType
<1>4. h \in GType /\ h.left = g.left /\ h.totalInterrupts = g.totalInterrupts
      /\ h.silence = g.silence
  BY <1>2, <1>3 DEF GType
<1> QED BY <1>1, <1>4 DEF Counted, WholeSeconds

\* A turn of a loop keeps the types, and in a timed test the count.
LEMMA TurnCounts ==
  ASSUME arg \in 0 .. 255, test \in Tests, NEW g \in GType, NEW mask,
         NEW good \in BOOLEAN, NEW b \in BOOLEAN,
         test # "kbd_test_scan" => g.left > 0
  PROVE  /\ Turn(g, mask, good, b) \in GType
         /\ test \in Timed /\ Counted(g) =>
              /\ Counted(Turn(g, mask, good, b))
              /\ WholeSeconds(Turn(g, mask, good, b))
<1> DEFINE turn == Turn(g, mask, good, b)
<1>0. g.left \in 0 .. arg
  BY DEF GType
<1>1. ASSUME NEW h \in GType, h.left > 0
      PROVE  /\ TickIf(h, mask) \in GType
             /\ Counted(h) => /\ Counted(TickIf(h, mask))
                              /\ WholeSeconds(TickIf(h, mask))
  <2>1. CASE "timer" \in mask
    BY <1>1, <2>1, TickCounts DEF TickIf
  <2>2. CASE "timer" \notin mask
    <3>1. WholeSeconds(h)
      BY <1>1 DEF WholeSeconds, GType
    <3> QED BY <1>1, <2>2, <3>1 DEF TickIf
  <2> QED BY <2>1, <2>2
<1>2. CASE test = "timer_test_int"
  <2>1. turn = Tick(g)
    BY <1>2 DEF Turn, timer_test_int
  <2> QED BY <1>2, <2>1, TickCounts
<1>3. CASE test = "kbd_test_scan"
  <2>1. turn = Key(g, good, b)
    BY <1>3 DEF Turn, kbd_test_scan
  <2>2. test \notin Timed
    BY <1>3 DEF Timed
  <2> QED BY <2>1, <2>2, KeyKeeps
<1>4. CASE test = "kbd_test_timed_scan"
  <2> DEFINE k == Key(g, good, b)
             h == IF "keyboard" \in mask THEN Restart(k) ELSE g
  <2>1. turn = TickIf(h, mask)
    BY <1>4 DEF Turn, kbd_test_timed_scan
  <2>2. k \in GType
    BY KeyKeeps
  <2> HIDE DEF k
  <2>3. /\ Restart(k) \in GType /\ Counted(Restart(k)) /\ Restart(k).left = arg
    BY <2>2, RestartCounts
  <2>4. h \in GType /\ h.left > 0 /\ (Counted(g) => Counted(h))
    <3>1. arg > 0 /\ g.left > 0
      BY <1>0, <1>4
    <3> QED BY <2>3, <3>1
  <2> HIDE DEF h
  <2> QED BY <1>1, <2>1, <2>4
<1>5. CASE test = "mouse_test_packet"
  <2> DEFINE h == Byte(g, good, b)
  <2>1. turn = IF Completes(g, h) THEN [h EXCEPT !.left = @ - 1] ELSE h
    BY <1>5 DEF Turn, mouse_test_packet
  <2>2. test \notin Timed
    BY <1>5 DEF Timed
  <2>3. h \in GType /\ h.left = g.left
    BY ByteKeeps
  <2>4. h.left - 1 \in 0 .. arg
    BY <1>0, <1>5, <2>3
  <2> HIDE DEF h
  <2>5. [h EXCEPT !.left = @ - 1] \in GType
    BY <2>3, <2>4 DEF GType
  <2> QED BY <2>1, <2>2, <2>3, <2>5
<1>6. CASE test = "mouse_test_async"
  <2> DEFINE h == TickIf(g, mask)
  <2>1. turn = IF "mouse" \in mask THEN Byte(Restart(h), good, b) ELSE h
    BY <1>6 DEF Turn, mouse_test_async
  <2>2. h \in GType /\ (Counted(g) => Counted(h) /\ WholeSeconds(h))
    BY <1>1, <1>6
  <2> HIDE DEF h
  <2> DEFINE r == Restart(h)
  <2>3. r \in GType /\ Counted(r) /\ WholeSeconds(r)
    BY <2>2, RestartCounts
  <2> HIDE DEF r
  <2>4. /\ Byte(r, good, b) \in GType /\ Counted(Byte(r, good, b))
        /\ WholeSeconds(Byte(r, good, b))
    BY <2>3, ByteKeeps
  <2>5. turn = IF "mouse" \in mask THEN Byte(r, good, b) ELSE h
    BY <2>1 DEF r
  <2> QED BY <2>2, <2>4, <2>5
<1> QED BY <1>2, <1>3, <1>4, <1>5, <1>6 DEF Tests

-----------------------------------------------------------------------------
LEMMA Starts == Init => IInv
<1> SUFFICES ASSUME Init PROVE IInv
  OBVIOUS
<1>1. TicksPerSecond \in Nat /\ TicksPerSecond > 1 /\ Args \subseteq 0 .. 255
  BY LoopsAssumption
<1>2. TypeOK
  <2>1. Subscribed(test) \subseteq Irqs
    BY DEF Subscribed, Irqs
  <2>2. /\ arg \in Args /\ left \in 0 .. arg
        /\ totalInterrupts \in 0 .. (TicksPerSecond - 1) /\ counter \in 0 .. 2
        /\ silence \in Nat
    BY <1>1 DEF Init
  <2> QED BY <2>1, <2>2 DEF Init, TypeOK
<1>3. (arg - arg) * TicksPerSecond = 0
  BY <1>1 DEF Init
<1>4. Counted(GlobalsNow) /\ WholeSeconds(GlobalsNow)
  BY <1>3 DEF Init, GlobalsNow, Counted, WholeSeconds
<1> QED BY <1>2, <1>4 DEF Init, IInv, EndsAfterSilence

LEMMA Steps == IInv /\ [Next]_vars => IInv'
<1> SUFFICES ASSUME IInv, [Next]_vars PROVE IInv'
  OBVIOUS
<1>1. /\ TypeOK /\ EndsAfterSilence
      /\ TicksPerSecond \in Nat /\ Args \subseteq 0 .. 255
      /\ arg \in 0 .. 255
  BY LoopsAssumption DEF IInv, TypeOK
<1>2. ASSUME NEW irq \in Irqs, Raise(irq) PROVE IInv'
  BY <1>2 DEF IInv, Raise, TypeOK, GlobalsNow, Counted, WholeSeconds,
              EndsAfterSilence, GoesOn
<1>3. CASE Return
  <2>1. TypeOK'
    BY <1>3, <1>1 DEF Return, TypeOK, LeftBehind, Irqs
  <2>2. (test \in Timed => Counted(GlobalsNow) /\ WholeSeconds(GlobalsNow))'
    BY <1>3 DEF IInv, Return, GlobalsNow, Counted, WholeSeconds
  <2>3. ASSUME test \in Timed, ~esc PROVE silence = arg * TicksPerSecond
    <3>1. left = 0
      BY <1>1, <1>3, <2>3 DEF Return, GoesOn, TypeOK, Timed, Tests
    <3>2. totalInterrupts = 0
      BY <2>3, <3>1 DEF IInv, WholeSeconds, GlobalsNow
    <3>3. silence = (arg - 0) * TicksPerSecond + 0
      BY <2>3, <3>1, <3>2 DEF IInv, Counted, GlobalsNow
    <3>4. arg - 0 = arg /\ arg * TicksPerSecond \in Int
      BY <1>1
    <3> QED BY <3>3, <3>4
  <2>4. EndsAfterSilence'
    BY <1>3, <2>3 DEF Return, EndsAfterSilence
  <2>5. (~running => ~GoesOn)'
    BY <1>3 DEF Return, GoesOn
  <2> QED BY <2>1, <2>2, <2>4, <2>5 DEF IInv
<1>4. ASSUME NEW good \in BOOLEAN, NEW b \in BOOLEAN, Receive(good, b)
      PROVE  IInv'
  <2> DEFINE g == Turn(GlobalsNow, pending, good, b)
  <2>1. GlobalsNow \in GType
    BY <1>1 DEF TypeOK, GlobalsNow, GType
  <2>2. test \in Tests /\ (test # "kbd_test_scan" => GlobalsNow.left > 0)
    BY <1>1, <1>4 DEF Receive, GoesOn, GlobalsNow, TypeOK
  <2>3. /\ g \in GType
        /\ test \in Timed => Counted(g) /\ WholeSeconds(g)
    BY <1>1, <2>1, <2>2, TurnCounts DEF IInv
  <2>4. /\ left' = g.left /\ totalInterrupts' = g.totalInterrupts
        /\ esc' = g.esc /\ bit3' = g.bit3 /\ counter' = g.counter
        /\ silence' = g.silence
        /\ pending' = {} /\ running' = TRUE /\ running
        /\ test' = test /\ arg' = arg /\ hooks' = hooks
    BY <1>1, <1>4 DEF Receive, GlobalsNow, TypeOK
  <2> HIDE DEF g
  <2>5. TypeOK'
    BY <1>1, <2>3, <2>4 DEF TypeOK, GType
  <2>6. (test \in Timed => Counted(GlobalsNow) /\ WholeSeconds(GlobalsNow))'
    BY <2>3, <2>4 DEF Counted, WholeSeconds, GlobalsNow
  <2> QED BY <2>4, <2>5, <2>6 DEF IInv, EndsAfterSilence
<1>5. CASE UNCHANGED vars
  BY <1>5 DEF vars, IInv, TypeOK, GlobalsNow, Counted, WholeSeconds,
              EndsAfterSilence, GoesOn
<1> QED BY <1>2, <1>3, <1>4, <1>5 DEF Next, Handle

\* Every variable keeps its type: the countdown never passes below zero or
\* above its argument, whatever comes with a tick (lab2.c:49, lab3.c:96,
\* lab4.c:52, 90).
THEOREM TypeCorrect == Spec => []TypeOK
<1>1. IInv => TypeOK
  BY DEF IInv
<1> QED BY <1>1, Starts, Steps, PTL DEF Spec

\* The countdown and the ticks of the current second always add up to the
\* ticks since the last input (lab2.c:58-64, lab3.c:105-114, lab4.c:99-107).
THEOREM SilenceCounted == Spec => []CountsSilence
<1>1. IInv => CountsSilence
  BY DEF IInv, CountsSilence, Counted, GlobalsNow
<1> QED BY <1>1, Starts, Steps, PTL DEF Spec

\* A test that time has ended has waited its full time in silence, and not a
\* tick more was handled (lab2.c:49, lab3.c:96, lab4.c:90).
THEOREM SilenceKept == Spec => []EndsAfterSilence
<1>1. IInv => EndsAfterSilence
  BY DEF IInv
<1> QED BY <1>1, Starts, Steps, PTL DEF Spec
=============================================================================
