------------------------------ MODULE TestLoops ------------------------------
(***************************************************************************)
(* The interrupt loops of the course exercises: timer_test_int of lab2,    *)
(* kbd_test_scan and kbd_test_timed_scan of lab3, mouse_test_packet and    *)
(* mouse_test_async of lab4.                                               *)
(*                                                                         *)
(* Each subscribes to some interrupts and loops until its countdown is at  *)
(* zero or Esc has been released.  The kernel merges what is raised        *)
(* between two receives: a second tick is lost, and a tick and a key are   *)
(* handled in one turn, by lab3 the key first and by lab4 the tick first.  *)
(***************************************************************************)
EXTENDS Integers

CONSTANTS
  TicksPerSecond,  \* interrupts of the timer that make a second       [60]
  Args             \* arguments of the tests: seconds, or packets

ASSUME LoopsAssumption ==
  TicksPerSecond \in Nat \ {0, 1} /\ Args \subseteq 0 .. 255

Irqs == {"timer", "keyboard", "mouse"}
Tests == {"timer_test_int", "kbd_test_scan", "kbd_test_timed_scan",
          "mouse_test_packet", "mouse_test_async"}

\* The interrupts a test subscribes to, and the ones it still has when it
\* returns: neither timer_test_int nor mouse_test_async unsubscribes the timer.
Subscribed(t) == CASE t = "timer_test_int" -> {"timer"}
                   [] t = "kbd_test_scan" -> {"keyboard"}
                   [] t = "kbd_test_timed_scan" -> {"timer", "keyboard"}
                   [] t = "mouse_test_packet" -> {"mouse"}
                   [] OTHER -> {"timer", "mouse"}
LeftBehind(t) == IF t \in {"timer_test_int", "mouse_test_async"}
                   THEN {"timer"} ELSE {}
Timed == {"timer_test_int", "kbd_test_timed_scan", "mouse_test_async"}

VARIABLES
  test, arg,       \* the test that was started, and its argument
  left,            \* the argument, counted down
  totalInterrupts, \* modulo TicksPerSecond, all the loops ask of it
  esc,             \* scanCode is the break code of Esc
  bit3, counter,   \* of byteFromMouse, and the bytes of the packet so far
  hooks, pending,  \* subscribed interrupts; raised and not yet received
  running

VARIABLE silence   \* history: ticks handled since the last input

vars == <<test, arg, left, totalInterrupts, esc, bit3, counter, hooks, pending,
          running, silence>>

-----------------------------------------------------------------------------
(* The handlers work on g, with the fields left, totalInterrupts, esc,     *)
(* bit3, counter and silence.  good: the status register lets the byte     *)
(* pass; b: it is the break code of Esc, or has bit 3.                     *)

\* One tick longer than any test may wait: silence is not counted further.
MaxSilence == arg * TicksPerSecond + 1
Longer(n) == IF n < MaxSilence THEN n + 1 ELSE n

\* mutant: the second is looked for before the tick is counted
EarlyTick(g) ==
  [g EXCEPT !.totalInterrupts = (@ + 1) % TicksPerSecond, !.silence = Longer(@),
            !.left = IF g.totalInterrupts = 0 THEN (@ - 1) % 256 ELSE @]

\* timer_int_handler, and the uint8_t of the seconds if one is complete
Tick(g) ==
  LET ticks == (g.totalInterrupts + 1) % TicksPerSecond
  IN  [g EXCEPT !.totalInterrupts = ticks, !.silence = Longer(@),
                !.left = IF ticks = 0 THEN (@ - 1) % 256 ELSE @]

\* mutant: the seconds start again, the ticks go on
RestartSeconds(g) == [g EXCEPT !.left = arg, !.silence = 0]

\* An input starts the countdown of a timed test again.
Restart(g) == [g EXCEPT !.left = arg, !.totalInterrupts = 0, !.silence = 0]

\* kbc_ih
Key(g, good, b) == [g EXCEPT !.esc = IF good THEN b ELSE @]

\* mutant: the packet is not begun anew
EndlessPacket(g, bit) ==
  [g EXCEPT !.bit3 = bit,
            !.counter = IF @ = 0 /\ ~bit THEN 0 ELSE @ + 1]

\* A byte is stored unless it should be a first byte and is not.  A refused
\* byte leaves byteFromMouse, which is then stored once more.
StoreByte(g, bit) ==
  [g EXCEPT !.bit3 = bit,
            !.counter = IF @ = 0 /\ ~bit THEN 0 ELSE (@ + 1) % 3]

Byte(g, good, b) == StoreByte(g, IF good THEN b ELSE g.bit3)

Completes(g, h) == g.counter = 2 /\ h.counter # 2

\* One turn of each loop on the mask of a notification
TickIf(g, mask) == IF "timer" \in mask THEN Tick(g) ELSE g

timer_test_int(g) == Tick(g)

kbd_test_scan(g, good, b) == Key(g, good, b)

kbd_test_timed_scan(g, mask, good, b) ==
  TickIf(IF "keyboard" \in mask THEN Restart(Key(g, good, b)) ELSE g, mask)

mouse_test_packet(g, good, b) ==
  LET h == Byte(g, good, b)
  IN  IF Completes(g, h) THEN [h EXCEPT !.left = @ - 1] ELSE h

mouse_test_async(g, mask, good, b) ==
  LET h == TickIf(g, mask)
  IN  IF "mouse" \in mask THEN Byte(Restart(h), good, b) ELSE h

Turn(g, mask, good, b) ==
  CASE test = "timer_test_int" -> timer_test_int(g)
    [] test = "kbd_test_scan" -> kbd_test_scan(g, good, b)
    [] test = "kbd_test_timed_scan" -> kbd_test_timed_scan(g, mask, good, b)
    [] test = "mouse_test_packet" -> mouse_test_packet(g, good, b)
    [] test = "mouse_test_async" -> mouse_test_async(g, mask, good, b)

\* mutant: left >= 0, of an unsigned number
UnsignedTest == test \in {"kbd_test_scan", "kbd_test_timed_scan"} => ~esc

\* The condition of the loop
GoesOn == CASE test = "kbd_test_scan" -> ~esc
            [] test = "kbd_test_timed_scan" -> ~esc /\ left > 0
            [] OTHER -> left > 0

-----------------------------------------------------------------------------
Init ==
  /\ test \in Tests /\ arg \in Args /\ left = arg
  /\ totalInterrupts = 0 /\ esc = FALSE
  /\ bit3 = FALSE /\ counter = 0
  /\ hooks = Subscribed(test) /\ pending = {}
  /\ running = TRUE /\ silence = 0

\* A device interrupts
Raise(irq) ==
  /\ running /\ irq \in hooks
  /\ pending' = pending \cup {irq}
  /\ UNCHANGED <<test, arg, left, totalInterrupts, esc, bit3, counter, hooks,
                 running, silence>>

\* driver_receive and the handling of what it brings
Receive(good, b) ==
  /\ running /\ GoesOn /\ pending # {}
  /\ pending' = {}
  /\ LET g == Turn([left |-> left, totalInterrupts |-> totalInterrupts,
                    esc |-> esc, bit3 |-> bit3, counter |-> counter,
                    silence |-> silence], pending, good, b)
     IN  /\ left' = g.left /\ totalInterrupts' = g.totalInterrupts
         /\ esc' = g.esc /\ bit3' = g.bit3 /\ counter' = g.counter
         /\ silence' = g.silence
  /\ UNCHANGED <<test, arg, hooks, running>>

\* The loop is left, subscriptions are cancelled as far as they are
Return ==
  /\ running /\ ~GoesOn
  /\ running' = FALSE /\ hooks' = LeftBehind(test) /\ pending' = {}
  /\ UNCHANGED <<test, arg, left, totalInterrupts, esc, bit3, counter, silence>>

Handle == Return \/ \E good, b \in BOOLEAN : Receive(good, b)

Next == Handle \/ \E irq \in Irqs : Raise(irq)

Spec == Init /\ [][Next]_vars

\* The process is scheduled, and the timer ticks.
FairSpec == Spec /\ WF_vars(Handle) /\ WF_vars(Raise("timer"))

-----------------------------------------------------------------------------
(* Properties *)

TypeOK ==
  /\ test \in Tests /\ arg \in Args /\ left \in 0 .. arg
  /\ totalInterrupts \in 0 .. (TicksPerSecond - 1)
  /\ esc \in BOOLEAN /\ bit3 \in BOOLEAN /\ counter \in 0 .. 2
  /\ hooks \subseteq Irqs /\ pending \subseteq hooks
  /\ running \in BOOLEAN /\ silence \in Nat

\* What two counters of a timed test hold together is the number of ticks
\* since the last input, however ticks and inputs are merged: neither a
\* second nor a part of one is counted twice or kept over a restart
\* (lab3.c:105-114, lab4.c:99-107).
CountsSilence ==
  test \in Timed =>
    silence = (arg - left) * TicksPerSecond + totalInterrupts

\* lab3.h "should terminate also if no scancodes are received for n seconds",
\* lab4.h the same of packets: a test that is only ended by time ends after
\* that many seconds of silence and not earlier (lab3.c:96, lab4.c:90).
EndsAfterSilence ==
  ~running /\ test \in Timed /\ ~esc => silence = arg * TicksPerSecond

\* As long as the timer ticks, a timed test ends unless input is raised again
\* and again: merged ticks are late, never lost for good.
SilenceEnds ==
  test \in Timed =>
    (<>~running) \/ []<><<Raise("keyboard") \/ Raise("mouse")>>_vars
=============================================================================
