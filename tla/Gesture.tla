------------------------------- MODULE Gesture -------------------------------
(***************************************************************************)
(* mouse_test_gesture of lab4: packets are put together from bytes, and a  *)
(* state machine looks for a stroke up with the left button and one down   *)
(* with the right button.  The state machine runs with every byte: on the  *)
(* packet just completed, or once more on the one before.                  *)
(***************************************************************************)
EXTENDS Integers, Sequences

CONSTANTS
  x_len, tolerance,  \* arguments of the test
  Packets            \* packets of the mouse: [buttons, dx, dy]

VARIABLES
  counter, pp,       \* bytes of the packet so far, and the last whole packet
  started, peak      \* widths of the strokes up and down

VARIABLE drawn       \* history: packets of VShape that the user has drawn

vars == <<counter, pp, started, peak, drawn>>

\* A gesture: steep strokes of the width asked for, the buttons released after
\* each
Stroke(button, up) ==
  [buttons |-> {button}, dx |-> x_len, dy |-> up * (x_len + 2 * tolerance + 1)]
Rest == [buttons |-> {}, dx |-> 0, dy |-> 0]
VShape == <<Stroke("left", 1), Rest, Stroke("right", -1), Rest>>

\* num / (double) den <= bound.  Division by zero gives an infinity or NaN.
AtMost(num, den, bound) == IF den > 0 THEN num <= bound * den
                           ELSE IF den < 0 THEN num >= bound * den
                           ELSE num < 0
Flat(p, slope) == \/ AtMost(p.dy + tolerance, p.dx - tolerance, slope)
                  \/ AtMost(p.dy - tolerance, p.dx + tolerance, slope)

-----------------------------------------------------------------------------
(* The four statements of the state machine on g = [started, peak]         *)

DrawLeft(g, p) ==
  IF p.buttons # {"left"} THEN g
  ELSE IF g.started = 0 THEN [g EXCEPT !.started = p.dx]
  ELSE IF Flat(p, 1) THEN [g EXCEPT !.started = 0]
  ELSE g

ReleaseLeft(g, p) ==
  IF p.buttons = {} /\ g.started > 0 /\ g.started < x_len
    THEN [g EXCEPT !.started = 0] ELSE g

\* Any other packet, the stroke up included, starts all over.
DrawRight(g, p) ==
  IF p.buttons # {"right"} THEN [started |-> 0, peak |-> 0]
  ELSE IF g.peak = 0 THEN [g EXCEPT !.peak = p.dx]
  ELSE IF Flat(p, -1) THEN [started |-> 0, peak |-> 0]
  ELSE g

ReleaseRight(g, p) ==
  IF p.buttons = {} /\ g.peak > 0 /\ g.peak < x_len
    THEN [started |-> 0, peak |-> 0] ELSE g

-----------------------------------------------------------------------------
\* counter and pp are not initialised.  (From 3 on, the bytes are written
\* behind the packet, with no telling over what.)
Init ==
  /\ counter \in 0 .. 2 /\ pp \in Packets
  /\ started = 0 /\ peak = 0 /\ drawn = 0

Running == started = 0 \/ peak = 0

\* One interrupt.  The first byte of a packet is skipped without its bit 3; the
\* third completes packet.
Notify(skipped, packet) ==
  /\ Running
  /\ skipped => counter = 0
  /\ counter' = IF skipped THEN 0 ELSE (counter + 1) % 3
  /\ pp' = IF counter = 2 THEN packet ELSE pp
  /\ LET p == pp'
         g == [started |-> started, peak |-> peak]
         h == ReleaseRight(DrawRight(ReleaseLeft(DrawLeft(g, p), p), p), p)
     IN  started' = h.started /\ peak' = h.peak
  /\ drawn' = IF counter # 2 \/ drawn = Len(VShape) THEN drawn
              ELSE IF packet = VShape[drawn + 1] THEN drawn + 1
              ELSE 0

Next == \E skipped \in BOOLEAN, packet \in Packets : Notify(skipped, packet)

Spec == Init /\ [][Next]_vars

-----------------------------------------------------------------------------
(* Properties *)

\* lab4.h:75 "should terminate if a gesture is detected": the loop has ended
\* when all of a gesture has been drawn.  (lab4.c:190-193 forgets the stroke up
\* with the packet that drew it.)
GestureEnds == drawn = Len(VShape) => ~Running
=============================================================================
