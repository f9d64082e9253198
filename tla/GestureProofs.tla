---------------------------- MODULE GestureProofs ----------------------------
(***************************************************************************)
(* The gesture loop of lab4 never ends, for all packets, widths and        *)
(* tolerances.                                                             *)
(***************************************************************************)
EXTENDS Gesture, TLAPS

Forgotten == started = 0

\* The state machine finds started zero and leaves it zero, whatever the packet
\* and whatever the width of a stroke down (lab4.c:166-197).
LEMMA MachineForgets ==
  ASSUME NEW p, NEW g, g = [started |-> 0, peak |-> g.peak]
  PROVE  ReleaseRight(DrawRight(ReleaseLeft(DrawLeft(g, p), p), p), p).started = 0
<1> DEFINE h == ReleaseLeft(DrawLeft(g, p), p)
<1>1. CASE p.buttons # {"right"}
  <2>1. DrawRight(h, p) = [started |-> 0, peak |-> 0]
    BY <1>1 DEF DrawRight
  <2>2. QED
    BY <2>1 DEF ReleaseRight
<1>2. CASE p.buttons = {"right"}
  <2>1. p.buttons # {"left"} /\ p.buttons # {}
    BY <1>2
  <2>2. h = g
    BY <2>1 DEF DrawLeft, ReleaseLeft
  <2>3. DrawRight(g, p).started = 0
    BY <1>2 DEF DrawRight
  <2>4. ReleaseRight(DrawRight(g, p), p) = DrawRight(g, p)
    BY <2>1 DEF ReleaseRight
  <2>5. QED
    BY <2>2, <2>3, <2>4
<1>3. QED
  BY <1>1, <1>2

\* mouse_test_gesture never leaves its loop: the condition of the while never
\* fails (lab4.c:144), for no arguments and no sequence of packets.
THEOREM NeverEnds == Spec => []Running
<1>1. Init => Forgotten
  BY DEF Init, Forgotten
<1>2. Forgotten /\ [Next]_vars => Forgotten'
  <2> SUFFICES ASSUME Forgotten, [Next]_vars PROVE Forgotten'
    OBVIOUS
  <2>1. CASE UNCHANGED vars
    BY <2>1 DEF vars, Forgotten
  <2>2. ASSUME NEW skipped \in BOOLEAN, NEW packet \in Packets,
               Notify(skipped, packet)
        PROVE  Forgotten'
    <3> DEFINE g == [started |-> started, peak |-> peak]
    <3>1. g = [started |-> 0, peak |-> g.peak]
      BY DEF Forgotten
    <3>2. ReleaseRight(DrawRight(ReleaseLeft(DrawLeft(g, pp'), pp'), pp'), pp').started = 0
      BY <3>1, MachineForgets
    <3>3. QED
      BY <2>2, <3>2 DEF Notify, Forgotten
  <2>3. QED
    BY <2>1, <2>2 DEF Next
<1>3. Forgotten => Running
  BY DEF Forgotten, Running
<1>4. QED
  BY <1>1, <1>2, <1>3, PTL DEF Spec
=============================================================================
