-------------------------------- MODULE Timer --------------------------------
(***************************************************************************)
(* The 8254 as timer.c and utils.c drive it for the tests of lab2:         *)
(* timer_set_frequency (timer_test_time_base), and timer_get_conf followed *)
(* by timer_display_conf (timer_test_read_config).                         *)
(*                                                                         *)
(* A frequency is set by a control word and the two bytes of a divisor,    *)
(* three writes to two ports.  The control word is written before the      *)
(* arguments are looked at, so that a refused call leaves a counter that   *)
(* waits for a divisor.  Its selector is what a uint8_t keeps of timer     *)
(* << 6, two bits: a call for counter 4, which is refused, has by then     *)
(* reprogrammed counter 0.                                                 *)
(***************************************************************************)
EXTENDS Integers

CONSTANTS
  TIMER_FREQ,  \* clock of the counters, in Hz                    [1193182]
  U16,         \* values of a uint16_t                              [65536]
  Timers,      \* arguments of the calls: the counters, and what is none
  Freqs,       \* frequencies asked for
  Garbage      \* statuses that an uninitialised variable may hold

Counters == 0 .. 2
Status == [access : 0 .. 3, low : 0 .. 15]

ASSUME TimerAssumption ==
  /\ U16 = 256 * 256
  /\ TIMER_FREQ \in Nat /\ TIMER_FREQ < 19 * U16
  /\ Timers \subseteq 0 .. 255
  /\ Freqs \subseteq Nat \ {0}
  /\ Garbage \subseteq Status

VARIABLES
  chip,    \* per counter: access mode and low bits of its control word, the
           \* count, and the byte of a new one that it waits for
  printed  \* what timer_display_conf last printed

VARIABLES  \* history
  accepted,  \* per counter the frequency last accepted, 0 if none
  refused,   \* counters whose last control word came from a refused call
  strayed    \* counters that a control word for what is no counter has reached

history == <<accepted, refused, strayed>>
vars == <<chip, printed, history>>

Byte == 0 .. 255
Counter == [access : 0 .. 3, low : 0 .. 15, waits : {"no", "lsb", "msb"},
            half : Byte, count : 0 .. (U16 - 1)]

\* The counters as the system leaves them: the clock is a square wave (mode
\* 3), memory refresh a rate generator (mode 2) set up by its low byte, and
\* the speaker a square wave.
Boot == [t \in Counters |->
           [access |-> IF t = 1 THEN 1 ELSE 3, low |-> IF t = 1 THEN 4 ELSE 6,
            waits |-> "no", half |-> 0, count |-> IF t = 1 THEN 18 ELSE 0]]
BootMode == [t \in Counters |-> IF t = 1 THEN 2 ELSE 3]

-----------------------------------------------------------------------------
(* The chip *)

\* A write to the control register selects a counter.  A fourth "counter" is
\* a read-back: this one, with both inverted latch bits set, latches nothing.
WriteControl(ch, word) ==
  IF word.sel \notin Counters THEN ch
  ELSE [ch EXCEPT ![word.sel] =
          [@ EXCEPT !.access = word.access, !.low = word.low, !.waits = "lsb"]]

\* A write to a counter that expects two bytes
WriteCounter(ch, t, b) ==
  [ch EXCEPT ![t] =
     IF @.waits = "msb"
       THEN [@ EXCEPT !.count = 256 * b + ch[t].half, !.waits = "no"]
       ELSE [@ EXCEPT !.half = b, !.waits = "msb"]]

\* The clock pulses of one period: a count of 0 is the longest.
Period(c) == IF c.count = 0 THEN U16 ELSE c.count

-----------------------------------------------------------------------------
(* utils.c and timer.c *)

util_get_MSB(val) == val \div 256
util_get_LSB(val) == val - 256 * (val \div 256)

\* mutant: the quotient is not cut to 16 bits
WideDivisor(freq) == TIMER_FREQ \div freq

\* uint16_t divisor = TIMER_FREQ / freq
Divisor(freq) == (TIMER_FREQ \div freq) % U16

\* timer_get_conf, of the status the fields that are used.  If timer is not
\* a counter *st stays as it was, and it was not initialised.
timer_get_conf(timer) ==
  IF timer \in Counters
    THEN {[access |-> chip[timer].access, low |-> chip[timer].low]}
    ELSE Garbage

\* mutant: every counter is made a square wave generator
SquareWave(timer, conf) == [sel |-> timer % 4, access |-> 3, low |-> 6]

\* The two bits of timer that timer << 6 leaves in a uint8_t, TIMER_LSB_MSB,
\* and the low bits, mode and base, as they were read
ControlWord(timer, conf) == [sel |-> timer % 4, access |-> 3, low |-> conf.low]

\* mutant: the high byte is written first
SwappedBytes(ch, timer, d) ==
  WriteCounter(WriteCounter(ch, timer, util_get_MSB(d)), timer, util_get_LSB(d))

WriteDivisor(ch, timer, d) ==
  WriteCounter(WriteCounter(ch, timer, util_get_LSB(d)), timer, util_get_MSB(d))

\* timer_set_frequency up to its checks, and what they let pass
timer_set_frequency(timer, freq, conf) ==
  LET ch == WriteControl(chip, ControlWord(timer, conf))
  IN  IF timer \notin Counters \/ freq < 18
        THEN [code |-> 1, chip |-> ch]
        ELSE [code |-> 0, chip |-> WriteDivisor(ch, timer, Divisor(freq))]

\* timer_display_conf: modes 6 and 7 are other names of 2 and 3
CountMode(m) == CASE m \in {2, 6} -> 2 [] m \in {3, 7} -> 3 [] OTHER -> m
timer_display_conf(st, field) ==
  CASE field = "tsf_initial" -> st.access
    [] field = "tsf_mode" -> CountMode(st.low \div 2)
    [] field = "tsf_base" -> st.low % 2
    [] OTHER -> 16 * st.access + st.low

Fields == {"tsf_all", "tsf_initial", "tsf_mode", "tsf_base"}

-----------------------------------------------------------------------------
Init ==
  /\ chip = Boot
  /\ printed = [timer |-> 0, field |-> "tsf_base", value |-> 0]
  /\ accepted = [t \in Counters |-> 0] /\ refused = {} /\ strayed = {}

timer_test_time_base(timer, freq) ==
  /\ \E conf \in timer_get_conf(timer) :
       LET r == timer_set_frequency(timer, freq, conf)
           hit == {timer % 4} \cap Counters
       IN  /\ chip' = r.chip
           /\ IF r.code = 0
                THEN /\ accepted' = [accepted EXCEPT ![timer] = freq]
                     /\ refused' = refused \ hit
                ELSE refused' = refused \cup hit /\ UNCHANGED accepted
           /\ strayed' = IF timer \in Counters THEN strayed ELSE strayed \cup hit
  /\ UNCHANGED printed

timer_test_read_config(timer, field) ==
  /\ \E conf \in timer_get_conf(timer) :
       printed' = [timer |-> timer, field |-> field,
                   value |-> timer_display_conf(conf, field)]
  /\ UNCHANGED <<chip, history>>

Next == \E timer \in Timers :
          \/ \E freq \in Freqs : timer_test_time_base(timer, freq)
          \/ \E field \in Fields : timer_test_read_config(timer, field)

Spec == Init /\ [][Next]_vars

-----------------------------------------------------------------------------
(* Properties *)

TypeOK ==
  /\ chip \in [Counters -> Counter]
  /\ printed \in [timer : Timers \cup {0}, field : Fields, value : 0 .. 63]
  /\ accepted \in [Counters -> Freqs \cup {0}]
  /\ refused \subseteq Counters /\ strayed \subseteq Counters

\* timer.h:46 "does not change the 4 LSBs (mode and BCD/binary)": whatever
\* frequencies were set or refused before, a counter is found in the mode and
\* base in which the system left it (timer.c:13-16, 82-101).  The exception is
\* a counter that some call for what is no counter has reached, one with the
\* same two low bits: its mode is then anything, and later calls keep it.
ModeSurvives ==
  printed.timer \in Counters \ strayed =>
    /\ printed.field = "tsf_mode" => printed.value = BootMode[printed.timer]
    /\ printed.field = "tsf_base" => printed.value = 0

\* A counter whose last control word came from a call that was accepted is not
\* left half programmed, and unless its base was ever lost it divides by what
\* that call asked for, as far as 16 bits can: exactly from 19 Hz up to the
\* clock, by 2^16 above it, and at 18 Hz by the quotient less 2^16, which
\* makes 1589 Hz of them (timer.c:27-38, utils.c:7-17).
RunsAsAccepted ==
  \A t \in Counters \ refused :
    /\ chip[t].waits = "no"
    /\ t \notin strayed /\ accepted[t] # 0 =>
         LET q == TIMER_FREQ \div accepted[t]
         IN  Period(chip[t]) = CASE q = 0 -> U16
                                 [] q > U16 -> q - U16
                                 [] OTHER -> q
=============================================================================
