----------------------------- MODULE TimerProofs -----------------------------
(***************************************************************************)
(* What timer_set_frequency does to the counters, for every sequence of    *)
(* frequencies and every value of its argument.                            *)
(***************************************************************************)
EXTENDS Timer, TLAPS

\* The inductive invariant: what is printed is read off the low bits, which
\* are the ones of the start unless a stray control word has replaced them.
LowBitsKept ==
  \A t \in Counters \ strayed : chip[t].low = IF t = 1 THEN 4 ELSE 6

IInv ==
  /\ chip \in [Counters -> Counter]
  /\ accepted \in [Counters -> Nat]
  /\ LowBitsKept /\ ModeSurvives /\ RunsAsAccepted

\* A remainder is below its modulus, and that of a smaller number is itself.
LEMMA Remainder ==
  ASSUME NEW n \in Nat \ {0}, NEW q \in Int
  PROVE  q % n \in 0 .. (n - 1)
OBVIOUS

LEMMA SmallRemainder ==
  ASSUME NEW n \in Nat \ {0}, NEW q \in 0 .. (2 * n - 1)
  PROVE  /\ q < n => q % n = q
         /\ q >= n => q % n = q - n
OBVIOUS

\* The two bits of a selector
LEMMA Selector ==
  ASSUME NEW t \in Timers
  PROVE  /\ t % 4 \in 0 .. 3
         /\ t \in Counters => t % 4 = t
<1>1. t \in Nat
  BY TimerAssumption
<1>2. \A n \in Nat : n % 4 \in 0 .. 3 /\ (n \in 0 .. 2 => n % 4 = n)
  OBVIOUS
<1> QED BY <1>1, <1>2, Zenon DEF Counters

\* A frequency the test lets pass has a quotient below twice a word.
LEMMA QuotientFits ==
  ASSUME NEW freq \in Nat, freq >= 18
  PROVE  TIMER_FREQ \div freq \in 0 .. (2 * U16 - 1)
<1> DEFINE q == TIMER_FREQ \div freq
<1>1. U16 \in Nat /\ freq >= 18 /\ TIMER_FREQ \in Nat /\ TIMER_FREQ < 19 * U16
  BY TimerAssumption
<1>2. q \in Int /\ q * freq <= TIMER_FREQ /\ TIMER_FREQ < q * freq + freq
  BY <1>1
<1> HIDE DEF q
<1>3. q >= 0
  <2>1. CASE q <= -1
    <3>1. q * freq <= (-1) * freq
      BY <1>1, <1>2, <2>1
    <3> QED BY <1>1, <1>2, <3>1
  <2> QED BY <1>2, <2>1
<1>4. q < 2 * U16
  <2>1. CASE q >= 2 * U16
    <3>1. q * freq >= (2 * U16) * freq
      BY <1>1, <1>2, <2>1
    <3>2. (2 * U16) * freq >= (2 * U16) * 18
      BY <1>1
    <3> QED BY <1>1, <1>2, <3>1, <3>2
  <2> QED BY <1>1, <1>2, <2>1
<1>5. q \in 0 .. (2 * U16 - 1)
  BY <1>1, <1>2, <1>3, <1>4
<1> QED BY <1>5, Zenon DEF q

\* How many pulses a counter with the divisor of such a frequency counts
LEMMA CutQuotient ==
  ASSUME NEW freq \in Nat, freq >= 18
  PROVE  LET d == Divisor(freq)
             q == TIMER_FREQ \div freq
         IN  /\ d \in 0 .. (U16 - 1)
             /\ (IF d = 0 THEN U16 ELSE d) =
                   CASE q = 0 -> U16 [] q > U16 -> q - U16 [] OTHER -> q
<1> DEFINE d == Divisor(freq)
           q == TIMER_FREQ \div freq
<1>1. d = q % U16
  BY DEF Divisor
<1>2. q \in 0 .. (2 * U16 - 1)
  BY QuotientFits, Zenon
<1>3. U16 \in Nat \ {0}
  BY TimerAssumption
<1> HIDE DEF d, q
<1>4. q \in Int /\ (q < U16 \/ q >= U16) /\ (q < U16 => q >= 0)
  BY <1>2, <1>3
<1>5. d \in 0 .. (U16 - 1)
  BY <1>1, <1>3, <1>4, Remainder, Zenon
<1>6. (q < U16 => d = q) /\ (q >= U16 => d = q - U16)
  BY <1>1, <1>2, <1>3, SmallRemainder
<1>7. (IF d = 0 THEN U16 ELSE d) = CASE q = 0 -> U16 [] q > U16 -> q - U16 [] OTHER -> q
  <2>1. CASE q = 0
    BY <1>3, <1>6, <2>1
  <2>2. CASE q > U16
    BY <1>3, <1>4, <1>6, <2>2
  <2>3. CASE ~(q = 0) /\ ~(q > U16)
    BY <1>3, <1>4, <1>6, <2>3
  <2> QED BY <2>1, <2>2, <2>3
<1> QED BY <1>5, <1>7 DEF d, q

\* The two bytes of a word make up the word again.
LEMMA BytesOfWord ==
  ASSUME NEW d \in 0 .. (U16 - 1)
  PROVE  /\ util_get_LSB(d) \in Byte /\ util_get_MSB(d) \in Byte
         /\ 256 * util_get_MSB(d) + util_get_LSB(d) = d
<1>1. d \in Nat /\ d < 256 * 256
  BY TimerAssumption
<1> DEFINE q == d \div 256
<1>2. q \in Int /\ 256 * q <= d /\ d < 256 * q + 256
  BY <1>1
<1>3. util_get_MSB(d) = q /\ util_get_LSB(d) = d - 256 * q
  BY DEF util_get_LSB, util_get_MSB
<1> HIDE DEF q
<1> QED BY <1>1, <1>2, <1>3 DEF Byte

\* A control word concerns the counter it selects, if any.
LEMMA ControlWritten ==
  ASSUME NEW ch \in [Counters -> Counter], NEW timer, NEW conf,
         conf.low \in 0 .. 15
  PROVE  LET new == WriteControl(ch, ControlWord(timer, conf))
             u == timer % 4
         IN  /\ new \in [Counters -> Counter]
             /\ u \in Counters => new[u].waits = "lsb" /\ new[u].low = conf.low
             /\ \A v \in Counters : v # u => new[v] = ch[v]
<1> DEFINE new == WriteControl(ch, ControlWord(timer, conf))
           u == timer % 4
           l == conf.low
<1>1. new = IF u \notin Counters THEN ch
            ELSE [ch EXCEPT ![u] =
                    [ch[u] EXCEPT !.access = 3, !.low = l, !.waits = "lsb"]]
  BY DEF WriteControl, ControlWord
<1>2. l \in 0 .. 15
  OBVIOUS
<1> HIDE DEF new, u, l
<1>3. CASE u \notin Counters
  BY <1>1, <1>3 DEF new, u
<1>4. CASE u \in Counters
  <2> DEFINE x == ch[u]
             c == [x EXCEPT !.access = 3, !.low = l, !.waits = "lsb"]
  <2>1. x \in Counter /\ 3 \in 0 .. 3
    BY <1>4
  <2>2. new = [ch EXCEPT ![u] = c]
    BY <1>1, <1>4
  <2> HIDE DEF x
  <2>3. c \in Counter /\ c.waits = "lsb" /\ c.low = l
    BY <1>2, <2>1 DEF Counter
  <2> HIDE DEF c
  <2>4. /\ new \in [Counters -> Counter] /\ new[u] = c
        /\ \A v \in Counters : v # u => new[v] = ch[v]
    BY <1>4, <2>2, <2>3
  <2> QED BY <2>3, <2>4 DEF new, u, l
<1> QED BY <1>3, <1>4

\* A control word and a divisor leave the counter running with the divisor.
LEMMA Programmed ==
  ASSUME NEW ch \in [Counters -> Counter], NEW t \in Counters,
         ch[t].waits = "lsb", NEW d \in 0 .. (U16 - 1)
  PROVE  LET new == WriteDivisor(ch, t, d)
         IN  /\ new \in [Counters -> Counter]
             /\ new[t].waits = "no" /\ new[t].count = d
             /\ new[t].low = ch[t].low
             /\ \A u \in Counters : u # t => new[u] = ch[u]
<1> DEFINE lo == util_get_LSB(d)
           hi == util_get_MSB(d)
           c1 == [ch[t] EXCEPT !.half = lo, !.waits = "msb"]
           c2 == [c1 EXCEPT !.count = d, !.waits = "no"]
           one == WriteCounter(ch, t, lo)
           two == WriteCounter(one, t, hi)
<1>1. lo \in Byte /\ hi \in Byte /\ 256 * hi + lo = d
  BY BytesOfWord
<1>2. WriteDivisor(ch, t, d) = two
  BY Zenon DEF WriteDivisor
<1> HIDE DEF lo, hi
<1>3. /\ c1 \in Counter /\ c1.waits = "msb" /\ c1.half = lo
      /\ c1.low = ch[t].low
  BY <1>1 DEF Counter
<1> HIDE DEF c1
<1>4. /\ c2 \in Counter /\ c2.waits = "no" /\ c2.count = d /\ c2.low = c1.low
  BY <1>3 DEF Counter
<1>5. one = [ch EXCEPT ![t] = c1]
  BY DEF WriteCounter, c1
<1>6. /\ one \in [Counters -> Counter] /\ one[t] = c1
      /\ \A u \in Counters : u # t => one[u] = ch[u]
  BY <1>3, <1>5
<1> HIDE DEF one
<1>7. two = [one EXCEPT ![t] = c2]
  <2>1. one[t].waits = "msb" /\ 256 * hi + one[t].half = d
    BY <1>1, <1>3, <1>6
  <2>2. two = [one EXCEPT ![t] = [one[t] EXCEPT !.count = 256 * hi + one[t].half,
                                                !.waits = "no"]]
    BY <2>1 DEF WriteCounter
  <2> QED BY <1>6, <2>1, <2>2
<1> HIDE DEF c2
<1>8. /\ two \in [Counters -> Counter] /\ two[t] = c2
      /\ \A u \in Counters : u # t => two[u] = one[u]
  BY <1>4, <1>6, <1>7
<1> HIDE DEF two
<1> QED BY <1>2, <1>3, <1>4, <1>6, <1>8

LEMMA Starts == Init => IInv
<1> SUFFICES ASSUME Init PROVE IInv
  OBVIOUS
<1>0. 0 \in 0 .. (U16 - 1) /\ 18 \in 0 .. (U16 - 1)
  BY TimerAssumption
<1>1. /\ chip \in [Counters -> Counter]
      /\ \A t \in Counters : chip[t].low = IF t = 1 THEN 4 ELSE 6
      /\ \A t \in Counters : chip[t].waits = "no"
  BY <1>0 DEF Init, Boot, Counter, Byte
<1>2. accepted \in [Counters -> Nat] /\ \A t \in Counters : accepted[t] = 0
  BY DEF Init
<1>3. ModeSurvives
  BY DEF Init, ModeSurvives
<1>4. RunsAsAccepted
  BY <1>1, <1>2 DEF RunsAsAccepted
<1> QED BY <1>1, <1>2, <1>3, <1>4 DEF IInv, LowBitsKept

\* What timer_get_conf returns
LEMMA ConfType ==
  ASSUME chip \in [Counters -> Counter], NEW timer,
         NEW conf \in timer_get_conf(timer)
  PROVE  /\ conf \in Status /\ conf.low \in 0 .. 15
         /\ timer \in Counters => conf.low = chip[timer].low
<1>1. CASE timer \in Counters
  <2> DEFINE c == chip[timer]
  <2>1. conf = [access |-> c.access, low |-> c.low]
    BY <1>1 DEF timer_get_conf
  <2>2. c \in Counter
    BY <1>1
  <2> HIDE DEF c
  <2>3. conf \in Status /\ conf.low \in 0 .. 15 /\ conf.low = c.low
    BY <2>1, <2>2 DEF Counter, Status
  <2> QED BY <2>3 DEF c
<1>2. CASE timer \notin Counters
  <2>1. conf \in Status
    BY <1>2, TimerAssumption DEF timer_get_conf
  <2> QED BY <1>2, <2>1 DEF Status
<1> QED BY <1>1, <1>2

\* A call that sets a frequency
LEMMA TimeBase ==
  ASSUME IInv, NEW timer \in Timers, NEW freq \in Freqs,
         timer_test_time_base(timer, freq)
  PROVE  IInv'
<1> DEFINE u == timer % 4
           hit == {timer % 4} \cap Counters
<1>1. PICK conf \in timer_get_conf(timer) :
        LET r == timer_set_frequency(timer, freq, conf)
        IN  /\ chip' = r.chip
            /\ IF r.code = 0
                 THEN /\ accepted' = [accepted EXCEPT ![timer] = freq]
                      /\ refused' = refused \ hit
                 ELSE refused' = refused \cup hit /\ UNCHANGED accepted
            /\ strayed' = IF timer \in Counters THEN strayed ELSE strayed \cup hit
  BY DEF timer_test_time_base
<1>2. printed' = printed /\ freq \in Nat
  BY TimerAssumption DEF timer_test_time_base
<1>3. ModeSurvives'
  BY <1>1, <1>2 DEF IInv, ModeSurvives
<1>4. timer \in Counters => u = timer
  BY Selector
<1> DEFINE ch == WriteControl(chip, ControlWord(timer, conf))
<1>5. /\ conf.low \in 0 .. 15
      /\ timer \in Counters => conf.low = chip[timer].low
  BY ConfType DEF IInv
<1>6. /\ ch \in [Counters -> Counter]
      /\ u \in Counters => ch[u].waits = "lsb" /\ ch[u].low = conf.low
      /\ \A v \in Counters : v # u => ch[v] = chip[v]
  BY <1>5, ControlWritten DEF IInv
<1>7. timer_set_frequency(timer, freq, conf) =
        IF timer \notin Counters \/ freq < 18
          THEN [code |-> 1, chip |-> ch]
          ELSE [code |-> 0, chip |-> WriteDivisor(ch, timer, Divisor(freq))]
  BY DEF timer_set_frequency
<1> HIDE DEF ch, u
\* refused: the counter that was hit is among the refused, and strays unless
\* the call was for it
<1>8. CASE timer \notin Counters \/ freq < 18
  <2>1. /\ chip' = ch /\ accepted' = accepted /\ refused' = refused \cup hit
        /\ strayed' = IF timer \in Counters THEN strayed ELSE strayed \cup hit
    BY <1>1, <1>7, <1>8
  <2>2. \A t \in Counters \ refused' : t # u /\ t \in Counters \ refused
    BY <2>1 DEF u
  <2>3. ASSUME NEW t \in Counters \ strayed'
        PROVE  chip'[t].low = IF t = 1 THEN 4 ELSE 6
    <3>1. t \in Counters \ strayed
      BY <2>1, <2>3
    <3>2. CASE t # u
      BY <1>6, <2>1, <3>1, <3>2 DEF IInv, LowBitsKept
    <3>3. CASE t = u
      <4>1. timer \in Counters
        BY <2>1, <2>3, <3>3 DEF u
      <4>2. chip'[t].low = chip[t].low
        BY <1>4, <1>5, <1>6, <2>1, <3>3, <4>1
      <4> QED BY <3>1, <4>2 DEF IInv, LowBitsKept
    <3> QED BY <3>2, <3>3
  <2>4. RunsAsAccepted'
    <3> SUFFICES ASSUME NEW t \in Counters \ refused'
                 PROVE  /\ chip'[t].waits = "no"
                        /\ t \notin strayed' /\ accepted'[t] # 0 =>
                             LET q == TIMER_FREQ \div accepted'[t]
                             IN  Period(chip'[t]) = CASE q = 0 -> U16
                                                      [] q > U16 -> q - U16
                                                      [] OTHER -> q
      BY DEF RunsAsAccepted, Period
    <3>1. /\ t \in Counters \ refused /\ chip'[t] = chip[t]
          /\ accepted'[t] = accepted[t] /\ (t \notin strayed' => t \notin strayed)
      BY <1>6, <2>1, <2>2
    <3> QED BY <3>1 DEF IInv, RunsAsAccepted
  <2> QED BY <1>3, <1>6, <2>1, <2>3, <2>4 DEF IInv, LowBitsKept
<1>9. CASE timer \in Counters /\ ~(freq < 18)
  <2> DEFINE d == Divisor(freq)
             new == WriteDivisor(ch, timer, d)
  <2>1. /\ chip' = new /\ accepted' = [accepted EXCEPT ![timer] = freq]
        /\ refused' = refused \ hit /\ strayed' = strayed
    BY <1>1, <1>7, <1>9
  <2>2. freq >= 18 /\ u = timer
    BY <1>2, <1>4, <1>9
  <2>3. /\ d \in 0 .. (U16 - 1)
        /\ (IF d = 0 THEN U16 ELSE d) =
              LET q == TIMER_FREQ \div freq
              IN  CASE q = 0 -> U16 [] q > U16 -> q - U16 [] OTHER -> q
    BY <1>2, <2>2, CutQuotient, Zenon
  <2> HIDE DEF d
  <2>4. /\ new \in [Counters -> Counter]
        /\ new[timer].waits = "no" /\ new[timer].count = d
        /\ new[timer].low = ch[timer].low
        /\ \A v \in Counters : v # timer => new[v] = ch[v]
    BY <1>6, <1>9, <2>2, <2>3, Programmed
  <2> HIDE DEF new
  <2>5. LowBitsKept'
    <3>1. \A t \in Counters : chip'[t].low = chip[t].low
      BY <1>5, <1>6, <1>9, <2>1, <2>2, <2>4
    <3> QED BY <2>1, <3>1 DEF IInv, LowBitsKept
  <2>6. accepted' \in [Counters -> Nat]
    BY <1>2, <1>9, <2>1 DEF IInv
  <2>7. RunsAsAccepted'
    <3> SUFFICES ASSUME NEW t \in Counters \ refused'
                 PROVE  /\ chip'[t].waits = "no"
                        /\ t \notin strayed' /\ accepted'[t] # 0 =>
                             LET q == TIMER_FREQ \div accepted'[t]
                             IN  Period(chip'[t]) = CASE q = 0 -> U16
                                                      [] q > U16 -> q - U16
                                                      [] OTHER -> q
      BY DEF RunsAsAccepted, Period
    <3>1. CASE t = timer
      <4>1. accepted'[t] = freq /\ chip'[t].count = d /\ chip'[t].waits = "no"
        BY <1>9, <2>1, <2>4, <3>1 DEF IInv
      <4>2. Period(chip'[t]) = IF d = 0 THEN U16 ELSE d
        BY <4>1 DEF Period
      <4> QED BY <2>3, <4>1, <4>2, Zenon
    <3>2. CASE t # timer
      <4>1. /\ t \in Counters \ refused
            /\ accepted'[t] = accepted[t] /\ chip'[t] = chip[t]
        BY <1>6, <2>1, <2>2, <2>4, <3>2 DEF IInv, u
      <4> QED BY <2>1, <4>1 DEF IInv, RunsAsAccepted
    <3> QED BY <3>1, <3>2
  <2> QED BY <1>3, <2>1, <2>4, <2>5, <2>6, <2>7 DEF IInv
<1> QED BY <1>8, <1>9

\* A call that prints a field
LEMMA ReadConfig ==
  ASSUME IInv, NEW timer \in Timers, NEW field \in Fields,
         timer_test_read_config(timer, field)
  PROVE  IInv'
<1>1. /\ chip' = chip /\ accepted' = accepted /\ refused' = refused
      /\ strayed' = strayed
  BY DEF timer_test_read_config, history
<1>2. ModeSurvives'
  <2> SUFFICES ASSUME timer \in Counters \ strayed
               PROVE  /\ field = "tsf_mode" => printed'.value = BootMode[timer]
                      /\ field = "tsf_base" => printed'.value = 0
    BY <1>1 DEF ModeSurvives, timer_test_read_config
  <2>1. PICK conf \in timer_get_conf(timer) :
          printed'.value = timer_display_conf(conf, field)
    BY DEF timer_test_read_config
  <2>2. conf.low = IF timer = 1 THEN 4 ELSE 6
    BY DEF timer_get_conf, IInv, LowBitsKept
  <2>3. /\ conf.low % 2 = 0
        /\ CountMode(conf.low \div 2) = BootMode[timer]
    <3>1. CASE timer = 1
      <4>1. conf.low = 4 /\ BootMode[timer] = 2
        BY <2>2, <3>1 DEF BootMode
      <4>2. 4 \div 2 = 2 /\ 4 % 2 = 0
        OBVIOUS
      <4> QED BY <4>1, <4>2 DEF CountMode
    <3>2. CASE timer # 1
      <4>1. conf.low = 6 /\ BootMode[timer] = 3
        BY <2>2, <3>2 DEF BootMode
      <4>2. 6 \div 2 = 3 /\ 6 % 2 = 0
        OBVIOUS
      <4> QED BY <4>1, <4>2 DEF CountMode
    <3> QED BY <3>1, <3>2
  <2> QED BY <2>1, <2>3 DEF timer_display_conf
<1> QED BY <1>1, <1>2 DEF IInv, LowBitsKept, RunsAsAccepted, Period

LEMMA Steps == IInv /\ [Next]_vars => IInv'
<1> SUFFICES ASSUME IInv, [Next]_vars PROVE IInv'
  OBVIOUS
<1>1. CASE Next
  BY <1>1, TimeBase, ReadConfig DEF Next
<1>2. CASE UNCHANGED vars
  BY <1>2 DEF vars, history, IInv, LowBitsKept, ModeSurvives, RunsAsAccepted, Period
<1> QED BY <1>1, <1>2

-----------------------------------------------------------------------------
(* What is printed *)

\* Every field of a status is printed as a number of at most six bits.
LEMMA FieldFits ==
  ASSUME NEW st \in Status, NEW field \in Fields
  PROVE  timer_display_conf(st, field) \in 0 .. 63
<1> DEFINE a == st.access
           l == st.low
<1>1. a \in 0 .. 3 /\ l \in 0 .. 15
  BY DEF Status
<1>2. timer_display_conf(st, field) \in {a, CountMode(l \div 2), l % 2, 16 * a + l}
  BY DEF timer_display_conf
<1> HIDE DEF a, l
<1>3. 16 * a + l \in 0 .. 63 /\ a \in 0 .. 63
  BY <1>1
<1>4. l \div 2 \in 0 .. 7 /\ l % 2 \in 0 .. 63
  BY <1>1
<1>5. CountMode(l \div 2) \in 0 .. 63
  BY <1>4 DEF CountMode
<1> QED BY <1>2, <1>3, <1>4, <1>5

LEMMA StartsTyped == Init => TypeOK
<1> SUFFICES ASSUME Init PROVE TypeOK
  OBVIOUS
<1>1. chip \in [Counters -> Counter]
  BY Starts DEF IInv
<1>2. printed \in [timer : Timers \cup {0}, field : Fields, value : 0 .. 63]
  BY DEF Init, Fields
<1>3. /\ accepted \in [Counters -> Freqs \cup {0}]
      /\ refused \subseteq Counters /\ strayed \subseteq Counters
  BY DEF Init
<1> QED BY <1>1, <1>2, <1>3 DEF TypeOK

LEMMA StepsTyped == IInv /\ TypeOK /\ [Next]_vars => TypeOK'
<1> SUFFICES ASSUME IInv, TypeOK, [Next]_vars PROVE TypeOK'
  OBVIOUS
<1>1. chip' \in [Counters -> Counter]
  BY Steps DEF IInv
<1>2. ASSUME NEW timer \in Timers, NEW freq \in Freqs,
             timer_test_time_base(timer, freq)
      PROVE  TypeOK'
  <2> DEFINE hit == {timer % 4} \cap Counters
  <2>1. /\ printed' = printed
        /\ refused' \in {refused \ hit, refused \cup hit}
        /\ strayed' \in {strayed, strayed \cup hit}
        /\ accepted' \in {accepted, [accepted EXCEPT ![timer] = freq]}
    BY <1>2 DEF timer_test_time_base
  <2>2. accepted' \in [Counters -> Freqs \cup {0}]
    BY <2>1 DEF TypeOK
  <2>3. refused' \subseteq Counters /\ strayed' \subseteq Counters
    BY <2>1 DEF TypeOK
  <2> QED BY <1>1, <2>1, <2>2, <2>3 DEF TypeOK
<1>3. ASSUME NEW timer \in Timers, NEW field \in Fields,
             timer_test_read_config(timer, field)
      PROVE  TypeOK'
  <2>1. PICK conf \in timer_get_conf(timer) :
          printed' = [timer |-> timer, field |-> field,
                      value |-> timer_display_conf(conf, field)]
    BY <1>3 DEF timer_test_read_config
  <2>2. conf \in Status
    BY ConfType DEF IInv
  <2>3. timer_display_conf(conf, field) \in 0 .. 63
    BY <2>2, FieldFits
  <2>4. printed' \in [timer : Timers \cup {0}, field : Fields, value : 0 .. 63]
    BY <2>1, <2>3
  <2>5. accepted' = accepted /\ refused' = refused /\ strayed' = strayed
    BY <1>3 DEF timer_test_read_config, history
  <2> QED BY <1>1, <2>4, <2>5 DEF TypeOK
<1>4. CASE UNCHANGED vars
  BY <1>1, <1>4 DEF vars, history, TypeOK
<1> QED BY <1>2, <1>3, <1>4 DEF Next

-----------------------------------------------------------------------------
(* Theorems *)

\* Every variable keeps its type, refused calls and uninitialised statuses
\* included: a byte of the divisor never leaves the range of a byte, a count
\* never that of a word, and a printed field never its bits of the status
\* (timer.c:15-38, 82-101, utils.c:7-17).
THEOREM TypeCorrect == Spec => []TypeOK
<1>1. Init => IInv /\ TypeOK
  BY Starts, StartsTyped
<1>2. IInv /\ TypeOK /\ [Next]_vars => (IInv /\ TypeOK)'
  BY Steps, StepsTyped
<1> QED BY <1>1, <1>2, PTL DEF Spec

\* timer.h:46: no sequence of calls, accepted or refused, changes the mode or
\* the base of a counter, except where one for what is no counter has the two
\* low bits of the counter (timer.c:13-16).
THEOREM ModeKept == Spec => []ModeSurvives
<1>1. IInv => ModeSurvives
  BY DEF IInv
<1> QED BY <1>1, Starts, Steps, PTL DEF Spec

\* A counter whose last control word came from an accepted call waits for no
\* byte, and unless its base was ever lost it counts the 16 bits of the
\* quotient for the frequency accepted: all of it from 19 Hz up to the clock
\* (timer.c:27-38, utils.c:7-17).
THEOREM FrequencySet == Spec => []RunsAsAccepted
<1>1. IInv => RunsAsAccepted
  BY DEF IInv
<1> QED BY <1>1, Starts, Steps, PTL DEF Spec
=============================================================================
