# LabChase in TLA+

A TLA+ model of LabChase, the two-player light-cycle game of this repository
(`src/proj`, C on MINIX 3 with the LCOM framework), with TLC runs that check it on
small instances and TLAPS proofs that hold for every instance.

## 1. The system

The program is one process without threads. What makes it hard is that everything it
does is a reaction to an interrupt: timer ticks, keyboard bytes and mouse bytes arrive
in any order, several of them may be merged into one notification, and the reaction
depends on half a dozen globals that different loops set and reset.

| component | source | state | operations |
|---|---|---|---|
| main loop | `proj/src/main.c` | `screenState`, `printed`, `startGame`, `paused`, `hour`, `saveGameScreen`, one packet per menu | one inner loop for each of MAIN, GOONE, GOTWO, PAUSE, S_GAME, M_GAME: a head that draws or deals, then `driver_receive` and the handlers |
| game logic | `proj/src/video_gr.c` | `video_mem`, `bluePlayer`, `orangePlayer` | `start_game`, `move_player`, `passive_move_players`, `vg_draw_rectangle` (the collision test), `draw_img` |
| keyboard | `proj/src/keyboard.c` | `scanCode`, `nextMove`; writes `screenState` | `kbc_ih`, KBC command bytes |
| mouse, cursor | `proj/src/mouse.c`, `video_gr.c` | `byteFromMouse`, `mouse` | `mouse_ih`, `parse_mouse_bytes`, `mouseMovement`, `mouseInPlace` |
| timer | `proj/src/timer.c` | `totalInterrupts` | `timer_int_handler`; frequency and configuration (lab2) |
| RTC | `proj/src/rtc.c` | - | the hour, read once at startup, in BCD |
| utils | `proj/src/utils.c` | `countSysInb` | bytes of a word, `util_sys_inb` |
| serial port | `proj/src/serial.c` | - | not in the `SRCS` of the Makefile, not part of the program |
| course exercises | `lab2` ... `lab5` | their own copies of the drivers | test loops over one device each |
| vendored | `.minix-src` | - | headers of MINIX and of the LCOM framework |

How they interact: `main` calls everything. Its loops call the interrupt handlers, and
the handlers answer through globals: `kbc_ih` assigns `screenState` and `nextMove`
behind the back of the loop that called it, `mouse_ih` leaves a byte in
`byteFromMouse` (or leaves the old one), `timer_int_handler` counts. `move_player`
answers with a code which the loop turns into a screen. The frame buffer is both the
picture and the only record of the trails: a collision is a pixel with a colour.

What is hard:

- **merged notifications**: a tick that ends a round and a key come together, and the
  key is handled on a round that is over;
- **flags**: `printed`, `startGame` and `paused` are set in one loop and cleared in another;
- **stale values**: `nextMove` is applied on every keyboard interrupt and never reset;
  `saveGameScreen` comes from `malloc`;
- **one pixel** decides about a square of pixels;
- **words**: coordinates and the cursor are `uint16_t` and wrap around;
- **unreliable bytes**: a mouse byte may be refused, or come while nobody listens, and
  the packet loses its place;
- **undefined behaviour**: a picture that is never loaded is drawn, and a `memset` runs
  past the mapping;
- **several writes to one device**: a divisor takes a control word and two bytes, and a
  call may be refused in between;
- **one output buffer** for keyboard and mouse, a screen that listens to one of them, and
  a status that is read before the data it is about;
- **commands nobody checks**: they are retried and given up, their answers read without
  waiting, their data written whether or not the controller is ready;
- **idle timeouts**: the loops of the exercises count seconds in two variables and start
  again with every input, which may come together with the tick that ends the wait.

`PROJECT.json` lists these as hazards, with the line where each bites and the
properties that are about it.

What makes each component correct: the flags keep their protocol, whatever the order of
events; a round is dealt once, only gains paint, survives a pause unchanged and is put
away before the next choice; repeating a move is harmless; every round ends; the
collision test finds the collisions of the game on a grid, no more and no fewer; the
cursor never leaves the screen; a menu that is in step with the mouse has an entry chosen by
a click on it and by nothing else, and after lost bytes it gets back in step with the first
four good bytes of which no delta looks like a first byte; a counter of the timer keeps its
mode, unless a call for what is no counter reaches it, and runs as it was asked last; an idle timeout is counted from the last input and does come; a handler accepts
a byte once and only from its own device, drops none it was called for, and the controller
is left as it should be, or damaged in exactly the way that each unchecked access allows.

## 2. The modules

| module | models | composed of |
|---|---|---|
| `VideoGr` | `video_gr.c`: frame buffer, squares, collision test, moves, the start of a round. Operators only | |
| `Keyboard` | `kbc_ih`. Operators only | |
| `LabChase` | `proj_main_loop`: all screens, flags and handlers | `VideoGr`, `Keyboard`; refines `Session` |
| `Session` | abstract: what the screens promise about a round and its picture | |
| `Match` | rounds as `video_gr.c` plays them, without the screens | `VideoGr`; refines `LightCycle` |
| `LightCycle` | abstract: the game on a grid of cells | |
| `Mouse` | packets, cursor and menu entries, with refused and unheard bytes | `Keyboard` (status bits) |
| `Timer` | the 8254 as `timer.c` and `utils.c` program and read it (lab2) | |
| `TestLoops` | the interrupt loops of lab2 to lab4 with merged notifications | |
| `Controller` | the 8042 with its two devices, and the programs that use it: the game, `kbd_test_poll`, `mouse_test_packet` | |
| `Gesture` | `mouse_test_gesture` of lab4 | |
| `MCLabChase`, `MCMatch`, `MCMouse`, `MCTimer`, `MCTestLoops`, `MCController`, `MCGesture` | constants for TLC | |
| `LabChaseClaims` | sentences of `src/README.md` that the code does not keep | `MCLabChase` |
| `VideoGrProofs`, `LabChaseProofs`, `MatchProofs`, `MouseProofs`, `TimerProofs`, `TestLoopsProofs`, `ControllerProofs`, `GestureProofs` | theorems | |

### State and actions of `LabChase`

Variables carry the names of the globals. `arena` bundles `video_mem`, `bluePlayer`
and `orangePlayer`, because every function of `video_gr.c` works on the three of them.
`loop` says where the process is, at the head of an inner loop or in `driver_receive`;
nothing happens in between that another actor could see. `shown` names the picture that
was drawn last, `proc` whether the process lives. `crashed` and `freshMove` are history:
the program never reads them.

- `MenuHead`, `PauseHead`, `GameHead`, `SerialHead`, `Exit`: the code before each
  `driver_receive`, with everything it draws, deals, saves, restores and resets.
- `GameTimer`, `GameKeyboard`, `GameTimerAndKeyboard`: a notification in S_GAME with
  one or both bits. Both handlers run to the end, the timer first, on the same globals.
- `PauseKeyboard`: PAUSE handles the keyboard exactly as S_GAME does, moves included.
- `MousePacket(choice)`: the third byte of a packet in a menu. `Mouse` has the bytes.
- `NothingToDo`: a failing receive, or a notification no handler of the screen is for.
- `ClearFaults`: the memset of a new round leaves the mapping and the process dies.

Abstractions:

- All pictures of menus have the same pixels; which one is shown is `shown`. The
  program never reads the pixels of a menu before it has cleared them.
- `gameOver2` is never loaded. Drawing it is undefined: something is drawn, or nothing,
  or the process dies (`DrawPicture`). Also the memset may survive or fault.
- `totalInterrupts` is kept modulo the five ticks of a move; nothing else is asked of it.
- Memory behind the screen (`Memory \ Screen`) is mapped up to `MappedPixels`: a cycle
  below the last line paints there, and further down the process faults.
- The heads and handlers are atomic: one process, and devices that only raise bits.
- Logging, the bytes of a pixel (a colour is one value) and the sprites of the cursor
  are left out.

### `Match` and `LightCycle`

`vg_draw_rectangle` looks at one pixel and then paints `SIZE_FRONT_END` squared of them.
`LightCycle` is the game that is meant: cells, cycles with a heading, a wall made of
every cell entered in this round, and a crash when a cell of the wall is entered. The
refinement mapping reads the wall off the frame buffer. It holds by day, and until a
cycle leaves the map: the code has no test for the edges, and then everything may happen
(`stray`). Before the first round the positions are the zeros of static variables.

### `Mouse`

The device sends packets byte by byte; each byte is accepted or refused by the status
register, and bytes sent during a round reach no handler of the mouse. A refused byte
does not stop the loop: it stores the last accepted byte once more, as main.c does.
The device sets bit 3 of every first byte, on which main.c:101 relies; a delta may have it
too, as all moves by -1 to -8 and by 8 to 15 do, and a loop that waits for a first byte takes
such a delta for one. `quiet` is history: how many good bytes came in a row since the last
byte that was refused or not heard, or since the last such delta, up to `Settle` = 4; there it
stays until the next refused or unheard byte, since a loop in step is not misled by deltas.

### `Timer`

`chip` is the state of the three counters (access mode, mode and base, the count, and
the byte that a counter waits for); the chip itself is external and modelled from the
order in which `timer.c` reads and writes its ports. `timer_test_time_base` and
`timer_test_read_config` are one action each, with all the writes they make:
`timer_set_frequency` writes its control word before it looks at its arguments, so that
a refused call changes the chip. The argument is any `uint8_t`, and the selector what
`timer << 6` leaves of it in another `uint8_t`, its two low bits (timer.c:15): 3 selects a
read-back that latches nothing, but 4 selects counter 0, 5 counter 1 and 6 counter 2, before
the call is refused. For a `timer` that is no counter the configuration is an uninitialised
byte, any member of `Garbage`. `printed` is what was last displayed. `accepted`, `refused`
(counters whose last control word came from a refused call) and `strayed` (counters that a
control word for what is no counter has ever reached) are history.

### `TestLoops`

The five loops share `driver_receive`: `Raise` sets the bit of a subscribed interrupt,
`Receive` takes all bits at once and runs one turn of the loop, `Return` leaves it. A
second tick raised before a receive is lost, as in the kernel. Each loop is an operator
with its own name; lab3 handles the key before the tick, lab4 the tick before the byte.
`left` is the argument counted down (`time`, `n`, `cnt`, `idle_time`), `totalInterrupts`
is kept modulo a second, of a scan code the loops ask only whether it is the break code
of Esc, and of a mouse byte whether it has bit 3. Printing is left out, data reporting is
in `Controller`. `silence` is history; it is counted from the last interrupt of the device,
also one whose byte is refused, since that is where the loops restart their counters, while
`lab3.h` and `lab4.h:62` speak of scancodes and packets.

### `Controller`

Here each access to a port is a step, and the devices and the controller act in between.
The controller is external: it holds a device off while its output buffer is full (`Send`),
raises an interrupt once for each byte, takes what is written to it when it gets round to it
(`Take`), and puts an answer into the same buffer. A byte is known by its sender and its
number, and carries the error bits of its status; of a scan code only the break code of Esc
is told apart.

- `Receive`: a notification with all pending bits. `Listener` is the device whose bit the
  screen looks at (the mouse on a menu, the keyboard in a round and its pause); the bit of
  the other is dropped. `fatal` is the tick that ends a round, alone or with a key.
- `ReadStatus`, `ReadData`: the two reads of `kbc_ih` and `mouse_ih`. `Continue` is what
  the caller does next; what a packet or a key does to the screen is any of the outcomes
  which `LabChase` and `Mouse` derive from its contents.
- `send_KBC_command_byte`, `read_command_byte`, `write_command_byte`: the accesses of
  `enableInterrupts` after `kbd_test_poll` and of `disableDataReporting` after
  `mouse_test_packet`, in the order of `Accesses`; one attempt of a command is one step.
  Other tests of lab4 close in the same way.

`taken`, `dropped` and `mishaps` are history: what was accepted, whether a handler dropped
a good byte, and which of the unchecked operations went wrong. The subscription of the
exercises ends with the loop, so that bytes sent afterwards raise nothing.

### `Gesture`

The packet is put together from bytes, and the state machine of lab4.c:166-197 runs with
every byte, on the packet before if none was completed. It is four statements on `started`
and `peak`, in their order. The quotients in `double` are compared exactly (`AtMost`, with
the infinities and NaN of a zero divisor). `counter` and `pp` are not initialised: any packet, and any
place in it; a place beyond it, where bytes are written over other variables, is left out.
`drawn` is history.

## 3. The runs

| run | checks | shows |
|---|---|---|
| `game` | `TypeOK`, `FlagProtocol`, `ShownMatchesScreen`, `RepeatedMoveIsIgnored`, `ImplementsSession` | under all orders of ticks, keys, merged notifications, bad status bytes and packets, the flags keep their protocol; undefined memory is never restored; the repeated move is ignored within a round; the loop implements `Session` |
| `game_live` | `RoundEnds` | with a timer that does not fall silent every round ends, is paused or dies, also beyond the edges |
| `match` | `TypeOK`, `BlocksAreUniform`, `PlaysLightCycle` | the test of one pixel is the collision test of the grid |
| `mouse` | `TypeOK`, `CursorInside`, `BackInStep`, `ChosenByClick` | the cursor stays inside although sums wrap; four good bytes without a misleading delta put the loop back in step, and it stays in step; there only a click on an entry chooses it |
| `timer` | `TypeOK`, `ModeSurvives`, `RunsAsAccepted` | after any calls, refused ones in between, the mode read is the one the system left, unless a stray control word reached the counter, and counters run as asked last, as far as 16 bits can |
| `loops` | `TypeOK`, `CountsSilence`, `EndsAfterSilence`, `SilenceEnds` | however ticks and inputs are merged, an idle wait is counted from the last input, ends exactly then, and ends |
| `controller` | `TypeOK`, `StatusStillTrue`, `NoticedIsTaken`, `LeftInOrder`, `BufferIsEmptied` | with devices and controller acting between any two port accesses, no byte is accepted twice or for one of the other device, an interrupt handler drops no good byte, the tests leave the controller in order, or with exactly the damage of the access that was given up or made too early, and what is in the buffer is read unless the game ignores it |
| `claim_crash` | `NoPlayAfterCrash` | refuted: P in the notification of the fatal tick turns the end of the round into a pause, and the round goes on |
| `claim_cause` | `CrashHasCause` | refuted: on the white background of the evening the first tick is a crash |
| `claim_keys` | `OnlyMovementKeysMove` | refuted: in the next round any key repeats the last move of the one before |
| `claim_deaf` | `NeverDeaf` | refuted: a key pressed on a menu stays in the output buffer, and neither device gets through any more |
| `claim_gesture` | `GestureEnds` | refuted: a whole gesture is drawn and the test waits on |

Deadlock is checked in `timer` only: elsewhere the program exits, dies of a fault, or
waits for a person.

**Bounds.** `LabChase` runs on 12 by 4 pixels with squares of 2 by 2: six columns and two
rows. That is enough for a turn, a crash into the own and the other trail, a crash of
both into one square, leaving the map at every side, and a coordinate that wraps: words
have four bits, so that 0 - 2 is 14, beyond the screen as 65532 is in the program. Four
mapped pixels behind the screen give room to paint behind it and to fault. A period
of two ticks has both a tick that moves and one that does not. The scan codes are two
keys of blue, one of orange, P and a make code; the status bytes one good and one bad.
`game_live` uses a period of one tick. `Match` uses 8 by 8 pixels (16 cells, all turns of
both players); `Mouse` a range of 21 by 11 positions and seven packets: a click, a drag, moves
to the right and up, to the left and down, and two with deltas that look like first bytes, -1
and 9 with -8. `Settle` = 4 is the smallest number for which `BackInStep` holds. The entries
are placed so that the worst case occurs, a first byte heard twice in place of a refused one
and then half a packet: with 3 the run fails.

`Timer` has the clock and the words of the machine; the counters 0 and 1, a call for
what is none (3) and one whose control word reaches counter 0 (4), two values of an
uninitialised status, and frequencies on both sides of the test for 18 and of the 19 from which
on a divisor fits, one in use and one above the clock, whose divisor is 0. Counter 2
takes the same path as 0, with the same mode. `TestLoops` has three ticks in a second and arguments
from 0 to 3: a second with a first, a middle and a last tick, and a restart in each
second. In `Controller` each device sends up to three bytes (`MaxSent`), which is one more
than a byte that is read and one that comes between the two reads need, and a command is tried twice
(`Tries`, ten in the code): a first and a last attempt. `Gesture` has strokes of width 0 and
2, steep and flat, with every combination of the two buttons.

**Fairness** (`FairSpec` of `LabChase`, for `RoundEnds`). Two assumptions. The process is scheduled: a
head of a loop that can run, runs (weak fairness of `Head`). The timer keeps ticking,
and a tick raised while the process is busy stays pending until the next receive, so a
process that comes back to the receive of S_GAME again and again is handed a tick again
and again, alone or with a key (`Ticking`, strong fairness of `TimerStep`). Nothing is
assumed of players, mouse or keyboard. `FairSpec` of `TestLoops`, for `SilenceEnds`: the
process is scheduled and the timer raises its interrupt (weak fairness of `Handle` and of
`Raise("timer")`); an input that comes for ever is excepted in the property. `FairSpec` of
`Controller`, for `BufferIsEmptied`: the process is scheduled (weak fairness of `Handle`);
nothing is assumed of devices and controller.

**Mutants.** Each property of a passing run has a mutant in `PROJECT.json`: a definition
changed as a slip in the code would change it (no restore after the pause, `printed` not
cleared, a signed subtraction, only blue paint as an obstacle, no lower clamp, first byte
not looked at, bytes of the divisor swapped, ticks not restarted with the seconds, OBF not looked at, a return before the data is read), under which the same run finds the property violated.

## 4. The proofs

| theorem | module | property |
|---|---|---|
| `TypeCorrect` | `LabChaseProofs` | `Spec => []TypeOK` |
| `FlagsCorrect` | `LabChaseProofs` | `Spec => []FlagProtocol` |
| `RepeatCorrect` | `LabChaseProofs` | `Spec => []RepeatedMoveIsIgnored` |
| `RightPictureShown` | `LabChaseProofs` | `Spec => []ShownMatchesScreen` |
| `SessionImplemented` | `LabChaseProofs` | `Spec => Sess!Spec` |
| `TypeCorrect` | `MatchProofs` | `Spec => []TypeOK` |
| `OnePixelIsEnough` | `MatchProofs` | `Spec => []BlocksAreUniform` |
| `CodePlaysLightCycle` | `MatchProofs` | `ByDay` implies `Spec => Grid!Spec` |
| `TypeCorrect` | `MouseProofs` | `Spec => []TypeOK` |
| `CursorStaysInside` | `MouseProofs` | `Spec => []CursorInside` |
| `FindsItsPlace` | `MouseProofs` | `Spec => []BackInStep` |
| `OnlyClicksChoose` | `MouseProofs` | `Spec => ChosenByClick` |
| `TypeCorrect` | `TimerProofs` | `Spec => []TypeOK` |
| `ModeKept` | `TimerProofs` | `Spec => []ModeSurvives` |
| `FrequencySet` | `TimerProofs` | `Spec => []RunsAsAccepted` |
| `TypeCorrect` | `TestLoopsProofs` | `Spec => []TypeOK` |
| `SilenceCounted` | `TestLoopsProofs` | `Spec => []CountsSilence` |
| `SilenceKept` | `TestLoopsProofs` | `Spec => []EndsAfterSilence` |
| `ControllerTyped` | `ControllerProofs` | `Spec => []TypeOK` |
| `StatusTrusted` | `ControllerProofs` | `Spec => []StatusStillTrue` |
| `NothingDropped` | `ControllerProofs` | `Spec => []NoticedIsTaken` |
| `EndsInOrder` | `ControllerProofs` | `Spec => []LeftInOrder` |
| `NeverEnds` | `GestureProofs` | `Spec => []Running` |

They hold for every screen size, word size, size of a square, set of scan codes, hours,
packets, frequencies, seconds, ticks, bytes and attempts that the named assumptions admit (`ScreenAssumption`, `LoopAssumption`,
`GridAssumption`, `HoursAssumption`, `MouseAssumption`, `TimerAssumption`, `LoopsAssumption`, `ControllerAssumption`);
TLC evaluates the assumptions in each run.

`GridAssumption` is the geometry on which the collision test rests, and the mode of the game
(800 by 600, squares and steps of 5) satisfies it: the step is the side of a square, the
resolution, its half and the start gap are multiples of it, words have room for one step
beyond the edge, and both cycles start on the map. `MouseAssumption` has of the packets only
that first bytes have bit 3, `TimerAssumption` of the arguments only that they are bytes. One
theorem has a hypothesis about constants besides, stated where it is used. `ByDay`: no hour in
`Hours` gives a white background; by night the first move is a crash, which is the finding of
`claim_cause`. It holds in the run that checks the same property.

**The inductive invariant of `LabChase`** is `TypeOK`, `FlagProtocol`, `SavedIsPicture`
and `RepeatIgnored` together; none of the first two is inductive alone. `TypeOK` says
that the frame buffer holds colours. `GameHead` copies `saveGameScreen` into it, which is
undefined at first, so one has to know that it was written whenever `paused` is set
(`SavedIsPicture`); that `paused` is set nowhere else is the flag protocol. The protocol
in turn is stated for the places where a screen waits *and* for those where it is about
to be entered, since `kbc_ih` changes the screen without touching a flag.
`RepeatIgnored` is `RepeatedMoveIsIgnored` for every living process. `VideoGrProofs` has
the lemmas about the operators: painting keeps the type, changes pixels to the ink only,
a move ends with a direction for which the same move is ignored.

`ShownMatchesScreen` speaks of a process that waits; between two waits the picture of one
screen is still there while `screenState` is already another. `ShownOnWay` says which: in the
game and in the pause alike it is `paused` that tells the pause picture from the round, and the
flag protocol turns that into the property when the screen waits.

**The implementation proof** uses that invariant: each action of `LabChase` is a step of
`Session` or leaves the screen, `startGame` and the picture of the round alone. The
picture is the screen while a round is played and the save buffer while it is paused, so
the interesting steps are the two heads that move it from one to the other.

**The invariant of `Match`** (`MInv`) is typing and, while a round is played, `OnGrid`: both
cycles are on cells, and every cell of the frame buffer has one colour (`Uniform`). The work is
in the lemmas on `y * h_res + x`: quotient and remainder are unique, so different cells have
disjoint squares (`SquaresDisjoint`), so painting one cell leaves the others uniform
(`PaintCell`) and adds exactly that cell to the wall that the refinement mapping reads off the
pixels (`PaintAddsToWall`). A step off the left or upper edge wraps around in the word and is
therefore found off the map (`AdvanceOnMap`). `MoveIsStep` is the implementation of one move;
a tick is two of them, blue first, and a key one with a new heading.

**The invariant of `Mouse`** for the cursor is that accepted and collected bytes are bytes, with
`CursorInside`. The clamp tests the upper bound first; a cursor that has wrapped around
below zero is far beyond it, which needs that a delta is less than the range of a word.

`BackInStep` needs to know where a loop may stand after each number of good bytes
(`Recovering`): it is in step, or the good bytes heard and those still needed (`Lag`, from how
much is collected and how much of the packet is sent) are at most four together. Every good
byte keeps a loop in step; out of step it lowers `Lag`, unless it is a delta with bit 3, and
then `quiet` starts again.

**The invariant of `Timer`** types the chip and adds to the two properties that the low bits
of each counter that has not strayed are those of `Boot` (`LowBitsKept`): `ModeSurvives` is
about what was printed, and the next print reads the chip. The arithmetic is in lemmas: high
and low byte of a number below 2^16 give it back, and what the test for 18 lets pass has a
quotient below 2^17, of which 16 bits are kept (`CutQuotient`).

**The invariant of `TestLoops`** is its typing, the count of `CountsSilence`, and that a
countdown at zero is at a whole second (`WholeSeconds`), which turns the sum of seconds and
ticks into the exact length of the wait. Each loop has its step in the lemma on `Turn`,
since the order of tick and input differs.

**The invariant of `Controller`** has, besides its typing, `Fresh` (what is in the buffer
before the closing sequence is the last byte of a device and newer than all that was
accepted), `Witnessed` (a status that says full is true of the buffer until the data is
read, because nothing is put into a full buffer) and `Noticed` (a pending interrupt is that
of the byte in the buffer, and a handler that runs was called for it). The last is what
the poll lacks, and why `NoticedIsTaken` excepts it: it may read an empty status and then the
data of a byte that has just come.

`LeftInOrder` is about the end of a sequence of accesses, so its invariant `OnWay` says for
each place in it (`at`) what has been written and not yet taken, what was answered and for
whom the next data byte is, with and without each mishap; one part for `enableInterrupts`
(`K1` to `K5`) and one for `disableDataReporting` (`M1` to `M4`). That the byte read for an
answer is one exactly when no mishap is recorded needs that the sequence starts with a byte of
the keyboard in the buffer, the Esc that ended the poll.

**`NeverEnds`** needs only that `started` is zero whenever the loop looks: a packet that is
no right stroke resets it, and a right stroke does not set it. It is stronger than what the
run `claim_gesture` finds: no arguments and no packets ever end `mouse_test_gesture`.

Only model-checked are `RoundEnds`, `SilenceEnds` and `BufferIsEmptied`: they are liveness
under fairness, which the prover does not reach. All other properties of the passing
runs are also theorems.

## 5. Disagreements between the code and its documentation

Those with a run have an entry under `findings`. The passing properties are stated so that
they hold of the code as it is; the sentences of `src/README.md` that it does not keep are
in `LabChaseClaims` and, about the devices, in `Controller`, that of the course framework
in `Gesture`. `claim_deaf` depends on the controller: it is modelled to hold both devices
off while its output buffer is full, as its one buffer suggests, and no driver code can show
it. Also met while modelling, without a run of their own:

- `src/README.md:10`: P pauses the game. The loop of PAUSE still calls `move_player`
  (main.c:217-223), so that movement keys move the cycles, into the letters of the picture too.
- `src/README.md:12`: collisions with map edges are detected. `move_player` never compares
  a coordinate with the resolution (video_gr.c:234-250); cycles leave the map and the round
  goes on, and ends in a trail, behind the screen, or at the end of the mapping (`RoundEnds`).
- `lab2.h:22` of the course framework: the timer is programmed "with input frequency".
  18 Hz is accepted (timer.c:27), but 1193182 / 18 = 66287 does not fit the 16 bits of line
  32; the counter gets 751 and runs at about 1589 Hz. `RunsAsAccepted` says so.
- `timer.h:46`: `timer_set_frequency` keeps mode and base. A call for counter 4, 8, ... is
  refused, but only after its control word, cut to eight bits, has gone to counter 0 with
  uninitialised low bits (timer.c:12-16): the counter is left waiting for a divisor in another
  mode, and later calls keep that mode. 5 and 6 do the same to counters 1 and 2. The properties
  of `Timer` say which counters are safe from it (`strayed`).
- main.c:101 takes any byte with bit 3 for a first byte. A loop that has lost one byte and is
  then sent moves by -1 to -8 or by 8 to 15 stays out of step as long as they come: with moves
  by -1 to the left it reads (255, 0, 24) over and over, a pressed button and a jump across the
  screen. An entry may be chosen without a click then, in the model also after a dozen good
  bytes. `BackInStep` and `ChosenByClick` say when this cannot happen.
- `lab5/video_gr.c:63` divides by `h_res` before it is assigned: no test of lab5 that draws
  survives its first call.
- `src/README.md:9` gives the night as 19:00 to 07:00; `start_game` asks for
  `hour >= 0x19` only (video_gr.c:262), so that the hours after midnight are day.
- `src/README.md:24`: Esc returns to the main menu. `kbc_ih` stores its code in
  `scanCode`, which the loop never reads; nothing assigns MAIN.
- `src/README.md:18`: the boost does not exist; `src/README.md:29`: the serial mode spins
  without receiving anything.
- `src/README.md:30` has Quit as an entry of the menu; a turn that ends in a trail also
  assigns QUIT (main.c:265) and the program exits without a picture.
- `load_images` assigns `gameOver1` twice and `gameOver2` never (main.c:44): the wrong
  player is shown to win, or an uninitialised picture is drawn.
- `lab4.h:87` of the course framework asks that a byte received with an error be discarded;
  the loop stores the previous byte instead (main.c:101), which `Mouse` models.

## 6. Not modelled

- `new_vg_init`, `set_mode`: BIOS calls. Only the size of the mapping matters here.
- `draw_img2`, `continueLoop`, `start_screen`: never called.
- `rtc.c` beyond the hour: its interrupts are subscribed and ignored.
- Subscriptions that fail, and the mouse that goes on reporting after the game: nothing in
  the repository looks at either.
- `serial.c`: not compiled. `XPMs`: data.
- `.minix-src`: vendored headers of MINIX, its libraries and the course framework, without
  behaviour of their own. They are more than nine tenths of the files and lines in the
  repository; the code written here, drivers, game and exercises, is modelled but for what this list
  names.
- lab5: `new_vg_init` divides by zero before anything is drawn or awaited (section 5), so that
  behind it there is no behaviour to model. `video_test_init` is two BIOS calls and a delay.
- `util_sys_inb`: a read of a port; its count is only printed.

## 7. Plan

Done, in this order: the game logic and the keyboard, the main loop with its flags, the
abstract session and the implementation proof, the rounds on the grid, the mouse, the
timer, the test loops, the controller and the programs that share it, the gesture.

Then the proofs, of every invariant, action property and refinement that a run checks. Left
are the steps on which the three liveness properties rest and which are safety themselves: that
a move of a cycle lights a dark pixel or ends the round (`RoundEnds`), and that a tick without
input shortens the wait (`SilenceEnds`).
