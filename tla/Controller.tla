----------------------------- MODULE Controller -----------------------------
(***************************************************************************)
(* The keyboard controller (8042), with one output buffer for keyboard and *)
(* mouse, and three programs that talk to it:                              *)
(*   - the main loop of the game, in which a menu listens to the mouse     *)
(*     alone, a round and its pause to the keyboard alone;                 *)
(*   - kbd_test_poll of lab3, which reads without being told to, and then  *)
(*     enableInterrupts;                                                   *)
(*   - mouse_test_packet of lab4, and then disableDataReporting.           *)
(* Every access to a port is a step of its own.  The devices and the       *)
(* controller, which takes its time, act in between.                       *)
(***************************************************************************)
EXTENDS Integers, Sequences

CONSTANTS
  MaxSent,  \* bound: bytes that each device sends
  Tries     \* attempts of send_KBC_command_byte                       [10]

ASSUME ControllerAssumption == MaxSent \in Nat /\ Tries \in Nat \ {0}

Devices == {"keyboard", "mouse"}
Programs == {"game", "kbd_test_poll", "mouse_test_packet"}

VARIABLES            \* the controller
  out, full,         \* byte last put into the output buffer, and OBF
  inp, expects,      \* what was written to it and not yet taken (IBF), and
                     \* whom the next data byte is for
  cmdByte,           \* its command byte: keyboard interrupts, other bits kept
  reporting,         \* the mouse sends its movements
  sent               \* bytes sent so far by each device

VARIABLES            \* the program
  program, pending,  \* and the interrupts it has not received yet
  screen,            \* of the game: what it listens to
  pc, handler,       \* next port access, and for whom a handler runs
  status, command,   \* local variables of the handlers, enableInterrupts
  at, tries          \* place in the closing sequence; counter of the attempts

VARIABLES            \* history: last byte accepted of each device; a good byte
                     \* was read by its own handler and dropped; what went wrong
  taken, dropped, mishaps

kbc == <<out, full, inp, expects, cmdByte, reporting, sent>>
closing == <<command, at, tries, mishaps>>
vars == <<kbc, program, pending, screen, pc, handler, status, taken, dropped,
          closing>>

\* A byte is known by its sender and number.  Answers have number 0.
Bytes == [from : Devices \cup {"kbc"}, n : 0 .. MaxSent, esc : BOOLEAN, err : BOOLEAN]
Answer(who) == [from |-> who, n |-> 0, esc |-> FALSE, err |-> FALSE]
Writes == [port : {"command"}, val : {"READ_CMD_BYTE", "WRITE_CMD_BYTE", "WRITE_MOUSE"}]
          \cup [port : {"data"}, val : {"SET_DEFAULTS", "INT_KBC", "INT_OTHER"}]

Nothing == [port |-> "none", val |-> "none"]

\* Who sends while a program runs, and which interrupts it has subscribed to
Senders == CASE program = "game" -> Devices
             [] program = "kbd_test_poll" -> {"keyboard"}
             [] OTHER -> {"mouse"}
Subscribed == IF program = "kbd_test_poll" \/ pc \in {"closing", "done"} THEN {}
              ELSE Senders

\* The device whose bit a loop looks at.  A mouse_test_packet has one screen.
Listener == IF screen = "round" THEN "keyboard" ELSE "mouse"

-----------------------------------------------------------------------------
(* Devices and controller *)

\* A device sends when the buffer is free: the controller holds it off else.
Send(d, esc, err) ==
  /\ d \in Senders /\ ~full /\ sent[d] < MaxSent
  /\ d = "mouse" => reporting /\ ~esc
  /\ sent' = [sent EXCEPT ![d] = @ + 1]
  /\ out' = [from |-> d, n |-> sent'[d], esc |-> esc, err |-> err] /\ full' = TRUE
  /\ pending' = pending \cup ({d} \cap Subscribed)
  /\ UNCHANGED <<inp, expects, cmdByte, reporting, program, screen, pc, handler,
                 status, taken, dropped, closing>>

\* The controller takes what was written to it.  It answers a command that
\* asks for one, and passes on the acknowledgement of the mouse.
Take ==
  /\ inp # Nothing /\ inp' = Nothing
  /\ LET answers == IF inp.val = "READ_CMD_BYTE" THEN {"kbc"}
                    ELSE IF inp.port = "data" /\ expects = "mouse" THEN {"mouse"}
                    ELSE {}
     IN  \/ answers = {} /\ UNCHANGED <<out, full>>
         \/ ~full /\ full' = TRUE /\ \E who \in answers : out' = Answer(who)
  /\ expects' = CASE inp.val = "WRITE_CMD_BYTE" -> "kbc"
                  [] inp.val = "WRITE_MOUSE" -> "mouse"
                  [] inp.port = "data" -> "keyboard"
                  [] OTHER -> expects
  /\ cmdByte' = IF inp.port = "data" /\ expects = "kbc"
                  THEN [int |-> TRUE, kept |-> inp.val = "INT_KBC"] ELSE cmdByte
  /\ reporting' = (reporting /\ ~(inp.port = "data" /\ expects = "mouse"))
  /\ UNCHANGED <<sent, program, pending, screen, pc, handler, status, taken,
                 dropped, closing>>

-----------------------------------------------------------------------------
(* The loops and the handlers *)

\* driver_receive: all bits at once.  In a round a tick may come with them, or
\* alone, and end the round; the key of the same notification is still served.
Receive(fatal) ==
  /\ pc = "receive" /\ screen # "serial"
  /\ fatal => screen = "round"
  /\ pending # {} \/ fatal
  /\ pending' = {}
  /\ screen' = IF fatal THEN "menu" ELSE screen
  /\ IF Listener \in pending
       THEN pc' = "status" /\ handler' = Listener
       ELSE UNCHANGED <<pc, handler>>
  /\ UNCHANGED <<kbc, program, status, taken, dropped, closing>>

\* mutant: the data is read before the status
LateStatus ==
  /\ pc = "status" /\ pc' = "data"
  /\ status' = [full |-> FALSE, aux |-> out.from = "mouse", err |-> out.err]
  /\ UNCHANGED <<kbc, program, pending, screen, handler, taken, dropped, closing>>

\* First read of kbc_ih and mouse_ih
ReadStatus ==
  /\ pc = "status" /\ pc' = "data"
  /\ status' = [full |-> full, aux |-> out.from = "mouse", err |-> out.err]
  /\ UNCHANGED <<kbc, program, pending, screen, handler, taken, dropped, closing>>

\* mutant: OBF is not looked at
AcceptsAny(d) == ~status.err /\ (status.aux <=> d = "mouse")

Accepts(d) == status.full /\ ~status.err /\ (status.aux <=> d = "mouse")

\* What follows a handler.  In the game a packet may choose any entry, a key
\* may be P, also with the tick that ended the round, and a turn may end in a
\* trail.  kbd_test_poll reads on until Esc is released, mouse_test_packet
\* until it has its packets.
Continue ==
  \/ /\ program = "game"
     /\ screen' \in IF handler = "mouse" THEN {"menu", "round", "serial", "quit"}
                    ELSE {screen, "quit"} \cup (IF Accepts(handler) THEN {"round"} ELSE {})
     /\ pc' = IF screen' = "quit" THEN "done" ELSE "receive"
  \/ /\ program = "kbd_test_poll"
     /\ pc' = IF Accepts(handler) /\ out.esc THEN "closing" ELSE "status"
     /\ UNCHANGED screen
  \/ /\ program = "mouse_test_packet"
     /\ pc' \in {"receive", "closing"}
     /\ UNCHANGED screen

\* mutant: an error makes the handler return before it has read the byte
ReturnOnError ==
  /\ pc = "data"
  /\ full' = (full /\ status.err)
  /\ taken' = IF Accepts(handler) THEN [taken EXCEPT ![handler] = out.n] ELSE taken
  /\ dropped' = (dropped \/ (~Accepts(handler) /\ full /\ ~out.err /\ out.from = handler))
  /\ Continue
  /\ pending' = IF pc' \in {"closing", "done"} THEN {} ELSE pending
  /\ UNCHANGED <<out, inp, expects, cmdByte, reporting, sent, program, handler,
                 status, closing>>

\* Second read, which empties the buffer whatever the status said
ReadData ==
  /\ pc = "data"
  /\ full' = FALSE
  /\ taken' = IF Accepts(handler) THEN [taken EXCEPT ![handler] = out.n] ELSE taken
  /\ dropped' = (dropped \/ (~Accepts(handler) /\ full /\ ~out.err /\ out.from = handler))
  /\ Continue
  /\ pending' = IF pc' \in {"closing", "done"} THEN {} ELSE pending
  /\ UNCHANGED <<out, inp, expects, cmdByte, reporting, sent, program, handler,
                 status, closing>>

-----------------------------------------------------------------------------
(* enableInterrupts and disableDataReporting *)

\* mutant: the command byte is written without its command
NoWriteCommand ==
  IF program = "kbd_test_poll"
    THEN <<"READ_CMD_BYTE", "read", "write">>
    ELSE <<"WRITE_MOUSE", "read", "write", "read">>

\* Their accesses: commands go through send_KBC_command_byte
Accesses ==
  IF program = "kbd_test_poll"
    THEN <<"READ_CMD_BYTE", "read", "WRITE_CMD_BYTE", "write">>
    ELSE <<"WRITE_MOUSE", "read", "write", "read">>

Step == /\ at' = at + 1
        /\ pc' = IF at = Len(Accesses) THEN "done" ELSE "closing"

\* mutant: one attempt too many
AfterLastTry == tries = Tries

LastTry == tries + 1 = Tries

\* One attempt of send_KBC_command_byte; nobody looks at what it returns.
send_KBC_command_byte ==
  /\ pc = "closing" /\ Accesses[at] \notin {"read", "write"}
  /\ \/ /\ inp = Nothing
        /\ inp' = [port |-> "command", val |-> Accesses[at]]
        /\ tries' = 0 /\ Step /\ UNCHANGED mishaps
     \/ /\ inp # Nothing /\ UNCHANGED inp
        /\ IF LastTry
             THEN tries' = 0 /\ Step /\ mishaps' = mishaps \cup {"gave up"}
             ELSE tries' = tries + 1 /\ UNCHANGED <<at, pc, mishaps>>
  /\ UNCHANGED <<out, full, expects, cmdByte, reporting, sent, program, pending,
                 screen, handler, status, command, taken, dropped>>

\* read_command_byte does not wait for the answer.
read_command_byte ==
  /\ pc = "closing" /\ Accesses[at] = "read"
  /\ command' = out /\ full' = FALSE
  /\ mishaps' = IF (full /\ out.from = "kbc") \/ program # "kbd_test_poll"
                  THEN mishaps ELSE mishaps \cup {"no answer yet"}
  /\ Step
  /\ UNCHANGED <<out, inp, expects, cmdByte, reporting, sent, program, pending,
                 screen, handler, status, tries, taken, dropped>>

\* write_command_byte does not ask whether the controller is ready.
write_command_byte ==
  /\ pc = "closing" /\ Accesses[at] = "write"
  /\ inp' = [port |-> "data",
             val |-> IF program # "kbd_test_poll" THEN "SET_DEFAULTS"
                     ELSE IF command.from = "kbc" THEN "INT_KBC" ELSE "INT_OTHER"]
  /\ mishaps' = IF inp = Nothing THEN mishaps ELSE mishaps \cup {"overrun"}
  /\ Step
  /\ UNCHANGED <<out, full, expects, cmdByte, reporting, sent, program, pending,
                 screen, handler, status, command, tries, taken, dropped>>

-----------------------------------------------------------------------------
\* The interrupts of the keyboard are off for kbd_test_poll.
Init ==
  /\ program \in Programs /\ pending = {}
  /\ screen = IF program = "game" THEN "menu" ELSE "test"
  /\ pc = IF program = "kbd_test_poll" THEN "status" ELSE "receive"
  /\ handler = IF program = "kbd_test_poll" THEN "keyboard" ELSE "mouse"
  /\ out = Answer("kbc") /\ full = FALSE /\ inp = Nothing /\ expects = "keyboard"
  /\ cmdByte = [int |-> program # "kbd_test_poll", kept |-> TRUE]
  /\ reporting = (program # "kbd_test_poll")
  /\ sent = [d \in Devices |-> 0] /\ taken = sent
  /\ status = [full |-> FALSE, aux |-> FALSE, err |-> FALSE]
  /\ command = out /\ at = 1 /\ tries = 0
  /\ dropped = FALSE /\ mishaps = {}

Handle == (\E fatal \in BOOLEAN : Receive(fatal)) \/ ReadStatus \/ ReadData
Close == send_KBC_command_byte \/ read_command_byte \/ write_command_byte

Next ==
  \/ \E d \in Devices, esc, err \in BOOLEAN : Send(d, esc, err)
  \/ Take \/ Handle \/ Close

Spec == Init /\ [][Next]_vars

\* The process is scheduled.
FairSpec == Spec /\ WF_vars(Handle)

-----------------------------------------------------------------------------
(* Properties *)

KbcTyped ==
  /\ out \in Bytes /\ full \in BOOLEAN /\ inp \in Writes \cup {Nothing}
  /\ expects \in {"keyboard", "kbc", "mouse"}
  /\ cmdByte \in [int : BOOLEAN, kept : BOOLEAN] /\ reporting \in BOOLEAN
  /\ sent \in [Devices -> 0 .. MaxSent]

HandlerTyped ==
  /\ program \in Programs /\ pending \subseteq Devices
  /\ screen \in {"menu", "round", "serial", "quit", "test"}
  /\ pc \in {"receive", "status", "data", "closing", "done"} /\ handler \in Devices
  /\ status \in [full : BOOLEAN, aux : BOOLEAN, err : BOOLEAN]
  /\ taken \in [Devices -> 0 .. MaxSent] /\ dropped \in BOOLEAN

ClosingTyped ==
  /\ command \in Bytes
  /\ at \in 1 .. Len(Accesses) + 1 /\ tries \in 0 .. (Tries - 1)
  /\ mishaps \subseteq {"gave up", "no answer yet", "overrun"}

TypeOK == KbcTyped /\ HandlerTyped /\ ClosingTyped

\* Between its two reads a handler can be overtaken by the devices; but what
\* it is about to accept is in the buffer, comes from its own device, is
\* without error and newer than all it has accepted: no byte is taken twice,
\* none for one of the other device (keyboard.c:51-54, mouse.c:11-13).
StatusStillTrue ==
  pc = "data" /\ Accepts(handler) =>
    /\ full /\ out.from = handler /\ ~out.err
    /\ out.n > taken[handler]

\* A handler that is called by an interrupt, in the game whatever the screens
\* did in between, drops no good byte of its device.  (A poll does: the byte
\* may come between its two reads, lab3.c:77.)
NoticedIsTaken == program # "kbd_test_poll" => ~dropped

\* An access to the controller went astray.
Missed == mishaps \cap {"gave up", "overrun"} # {}

\* When the tests return and the controller has taken what they wrote, the
\* keyboard interrupts again and the rest of the command byte is as it was, or
\* the mouse is silent.  And this is all that a mishap costs for which the code
\* does not look: after an attempt given up, or a write that was too early, the
\* data byte has gone to the keyboard and nothing is changed; after an answer
\* read too early the keyboard interrupts, but the other bits are those of
\* another byte (keyboard.c:10-47, mouse.c:61-71).
LeftInOrder ==
  pc = "done" /\ inp = Nothing =>
    CASE program = "kbd_test_poll" ->
           cmdByte = [int |-> ~Missed,
                      kept |-> Missed \/ "no answer yet" \notin mishaps]
      [] program = "mouse_test_packet" -> reporting = Missed
      [] OTHER -> TRUE

\* A byte for which nobody will call a handler any more: the buffer stays full
\* and holds off both devices.
Deaf == program = "game" /\ pc = "receive" /\ full /\ pending = {}

\* Bad bytes included, what is in the buffer is read, as long as the loop runs
\* (lab3.c:77, lab4.c:52); in the game, unless it is deaf.
BufferIsEmptied ==
  full ~> ~full \/ Deaf \/ screen = "serial" \/ pc \in {"closing", "done"}

\* README.md:47 "Keyboard & Mouse: For gameplay control and menu navigation":
\* while a menu or a round waits for its device, the buffer is not left full.
\* (main.c:99 and 262 leave the byte of the other device where it is.)
NeverDeaf == screen \in {"menu", "round"} => ~Deaf
=============================================================================
