-------------------------- MODULE ControllerProofs --------------------------
(***************************************************************************)
(* The handlers of keyboard and mouse, one port access at a time, for any  *)
(* number of bytes and of attempts.                                        *)
(***************************************************************************)
EXTENDS Controller, TLAPS

\* Before a test writes commands, what is in the buffer is the last byte of its
\* device and not yet accepted; and no handler accepts what was not sent.
Fresh ==
  /\ \A d \in Devices : taken[d] <= sent[d]
  /\ pc \notin {"closing", "done"} =>
       /\ inp = Nothing
       /\ full => /\ out.from \in Devices
                  /\ out.n = sent[out.from] /\ out.n > taken[out.from]

\* While the status says that the buffer is full, it tells the truth about what
\* is in it.
Witnessed ==
  pc = "data" /\ status.full => /\ full
                                /\ status.aux <=> out.from = "mouse"
                                /\ status.err <=> out.err

\* Where interrupts are awaited, a pending one is that of the byte in the
\* buffer, and a handler that runs was called for that byte.
Noticed ==
  program # "kbd_test_poll" =>
    /\ pending # {} => full /\ pending = {out.from}
    /\ pc \in {"status", "data"} => full /\ out.from = handler /\ pending = {}
    /\ pc = "data" => status.full
    /\ pc \in {"closing", "done"} => pending = {}

\* A test that has not written all its bytes has one to write.
Placed ==
  /\ pc \notin {"closing", "done"} => at = 1
  /\ pc = "closing" => at <= Len(Accesses)
  /\ program = "game" => pc # "closing"

\* Both sequences have four accesses (keyboard.c:41-47, mouse.c:61-71).
LEMMA FourAccesses == Len(Accesses) = 4 /\ Len(Accesses') = 4
BY DEF Accesses

\* Every access is a command, a read or a write.
LEMMA AccessTyped ==
  ASSUME NEW i \in 1 .. 4
  PROVE  Accesses[i] \in {"READ_CMD_BYTE", "WRITE_CMD_BYTE", "WRITE_MOUSE", "read", "write"}
<1>1. i \in {1, 2, 3, 4}
  OBVIOUS
<1>2. QED
  BY <1>1 DEF Accesses

\* An answer is a byte.
LEMMA AnswerTyped ==
  ASSUME NEW who \in Devices \cup {"kbc"}
  PROVE  Answer(who) \in Bytes
BY ControllerAssumption DEF Answer, Bytes

\* What the controller and the devices do is typed (external).
LEMMA DevicesTyped ==
  ASSUME TypeOK, Take \/ \E d \in Devices, esc, err \in BOOLEAN : Send(d, esc, err)
  PROVE  KbcTyped'
<1> USE ControllerAssumption DEF TypeOK, KbcTyped
<1>1. CASE Take
  <2>1. out' \in Bytes /\ full' \in BOOLEAN
    BY <1>1, AnswerTyped DEF Take, Devices
  <2>2. inp' = Nothing /\ expects' \in {"keyboard", "kbc", "mouse"}
    BY <1>1 DEF Take
  <2>3. cmdByte' \in [int : BOOLEAN, kept : BOOLEAN]
    BY <1>1 DEF Take
  <2>4. reporting' \in BOOLEAN /\ sent' = sent
    BY <1>1 DEF Take
  <2>5. QED
    BY <2>1, <2>2, <2>3, <2>4
<1>2. ASSUME NEW d \in Devices, NEW esc \in BOOLEAN, NEW err \in BOOLEAN,
             Send(d, esc, err)
      PROVE  KbcTyped'
  <2>1. sent' \in [Devices -> 0 .. MaxSent] /\ sent'[d] \in 0 .. MaxSent
    BY <1>2 DEF Send
  <2>2. out' \in Bytes
    BY <1>2, <2>1 DEF Send, Bytes
  <2>3. QED
    BY <1>2, <2>1, <2>2 DEF Send
<1>3. QED
  BY <1>1, <1>2

\* Where the closing sequence is, in numbers
LEMMA InSequence ==
  ASSUME TypeOK, Placed, pc = "closing"
  PROVE  at \in 1 .. 4
<1>1. at \in 1 .. Len(Accesses) + 1
  BY DEF TypeOK, ClosingTyped
<1>2. at <= Len(Accesses)
  BY DEF Placed
<1>3. QED
  BY <1>1, <1>2, FourAccesses

\* An access leads to the next, and the fourth to the end.
LEMMA NextInSequence ==
  ASSUME at \in 1 .. 4, Step
  PROVE  /\ at' \in 1 .. 5 /\ pc' \in {"closing", "done"}
         /\ pc' = "closing" => at' \in 1 .. 4
BY FourAccesses DEF Step

\* The two bounds on at, from numbers.
LEMMA PlaceTyped ==
  ASSUME at' \in 1 .. 5
  PROVE  /\ (at \in 1 .. Len(Accesses) + 1)'
         /\ at' \in 1 .. 4 => (at <= Len(Accesses))'
BY FourAccesses

\* What an access has to leave typed, for ClosingTyped and Placed.
LEMMA StillTyped ==
  ASSUME command' \in Bytes, at' \in 1 .. 5, tries' \in 0 .. (Tries - 1),
         mishaps' \subseteq {"gave up", "no answer yet", "overrun"},
         pc' = "closing" => at' \in 1 .. 4, pc' \in {"closing", "done"},
         program' # "game"
  PROVE  ClosingTyped' /\ Placed'
<1>1. /\ (at \in 1 .. Len(Accesses) + 1)'
      /\ at' \in 1 .. 4 => (at <= Len(Accesses))'
  BY PlaceTyped
<1>2. ClosingTyped'
  BY <1>1 DEF ClosingTyped
<1>3. QED
  BY <1>1, <1>2 DEF Placed

\* The initial state is typed (main.c:65-70, lab3.c:73, lab4.c:36-39).
LEMMA TypeInit == Init => TypeOK /\ Placed
<1> SUFFICES ASSUME Init PROVE TypeOK /\ Placed
  OBVIOUS
<1> USE ControllerAssumption DEF Init
<1>1. KbcTyped
  <2>1. out \in Bytes /\ inp = Nothing /\ full = FALSE
    BY AnswerTyped
  <2>2. /\ cmdByte \in [int : BOOLEAN, kept : BOOLEAN] /\ reporting \in BOOLEAN
        /\ sent \in [Devices -> 0 .. MaxSent]
    OBVIOUS
  <2>3. QED
    BY <2>1, <2>2 DEF KbcTyped
<1>2. HandlerTyped
  <2>1. status \in [full : BOOLEAN, aux : BOOLEAN, err : BOOLEAN] /\ dropped \in BOOLEAN
    OBVIOUS
  <2>2. taken \in [Devices -> 0 .. MaxSent]
    OBVIOUS
  <2>3. handler \in Devices
    BY DEF Devices
  <2>4. QED
    BY <2>1, <2>2, <2>3 DEF HandlerTyped
<1>3. ClosingTyped /\ Placed
  BY AnswerTyped, FourAccesses DEF ClosingTyped, Placed
<1>4. QED
  BY <1>1, <1>2, <1>3 DEF TypeOK

\* Every step keeps the types and stays within the closing sequence.
LEMMA TypeStep == TypeOK /\ Placed /\ [Next]_vars => TypeOK' /\ Placed'
<1> SUFFICES ASSUME TypeOK, Placed, [Next]_vars PROVE TypeOK' /\ Placed'
  OBVIOUS
<1> USE ControllerAssumption DEF TypeOK
<1>1. ASSUME NEW d \in Devices, NEW esc \in BOOLEAN, NEW err \in BOOLEAN,
             Send(d, esc, err)
      PROVE  TypeOK' /\ Placed'
  <2>1. KbcTyped'
    BY <1>1, DevicesTyped
  <2>2. HandlerTyped'
    BY <1>1 DEF Send, HandlerTyped
  <2>3. ClosingTyped' /\ Placed'
    BY <1>1 DEF Send, ClosingTyped, Placed, Accesses, closing
  <2>4. QED
    BY <2>1, <2>2, <2>3
<1>2. CASE Take
  <2>1. KbcTyped'
    BY <1>2, DevicesTyped
  <2>2. HandlerTyped' /\ ClosingTyped' /\ Placed'
    BY <1>2 DEF Take, HandlerTyped, ClosingTyped, Placed, Accesses, closing
  <2>3. QED
    BY <2>1, <2>2
<1>3. ASSUME NEW fatal \in BOOLEAN, Receive(fatal)
      PROVE  TypeOK' /\ Placed'
  <2>1. KbcTyped'
    BY <1>3 DEF Receive, KbcTyped, kbc
  <2>2. HandlerTyped'
    BY <1>3 DEF Receive, HandlerTyped, Listener, Devices
  <2>3. ClosingTyped' /\ Placed'
    BY <1>3 DEF Receive, ClosingTyped, Placed, Accesses, closing
  <2>4. QED
    BY <2>1, <2>2, <2>3
<1>4. CASE ReadStatus
  <2>1. KbcTyped'
    BY <1>4 DEF ReadStatus, KbcTyped, kbc
  <2>2. status' \in [full : BOOLEAN, aux : BOOLEAN, err : BOOLEAN]
    BY <1>4 DEF ReadStatus, KbcTyped, Bytes
  <2>3. HandlerTyped'
    BY <1>4, <2>2 DEF ReadStatus, HandlerTyped
  <2>4. ClosingTyped' /\ Placed'
    BY <1>4 DEF ReadStatus, ClosingTyped, Placed, Accesses, closing
  <2>5. QED
    BY <2>1, <2>3, <2>4
<1>5. CASE ReadData
  <2>1. KbcTyped'
    BY <1>5 DEF ReadData, KbcTyped
  <2>2. out.n \in 0 .. MaxSent
    BY DEF KbcTyped, Bytes
  <2>3. /\ taken' \in [Devices -> 0 .. MaxSent]
        /\ dropped' \in BOOLEAN /\ pending' \subseteq Devices
    BY <1>5, <2>2 DEF ReadData, HandlerTyped
  <2>4. /\ screen' \in {"menu", "round", "serial", "quit", "test"}
        /\ pc' \in {"receive", "status", "data", "closing", "done"}
        /\ program = "game" => pc' # "closing"
    BY <1>5 DEF ReadData, Continue, HandlerTyped
  <2>5. HandlerTyped'
    BY <1>5, <2>3, <2>4 DEF ReadData, HandlerTyped
  <2>6. ClosingTyped'
    BY <1>5 DEF ReadData, ClosingTyped, Accesses, closing
  <2>7. Placed'
    BY <1>5, <2>4 DEF ReadData, Placed, Accesses, closing
  <2>8. QED
    BY <2>1, <2>5, <2>6, <2>7
<1>6. CASE send_KBC_command_byte
  <2>1. at \in 1 .. 4
    BY <1>6, InSequence DEF send_KBC_command_byte
  <2>2. Accesses[at] \in {"READ_CMD_BYTE", "WRITE_CMD_BYTE", "WRITE_MOUSE"}
    BY <1>6, <2>1, AccessTyped DEF send_KBC_command_byte
  <2>3. [port |-> "command", val |-> Accesses[at]] \in Writes
    BY <2>2 DEF Writes
  <2>4. KbcTyped'
    BY <1>6, <2>3 DEF send_KBC_command_byte, KbcTyped
  <2>5. HandlerTyped'
    BY <1>6 DEF send_KBC_command_byte, HandlerTyped, Step
  <2>6. Step \/ UNCHANGED <<at, pc>>
    BY <1>6 DEF send_KBC_command_byte
  <2>7. /\ at' \in 1 .. 5 /\ pc' \in {"closing", "done"}
        /\ pc' = "closing" => at' \in 1 .. 4
    <3>1. pc = "closing"
      BY <1>6 DEF send_KBC_command_byte
    <3>2. CASE Step
      BY <2>1, <3>2, NextInSequence
    <3>3. CASE UNCHANGED <<at, pc>>
      BY <2>1, <3>1, <3>3
    <3>4. QED
      BY <2>6, <3>2, <3>3
  <2>8. tries' \in 0 .. (Tries - 1) /\ command' \in Bytes
    <3>1. tries \in 0 .. (Tries - 1) /\ command \in Bytes
      BY DEF ClosingTyped
    <3>2. tries' = 0 \/ (tries + 1 # Tries /\ tries' = tries + 1)
      BY <1>6 DEF send_KBC_command_byte, LastTry
    <3>3. command' = command
      BY <1>6 DEF send_KBC_command_byte
    <3>4. QED
      BY <3>1, <3>2, <3>3
  <2>9. mishaps' \subseteq {"gave up", "no answer yet", "overrun"}
    BY <1>6 DEF send_KBC_command_byte, ClosingTyped
  <2>10. program' # "game"
    BY <1>6 DEF send_KBC_command_byte, Placed
  <2>11. QED
    BY <2>4, <2>5, <2>7, <2>8, <2>9, <2>10, StillTyped
<1>7. CASE read_command_byte
  <2>1. at \in 1 .. 4
    BY <1>7, InSequence DEF read_command_byte
  <2>2. KbcTyped'
    BY <1>7 DEF read_command_byte, KbcTyped
  <2>3. HandlerTyped'
    BY <1>7 DEF read_command_byte, HandlerTyped, Step
  <2>4. /\ at' \in 1 .. 5 /\ pc' \in {"closing", "done"}
        /\ pc' = "closing" => at' \in 1 .. 4
    BY <1>7, <2>1, NextInSequence DEF read_command_byte
  <2>5. tries' \in 0 .. (Tries - 1) /\ command' \in Bytes /\ program' # "game"
    BY <1>7 DEF read_command_byte, KbcTyped, ClosingTyped, Placed
  <2>6. mishaps' \subseteq {"gave up", "no answer yet", "overrun"}
    BY <1>7 DEF read_command_byte, ClosingTyped
  <2>7. QED
    BY <2>2, <2>3, <2>4, <2>5, <2>6, StillTyped
<1>8. CASE write_command_byte
  <2>1. at \in 1 .. 4
    BY <1>8, InSequence DEF write_command_byte
  <2>2. inp' \in Writes
    BY <1>8 DEF write_command_byte, Writes
  <2>3. KbcTyped'
    BY <1>8, <2>2 DEF write_command_byte, KbcTyped
  <2>4. HandlerTyped'
    BY <1>8 DEF write_command_byte, HandlerTyped, Step
  <2>5. /\ at' \in 1 .. 5 /\ pc' \in {"closing", "done"}
        /\ pc' = "closing" => at' \in 1 .. 4
    BY <1>8, <2>1, NextInSequence DEF write_command_byte
  <2>6. tries' \in 0 .. (Tries - 1) /\ command' \in Bytes /\ program' # "game"
    BY <1>8 DEF write_command_byte, ClosingTyped, Placed
  <2>7. mishaps' \subseteq {"gave up", "no answer yet", "overrun"}
    BY <1>8 DEF write_command_byte, ClosingTyped
  <2>8. QED
    BY <2>3, <2>4, <2>5, <2>6, <2>7, StillTyped
<1>9. CASE UNCHANGED vars
  <2>1. KbcTyped'
    BY <1>9 DEF vars, kbc, KbcTyped
  <2>2. HandlerTyped'
    BY <1>9 DEF vars, HandlerTyped
  <2>3. ClosingTyped' /\ Placed'
    BY <1>9, FourAccesses DEF vars, closing, ClosingTyped, Placed
  <2>4. QED
    BY <2>1, <2>2, <2>3
<1>10. QED
  BY <1>1, <1>2, <1>3, <1>4, <1>5, <1>6, <1>7, <1>8, <1>9 DEF Next, Handle, Close

-----------------------------------------------------------------------------
\* What a handler accepts: StatusStillTrue, and the byte is the last one sent.
LEMMA AcceptedIsGood ==
  ASSUME TypeOK, Fresh, Witnessed, pc = "data", Accepts(handler)
  PROVE  /\ full /\ out.from = handler /\ ~out.err
         /\ out.n > taken[handler] /\ out.n = sent[handler]
<1>1. full /\ (status.aux <=> out.from = "mouse") /\ (status.err <=> out.err)
  BY DEF Accepts, Witnessed
<1>2. out.from \in Devices /\ handler \in Devices
  BY <1>1 DEF Fresh, TypeOK, HandlerTyped
<1>3. out.from = handler /\ ~out.err
  BY <1>1, <1>2 DEF Accepts, Devices
<1>4. QED
  BY <1>1, <1>3 DEF Fresh

\* No step of the devices, the controller or the program breaks Fresh: the
\* buffer is filled only when it is empty, with the next byte of a device, and
\* what is accepted leaves it.
LEMMA FreshStep ==
  ASSUME TypeOK, Placed, Fresh, Witnessed, [Next]_vars
  PROVE  Fresh'
<1> USE ControllerAssumption
<1>1. ASSUME NEW d \in Devices, NEW esc \in BOOLEAN, NEW err \in BOOLEAN,
             Send(d, esc, err)
      PROVE  Fresh'
  <2>1. sent \in [Devices -> 0 .. MaxSent] /\ taken \in [Devices -> 0 .. MaxSent]
    BY DEF TypeOK, KbcTyped, HandlerTyped
  <2>2. /\ sent' = [sent EXCEPT ![d] = @ + 1] /\ taken' = taken
        /\ out'.from = d /\ out'.n = sent[d] + 1
        /\ pc' = pc /\ inp' = inp
    BY <1>1, <2>1 DEF Send
  <2>3. QED
    BY <2>1, <2>2 DEF Fresh
<1>2. CASE Take
  BY <1>2 DEF Take, Fresh
<1>3. CASE ReadData
  <2>1. /\ sent' = sent /\ inp' = inp /\ full' = FALSE /\ pc = "data"
        /\ taken' = IF Accepts(handler) THEN [taken EXCEPT ![handler] = out.n] ELSE taken
    BY <1>3 DEF ReadData
  <2>2. inp = Nothing
    BY <2>1 DEF Fresh
  <2>3. taken \in [Devices -> 0 .. MaxSent] /\ sent \in [Devices -> 0 .. MaxSent]
    BY DEF TypeOK, KbcTyped, HandlerTyped
  <2>4. Accepts(handler) => out.n = sent[handler]
    BY <2>1, AcceptedIsGood
  <2>5. \A d \in Devices : taken[d] <= sent[d]
    BY DEF Fresh
  <2>6. \A d \in Devices : taken'[d] <= sent'[d]
    BY <2>1, <2>3, <2>4, <2>5
  <2>7. QED
    BY <2>1, <2>2, <2>6 DEF Fresh
<1>4. ASSUME NEW fatal \in BOOLEAN, Receive(fatal)
      PROVE  Fresh'
  BY <1>4 DEF Receive, Fresh, kbc
<1>5. CASE ReadStatus
  BY <1>5 DEF ReadStatus, Fresh, kbc
<1>6. CASE send_KBC_command_byte \/ read_command_byte \/ write_command_byte
  <2>1. sent' = sent /\ taken' = taken /\ pc = "closing" /\ (Step \/ pc' = pc)
    BY <1>6 DEF send_KBC_command_byte, read_command_byte, write_command_byte
  <2>2. pc' \in {"closing", "done"}
    BY <2>1 DEF Step
  <2>3. QED
    BY <2>1, <2>2 DEF Fresh
<1>7. CASE UNCHANGED vars
  BY <1>7 DEF vars, kbc, Fresh
<1>8. QED
  BY <1>1, <1>2, <1>3, <1>4, <1>5, <1>6, <1>7 DEF Next, Handle, Close

\* The status stays true until the data is read: as long as the buffer is full
\* nothing is put into it.
LEMMA WitnessedStep ==
  ASSUME TypeOK, Witnessed, [Next]_vars
  PROVE  Witnessed'
<1>1. ASSUME NEW d \in Devices, NEW esc \in BOOLEAN, NEW err \in BOOLEAN,
             Send(d, esc, err)
      PROVE  Witnessed'
  BY <1>1 DEF Send, Witnessed
<1>2. CASE Take
  BY <1>2 DEF Take, Witnessed
<1>3. CASE ReadStatus
  <2>1. full \in BOOLEAN /\ out.err \in BOOLEAN
    BY DEF TypeOK, KbcTyped, Bytes
  <2>2. QED
    BY <1>3, <2>1 DEF ReadStatus, Witnessed, kbc
<1>4. CASE UNCHANGED vars
  BY <1>4 DEF vars, kbc, Witnessed
<1>5. CASE \/ ReadData \/ (\E fatal \in BOOLEAN : Receive(fatal))
           \/ send_KBC_command_byte \/ read_command_byte \/ write_command_byte
  <2>1. pc' # "data"
    BY <1>5 DEF ReadData, Continue, Receive, Step, send_KBC_command_byte,
                read_command_byte, write_command_byte
  <2>2. QED
    BY <2>1 DEF Witnessed
<1>6. QED
  BY <1>1, <1>2, <1>3, <1>4, <1>5 DEF Next, Handle, Close

\* An interrupt stays pending, and its byte in the buffer, until its handler has
\* read it or a screen has ignored it.
LEMMA NoticedStep ==
  ASSUME TypeOK, Placed, Fresh, Noticed, [Next]_vars
  PROVE  Noticed'
<1> SUFFICES ASSUME program' # "kbd_test_poll" PROVE Noticed'
  BY DEF Noticed
<1>1. program # "kbd_test_poll"
  BY DEF Next, Handle, Close, vars, Send, Take, Receive, ReadStatus, ReadData,
         send_KBC_command_byte, read_command_byte, write_command_byte
<1>2. /\ pending # {} => full /\ pending = {out.from}
      /\ pc \in {"status", "data"} => full /\ out.from = handler /\ pending = {}
      /\ pc = "data" => status.full
      /\ pc \in {"closing", "done"} => pending = {}
  BY <1>1 DEF Noticed
<1>3. ASSUME NEW d \in Devices, NEW esc \in BOOLEAN, NEW err \in BOOLEAN,
             Send(d, esc, err)
      PROVE  Noticed'
  <2>1. ~full /\ full' /\ out'.from = d /\ pc' = pc /\ pending' = pending \cup ({d} \cap Subscribed)
    BY <1>3 DEF Send
  <2>2. pending = {} /\ pc \notin {"status", "data"}
    BY <1>2, <2>1
  <2>3. pc \in {"closing", "done"} => Subscribed = {}
    BY <1>1 DEF Subscribed
  <2>4. QED
    BY <2>1, <2>2, <2>3 DEF Noticed
<1>4. CASE Take
  <2>1. pc \in {"closing", "done"} /\ pc' = pc /\ pending' = pending
    BY <1>4 DEF Take, Fresh, TypeOK, HandlerTyped
  <2>2. QED
    BY <1>2, <2>1 DEF Noticed
<1>5. ASSUME NEW fatal \in BOOLEAN, Receive(fatal)
      PROVE  Noticed'
  <2>1. pending' = {} /\ pc = "receive" /\ full' = full /\ out' = out
    BY <1>5 DEF Receive, kbc
  <2>2. CASE Listener \in pending
    <3>1. pc' = "status" /\ handler' = Listener
      BY <1>5, <2>2 DEF Receive
    <3>2. full /\ Listener = out.from
      BY <1>2, <2>2
    <3>3. QED
      BY <2>1, <3>1, <3>2 DEF Noticed
  <2>3. CASE Listener \notin pending
    <3>1. pc' = "receive"
      BY <1>5, <2>1, <2>3 DEF Receive
    <3>2. QED
      BY <2>1, <3>1 DEF Noticed
  <2>4. QED
    BY <2>2, <2>3
<1>6. CASE ReadStatus
  BY <1>2, <1>6 DEF ReadStatus, Noticed, kbc
<1>7. CASE ReadData
  <2>1. pc = "data" /\ pending = {}
    BY <1>2, <1>7 DEF ReadData
  <2>2. pending' = {}
    BY <1>7, <2>1 DEF ReadData
  <2>3. pc' \notin {"status", "data"}
    BY <1>1, <1>7 DEF ReadData, Continue
  <2>4. QED
    BY <2>2, <2>3 DEF Noticed
<1>8. CASE send_KBC_command_byte \/ read_command_byte \/ write_command_byte
  <2>1. pending' = pending /\ pc = "closing" /\ (Step \/ pc' = pc)
    BY <1>8 DEF send_KBC_command_byte, read_command_byte, write_command_byte
  <2>2. pc' \in {"closing", "done"} /\ pending' = {}
    BY <1>2, <2>1 DEF Step
  <2>3. QED
    BY <2>2 DEF Noticed
<1>9. CASE UNCHANGED vars
  BY <1>9 DEF vars, kbc, Noticed
<1>10. QED
  BY <1>3, <1>4, <1>5, <1>6, <1>7, <1>8, <1>9 DEF Next, Handle, Close

-----------------------------------------------------------------------------
IInv == TypeOK /\ Placed /\ Fresh /\ Witnessed /\ Noticed /\ NoticedIsTaken

\* The inductive invariant holds always.
LEMMA Invariance == Spec => []IInv
<1>1. Init => IInv
  <2> SUFFICES ASSUME Init PROVE IInv
    OBVIOUS
  <2>1. TypeOK /\ Placed
    BY TypeInit
  <2>2. Fresh
    <3>1. \A d \in Devices : taken[d] = 0 /\ sent[d] = 0
      BY DEF Init
    <3>2. QED
      BY <3>1 DEF Init, Fresh
  <2>3. Witnessed
    BY DEF Init, Witnessed
  <2>4. Noticed /\ NoticedIsTaken
    BY DEF Init, Noticed, NoticedIsTaken
  <2>5. QED
    BY <2>1, <2>2, <2>3, <2>4 DEF IInv
<1>2. IInv /\ [Next]_vars => IInv'
  <2> SUFFICES ASSUME IInv, [Next]_vars PROVE IInv'
    OBVIOUS
  <2> USE DEF IInv
  <2>1. TypeOK' /\ Placed'
    BY TypeStep
  <2>2. Fresh' /\ Witnessed' /\ Noticed'
    BY FreshStep, WitnessedStep, NoticedStep
  <2>3. NoticedIsTaken'
    <3> SUFFICES ASSUME program' # "kbd_test_poll" PROVE ~dropped'
      BY DEF NoticedIsTaken
    <3>1. program # "kbd_test_poll"
      BY DEF Next, Handle, Close, vars, Send, Take, Receive, ReadStatus, ReadData,
             send_KBC_command_byte, read_command_byte, write_command_byte
    <3>2. ~dropped
      BY <3>1 DEF NoticedIsTaken
    <3>3. CASE ReadData
      <4>1. full /\ out.from = handler /\ status.full
        BY <3>1, <3>3 DEF ReadData, Noticed
      <4>2. ~out.err => Accepts(handler)
        BY <3>3, <4>1 DEF ReadData, Witnessed, Accepts
      <4>3. QED
        BY <3>2, <3>3, <4>2 DEF ReadData
    <3>4. CASE ~ReadData
      BY <3>2, <3>4 DEF Next, Handle, Close, vars, Send, Take, Receive, ReadStatus,
             send_KBC_command_byte, read_command_byte, write_command_byte
    <3>5. QED
      BY <3>3, <3>4
  <2>4. QED
    BY <2>1, <2>2, <2>3
<1>3. QED
  BY <1>1, <1>2, PTL DEF Spec

\* Type correctness of the accesses to the controller, for any number of bytes
\* and of attempts: the closing sequences never run past their end, and
\* attempts are given up at the last (keyboard.c:12).
THEOREM ControllerTyped == Spec => []TypeOK
BY Invariance, PTL DEF IInv

\* What a handler of keyboard or mouse accepts is in the buffer, its own, without
\* error and new, although status and data are two reads (keyboard.c:51-54,
\* mouse.c:11-13).
THEOREM StatusTrusted == Spec => []StatusStillTrue
<1>1. IInv => StatusStillTrue
  BY AcceptedIsGood DEF IInv, StatusStillTrue
<1>2. QED
  BY <1>1, Invariance, PTL

\* A handler called for an interrupt drops no good byte of its device, whatever
\* screens come and go (main.c:99, 217, 262; lab4.c:52).
THEOREM NothingDropped == Spec => []NoticedIsTaken
BY Invariance, PTL DEF IInv

-----------------------------------------------------------------------------
(* How the tests leave the controller *)

\* Where the closing sequences have got to, mishaps included: what was written
\* and not yet taken, for whom the next data byte is, and what was taken.  (Each
\* access is known by its place.)
Command(val) == [port |-> "command", val |-> val]
Data(val) == [port |-> "data", val |-> val]
Early == "no answer yet" \in mishaps
Untouched == cmdByte = [int |-> FALSE, kept |-> TRUE]

\* Before enableInterrupts, and before and after it reads the answer
K1 == /\ mishaps = {} /\ expects = "keyboard" /\ Untouched
      /\ inp = Nothing /\ (pc = "closing" => out.from # "kbc")
K2 == /\ mishaps = {} /\ expects = "keyboard" /\ Untouched
      /\ \/ inp = Nothing /\ (out.from = "kbc" => full)
         \/ inp = Command("READ_CMD_BYTE") /\ out.from # "kbc"
K3 == /\ ~Missed /\ expects = "keyboard" /\ Untouched
      /\ inp \in {Nothing, Command("READ_CMD_BYTE")}

\* The command to write was given up, or not
K4 == /\ "overrun" \notin mishaps /\ Untouched
      /\ IF "gave up" \in mishaps
           THEN expects = "keyboard" /\ inp \in {Nothing, Command("READ_CMD_BYTE")}
           ELSE \/ inp = Command("WRITE_CMD_BYTE") /\ expects = "keyboard"
                \/ inp = Nothing /\ expects = "kbc"

\* The data byte goes where it should, or to the keyboard
K5 == IF Missed
        THEN /\ Untouched
             /\ inp = Nothing \/ (inp.port = "data" /\ expects = "keyboard")
        ELSE \/ /\ inp = Data(IF Early THEN "INT_OTHER" ELSE "INT_KBC")
                /\ expects = "kbc"
             \/ inp = Nothing /\ cmdByte = [int |-> TRUE, kept |-> ~Early]

KeyboardOnWay ==
  /\ at = 1 => K1
  /\ at = 2 => K2
  /\ at = 3 => K3
  /\ at = 4 => K4
  /\ at = 5 => K5
  /\ at \in {3, 4} => (command.from = "kbc" <=> ~Early)

\* Before disableDataReporting, with its command on the way, and its data
M1 == mishaps = {} /\ reporting /\ inp = Nothing /\ expects = "keyboard"
M2 == /\ mishaps = {} /\ reporting
      /\ \/ inp = Command("WRITE_MOUSE") /\ expects = "keyboard"
         \/ inp = Nothing /\ expects = "mouse"
M4 == IF Missed
        THEN /\ reporting
             /\ inp = Nothing \/ (inp = Data("SET_DEFAULTS") /\ expects = "keyboard")
        ELSE \/ inp = Data("SET_DEFAULTS") /\ expects = "mouse" /\ reporting
             \/ inp = Nothing /\ ~reporting

MouseOnWay ==
  /\ at = 1 => M1
  /\ at \in {2, 3} => M2
  /\ at \in {4, 5} => M4

OnWay ==
  /\ program # "game" /\ pc = "done" => at = 5
  /\ program = "kbd_test_poll" => KeyboardOnWay
  /\ program = "mouse_test_packet" => MouseOnWay

\* The accesses of enableInterrupts (keyboard.c:41-47) and of
\* disableDataReporting (mouse.c:61-71), by place
LEMMA AccessAt ==
  /\ program = "kbd_test_poll" =>
       /\ Accesses[1] = "READ_CMD_BYTE" /\ Accesses[2] = "read"
       /\ Accesses[3] = "WRITE_CMD_BYTE" /\ Accesses[4] = "write"
  /\ program # "kbd_test_poll" =>
       /\ Accesses[1] = "WRITE_MOUSE" /\ Accesses[2] = "read"
       /\ Accesses[3] = "write" /\ Accesses[4] = "read"
BY DEF Accesses

LEMMA StepTo ==
  ASSUME at \in 1 .. 4, Step
  PROVE  at' = at + 1 /\ (pc' = "done" => at' = 5)
BY FourAccesses DEF Step

LEMMA PlaceRange ==
  ASSUME TypeOK
  PROVE  at \in 1 .. 5
<1>1. at \in 1 .. Len(Accesses) + 1
  BY DEF TypeOK, ClosingTyped
<1> QED
  BY <1>1, FourAccesses

LEMMA OnWayInit == Init => OnWay
<1> SUFFICES ASSUME Init PROVE OnWay
  OBVIOUS
<1>1. /\ at = 1 /\ mishaps = {} /\ inp = Nothing /\ expects = "keyboard"
      /\ pc \in {"status", "receive"}
  BY DEF Init
<1>2. ASSUME program = "kbd_test_poll" PROVE KeyboardOnWay
  <2>1. (program # "kbd_test_poll") = FALSE
    BY <1>2
  <2>2. Untouched
    BY <2>1 DEF Init, Untouched
  <2> QED BY <1>1, <2>2 DEF KeyboardOnWay, K1
<1>3. ASSUME program = "mouse_test_packet" PROVE MouseOnWay
  <2>1. reporting
    BY <1>3 DEF Init
  <2> QED BY <1>1, <2>1 DEF MouseOnWay, M1
<1> QED
  BY <1>1, <1>2, <1>3 DEF OnWay

\* The devices do not interfere: what they send is no answer.
LEMMA OnWaySend ==
  ASSUME OnWay, NEW d \in Devices, NEW esc, NEW err, Send(d, esc, err)
  PROVE  OnWay'
<1>1. out'.from = d /\ d # "kbc"
  BY DEF Send, Devices
<1>2. /\ program' = program /\ pc' = pc /\ inp' = inp /\ expects' = expects
      /\ cmdByte' = cmdByte /\ reporting' = reporting /\ command' = command
      /\ at' = at /\ mishaps' = mishaps
  BY DEF Send, closing
<1>3. /\ K1 => K1'
      /\ K2 => K2'
  BY <1>1, <1>2 DEF K1, K2, Untouched
<1>4. (K3 => K3') /\ (K4 => K4') /\ (K5 => K5')
  BY <1>2 DEF K3, K4, K5, Untouched, Early, Missed
<1>5. KeyboardOnWay => KeyboardOnWay'
  BY <1>2, <1>3, <1>4 DEF KeyboardOnWay, Early
<1>6. MouseOnWay => MouseOnWay'
  BY <1>2 DEF MouseOnWay, M1, M2, M4, Missed
<1> QED
  BY <1>2, <1>5, <1>6 DEF OnWay

\* What the controller makes of each write
LEMMA TakeEffect ==
  ASSUME TypeOK, Take
  PROVE  /\ inp = Command("READ_CMD_BYTE") =>
              /\ full' /\ out'.from = "kbc"
              /\ expects' = expects /\ cmdByte' = cmdByte
         /\ inp = Command("WRITE_CMD_BYTE") => expects' = "kbc" /\ cmdByte' = cmdByte
         /\ inp = Command("WRITE_MOUSE") => expects' = "mouse" /\ (reporting' <=> reporting)
         /\ inp.port = "data" /\ expects = "keyboard" =>
              cmdByte' = cmdByte /\ (reporting' <=> reporting)
         /\ \A v : inp = Data(v) /\ expects = "kbc" =>
              cmdByte' = [int |-> TRUE, kept |-> v = "INT_KBC"]
         /\ \A v : inp = Data(v) /\ expects = "mouse" => ~reporting'
<1>1. ASSUME inp = Command("READ_CMD_BYTE")
      PROVE  /\ full' /\ out'.from = "kbc"
             /\ expects' = expects /\ cmdByte' = cmdByte
  BY <1>1 DEF Take, Command, Answer
<1>2. ASSUME inp = Command("WRITE_CMD_BYTE")
      PROVE  expects' = "kbc" /\ cmdByte' = cmdByte
  BY <1>2 DEF Take, Command
<1>3. ASSUME inp = Command("WRITE_MOUSE")
      PROVE  expects' = "mouse" /\ (reporting' <=> reporting)
  BY <1>3 DEF Take, Command
<1>4. ASSUME inp.port = "data", expects = "keyboard"
      PROVE  cmdByte' = cmdByte /\ (reporting' <=> reporting)
  BY <1>4 DEF Take
<1>5. ASSUME NEW v, inp = Data(v), expects = "kbc"
      PROVE  cmdByte' = [int |-> TRUE, kept |-> v = "INT_KBC"]
  BY <1>5 DEF Take, Data
<1>6. ASSUME NEW v, inp = Data(v), expects = "mouse"
      PROVE  ~reporting'
  BY <1>6 DEF Take, Data
<1> QED
  BY <1>1, <1>2, <1>3, <1>4, <1>5, <1>6

\* The controller takes what was written in the order it was written.
LEMMA OnWayTake ==
  ASSUME TypeOK, OnWay, Take
  PROVE  OnWay'
<1>1. /\ program' = program /\ pc' = pc /\ at' = at /\ mishaps' = mishaps
      /\ command' = command /\ inp # Nothing /\ inp' = Nothing
  BY DEF Take, closing
<1>2. at \in 1 .. 5
  BY PlaceRange
<1>3. (Missed' <=> Missed) /\ (Early' <=> Early)
  BY <1>1 DEF Missed, Early
<1>4. ASSUME program = "kbd_test_poll"
      PROVE  KeyboardOnWay'
  <2>1. KeyboardOnWay
    BY <1>4 DEF OnWay
  <2>2. (command.from = "kbc" <=> ~Early) => (command'.from = "kbc" <=> ~Early')
    BY <1>1, <1>3
  <2>3. at # 1
    BY <1>1, <2>1 DEF KeyboardOnWay, K1
  <2>4. CASE at = 2
    <3>1. K2 /\ inp = Command("READ_CMD_BYTE")
      BY <1>1, <2>1, <2>4 DEF KeyboardOnWay, K2
    <3>2. K2'
      BY <1>1, <3>1, TakeEffect DEF K2, Untouched
    <3> QED BY <1>1, <2>4, <3>2 DEF KeyboardOnWay
  <2>5. CASE at = 3
    <3>1. K3 /\ inp = Command("READ_CMD_BYTE")
      BY <1>1, <2>1, <2>5 DEF KeyboardOnWay, K3
    <3>2. K3'
      BY <1>1, <1>3, <3>1, TakeEffect DEF K3, Untouched
    <3> QED BY <1>1, <2>1, <2>2, <2>5, <3>2 DEF KeyboardOnWay
  <2>6. CASE at = 4
    <3>1. K4
      BY <2>1, <2>6 DEF KeyboardOnWay
    <3>2. CASE "gave up" \in mishaps
      <4>1. inp = Command("READ_CMD_BYTE") /\ expects = "keyboard"
        BY <1>1, <3>1, <3>2 DEF K4
      <4>2. K4'
        BY <1>1, <3>1, <3>2, <4>1, TakeEffect DEF K4, Untouched
      <4> QED BY <1>1, <2>1, <2>2, <2>6, <4>2 DEF KeyboardOnWay
    <3>3. CASE "gave up" \notin mishaps
      <4>1. inp = Command("WRITE_CMD_BYTE")
        BY <1>1, <3>1, <3>3 DEF K4
      <4>2. K4'
        BY <1>1, <3>1, <3>3, <4>1, TakeEffect DEF K4, Untouched
      <4> QED BY <1>1, <2>1, <2>2, <2>6, <4>2 DEF KeyboardOnWay
    <3> QED BY <3>2, <3>3
  <2>7. CASE at = 5
    <3>1. K5
      BY <2>1, <2>7 DEF KeyboardOnWay
    <3>2. CASE Missed
      <4>1. Untouched /\ inp.port = "data" /\ expects = "keyboard"
        BY <1>1, <3>1, <3>2 DEF K5
      <4>2. K5'
        BY <1>1, <1>3, <3>2, <4>1, TakeEffect DEF K5, Untouched
      <4> QED BY <1>1, <2>7, <4>2 DEF KeyboardOnWay
    <3>3. CASE ~Missed
      <4> DEFINE v == IF Early THEN "INT_OTHER" ELSE "INT_KBC"
      <4>1. inp = Data(v) /\ expects = "kbc"
        BY <1>1, <3>1, <3>3 DEF K5
      <4>2. cmdByte' = [int |-> TRUE, kept |-> v = "INT_KBC"]
        BY <4>1, TakeEffect
      <4>3. (v = "INT_KBC") = ~Early
        BY Zenon DEF Early
      <4>4. cmdByte' = [int |-> TRUE, kept |-> ~Early']
        <5>1. Early' = Early
          BY <1>1 DEF Early
        <5> HIDE DEF v
        <5> QED BY <4>2, <4>3, <5>1, Zenon
      <4>5. K5'
        BY <1>1, <1>3, <3>3, <4>4 DEF K5
      <4> QED BY <1>1, <2>7, <4>5 DEF KeyboardOnWay
    <3> QED BY <3>2, <3>3
  <2> QED BY <1>2, <2>3, <2>4, <2>5, <2>6, <2>7
<1>5. ASSUME program = "mouse_test_packet"
      PROVE  MouseOnWay'
  <2>1. MouseOnWay
    BY <1>5 DEF OnWay
  <2>2. at # 1
    BY <1>1, <2>1 DEF MouseOnWay, M1
  <2>3. CASE at \in {2, 3}
    <3>1. M2 /\ inp = Command("WRITE_MOUSE")
      BY <1>1, <2>1, <2>3 DEF MouseOnWay, M2
    <3>2. M2'
      BY <1>1, <3>1, TakeEffect DEF M2
    <3> QED BY <1>1, <2>3, <3>2 DEF MouseOnWay
  <2>4. CASE at \in {4, 5}
    <3>1. M4
      BY <2>1, <2>4 DEF MouseOnWay
    <3>2. CASE Missed
      <4>1. reporting /\ inp = Data("SET_DEFAULTS") /\ expects = "keyboard"
        BY <1>1, <3>1, <3>2 DEF M4
      <4>2. reporting'
        BY <4>1, TakeEffect DEF Data
      <4>3. M4'
        BY <1>1, <1>3, <3>2, <4>2 DEF M4
      <4> QED BY <1>1, <2>4, <4>3 DEF MouseOnWay
    <3>3. CASE ~Missed
      <4>1. inp = Data("SET_DEFAULTS") /\ expects = "mouse"
        BY <1>1, <3>1, <3>3 DEF M4
      <4>2. ~reporting'
        BY <4>1, TakeEffect
      <4>3. M4'
        BY <1>1, <1>3, <3>3, <4>2 DEF M4
      <4> QED BY <1>1, <2>4, <4>3 DEF MouseOnWay
    <3> QED BY <3>2, <3>3
  <2> QED BY <1>2, <2>2, <2>3, <2>4
<1> QED
  BY <1>1, <1>4, <1>5 DEF OnWay

\* The loops and their handlers write nothing, and Esc is no answer.
LEMMA OnWayHandle ==
  ASSUME IInv, OnWay, Handle
  PROVE  OnWay'
<1>1. /\ program' = program /\ at' = at /\ inp' = inp /\ mishaps' = mishaps
      /\ command' = command /\ expects' = expects /\ cmdByte' = cmdByte
      /\ reporting' = reporting /\ out' = out
  BY DEF Handle, Receive, ReadStatus, ReadData, kbc, closing
<1>2. program # "game" => pc' # "done"
  BY DEF Handle, Receive, ReadStatus, ReadData, Continue
<1>3. at = 1
  BY DEF Handle, Receive, ReadStatus, ReadData, IInv, Placed
<1>4. ASSUME program = "kbd_test_poll"
      PROVE  KeyboardOnWay'
  <2>1. K1
    BY <1>3, <1>4 DEF OnWay, KeyboardOnWay
  <2>2. pc' = "closing" => out'.from # "kbc"
    <3> SUFFICES ASSUME pc' = "closing" PROVE out.from # "kbc"
      BY <1>1
    <3>1. pc = "data" /\ Accepts(handler)
      BY <1>4 DEF Handle, Receive, ReadStatus, ReadData, Continue
    <3>2. out.from = handler /\ handler \in Devices
      BY <3>1, AcceptedIsGood DEF IInv, TypeOK, HandlerTyped
    <3> QED BY <3>2 DEF Devices
  <2>3. K1'
    BY <1>1, <2>1, <2>2 DEF K1, Untouched
  <2> QED BY <1>1, <1>3, <2>3 DEF KeyboardOnWay
<1>5. ASSUME program = "mouse_test_packet"
      PROVE  MouseOnWay'
  BY <1>1, <1>3, <1>5 DEF OnWay, MouseOnWay, M1
<1> QED
  BY <1>1, <1>2, <1>4, <1>5 DEF OnWay

\* A command is the first or the third access.  It finds the controller ready,
\* or tries again, or is given up.
LEMMA OnWayCommand ==
  ASSUME TypeOK, Placed, OnWay, send_KBC_command_byte
  PROVE  OnWay'
<1>1. /\ program' = program /\ command' = command /\ full' = full /\ out' = out
      /\ expects' = expects /\ cmdByte' = cmdByte /\ reporting' = reporting
      /\ pc = "closing"
  BY DEF send_KBC_command_byte
<1>2. at \in 1 .. 4
  BY <1>1, InSequence
<1>3. Accesses[at] \notin {"read", "write"}
  BY DEF send_KBC_command_byte
<1>4. \/ /\ inp = Nothing /\ inp' = Command(Accesses[at])
         /\ Step /\ mishaps' = mishaps
      \/ /\ inp # Nothing /\ inp' = inp
         /\ Step /\ mishaps' = mishaps \cup {"gave up"}
      \/ /\ inp # Nothing /\ inp' = inp
         /\ at' = at /\ pc' = pc /\ mishaps' = mishaps
  BY DEF send_KBC_command_byte, Command
<1>5. Step => at' = at + 1 /\ (pc' = "done" => at' = 5)
  BY <1>2, StepTo
<1>6. pc' = "done" => at' = 5
  BY <1>1, <1>4, <1>5
<1>7. ASSUME program = "kbd_test_poll"
      PROVE  KeyboardOnWay'
  <2>1. KeyboardOnWay
    BY <1>7 DEF OnWay
  <2>2. at \in {1, 3}
    BY <1>2, <1>3, <1>7, AccessAt
  <2>3. CASE at = 1
    <3>1. K1
      BY <2>1, <2>3 DEF KeyboardOnWay
    <3>2. /\ inp' = Command("READ_CMD_BYTE") /\ at' = 2 /\ mishaps' = mishaps
      BY <1>4, <1>5, <1>7, <2>3, <3>1, AccessAt DEF K1
    <3>3. K2'
      BY <1>1, <3>1, <3>2 DEF K1, K2, Untouched
    <3> QED BY <3>2, <3>3 DEF KeyboardOnWay
  <2>4. CASE at = 3
    <3>1. K3 /\ (command.from = "kbc" <=> ~Early)
      BY <2>1, <2>4 DEF KeyboardOnWay
    <3>2. Early' <=> Early
      BY <1>4 DEF Early
    <3>3. command'.from = "kbc" <=> ~Early'
      BY <1>1, <3>1, <3>2
    <3>4. CASE inp = Nothing
      <4>1. inp' = Command("WRITE_CMD_BYTE") /\ at' = 4 /\ mishaps' = mishaps
        BY <1>4, <1>5, <1>7, <2>4, <3>4, AccessAt
      <4>2. K4'
        BY <1>1, <3>1, <4>1 DEF K3, K4, Untouched, Missed
      <4> QED BY <3>3, <4>1, <4>2 DEF KeyboardOnWay
    <3>5. CASE inp # Nothing /\ mishaps' = mishaps \cup {"gave up"} /\ Step
      <4>1. inp' = inp /\ at' = 4
        <5>1. inp' = inp
          BY <1>4, <3>5
        <5>2. at' = 4
          <6>1. at' = at + 1
            BY <1>5, <3>5, Zenon
          <6> QED BY <2>4, <6>1
        <5> QED BY <5>1, <5>2
      <4>2. K4'
        BY <1>1, <3>1, <3>5, <4>1 DEF K3, K4, Untouched, Missed
      <4> QED BY <3>3, <4>1, <4>2 DEF KeyboardOnWay
    <3>6. CASE inp # Nothing /\ at' = at /\ mishaps' = mishaps
      <4>1. K3'
        BY <1>1, <1>4, <3>1, <3>6 DEF K3, Untouched, Missed
      <4> QED BY <2>4, <3>3, <3>6, <4>1 DEF KeyboardOnWay
    <3> QED BY <1>4, <3>4, <3>5, <3>6
  <2> QED BY <2>2, <2>3, <2>4
<1>8. ASSUME program = "mouse_test_packet"
      PROVE  MouseOnWay'
  <2>1. at = 1
    BY <1>2, <1>3, <1>8, AccessAt
  <2>2. M1
    BY <1>8, <2>1 DEF OnWay, MouseOnWay
  <2>3. inp' = Command("WRITE_MOUSE") /\ at' = 2 /\ mishaps' = mishaps
    BY <1>4, <1>5, <1>8, <2>1, <2>2, AccessAt DEF M1
  <2>4. M2'
    BY <1>1, <2>2, <2>3 DEF M1, M2
  <2> QED BY <2>3, <2>4 DEF MouseOnWay
<1> QED
  BY <1>1, <1>6, <1>7, <1>8 DEF OnWay

\* What the read finds is the answer, or the answer has not come.
LEMMA OnWayRead ==
  ASSUME TypeOK, Placed, OnWay, read_command_byte
  PROVE  OnWay'
<1>1. /\ program' = program /\ inp' = inp /\ expects' = expects /\ pc = "closing"
      /\ reporting' = reporting /\ cmdByte' = cmdByte /\ command' = out /\ Step
      /\ Accesses[at] = "read"
      /\ mishaps' = IF (full /\ out.from = "kbc") \/ program # "kbd_test_poll"
                      THEN mishaps ELSE mishaps \cup {"no answer yet"}
  BY DEF read_command_byte
<1>2. at \in 1 .. 4
  BY <1>1, InSequence
<1>3. at' = at + 1 /\ (pc' = "done" => at' = 5)
  BY <1>1, <1>2, StepTo
<1>4. ASSUME program = "kbd_test_poll"
      PROVE  KeyboardOnWay'
  <2>1. at = 2 /\ at' = 3
    <3>1. at \in {1, 2, 3, 4}
      BY <1>2
    <3>2. at = 2
      BY <1>1, <1>4, <3>1, AccessAt
    <3> QED BY <1>3, <3>2
  <2>2. K2
    BY <1>4, <2>1 DEF OnWay, KeyboardOnWay
  <2>3. out.from = "kbc" => full
    BY <2>2 DEF K2
  <2>4. mishaps' = IF out.from = "kbc" THEN {} ELSE {"no answer yet"}
    BY <1>1, <1>4, <2>2, <2>3 DEF K2
  <2>5. command'.from = "kbc" <=> ~Early'
    BY <1>1, <2>4 DEF Early
  <2>6. K3'
    <3>1. ~Missed'
      BY <2>4 DEF Missed
    <3> QED BY <1>1, <2>2, <3>1 DEF K2, K3, Untouched
  <2> QED BY <2>1, <2>5, <2>6 DEF KeyboardOnWay
<1>5. ASSUME program = "mouse_test_packet"
      PROVE  MouseOnWay'
  <2>1. at \in {2, 4}
    BY <1>1, <1>2, <1>5, AccessAt
  <2>2. (at = 2 /\ at' = 3) \/ (at = 4 /\ at' = 5)
    BY <1>3, <2>1
  <2>3. MouseOnWay /\ mishaps' = mishaps
    BY <1>1, <1>5 DEF OnWay
  <2>4. (M2 => M2') /\ (M4 => M4')
    BY <1>1, <2>3 DEF M2, M4, Missed
  <2> QED BY <2>2, <2>3, <2>4 DEF MouseOnWay
<1> QED
  BY <1>1, <1>3, <1>4, <1>5 DEF OnWay

\* The data byte follows its command, or overtakes what was not yet taken.
LEMMA OnWayWrite ==
  ASSUME TypeOK, Placed, OnWay, write_command_byte
  PROVE  OnWay'
<1>1. /\ program' = program /\ expects' = expects /\ pc = "closing" /\ Step
      /\ cmdByte' = cmdByte /\ reporting' = reporting /\ command' = command
      /\ Accesses[at] = "write"
      /\ inp' = Data(IF program # "kbd_test_poll" THEN "SET_DEFAULTS"
                     ELSE IF command.from = "kbc" THEN "INT_KBC" ELSE "INT_OTHER")
      /\ mishaps' = IF inp = Nothing THEN mishaps ELSE mishaps \cup {"overrun"}
  BY DEF write_command_byte, Data
<1>2. at \in 1 .. 4
  BY <1>1, InSequence
<1>3. at' = at + 1 /\ (pc' = "done" => at' = 5)
  BY <1>1, <1>2, StepTo
<1>4. inp'.port = "data"
  BY <1>1 DEF Data
<1>5. ASSUME program = "kbd_test_poll"
      PROVE  KeyboardOnWay'
  <2>1. at = 4 /\ at' = 5
    BY <1>1, <1>2, <1>3, <1>5, AccessAt
  <2>2. K4 /\ (command.from = "kbc" <=> ~Early)
    BY <1>5, <2>1 DEF OnWay, KeyboardOnWay
  <2>3. Early' <=> Early
    BY <1>1 DEF Early
  <2>4. inp' = Data(IF Early' THEN "INT_OTHER" ELSE "INT_KBC")
    BY <1>1, <1>5, <2>2, <2>3
  <2>5. CASE "gave up" \in mishaps
    <3>1. Missed' /\ expects' = "keyboard" /\ Untouched'
      BY <1>1, <2>2, <2>5 DEF K4, Missed, Untouched
    <3> QED BY <1>4, <2>1, <3>1 DEF KeyboardOnWay, K5
  <2>6. CASE "gave up" \notin mishaps /\ inp = Nothing
    <3>1. ~Missed' /\ expects' = "kbc"
      <4>1. Nothing # Command("WRITE_CMD_BYTE")
        BY DEF Nothing, Command
      <4>2. expects = "kbc" /\ "overrun" \notin mishaps
        BY <2>2, <2>6, <4>1 DEF K4
      <4> QED BY <1>1, <2>6, <4>2 DEF Missed
    <3> QED BY <2>1, <2>4, <3>1 DEF KeyboardOnWay, K5
  <2>7. CASE "gave up" \notin mishaps /\ inp # Nothing
    <3>1. Missed' /\ expects' = "keyboard" /\ Untouched'
      BY <1>1, <2>2, <2>7 DEF K4, Missed, Untouched
    <3> QED BY <1>4, <2>1, <3>1 DEF KeyboardOnWay, K5
  <2> QED BY <2>5, <2>6, <2>7
<1>6. ASSUME program = "mouse_test_packet"
      PROVE  MouseOnWay'
  <2>1. at = 3 /\ at' = 4
    BY <1>1, <1>2, <1>3, <1>6, AccessAt
  <2>2. M2 /\ inp' = Data("SET_DEFAULTS")
    BY <1>1, <1>6, <2>1 DEF OnWay, MouseOnWay
  <2>3. M4'
    <3>1. CASE inp = Nothing
      <4>1. ~Missed' /\ expects' = "mouse"
        BY <1>1, <2>2, <3>1 DEF M2, Missed, Nothing, Command
      <4> QED BY <1>1, <2>2, <4>1 DEF M2, M4
    <3>2. CASE inp # Nothing
      <4>1. Missed' /\ expects' = "keyboard"
        BY <1>1, <2>2, <3>2 DEF M2, Missed
      <4> QED BY <1>1, <2>2, <4>1 DEF M2, M4
    <3> QED BY <3>1, <3>2
  <2> QED BY <2>1, <2>3 DEF MouseOnWay
<1> QED
  BY <1>1, <1>3, <1>5, <1>6 DEF OnWay

LEMMA OnWayStep ==
  ASSUME IInv, OnWay, [Next]_vars
  PROVE  OnWay'
<1>1. CASE UNCHANGED vars
  BY <1>1 DEF vars, kbc, closing, OnWay, KeyboardOnWay, MouseOnWay, K1, K2, K3,
              K4, K5, M1, M2, M4, Untouched, Early, Missed
<1>2. TypeOK /\ Placed
  BY DEF IInv
<1> QED
  BY <1>1, <1>2, OnWaySend, OnWayTake, OnWayHandle, OnWayCommand, OnWayRead, OnWayWrite
     DEF Next, Close

\* However slow the controller is and whatever the devices send in between,
\* enableInterrupts and disableDataReporting leave it as they should, for any
\* number of attempts; and where the code does not look for a mishap, its cost
\* is the one stated and no other (keyboard.c:10-47, mouse.c:61-71).
THEOREM EndsInOrder == Spec => []LeftInOrder
<1>1. Init => OnWay
  BY OnWayInit
<1>2. IInv /\ OnWay /\ [Next]_vars => OnWay'
  BY OnWayStep
<1>3. IInv /\ OnWay => LeftInOrder
  <2> SUFFICES ASSUME IInv, OnWay, pc = "done", inp = Nothing
               PROVE  /\ program = "kbd_test_poll" =>
                           cmdByte = [int |-> ~Missed,
                                      kept |-> Missed \/ "no answer yet" \notin mishaps]
                      /\ program = "mouse_test_packet" => reporting = Missed
    BY DEF LeftInOrder
  <2>1. program # "game" => at = 5
    BY DEF OnWay
  <2>2. \A v : Nothing # Data(v)
    BY DEF Nothing, Data
  <2>3. ASSUME program = "kbd_test_poll"
        PROVE  cmdByte = [int |-> ~Missed,
                          kept |-> Missed \/ "no answer yet" \notin mishaps]
    <3>1. K5
      BY <2>1, <2>3 DEF OnWay, KeyboardOnWay
    <3>2. CASE Missed
      <4>1. (~Missed) = FALSE /\ (Missed \/ "no answer yet" \notin mishaps) = TRUE
        BY <3>2, Zenon
      <4>2. cmdByte = [int |-> FALSE, kept |-> TRUE]
        BY <3>1, <3>2 DEF K5, Untouched
      <4> QED BY <4>1, <4>2, Zenon
    <3>3. CASE ~Missed
      <4>1. (~Missed) = TRUE /\ (Missed \/ "no answer yet" \notin mishaps) = ~Early
        BY <3>3, Zenon DEF Early
      <4>2. cmdByte = [int |-> TRUE, kept |-> ~Early]
        BY <2>2, <3>1, <3>3, Zenon DEF K5
      <4> QED BY <4>1, <4>2, Zenon
    <3> QED BY <3>2, <3>3
  <2>4. ASSUME program = "mouse_test_packet"
        PROVE  reporting = Missed
    <3>1. M4
      BY <2>1, <2>4 DEF OnWay, MouseOnWay
    <3>2. reporting <=> Missed
      BY <2>2, <3>1, Zenon DEF M4
    <3>3. reporting \in BOOLEAN
      BY DEF IInv, TypeOK, KbcTyped
    <3>4. Missed \in BOOLEAN
      BY DEF Missed
    <3> QED BY <3>2, <3>3, <3>4
  <2> QED BY <2>3, <2>4
<1> QED
  BY <1>1, <1>2, <1>3, Invariance, PTL DEF Spec
=============================================================================
