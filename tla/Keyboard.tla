------------------------------ MODULE Keyboard ------------------------------
(***************************************************************************)
(* The keyboard driver: the interrupt handler of kernel/src/io/keyboard.c, *)
(* its queue of commands to the keyboard and its queue of characters, and  *)
(* the programs that read characters with getch                            *)
(* (modules/shared/src/io/keyboard.c).  The keyboard itself is external:   *)
(* it answers every byte it is sent with ACK or with RESEND, later and     *)
(* among the scancodes of the keys that are pressed meanwhile.             *)
(*                                                                         *)
(* The system starts when initKeyboard returns.  The handler and the       *)
(* system calls run with the interrupts disabled: each is one step.        *)
(***************************************************************************)
EXTENDS CyclicBufferOps, Sequences

CONSTANTS KEYBOARD_COMMAND_BUFFER_SIZE,
          KEYBOARD_CHAR_BUFFER_SIZE,
          Lock,            \* the lock keys that are used: scancodes
          Key,             \* the keys with a character: scancodes
          Reader,          \* the tasks that call getch
          MaxPresses,      \* bound on the keys pressed, the shift key included
          MaxNoise         \* bound on the bytes the keyboard receives damaged

SET_LEDS         == \hED
SET_REPEAT_SPEED == \hF3
ACK              == \hFA
RESEND           == \hFE

\* The scancodes of the lock keys and the bits of KeyboardLEDState_t.
CapsLock   == \h3A
NumLock    == \h45
ScrollLock == \h46
Bit        == [k \in {ScrollLock, NumLock, CapsLock} |->
                  IF k = ScrollLock THEN 1 ELSE IF k = NumLock THEN 2 ELSE 4]

ShiftPressed  == \h2A
ShiftReleased == \hAA

Byte == 0 .. 255

ASSUME KeyboardConstants ==
    /\ KEYBOARD_COMMAND_BUFFER_SIZE \in Nat /\ KEYBOARD_COMMAND_BUFFER_SIZE >= 6
    /\ KEYBOARD_CHAR_BUFFER_SIZE \in Nat \ {0}
    /\ Lock \subseteq {CapsLock, NumLock, ScrollLock}
    /\ Key \subseteq 1 .. 127 \ {CapsLock, NumLock, ScrollLock, ShiftPressed}
    /\ MaxPresses \in Nat /\ MaxNoise \in Nat

VARIABLES command_buffer, char_buffer, led_state, resend_counter,
          shift,           \* controls_state.shift
          faults,          \* history: "overrun", a byte of a command did not fit;
                           \* "overlap", a lock key was handled before the answer
                           \* to the byte that was sent; "given up", a command
                           \* was dropped after 3 RESENDs; "misled", a reader
                           \* has lost what a call of it returned
          pc,              \* where each reader is in getch
          port,            \* bytes written to port 0x60, not yet received
          line,            \* bytes the keyboard has sent, not yet read
          keyboard,        \* its LEDs and the command that awaits an argument
          presses, noise   \* what the bounds count

driverVars == <<command_buffer, char_buffer, led_state, resend_counter, shift,
                faults>>
deviceVars == <<port, line, keyboard, presses, noise>>
vars == <<driverVars, pc, deviceVars>>

\* kbdus[scancode], or its toupper when the shift key is down.
Character == [key : Key \cup {0}, shift : {0, 1}]
NoCharacter == [key |-> 0, shift |-> 0]

\* initKeyboard queues three commands, sets led_state.num_lock after the first
\* of them, and writes the oldest byte to the port.
StartupCommands == <<SET_LEDS, 0, SET_LEDS, Bit[NumLock], SET_REPEAT_SPEED, \h20>>

Init == /\ command_buffer =
             [NewBuffer(KEYBOARD_COMMAND_BUFFER_SIZE,
                        [i \in 0 .. KEYBOARD_COMMAND_BUFFER_SIZE - 1 |->
                            IF i < 6 THEN StartupCommands[i + 1] ELSE 0])
                EXCEPT !.rear = 5, !.count = 6]
        /\ char_buffer = NewBuffer(KEYBOARD_CHAR_BUFFER_SIZE,
                             [i \in 0 .. KEYBOARD_CHAR_BUFFER_SIZE - 1 |-> NoCharacter])
        /\ led_state = Bit[NumLock]
        /\ resend_counter = 0
        /\ shift = 0
        /\ faults = {}
        /\ pc = [r \in Reader |-> "test"]
        /\ port = <<SET_LEDS>>
        /\ line = <<>>
        /\ keyboard = [leds |-> 0, expects |-> 0]
        /\ presses = 0 /\ noise = 0
-----------------------------------------------------------------------------
(* The keyboard and its user. *)

Commands == {SET_LEDS, SET_REPEAT_SPEED}

Answer(a) == line' = Append(line, a)

Receive == port # <<>> /\ port' = Tail(port)

AcceptCommand == /\ Receive /\ Head(port) \in Commands
                 /\ keyboard' = [keyboard EXCEPT !.expects = Head(port)]
                 /\ Answer(ACK)
                 /\ UNCHANGED <<driverVars, pc, presses, noise>>

AcceptArgument == /\ Receive /\ Head(port) \notin Commands
                  /\ keyboard.expects # 0
                  /\ keyboard' = [leds |-> IF keyboard.expects = SET_LEDS THEN Head(port) % 8
                                                                        ELSE keyboard.leds,
                                  expects |-> 0]
                  /\ Answer(ACK)
                  /\ UNCHANGED <<driverVars, pc, presses, noise>>

\* A byte that is no command, where a command is due.
RefuseArgument == /\ Receive /\ Head(port) \notin Commands
                  /\ keyboard.expects = 0
                  /\ Answer(RESEND)
                  /\ UNCHANGED <<driverVars, pc, keyboard, presses, noise>>

\* A byte that arrives damaged.
RefuseDamaged == /\ Receive /\ noise < MaxNoise
                 /\ noise' = noise + 1
                 /\ Answer(RESEND)
                 /\ UNCHANGED <<driverVars, pc, keyboard, presses>>

Press(scancode) == /\ presses < MaxPresses
                   /\ presses' = presses + 1
                   /\ line' = Append(line, scancode)
                   /\ UNCHANGED <<driverVars, pc, port, keyboard, noise>>
-----------------------------------------------------------------------------
(* keyboardHandler: one step for each kind of byte it reads from the port. *)

\* A reader that waits in keyboardGetChar holds the processor, with the
\* interrupts disabled.
Waiting == \E r \in Reader : pc[r] = "wait"

Reads(byte) == /\ line # <<>> /\ Head(line) = byte
               /\ ~Waiting
               /\ line' = Tail(line)
               /\ UNCHANGED <<pc, keyboard, presses, noise>>

\* goto _send: the oldest byte that is queued; tmp is 0 when none is.
Send(queue) == port' = Append(port, Oldest(queue, 0))

PutWithArg(cmd, arg) == Enqueue(Enqueue(command_buffer, cmd), arg)

Toggled(leds, bit) == IF (leds \div bit) % 2 = 1 THEN leds - bit ELSE leds + bit

\* A byte was sent, and its answer was not read.
Unanswered == port # <<>> \/ \E i \in 1 .. Len(line) : line[i] \in {ACK, RESEND}

\* Mutation of OnLock: the LED byte is computed before the lock is toggled.
OnLockStale(lock) == /\ Reads(lock)
                     /\ led_state' = Toggled(led_state, Bit[lock])
                     /\ command_buffer' = PutWithArg(SET_LEDS, led_state)
                     /\ Send(command_buffer')
                     /\ UNCHANGED <<char_buffer, resend_counter, shift, faults>>

OnLock(lock) == /\ Reads(lock)
                /\ led_state' = Toggled(led_state, Bit[lock])
                /\ command_buffer' = PutWithArg(SET_LEDS, led_state')
                /\ faults' = faults
                     \cup (IF command_buffer.count + 2 > command_buffer.size THEN {"overrun"} ELSE {})
                     \cup (IF Unanswered THEN {"overlap"} ELSE {})
                /\ Send(command_buffer')
                /\ UNCHANGED <<char_buffer, resend_counter, shift>>

\* The commands that the handler knows to be followed by an argument.
WithArgument == {SET_LEDS, \hF0, SET_REPEAT_SPEED}

\* Mutation of Dropped: the argument stays in the queue.
DroppedAlone == Dequeue(command_buffer)

Dropped == IF ~IsEmpty(command_buffer) /\ Oldest(command_buffer, 0) \in WithArgument
           THEN Dequeue(Dequeue(command_buffer))
           ELSE Dequeue(command_buffer)

\* Mutation of OnResend: nothing is sent.
OnResendSilent == /\ Reads(RESEND)
                  /\ resend_counter < 2
                  /\ resend_counter' = resend_counter + 1
                  /\ UNCHANGED <<command_buffer, char_buffer, led_state, shift, faults, port>>

OnResend == /\ Reads(RESEND)
            /\ resend_counter < 2
            /\ resend_counter' = resend_counter + 1
            /\ Send(command_buffer)
            /\ UNCHANGED <<command_buffer, char_buffer, led_state, shift, faults>>

GiveUp == /\ Reads(RESEND)
          /\ resend_counter >= 2
          /\ resend_counter' = 0
          /\ command_buffer' = Dropped
          /\ faults' = faults \cup (IF IsEmpty(command_buffer) THEN {} ELSE {"given up"})
          /\ UNCHANGED <<char_buffer, led_state, shift, port>>

OnAck == /\ Reads(ACK)
         /\ command_buffer' = Dequeue(command_buffer)
         /\ IF command_buffer'.count > 0 THEN Send(command_buffer') ELSE UNCHANGED port
         /\ UNCHANGED <<char_buffer, led_state, resend_counter, shift, faults>>

OnShift == /\ \/ Reads(ShiftPressed) /\ shift' = 1
              \/ Reads(ShiftReleased) /\ shift' = 0
           /\ UNCHANGED <<command_buffer, char_buffer, led_state, resend_counter, faults, port>>

OnKey(k) == /\ Reads(k)
            /\ char_buffer' = Enqueue(char_buffer, [key |-> k, shift |-> shift])
            /\ UNCHANGED <<command_buffer, led_state, resend_counter, shift, faults, port>>

Handler == \/ \E lock \in Lock : OnLock(lock)
           \/ OnResend \/ GiveUp \/ OnAck \/ OnShift
           \/ \E k \in Key : OnKey(k)
-----------------------------------------------------------------------------
(* getch: the readers. *)

Goes(r, from, to) == /\ pc[r] = from /\ ~Waiting
                     /\ pc' = [pc EXCEPT ![r] = to]

\* Mutation of FindReady: the loop is left after its second test.
FindReadyUnchecked(r) == /\ \/ Goes(r, "test", "get") /\ ~IsEmpty(char_buffer)
                            \/ Goes(r, "test again", "get")
                         /\ UNCHANGED <<driverVars, deviceVars>>

\* keyboardReadReady, in the test of the loop and again in its body; yield.
FindReady(r) == /\ \/ Goes(r, "test", "get")
                   \/ Goes(r, "test again", "get")
                /\ ~IsEmpty(char_buffer)
                /\ UNCHANGED <<driverVars, deviceVars>>

FindEmpty(r) == /\ \/ Goes(r, "test", "test again")
                   \/ Goes(r, "test again", "test")
                /\ IsEmpty(char_buffer)
                /\ UNCHANGED <<driverVars, deviceVars>>

\* keyboardGetChar: while (char_buffer->count <= 0), which no interrupt can end.
GetChar(r) == /\ Goes(r, "get", IF IsEmpty(char_buffer) THEN "wait" ELSE "test")
              /\ char_buffer' = Dequeue(char_buffer)
              /\ UNCHANGED <<command_buffer, led_state, resend_counter, shift, faults, deviceVars>>

Getch(r) == FindReady(r) \/ FindEmpty(r) \/ GetChar(r)

\* A reader that the timer interrupted goes on when another task's yield or wait
\* switches to it, and finds the result of that call in eax: in place of the
\* answer of keyboardReadReady, or of the number of the call it is about to make
\* (syscall.c line 74).
Misled(r) == /\ \E place \in {"test", "test again", "get"} : Goes(r, pc[r], place)
             /\ faults' = faults \cup {"misled"}
             /\ UNCHANGED <<command_buffer, char_buffer, led_state, resend_counter, shift, deviceVars>>

Device == \/ AcceptCommand \/ AcceptArgument \/ RefuseArgument \/ RefuseDamaged
          \/ \E scancode \in Lock \cup Key \cup {ShiftPressed, ShiftReleased} : Press(scancode)

Next == Device \/ Handler \/ \E r \in Reader : Getch(r) \/ Misled(r)

Spec == Init /\ [][Next]_vars
-----------------------------------------------------------------------------
TypeOK == /\ command_buffer \in Buffer(KEYBOARD_COMMAND_BUFFER_SIZE, Byte)
          /\ char_buffer \in Buffer(KEYBOARD_CHAR_BUFFER_SIZE, Character)
          /\ led_state \in 0 .. 7
          /\ resend_counter \in 0 .. 2
          /\ shift \in {0, 1}
          /\ faults \subseteq {"overrun", "overlap", "given up", "misled"}
          /\ pc \in [Reader -> {"test", "test again", "get", "wait"}]
          /\ port \in Seq(Byte) /\ line \in Seq(Byte)
          /\ keyboard \in [leds : 0 .. 7, expects : {0} \cup Commands]

\* The keyboard is sent an argument when it expects one and a command when it
\* does not, although the driver queues, sends, acknowledges and drops commands
\* byte by byte and does not know itself whether the byte it gives up is a
\* command or an argument (keyboard.c lines 96-99, 172-180 and 188-197).  A lock
\* key that sends the byte under way a second time is excepted; an argument
\* that was given up leaves the keyboard expecting it.
CommandsKeepTheirArguments ==
    (port # <<>> /\ faults \cap {"overrun", "overlap"} = {}) =>
        /\ Head(port) \notin Commands => keyboard.expects # 0
        /\ Head(port) \in Commands => keyboard.expects = 0 \/ "given up" \in faults

Quiet == port = <<>> /\ line = <<>>

\* When every byte has been sent and answered the LEDs show led_state,
\* although a lock key pressed meanwhile sends the oldest byte again and its
\* second ACK acknowledges a byte that was just sent (lines 155-168, 188-197).
\* The driver survives overlapping keys, and it survives damaged bytes; it
\* does not survive both.
LEDsFollowTheLocks ==
    (/\ Quiet /\ IsEmpty(command_buffer)
     /\ faults \cap {"overrun", "given up"} = {}
     /\ noise = 0 \/ "overlap" \notin faults) => keyboard.leds = led_state

\* The kernel is not left waiting, with the interrupts disabled, for a character
\* that only an interrupt can bring, as long as a reader gets the answers of its
\* own calls (lines 83-90).
GetCharReturns == "misled" \notin faults => ~Waiting
-----------------------------------------------------------------------------
(* The keyboard answers, the interrupts come, and every reader is scheduled. *)

Fairness == /\ WF_vars(AcceptCommand \/ AcceptArgument \/ RefuseArgument)
            /\ WF_vars(Handler)
            /\ \A r \in Reader : WF_vars(Getch(r))

FairSpec == Spec /\ Fairness

\* The bytes of a command are sent in the end, whatever the order of keys and
\* answers and however often the keyboard asks for them again, unless a misled
\* reader stops the system.
CommandsAreSent ==
    ~IsEmpty(command_buffer) ~> (IsEmpty(command_buffer) \/ "given up" \in faults \/ Waiting)
=============================================================================
