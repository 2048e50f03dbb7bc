--------------------------- MODULE KeyboardProofs ---------------------------
(***************************************************************************)
(* For every size of the two queues, every set of keys and every bound:    *)
(* the variables of Keyboard.tla keep their types, a program that is the   *)
(* only one to call getch never waits inside keyboardGetChar, no command   *)
(* is parted from its argument on the way to the keyboard, and the LEDs    *)
(* show the locks when all is sent and answered.                           *)
(*                                                                         *)
(* The second part is about the ring beneath the queues: for every size    *)
(* and every set of bytes, the buffer of CyclicBuffer.tla keeps its type,  *)
(* its indexes and its count agree, and it implements the bounded FIFO     *)
(* queue.                                                                  *)
(***************************************************************************)
EXTENDS Keyboard, CyclicBuffer, TLAPS

LEMMA NextIndexInRing ==
    ASSUME NEW n \in Nat \ {0}, NEW i \in -1 .. n - 1
    PROVE  NextIndex(i, n) \in 0 .. n - 1
  BY DEF NextIndex

\* The operations keep a buffer a buffer.
LEMMA BufferOperations ==
    ASSUME NEW n \in Nat \ {0}, NEW V, NEW b \in Buffer(n, V)
    PROVE  /\ \A v \in V : Enqueue(b, v) \in Buffer(n, V)
           /\ Dequeue(b) \in Buffer(n, V)
           /\ \A old \in V : Oldest(b, old) \in V
  <1>1. /\ b.size = n /\ b.count \in 0 .. n /\ b.front \in 0 .. n - 1
        /\ b.rear \in -1 .. n - 1 /\ b.data \in [0 .. n - 1 -> V]
        /\ b = [data |-> b.data, size |-> n, front |-> b.front, rear |-> b.rear, count |-> b.count]
    BY DEF Buffer
  <1>2. ASSUME NEW v \in V
        PROVE  Enqueue(b, v) \in Buffer(n, V)
    <2> DEFINE s == NextIndex(b.rear, n)
    <2>1. s \in 0 .. n - 1
      BY <1>1, NextIndexInRing
    <2>2. CASE IsFull(b)
      BY <2>2 DEF Enqueue
    <2>3. CASE ~IsFull(b)
      <3> HIDE DEF s
      <3>1. [b.data EXCEPT ![s] = v] \in [0 .. n - 1 -> V] /\ b.count + 1 \in 0 .. n
        BY <1>1, <2>1, <2>3 DEF IsFull
      <3>2. Enqueue(b, v) = [data |-> [b.data EXCEPT ![s] = v], size |-> n,
                             front |-> b.front, rear |-> s, count |-> b.count + 1]
        BY <1>1, <2>3 DEF Enqueue, s
      <3> QED
        BY <1>1, <2>1, <3>1, <3>2 DEF Buffer
    <2> QED
      BY <2>2, <2>3
  <1>3. Dequeue(b) \in Buffer(n, V)
    <2> DEFINE s == NextIndex(b.front, n)
    <2>1. s \in 0 .. n - 1
      BY <1>1, NextIndexInRing
    <2>2. CASE IsEmpty(b)
      BY <2>2 DEF Dequeue
    <2>3. CASE ~IsEmpty(b)
      <3> HIDE DEF s
      <3>1. Dequeue(b) = [data |-> b.data, size |-> n, front |-> s,
                          rear |-> b.rear, count |-> b.count - 1]
        BY <1>1, <2>3 DEF Dequeue, s
      <3>2. b.count - 1 \in 0 .. n
        BY <1>1, <2>3 DEF IsEmpty
      <3> QED
        BY <1>1, <2>1, <3>1, <3>2 DEF Buffer
    <2> QED
      BY <2>2, <2>3
  <1>4. ASSUME NEW old \in V
        PROVE  Oldest(b, old) \in V
    BY <1>1 DEF Oldest
  <1> QED
    BY <1>2, <1>3, <1>4

\* An enqueue leaves no buffer empty.
LEMMA EnqueueNotEmpty ==
    ASSUME NEW n \in Nat \ {0}, NEW V, NEW b \in Buffer(n, V), NEW v
    PROVE  ~IsEmpty(Enqueue(b, v))
  <1>1. b.size = n /\ b.count \in 0 .. n /\ b = [b EXCEPT !.count = b.count]
    BY DEF Buffer
  <1>2. CASE IsFull(b)
    BY <1>1, <1>2 DEF Enqueue, IsFull, IsEmpty
  <1>3. CASE ~IsFull(b)
    <2>1. Enqueue(b, v).count = b.count + 1
      BY <1>1, <1>3 DEF Enqueue, Buffer
    <2> QED
      BY <1>1, <2>1 DEF IsEmpty
  <1> QED
    BY <1>2, <1>3

LEMMA ToggledInRange ==
    ASSUME NEW leds \in 0 .. 7, NEW lock \in Lock, KeyboardConstants
    PROVE  Toggled(leds, Bit[lock]) \in 0 .. 7
  <1>1. Bit[lock] \in {1, 2, 4}
    BY DEF KeyboardConstants, Bit, CapsLock, NumLock, ScrollLock
  <1>2. ASSUME NEW bit \in {1, 2, 4}
        PROVE  Toggled(leds, bit) \in 0 .. 7
    <2>1. CASE bit = 1
      BY <2>1 DEF Toggled
    <2>2. CASE bit = 2
      BY <2>2 DEF Toggled
    <2>3. CASE bit = 4
      BY <2>3 DEF Toggled
    <2> QED
      BY <1>2, <2>1, <2>2, <2>3
  <1> QED
    BY <1>1, <1>2

-----------------------------------------------------------------------------
\* The bytes the driver handles and the sizes of its queues.
LEMMA ByteFacts ==
    ASSUME KeyboardConstants
    PROVE  /\ {0, SET_LEDS, SET_REPEAT_SPEED, \h20, ACK, RESEND} \subseteq Byte
           /\ 0 .. 7 \subseteq Byte
           /\ Lock \cup Key \cup {ShiftPressed, ShiftReleased} \subseteq Byte
           /\ KEYBOARD_COMMAND_BUFFER_SIZE \in Nat \ {0}
           /\ KEYBOARD_CHAR_BUFFER_SIZE \in Nat \ {0}
           /\ Commands \subseteq Byte
  BY DEF KeyboardConstants, Byte, SET_LEDS, SET_REPEAT_SPEED, ACK, RESEND, ShiftPressed,
         ShiftReleased, CapsLock, NumLock, ScrollLock, Commands

LEMMA InitTyped == Init => TypeOK
  <1> SUFFICES ASSUME Init PROVE TypeOK
    OBVIOUS
  <1>1. KeyboardConstants
    BY KeyboardConstants
  <1> DEFINE data == [i \in 0 .. KEYBOARD_COMMAND_BUFFER_SIZE - 1 |->
                          IF i < 6 THEN StartupCommands[i + 1] ELSE 0]
  <1>2. data \in [0 .. KEYBOARD_COMMAND_BUFFER_SIZE - 1 -> Byte]
    <2>1. \A k \in 1 .. 6 : StartupCommands[k] \in Byte
      BY DEF StartupCommands, Byte, SET_LEDS, SET_REPEAT_SPEED, Bit, NumLock, CapsLock, ScrollLock
    <2> QED
      BY <1>1, <2>1, ByteFacts DEF KeyboardConstants
  <1>3. command_buffer \in Buffer(KEYBOARD_COMMAND_BUFFER_SIZE, Byte)
    <2> HIDE DEF data
    <2>1. command_buffer = [data |-> data, size |-> KEYBOARD_COMMAND_BUFFER_SIZE,
                            front |-> 0, rear |-> 5, count |-> 6]
      BY DEF Init, NewBuffer, data
    <2> QED
      BY <1>1, <1>2, <2>1 DEF Buffer, KeyboardConstants
  <1>4. char_buffer \in Buffer(KEYBOARD_CHAR_BUFFER_SIZE, Character)
    BY <1>1 DEF Init, NewBuffer, Buffer, KeyboardConstants, Character, NoCharacter
  <1>5. led_state \in 0 .. 7
    BY DEF Init, Bit, NumLock, CapsLock, ScrollLock
  <1>6. /\ port \in Seq(Byte) /\ line \in Seq(Byte)
        /\ keyboard \in [leds : 0 .. 7, expects : {0} \cup Commands]
    BY <1>1, ByteFacts DEF Init
  <1>7. /\ resend_counter \in 0 .. 2
        /\ shift \in {0, 1}
        /\ faults \subseteq {"overrun", "overlap", "given up", "misled"}
        /\ pc \in [Reader -> {"test", "test again", "get", "wait"}]
    BY DEF Init
  <1> HIDE DEF data
  <1> QED
    BY <1>3, <1>4, <1>5, <1>6, <1>7 DEF TypeOK

\* The keyboard's steps change no variable of the driver.
LEMMA DeviceKeepsTypes == TypeOK /\ Device => TypeOK'
  <1> SUFFICES ASSUME TypeOK, Device PROVE TypeOK'
    OBVIOUS
  <1>1. KeyboardConstants
    BY KeyboardConstants
  <1>2. UNCHANGED <<driverVars, pc>>
    BY DEF Device, AcceptCommand, AcceptArgument, RefuseArgument, RefuseDamaged, Press
  <1>3. port' \in Seq(Byte)
    <2>1. port' = port \/ Receive
      BY DEF Device, AcceptCommand, AcceptArgument, RefuseArgument, RefuseDamaged, Press
    <2>2. port \in Seq(Byte)
      BY DEF TypeOK
    <2>3. port # <<>> => Tail(port) \in Seq(Byte)
      BY <2>2
    <2> QED
      BY <2>1, <2>2, <2>3 DEF Receive
  <1>4. line' \in Seq(Byte)
    <2>1. \E b \in Byte : line' = Append(line, b)
      BY <1>1, ByteFacts DEF Device, AcceptCommand, AcceptArgument, RefuseArgument,
             RefuseDamaged, Press, Answer
    <2>2. line \in Seq(Byte)
      BY DEF TypeOK
    <2> QED
      BY <2>1, <2>2
  <1>5. keyboard' \in [leds : 0 .. 7, expects : {0} \cup Commands]
    <2>1. ASSUME AcceptArgument
          PROVE  keyboard' \in [leds : 0 .. 7, expects : {0} \cup Commands]
      <3>1. Head(port) \in Byte
        <4>1. port \in Seq(Byte) /\ port # <<>>
          BY <2>1 DEF TypeOK, AcceptArgument, Receive
        <4> QED
          BY <4>1
      <3>2. Head(port) % 8 \in 0 .. 7
        BY <3>1 DEF Byte
      <3>3. keyboard.leds \in 0 .. 7
        BY DEF TypeOK
      <3> QED
        BY <2>1, <3>2, <3>3 DEF AcceptArgument
    <2>2. ASSUME AcceptCommand
          PROVE  keyboard' \in [leds : 0 .. 7, expects : {0} \cup Commands]
      BY <2>2 DEF TypeOK, AcceptCommand
    <2> QED
      BY <2>1, <2>2 DEF TypeOK, Device, RefuseArgument, RefuseDamaged, Press
  <1> QED
    BY <1>2, <1>3, <1>4, <1>5 DEF TypeOK, driverVars

LEMMA HandlerKeepsTypes == TypeOK /\ Handler => TypeOK'
  <1> SUFFICES ASSUME TypeOK, Handler PROVE TypeOK'
    OBVIOUS
  <1>1. KeyboardConstants
    BY KeyboardConstants
  <1> DEFINE Q == Buffer(KEYBOARD_COMMAND_BUFFER_SIZE, Byte)
  <1>2. /\ command_buffer \in Q /\ char_buffer \in Buffer(KEYBOARD_CHAR_BUFFER_SIZE, Character)
        /\ led_state \in 0 .. 7 /\ port \in Seq(Byte)
    BY DEF TypeOK
  <1>3. \A b \in Q : /\ \A v \in Byte : Enqueue(b, v) \in Q
                     /\ Dequeue(b) \in Q
                     /\ \A old \in Byte : Oldest(b, old) \in Byte
    BY <1>1, ByteFacts, BufferOperations
  <1>4. \A b \in Q : Append(port, Oldest(b, 0)) \in Seq(Byte)
    <2>1. 0 \in Byte
      BY DEF Byte
    <2> HIDE DEF Q
    <2>2. \A b \in Q : Oldest(b, 0) \in Byte
      BY <1>3, <2>1
    <2> QED
      BY <1>2, <2>2
  <1>5. line' \in Seq(Byte) /\ UNCHANGED <<pc, keyboard>>
    <2>1. \E byte : Reads(byte)
      BY DEF Handler, OnLock, OnResend, GiveUp, OnAck, OnShift, OnKey
    <2>2. line # <<>> /\ line' = Tail(line) /\ UNCHANGED <<pc, keyboard>>
      BY <2>1 DEF Reads
    <2>3. line \in Seq(Byte)
      BY DEF TypeOK
    <2>4. Tail(line) \in Seq(Byte)
      BY <2>2, <2>3
    <2> QED
      BY <2>2, <2>4
  <1>6. CASE \E lock \in Lock : OnLock(lock)
    <2>1. PICK lock \in Lock : OnLock(lock)
      BY <1>6
    <2>2. led_state' \in 0 .. 7
      BY <1>1, <1>2, <2>1, ToggledInRange DEF OnLock
    <2>3. command_buffer' \in Q
      <3>1. SET_LEDS \in Byte /\ led_state' \in Byte
        BY <1>1, <2>2, ByteFacts
      <3>2. command_buffer' = Enqueue(Enqueue(command_buffer, SET_LEDS), led_state')
        BY <2>1 DEF OnLock, PutWithArg
      <3> HIDE DEF Q
      <3> QED
        BY <1>2, <1>3, <3>1, <3>2
    <2>4. port' \in Seq(Byte)
      BY <1>4, <2>1, <2>3 DEF OnLock, Send
    <2>5. faults' \subseteq {"overrun", "overlap", "given up", "misled"}
      BY <2>1 DEF OnLock, TypeOK
    <2> QED
      BY <1>5, <2>1, <2>2, <2>3, <2>4, <2>5 DEF TypeOK, OnLock
  <1>7. CASE OnResend
    <2>1. port' \in Seq(Byte)
      BY <1>2, <1>4, <1>7 DEF OnResend, Send
    <2>2. resend_counter \in 0 .. 2 /\ resend_counter < 2
      BY <1>7 DEF TypeOK, OnResend
    <2>3. resend_counter' \in 0 .. 2
      BY <1>7, <2>2 DEF OnResend
    <2> QED
      BY <1>5, <1>7, <2>1, <2>3 DEF TypeOK, OnResend
  <1>8. CASE GiveUp
    <2>1. command_buffer' \in Q
      <3> HIDE DEF Q
      <3> QED
        BY <1>2, <1>3, <1>8 DEF GiveUp, Dropped
    <2>2. UNCHANGED <<char_buffer, led_state, shift, port>>
      BY <1>8 DEF GiveUp
    <2>3. resend_counter' \in 0 .. 2
      <3>1. resend_counter' = 0
        BY <1>8 DEF GiveUp
      <3> QED
        BY <3>1
    <2>4. faults' \subseteq {"overrun", "overlap", "given up", "misled"}
      BY <1>8 DEF GiveUp, TypeOK
    <2> QED
      BY <1>5, <2>1, <2>2, <2>3, <2>4 DEF TypeOK
  <1>9. CASE OnAck
    <2>1. command_buffer' \in Q
      BY <1>2, <1>3, <1>9 DEF OnAck
    <2>2. port' \in Seq(Byte)
      BY <1>2, <1>4, <1>9, <2>1 DEF OnAck, Send
    <2> QED
      BY <1>5, <1>9, <2>1, <2>2 DEF TypeOK, OnAck
  <1>10. CASE OnShift
    BY <1>5, <1>10 DEF TypeOK, OnShift
  <1>11. CASE \E k \in Key : OnKey(k)
    <2>1. PICK k \in Key : OnKey(k)
      BY <1>11
    <2>2. [key |-> k, shift |-> shift] \in Character
      BY DEF Character, TypeOK
    <2>3. char_buffer' \in Buffer(KEYBOARD_CHAR_BUFFER_SIZE, Character)
      BY <1>1, <1>2, <2>1, <2>2, ByteFacts, BufferOperations DEF OnKey
    <2> QED
      BY <1>5, <2>1, <2>3 DEF TypeOK, OnKey
  <1> QED
    BY <1>6, <1>7, <1>8, <1>9, <1>10, <1>11 DEF Handler

LEMMA GetchKeepsTypes ==
    ASSUME TypeOK, NEW r \in Reader, Getch(r)
    PROVE  TypeOK'
  <1>1. KeyboardConstants
    BY KeyboardConstants
  <1>2. pc' \in [Reader -> {"test", "test again", "get", "wait"}]
    BY DEF TypeOK, Getch, FindReady, FindEmpty, GetChar, Goes
  <1>3. char_buffer' \in Buffer(KEYBOARD_CHAR_BUFFER_SIZE, Character)
    <2>1. Dequeue(char_buffer) \in Buffer(KEYBOARD_CHAR_BUFFER_SIZE, Character)
      BY <1>1, ByteFacts, BufferOperations DEF TypeOK
    <2> QED
      BY <2>1 DEF TypeOK, Getch, FindReady, FindEmpty, GetChar, driverVars
  <1>4. UNCHANGED <<command_buffer, led_state, resend_counter, shift, faults, deviceVars>>
    BY DEF Getch, FindReady, FindEmpty, GetChar, driverVars
  <1> QED
    BY <1>2, <1>3, <1>4 DEF TypeOK, deviceVars

\* A misled reader changes no buffer and nothing of the keyboard.
LEMMA MisledKeepsTypes ==
    ASSUME TypeOK, NEW r \in Reader, Misled(r)
    PROVE  /\ TypeOK'
           /\ faults' = faults \cup {"misled"}
           /\ UNCHANGED <<command_buffer, char_buffer, led_state, port, line, keyboard, noise>>
  <1>1. pc' \in [Reader -> {"test", "test again", "get", "wait"}]
    BY DEF TypeOK, Misled, Goes
  <1>2. /\ faults' = faults \cup {"misled"}
        /\ UNCHANGED <<command_buffer, char_buffer, led_state, resend_counter, shift, deviceVars>>
    BY DEF Misled
  <1> QED
    BY <1>1, <1>2 DEF TypeOK, deviceVars

\* The driver's variables keep their types; in particular no index of the two
\* queues leaves its ring and the count of RESENDs never passes 2.
THEOREM KeyboardTypeCorrect == Spec => []TypeOK
  <1>1. Init => TypeOK
    BY InitTyped
  <1>2. TypeOK /\ [Next]_vars => TypeOK'
    <2> SUFFICES ASSUME TypeOK, [Next]_vars PROVE TypeOK'
      OBVIOUS
    <2>1. CASE Next
      BY <2>1, DeviceKeepsTypes, HandlerKeepsTypes, GetchKeepsTypes, MisledKeepsTypes DEF Next
    <2>2. CASE UNCHANGED vars
      BY <2>2 DEF TypeOK, vars, driverVars, deviceVars
    <2> QED
      BY <2>1, <2>2
  <1> QED
    BY <1>1, <1>2, PTL DEF Spec

-----------------------------------------------------------------------------
\* What keyboardGetChar relies on: a reader that is about to call it has found
\* a character, and only a reader takes characters away; unless it was misled.
Ready(r) == "misled" \notin faults /\ pc[r] = "get" => ~IsEmpty(char_buffer)

ReadyInv == /\ TypeOK
            /\ \A r \in Reader : Ready(r)
            /\ GetCharReturns

\* If one task calls getch, and no other task's call overwrites what its own
\* calls return, none of keyboardGetChar finds the queue empty: the kernel does
\* not spin there with the interrupts disabled (keyboard.c lines 83-90,
\* modules/shared/src/io/keyboard.c lines 3-13).
THEOREM OneReaderNeverWaits ==
    ASSUME \A r, s \in Reader : r = s
    PROVE  Spec => []GetCharReturns
  <1>1. Init => ReadyInv
    BY InitTyped DEF Init, ReadyInv, Ready, GetCharReturns, Waiting
  <1>2. ReadyInv /\ [Next]_vars => ReadyInv'
    <2> SUFFICES ASSUME ReadyInv, [Next]_vars PROVE ReadyInv'
      OBVIOUS
    <2>1. TypeOK'
      BY DeviceKeepsTypes, HandlerKeepsTypes, GetchKeepsTypes, MisledKeepsTypes
         DEF Next, ReadyInv, TypeOK, vars, driverVars, deviceVars
    <2>2. CASE UNCHANGED vars
      BY <2>1, <2>2 DEF ReadyInv, Ready, GetCharReturns, Waiting, vars, driverVars
    <2>3. CASE Device
      <3>1. UNCHANGED <<driverVars, pc>>
        BY <2>3 DEF Device, AcceptCommand, AcceptArgument, RefuseArgument, RefuseDamaged, Press
      <3> QED
        BY <2>1, <3>1 DEF ReadyInv, Ready, GetCharReturns, Waiting, driverVars
    <2>4. CASE Handler
      <3>1. UNCHANGED pc
        BY <2>4 DEF Handler, OnLock, OnResend, GiveUp, OnAck, OnShift, OnKey, Reads
      <3>0. "misled" \in faults => "misled" \in faults'
        <4>1. faults' = faults \/ \E more : faults' = faults \cup more
          BY <2>4, Zenon DEF Handler, OnLock, OnResend, GiveUp, OnAck, OnShift, OnKey
        <4> QED
          BY <4>1, Zenon
      <3>2. CASE UNCHANGED char_buffer
        BY <2>1, <3>0, <3>1, <3>2 DEF ReadyInv, Ready, GetCharReturns, Waiting
      <3>3. CASE \E k \in Key : OnKey(k)
        <4>1. ~IsEmpty(char_buffer')
          <5>1. PICK k \in Key : OnKey(k)
            BY <3>3
          <5>2. KEYBOARD_CHAR_BUFFER_SIZE \in Nat \ {0}
            BY ByteFacts, KeyboardConstants
          <5>3. char_buffer \in Buffer(KEYBOARD_CHAR_BUFFER_SIZE, Character)
            BY DEF ReadyInv, TypeOK
          <5>4. ~IsEmpty(Enqueue(char_buffer, [key |-> k, shift |-> shift]))
            BY <5>2, <5>3, EnqueueNotEmpty
          <5> QED
            BY <5>1, <5>4 DEF OnKey
        <4> QED
          BY <2>1, <3>0, <3>1, <4>1 DEF ReadyInv, Ready, GetCharReturns, Waiting
      <3> QED
        BY <2>4, <3>2, <3>3 DEF Handler, OnLock, OnResend, GiveUp, OnAck, OnShift
    <2>5. CASE \E r \in Reader : Getch(r)
      <3>1. PICK r \in Reader : Getch(r)
        BY <2>5
      <3>2. \A s \in Reader : s = r
        BY <3>1
      <3>3. pc' = [pc EXCEPT ![r] = pc'[r]] /\ pc \in [Reader -> {"test", "test again", "get", "wait"}]
        BY <3>1 DEF Getch, FindReady, FindEmpty, GetChar, Goes, ReadyInv, TypeOK
      <3>5. CASE FindReady(r)
        BY <2>1, <3>2, <3>3, <3>5 DEF FindReady, Goes, ReadyInv, Ready, GetCharReturns, Waiting, driverVars
      <3>6. CASE FindEmpty(r)
        BY <2>1, <3>2, <3>3, <3>6 DEF FindEmpty, Goes, ReadyInv, Ready, GetCharReturns, Waiting, driverVars
      <3>7. CASE GetChar(r)
        BY <2>1, <3>2, <3>3, <3>7 DEF GetChar, Goes, ReadyInv, Ready, GetCharReturns, Waiting
      <3> QED
        BY <3>1, <3>5, <3>6, <3>7 DEF Getch
    <2>6. CASE \E r \in Reader : Misled(r)
      <3>1. "misled" \in faults'
        BY <2>6, MisledKeepsTypes DEF ReadyInv
      <3> QED
        BY <2>1, <3>1 DEF ReadyInv, Ready, GetCharReturns
    <2> QED
      BY <2>2, <2>3, <2>4, <2>5, <2>6 DEF Next
  <1>3. ReadyInv => GetCharReturns
    BY DEF ReadyInv
  <1> QED
    BY <1>1, <1>2, <1>3, PTL DEF Spec

-----------------------------------------------------------------------------
\* An index at most one turn ahead of the ring wraps by subtracting the size.
LEMMA RingWraps ==
    ASSUME NEW n \in Nat \ {0}, NEW k \in 0 .. 2 * n - 1
    PROVE  k % n = IF k < n THEN k ELSE k - n
  <1>1. CASE k < n
    BY <1>1
  <1>2. CASE k >= n
    <2>1. k = n * 1 + (k - n) /\ k - n \in 0 .. n - 1
      BY <1>2
    <2> QED
      BY <2>1
  <1> QED
    BY <1>1, <1>2

\* The byte that is i places behind the oldest one.
Queued(b, i) == b.data[(b.front + i) % b.size]

\* The next enqueue writes the slot behind the newest byte.
RingClosed(b) == NextIndex(b.rear, b.size) = (b.front + b.count) % b.size

LEMMA EnqueueAddsLast ==
    ASSUME NEW n \in Nat \ {0}, NEW V, NEW b \in Buffer(n, V), NEW v \in V,
           ~IsFull(b), RingClosed(b)
    PROVE  /\ Enqueue(b, v).count = b.count + 1
           /\ RingClosed(Enqueue(b, v))
           /\ Queued(Enqueue(b, v), b.count) = v
           /\ \A i \in 0 .. b.count - 1 : Queued(Enqueue(b, v), i) = Queued(b, i)
  <1> DEFINE s == NextIndex(b.rear, n)
             e == Enqueue(b, v)
  <1>1. /\ b.size = n /\ b.count \in 0 .. n - 1 /\ b.front \in 0 .. n - 1
        /\ b.rear \in -1 .. n - 1 /\ b.data \in [0 .. n - 1 -> V]
        /\ b = [data |-> b.data, size |-> n, front |-> b.front, rear |-> b.rear, count |-> b.count]
    BY DEF Buffer, IsFull
  <1>2. \A k \in 0 .. 2 * n - 1 : k % n = IF k < n THEN k ELSE k - n
    BY RingWraps
  <1>3. s \in 0 .. n - 1 /\ s = (b.front + b.count) % n
    BY <1>1, NextIndexInRing DEF RingClosed
  <1> HIDE DEF s
  <1>4. e = [data |-> [b.data EXCEPT ![s] = v], size |-> n, front |-> b.front,
             rear |-> s, count |-> b.count + 1]
    BY <1>1 DEF Enqueue, s
  <1> HIDE DEF e
  <1>5. /\ e.count = b.count + 1 /\ e.size = n /\ e.front = b.front /\ e.rear = s
        /\ e.data = [b.data EXCEPT ![s] = v]
    BY <1>4
  <1>6. RingClosed(e)
    <2> DEFINE k == b.front + b.count
               l == b.front + (b.count + 1)
               r == s + 1
    <2>0. b.front \in 0 .. n - 1 /\ b.count \in 0 .. n - 1 /\ s \in 0 .. n - 1
      BY <1>1, <1>3
    <2>1. k \in 0 .. 2 * n - 1 /\ l \in 0 .. 2 * n - 1 /\ r \in 0 .. 2 * n - 1 /\ l = k + 1
      BY <2>0
    <2>2. s = k % n
      BY <1>3
    <2> HIDE DEF k, l, r
    <2>3. /\ k % n = IF k < n THEN k ELSE k - n
          /\ l % n = IF l < n THEN l ELSE l - n
          /\ r % n = IF r < n THEN r ELSE r - n
      BY <1>2, <2>1, Zenon
    <2>4. r % n = l % n
      BY <2>1, <2>2, <2>3 DEF r
    <2> QED
      BY <1>5, <2>4 DEF RingClosed, NextIndex, r, l
  <1>7. \A i \in 0 .. b.count - 1 : (b.front + i) % n \in 0 .. n - 1 \ {s}
    <2> SUFFICES ASSUME NEW i \in 0 .. b.count - 1
                 PROVE  (b.front + i) % n \in 0 .. n - 1 \ {s}
      OBVIOUS
    <2> DEFINE k == b.front + b.count
               j == b.front + i
    <2>1. k \in 0 .. 2 * n - 1 /\ j \in 0 .. 2 * n - 1 /\ j < k /\ k - j < n
      BY <1>1
    <2>2. s = k % n
      BY <1>3
    <2> HIDE DEF k, j
    <2>3. /\ k % n = IF k < n THEN k ELSE k - n
          /\ j % n = IF j < n THEN j ELSE j - n
      BY <1>2, <2>1, Zenon
    <2>4. j % n \in 0 .. n - 1 \ {s}
      BY <2>1, <2>2, <2>3
    <2> QED
      BY <2>4 DEF j
  <1>8. Queued(e, b.count) = v
    BY <1>1, <1>3, <1>5 DEF Queued
  <1>9. \A i \in 0 .. b.count - 1 : Queued(e, i) = Queued(b, i)
    BY <1>1, <1>5, <1>7 DEF Queued
  <1> QED
    BY <1>5, <1>6, <1>8, <1>9 DEF e

LEMMA DequeueTakesFirst ==
    ASSUME NEW n \in Nat \ {0}, NEW V, NEW b \in Buffer(n, V), ~IsEmpty(b), RingClosed(b)
    PROVE  /\ Dequeue(b).count = b.count - 1
           /\ RingClosed(Dequeue(b))
           /\ \A i \in 0 .. b.count - 2 : Queued(Dequeue(b), i) = Queued(b, i + 1)
           /\ \A old : Oldest(b, old) = Queued(b, 0)
  <1> DEFINE s == NextIndex(b.front, n)
             d == Dequeue(b)
  <1>1. /\ b.size = n /\ b.count \in 1 .. n /\ b.front \in 0 .. n - 1
        /\ b.rear \in -1 .. n - 1
        /\ b = [data |-> b.data, size |-> n, front |-> b.front, rear |-> b.rear, count |-> b.count]
    BY DEF Buffer, IsEmpty
  <1>2. \A k \in 0 .. 2 * n - 1 : k % n = IF k < n THEN k ELSE k - n
    BY RingWraps
  <1>3. s \in 0 .. n - 1 /\ s = IF b.front + 1 < n THEN b.front + 1 ELSE 0
    BY <1>1 DEF NextIndex
  <1>4. d = [data |-> b.data, size |-> n, front |-> s, rear |-> b.rear, count |-> b.count - 1]
    BY <1>1 DEF Dequeue
  <1> HIDE DEF s, d
  <1>5. /\ d.count = b.count - 1 /\ d.size = n /\ d.front = s /\ d.rear = b.rear
        /\ d.data = b.data
    BY <1>4
  <1>6. \A i \in 0 .. b.count - 1 : (s + i) % n = (b.front + (i + 1)) % n
    <2> SUFFICES ASSUME NEW i \in 0 .. b.count - 1
                 PROVE  (s + i) % n = (b.front + (i + 1)) % n
      OBVIOUS
    <2> DEFINE k == s + i
               l == b.front + (i + 1)
    <2>1. k \in 0 .. 2 * n - 1 /\ l \in 0 .. 2 * n - 1
          /\ (l = k \/ (l = k + n))
          /\ l = b.front + 1 + i /\ k = s + i
      BY <1>1, <1>3
    <2> HIDE DEF k, l
    <2>3. /\ k % n = IF k < n THEN k ELSE k - n
          /\ l % n = IF l < n THEN l ELSE l - n
      BY <1>2, <2>1, Zenon
    <2>4. k % n = l % n
      BY <1>1, <1>3, <2>1, <2>3
    <2> QED
      BY <2>4 DEF k, l
  <1>7. RingClosed(d)
    <2>1. b.count - 1 \in 0 .. b.count - 1 /\ (b.count - 1) + 1 = b.count
      BY <1>1
    <2>2. (s + (b.count - 1)) % n = (b.front + b.count) % n
      BY <1>6, <2>1
    <2> QED
      BY <1>1, <1>5, <2>2 DEF RingClosed
  <1>8. \A i \in 0 .. b.count - 2 : Queued(d, i) = Queued(b, i + 1)
    BY <1>1, <1>5, <1>6 DEF Queued
  <1>9. ASSUME NEW old
        PROVE  Oldest(b, old) = Queued(b, 0)
    BY <1>1 DEF Oldest, Queued
  <1> QED
    BY <1>5, <1>7, <1>8, <1>9 DEF d

-----------------------------------------------------------------------------
Argument == 0 .. 32

\* A queue of whole commands, of which the oldest may have been sent already:
\* counted from the newest, every second byte is an argument.
Alternates(b) ==
    \A i \in 0 .. b.count - 1 :
        IF (b.count - i) % 2 = 0 THEN Queued(b, i) \in Commands ELSE Queued(b, i) \in Argument

Even(b) == b.count % 2 = 0

LEMMA PutWithArgAlternates ==
    ASSUME NEW n \in Nat \ {0}, NEW V, NEW b \in Buffer(n, V), RingClosed(b),
           NEW cmd \in V, cmd \in Commands, NEW arg \in V, arg \in Argument
    PROVE  LET e == Enqueue(Enqueue(b, cmd), arg)
           IN  /\ RingClosed(e)
               /\ b.count + 2 <= n =>
                      /\ e.count = b.count + 2
                      /\ Alternates(b) => Alternates(e)
  <1> DEFINE c == Enqueue(b, cmd)
             e == Enqueue(c, arg)
  <1>1. b.size = n /\ b.count \in 0 .. n
    BY DEF Buffer
  <1>3. c \in Buffer(n, V)
    BY BufferOperations
  <1>4. c.size = n /\ c.count \in 0 .. n
    BY <1>3 DEF Buffer
  <1>5. CASE IsFull(b)
    <2>1. c = b
      BY <1>5 DEF Enqueue
    <2>2. e = b
      BY <1>5, <2>1 DEF Enqueue
    <2>3. b.count = n
      BY <1>1, <1>5 DEF IsFull
    <2> HIDE DEF c, e
    <2>4. RingClosed(e) /\ ~(b.count + 2 <= n)
      BY <2>2, <2>3
    <2> QED
      BY <2>4 DEF c, e
  <1>6. CASE ~IsFull(b)
    <2>1. /\ c.count = b.count + 1 /\ RingClosed(c)
          /\ Queued(c, b.count) = cmd
          /\ \A i \in 0 .. b.count - 1 : Queued(c, i) = Queued(b, i)
      BY <1>6, EnqueueAddsLast
    <2>2. CASE IsFull(c)
      <3>1. e = c
        BY <2>2 DEF Enqueue
      <3>2. b.count + 1 = n
        BY <1>1, <1>4, <2>1, <2>2 DEF IsFull
      <3> HIDE DEF c, e
      <3>3. RingClosed(e) /\ ~(b.count + 2 <= n)
        BY <1>1, <2>1, <3>1, <3>2
      <3> QED
        BY <3>3 DEF c, e
    <2>3. CASE ~IsFull(c)
      <3> HIDE DEF c
      <3>1. /\ e.count = c.count + 1 /\ RingClosed(e)
            /\ Queued(e, c.count) = arg
            /\ \A i \in 0 .. c.count - 1 : Queued(e, i) = Queued(c, i)
        BY <1>3, <2>1, <2>3, EnqueueAddsLast
      <3> HIDE DEF e
      <3>2. e.count = b.count + 2
        BY <1>1, <2>1, <3>1
      <3>3. ASSUME Alternates(b), NEW i \in 0 .. e.count - 1
            PROVE  IF (e.count - i) % 2 = 0 THEN Queued(e, i) \in Commands
                                            ELSE Queued(e, i) \in Argument
        <4>1. CASE i = b.count + 1
          <5>1. Queued(e, i) = arg /\ (e.count - i) % 2 = 1
            BY <1>1, <2>1, <3>1, <3>2, <4>1
          <5> QED
            BY <5>1
        <4>2. CASE i = b.count
          <5>1. Queued(e, i) = cmd /\ (e.count - i) % 2 = 0
            BY <1>1, <2>1, <3>1, <3>2, <4>2
          <5> QED
            BY <5>1
        <4>3. CASE i \in 0 .. b.count - 1
          <5>1. Queued(e, i) = Queued(b, i)
            BY <1>1, <2>1, <3>1, <4>3
          <5>2. (e.count - i) % 2 = (b.count - i) % 2
            BY <1>1, <3>2, <4>3
          <5> QED
            BY <3>3, <4>3, <5>1, <5>2 DEF Alternates
        <4> QED
          BY <1>1, <3>2, <4>1, <4>2, <4>3
      <3>4. Alternates(b) => Alternates(e)
        BY <3>3 DEF Alternates
      <3> QED
        BY <3>1, <3>2, <3>4 DEF c, e
    <2> QED
      BY <2>2, <2>3
  <1> QED
    BY <1>5, <1>6

\* What a dequeue leaves, and what the oldest byte of a queue of commands is.
LEMMA DequeueAlternates ==
    ASSUME NEW n \in Nat \ {0}, NEW V, NEW b \in Buffer(n, V), RingClosed(b), ~IsEmpty(b)
    PROVE  /\ RingClosed(Dequeue(b))
           /\ Dequeue(b).count = b.count - 1
           /\ b.count \in Nat \ {0}
           /\ Alternates(b) => /\ Alternates(Dequeue(b))
                               /\ IF Even(b) THEN Oldest(b, 0) \in Commands
                                             ELSE Oldest(b, 0) \in Argument
  <1> DEFINE d == Dequeue(b)
  <1>1. b.count \in Nat \ {0}
    BY DEF Buffer, IsEmpty
  <1>2. /\ d.count = b.count - 1 /\ RingClosed(d)
        /\ \A i \in 0 .. b.count - 2 : Queued(d, i) = Queued(b, i + 1)
        /\ Oldest(b, 0) = Queued(b, 0)
    BY DequeueTakesFirst
  <1> HIDE DEF d
  <1>3. ASSUME Alternates(b)
        PROVE  Alternates(d)
    <2> SUFFICES ASSUME NEW i \in 0 .. d.count - 1
                 PROVE  IF (d.count - i) % 2 = 0 THEN Queued(d, i) \in Commands
                                                 ELSE Queued(d, i) \in Argument
      BY DEF Alternates
    <2>1. i + 1 \in 0 .. b.count - 1 /\ i \in 0 .. b.count - 2
      BY <1>1, <1>2
    <2>2. d.count - i = b.count - (i + 1)
      BY <1>1, <1>2
    <2> QED
      BY <1>2, <1>3, <2>1, <2>2 DEF Alternates
  <1>4. ASSUME Alternates(b)
        PROVE  IF Even(b) THEN Oldest(b, 0) \in Commands ELSE Oldest(b, 0) \in Argument
    <2>1. 0 \in 0 .. b.count - 1 /\ b.count - 0 = b.count
      BY <1>1
    <2> QED
      BY <1>2, <1>4, <2>1 DEF Alternates, Even
  <1> QED
    BY <1>1, <1>2, <1>3, <1>4 DEF d

-----------------------------------------------------------------------------
Answers == {ACK, RESEND}

\* No byte of the line is an answer; one is, and it is a.
NoAnswer(l) == \A i \in 1 .. Len(l) : l[i] \notin Answers
OneAnswer(l, a) ==
    \E k \in 1 .. Len(l) : l[k] = a /\ \A i \in 1 .. Len(l) : i # k => l[i] \notin Answers

LEMMA AppendedByte ==
    ASSUME NEW l \in Seq(Byte), NEW b \in Byte
    PROVE  /\ b \notin Answers /\ NoAnswer(l) => NoAnswer(Append(l, b))
           /\ b \in Answers /\ NoAnswer(l) => OneAnswer(Append(l, b), b)
           /\ \A a : b \notin Answers /\ OneAnswer(l, a) => OneAnswer(Append(l, b), a)
  <1>1. /\ Len(l) \in Nat /\ Len(Append(l, b)) = Len(l) + 1
        /\ Append(l, b)[Len(l) + 1] = b
        /\ \A i \in 1 .. Len(l) : Append(l, b)[i] = l[i]
    OBVIOUS
  <1> DEFINE m == Append(l, b)
             N == Len(l)
  <1>2. /\ N \in Nat /\ Len(m) = N + 1 /\ m[N + 1] = b
        /\ \A i \in 1 .. N : m[i] = l[i]
    BY <1>1
  <1> HIDE DEF m
  <1>3. b \notin Answers /\ NoAnswer(l) => NoAnswer(m)
    BY <1>2 DEF NoAnswer
  <1>4. ASSUME b \in Answers, NoAnswer(l)
        PROVE  OneAnswer(m, b)
    <2>1. N + 1 \in 1 .. Len(m) /\ \A i \in 1 .. Len(m) : i # N + 1 => i \in 1 .. N
      BY <1>2
    <2> QED
      BY <1>2, <1>4, <2>1 DEF NoAnswer, OneAnswer
  <1>5. ASSUME NEW a, b \notin Answers, OneAnswer(l, a)
        PROVE  OneAnswer(m, a)
    <2>1. PICK k \in 1 .. N : l[k] = a /\ \A i \in 1 .. N : i # k => l[i] \notin Answers
      BY <1>5 DEF OneAnswer
    <2>2. k \in 1 .. Len(m) /\ \A i \in 1 .. Len(m) : i # N + 1 => i \in 1 .. N
      BY <1>2
    <2>3. \A i \in 1 .. Len(m) : i # k => m[i] \notin Answers
      BY <1>2, <1>5, <2>1, <2>2
    <2> QED
      BY <1>2, <2>1, <2>2, <2>3 DEF OneAnswer
  <1> QED
    BY <1>3, <1>4, <1>5 DEF m

LEMMA ByteRead ==
    ASSUME NEW l \in Seq(Byte), l # <<>>
    PROVE  /\ NoAnswer(l) => Head(l) \notin Answers /\ NoAnswer(Tail(l))
           /\ \A a \in Answers : OneAnswer(l, a) =>
                  IF Head(l) \in Answers THEN Head(l) = a /\ NoAnswer(Tail(l))
                                         ELSE OneAnswer(Tail(l), a)
  <1> DEFINE m == Tail(l)
             N == Len(m)
  <1>1. /\ N \in Nat /\ Len(l) = N + 1 /\ Head(l) = l[1]
        /\ \A i \in 1 .. N : m[i] = l[i + 1]
    OBVIOUS
  <1> HIDE DEF m
  <1>2. 1 \in 1 .. Len(l) /\ \A i \in 1 .. N : i + 1 \in 1 .. Len(l) /\ i + 1 # 1
    BY <1>1
  <1>3. NoAnswer(l) => Head(l) \notin Answers /\ NoAnswer(m)
    BY <1>1, <1>2 DEF NoAnswer
  <1>4. ASSUME NEW a \in Answers, OneAnswer(l, a)
        PROVE  IF Head(l) \in Answers THEN Head(l) = a /\ NoAnswer(m) ELSE OneAnswer(m, a)
    <2>1. PICK k \in 1 .. Len(l) :
              l[k] = a /\ \A i \in 1 .. Len(l) : i # k => l[i] \notin Answers
      BY <1>4 DEF OneAnswer
    <2>2. CASE k = 1
      <3>1. Head(l) = a /\ NoAnswer(m)
        BY <1>1, <1>2, <2>1, <2>2 DEF NoAnswer
      <3> QED
        BY <3>1
    <2>3. CASE k # 1
      <3>1. Head(l) \notin Answers
        BY <1>1, <1>2, <2>1, <2>3
      <3>2. k - 1 \in 1 .. N /\ (k - 1) + 1 = k
        BY <1>1, <2>3
      <3>3. m[k - 1] = a
        BY <1>1, <2>1, <3>2
      <3>4. \A i \in 1 .. N : i # k - 1 => i + 1 # k
        BY <3>2
      <3>5. \A i \in 1 .. N : i # k - 1 => m[i] \notin Answers
        BY <1>1, <1>2, <2>1, <3>4
      <3> QED
        BY <3>1, <3>2, <3>3, <3>5 DEF OneAnswer
    <2> QED
      BY <2>2, <2>3
  <1> QED
    BY <1>3, <1>4 DEF m

-----------------------------------------------------------------------------
\* The conversation of the driver and the keyboard, one byte at a time: no byte
\* is under way; or the oldest byte of the queue is under way or was refused;
\* or it was accepted and the driver has not read that yet.  The number of
\* bytes that are queued tells whether the oldest is a command or an argument.
Expected == keyboard.expects = 0 \/ "given up" \in faults

Idle == /\ port = <<>> /\ NoAnswer(line)
        /\ Even(command_buffer) /\ Expected

Under == /\ \/ port = <<Oldest(command_buffer, 0)>> /\ NoAnswer(line)
            \/ port = <<>> /\ OneAnswer(line, RESEND)
         /\ ~IsEmpty(command_buffer)
         /\ IF Even(command_buffer) THEN Expected ELSE keyboard.expects # 0

Accepted == /\ port = <<>> /\ OneAnswer(line, ACK)
            /\ ~IsEmpty(command_buffer)
            /\ keyboard.expects # 0 <=> Even(command_buffer)

Untroubled == faults \cap {"overrun", "overlap"} = {}

CommandInv == /\ TypeOK
              /\ RingClosed(command_buffer)
              /\ Untroubled => /\ Alternates(command_buffer)
                               /\ Idle \/ Under \/ Accepted

\* The kinds of bytes differ.
LEMMA ByteKinds ==
    ASSUME KeyboardConstants
    PROVE  /\ Commands \cap Argument = {}
           /\ ACK # RESEND /\ ACK \in Byte /\ RESEND \in Byte
           /\ \A b \in Lock \cup Key \cup {ShiftPressed, ShiftReleased} :
                  b \in Byte \ Answers
           /\ 0 \notin Commands
           /\ Argument \subseteq Byte
           /\ 0 .. 7 \subseteq Argument
  BY DEF KeyboardConstants, Byte, Argument, Answers, Commands, SET_LEDS, SET_REPEAT_SPEED,
         ACK, RESEND, ShiftPressed, ShiftReleased, CapsLock, NumLock, ScrollLock

LEMMA InitConverses == Init => CommandInv
  <1> SUFFICES ASSUME Init PROVE CommandInv
    OBVIOUS
  <1> DEFINE n == KEYBOARD_COMMAND_BUFFER_SIZE
             data == [i \in 0 .. n - 1 |-> IF i < 6 THEN StartupCommands[i + 1] ELSE 0]
  <1>1. n \in Nat /\ n >= 6
    BY KeyboardConstants DEF KeyboardConstants
  <1>2. command_buffer = [data |-> data, size |-> n, front |-> 0, rear |-> 5, count |-> 6]
    <2> HIDE DEF data
    <2> QED
      BY DEF Init, NewBuffer, data
  <1> HIDE DEF data
  <1>3. /\ command_buffer.size = n /\ command_buffer.front = 0 /\ command_buffer.rear = 5
        /\ command_buffer.count = 6 /\ command_buffer.data = data
    BY <1>2
  <1>4. RingClosed(command_buffer)
    BY <1>3 DEF RingClosed, NextIndex
  <1>5. \A i \in 0 .. 5 : Queued(command_buffer, i) = StartupCommands[i + 1]
    <2> SUFFICES ASSUME NEW i \in 0 .. 5
                 PROVE  Queued(command_buffer, i) = StartupCommands[i + 1]
      OBVIOUS
    <2>1. 0 + i = i /\ i % n = i /\ i \in 0 .. n - 1
      BY <1>1
    <2> QED
      BY <1>3, <2>1 DEF Queued, data
  <1>6. \A i \in 0 .. 5 : IF (6 - i) % 2 = 0 THEN StartupCommands[i + 1] \in Commands
                                             ELSE StartupCommands[i + 1] \in Argument
    BY DEF StartupCommands, Commands, Argument, Bit, NumLock, CapsLock, ScrollLock
  <1>7. Alternates(command_buffer)
    BY <1>3, <1>5, <1>6 DEF Alternates
  <1>8. Under
    <2>1. Oldest(command_buffer, 0) = SET_LEDS
      <3>1. ~IsEmpty(command_buffer) /\ 0 < n
        BY <1>1, <1>3 DEF IsEmpty
      <3>2. data[0] = SET_LEDS
        BY <3>1, <1>1 DEF data, StartupCommands
      <3> QED
        BY <1>3, <3>1, <3>2 DEF Oldest
    <2>2. port = <<SET_LEDS>> /\ line = <<>> /\ keyboard.expects = 0
      BY DEF Init
    <2>3. NoAnswer(line)
      BY <2>2 DEF NoAnswer
    <2>4. ~IsEmpty(command_buffer) /\ Even(command_buffer)
      BY <1>3 DEF IsEmpty, Even
    <2> QED
      BY <2>1, <2>2, <2>3, <2>4 DEF Under, Expected
  <1> QED
    BY <1>4, <1>7, <1>8, InitTyped DEF CommandInv

\* The keyboard's answer to the byte under way.
LEMMA DeviceConverses == CommandInv /\ Device => CommandInv'
  <1> SUFFICES ASSUME CommandInv, Device PROVE CommandInv'
    OBVIOUS
  <1>1. TypeOK' /\ UNCHANGED driverVars
    <2>1. TypeOK'
      BY DeviceKeepsTypes DEF CommandInv
    <2>2. UNCHANGED driverVars
      BY DEF Device, AcceptCommand, AcceptArgument, RefuseArgument, RefuseDamaged, Press
    <2> QED
      BY <2>1, <2>2
  <1>2. UNCHANGED <<command_buffer, faults>>
    BY <1>1 DEF driverVars
  <1> SUFFICES ASSUME Untroubled PROVE (Idle \/ Under \/ Accepted)'
    BY <1>1, <1>2 DEF CommandInv, Untroubled
  <1>3. Alternates(command_buffer) /\ (Idle \/ Under \/ Accepted)
    BY DEF CommandInv
  <1>4. line \in Seq(Byte) /\ command_buffer \in Buffer(KEYBOARD_COMMAND_BUFFER_SIZE, Byte)
    BY DEF CommandInv, TypeOK
  <1>5. Receive =>
            /\ Under /\ port = <<Oldest(command_buffer, 0)>> /\ NoAnswer(line)
            /\ Head(port) = Oldest(command_buffer, 0) /\ port' = <<>>
    <2> SUFFICES ASSUME Receive PROVE /\ Under /\ port = <<Oldest(command_buffer, 0)>>
                                      /\ NoAnswer(line)
                                      /\ Head(port) = Oldest(command_buffer, 0)
                                      /\ port' = <<>>
      OBVIOUS
    <2>1. port # <<>> /\ port' = Tail(port)
      BY DEF Receive
    <2>2. Under /\ port = <<Oldest(command_buffer, 0)>> /\ NoAnswer(line)
      BY <1>3, <2>1 DEF Idle, Under, Accepted
    <2> QED
      BY <2>1, <2>2
  <1>6. ~IsEmpty(command_buffer) =>
            IF Even(command_buffer) THEN Oldest(command_buffer, 0) \in Commands
                                    ELSE Oldest(command_buffer, 0) \in Argument
    BY <1>3, <1>4, ByteFacts, KeyboardConstants, DequeueAlternates DEF CommandInv
  <1>7. CASE AcceptCommand
    <2>1. Receive /\ Head(port) \in Commands /\ line' = Append(line, ACK)
          /\ keyboard'.expects = Head(port)
      BY <1>7 DEF AcceptCommand, Answer, CommandInv, TypeOK
    <2>2. Even(command_buffer) /\ ~IsEmpty(command_buffer) /\ keyboard'.expects # 0
      BY <1>5, <1>6, <2>1, ByteKinds, KeyboardConstants DEF Under
    <2>3. OneAnswer(line', ACK)
      BY <1>4, <1>5, <2>1, ByteKinds, KeyboardConstants, AppendedByte DEF Answers
    <2> QED
      BY <1>2, <1>5, <2>1, <2>2, <2>3 DEF Accepted, Even
  <1>8. CASE AcceptArgument
    <2>1. Receive /\ Head(port) \notin Commands /\ line' = Append(line, ACK)
          /\ keyboard'.expects = 0
      BY <1>8 DEF AcceptArgument, Answer, CommandInv, TypeOK
    <2>2. ~Even(command_buffer) /\ ~IsEmpty(command_buffer)
      BY <1>5, <1>6, <2>1 DEF Under
    <2>3. OneAnswer(line', ACK)
      BY <1>4, <1>5, <2>1, ByteKinds, KeyboardConstants, AppendedByte DEF Answers
    <2> QED
      BY <1>2, <1>5, <2>1, <2>2, <2>3 DEF Accepted, Even
  <1>9. CASE RefuseArgument
    <2>1. Receive /\ Head(port) \notin Commands /\ keyboard.expects = 0
      BY <1>9 DEF RefuseArgument
    <2>2. ~Even(command_buffer) /\ ~IsEmpty(command_buffer)
      BY <1>5, <1>6, <2>1 DEF Under
    <2> QED
      BY <1>5, <2>1, <2>2 DEF Under
  <1>10. CASE RefuseDamaged
    <2>1. Receive /\ line' = Append(line, RESEND) /\ UNCHANGED keyboard
      BY <1>10 DEF RefuseDamaged, Answer
    <2>2. OneAnswer(line', RESEND)
      BY <1>4, <1>5, <2>1, ByteKinds, KeyboardConstants, AppendedByte DEF Answers
    <2> QED
      BY <1>2, <1>5, <2>1, <2>2 DEF Under, Even, Expected
  <1>11. CASE \E scancode \in Lock \cup Key \cup {ShiftPressed, ShiftReleased} : Press(scancode)
    <2>1. PICK scancode \in Lock \cup Key \cup {ShiftPressed, ShiftReleased} : Press(scancode)
      BY <1>11
    <2>2. line' = Append(line, scancode) /\ UNCHANGED <<port, keyboard>>
      BY <2>1 DEF Press
    <2>3. /\ NoAnswer(line) => NoAnswer(line')
          /\ \A a : OneAnswer(line, a) => OneAnswer(line', a)
      <3>1. scancode \in Byte /\ scancode \notin Answers
        BY ByteKinds, KeyboardConstants
      <3> QED
        BY <1>4, <2>2, <3>1, AppendedByte
    <2> QED
      BY <1>2, <1>3, <2>2, <2>3 DEF Idle, Under, Accepted, Expected, Even
  <1> QED
    BY <1>7, <1>8, <1>9, <1>10, <1>11 DEF Device

\* The handler's reaction to one byte.
LEMMA HandlerConverses == CommandInv /\ Handler => CommandInv'
  <1> SUFFICES ASSUME CommandInv, Handler PROVE CommandInv'
    OBVIOUS
  <1> DEFINE n == KEYBOARD_COMMAND_BUFFER_SIZE
  <1>1. TypeOK' /\ UNCHANGED keyboard
    <2>1. TypeOK'
      BY HandlerKeepsTypes DEF CommandInv
    <2>2. UNCHANGED keyboard
      BY DEF Handler, OnLock, OnResend, GiveUp, OnAck, OnShift, OnKey, Reads
    <2> QED
      BY <2>1, <2>2
  <1>2. /\ line \in Seq(Byte) /\ command_buffer \in Buffer(n, Byte)
        /\ RingClosed(command_buffer) /\ n \in Nat \ {0}
    BY ByteFacts, KeyboardConstants DEF CommandInv, TypeOK
  <1>3. Untroubled => Alternates(command_buffer) /\ (Idle \/ Under \/ Accepted)
    BY DEF CommandInv
  <1>4. ~IsEmpty(command_buffer) =>
            /\ command_buffer.count \in Nat \ {0}
            /\ Dequeue(command_buffer).count = command_buffer.count - 1
            /\ RingClosed(Dequeue(command_buffer))
            /\ Alternates(command_buffer) =>
                 /\ Alternates(Dequeue(command_buffer))
                 /\ IF Even(command_buffer) THEN Oldest(command_buffer, 0) \in Commands
                                            ELSE Oldest(command_buffer, 0) \in Argument
    <2> SUFFICES ASSUME ~IsEmpty(command_buffer)
                 PROVE  /\ command_buffer.count \in Nat \ {0}
                        /\ Dequeue(command_buffer).count = command_buffer.count - 1
                        /\ RingClosed(Dequeue(command_buffer))
                        /\ Alternates(command_buffer) =>
                             /\ Alternates(Dequeue(command_buffer))
                             /\ IF Even(command_buffer)
                                THEN Oldest(command_buffer, 0) \in Commands
                                ELSE Oldest(command_buffer, 0) \in Argument
      OBVIOUS
    <2> HIDE DEF n
    <2> QED
      BY <1>2, DequeueAlternates
  <1>5. \A byte : Reads(byte) =>
            /\ line' = Tail(line)
            /\ byte \notin Answers => /\ NoAnswer(line) => NoAnswer(line')
                                      /\ \A a \in Answers : OneAnswer(line, a) => OneAnswer(line', a)
            /\ byte \in Answers => /\ ~NoAnswer(line)
                                   /\ \A a \in Answers : OneAnswer(line, a) =>
                                                            a = byte /\ NoAnswer(line')
    <2> SUFFICES ASSUME NEW byte, Reads(byte)
                 PROVE
            /\ line' = Tail(line)
            /\ byte \notin Answers => /\ NoAnswer(line) => NoAnswer(line')
                                      /\ \A a \in Answers : OneAnswer(line, a) => OneAnswer(line', a)
            /\ byte \in Answers => /\ ~NoAnswer(line)
                                   /\ \A a \in Answers : OneAnswer(line, a) =>
                                                            a = byte /\ NoAnswer(line')
      OBVIOUS
    <2>1. line # <<>> /\ Head(line) = byte /\ line' = Tail(line)
      BY DEF Reads
    <2> QED
      BY <1>2, <2>1, ByteRead
  <1>6. CASE \E lock \in Lock : OnLock(lock)
    <2>1. PICK lock \in Lock : OnLock(lock)
      BY <1>6
    <2>2. /\ Reads(lock)
          /\ command_buffer' = Enqueue(Enqueue(command_buffer, SET_LEDS), led_state')
          /\ port' = Append(port, Oldest(command_buffer', 0))
      BY <2>1 DEF OnLock, PutWithArg, Send
    <2>6. faults' = faults
            \cup (IF command_buffer.count + 2 > command_buffer.size THEN {"overrun"} ELSE {})
            \cup (IF Unanswered THEN {"overlap"} ELSE {})
      BY <2>1 DEF OnLock
    <2>3. command_buffer.size = n /\ command_buffer.count \in 0 .. n
      BY <1>2 DEF Buffer
    <2>4. /\ RingClosed(command_buffer')
          /\ command_buffer.count + 2 <= n =>
                 /\ command_buffer'.count = command_buffer.count + 2
                 /\ Alternates(command_buffer) => Alternates(command_buffer')
      <3>1. led_state' \in 0 .. 7
        BY <1>1 DEF TypeOK
      <3>2. SET_LEDS \in Byte /\ SET_LEDS \in Commands /\ led_state' \in Byte
            /\ led_state' \in Argument
        BY <3>1, ByteFacts, ByteKinds, KeyboardConstants DEF Commands
      <3> HIDE DEF n
      <3> QED
        BY <1>2, <2>2, <3>2, PutWithArgAlternates
    <2>5. ASSUME Untroubled'
          PROVE  Alternates(command_buffer') /\ Under'
      <3>1. Untroubled /\ command_buffer.count + 2 <= n /\ ~Unanswered
        <4>1. Untroubled /\ faults \subseteq faults'
          BY <2>5, <2>6 DEF Untroubled
        <4>2. ~(command_buffer.count + 2 > command_buffer.size)
          BY <2>5, <2>6 DEF Untroubled
        <4>3. ~Unanswered
          BY <2>5, <2>6 DEF Untroubled
        <4> QED
          BY <1>2, <2>3, <4>1, <4>2, <4>3
      <3>2. port = <<>> /\ NoAnswer(line)
        BY <3>1 DEF Unanswered, NoAnswer, Answers
      <3>3. Idle
        <4>1. \A a : ~(NoAnswer(line) /\ a \in Answers /\ OneAnswer(line, a))
          BY DEF NoAnswer, OneAnswer
        <4>2. ACK \in Answers /\ RESEND \in Answers
          BY DEF Answers
        <4> QED
          BY <1>3, <3>1, <3>2, <4>1, <4>2, <2>3 DEF Under, Accepted, Unanswered,
                OneAnswer, Idle, NoAnswer
      <3>4. NoAnswer(line')
        <4>1. lock \notin Answers
          BY ByteKinds, KeyboardConstants
        <4> QED
          BY <1>5, <2>2, <3>2, <4>1
      <3>5. ~IsEmpty(command_buffer') /\ Even(command_buffer')
        <4>1. command_buffer'.count = command_buffer.count + 2
          BY <2>4, <3>1
        <4> QED
          BY <2>3, <3>3, <4>1 DEF Idle, Even, IsEmpty
      <3>6. port' = <<Oldest(command_buffer', 0)>>
        BY <2>2, <3>2
      <3>7. Expected'
        BY <1>1, <2>6, <3>3 DEF Idle, Expected
      <3> QED
        BY <1>3, <2>4, <3>1, <3>4, <3>5, <3>6, <3>7 DEF Under
    <2> QED
      BY <1>1, <2>4, <2>5 DEF CommandInv
  <1>7. CASE OnResend
    <2>1. Reads(RESEND) /\ UNCHANGED <<command_buffer, faults>>
          /\ port' = Append(port, Oldest(command_buffer, 0))
      BY <1>7 DEF OnResend, Send
    <2>2. ASSUME Untroubled
          PROVE  Under'
      <3>1. Under /\ port = <<>> /\ NoAnswer(line')
        BY <1>3, <1>5, <2>1, <2>2, ByteKinds, KeyboardConstants
           DEF Idle, Under, Accepted, Answers
      <3>2. port' = <<Oldest(command_buffer', 0)>>
        BY <2>1, <3>1
      <3> QED
        BY <1>1, <2>1, <3>1, <3>2 DEF Under, Expected
    <2> QED
      BY <1>1, <1>2, <1>3, <2>1, <2>2 DEF CommandInv, Untroubled
  <1>8. CASE GiveUp
    <2>1. /\ Reads(RESEND) /\ UNCHANGED port
          /\ command_buffer' = Dropped
          /\ faults' = faults \cup (IF IsEmpty(command_buffer) THEN {} ELSE {"given up"})
      BY <1>8 DEF GiveUp
    <2>2. RingClosed(command_buffer')
      <3>1. CASE IsEmpty(command_buffer)
        BY <1>2, <2>1, <3>1 DEF Dropped, Dequeue
      <3>2. CASE ~IsEmpty(command_buffer)
        <4> DEFINE d == Dequeue(command_buffer)
        <4>1. RingClosed(d) /\ d \in Buffer(n, Byte)
          <5> HIDE DEF n
          <5> QED
            BY <1>2, <1>4, <3>2, BufferOperations
        <4>2. RingClosed(Dequeue(d))
          <5>1. CASE IsEmpty(d)
            BY <4>1, <5>1 DEF Dequeue
          <5>2. CASE ~IsEmpty(d)
            <6> HIDE DEF n, d
            <6> QED
              BY <1>2, <4>1, <5>2, DequeueAlternates
          <5> QED
            BY <5>1, <5>2
        <4> HIDE DEF d
        <4>3. Dropped \in {d, Dequeue(d)}
          BY DEF Dropped, d
        <4> QED
          BY <2>1, <4>1, <4>2, <4>3
      <3> QED
        BY <3>1, <3>2
    <2>3. ASSUME Untroubled
          PROVE  Alternates(command_buffer') /\ Idle'
      <3>1. Under /\ port = <<>> /\ NoAnswer(line')
        BY <1>3, <1>5, <2>1, <2>3, ByteKinds, KeyboardConstants
           DEF Idle, Under, Accepted, Answers
      <3> DEFINE d == Dequeue(command_buffer)
      <3>2. /\ ~IsEmpty(command_buffer) /\ "given up" \in faults'
            /\ d.count = command_buffer.count - 1 /\ command_buffer.count \in Nat \ {0}
            /\ RingClosed(d) /\ Alternates(d)
            /\ IF Even(command_buffer) THEN Oldest(command_buffer, 0) \in Commands
                                       ELSE Oldest(command_buffer, 0) \in Argument
        BY <1>3, <1>4, <2>1, <2>3, <3>1 DEF Under
      <3>3. d \in Buffer(n, Byte)
        <4> HIDE DEF n
        <4> QED
          BY <1>2, BufferOperations
      <3>4. Commands \subseteq WithArgument /\ WithArgument \cap Argument = {}
        BY DEF Commands, WithArgument, Argument, SET_LEDS, SET_REPEAT_SPEED
      <3>5. Alternates(command_buffer') /\ Even(command_buffer')
        <4>0. d.count = command_buffer.count - 1 /\ command_buffer.count \in Nat \ {0}
          BY <3>2
        <4> HIDE DEF d
        <4>1. CASE Even(command_buffer)
          <5>1. command_buffer' = Dequeue(d)
            BY <2>1, <3>2, <3>4, <4>1 DEF Dropped, d
          <5>2. ~IsEmpty(d)
            BY <4>0, <4>1 DEF IsEmpty, Even
          <5>3. /\ Dequeue(d).count = d.count - 1 /\ d.count \in Nat \ {0}
                /\ Alternates(Dequeue(d))
            <6> HIDE DEF n
            <6> QED
              BY <1>2, <3>2, <3>3, <5>2, DequeueAlternates
          <5>4. Dequeue(d).count = command_buffer.count - 2
            BY <4>0, <5>3
          <5>5. Even(Dequeue(d))
            BY <4>0, <4>1, <5>4 DEF Even
          <5> QED
            BY <5>1, <5>3, <5>5
        <4>2. CASE ~Even(command_buffer)
          <5>1. command_buffer' = d
            BY <2>1, <3>2, <3>4, <4>2 DEF Dropped, d
          <5>2. Even(d)
            BY <4>0, <4>2 DEF Even
          <5> QED
            BY <3>2, <5>1, <5>2
        <4> QED
          BY <4>1, <4>2
      <3> QED
        BY <2>1, <3>1, <3>2, <3>5 DEF Idle, Expected
    <2>4. Untroubled' => Untroubled
      BY <2>1 DEF Untroubled
    <2> QED
      BY <1>1, <2>2, <2>3, <2>4 DEF CommandInv
  <1>9. CASE OnAck
    <2>1. /\ Reads(ACK) /\ UNCHANGED faults
          /\ command_buffer' = Dequeue(command_buffer)
          /\ IF command_buffer'.count > 0
             THEN port' = Append(port, Oldest(command_buffer', 0))
             ELSE port' = port
      BY <1>9 DEF OnAck, Send
    <2>2. RingClosed(command_buffer')
      <3>1. CASE IsEmpty(command_buffer)
        BY <1>2, <2>1, <3>1 DEF Dequeue
      <3>2. CASE ~IsEmpty(command_buffer)
        BY <1>4, <2>1, <3>2
      <3> QED
        BY <3>1, <3>2
    <2>3. ASSUME Untroubled
          PROVE  Alternates(command_buffer') /\ (Idle \/ Under)'
      <3>1. Accepted /\ NoAnswer(line')
        BY <1>3, <1>5, <2>1, <2>3, ByteKinds, KeyboardConstants
           DEF Idle, Under, Accepted, Answers
      <3>2. /\ command_buffer'.count = command_buffer.count - 1
            /\ command_buffer.count \in Nat \ {0} /\ Alternates(command_buffer')
        BY <1>3, <1>4, <2>1, <2>3, <3>1 DEF Accepted
      <3>3. Even(command_buffer') <=> ~Even(command_buffer)
        BY <3>2 DEF Even
      <3>4. Even(command_buffer') => keyboard'.expects = 0
        BY <1>1, <3>1, <3>3 DEF Accepted
      <3>5. ~Even(command_buffer') => keyboard'.expects # 0
        BY <1>1, <3>1, <3>3 DEF Accepted
      <3>6. CASE IsEmpty(command_buffer')
        <4>1. Even(command_buffer') /\ ~(command_buffer'.count > 0)
          BY <3>6 DEF IsEmpty, Even
        <4> QED
          BY <2>1, <3>1, <3>2, <3>4, <4>1 DEF Idle, Expected, Accepted
      <3>7. CASE ~IsEmpty(command_buffer')
        <4>1. command_buffer'.count > 0
          BY <3>2, <3>7 DEF IsEmpty
        <4>2. port' = <<Oldest(command_buffer', 0)>>
          BY <2>1, <3>1, <4>1 DEF Accepted
        <4> QED
          BY <3>1, <3>2, <3>4, <3>5, <3>7, <4>2 DEF Under, Expected
      <3> QED
        BY <3>6, <3>7
    <2> QED
      BY <1>1, <2>1, <2>2, <2>3 DEF CommandInv, Untroubled
  <1>10. CASE OnShift \/ \E k \in Key : OnKey(k)
    <2>1. PICK byte \in Key \cup {ShiftPressed, ShiftReleased} : Reads(byte)
      BY <1>10 DEF OnShift, OnKey
    <2>2. UNCHANGED <<command_buffer, faults, port>>
      BY <1>10 DEF OnShift, OnKey
    <2>3. /\ NoAnswer(line) => NoAnswer(line')
          /\ \A a \in Answers : OneAnswer(line, a) => OneAnswer(line', a)
      BY <1>5, <2>1, ByteKinds, KeyboardConstants
    <2>4. ACK \in Answers /\ RESEND \in Answers
      BY DEF Answers
    <2>5. Untroubled => (Idle \/ Under \/ Accepted)'
      BY <1>1, <1>3, <2>2, <2>3, <2>4 DEF Idle, Under, Accepted, Expected, Even
    <2> QED
      BY <1>1, <1>2, <1>3, <2>2, <2>5 DEF CommandInv, Untroubled
  <1> QED
    BY <1>6, <1>7, <1>8, <1>9, <1>10 DEF Handler

\* Every byte reaches the keyboard in the state it was queued for: the keyboard
\* is sent an argument when it expects one, and a command when it does not,
\* for every size of the queue and every number of damaged bytes (keyboard.c
\* lines 96-99, 172-180 and 188-197).
THEOREM CommandsArriveWithArguments == Spec => []CommandsKeepTheirArguments
  <1>1. CommandInv /\ [Next]_vars => CommandInv'
    <2> SUFFICES ASSUME CommandInv, [Next]_vars PROVE CommandInv'
      OBVIOUS
    <2>1. CASE \E r \in Reader : Getch(r)
      <3>1. PICK r \in Reader : Getch(r)
        BY <2>1
      <3>2. TypeOK'
        BY <3>1, GetchKeepsTypes DEF CommandInv
      <3>3. UNCHANGED <<command_buffer, faults, port, line, keyboard>>
        BY <3>1 DEF Getch, FindReady, FindEmpty, GetChar, driverVars, deviceVars
      <3> QED
        BY <3>2, <3>3 DEF CommandInv, Untroubled, Idle, Under, Accepted, Expected
    <2>3. CASE \E r \in Reader : Misled(r)
      <3>1. /\ TypeOK' /\ faults' = faults \cup {"misled"}
            /\ UNCHANGED <<command_buffer, port, line, keyboard>>
        BY <2>3, MisledKeepsTypes DEF CommandInv
      <3>2. (Untroubled' => Untroubled) /\ (Expected => Expected')
        BY <3>1, Zenon DEF Untroubled, Expected
      <3> QED
        BY <3>1, <3>2 DEF CommandInv, Idle, Under, Accepted
    <2>2. CASE UNCHANGED vars
      <3>1. UNCHANGED <<command_buffer, faults, port, line, keyboard>> /\ TypeOK'
        BY <2>2 DEF vars, driverVars, deviceVars, CommandInv, TypeOK
      <3> QED
        BY <3>1 DEF CommandInv, Untroubled, Idle, Under, Accepted, Expected
    <2> QED
      BY <2>1, <2>2, <2>3, DeviceConverses, HandlerConverses DEF Next
  <1>2. CommandInv => CommandsKeepTheirArguments
    <2> SUFFICES ASSUME CommandInv, port # <<>>, Untroubled
                 PROVE  /\ Head(port) \notin Commands => keyboard.expects # 0
                        /\ Head(port) \in Commands => Expected
      BY DEF CommandsKeepTheirArguments, Untroubled, Expected
    <2>1. Under /\ port = <<Oldest(command_buffer, 0)>> /\ Alternates(command_buffer)
      BY DEF CommandInv, Idle, Under, Accepted
    <2>2. IF Even(command_buffer) THEN Oldest(command_buffer, 0) \in Commands
                                  ELSE Oldest(command_buffer, 0) \in Argument
      BY <2>1, ByteFacts, KeyboardConstants, DequeueAlternates DEF CommandInv, TypeOK, Under
    <2>3. Head(port) = Oldest(command_buffer, 0)
      BY <2>1
    <2> QED
      BY <2>1, <2>2, <2>3, ByteKinds, KeyboardConstants DEF Under
  <1> QED
    BY <1>1, <1>2, InitConverses, PTL DEF Spec
-----------------------------------------------------------------------------
(* The LEDs. *)

\* No command for the LEDs is queued; the last one that is; and it is followed
\* by the LEDs it stands for.
NoLEDs(q) == \A i \in 0 .. q.count - 1 : Queued(q, i) # SET_LEDS
NewestLEDs(q, i) == /\ Queued(q, i) = SET_LEDS
                    /\ \A j \in i + 1 .. q.count - 1 : Queued(q, j) # SET_LEDS
LEDsQueued(q, leds) ==
    \A i \in 0 .. q.count - 1 :
        NewestLEDs(q, i) => i + 1 < q.count /\ Queued(q, i + 1) = leds

\* The same of the bytes that are under way.
NoneSent(p) == \A k \in 1 .. Len(p) : p[k] # SET_LEDS
NewestSent(p, k) == p[k] = SET_LEDS /\ \A j \in k + 1 .. Len(p) : p[j] # SET_LEDS
LEDsSent(p, leds) ==
    \A k \in 1 .. Len(p) : NewestSent(p, k) => k < Len(p) /\ p[k + 1] = leds

\* One byte at a time: what the keyboard makes of a queue without a command for
\* the LEDs, and which command it is that awaits its argument.
LEDsOneByOne ==
    /\ NoLEDs(command_buffer) =>
           IF keyboard.expects = SET_LEDS
           THEN command_buffer.count > 0 /\ Queued(command_buffer, 0) = led_state
           ELSE keyboard.leds = led_state
    /\ Even(command_buffer) /\ keyboard.expects # 0 =>
           command_buffer.count > 0 /\ keyboard.expects = Queued(command_buffer, 0)

\* With overlapping keys, and no damaged bytes: the byte that was sent last is
\* the oldest of the queue, or an argument of which there is no more in it ...
LastSent ==
    IF port = <<>>
    THEN keyboard.expects = IF command_buffer.count > 0 /\ Queued(command_buffer, 0) \in Commands
                            THEN Queued(command_buffer, 0) ELSE 0
    ELSE IF command_buffer.count > 0 THEN port[Len(port)] = Queued(command_buffer, 0)
                                     ELSE port[Len(port)] \in Argument

\* ... and what is under way ends with the LEDs, if the queue does not.
LEDsUnderWay ==
    NoLEDs(command_buffer) =>
        /\ LEDsSent(port, led_state)
        /\ NoneSent(port) => IF keyboard.expects = SET_LEDS
                             THEN port # <<>> /\ port[1] = led_state
                             ELSE keyboard.leds = led_state

Kept == "overrun" \notin faults /\ "given up" \notin faults
OneByOne == "overlap" \notin faults

LEDInv == /\ CommandInv /\ noise \in Nat
          /\ Kept => /\ Alternates(command_buffer)
                     /\ LEDsQueued(command_buffer, led_state)
                     /\ OneByOne => LEDsOneByOne
                     /\ noise = 0 => LastSent /\ LEDsUnderWay

\* A lock key queues the LEDs behind what is there; the oldest byte stays.
LEMMA LEDsPut ==
    ASSUME NEW n \in Nat \ {0}, NEW V, NEW b \in Buffer(n, V), RingClosed(b),
           SET_LEDS \in V, NEW leds \in V, leds # SET_LEDS, b.count + 2 <= n
    PROVE  LET e == Enqueue(Enqueue(b, SET_LEDS), leds)
           IN  /\ e.count = b.count + 2 /\ b.count \in Nat
               /\ ~NoLEDs(e) /\ LEDsQueued(e, leds)
               /\ b.count > 0 => Queued(e, 0) = Queued(b, 0)
  <1> DEFINE c == Enqueue(b, SET_LEDS)
             e == Enqueue(c, leds)
  <1>1. b.size = n /\ b.count \in 0 .. n
    BY DEF Buffer
  <1>2. ~IsFull(b)
    BY <1>1 DEF IsFull
  <1>3. c \in Buffer(n, V)
    BY BufferOperations
  <1>4. /\ c.count = b.count + 1 /\ RingClosed(c)
        /\ Queued(c, b.count) = SET_LEDS
        /\ \A i \in 0 .. b.count - 1 : Queued(c, i) = Queued(b, i)
    BY <1>2, EnqueueAddsLast
  <1>5. c.size = n
    BY <1>3 DEF Buffer
  <1> HIDE DEF c
  <1>6. ~IsFull(c)
    BY <1>1, <1>4, <1>5 DEF IsFull
  <1>7. /\ e.count = c.count + 1 /\ Queued(e, c.count) = leds
        /\ \A i \in 0 .. c.count - 1 : Queued(e, i) = Queued(c, i)
    BY <1>3, <1>4, <1>6, EnqueueAddsLast
  <1> HIDE DEF e
  <1>8. /\ e.count = b.count + 2 /\ b.count \in Nat
        /\ Queued(e, b.count) = SET_LEDS /\ Queued(e, b.count + 1) = leds
    BY <1>1, <1>4, <1>7
  <1>9. b.count > 0 => Queued(e, 0) = Queued(b, 0)
    BY <1>1, <1>4, <1>7
  <1>10. ~NoLEDs(e)
    BY <1>8 DEF NoLEDs
  <1>11. LEDsQueued(e, leds)
    <2> SUFFICES ASSUME NEW i \in 0 .. e.count - 1, NewestLEDs(e, i)
                 PROVE  i + 1 < e.count /\ Queued(e, i + 1) = leds
      BY DEF LEDsQueued
    <2>1. i # b.count + 1
      BY <1>8 DEF NewestLEDs
    <2>2. ~(i < b.count)
      BY <1>8 DEF NewestLEDs
    <2>3. i = b.count
      BY <1>8, <2>1, <2>2
    <2> QED
      BY <1>8, <2>3
  <1> QED
    BY <1>8, <1>9, <1>10, <1>11 DEF c, e

\* An acknowledged byte leaves the LEDs at the end of the queue, until it is
\* their command that is taken.
LEMMA LEDsTaken ==
    ASSUME NEW n \in Nat \ {0}, NEW V, NEW b \in Buffer(n, V), RingClosed(b), ~IsEmpty(b),
           NEW leds, LEDsQueued(b, leds)
    PROVE  LET d == Dequeue(b)
           IN  /\ LEDsQueued(d, leds)
               /\ NoLEDs(d) /\ ~NoLEDs(b) => /\ Queued(b, 0) = SET_LEDS
                                             /\ d.count > 0 /\ Queued(d, 0) = leds
  <1> DEFINE d == Dequeue(b)
  <1>1. b.count \in Nat \ {0}
    BY DEF Buffer, IsEmpty
  <1>2. /\ d.count = b.count - 1
        /\ \A i \in 0 .. b.count - 2 : Queued(d, i) = Queued(b, i + 1)
    BY DequeueTakesFirst
  <1> HIDE DEF d
  <1>3. ASSUME NEW j \in 1 .. b.count - 1
        PROVE  Queued(b, j) = Queued(d, j - 1) /\ j - 1 \in 0 .. d.count - 1
    <2>1. j - 1 \in 0 .. b.count - 2 /\ (j - 1) + 1 = j
      BY <1>1
    <2> QED
      BY <1>1, <1>2, <2>1
  <1>4. LEDsQueued(d, leds)
    <2> SUFFICES ASSUME NEW i \in 0 .. d.count - 1, NewestLEDs(d, i)
                 PROVE  i + 1 < d.count /\ Queued(d, i + 1) = leds
      BY DEF LEDsQueued
    <2>1. i + 1 \in 0 .. b.count - 1 /\ i \in 0 .. b.count - 2
      BY <1>1, <1>2
    <2>2. NewestLEDs(b, i + 1)
      <3>1. Queued(b, i + 1) = SET_LEDS
        BY <1>2, <2>1 DEF NewestLEDs
      <3>2. ASSUME NEW j \in (i + 1) + 1 .. b.count - 1
            PROVE  Queued(b, j) # SET_LEDS
        <4>1. j \in 1 .. b.count - 1 /\ j - 1 \in i + 1 .. d.count - 1
          BY <1>1, <1>2, <2>1
        <4> QED
          BY <1>3, <4>1 DEF NewestLEDs
      <3> QED
        BY <3>1, <3>2 DEF NewestLEDs
    <2>3. (i + 1) + 1 < b.count /\ Queued(b, (i + 1) + 1) = leds
      BY <2>1, <2>2 DEF LEDsQueued
    <2>4. i + 1 \in 0 .. b.count - 2
      BY <1>1, <2>1, <2>3
    <2> QED
      BY <1>1, <1>2, <2>1, <2>3, <2>4
  <1>5. ASSUME NoLEDs(d), ~NoLEDs(b)
        PROVE  Queued(b, 0) = SET_LEDS /\ d.count > 0 /\ Queued(d, 0) = leds
    <2>1. \A j \in 1 .. b.count - 1 : Queued(b, j) # SET_LEDS
      BY <1>3, <1>5 DEF NoLEDs
    <2>2. PICK i \in 0 .. b.count - 1 : Queued(b, i) = SET_LEDS
      BY <1>5 DEF NoLEDs
    <2>3. i = 0
      BY <1>1, <2>1, <2>2
    <2>4. 0 \in 0 .. b.count - 1 /\ NewestLEDs(b, 0)
      BY <1>1, <2>1, <2>2, <2>3 DEF NewestLEDs
    <2>5. 0 + 1 < b.count /\ Queued(b, 0 + 1) = leds
      BY <2>4 DEF LEDsQueued
    <2>6. 0 \in 0 .. b.count - 2
      BY <1>1, <2>5
    <2> QED
      BY <1>1, <1>2, <2>2, <2>3, <2>5, <2>6
  <1> QED
    BY <1>4, <1>5 DEF d

\* The same of a byte that the keyboard receives ...
LEMMA LEDsReceived ==
    ASSUME NEW p \in Seq(Byte), p # <<>>, NEW leds
    PROVE  /\ LEDsSent(p, leds) => LEDsSent(Tail(p), leds)
           /\ LEDsSent(p, leds) /\ NoneSent(Tail(p)) /\ ~NoneSent(p) =>
                  Head(p) = SET_LEDS /\ Tail(p) # <<>> /\ Tail(p)[1] = leds
           /\ Head(p) = p[1] /\ Len(p) \in Nat \ {0}
           /\ Tail(p) = <<>> => Head(p) = p[Len(p)]
           /\ Tail(p) # <<>> => Tail(p)[Len(Tail(p))] = p[Len(p)]
  <1> DEFINE t == Tail(p)
             N == Len(t)
  <1>1. /\ N \in Nat /\ Len(p) = N + 1 /\ Head(p) = p[1]
        /\ \A k \in 1 .. N : t[k] = p[k + 1]
        /\ t = <<>> <=> N = 0
    <2>1. N \in Nat /\ Len(p) = N + 1 /\ Head(p) = p[1] /\ t \in Seq(Byte)
      OBVIOUS
    <2>2. \A k \in 1 .. N : t[k] = p[k + 1]
      OBVIOUS
    <2>3. t = <<>> <=> N = 0
      <3> HIDE DEF t
      <3> QED
        BY <2>1
    <2> QED
      BY <2>1, <2>2, <2>3
  <1> HIDE DEF t
  <1>2. /\ t = <<>> => Head(p) = p[Len(p)]
        /\ t # <<>> => t[N] = p[Len(p)]
    BY <1>1
  <1>3. ASSUME NEW j \in 2 .. N + 1
        PROVE  p[j] = t[j - 1] /\ j - 1 \in 1 .. N
    <2>1. j - 1 \in 1 .. N /\ (j - 1) + 1 = j
      BY <1>1
    <2> QED
      BY <1>1, <2>1
  <1>4. ASSUME LEDsSent(p, leds)
        PROVE  LEDsSent(t, leds)
    <2> SUFFICES ASSUME NEW k \in 1 .. N, NewestSent(t, k)
                 PROVE  k < N /\ t[k + 1] = leds
      BY DEF LEDsSent
    <2>1. k + 1 \in 1 .. Len(p)
      BY <1>1
    <2>2. NewestSent(p, k + 1)
      <3>1. p[k + 1] = SET_LEDS
        BY <1>1 DEF NewestSent
      <3>2. ASSUME NEW j \in (k + 1) + 1 .. Len(p)
            PROVE  p[j] # SET_LEDS
        <4>1. j \in 2 .. N + 1 /\ j - 1 \in k + 1 .. N
          BY <1>1
        <4> QED
          BY <1>3, <4>1 DEF NewestSent
      <3> QED
        BY <3>1, <3>2 DEF NewestSent
    <2>3. k + 1 < Len(p) /\ p[(k + 1) + 1] = leds
      BY <1>4, <2>1, <2>2 DEF LEDsSent
    <2>4. k + 1 \in 1 .. N
      BY <1>1, <2>3
    <2> QED
      BY <1>1, <2>3, <2>4
  <1>5. ASSUME LEDsSent(p, leds), NoneSent(t), ~NoneSent(p)
        PROVE  Head(p) = SET_LEDS /\ t # <<>> /\ t[1] = leds
    <2>1. \A j \in 2 .. N + 1 : p[j] # SET_LEDS
      BY <1>3, <1>5 DEF NoneSent
    <2>2. PICK k \in 1 .. Len(p) : p[k] = SET_LEDS
      BY <1>5 DEF NoneSent
    <2>3. k = 1
      BY <1>1, <2>1, <2>2
    <2>4. 1 \in 1 .. Len(p) /\ NewestSent(p, 1)
      BY <1>1, <2>1, <2>2, <2>3 DEF NewestSent
    <2>5. 1 < Len(p) /\ p[1 + 1] = leds
      BY <1>5, <2>4 DEF LEDsSent
    <2> QED
      BY <1>1, <2>2, <2>3, <2>5
  <1> QED
    BY <1>1, <1>2, <1>4, <1>5 DEF t

\* ... and of a byte that is sent.
LEMMA LEDsAppended ==
    ASSUME NEW p \in Seq(Byte), NEW b \in Byte, b # SET_LEDS, NEW leds
    PROVE  LET a == Append(p, b)
           IN  /\ a # <<>> /\ a[Len(a)] = b
               /\ p # <<>> => a[1] = p[1]
               /\ p = <<>> => a[1] = b
               /\ NoneSent(a) <=> NoneSent(p)
               /\ LEDsSent(p, leds) => LEDsSent(a, leds)
               /\ p # <<>> /\ p[Len(p)] = SET_LEDS => LEDsSent(a, b)
  <1> DEFINE a == Append(p, b)
             N == Len(p)
  <1>1. /\ N \in Nat /\ Len(a) = N + 1 /\ a[N + 1] = b
        /\ \A k \in 1 .. N : a[k] = p[k]
        /\ p = <<>> <=> N = 0
        /\ a # <<>>
    OBVIOUS
  <1> HIDE DEF a
  <1>2. a[Len(a)] = b /\ (p # <<>> => a[1] = p[1]) /\ (p = <<>> => a[1] = b)
    BY <1>1
  <1>3. NoneSent(a) <=> NoneSent(p)
    BY <1>1 DEF NoneSent
  <1>4. ASSUME NEW k \in 1 .. Len(a), NewestSent(a, k)
        PROVE  k \in 1 .. N /\ NewestSent(p, k)
    <2>1. k \in 1 .. N
      BY <1>1, <1>4 DEF NewestSent
    <2> QED
      BY <1>1, <1>4, <2>1 DEF NewestSent
  <1>5. ASSUME LEDsSent(p, leds)
        PROVE  LEDsSent(a, leds)
    <2> SUFFICES ASSUME NEW k \in 1 .. Len(a), NewestSent(a, k)
                 PROVE  k < Len(a) /\ a[k + 1] = leds
      BY DEF LEDsSent
    <2>1. k \in 1 .. N /\ k < N /\ p[k + 1] = leds
      BY <1>4, <1>5 DEF LEDsSent
    <2>2. k + 1 \in 1 .. N
      BY <1>1, <2>1
    <2> QED
      BY <1>1, <2>1, <2>2
  <1>6. ASSUME p # <<>>, p[N] = SET_LEDS
        PROVE  LEDsSent(a, b)
    <2> SUFFICES ASSUME NEW k \in 1 .. Len(a), NewestSent(a, k)
                 PROVE  k < Len(a) /\ a[k + 1] = b
      BY DEF LEDsSent
    <2>1. k \in 1 .. N /\ NewestSent(p, k)
      BY <1>4
    <2>2. k = N
      BY <1>1, <1>6, <2>1 DEF NewestSent
    <2> QED
      BY <1>1, <2>2
  <1> QED
    BY <1>1, <1>2, <1>3, <1>5, <1>6 DEF a

\* No step forgets a fault.
LEMMA FaultsAreKept ==
    ASSUME [Next]_vars
    PROVE  (Kept' => Kept) /\ (OneByOne' => OneByOne)
  <1>1. faults \subseteq faults'
    <2>1. CASE UNCHANGED vars
      BY <2>1 DEF vars, driverVars
    <2>2. CASE Device
      BY <2>2 DEF Device, AcceptCommand, AcceptArgument, RefuseArgument, RefuseDamaged, Press,
                  driverVars
    <2>3. CASE Handler
      <3>1. CASE \E lock \in Lock : OnLock(lock)
        BY <3>1, Zenon DEF OnLock
      <3>2. CASE GiveUp
        BY <3>2, Zenon DEF GiveUp
      <3>3. CASE OnResend \/ OnAck \/ OnShift \/ \E k \in Key : OnKey(k)
        BY <3>3 DEF OnResend, OnAck, OnShift, OnKey
      <3> QED
        BY <2>3, <3>1, <3>2, <3>3 DEF Handler
    <2>4. CASE \E r \in Reader : Getch(r)
      <3>1. PICK r \in Reader : Getch(r)
        BY <2>4
      <3> QED
        BY <3>1 DEF Getch, FindReady, FindEmpty, GetChar, driverVars
    <2>5. CASE \E r \in Reader : Misled(r)
      BY <2>5, Zenon DEF Misled
    <2> QED
      BY <2>1, <2>2, <2>3, <2>4, <2>5 DEF Next
  <1> QED
    BY <1>1, Zenon DEF Kept, OneByOne

\* What the bytes of the queue are, and what CommandInv says of one byte at a
\* time when no command was given up.
LEMMA LEDFacts ==
    ASSUME LEDInv, Kept
    PROVE  /\ KEYBOARD_COMMAND_BUFFER_SIZE \in Nat \ {0}
           /\ command_buffer \in Buffer(KEYBOARD_COMMAND_BUFFER_SIZE, Byte)
           /\ RingClosed(command_buffer) /\ Alternates(command_buffer)
           /\ LEDsQueued(command_buffer, led_state)
           /\ command_buffer.count \in Nat
           /\ IsEmpty(command_buffer) <=> ~(command_buffer.count > 0)
           /\ IsEmpty(command_buffer) => Oldest(command_buffer, 0) = 0
           /\ ~IsEmpty(command_buffer) =>
                  /\ Oldest(command_buffer, 0) = Queued(command_buffer, 0)
                  /\ IF Even(command_buffer) THEN Queued(command_buffer, 0) \in Commands
                                             ELSE Queued(command_buffer, 0) \in Argument
           /\ led_state \in 0 .. 7 /\ led_state \in Argument /\ led_state # SET_LEDS
           /\ port \in Seq(Byte) /\ keyboard \in [leds : 0 .. 7, expects : {0} \cup Commands]
           /\ SET_LEDS \in Commands /\ SET_LEDS \notin Argument /\ 0 \notin Commands
           /\ Commands \cap Argument = {} /\ SET_LEDS \in Byte
           /\ OneByOne => /\ Idle \/ Under \/ Accepted
                          /\ (Idle \/ (Under /\ Even(command_buffer))) => keyboard.expects = 0
  <1>1. KEYBOARD_COMMAND_BUFFER_SIZE \in Nat \ {0} /\ SET_LEDS \in Byte
    BY ByteFacts, KeyboardConstants
  <1>2. /\ command_buffer \in Buffer(KEYBOARD_COMMAND_BUFFER_SIZE, Byte)
        /\ RingClosed(command_buffer) /\ Alternates(command_buffer)
        /\ LEDsQueued(command_buffer, led_state)
        /\ led_state \in 0 .. 7 /\ port \in Seq(Byte)
        /\ keyboard \in [leds : 0 .. 7, expects : {0} \cup Commands]
    <2>1. TypeOK /\ RingClosed(command_buffer) /\ Alternates(command_buffer)
          /\ LEDsQueued(command_buffer, led_state)
      BY DEF LEDInv, CommandInv
    <2> QED
      BY <2>1 DEF TypeOK
  <1>3. /\ Commands \cap Argument = {} /\ 0 \notin Commands /\ 0 .. 7 \subseteq Argument
        /\ SET_LEDS \in Commands
    BY ByteKinds, KeyboardConstants DEF Commands
  <1>4. /\ command_buffer.count \in Nat
        /\ IsEmpty(command_buffer) <=> ~(command_buffer.count > 0)
        /\ IsEmpty(command_buffer) => Oldest(command_buffer, 0) = 0
    BY <1>1, <1>2 DEF Buffer, IsEmpty, Oldest
  <1>5. ~IsEmpty(command_buffer) =>
            /\ Oldest(command_buffer, 0) = Queued(command_buffer, 0)
            /\ IF Even(command_buffer) THEN Queued(command_buffer, 0) \in Commands
                                       ELSE Queued(command_buffer, 0) \in Argument
    <2> SUFFICES ASSUME ~IsEmpty(command_buffer)
                 PROVE  /\ Oldest(command_buffer, 0) = Queued(command_buffer, 0)
                        /\ IF Even(command_buffer) THEN Queued(command_buffer, 0) \in Commands
                                                   ELSE Queued(command_buffer, 0) \in Argument
      OBVIOUS
    <2>1. Oldest(command_buffer, 0) = Queued(command_buffer, 0)
      BY <1>1, <1>2, DequeueTakesFirst
    <2>2. IF Even(command_buffer) THEN Oldest(command_buffer, 0) \in Commands
                                  ELSE Oldest(command_buffer, 0) \in Argument
      BY <1>1, <1>2, DequeueAlternates
    <2> QED
      BY <2>1, <2>2
  <1>6. ASSUME OneByOne
        PROVE  /\ Idle \/ Under \/ Accepted
               /\ (Idle \/ (Under /\ Even(command_buffer))) => keyboard.expects = 0
    <2>1. Untroubled
      BY <1>6, Zenon DEF Untroubled, Kept, OneByOne
    <2>2. Expected => keyboard.expects = 0
      BY Zenon DEF Expected, Kept
    <2> QED
      BY <2>1, <2>2 DEF LEDInv, CommandInv, Idle, Under
  <1> QED
    BY <1>1, <1>2, <1>3, <1>4, <1>5, <1>6

LEMMA InitLEDs == Init => LEDInv
  <1> SUFFICES ASSUME Init PROVE LEDInv
    OBVIOUS
  <1> DEFINE n == KEYBOARD_COMMAND_BUFFER_SIZE
             data == [i \in 0 .. n - 1 |-> IF i < 6 THEN StartupCommands[i + 1] ELSE 0]
  <1>1. n \in Nat /\ n >= 6
    BY KeyboardConstants DEF KeyboardConstants
  <1>2. command_buffer = [data |-> data, size |-> n, front |-> 0, rear |-> 5, count |-> 6]
    <2> HIDE DEF data
    <2> QED
      BY DEF Init, NewBuffer, data
  <1> HIDE DEF data
  <1>3. /\ command_buffer.size = n /\ command_buffer.front = 0
        /\ command_buffer.count = 6 /\ command_buffer.data = data
    BY <1>2
  <1>4. \A i \in 0 .. 5 : Queued(command_buffer, i) = StartupCommands[i + 1]
    <2> SUFFICES ASSUME NEW i \in 0 .. 5
                 PROVE  Queued(command_buffer, i) = StartupCommands[i + 1]
      OBVIOUS
    <2>1. 0 + i = i /\ i % n = i /\ i \in 0 .. n - 1
      BY <1>1
    <2> QED
      BY <1>3, <2>1 DEF Queued, data
  <1>5. /\ Queued(command_buffer, 0) = SET_LEDS /\ Queued(command_buffer, 2) = SET_LEDS
        /\ Queued(command_buffer, 3) = led_state /\ Queued(command_buffer, 3) # SET_LEDS
        /\ Queued(command_buffer, 1) # SET_LEDS
        /\ Queued(command_buffer, 4) # SET_LEDS /\ Queued(command_buffer, 5) # SET_LEDS
    BY <1>4 DEF StartupCommands, SET_LEDS, SET_REPEAT_SPEED, Init, Bit, NumLock, CapsLock,
                ScrollLock
  <1>6. LEDsQueued(command_buffer, led_state)
    <2> SUFFICES ASSUME NEW i \in 0 .. 5, NewestLEDs(command_buffer, i)
                 PROVE  i + 1 < 6 /\ Queued(command_buffer, i + 1) = led_state
      BY <1>3 DEF LEDsQueued
    <2>1. i = 2
      BY <1>3, <1>5 DEF NewestLEDs
    <2> QED
      BY <1>5, <2>1
  <1>7. ~NoLEDs(command_buffer)
    BY <1>3, <1>5 DEF NoLEDs
  <1>8. keyboard.expects = 0 /\ port = <<SET_LEDS>> /\ noise = 0
    BY DEF Init
  <1>9. LEDsOneByOne /\ LEDsUnderWay
    BY <1>7, <1>8 DEF LEDsOneByOne, LEDsUnderWay
  <1>10. LastSent
    BY <1>3, <1>5, <1>8 DEF LastSent
  <1>11. CommandInv
    BY InitConverses
  <1>12. Alternates(command_buffer)
    <2>1. Untroubled
      BY DEF Init, Untroubled
    <2> QED
      BY <1>11, <2>1 DEF CommandInv
  <1> QED
    BY <1>6, <1>8, <1>9, <1>10, <1>11, <1>12 DEF LEDInv

\* The keyboard takes a byte: the LEDs that are under way come nearer, or show.
LEMMA DeviceLEDs == LEDInv /\ Device => LEDInv'
  <1> SUFFICES ASSUME LEDInv, Device PROVE LEDInv'
    OBVIOUS
  <1>1. CommandInv' /\ UNCHANGED <<command_buffer, faults, led_state>>
    <2>1. CommandInv'
      BY DeviceConverses DEF LEDInv
    <2>2. UNCHANGED driverVars
      BY DEF Device, AcceptCommand, AcceptArgument, RefuseArgument, RefuseDamaged, Press
    <2> QED
      BY <2>1, <2>2 DEF driverVars
  <1>2. noise' \in Nat
    BY DEF LEDInv, Device, AcceptCommand, AcceptArgument, RefuseArgument, RefuseDamaged, Press
  <1> SUFFICES ASSUME Kept
               PROVE  (OneByOne => LEDsOneByOne)' /\ (noise = 0 => LastSent /\ LEDsUnderWay)'
    BY <1>1, <1>2 DEF LEDInv, Kept
  <1>3. /\ command_buffer.count \in Nat
        /\ IsEmpty(command_buffer) <=> ~(command_buffer.count > 0)
        /\ ~IsEmpty(command_buffer) =>
               /\ Oldest(command_buffer, 0) = Queued(command_buffer, 0)
               /\ IF Even(command_buffer) THEN Queued(command_buffer, 0) \in Commands
                                          ELSE Queued(command_buffer, 0) \in Argument
        /\ led_state \in 0 .. 7 /\ led_state \in Argument /\ led_state # SET_LEDS
        /\ port \in Seq(Byte) /\ keyboard \in [leds : 0 .. 7, expects : {0} \cup Commands]
        /\ SET_LEDS \in Commands /\ SET_LEDS \notin Argument /\ 0 \notin Commands
        /\ Commands \cap Argument = {}
        /\ OneByOne => /\ Idle \/ Under \/ Accepted
                       /\ (Idle \/ (Under /\ Even(command_buffer))) => keyboard.expects = 0
    BY LEDFacts
  <1>4. /\ OneByOne => LEDsOneByOne
        /\ noise = 0 => LastSent /\ LEDsUnderWay
    BY DEF LEDInv
  <1>5. OneByOne' => OneByOne
    BY <1>1 DEF OneByOne
  <1>6. OneByOne /\ Receive => /\ Under /\ ~IsEmpty(command_buffer)
                               /\ Head(port) = Queued(command_buffer, 0)
    <2> SUFFICES ASSUME OneByOne, Receive
                 PROVE  /\ Under /\ ~IsEmpty(command_buffer)
                        /\ Head(port) = Queued(command_buffer, 0)
      OBVIOUS
    <2>1. Under /\ port = <<Oldest(command_buffer, 0)>> /\ ~IsEmpty(command_buffer)
      BY <1>3 DEF Receive, Idle, Under, Accepted
    <2>2. Head(port) = Oldest(command_buffer, 0)
      BY <2>1
    <2> QED
      BY <1>3, <2>1, <2>2
  \* The bytes under way, when one is received.
  <1>7. Receive =>
            /\ LEDsSent(port, led_state) => LEDsSent(port', led_state)
            /\ LEDsSent(port, led_state) /\ NoneSent(port') /\ ~NoneSent(port) =>
                   Head(port) = SET_LEDS /\ port' # <<>> /\ port'[1] = led_state
            /\ port # <<>> /\ Head(port) = port[1]
            /\ port' = <<>> => Head(port) = port[Len(port)]
            /\ port' # <<>> => port'[Len(port')] = port[Len(port)]
            /\ Len(port) \in Nat \ {0}
    <2> SUFFICES ASSUME Receive
                 PROVE
            /\ LEDsSent(port, led_state) => LEDsSent(port', led_state)
            /\ LEDsSent(port, led_state) /\ NoneSent(port') /\ ~NoneSent(port) =>
                   Head(port) = SET_LEDS /\ port' # <<>> /\ port'[1] = led_state
            /\ port # <<>> /\ Head(port) = port[1]
            /\ port' = <<>> => Head(port) = port[Len(port)]
            /\ port' # <<>> => port'[Len(port')] = port[Len(port)]
            /\ Len(port) \in Nat \ {0}
      OBVIOUS
    <2>1. port # <<>> /\ port' = Tail(port) /\ port \in Seq(Byte)
      BY <1>3 DEF Receive
    <2> QED
      BY <2>1, LEDsReceived
  <1>8. CASE AcceptCommand
    <2>1. /\ Receive /\ Head(port) \in Commands /\ UNCHANGED noise
          /\ keyboard'.expects = Head(port) /\ keyboard'.leds = keyboard.leds
      BY <1>3, <1>8 DEF AcceptCommand
    <2>2. ASSUME OneByOne
          PROVE  LEDsOneByOne'
      <3>1. /\ Under /\ ~IsEmpty(command_buffer) /\ Head(port) = Queued(command_buffer, 0)
            /\ LEDsOneByOne
        BY <1>4, <1>6, <2>1, <2>2
      <3>2. Even(command_buffer) /\ command_buffer.count > 0
        BY <1>3, <2>1, <3>1
      <3>3. keyboard.expects = 0
        BY <1>3, <2>2, <3>1, <3>2
      <3>4. NoLEDs(command_buffer) =>
                keyboard.leds = led_state /\ Queued(command_buffer, 0) # SET_LEDS
        BY <1>3, <3>1, <3>2, <3>3 DEF LEDsOneByOne, NoLEDs
      <3> QED
        BY <1>1, <2>1, <3>1, <3>2, <3>4 DEF LEDsOneByOne
    <2>3. ASSUME noise = 0
          PROVE  LastSent' /\ LEDsUnderWay'
      <3>1. LastSent'
        <4>1. port' # <<>> => LastSent'
          BY <1>1, <1>4, <1>7, <2>1, <2>3 DEF LastSent
        <4>2. ASSUME port' = <<>>
              PROVE  LastSent'
          <5>1. command_buffer.count > 0 /\ Queued(command_buffer, 0) = Head(port)
            BY <1>3, <1>4, <1>7, <2>1, <2>3, <4>2 DEF LastSent
          <5> QED
            BY <1>1, <2>1, <4>2, <5>1 DEF LastSent
        <4> QED
          BY <4>1, <4>2
      <3>2. ASSUME NoLEDs(command_buffer), NoneSent(port')
            PROVE  IF keyboard'.expects = SET_LEDS THEN port' # <<>> /\ port'[1] = led_state
                                                   ELSE keyboard'.leds = led_state
        <4>1. LEDsSent(port, led_state)
          BY <1>4, <2>3, <3>2 DEF LEDsUnderWay
        <4>2. CASE Head(port) = SET_LEDS
          <5>1. ~NoneSent(port)
            BY <1>7, <2>1, <4>2 DEF NoneSent
          <5> QED
            BY <1>7, <2>1, <3>2, <4>1, <4>2, <5>1
        <4>3. CASE Head(port) # SET_LEDS
          <5>1. NoneSent(port)
            BY <1>7, <2>1, <3>2, <4>1, <4>3
          <5>2. port[1] # led_state
            BY <1>3, <1>7, <2>1
          <5>3. keyboard.leds = led_state
            BY <1>4, <2>3, <3>2, <5>1, <5>2 DEF LEDsUnderWay
          <5> QED
            BY <2>1, <4>3, <5>3
        <4> QED
          BY <4>2, <4>3
      <3>3. NoLEDs(command_buffer) => LEDsSent(port', led_state)
        BY <1>4, <1>7, <2>1, <2>3 DEF LEDsUnderWay
      <3> QED
        BY <1>1, <3>1, <3>2, <3>3 DEF LEDsUnderWay
    <2> QED
      BY <1>5, <2>1, <2>2, <2>3
  <1>9. CASE AcceptArgument
    <2>1. /\ Receive /\ Head(port) \notin Commands /\ UNCHANGED noise
          /\ keyboard'.expects = 0
          /\ keyboard'.leds = IF keyboard.expects = SET_LEDS THEN Head(port) % 8
                                                             ELSE keyboard.leds
      BY <1>3, <1>9 DEF AcceptArgument
    <2>0. led_state % 8 = led_state /\ keyboard'.expects # SET_LEDS
      BY <1>3, <2>1
    <2>2. ASSUME OneByOne
          PROVE  LEDsOneByOne'
      <3>1. Head(port) = Queued(command_buffer, 0) /\ LEDsOneByOne
        BY <1>4, <1>6, <2>1, <2>2
      <3>2. NoLEDs(command_buffer) => keyboard'.leds = led_state
        BY <2>0, <2>1, <3>1 DEF LEDsOneByOne
      <3> QED
        BY <1>1, <2>0, <2>1, <3>2 DEF LEDsOneByOne
    <2>3. ASSUME noise = 0
          PROVE  LastSent' /\ LEDsUnderWay'
      <3>1. LastSent'
        <4>1. port' # <<>> => LastSent'
          BY <1>1, <1>4, <1>7, <2>1, <2>3 DEF LastSent
        <4>2. ASSUME port' = <<>>
              PROVE  LastSent'
          <5>1. ~(command_buffer.count > 0 /\ Queued(command_buffer, 0) \in Commands)
            BY <1>4, <1>7, <2>1, <2>3, <4>2 DEF LastSent
          <5> QED
            BY <1>1, <2>1, <4>2, <5>1 DEF LastSent
        <4> QED
          BY <4>1, <4>2
      <3>2. ASSUME NoLEDs(command_buffer), NoneSent(port')
            PROVE  keyboard'.leds = led_state
        <4>1. LEDsSent(port, led_state)
          BY <1>4, <2>3, <3>2 DEF LEDsUnderWay
        <4>2. NoneSent(port)
          BY <1>3, <1>7, <2>1, <3>2, <4>1
        <4> QED
          BY <1>4, <1>7, <2>0, <2>1, <2>3, <3>2, <4>2 DEF LEDsUnderWay
      <3>3. NoLEDs(command_buffer) => LEDsSent(port', led_state)
        BY <1>4, <1>7, <2>1, <2>3 DEF LEDsUnderWay
      <3> QED
        BY <1>1, <2>0, <3>1, <3>2, <3>3 DEF LEDsUnderWay
    <2> QED
      BY <1>5, <2>1, <2>2, <2>3
  <1>10. CASE RefuseArgument
    <2>1. /\ Receive /\ Head(port) \notin Commands /\ keyboard.expects = 0
          /\ UNCHANGED <<keyboard, noise>>
      BY <1>10 DEF RefuseArgument
    <2>2. ASSUME OneByOne
          PROVE  LEDsOneByOne'
      BY <1>1, <1>4, <2>1, <2>2 DEF LEDsOneByOne
    <2>3. ASSUME noise = 0
          PROVE  LastSent' /\ LEDsUnderWay'
      <3>1. LastSent'
        <4>1. port' # <<>> => LastSent'
          BY <1>1, <1>4, <1>7, <2>1, <2>3 DEF LastSent
        <4>2. ASSUME port' = <<>>
              PROVE  LastSent'
          <5>1. ~(command_buffer.count > 0 /\ Queued(command_buffer, 0) \in Commands)
            BY <1>4, <1>7, <2>1, <2>3, <4>2 DEF LastSent
          <5> QED
            BY <1>1, <2>1, <4>2, <5>1 DEF LastSent
        <4> QED
          BY <4>1, <4>2
      <3>2. ASSUME NoLEDs(command_buffer), NoneSent(port')
            PROVE  keyboard.leds = led_state /\ keyboard.expects # SET_LEDS
        <4>1. LEDsSent(port, led_state)
          BY <1>4, <2>3, <3>2 DEF LEDsUnderWay
        <4>2. NoneSent(port)
          BY <1>3, <1>7, <2>1, <3>2, <4>1
        <4>3. keyboard.expects # SET_LEDS
          BY <1>3, <2>1
        <4> QED
          BY <1>4, <2>3, <3>2, <4>2, <4>3 DEF LEDsUnderWay
      <3>3. NoLEDs(command_buffer) => LEDsSent(port', led_state)
        BY <1>4, <1>7, <2>1, <2>3 DEF LEDsUnderWay
      <3> QED
        BY <1>1, <2>1, <3>1, <3>2, <3>3 DEF LEDsUnderWay
    <2> QED
      BY <1>5, <2>1, <2>2, <2>3
  <1>11. CASE RefuseDamaged
    <2>1. noise' # 0 /\ UNCHANGED keyboard
      BY <1>11 DEF RefuseDamaged, LEDInv
    <2> QED
      BY <1>1, <1>4, <1>5, <2>1 DEF LEDsOneByOne
  <1>12. CASE \E scancode \in Lock \cup Key \cup {ShiftPressed, ShiftReleased} : Press(scancode)
    <2>1. UNCHANGED <<port, keyboard, noise>>
      BY <1>12 DEF Press
    <2> QED
      BY <1>1, <1>4, <1>5, <2>1 DEF LEDsOneByOne, LastSent, LEDsUnderWay
  <1> QED
    BY <1>8, <1>9, <1>10, <1>11, <1>12 DEF Device

\* The handler queues the LEDs, sends the next byte, or the same again.
LEMMA HandlerLEDs == LEDInv /\ Handler => LEDInv'
  <1> SUFFICES ASSUME LEDInv, Handler PROVE LEDInv'
    OBVIOUS
  <1> DEFINE q == command_buffer
  <1>1. CommandInv' /\ UNCHANGED <<keyboard, noise>> /\ noise \in Nat
    <2>1. CommandInv'
      BY HandlerConverses DEF LEDInv
    <2>2. UNCHANGED <<keyboard, noise>>
      BY DEF Handler, OnLock, OnResend, GiveUp, OnAck, OnShift, OnKey, Reads
    <2> QED
      BY <2>1, <2>2 DEF LEDInv
  <1>2. (Kept' => Kept) /\ (OneByOne' => OneByOne)
    BY FaultsAreKept DEF Next
  <1> SUFFICES ASSUME Kept', Kept
               PROVE  /\ Alternates(command_buffer') /\ LEDsQueued(command_buffer', led_state')
                      /\ OneByOne' => LEDsOneByOne'
                      /\ noise = 0 => LastSent' /\ LEDsUnderWay'
    BY <1>1, <1>2 DEF LEDInv
  <1>3. /\ KEYBOARD_COMMAND_BUFFER_SIZE \in Nat \ {0}
        /\ q \in Buffer(KEYBOARD_COMMAND_BUFFER_SIZE, Byte)
        /\ RingClosed(q) /\ Alternates(q) /\ LEDsQueued(q, led_state)
        /\ q.count \in Nat
        /\ IsEmpty(q) <=> ~(q.count > 0)
        /\ IsEmpty(q) => Oldest(q, 0) = 0
        /\ ~IsEmpty(q) => /\ Oldest(q, 0) = Queued(q, 0)
                          /\ IF Even(q) THEN Queued(q, 0) \in Commands
                                        ELSE Queued(q, 0) \in Argument
        /\ led_state \in 0 .. 7 /\ led_state \in Argument /\ led_state # SET_LEDS
        /\ port \in Seq(Byte) /\ keyboard \in [leds : 0 .. 7, expects : {0} \cup Commands]
        /\ SET_LEDS \in Commands /\ SET_LEDS \notin Argument /\ 0 \notin Commands
        /\ Commands \cap Argument = {} /\ SET_LEDS \in Byte
        /\ OneByOne => /\ Idle \/ Under \/ Accepted
                       /\ (Idle \/ (Under /\ Even(q))) => keyboard.expects = 0
    BY LEDFacts
  <1>4. /\ OneByOne => LEDsOneByOne
        /\ noise = 0 => LastSent /\ LEDsUnderWay
    BY DEF LEDInv
  <1>5. Commands \subseteq Byte /\ Argument \subseteq Byte /\ 0 \in Argument
    BY ByteFacts, ByteKinds, KeyboardConstants DEF Argument
  \* A byte is sent that is no command for the LEDs.
  <1>6. ASSUME NEW b \in Byte, b # SET_LEDS, port' = Append(port, b)
        PROVE  /\ port' # <<>> /\ port'[Len(port')] = b
               /\ port # <<>> => port'[1] = port[1]
               /\ port = <<>> => port'[1] = b
               /\ NoneSent(port') <=> NoneSent(port)
               /\ LEDsSent(port, led_state) => LEDsSent(port', led_state)
               /\ port # <<>> /\ port[Len(port)] = SET_LEDS => LEDsSent(port', b)
    BY <1>3, <1>6, LEDsAppended
  <1>7. ASSUME NEW b \in Byte, port' = Append(port, b)
        PROVE  port' # <<>> /\ port'[Len(port')] = b
    BY <1>3, <1>7
  \* The queue keeps having no command for the LEDs.
  <1>8. ASSUME noise = 0, NoLEDs(q), UNCHANGED led_state,
               \/ UNCHANGED port
               \/ \E b \in Byte : b # SET_LEDS /\ port' = Append(port, b)
        PROVE  /\ LEDsSent(port', led_state')
               /\ NoneSent(port') => IF keyboard'.expects = SET_LEDS
                                     THEN port' # <<>> /\ port'[1] = led_state'
                                     ELSE keyboard'.leds = led_state'
    <2>1. /\ LEDsSent(port, led_state)
          /\ NoneSent(port) => IF keyboard.expects = SET_LEDS
                               THEN port # <<>> /\ port[1] = led_state
                               ELSE keyboard.leds = led_state
      BY <1>4, <1>8 DEF LEDsUnderWay
    <2>2. CASE UNCHANGED port
      BY <1>1, <1>8, <2>1, <2>2
    <2>3. CASE \E b \in Byte : b # SET_LEDS /\ port' = Append(port, b)
      <3>1. /\ port' # <<>>
            /\ port # <<>> => port'[1] = port[1]
            /\ NoneSent(port') <=> NoneSent(port)
            /\ LEDsSent(port, led_state) => LEDsSent(port', led_state)
        BY <1>6, <2>3
      <3> QED
        BY <1>1, <1>8, <2>1, <3>1
    <2> QED
      BY <1>8, <2>2, <2>3
  <1>9. CASE \E lock \in Lock : OnLock(lock)
    <2>1. PICK lock \in Lock : OnLock(lock)
      BY <1>9
    <2>2. /\ q' = Enqueue(Enqueue(q, SET_LEDS), led_state')
          /\ port' = Append(port, Oldest(q', 0))
          /\ faults' = faults
               \cup (IF q.count + 2 > q.size THEN {"overrun"} ELSE {})
               \cup (IF Unanswered THEN {"overlap"} ELSE {})
      BY <2>1 DEF OnLock, PutWithArg, Send
    <2>3. q.count + 2 <= KEYBOARD_COMMAND_BUFFER_SIZE
      <3>1. ~(q.count + 2 > q.size)
        <4>1. "overrun" \notin faults'
          BY DEF Kept
        <4> QED
          BY <2>2, <4>1
      <3>2. q.size = KEYBOARD_COMMAND_BUFFER_SIZE
        BY <1>3 DEF Buffer
      <3> QED
        BY <1>3, <3>1, <3>2
    <2>4. led_state' \in 0 .. 7 /\ led_state' \in Argument /\ led_state' \in Byte
          /\ led_state' # SET_LEDS /\ q' \in Buffer(KEYBOARD_COMMAND_BUFFER_SIZE, Byte)
      <3>1. led_state' \in 0 .. 7 /\ q' \in Buffer(KEYBOARD_COMMAND_BUFFER_SIZE, Byte)
        BY <1>1 DEF CommandInv, TypeOK
      <3>2. 0 .. 7 \subseteq Argument
        BY ByteKinds, KeyboardConstants
      <3> QED
        BY <1>3, <1>5, <3>1, <3>2
    <2> HIDE DEF q
    <2>5. Alternates(q')
      BY <1>3, <2>2, <2>3, <2>4, PutWithArgAlternates
    <2>6. /\ q'.count = q.count + 2
          /\ ~NoLEDs(q') /\ LEDsQueued(q', led_state')
          /\ q.count > 0 => Queued(q', 0) = Queued(q, 0)
      BY <1>3, <2>2, <2>3, <2>4, LEDsPut
    <2>7. q'.count > 0 /\ Oldest(q', 0) = Queued(q', 0) /\ Queued(q', 0) \in Byte
      <3>1. q'.count > 0 /\ ~IsEmpty(q')
        BY <1>3, <2>6 DEF IsEmpty
      <3>2. RingClosed(q')
        BY <1>1 DEF CommandInv, q
      <3>3. Oldest(q', 0) = Queued(q', 0)
        BY <1>3, <2>4, <3>1, <3>2, DequeueTakesFirst
      <3>4. Oldest(q', 0) \in Byte
        <4>1. 0 \in Byte
          BY <1>5
        <4> QED
          BY <1>3, <2>4, <4>1, BufferOperations
      <3> QED
        BY <3>1, <3>3, <3>4
    <2>8. ASSUME OneByOne
          PROVE  LEDsOneByOne'
      <3>1. Even(q') <=> Even(q)
        BY <1>3, <2>6 DEF Even
      <3>2. Even(q) /\ keyboard.expects # 0 => q.count > 0 /\ keyboard.expects = Queued(q, 0)
        BY <1>4, <2>8 DEF LEDsOneByOne, q
      <3>3. Even(q') /\ keyboard'.expects # 0 =>
                q'.count > 0 /\ keyboard'.expects = Queued(q', 0)
        BY <1>1, <2>6, <2>7, <3>1, <3>2
      <3> QED
        BY <2>6, <3>3 DEF LEDsOneByOne, q
    <2>9. LastSent'
      <3>1. port' # <<>> /\ port'[Len(port')] = Queued(q', 0)
        BY <1>7, <2>2, <2>7
      <3> QED
        BY <2>7, <3>1 DEF LastSent, q
    <2>10. LEDsUnderWay'
      BY <2>6 DEF LEDsUnderWay, q
    <2> QED
      BY <1>2, <2>5, <2>6, <2>8, <2>9, <2>10 DEF q
  <1>10. CASE OnResend
    <2>1. UNCHANGED <<command_buffer, led_state, faults>> /\ port' = Append(port, Oldest(q, 0))
      BY <1>10 DEF OnResend, Send
    <2>2. ASSUME OneByOne
          PROVE  LEDsOneByOne'
      BY <1>1, <1>4, <2>1, <2>2 DEF LEDsOneByOne
    <2>3. Oldest(q, 0) \in Byte
      BY <1>3, <1>5
    <2>4. LastSent'
      <3>1. port' # <<>> /\ port'[Len(port')] = Oldest(q, 0)
        BY <1>7, <2>1, <2>3
      <3> QED
        BY <1>3, <1>5, <2>1, <3>1 DEF LastSent
    <2>5. ASSUME noise = 0
          PROVE  LEDsUnderWay'
      <3>1. NoLEDs(q) => Oldest(q, 0) # SET_LEDS
        BY <1>3, <1>5 DEF NoLEDs
      <3> QED
        BY <1>8, <2>1, <2>3, <2>5, <3>1 DEF LEDsUnderWay
    <2> QED
      BY <1>2, <1>3, <2>1, <2>2, <2>4, <2>5
  <1>11. CASE GiveUp
    <2>1. /\ UNCHANGED <<led_state, port>> /\ q' = Dropped
          /\ faults' = faults \cup (IF IsEmpty(q) THEN {} ELSE {"given up"})
      BY <1>11 DEF GiveUp
    <2>2. IsEmpty(q)
      BY <2>1, Zenon DEF Kept
    <2>3. UNCHANGED <<command_buffer, led_state, port>>
      BY <2>1, <2>2 DEF Dropped, Dequeue
    <2> QED
      BY <1>1, <1>2, <1>3, <1>4, <2>3 DEF LEDsOneByOne, LastSent, LEDsUnderWay
  <1>12. CASE OnAck
    <2>1. /\ Reads(ACK) /\ UNCHANGED <<led_state, faults>> /\ q' = Dequeue(q)
          /\ IF q'.count > 0 THEN port' = Append(port, Oldest(q', 0)) ELSE port' = port
      BY <1>12 DEF OnAck, Send
    <2>2. CASE IsEmpty(q)
      <3>1. UNCHANGED <<command_buffer, led_state, port>>
        BY <1>3, <2>1, <2>2 DEF Dequeue
      <3> QED
        BY <1>1, <1>2, <1>3, <1>4, <3>1 DEF LEDsOneByOne, LastSent, LEDsUnderWay
    <2>3. CASE ~IsEmpty(q)
      <3> HIDE DEF q
      <3>1. /\ q'.count = q.count - 1 /\ Alternates(q') /\ q.count \in Nat \ {0}
        BY <1>3, <2>1, <2>3, DequeueAlternates
      <3>2. \A i \in 0 .. q.count - 2 : Queued(q', i) = Queued(q, i + 1)
        BY <1>3, <2>1, <2>3, DequeueTakesFirst
      <3>3. /\ LEDsQueued(q', led_state)
            /\ NoLEDs(q') /\ ~NoLEDs(q) => /\ Queued(q, 0) = SET_LEDS
                                           /\ q'.count > 0 /\ Queued(q', 0) = led_state
        BY <1>3, <2>1, <2>3, LEDsTaken
      <3>4. q'.count > 0 => Oldest(q', 0) = Queued(q', 0) /\ Queued(q', 0) \in Byte
        <4> SUFFICES ASSUME q'.count > 0
                     PROVE  Oldest(q', 0) = Queued(q', 0) /\ Queued(q', 0) \in Byte
          OBVIOUS
        <4>1. q' \in Buffer(KEYBOARD_COMMAND_BUFFER_SIZE, Byte) /\ RingClosed(q')
          BY <1>1 DEF CommandInv, TypeOK, q
        <4>2. ~IsEmpty(q')
          BY DEF IsEmpty
        <4>3. Oldest(q', 0) = Queued(q', 0)
          BY <1>3, <4>1, <4>2, DequeueTakesFirst
        <4>4. 0 \in Byte
          BY <1>5
        <4>5. Oldest(q', 0) \in Byte
          BY <1>3, <4>1, <4>4, BufferOperations
        <4> QED
          BY <4>3, <4>5
      <3>5. ASSUME OneByOne
            PROVE  LEDsOneByOne'
        <4>1. Accepted
          <5>1. line # <<>> /\ Head(line) = ACK /\ line \in Seq(Byte)
            BY <2>1 DEF Reads, LEDInv, CommandInv, TypeOK
          <5>2. ~NoAnswer(line) /\ ~OneAnswer(line, RESEND)
            <6>1. ACK \in Answers /\ RESEND \in Answers /\ ACK # RESEND
              BY ByteKinds, KeyboardConstants DEF Answers
            <6> QED
              BY <5>1, <6>1, ByteRead
          <5> QED
            BY <1>3, <3>5, <5>2 DEF Idle, Under
        <4>2. keyboard.expects # 0 <=> Even(q)
          BY <4>1 DEF Accepted, q
        <4>3. Even(q) => keyboard.expects = Queued(q, 0)
          BY <1>4, <3>5, <4>2 DEF LEDsOneByOne, q
        <4>4. Even(q') => keyboard.expects = 0
          BY <3>1, <4>2 DEF Even
        <4>5. ASSUME NoLEDs(q')
              PROVE  IF keyboard.expects = SET_LEDS
                     THEN q'.count > 0 /\ Queued(q', 0) = led_state
                     ELSE keyboard.leds = led_state
          <5>1. CASE NoLEDs(q)
            <6>1. Queued(q, 0) # SET_LEDS
              BY <3>1, <5>1 DEF NoLEDs
            <6>2. keyboard.expects # SET_LEDS
              BY <1>3, <4>2, <4>3, <6>1
            <6> QED
              BY <1>4, <3>5, <5>1, <6>2 DEF LEDsOneByOne, q
          <5>2. CASE ~NoLEDs(q)
            <6>1. Queued(q, 0) = SET_LEDS /\ q'.count > 0 /\ Queued(q', 0) = led_state
              BY <3>3, <4>5, <5>2
            <6>2. Even(q)
              BY <1>3, <2>3, <6>1
            <6> QED
              BY <4>3, <6>1, <6>2
          <5> QED
            BY <5>1, <5>2
        <4> QED
          BY <1>1, <2>1, <4>4, <4>5 DEF LEDsOneByOne, q
      <3>6. ASSUME noise = 0
            PROVE  LastSent'
        <4>1. CASE q'.count > 0
          <5>1. port' # <<>> /\ port'[Len(port')] = Queued(q', 0)
            BY <1>7, <2>1, <3>4, <4>1
          <5> QED
            BY <4>1, <5>1 DEF LastSent, q
        <4>2. CASE ~(q'.count > 0)
          <5>1. q.count = 1 /\ ~Even(q)
            BY <3>1, <4>2 DEF Even
          <5>2. Queued(q, 0) \in Argument /\ q.count > 0
            BY <1>3, <2>3, <5>1
          <5>3. UNCHANGED port
            BY <2>1, <4>2
          <5>4. /\ port = <<>> => keyboard.expects = 0
                /\ port # <<>> => port[Len(port)] \in Argument
            BY <1>3, <1>4, <3>6, <5>2 DEF LastSent, q
          <5> QED
            BY <1>1, <4>2, <5>3, <5>4 DEF LastSent, q
        <4> QED
          BY <4>1, <4>2
      <3>7. ASSUME noise = 0, NoLEDs(q')
            PROVE  /\ LEDsSent(port', led_state')
                   /\ NoneSent(port') => IF keyboard'.expects = SET_LEDS
                                         THEN port' # <<>> /\ port'[1] = led_state'
                                         ELSE keyboard'.leds = led_state'
        <4>1. CASE NoLEDs(q)
          <5>1. UNCHANGED port \/ \E b \in Byte : b # SET_LEDS /\ port' = Append(port, b)
            <6>1. q'.count > 0 => Queued(q', 0) # SET_LEDS
              BY <3>1, <3>7 DEF NoLEDs
            <6> QED
              BY <2>1, <3>4, <6>1
          <5> QED
            BY <1>8, <2>1, <3>7, <4>1, <5>1
        <4>2. CASE ~NoLEDs(q)
          <5>1. Queued(q, 0) = SET_LEDS /\ q'.count > 0 /\ Queued(q', 0) = led_state
            BY <3>3, <3>7, <4>2
          <5>2. port' = Append(port, led_state) /\ led_state \in Byte
            BY <1>3, <1>5, <2>1, <3>4, <5>1
          <5>3. /\ port' # <<>>
                /\ port = <<>> => port'[1] = led_state
                /\ NoneSent(port') <=> NoneSent(port)
                /\ LEDsSent(port, led_state) => LEDsSent(port', led_state)
                /\ port # <<>> /\ port[Len(port)] = SET_LEDS => LEDsSent(port', led_state)
            BY <1>3, <1>6, <5>2
          <5>4. CASE port = <<>>
            <6>1. keyboard.expects = SET_LEDS
              BY <1>3, <1>4, <2>3, <3>7, <5>1, <5>4 DEF LastSent, q
            <6>2. LEDsSent(port, led_state)
              BY <5>4 DEF LEDsSent
            <6> QED
              BY <1>1, <2>1, <5>3, <5>4, <6>1, <6>2
          <5>5. CASE port # <<>>
            <6>1. port[Len(port)] = SET_LEDS
              BY <1>3, <1>4, <2>3, <3>7, <5>1, <5>5 DEF LastSent, q
            <6>2. ~NoneSent(port)
              <7>1. Len(port) \in 1 .. Len(port)
                BY <1>3, <5>5
              <7> QED
                BY <6>1, <7>1 DEF NoneSent
            <6> QED
              BY <2>1, <5>3, <5>5, <6>1, <6>2
          <5> QED
            BY <5>4, <5>5
        <4> QED
          BY <4>1, <4>2
      <3>8. noise = 0 => LEDsUnderWay'
        BY <3>7 DEF LEDsUnderWay, q
      <3> QED
        BY <1>2, <2>1, <3>1, <3>3, <3>5, <3>6, <3>8 DEF q
    <2> QED
      BY <2>2, <2>3
  <1>13. CASE OnShift \/ \E k \in Key : OnKey(k)
    <2>1. UNCHANGED <<command_buffer, led_state, faults, port>>
      BY <1>13 DEF OnShift, OnKey
    <2> QED
      BY <1>1, <1>2, <1>3, <1>4, <2>1 DEF LEDsOneByOne, LastSent, LEDsUnderWay
  <1> QED
    BY <1>9, <1>10, <1>11, <1>12, <1>13 DEF Handler

\* When nothing is under way or queued the LEDs show the locks, for every size
\* of the queue and any number of keys and damaged bytes, unless both come, a
\* byte did not fit or a command was given up (keyboard.c lines 155-197).
THEOREM LEDsShowTheLocks == Spec => []LEDsFollowTheLocks
  <1>1. LEDInv /\ [Next]_vars => LEDInv'
    <2> SUFFICES ASSUME LEDInv, [Next]_vars PROVE LEDInv'
      OBVIOUS
    <2>1. CASE UNCHANGED vars \/ \E r \in Reader : Getch(r)
      <3>1. UNCHANGED <<command_buffer, led_state, faults, port, line, keyboard, noise>>
        BY <2>1 DEF Getch, FindReady, FindEmpty, GetChar, vars, driverVars, deviceVars
      <3>2. TypeOK'
        BY <2>1, GetchKeepsTypes
           DEF LEDInv, CommandInv, TypeOK, vars, driverVars, deviceVars
      <3>3. CommandInv'
        BY <3>1, <3>2 DEF LEDInv, CommandInv, Untroubled, Idle, Under, Accepted, Expected
      <3> QED
        BY <3>1, <3>3 DEF LEDInv, Kept, OneByOne, LEDsOneByOne, LastSent, LEDsUnderWay
    <2>2. CASE \E r \in Reader : Misled(r)
      <3>1. /\ TypeOK' /\ faults' = faults \cup {"misled"}
            /\ UNCHANGED <<command_buffer, led_state, port, line, keyboard, noise>>
        BY <2>2, MisledKeepsTypes DEF LEDInv, CommandInv
      <3>2. (Untroubled' => Untroubled) /\ (Expected => Expected')
        BY <3>1, Zenon DEF Untroubled, Expected
      <3>3. CommandInv'
        BY <3>1, <3>2 DEF LEDInv, CommandInv, Idle, Under, Accepted
      <3>4. (Kept' => Kept) /\ (OneByOne' => OneByOne)
        BY FaultsAreKept
      <3> QED
        BY <3>1, <3>3, <3>4 DEF LEDInv, LEDsOneByOne, LastSent, LEDsUnderWay
    <2> QED
      BY <2>1, <2>2, DeviceLEDs, HandlerLEDs DEF Next
  <1>2. LEDInv => LEDsFollowTheLocks
    <2>0. faults \cap {"overrun", "given up"} = {} => Kept
      <3>1. ASSUME faults \cap {"overrun", "given up"} = {}, NEW f \in faults
            PROVE  f \notin {"overrun", "given up"}
        BY <3>1, Zenon
      <3> QED
        BY <3>1, Zenon DEF Kept
    <2> SUFFICES ASSUME LEDInv, Quiet, IsEmpty(command_buffer), Kept, noise = 0 \/ OneByOne
                 PROVE  keyboard.leds = led_state
      BY <2>0, Zenon DEF LEDsFollowTheLocks, OneByOne
    <2>2. port = <<>> /\ command_buffer.count = 0 /\ NoLEDs(command_buffer)
      BY DEF Quiet, IsEmpty, NoLEDs
    <2>3. NoneSent(port)
      BY <2>2 DEF NoneSent
    <2>4. CASE noise = 0
      <3>1. LastSent /\ LEDsUnderWay
        BY <2>4 DEF LEDInv
      <3>2. keyboard.expects # SET_LEDS
        BY <2>2, <3>1 DEF LastSent, SET_LEDS
      <3> QED
        BY <2>2, <2>3, <3>1, <3>2 DEF LEDsUnderWay
    <2>5. CASE OneByOne
      <3>1. LEDsOneByOne
        BY <2>5 DEF LEDInv
      <3> QED
        BY <2>2, <3>1 DEF LEDsOneByOne
    <2> QED
      BY <2>4, <2>5
  <1> QED
    BY <1>1, <1>2, InitLEDs, PTL DEF Spec
-----------------------------------------------------------------------------
(* The cyclic buffer of CyclicBuffer.tla. *)

\* Stepping an index of a ring of n slots, as every operation does, wraps it
\* to 0 after the last slot.
LEMMA NextIndexWraps ==
    ASSUME NEW n \in Nat \ {0}, NEW i \in -1 .. n - 1
    PROVE  /\ NextIndex(i, n) \in 0 .. n - 1
           /\ NextIndex(i, n) = IF i = n - 1 THEN 0 ELSE i + 1
  BY DEF NextIndex

\* A position at most one turn ahead of the ring's start wraps by
\* subtracting the size once.
LEMMA WrapOnce ==
    ASSUME NEW n \in Nat \ {0}, NEW k \in 0 .. 2 * n - 1
    PROVE  k % n = IF k < n THEN k ELSE k - n
  <1>1. CASE k < n
    BY <1>1
  <1>2. CASE k >= n
    <2>1. k = n * 1 + (k - n) /\ k - n \in 0 .. n - 1
      BY <1>2
    <2> QED
      BY <2>1
  <1> QED
    BY <1>1, <1>2
\* The slot `count` places after the front follows an enqueue, and stays
\* where it is when a dequeue moves the front.
LEMMA RingArithmetic ==
    ASSUME NEW n \in Nat \ {0}, NEW f \in 0 .. n - 1, NEW c \in 0 .. n
    PROVE  /\ (f + c) % n = IF f + c < n THEN f + c ELSE f + c - n
           /\ c < n => NextIndex((f + c) % n, n) = (f + (c + 1)) % n
           /\ c > 0 => (NextIndex(f, n) + (c - 1)) % n = (f + c) % n
  <1>1. \A k \in 0 .. 2 * n - 1 : k % n = IF k < n THEN k ELSE k - n
    BY WrapOnce
  <1>2. (f + c) % n = IF f + c < n THEN f + c ELSE f + c - n
    <2> DEFINE k == f + c
    <2>1. k \in 0 .. 2 * n - 1
      OBVIOUS
    <2> HIDE DEF k
    <2>2. k % n = IF k < n THEN k ELSE k - n
      BY <1>1, <2>1, Zenon
    <2> QED
      BY <2>2 DEF k
  <1>3. ASSUME c < n
        PROVE  NextIndex((f + c) % n, n) = (f + (c + 1)) % n
    <2> DEFINE s == (f + c) % n
    <2>1. s \in 0 .. n - 1
      BY <1>2, <1>3
    <2>2. NextIndex(s, n) = IF s = n - 1 THEN 0 ELSE s + 1
      BY <2>1, NextIndexWraps
    <2> DEFINE k == f + (c + 1)
    <2>3. k \in 0 .. 2 * n - 1
      BY <1>3
    <2>4. s = IF f + c < n THEN f + c ELSE f + c - n
      BY <1>2
    <2> HIDE DEF k, s
    <2>5. k % n = IF k < n THEN k ELSE k - n
      BY <1>1, <2>3, Zenon
    <2>6. NextIndex(s, n) = (f + (c + 1)) % n
      BY <1>3, <2>1, <2>2, <2>4, <2>5 DEF k
    <2> QED
      BY <2>6 DEF s
  <1>4. ASSUME c > 0
        PROVE  (NextIndex(f, n) + (c - 1)) % n = (f + c) % n
    <2> DEFINE g == NextIndex(f, n)
               k == g + (c - 1)
    <2>1. g \in 0 .. n - 1 /\ g = IF f = n - 1 THEN 0 ELSE f + 1
      BY NextIndexWraps
    <2> HIDE DEF g
    <2>2. k \in 0 .. 2 * n - 1
      BY <1>4, <2>1
    <2> HIDE DEF k
    <2>3. k % n = IF k < n THEN k ELSE k - n
      BY <1>1, <2>2, Zenon
    <2>4. (g + (c - 1)) % n = (f + c) % n
      BY <1>2, <1>4, <2>1, <2>3 DEF k
    <2> QED
      BY <2>4 DEF g
  <1> QED
    BY <1>2, <1>3, <1>4

-----------------------------------------------------------------------------
BufferInv == BufferTypeOK /\ IndexesAgree

\* What an enqueue on a buffer that is not full does to each field.
LEMMA EnqueueFields ==
    ASSUME SizeAssumption, BufferInv, ~IsFull(buffer), NEW v \in Value
    PROVE  LET b == Enqueue(buffer, v)
               s == NextIndex(buffer.rear, Size)
           IN  /\ s \in 0 .. Size - 1
               /\ b \in Buffer(Size, Value)
               /\ b.front = buffer.front
               /\ b.rear = s
               /\ b.count = buffer.count + 1
               /\ b.data = [buffer.data EXCEPT ![s] = v]
  <1> DEFINE s == NextIndex(buffer.rear, Size)
  <1>1. /\ buffer \in Buffer(Size, Value)
        /\ buffer.size = Size /\ buffer.count \in 0 .. Size
        /\ buffer.front \in 0 .. Size - 1 /\ buffer.rear \in -1 .. Size - 1
        /\ buffer.data \in [0 .. Size - 1 -> Value]
    BY DEF BufferInv, BufferTypeOK, Buffer
  <1>2. s \in 0 .. Size - 1
    BY <1>1, NextIndexWraps DEF SizeAssumption
  <1>3. buffer.count + 1 \in 0 .. Size
    BY <1>1 DEF IsFull, SizeAssumption
  <1>4. [buffer.data EXCEPT ![s] = v] \in [0 .. Size - 1 -> Value]
    BY <1>1, <1>2
  <1>5. Enqueue(buffer, v) = [buffer EXCEPT !.rear = s, !.data[s] = v, !.count = @ + 1]
    BY <1>1 DEF Enqueue
  <1>6. Enqueue(buffer, v) =
            [data |-> [buffer.data EXCEPT ![s] = v], size |-> Size,
             front |-> buffer.front, rear |-> s, count |-> buffer.count + 1]
    BY <1>1, <1>5 DEF Buffer
  <1> QED
    BY <1>1, <1>2, <1>3, <1>4, <1>6 DEF Buffer

\* What a dequeue of a buffer that is not empty does to each field.
LEMMA DequeueFields ==
    ASSUME SizeAssumption, BufferInv, ~IsEmpty(buffer)
    PROVE  LET b == Dequeue(buffer)
           IN  /\ b \in Buffer(Size, Value)
               /\ b.front = NextIndex(buffer.front, Size)
               /\ b.rear = buffer.rear
               /\ b.count = buffer.count - 1
               /\ b.data = buffer.data
  <1>1. /\ buffer \in Buffer(Size, Value)
        /\ buffer.size = Size /\ buffer.count \in 1 .. Size
        /\ buffer.front \in 0 .. Size - 1
    BY DEF BufferInv, BufferTypeOK, Buffer, IsEmpty
  <1>2. NextIndex(buffer.front, Size) \in 0 .. Size - 1
    BY <1>1, NextIndexWraps DEF SizeAssumption
  <1>3. buffer.count - 1 \in 0 .. Size
    BY <1>1 DEF SizeAssumption
  <1>4. Dequeue(buffer) = [buffer EXCEPT !.front = NextIndex(buffer.front, Size), !.count = buffer.count - 1]
    BY <1>1 DEF Dequeue
  <1> QED
    BY <1>1, <1>2, <1>3, <1>4 DEF Buffer
-----------------------------------------------------------------------------
LEMMA BufferInitInductive == SizeAssumption /\ BufferInit => BufferInv
  <1> SUFFICES ASSUME SizeAssumption, BufferInit
               PROVE  BufferInv
    OBVIOUS
  <1>1. PICK garbage \in [0 .. Size - 1 -> Value] : buffer = NewBuffer(Size, garbage)
    BY DEF BufferInit
  <1>2. buffer \in Buffer(Size, Value)
    BY <1>1 DEF NewBuffer, Buffer, SizeAssumption
  <1>3. NextIndex(-1, Size) = 0 /\ (0 + 0) % Size = 0
    BY WrapOnce DEF NextIndex, SizeAssumption
  <1> QED
    BY <1>1, <1>2, <1>3 DEF BufferInv, BufferTypeOK, IndexesAgree, NewBuffer, BufferInit

LEMMA BufferNextInductive == SizeAssumption /\ BufferInv /\ [BufferNext]_bufferVars => BufferInv'
  <1> SUFFICES ASSUME SizeAssumption, BufferInv, [BufferNext]_bufferVars
               PROVE  BufferInv'
    OBVIOUS
  <1> USE DEF SizeAssumption
  <1>1. /\ buffer.size = Size /\ buffer.count \in 0 .. Size
        /\ buffer.front \in 0 .. Size - 1 /\ buffer.rear \in -1 .. Size - 1
        /\ NextIndex(buffer.rear, Size) = (buffer.front + buffer.count) % Size
    BY DEF BufferInv, BufferTypeOK, IndexesAgree, Buffer
  <1>2. ASSUME NEW v \in Value, CallEnqueue(v)
        PROVE  BufferInv'
    <2>1. CASE IsFull(buffer)
      BY <1>2, <2>1 DEF CallEnqueue, Enqueue, BufferInv, BufferTypeOK, IndexesAgree
    <2>2. CASE ~IsFull(buffer)
      <3> DEFINE s == NextIndex(buffer.rear, Size)
      <3>1. /\ buffer' \in Buffer(Size, Value)
            /\ s \in 0 .. Size - 1
            /\ buffer'.front = buffer.front /\ buffer'.rear = s
            /\ buffer'.count = buffer.count + 1
        BY <1>2, <2>2, EnqueueFields DEF CallEnqueue
      <3>2. buffer.count + 1 \in 1 .. Size
        BY <1>1, <2>2 DEF IsFull
      <3>3. NextIndex(s, Size) = (buffer.front + (buffer.count + 1)) % Size
        <4>1. /\ buffer.count < Size /\ s = (buffer.front + buffer.count) % Size
          BY <1>1, <3>2
        <4> HIDE DEF s
        <4> QED
          BY <1>1, <4>1, RingArithmetic, Zenon
      <3> HIDE DEF s
      <3>4. IndexesAgree'
        BY <3>1, <3>3 DEF IndexesAgree
      <3> QED
        BY <1>2, <3>1, <3>4 DEF BufferInv, BufferTypeOK, CallEnqueue
    <2> QED
      BY <2>1, <2>2
  <1>3. ASSUME CallDequeue
        PROVE  BufferInv'
    <2>1. CASE IsEmpty(buffer)
      BY <1>3, <2>1 DEF CallDequeue, Dequeue, Oldest, BufferInv, BufferTypeOK, IndexesAgree
    <2>2. CASE ~IsEmpty(buffer)
      <3>1. /\ buffer' \in Buffer(Size, Value)
            /\ buffer'.front = NextIndex(buffer.front, Size)
            /\ buffer'.rear = buffer.rear /\ buffer'.count = buffer.count - 1
        BY <1>3, <2>2, DequeueFields DEF CallDequeue
      <3>2. buffer.count \in 1 .. Size
        BY <1>1, <2>2 DEF IsEmpty
      <3>4. (NextIndex(buffer.front, Size) + (buffer.count - 1)) % Size
              = (buffer.front + buffer.count) % Size
        BY <1>1, <3>2, RingArithmetic
      <3>5. IndexesAgree'
        BY <1>1, <3>1, <3>4 DEF IndexesAgree
      <3>6. Oldest(buffer, value) \in Value
        BY DEF Oldest, BufferInv, BufferTypeOK, Buffer
      <3> QED
        BY <1>3, <3>1, <3>5, <3>6 DEF BufferInv, BufferTypeOK, CallDequeue
    <2> QED
      BY <2>1, <2>2
  <1>4. ASSUME CallRead
        PROVE  BufferInv'
    <2>1. Oldest(buffer, value) \in Value
      BY DEF Oldest, BufferInv, BufferTypeOK, Buffer
    <2> QED
      BY <1>4, <2>1 DEF CallRead, BufferInv, BufferTypeOK, IndexesAgree
  <1>5. ASSUME CallClear
        PROVE  BufferInv'
    <2>1. /\ buffer' \in Buffer(Size, Value)
          /\ buffer'.front = 0 /\ buffer'.rear = -1 /\ buffer'.count = 0
      <3>1. buffer' = [data |-> buffer.data, size |-> Size, front |-> 0, rear |-> -1, count |-> 0]
        BY <1>5 DEF CallClear, Cleared, Buffer, BufferInv, BufferTypeOK
      <3>2. 0 \in 0 .. Size - 1 /\ 0 \in 0 .. Size /\ -1 \in -1 .. Size - 1
        OBVIOUS
      <3> QED
        BY <3>1, <3>2 DEF Buffer, BufferInv, BufferTypeOK
    <2>2. NextIndex(-1, Size) = 0 /\ (0 + 0) % Size = 0
      BY WrapOnce DEF NextIndex
    <2> QED
      BY <1>5, <2>1, <2>2 DEF CallClear, BufferInv, BufferTypeOK, IndexesAgree
  <1>6. ASSUME UNCHANGED bufferVars
        PROVE  BufferInv'
    BY <1>6 DEF bufferVars, BufferInv, BufferTypeOK, IndexesAgree
  <1> QED
    BY <1>2, <1>3, <1>4, <1>5, <1>6 DEF BufferNext

\* The buffer keeps its type and its two indexes and its count describe one
\* stretch of the ring, for every size (cyclic_buffer.c lines 21-45).
THEOREM IndexesCorrect == SizeAssumption /\ BufferSpec => [](BufferTypeOK /\ IndexesAgree)
  <1>1. SizeAssumption /\ BufferInit => BufferInv
    BY BufferInitInductive
  <1>2. SizeAssumption /\ BufferInv /\ [BufferNext]_bufferVars => BufferInv'
    BY BufferNextInductive
  <1>3. BufferInv => BufferTypeOK /\ IndexesAgree
    BY DEF BufferInv
  <1> QED
    BY <1>1, <1>2, <1>3, SizeAssumption, PTL DEF BufferSpec
-----------------------------------------------------------------------------
\* The bytes a buffer of the right type holds are a sequence of count bytes.
LEMMA ContentsType ==
    ASSUME SizeAssumption, NEW b \in Buffer(Size, Value)
    PROVE  /\ Contents(b) \in Seq(Value)
           /\ Len(Contents(b)) = b.count
           /\ \A i \in 1 .. b.count :
                 /\ (b.front + (i - 1)) % Size \in 0 .. Size - 1
                 /\ Contents(b)[i] = b.data[(b.front + (i - 1)) % Size]
  <1>1. /\ b.size = Size /\ b.count \in 0 .. Size /\ b.front \in 0 .. Size - 1
        /\ b.data \in [0 .. Size - 1 -> Value]
    BY DEF Buffer
  <1>2. ASSUME NEW i \in 1 .. b.count
        PROVE  (b.front + (i - 1)) % Size \in 0 .. Size - 1
    BY <1>1, <1>2 DEF SizeAssumption
  <1>3. Contents(b) = [i \in 1 .. b.count |-> b.data[(b.front + (i - 1)) % Size]]
    BY <1>1 DEF Contents
  <1> DEFINE C == Contents(b)
  <1>4. C \in [1 .. b.count -> Value]
    BY <1>1, <1>2, <1>3
  <1>5. ASSUME NEW i \in 1 .. b.count
        PROVE  C[i] = b.data[(b.front + (i - 1)) % Size]
    BY <1>3, <1>5
  <1> HIDE DEF C
  <1>6. C \in Seq(Value) /\ Len(C) = b.count
    BY <1>1, <1>4
  <1> QED
    BY <1>2, <1>5, <1>6 DEF C

\* An enqueue appends its byte: the slot it writes is none of those held.
LEMMA EnqueueAppends ==
    ASSUME SizeAssumption, BufferInv, ~IsFull(buffer), NEW v \in Value
    PROVE  Contents(Enqueue(buffer, v)) = Append(Contents(buffer), v)
  <1> DEFINE s == NextIndex(buffer.rear, Size)
             b == Enqueue(buffer, v)
  <1>1. /\ buffer \in Buffer(Size, Value)
        /\ buffer.size = Size /\ buffer.count \in 0 .. Size - 1
        /\ buffer.front \in 0 .. Size - 1
        /\ buffer.data \in [0 .. Size - 1 -> Value]
        /\ s = (buffer.front + buffer.count) % Size
    BY DEF BufferInv, BufferTypeOK, IndexesAgree, Buffer, IsFull, SizeAssumption
  <1>2. /\ s \in 0 .. Size - 1
        /\ b \in Buffer(Size, Value) /\ b.front = buffer.front
        /\ b.count = buffer.count + 1
        /\ b.data = [buffer.data EXCEPT ![s] = v]
    BY EnqueueFields
  <1> HIDE DEF s, b
  <1>3. ASSUME NEW i \in 1 .. buffer.count + 1
        PROVE  Contents(b)[i] = Append(Contents(buffer), v)[i]
    <2>1. Contents(b)[i] = b.data[(buffer.front + (i - 1)) % Size]
      BY <1>2, ContentsType
    <2>2. CASE i = buffer.count + 1
      <3>1. Contents(b)[i] = v
        BY <1>1, <1>2, <2>1, <2>2
      <3> QED
        BY <1>1, <2>2, <3>1, ContentsType
    <2>3. CASE i \in 1 .. buffer.count
      <3> DEFINE t == (buffer.front + (i - 1)) % Size
      <3>1. t \in 0 .. Size - 1 /\ Contents(buffer)[i] = buffer.data[t]
        BY <1>1, <2>3, ContentsType
      <3>2. t # s
        <4>1. i - 1 \in 0 .. Size
          BY <1>1, <2>3 DEF SizeAssumption
        <4>2. t = IF buffer.front + (i - 1) < Size
                  THEN buffer.front + (i - 1) ELSE buffer.front + (i - 1) - Size
          BY <1>1, <4>1, RingArithmetic DEF SizeAssumption
        <4>3. s = IF buffer.front + buffer.count < Size
                  THEN buffer.front + buffer.count ELSE buffer.front + buffer.count - Size
          <5>1. buffer.count \in 0 .. Size
            BY <1>1 DEF SizeAssumption
          <5> QED
            BY <1>1, <5>1, RingArithmetic DEF SizeAssumption
        <4>4. buffer.count \in 0 .. Size - 1 /\ buffer.front \in 0 .. Size - 1
          BY <1>1
        <4> HIDE DEF t
        <4> QED
          BY <2>3, <4>2, <4>3, <4>4 DEF SizeAssumption
      <3> HIDE DEF t
      <3>3. b.data[t] = buffer.data[t]
        BY <1>1, <1>2, <3>1, <3>2
      <3> QED
        BY <1>1, <2>1, <2>3, <3>1, <3>3, ContentsType DEF t
    <2>4. buffer.count \in Nat
      BY <1>1 DEF SizeAssumption
    <2>5. i = buffer.count + 1 \/ i \in 1 .. buffer.count
      BY <2>4
    <2> QED
      BY <2>2, <2>3, <2>5, Zenon
  <1>4. /\ Contents(b) \in Seq(Value) /\ Len(Contents(b)) = buffer.count + 1
        /\ Contents(buffer) \in Seq(Value) /\ Len(Contents(buffer)) = buffer.count
    BY <1>1, <1>2, ContentsType
  <1>5. Append(Contents(buffer), v) \in Seq(Value)
        /\ Len(Append(Contents(buffer), v)) = buffer.count + 1
    BY <1>4
  <1>6. Contents(b) = Append(Contents(buffer), v)
    BY <1>3, <1>4, <1>5
  <1> QED
    BY <1>6 DEF b

\* A dequeue delivers the oldest byte and leaves the others in their order.
LEMMA DequeueTakesHead ==
    ASSUME SizeAssumption, BufferInv, ~IsEmpty(buffer)
    PROVE  /\ Contents(buffer) # <<>>
           /\ Oldest(buffer, value) = Head(Contents(buffer))
           /\ Contents(Dequeue(buffer)) = Tail(Contents(buffer))
  <1> DEFINE b == Dequeue(buffer)
             f == buffer.front
  <1>1. /\ buffer \in Buffer(Size, Value)
        /\ buffer.size = Size /\ buffer.count \in 1 .. Size
        /\ buffer.front \in 0 .. Size - 1
    BY DEF BufferInv, BufferTypeOK, Buffer, IsEmpty, SizeAssumption
  <1>2. /\ b \in Buffer(Size, Value) /\ b.front = NextIndex(f, Size)
        /\ b.count = buffer.count - 1 /\ b.data = buffer.data
    BY DequeueFields
  <1> HIDE DEF b
  <1>3. /\ Contents(buffer) \in Seq(Value) /\ Len(Contents(buffer)) = buffer.count
        /\ Contents(b) \in Seq(Value) /\ Len(Contents(b)) = buffer.count - 1
    BY <1>1, <1>2, ContentsType
  <1>4. Oldest(buffer, value) = Head(Contents(buffer))
    <2>1. Contents(buffer)[1] = buffer.data[(f + (1 - 1)) % Size]
      BY <1>1, ContentsType
    <2>2. (f + (1 - 1)) % Size = f
      <3>1. f % Size = f
        BY <1>1, WrapOnce DEF SizeAssumption
      <3> QED
        BY <1>1, <3>1
    <2>3. Oldest(buffer, value) = Contents(buffer)[1]
      BY <1>1, <2>1, <2>2 DEF Oldest, IsEmpty
    <2>4. Head(Contents(buffer)) = Contents(buffer)[1]
      BY <1>1, <1>3
    <2> QED
      BY <2>3, <2>4
  <1>5. ASSUME NEW i \in 1 .. buffer.count - 1
        PROVE  Contents(b)[i] = Contents(buffer)[i + 1]
    <2>1. Contents(b)[i] = buffer.data[(NextIndex(f, Size) + (i - 1)) % Size]
      BY <1>1, <1>2, ContentsType
    <2>2. i + 1 \in 1 .. buffer.count /\ i \in 1 .. Size
      BY <1>1
    <2>3. Contents(buffer)[i + 1] = buffer.data[(f + ((i + 1) - 1)) % Size]
      BY <1>1, <2>2, ContentsType
    <2>4. (NextIndex(f, Size) + (i - 1)) % Size = (f + i) % Size
      BY <1>1, <2>2, RingArithmetic DEF SizeAssumption
    <2>5. (i + 1) - 1 = i
      OBVIOUS
    <2> QED
      BY <2>1, <2>3, <2>4, <2>5
  <1>6. Contents(b) = Tail(Contents(buffer))
    BY <1>1, <1>3, <1>5
  <1> QED
    BY <1>1, <1>3, <1>4, <1>6 DEF b

LEMMA BufferInitRefines == SizeAssumption /\ BufferInit => Fifo!Init
  <1> SUFFICES ASSUME SizeAssumption, BufferInit
               PROVE  Fifo!Init
    OBVIOUS
  <1>1. PICK garbage \in [0 .. Size - 1 -> Value] : buffer = NewBuffer(Size, garbage)
    BY DEF BufferInit
  <1>2. buffer.count = 0
    BY <1>1 DEF NewBuffer
  <1>3. Contents(buffer) = <<>>
    BY <1>2 DEF Contents
  <1> QED
    BY <1>3 DEF BufferInit, Fifo!Init

\* Every call is the queue's operation of the same name, or a refusal.
LEMMA BufferNextRefines == SizeAssumption /\ BufferInv /\ [BufferNext]_bufferVars => [Fifo!Next]_(Fifo!vars)
  <1> SUFFICES ASSUME SizeAssumption, BufferInv, [BufferNext]_bufferVars
               PROVE  [Fifo!Next]_(Fifo!vars)
    OBVIOUS
  <1> USE DEF SizeAssumption
  <1>1. /\ buffer \in Buffer(Size, Value) /\ buffer.size = Size
        /\ buffer.count \in 0 .. Size /\ value \in Value
    BY DEF BufferInv, BufferTypeOK, Buffer
  <1>2. Contents(buffer) \in Seq(Value) /\ Len(Contents(buffer)) = buffer.count
    BY <1>1, ContentsType
  <1>3. ASSUME NEW v \in Value, CallEnqueue(v)
        PROVE  Fifo!Next
    <2>1. CASE IsFull(buffer)
      <3>1. buffer' = buffer /\ value' = value /\ ret' = -1
        BY <1>3, <2>1 DEF CallEnqueue, Enqueue
      <3>2. Len(Contents(buffer)) = Size
        BY <1>1, <1>2, <2>1 DEF IsFull
      <3>3. Fifo!Refuse
        BY <3>1, <3>2 DEF Fifo!Refuse
      <3> QED
        BY <3>3 DEF Fifo!Next
    <2>2. CASE ~IsFull(buffer)
      <3>1. Contents(buffer)' = Append(Contents(buffer), v)
        BY <1>3, <2>2, EnqueueAppends DEF CallEnqueue
      <3>2. Len(Contents(buffer)) < Size
        BY <1>1, <1>2, <2>2 DEF IsFull
      <3>3. Fifo!Put(v)
        BY <1>3, <2>2, <3>1, <3>2 DEF CallEnqueue, Fifo!Put
      <3> QED
        BY <3>3 DEF Fifo!Next
    <2> QED
      BY <2>1, <2>2
  <1>4. ASSUME IsEmpty(buffer)
        PROVE  Contents(buffer) = <<>>
    BY <1>2, <1>4 DEF IsEmpty
  <1>5. ASSUME CallDequeue
        PROVE  Fifo!Next
    <2>1. CASE IsEmpty(buffer)
      <3>1. Fifo!Refuse
        BY <1>4, <1>5, <2>1 DEF CallDequeue, Dequeue, Oldest, Fifo!Refuse
      <3> QED
        BY <3>1 DEF Fifo!Next
    <2>2. CASE ~IsEmpty(buffer)
      <3>1. /\ Contents(buffer) # <<>> /\ value' = Head(Contents(buffer))
            /\ Contents(buffer)' = Tail(Contents(buffer)) /\ ret' = 0
        BY <1>5, <2>2, DequeueTakesHead DEF CallDequeue
      <3>2. Fifo!Get
        BY <3>1 DEF Fifo!Get
      <3> QED
        BY <3>2 DEF Fifo!Next
    <2> QED
      BY <2>1, <2>2
  <1>6. ASSUME CallRead
        PROVE  Fifo!Next
    <2>1. CASE IsEmpty(buffer)
      <3>1. Fifo!Refuse
        BY <1>4, <1>6, <2>1 DEF CallRead, Oldest, Fifo!Refuse
      <3> QED
        BY <3>1 DEF Fifo!Next
    <2>2. CASE ~IsEmpty(buffer)
      <3>1. Fifo!Peek
        BY <1>6, <2>2, DequeueTakesHead DEF CallRead, Fifo!Peek
      <3> QED
        BY <3>1 DEF Fifo!Next
    <2> QED
      BY <2>1, <2>2
  <1>7. ASSUME CallClear
        PROVE  Fifo!Next
    <2>1. buffer'.count = 0
      BY <1>1, <1>7 DEF CallClear, Cleared, Buffer
    <2>2. Contents(buffer)' = <<>>
      BY <2>1 DEF Contents
    <2>3. Fifo!Clear
      BY <1>7, <2>2 DEF CallClear, Fifo!Clear
    <2> QED
      BY <2>3 DEF Fifo!Next
  <1>8. ASSUME UNCHANGED bufferVars
        PROVE  UNCHANGED Fifo!vars
    BY <1>8 DEF bufferVars, Fifo!vars
  <1> QED
    BY <1>3, <1>5, <1>6, <1>7, <1>8 DEF BufferNext

\* Whatever the size and the bytes, the ring of cyclic_buffer.c is a bounded
\* FIFO queue: it loses, duplicates and reorders nothing.
THEOREM BufferIsFifo == SizeAssumption /\ BufferSpec => ImplementsFifo
  <1>1. SizeAssumption /\ BufferInit => BufferInv
    BY BufferInitInductive
  <1>2. SizeAssumption /\ BufferInv /\ [BufferNext]_bufferVars => BufferInv'
    BY BufferNextInductive
  <1>3. SizeAssumption /\ BufferInit => Fifo!Init
    BY BufferInitRefines
  <1>4. SizeAssumption /\ BufferInv /\ [BufferNext]_bufferVars => [Fifo!Next]_(Fifo!vars)
    BY BufferNextRefines
  <1> QED
    BY <1>1, <1>2, <1>3, <1>4, SizeAssumption, PTL DEF BufferSpec, ImplementsFifo, Fifo!Spec
=============================================================================
