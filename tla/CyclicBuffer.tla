---------------------------- MODULE CyclicBuffer ----------------------------
(***************************************************************************)
(* One cyclic buffer of kernel/src/utils/cyclic_buffer.c and its callers,  *)
(* which call one operation after another: every caller of the driver runs *)
(* with the interrupts disabled (Keyboard.tla looks at the one that does   *)
(* not).                                                                   *)
(***************************************************************************)
EXTENDS CyclicBufferOps, Sequences

CONSTANTS Value,       \* the bytes that are queued
          Size         \* the size given to cyclic_buffer_init

ASSUME SizeAssumption == Size \in Nat \ {0}

VARIABLES buffer,      \* the struct cyclic_buffer_t
          value,       \* the caller's byte, *value
          ret          \* the last call's return code

bufferVars == <<buffer, value, ret>>

BufferInit ==
    /\ \E garbage \in [0 .. Size - 1 -> Value] : buffer = NewBuffer(Size, garbage)
    /\ value \in Value
    /\ ret = 0

CallEnqueue(v) == /\ buffer' = Enqueue(buffer, v)
                  /\ ret' = IF IsFull(buffer) THEN -1 ELSE 0
                  /\ UNCHANGED value

CallDequeue == /\ buffer' = Dequeue(buffer)
               /\ value' = Oldest(buffer, value)
               /\ ret' = IF IsEmpty(buffer) THEN -1 ELSE 0

CallRead == /\ value' = Oldest(buffer, value)
            /\ ret' = IF IsEmpty(buffer) THEN -1 ELSE 0
            /\ UNCHANGED buffer

CallClear == /\ buffer' = Cleared(buffer)
             /\ UNCHANGED <<value, ret>>

BufferNext == \/ \E v \in Value : CallEnqueue(v)
              \/ CallDequeue
              \/ CallRead
              \/ CallClear

BufferSpec == BufferInit /\ [][BufferNext]_bufferVars
-----------------------------------------------------------------------------
BufferTypeOK == /\ buffer \in Buffer(Size, Value)
                /\ value \in Value
                /\ ret \in {0, -1}

\* The two indexes and the count, which enqueue and dequeue update
\* independently of one another, always describe the same stretch of the
\* ring: the slot after rear is the one `count` places after front
\* (cyclic_buffer.c lines 23-25 and 36-37).
IndexesAgree ==
    NextIndex(buffer.rear, Size) = (buffer.front + buffer.count) % Size

\* Whatever the calls and however often the indexes have wrapped, the buffer
\* is the FIFO queue its users take it for: no byte is lost, duplicated or
\* reordered, and a refused call changes nothing.
Fifo == INSTANCE BoundedQueue WITH
            Capacity <- Size, queue <- Contents(buffer), out <- value

ImplementsFifo == Fifo!Spec
=============================================================================
