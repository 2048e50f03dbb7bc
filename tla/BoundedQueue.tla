---------------------------- MODULE BoundedQueue ----------------------------
(***************************************************************************)
(* What the users of a cyclic buffer rely on (the keyboard driver, see     *)
(* Keyboard.tla): a FIFO queue of at most Capacity bytes whose operations   *)
(* refuse, and change nothing, when the queue is full or empty.            *)
(* CyclicBuffer.tla is shown to implement this specification.              *)
(***************************************************************************)
EXTENDS Integers, Sequences

CONSTANTS Value,       \* the bytes that are queued
          Capacity     \* the size given to cyclic_buffer_init

VARIABLES queue,       \* the bytes put and not yet taken, oldest first
          out,         \* the byte the last get or peek delivered
          ret          \* the last call's return code

vars == <<queue, out, ret>>

Init == /\ queue = <<>>
        /\ out \in Value
        /\ ret = 0

Put(v) == /\ Len(queue) < Capacity
          /\ queue' = Append(queue, v)
          /\ ret' = 0
          /\ UNCHANGED out

Get == /\ queue # <<>>
       /\ queue' = Tail(queue)
       /\ out' = Head(queue)
       /\ ret' = 0

Peek == /\ queue # <<>>
        /\ out' = Head(queue)
        /\ ret' = 0
        /\ UNCHANGED queue

\* A put on a full queue, or a get or a peek on an empty one.
Refuse == /\ \/ Len(queue) = Capacity
             \/ queue = <<>>
          /\ ret' = -1
          /\ UNCHANGED <<queue, out>>

Clear == /\ queue' = <<>>
         /\ UNCHANGED <<out, ret>>

Next == \/ \E v \in Value : Put(v)
        \/ Get
        \/ Peek
        \/ Refuse
        \/ Clear

Spec == Init /\ [][Next]_vars
=============================================================================
