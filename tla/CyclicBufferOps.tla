-------------------------- MODULE CyclicBufferOps --------------------------
(***************************************************************************)
(* The operations of kernel/src/utils/cyclic_buffer.c as functions from a  *)
(* buffer to the buffer the call leaves.  A buffer is the struct           *)
(* cyclic_buffer_t: data is a function on 0 .. size-1, front the index of  *)
(* the oldest byte, rear the index of the newest one (-1 before the first  *)
(* enqueue: the field is an int32_t) and count the number of bytes held.   *)
(* CyclicBuffer.tla makes a specification of them, Keyboard.tla uses them. *)
(***************************************************************************)
EXTENDS Integers

Buffer(size, Value) ==
    [data : [0 .. size - 1 -> Value], size : {size},
     front : 0 .. size - 1, rear : -1 .. size - 1, count : 0 .. size]

\* The data of a new buffer is whatever kmalloc returned.
NewBuffer(size, garbage) ==
    [data |-> garbage, size |-> size, front |-> 0, rear |-> -1, count |-> 0]

\* Mutation of IsFull: off by one.
IsOverfull(b) == b.count > b.size

IsFull(b)  == b.count >= b.size
IsEmpty(b) == b.count = 0

NextIndex(i, size) == (i + 1) % size

Enqueue(b, v) ==
    IF IsFull(b) THEN b
    ELSE [b EXCEPT !.rear = NextIndex(b.rear, b.size),
                   !.data[NextIndex(b.rear, b.size)] = v,
                   !.count = @ + 1]

Dequeue(b) ==
    IF IsEmpty(b) THEN b
    ELSE [b EXCEPT !.front = NextIndex(@, b.size), !.count = @ - 1]

\* The byte that read and dequeue deliver; `old`, the caller's variable, when
\* the buffer is empty.
Oldest(b, old) == IF IsEmpty(b) THEN old ELSE b.data[b.front]

\* Mutation of Cleared: rear is not reset.
ClearedButRear(b) == [b EXCEPT !.front = 0, !.count = 0]

Cleared(b) == [b EXCEPT !.front = 0, !.rear = -1, !.count = 0]

\* The bytes held, oldest first.
Contents(b) == [i \in 1 .. b.count |-> b.data[(b.front + (i - 1)) % b.size]]
=============================================================================
