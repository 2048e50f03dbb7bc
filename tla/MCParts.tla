------------------------------ MODULE MCParts ------------------------------
(***************************************************************************)
(* The instance of LinkedList.tla, CyclicBuffer.tla and Screen.tla that    *)
(* TLC checks.  The three have no state in common and call nothing, so     *)
(* that a behaviour of one, with the other two at rest where they began,   *)
(* is as good as one of all three.                                         *)
(***************************************************************************)
EXTENDS LinkedList, CyclicBuffer, Screen

CONSTANT MaxLines      \* bound: a stack trace prints no more lines

ASSUME MaxLines \in Nat

VARIABLE part          \* the one that moves

MCText == <<"tab", "newline", "letter", "control", "carriageReturn">>

\* A buffer that rests begins with one of the contents that its memory may have.
PartsInit ==
    /\ part \in {"lists", "buffer", "screen"}
    /\ Init /\ BufferInit /\ ScreenInit
    /\ part # "buffer" => \A i \in DOMAIN buffer.data : buffer.data[i] = value /\ value = 1

PartsNext ==
    /\ UNCHANGED part
    /\ \/ part = "lists" /\ Next /\ UNCHANGED <<bufferVars, screenVars>>
       \/ part = "buffer" /\ BufferNext /\ UNCHANGED <<vars, screenVars>>
       \/ /\ part = "screen"
          /\ \/ KernelPrints
             \/ screenClear \/ \E char \in Character : screenPutChar(char)
             \/ PrintsText \/ \E n \in 0 .. MaxLines : PrintsLines(n)
          /\ UNCHANGED <<vars, bufferVars>>

PartsSpec == PartsInit /\ [][PartsNext]_<<part, vars, bufferVars, screenVars>>
=============================================================================
