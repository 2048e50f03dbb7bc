----------------------------- MODULE TaskLists -----------------------------
(***************************************************************************)
(* What the users of llist.h take its lists for: each head stands for a    *)
(* sequence of entries, an entry is in at most one of them, and the        *)
(* operations add it at an end, take it out, or move it.  LinkedList.tla   *)
(* is shown to implement this specification.                               *)
(***************************************************************************)
EXTENDS Integers, Sequences, SequencesExt

CONSTANTS ListHead, Entry

VARIABLE lists                   \* [ListHead -> Seq(Entry)]

Members(h) == Range(lists[h])

Init == lists = [h \in ListHead |-> <<>>]

Free(e)  == \A h \in ListHead : e \notin Members(h)

AddFirst(e, h) == /\ Free(e)
                  /\ lists' = [lists EXCEPT ![h] = <<e>> \o @]

AddLast(e, h) == /\ Free(e)
                 /\ lists' = [lists EXCEPT ![h] = Append(@, e)]

\* The lists without the i-th entry of h.
Out(h, i) == [lists EXCEPT ![h] = RemoveAt(@, i)]

TakeOut(e) == \E h \in ListHead : \E i \in DOMAIN lists[h] : /\ lists[h][i] = e
                                                             /\ lists' = Out(h, i)

MoveFirst(e, h) == \E g \in ListHead : \E i \in DOMAIN lists[g] :
                       /\ lists[g][i] = e
                       /\ lists' = [Out(g, i) EXCEPT ![h] = <<e>> \o @]

MoveLast(e, h) == \E g \in ListHead : \E i \in DOMAIN lists[g] :
                      /\ lists[g][i] = e
                      /\ lists' = [Out(g, i) EXCEPT ![h] = Append(@, e)]

Next == \E e \in Entry :
            \/ TakeOut(e)
            \/ \E h \in ListHead : \/ AddFirst(e, h) \/ AddLast(e, h)
                               \/ MoveFirst(e, h) \/ MoveLast(e, h)

Spec == Init /\ [][Next]_lists
=============================================================================
