----------------------------- MODULE LinkedList -----------------------------
(***************************************************************************)
(* The lists of shared/include/llist.h and a kernel that uses them as      *)
(* task.c and semaphore.c do: it adds an entry that is in no list, deletes *)
(* or moves one that is in a list, and never loses track of which is       *)
(* which.                                                                  *)
(***************************************************************************)
EXTENDS LinkedListOps

CONSTANTS ListHead,        \* heads of lists: the main queue, semaphore queues
          Entry        \* entries: tasks, semaphores

ASSUME NodesDiffer == ListHead \cap Entry = {}

\* They are in memory.
ASSUME NodesAreFinite == IsFiniteSet(ListHead \cup Entry)

Node == ListHead \cup Entry

VARIABLES links,       \* the pointers of every struct list_head
          listed       \* the entries the callers have put in some list

vars == <<links, listed>>

Init == /\ links = InitialLinks(Node)
        /\ listed = {}

Add(e, h) == /\ e \notin listed
             /\ links' = list_add(links, e, h)
             /\ listed' = listed \cup {e}

AddTail(e, h) == /\ e \notin listed
                 /\ links' = list_add_tail(links, e, h)
                 /\ listed' = listed \cup {e}

Delete(e) == /\ e \in listed
             /\ links' = list_del_entry(links, e)
             /\ listed' = listed \ {e}

Move(e, h) == /\ e \in listed
              /\ links' = list_move(links, e, h)
              /\ UNCHANGED listed

MoveTail(e, h) == /\ e \in listed
                  /\ links' = list_move_tail(links, e, h)
                  /\ UNCHANGED listed

Next == \E e \in Entry :
            \/ Delete(e)
            \/ \E h \in ListHead : \/ Add(e, h) \/ AddTail(e, h)
                               \/ Move(e, h) \/ MoveTail(e, h)

Spec == Init /\ [][Next]_vars
-----------------------------------------------------------------------------
TypeOK == /\ links \in Links(Node)
          /\ listed \subseteq Entry

\* On the heads and on the entries in a list, next and prev stay inverse of
\* each other and never lead to an entry that was deleted, although a deleted
\* entry keeps pointers into the list (llist.h line 97): no stale pointer is
\* ever reached from a list.
PointersInverse == Consistent(links, ListHead \cup listed)

\* What a traversal from each head visits.
TheLists == [h \in ListHead |-> Elements(links, h)]

\* A traversal from a head ends, and the lists are the sequences their users
\* take them for (list_for_each, and the operations of llist.h).
Lists == INSTANCE TaskLists WITH lists <- TheLists

ImplementsLists == Lists!Spec
=============================================================================
