--------------------------- MODULE LinkedListOps ---------------------------
(***************************************************************************)
(* The intrusive doubly linked lists of shared/include/llist.h.  A set of  *)
(* lists is a record L of two functions, next and prev, on the nodes that  *)
(* share them: heads and entries are struct list_head alike.  Each         *)
(* operator is one inline function of the header and returns the pointers  *)
(* its assignments leave, in the order of the header's assignments (the    *)
(* last one wins when two of them meet in the same node).                  *)
(***************************************************************************)
EXTENDS Integers, Sequences, FiniteSets

Links(Node) == [next : [Node -> Node], prev : [Node -> Node]]

\* Every node is an empty list of its own.
InitialLinks(Node) == [next |-> [n \in Node |-> n], prev |-> [n \in Node |-> n]]

INIT_LIST_HEAD(L, h) == [L EXCEPT !.next[h] = h, !.prev[h] = h]

list_empty(L, h) == L.next[h] = h

\* __list_add: insert `new` between two consecutive nodes.
InsertBetween(L, new, prev, next) ==
    [next |-> [L.next EXCEPT ![new] = next, ![prev] = new],
     prev |-> [L.prev EXCEPT ![next] = new, ![new] = prev]]

\* Mutation of Join: the second pointer is forgotten.
JoinOneWay(L, prev, next) == [L EXCEPT !.next[prev] = next]

\* __list_del: make two nodes point to each other.
Join(L, prev, next) ==
    [next |-> [L.next EXCEPT ![prev] = next], prev |-> [L.prev EXCEPT ![next] = prev]]

\* Mutation of list_add: one entry too far.
AddAfterFirst(L, new, h) == InsertBetween(L, new, L.next[h], L.next[L.next[h]])

list_add(L, new, h)      == InsertBetween(L, new, h, L.next[h])
list_add_tail(L, new, h) == InsertBetween(L, new, L.prev[h], h)

\* __list_del_entry: the entry keeps its own, now stale, pointers.
list_del_entry(L, e) == Join(L, L.prev[e], L.next[e])

\* Mutation of list_move: the entry is not deleted from its list first.
MoveWithoutDelete(L, e, h) == list_add(L, e, h)

list_move(L, e, h)      == list_add(list_del_entry(L, e), e, h)
list_move_tail(L, e, h) == list_add_tail(list_del_entry(L, e), e, h)
-----------------------------------------------------------------------------
\* On the nodes of S, next and prev are inverse of each other and stay in S.
Consistent(L, S) ==
    \A n \in S : /\ L.next[n] \in S
                 /\ L.prev[n] \in S
                 /\ L.prev[L.next[n]] = n
                 /\ L.next[L.prev[n]] = n

\* The node reached from n in i steps along next.
NodeAfter(L, n) ==
    LET reached[i \in Nat] == IF i = 0 THEN n ELSE L.next[reached[i - 1]]
    IN  reached

\* What a traversal of the list of head h visits, in order.
Elements(L, h) ==
    LET length == CHOOSE n \in 0 .. Cardinality(DOMAIN L.next) :
                     /\ NodeAfter(L, h)[n + 1] = h
                     /\ \A m \in 1 .. n : NodeAfter(L, h)[m] # h
    IN  [i \in 1 .. length |-> NodeAfter(L, h)[i]]

\* A traversal from h comes to n: n is in every set that holds h and that
\* next does not leave.
Closed(L, R) == \A n \in R : L.next[n] \in R

Reaches(L, h, n) ==
    \A R \in SUBSET DOMAIN L.next : h \in R /\ Closed(L, R) => n \in R

InList(L, h, e) == e # h /\ Reaches(L, h, e)
=============================================================================
