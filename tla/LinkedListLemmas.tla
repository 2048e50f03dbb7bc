-------------------------- MODULE LinkedListLemmas --------------------------
(***************************************************************************)
(* What the operations of llist.h preserve, for any set of nodes: lists    *)
(* that are consistent stay so when an entry is deleted, inserted or       *)
(* moved.                                                                  *)
(***************************************************************************)
EXTENDS LinkedListOps, TLAPS

\* INIT_LIST_HEAD on every node leaves one-element rings.
LEMMA InitialConsistent ==
    ASSUME NEW Node, NEW S \in SUBSET Node
    PROVE  InitialLinks(Node) \in Links(Node) /\ Consistent(InitialLinks(Node), S)
  BY DEF InitialLinks, Links, Consistent

\* A deletion leaves every other node in a consistent list (llist.h line 97).
LEMMA DeleteConsistent ==
    ASSUME NEW Node, NEW S \in SUBSET Node, NEW L \in Links(Node), Consistent(L, S),
           NEW e \in S
    PROVE  /\ list_del_entry(L, e) \in Links(Node)
           /\ Consistent(list_del_entry(L, e), S \ {e})
  <1> DEFINE p == L.prev[e]
             n == L.next[e]
             M == list_del_entry(L, e)
  <1>1. /\ p \in S /\ n \in S
        /\ L.next \in [Node -> Node] /\ L.prev \in [Node -> Node]
    BY DEF Consistent, Links
  <1>2. /\ M.next = [L.next EXCEPT ![p] = n]
        /\ M.prev = [L.prev EXCEPT ![n] = p]
    BY DEF list_del_entry, Join
  <1>3. M \in Links(Node)
    BY <1>1 DEF list_del_entry, Join, Links
  <1>4. ASSUME NEW k \in S \ {e}
        PROVE  /\ M.next[k] \in S \ {e} /\ M.prev[k] \in S \ {e}
               /\ M.prev[M.next[k]] = k /\ M.next[M.prev[k]] = k
    <2>1. /\ L.next[k] \in S /\ L.prev[k] \in S
          /\ L.prev[L.next[k]] = k /\ L.next[L.prev[k]] = k
      BY DEF Consistent
    <2>2. L.prev[n] = e /\ L.next[p] = e
      BY DEF Consistent
    <2> HIDE DEF M, p, n
    <2> QED
      BY <1>1, <1>2, <2>1, <2>2 DEF p, n
  <1> HIDE DEF M
  <1>5. Consistent(M, S \ {e})
    BY <1>4 DEF Consistent
  <1> QED
    BY <1>3, <1>5 DEF M

\* Inserting an entry that is in no list between two neighbours keeps every
\* list consistent (llist.h line 43).
LEMMA InsertConsistent ==
    ASSUME NEW Node, NEW S \in SUBSET Node, NEW L \in Links(Node), Consistent(L, S),
           NEW e \in Node \ S, NEW p \in S, NEW n \in S, L.next[p] = n
    PROVE  /\ InsertBetween(L, e, p, n) \in Links(Node)
           /\ Consistent(InsertBetween(L, e, p, n), S \cup {e})
  <1> DEFINE M == InsertBetween(L, e, p, n)
  <1>1. L.next \in [Node -> Node] /\ L.prev \in [Node -> Node] /\ L.prev[n] = p
    BY DEF Consistent, Links
  <1>2. /\ M.next = [L.next EXCEPT ![e] = n, ![p] = e]
        /\ M.prev = [L.prev EXCEPT ![n] = e, ![e] = p]
    BY DEF InsertBetween
  <1>3. M \in Links(Node)
    BY <1>1 DEF InsertBetween, Links
  <1> HIDE DEF M
  <1>4. /\ M.next[e] = n /\ M.prev[e] = p /\ M.next[p] = e /\ M.prev[n] = e
    BY <1>1, <1>2
  <1>5. ASSUME NEW k \in S
        PROVE  /\ M.next[k] \in S \cup {e} /\ M.prev[k] \in S \cup {e}
               /\ M.prev[M.next[k]] = k /\ M.next[M.prev[k]] = k
    <2>1. /\ L.next[k] \in S /\ L.prev[k] \in S
          /\ L.prev[L.next[k]] = k /\ L.next[L.prev[k]] = k
      BY DEF Consistent
    <2> QED
      BY <1>1, <1>2, <1>4, <2>1
  <1>6. Consistent(M, S \cup {e})
    BY <1>4, <1>5 DEF Consistent
  <1> QED
    BY <1>3, <1>6 DEF M

\* Adding an entry at either end of a list (llist.h lines 61 and 74).
LEMMA AddConsistent ==
    ASSUME NEW Node, NEW S \in SUBSET Node, NEW L \in Links(Node), Consistent(L, S),
           NEW e \in Node \ S, NEW h \in S
    PROVE  /\ list_add(L, e, h) \in Links(Node)
           /\ Consistent(list_add(L, e, h), S \cup {e})
           /\ list_add_tail(L, e, h) \in Links(Node)
           /\ Consistent(list_add_tail(L, e, h), S \cup {e})
  <1>1. L.next[h] \in S /\ L.prev[h] \in S /\ L.next[L.prev[h]] = h
    BY DEF Consistent
  <1> QED
    BY <1>1, InsertConsistent DEF list_add, list_add_tail

\* Moving an entry to either end of a list (llist.h lines 124 and 135).
LEMMA MoveConsistent ==
    ASSUME NEW Node, NEW S \in SUBSET Node, NEW L \in Links(Node), Consistent(L, S),
           NEW e \in S, NEW h \in S \ {e}
    PROVE  /\ list_move(L, e, h) \in Links(Node)
           /\ Consistent(list_move(L, e, h), S)
           /\ list_move_tail(L, e, h) \in Links(Node)
           /\ Consistent(list_move_tail(L, e, h), S)
  <1> DEFINE M == list_del_entry(L, e)
  <1>1. M \in Links(Node) /\ Consistent(M, S \ {e})
    BY DeleteConsistent
  <1>2. S \ {e} \in SUBSET Node /\ e \in Node \ (S \ {e}) /\ (S \ {e}) \cup {e} = S
    OBVIOUS
  <1> HIDE DEF M
  <1>3. /\ list_add(M, e, h) \in Links(Node) /\ Consistent(list_add(M, e, h), S)
        /\ list_add_tail(M, e, h) \in Links(Node) /\ Consistent(list_add_tail(M, e, h), S)
    <2>1. /\ list_add(M, e, h) \in Links(Node)
          /\ Consistent(list_add(M, e, h), (S \ {e}) \cup {e})
          /\ list_add_tail(M, e, h) \in Links(Node)
          /\ Consistent(list_add_tail(M, e, h), (S \ {e}) \cup {e})
      BY <1>1, <1>2, AddConsistent
    <2> QED
      BY <1>2, <2>1
  <1> QED
    BY <1>3 DEF M, list_move, list_move_tail
-----------------------------------------------------------------------------
(* What a traversal reaches, and that it ends. *)

\* The last entry is reached, so that the traversal comes back to its head.
RoundTrip(L, h) == Reaches(L, h, L.prev[h])

\* A traversal reaches its head and what follows a node it reaches, and
\* nothing that some closed set with the head leaves out.
LEMMA ReachesFacts ==
    ASSUME NEW Node, NEW L \in Links(Node), NEW h \in Node
    PROVE  /\ Reaches(L, h, h)
           /\ \A n \in Node : Reaches(L, h, n) => Reaches(L, h, L.next[n])
           /\ \A R \in SUBSET Node : h \in R /\ Closed(L, R) =>
                 \A n \in Node : Reaches(L, h, n) => n \in R
  <1>1. DOMAIN L.next = Node
    BY DEF Links
  <1> QED
    BY <1>1 DEF Reaches, Closed

\* A traversal of a consistent list stays in it.
LEMMA ReachesInside ==
    ASSUME NEW Node, NEW S \in SUBSET Node, NEW L \in Links(Node), Consistent(L, S),
           NEW h \in S, NEW n, Reaches(L, h, n)
    PROVE  n \in S
  <1>1. Closed(L, S)
    BY DEF Closed, Consistent
  <1>2. DOMAIN L.next = Node
    BY DEF Links
  <1> QED
    BY <1>1, <1>2 DEF Reaches

\* Nothing that is reached was entered from elsewhere: the traversal backwards
\* sees the same nodes.
LEMMA ReachesBack ==
    ASSUME NEW Node, NEW S \in SUBSET Node, NEW L \in Links(Node), Consistent(L, S),
           NEW h \in S, RoundTrip(L, h), NEW n, Reaches(L, h, n)
    PROVE  Reaches(L, h, L.prev[n])
  <1>1. CASE n = h
    BY <1>1 DEF RoundTrip
  <1>2. CASE n # h
    <2> DEFINE R == {k \in S : Reaches(L, h, k) /\ k # n}
    <2> SUFFICES ASSUME ~Reaches(L, h, L.prev[n])
                 PROVE  FALSE
      OBVIOUS
    <2>1. R \in SUBSET Node /\ h \in R /\ n \notin R /\ n \in S
      BY <1>2, ReachesFacts, ReachesInside
    <2>2. ASSUME NEW k \in R
          PROVE  L.next[k] \in R
      <3>1. k \in S /\ L.next[k] \in S /\ Reaches(L, h, L.next[k])
        BY ReachesFacts DEF Consistent
      <3>2. L.next[k] # n
        BY <3>1 DEF Consistent
      <3> QED
        BY <3>1, <3>2
    <2>3. Closed(L, R)
      BY <2>2 DEF Closed
    <2> HIDE DEF R
    <2> QED
      BY <2>1, <2>3, ReachesFacts
  <1> QED
    BY <1>1, <1>2

\* Two lists, neither of whose heads is in the other, share no node.
LEMMA ListsDisjoint ==
    ASSUME NEW Node, NEW S \in SUBSET Node, NEW L \in Links(Node), Consistent(L, S),
           NEW h \in S, RoundTrip(L, h), NEW g \in S, ~Reaches(L, h, g),
           NEW n, Reaches(L, h, n)
    PROVE  ~Reaches(L, g, n)
  <1> DEFINE R == {k \in S : ~Reaches(L, h, k)}
  <1>1. R \in SUBSET Node /\ g \in R /\ n \notin R
    OBVIOUS
  <1>2. ASSUME NEW k \in R
        PROVE  L.next[k] \in R
    <2>1. L.next[k] \in S /\ L.prev[L.next[k]] = k
      BY DEF Consistent
    <2> QED
      BY <2>1, ReachesBack
  <1>3. Closed(L, R)
    BY <1>2 DEF Closed
  <1>4. n \in Node
    BY ReachesInside
  <1> HIDE DEF R
  <1> QED
    BY <1>1, <1>3, <1>4, ReachesFacts

\* A deletion takes an entry, and nothing else, out of every traversal.
LEMMA DeleteReaches ==
    ASSUME NEW Node, NEW S \in SUBSET Node, NEW L \in Links(Node), Consistent(L, S),
           NEW e \in S, NEW h \in S \ {e}, RoundTrip(L, h)
    PROVE  /\ \A n \in Node : Reaches(list_del_entry(L, e), h, n) <=> Reaches(L, h, n) /\ n # e
           /\ RoundTrip(list_del_entry(L, e), h)
  <1> DEFINE M == list_del_entry(L, e)
             p == L.prev[e]
             x == L.next[e]
  <1>1. M \in Links(Node) /\ Consistent(M, S \ {e})
    BY DeleteConsistent
  <1>2. /\ p \in S /\ x \in S /\ L.next[p] = e /\ L.prev[x] = e
        /\ L.next \in [Node -> Node] /\ L.prev \in [Node -> Node]
        /\ M.next = [L.next EXCEPT ![p] = x] /\ M.prev = [L.prev EXCEPT ![x] = p]
        /\ h \in Node /\ e \in Node
    BY DEF list_del_entry, Join, Consistent, Links
  <1> HIDE DEF M, p, x
  <1>3. ASSUME NEW n \in Node, Reaches(M, h, n)
        PROVE  Reaches(L, h, n) /\ n # e
    <2> DEFINE R == {k \in S : Reaches(L, h, k) /\ k # e}
    <2>1. R \in SUBSET Node /\ h \in R
      BY <1>2, ReachesFacts
    <2>2. ASSUME NEW k \in R
          PROVE  M.next[k] \in R
      <3>1. k \in S /\ k # e /\ Reaches(L, h, k) /\ Reaches(L, h, L.next[k])
        BY ReachesFacts
      <3>2. L.next[k] \in S /\ L.prev[L.next[k]] = k
        BY <3>1 DEF Consistent
      <3>3. CASE k = p
        <4>1. M.next[k] = x /\ Reaches(L, h, x)
          <5>1. Reaches(L, h, e) /\ M.next[k] = x
            BY <1>2, <3>1, <3>3
          <5> QED
            BY <1>2, <5>1, ReachesFacts DEF x
        <4>2. x # e
          BY <1>2, <3>1, <3>3 DEF p
        <4> QED
          BY <1>2, <4>1, <4>2
      <3>4. CASE k # p
        BY <1>2, <3>1, <3>2, <3>4 DEF p
      <3> QED
        BY <3>3, <3>4
    <2>3. Closed(M, R)
      BY <2>2 DEF Closed
    <2> HIDE DEF R
    <2>4. n \in R
      BY <1>1, <1>2, <1>3, <2>1, <2>3, ReachesFacts
    <2> QED
      BY <2>4 DEF R
  <1>4. ASSUME NEW n \in Node, Reaches(L, h, n), n # e
        PROVE  Reaches(M, h, n)
    <2> DEFINE R == {k \in Node : Reaches(M, h, k) \/ (k = e /\ Reaches(M, h, p))}
    <2>1. R \in SUBSET Node /\ h \in R
      BY <1>1, <1>2, ReachesFacts
    <2>2. ASSUME NEW k \in R
          PROVE  L.next[k] \in R
      <3>1. CASE k = e
        <4>1. Reaches(M, h, p)
          BY <1>3, <3>1
        <4>2. p \in Node /\ M.next[p] = x
          BY <1>2
        <4>3. Reaches(M, h, x)
          BY <1>1, <1>2, <4>1, <4>2, ReachesFacts
        <4> QED
          BY <1>2, <3>1, <4>3 DEF x
      <3>2. CASE k # e /\ k = p
        BY <1>2, <3>2
      <3>3. CASE k # e /\ k # p
        <4>1. Reaches(M, h, k) /\ M.next[k] = L.next[k] /\ L.next[k] \in Node
          BY <1>2, <3>3
        <4> QED
          BY <1>1, <1>2, <4>1, ReachesFacts
      <3> QED
        BY <3>1, <3>2, <3>3
    <2>3. Closed(L, R)
      BY <2>2 DEF Closed
    <2> HIDE DEF R
    <2>4. n \in R
      BY <1>2, <1>4, <2>1, <2>3, ReachesFacts
    <2> QED
      BY <1>4, <2>4 DEF R
  <1>5. RoundTrip(M, h)
    <2>1. Reaches(L, h, L.prev[h]) /\ L.prev[h] \in Node
      BY <1>2 DEF RoundTrip
    <2>2. CASE h = x
      <3>1. L.prev[h] = e /\ M.prev[h] = p
        BY <1>2, <2>2
      <3>2. Reaches(L, h, p)
        BY <2>1, <3>1, ReachesBack DEF p
      <3>3. p # e
        BY <1>2, <2>2 DEF x
      <3> QED
        BY <1>2, <1>4, <3>1, <3>2, <3>3 DEF RoundTrip
    <2>3. CASE h # x
      <3>1. M.prev[h] = L.prev[h]
        BY <1>2, <2>3
      <3>2. L.prev[h] # e
        BY <2>3 DEF x, Consistent
      <3> QED
        BY <1>4, <2>1, <3>1, <3>2 DEF RoundTrip
    <2> QED
      BY <2>2, <2>3
  <1> QED
    BY <1>3, <1>4, <1>5 DEF M

\* An insertion adds an entry to the traversals that reach the node before it,
\* and changes no other.
LEMMA InsertReaches ==
    ASSUME NEW Node, NEW S \in SUBSET Node, NEW L \in Links(Node), Consistent(L, S),
           NEW e \in Node \ S, NEW p \in S, NEW x \in S, L.next[p] = x,
           NEW h \in S, RoundTrip(L, h)
    PROVE  /\ \A n \in Node : Reaches(InsertBetween(L, e, p, x), h, n)
                                  <=> Reaches(L, h, n) \/ (n = e /\ Reaches(L, h, p))
           /\ RoundTrip(InsertBetween(L, e, p, x), h)
  <1> DEFINE M == InsertBetween(L, e, p, x)
  <1>1. M \in Links(Node) /\ Consistent(M, S \cup {e})
    BY InsertConsistent
  <1>2. /\ L.next \in [Node -> Node] /\ L.prev \in [Node -> Node] /\ L.prev[x] = p
        /\ M.next = [L.next EXCEPT ![e] = x, ![p] = e]
        /\ M.prev = [L.prev EXCEPT ![x] = e, ![e] = p]
        /\ h \in Node /\ p \in Node /\ x \in Node /\ e \in Node /\ e # p /\ e # x /\ e # h
    BY DEF InsertBetween, Consistent, Links
  <1> HIDE DEF M
  <1>3. ASSUME NEW n \in Node, Reaches(M, h, n)
        PROVE  Reaches(L, h, n) \/ (n = e /\ Reaches(L, h, p))
    <2> DEFINE R == {k \in S \cup {e} : IF k = e THEN Reaches(L, h, p) ELSE Reaches(L, h, k)}
    <2>1. R \in SUBSET Node /\ h \in R
      BY <1>2, ReachesFacts
    <2>2. ASSUME NEW k \in R
          PROVE  M.next[k] \in R
      <3>1. CASE k = e
        <4>1. Reaches(L, h, p) /\ M.next[k] = x
          BY <1>2, <3>1
        <4>2. Reaches(L, h, x)
          BY <1>2, <4>1, ReachesFacts
        <4> QED
          BY <1>2, <4>1, <4>2
      <3>2. CASE k # e /\ k = p
        BY <1>2, <3>2
      <3>3. CASE k # e /\ k # p
        <4>1. k \in S /\ k \in Node /\ Reaches(L, h, k) /\ M.next[k] = L.next[k]
          BY <1>2, <3>3
        <4>2. L.next[k] \in S /\ Reaches(L, h, L.next[k])
          BY <1>2, <4>1, ReachesFacts DEF Consistent
        <4> QED
          BY <4>1, <4>2
      <3> QED
        BY <3>1, <3>2, <3>3
    <2>3. Closed(M, R)
      BY <2>2 DEF Closed
    <2> HIDE DEF R
    <2>4. n \in R
      BY <1>1, <1>2, <1>3, <2>1, <2>3, ReachesFacts
    <2> QED
      BY <2>4 DEF R
  <1>4. ASSUME NEW n \in Node, Reaches(L, h, n)
        PROVE  Reaches(M, h, n)
    <2> DEFINE R == {k \in S : Reaches(M, h, k)}
    <2>1. R \in SUBSET Node /\ h \in R
      BY <1>1, <1>2, ReachesFacts
    <2>2. ASSUME NEW k \in R
          PROVE  L.next[k] \in R
      <3>1. k \in Node /\ L.next[k] \in S /\ Reaches(M, h, M.next[k])
        BY <1>1, <1>2, ReachesFacts DEF Consistent
      <3>2. CASE k = p
        <4>1. Reaches(M, h, e) /\ M.next[e] = x
          BY <1>2, <3>1, <3>2
        <4> QED
          BY <1>1, <1>2, <3>2, <4>1, ReachesFacts
      <3>3. CASE k # p
        BY <1>2, <3>1, <3>3
      <3> QED
        BY <3>2, <3>3
    <2>3. Closed(L, R)
      BY <2>2 DEF Closed
    <2> HIDE DEF R
    <2>4. n \in R
      BY <1>2, <1>4, <2>1, <2>3, ReachesFacts
    <2> QED
      BY <2>4 DEF R
  <1>5. Reaches(L, h, p) => Reaches(M, h, e)
    <2>1. M.next[p] = e
      BY <1>2
    <2> QED
      BY <1>1, <1>2, <1>4, <2>1, ReachesFacts
  <1>6. RoundTrip(M, h)
    <2>1. Reaches(L, h, L.prev[h]) /\ L.prev[h] \in Node
      BY <1>2 DEF RoundTrip
    <2>2. CASE h = x
      <3>1. M.prev[h] = e /\ L.prev[h] = p
        BY <1>2, <2>2
      <3> QED
        BY <1>5, <2>1, <3>1 DEF RoundTrip
    <2>3. CASE h # x
      <3>1. M.prev[h] = L.prev[h]
        BY <1>2, <2>3
      <3> QED
        BY <1>4, <2>1, <3>1 DEF RoundTrip
    <2> QED
      BY <2>2, <2>3
  <1> QED
    BY <1>3, <1>4, <1>5, <1>6 DEF M

\* From any node that a traversal reaches, going on leads to its head, and
\* from there to every other node.
LEMMA ReachesRound ==
    ASSUME NEW Node, NEW S \in SUBSET Node, NEW L \in Links(Node), Consistent(L, S),
           NEW h \in S, RoundTrip(L, h),
           NEW n, Reaches(L, h, n), NEW k, Reaches(L, h, k)
    PROVE  Reaches(L, n, k)
  <1> DEFINE last == L.prev[h]
             R == {m \in S : Reaches(L, m, last)}
  <1>1. /\ DOMAIN L.next = Node /\ L.next \in [Node -> Node]
        /\ last \in S /\ L.next[last] = h /\ n \in S /\ k \in S
    BY ReachesInside DEF Links, Consistent
  <1> HIDE DEF last
  <1>2. ASSUME NEW m \in R
        PROVE  L.next[m] \in R
    <2>1. m \in S /\ m \in Node /\ L.next[m] \in S
      BY DEF Consistent
    <2>2. CASE m = last
      BY <1>1, <2>1, <2>2 DEF RoundTrip, last
    <2>3. CASE m # last
      <3>1. ASSUME NEW X \in SUBSET Node, L.next[m] \in X, Closed(L, X)
            PROVE  last \in X
        <4>1. Closed(L, X \cup {m}) /\ X \cup {m} \in SUBSET Node
          BY <2>1, <3>1 DEF Closed
        <4>2. Reaches(L, m, last)
          BY DEF R
        <4>3. last \in X \cup {m}
          BY <1>1, <4>1, <4>2 DEF Reaches
        <4> QED
          BY <2>3, <4>3
      <3> QED
        BY <1>1, <2>1, <3>1 DEF Reaches
    <2> QED
      BY <2>2, <2>3
  <1>3. Closed(L, R) /\ R \in SUBSET Node /\ h \in R
    BY <1>2 DEF Closed, RoundTrip, last
  <1> HIDE DEF R
  <1>4. n \in R
    BY <1>1, <1>3, ReachesFacts
  <1>5. ASSUME NEW X \in SUBSET Node, n \in X, Closed(L, X)
        PROVE  k \in X
    <2>1. last \in X
      BY <1>1, <1>4, <1>5 DEF R, Reaches
    <2>2. h \in X
      BY <1>1, <1>5, <2>1 DEF Closed
    <2> QED
      BY <1>1, <1>5, <2>2 DEF Reaches
  <1> QED
    BY <1>1, <1>5 DEF Reaches

\* Going on from n, a traversal comes to k before it comes to c.
Before(L, n, k, c) ==
    \E R \in SUBSET DOMAIN L.next :
        n \in R /\ c \notin R /\ \A m \in R \ {k} : L.next[m] \in R

\* After a node of a list, every other node of the list comes before it comes
\* again.
LEMMA NextBefore ==
    ASSUME NEW Node, NEW S \in SUBSET Node, NEW L \in Links(Node), Consistent(L, S),
           NEW h \in S, RoundTrip(L, h),
           NEW c, Reaches(L, h, c), NEW k, Reaches(L, h, k), c # k
    PROVE  Before(L, L.next[c], k, c)
  <1> DEFINE D == {m \in Node : ~Before(L, m, k, c)}
  <1>1. /\ DOMAIN L.next = Node /\ L.next \in [Node -> Node]
        /\ c \in Node /\ k \in Node
    BY ReachesInside DEF Links
  <1>2. c \in D
    BY <1>1 DEF Before
  <1>3. k \notin D
    <2>1. {k} \in SUBSET Node /\ k \in {k} /\ c \notin {k} /\ \A m \in {k} \ {k} : L.next[m] \in {k}
      BY <1>1
    <2> QED
      BY <1>1, <2>1 DEF Before
  <1>4. ASSUME NEW m \in D, m # c, Before(L, L.next[m], k, c)
        PROVE  FALSE
    <2>1. PICK R \in SUBSET Node :
             L.next[m] \in R /\ c \notin R /\ \A i \in R \ {k} : L.next[i] \in R
      BY <1>1, <1>4 DEF Before
    <2>2. R \cup {m} \in SUBSET Node /\ m \in R \cup {m} /\ c \notin R \cup {m}
      BY <1>4, <2>1
    <2>3. \A i \in (R \cup {m}) \ {k} : L.next[i] \in R \cup {m}
      BY <2>1
    <2>4. Before(L, m, k, c)
      BY <1>1, <2>2, <2>3 DEF Before
    <2> QED
      BY <2>4
  <1> SUFFICES ASSUME ~Before(L, L.next[c], k, c)
               PROVE  FALSE
    OBVIOUS
  <1>5. ASSUME NEW m \in D
        PROVE  L.next[m] \in D
    <2>1. L.next[m] \in Node
      BY <1>1
    <2>2. ~Before(L, L.next[m], k, c)
      BY <1>4
    <2> QED
      BY <2>1, <2>2
  <1>6. D \in SUBSET Node /\ Closed(L, D)
    BY <1>5 DEF Closed
  <1>7. Reaches(L, c, k)
    BY ReachesRound
  <1> HIDE DEF D
  <1> QED
    BY <1>1, <1>2, <1>3, <1>6, <1>7 DEF Reaches
-----------------------------------------------------------------------------
(* Entries shared out among lists. *)

\* Every entry of E is in a list of one of the heads of H, and the lists have
\* no other nodes in common with each other.
Partitioned(L, H, E) ==
    /\ Consistent(L, H \cup E)
    /\ \A h \in H : RoundTrip(L, h)
    /\ \A h \in H, g \in H : Reaches(L, h, g) => g = h
    /\ \A e \in E : \E h \in H : Reaches(L, h, e)

\* Then an entry is in one list only, and a list holds only entries.
LEMMA OneListEach ==
    ASSUME NEW Node, NEW H \in SUBSET Node, NEW E \in SUBSET Node, NEW L \in Links(Node),
           Partitioned(L, H, E)
    PROVE  /\ \A h \in H, g \in H : \A n : Reaches(L, h, n) /\ Reaches(L, g, n) => g = h
           /\ \A h \in H : \A n : Reaches(L, h, n) => n = h \/ n \in E
  <1> DEFINE S == H \cup E
  <1>1. S \in SUBSET Node /\ Consistent(L, S)
    BY DEF Partitioned
  <1>2. ASSUME NEW h \in H, NEW g \in H, NEW n, Reaches(L, h, n), Reaches(L, g, n)
        PROVE  g = h
    <2>1. h \in S /\ g \in S /\ RoundTrip(L, h) /\ (Reaches(L, h, g) => g = h)
      BY DEF Partitioned
    <2> HIDE DEF S
    <2> QED
      BY <1>1, <1>2, <2>1, ListsDisjoint
  <1>3. ASSUME NEW h \in H, NEW n, Reaches(L, h, n)
        PROVE  n = h \/ n \in E
    <2>1. n \in S
      <3>1. h \in S
        OBVIOUS
      <3> HIDE DEF S
      <3> QED
        BY <1>1, <1>3, <3>1, ReachesInside
    <2> QED
      BY <1>3, <2>1 DEF Partitioned
  <1> QED
    BY <1>2, <1>3

\* Adding an entry at the end of a list.
LEMMA PartitionedAdd ==
    ASSUME NEW Node, NEW H \in SUBSET Node, NEW E \in SUBSET Node, NEW L \in Links(Node),
           Partitioned(L, H, E), NEW e \in Node \ (H \cup E), NEW h \in H
    PROVE  /\ Partitioned(list_add_tail(L, e, h), H, E \cup {e})
           /\ Partitioned(list_add(L, e, h), H, E \cup {e})
           /\ \A g \in H, n \in Node :
                 Reaches(list_add_tail(L, e, h), g, n) <=> Reaches(L, g, n) \/ (n = e /\ g = h)
           /\ \A g \in H, n \in Node :
                 Reaches(list_add(L, e, h), g, n) <=> Reaches(L, g, n) \/ (n = e /\ g = h)
  <1> DEFINE S == H \cup E
  <1>1. /\ S \in SUBSET Node /\ Consistent(L, S) /\ e \in Node \ S /\ h \in S
        /\ H \subseteq S /\ E \subseteq S /\ S \cup {e} = H \cup (E \cup {e})
    BY DEF Partitioned
  <1> HIDE DEF S
  <1>2. ASSUME NEW p \in S, NEW x \in S, L.next[p] = x, Reaches(L, h, p)
        PROVE  /\ Partitioned(InsertBetween(L, e, p, x), H, E \cup {e})
               /\ \A g \in H, n \in Node :
                     Reaches(InsertBetween(L, e, p, x), g, n) <=> Reaches(L, g, n) \/ (n = e /\ g = h)
    <2> DEFINE M == InsertBetween(L, e, p, x)
    <2>1. M \in Links(Node) /\ Consistent(M, S \cup {e})
      BY <1>1, <1>2, InsertConsistent
    <2>2. ASSUME NEW g \in H, NEW n \in Node
          PROVE  Reaches(M, g, n) <=> Reaches(L, g, n) \/ (n = e /\ g = h)
      <3>1. Reaches(L, g, p) <=> g = h
        BY <1>2, OneListEach
      <3>2. g \in S /\ RoundTrip(L, g)
        BY <1>1 DEF Partitioned
      <3> HIDE DEF M
      <3>3. Reaches(M, g, n) <=> Reaches(L, g, n) \/ (n = e /\ Reaches(L, g, p))
        BY <1>1, <1>2, <3>2, InsertReaches DEF M
      <3> QED
        BY <3>1, <3>3
    <2>3. \A g \in H : RoundTrip(M, g)
      <3> SUFFICES ASSUME NEW g \in H
                   PROVE  RoundTrip(M, g)
        OBVIOUS
      <3>1. g \in S /\ RoundTrip(L, g)
        BY <1>1 DEF Partitioned
      <3> QED
        BY <1>1, <1>2, <3>1, InsertReaches
    <2> HIDE DEF M
    <2>4. \A g \in H, f \in H : Reaches(M, g, f) => f = g
      <3> SUFFICES ASSUME NEW g \in H, NEW f \in H, Reaches(M, g, f)
                   PROVE  f = g
        OBVIOUS
      <3>1. f # e /\ f \in Node
        OBVIOUS
      <3> QED
        BY <2>2, <3>1 DEF Partitioned
    <2>5. \A f \in E \cup {e} : \E g \in H : Reaches(M, g, f)
      <3> SUFFICES ASSUME NEW f \in E \cup {e}
                   PROVE  \E g \in H : Reaches(M, g, f)
        OBVIOUS
      <3>1. f \in Node
        OBVIOUS
      <3> QED
        BY <2>2, <3>1 DEF Partitioned
    <2> QED
      BY <1>1, <2>1, <2>2, <2>3, <2>4, <2>5 DEF Partitioned, M
  <1>3. /\ L.prev[h] \in S /\ L.next[L.prev[h]] = h /\ Reaches(L, h, L.prev[h])
        /\ L.next[h] \in S /\ Reaches(L, h, h)
    <2>1. h \in Node
      OBVIOUS
    <2> QED
      BY <1>1, <2>1, ReachesFacts DEF Consistent, Partitioned, RoundTrip
  <1> QED
    BY <1>1, <1>2, <1>3 DEF list_add_tail, list_add

\* Deleting an entry.
LEMMA PartitionedDelete ==
    ASSUME NEW Node, NEW H \in SUBSET Node, NEW E \in SUBSET Node, NEW L \in Links(Node),
           Partitioned(L, H, E), NEW e \in E \ H
    PROVE  /\ Partitioned(list_del_entry(L, e), H, E \ {e})
           /\ \A g \in H, n \in Node :
                 Reaches(list_del_entry(L, e), g, n) <=> Reaches(L, g, n) /\ n # e
  <1> DEFINE S == H \cup E
             M == list_del_entry(L, e)
  <1>1. /\ S \in SUBSET Node /\ Consistent(L, S) /\ e \in S
        /\ H \subseteq S \ {e} /\ S \ {e} = H \cup (E \ {e})
    BY DEF Partitioned
  <1> HIDE DEF S
  <1>2. M \in Links(Node) /\ Consistent(M, S \ {e})
    BY <1>1, DeleteConsistent
  <1>3. ASSUME NEW g \in H
        PROVE  RoundTrip(M, g) /\ \A n \in Node : Reaches(M, g, n) <=> Reaches(L, g, n) /\ n # e
    <2>1. g \in S \ {e} /\ RoundTrip(L, g)
      BY <1>1 DEF Partitioned
    <2> QED
      BY <1>1, <2>1, DeleteReaches
  <1> HIDE DEF M
  <1>4. \A g \in H, f \in H : Reaches(M, g, f) => f = g
    BY <1>3 DEF Partitioned
  <1>5. \A f \in E \ {e} : \E g \in H : Reaches(M, g, f)
    BY <1>3 DEF Partitioned
  <1> QED
    BY <1>1, <1>2, <1>3, <1>4, <1>5 DEF Partitioned, M

\* Moving an entry to the head of a list.
LEMMA PartitionedMove ==
    ASSUME NEW Node, NEW H \in SUBSET Node, NEW E \in SUBSET Node, NEW L \in Links(Node),
           Partitioned(L, H, E), NEW e \in E \ H, NEW h \in H
    PROVE  /\ Partitioned(list_move(L, e, h), H, E)
           /\ \A g \in H, n \in Node :
                 Reaches(list_move(L, e, h), g, n)
                    <=> (Reaches(L, g, n) /\ n # e) \/ (n = e /\ g = h)
  <1> DEFINE D == list_del_entry(L, e)
             F == E \ {e}
  <1>1. /\ Partitioned(D, H, F)
        /\ \A g \in H, n \in Node : Reaches(D, g, n) <=> Reaches(L, g, n) /\ n # e
    BY PartitionedDelete
  <1>2. D \in Links(Node)
    BY DEF list_del_entry, Join, Links
  <1>3. F \in SUBSET Node /\ e \in Node \ (H \cup F) /\ F \cup {e} = E
    OBVIOUS
  <1> HIDE DEF D, F
  <1>4. /\ Partitioned(list_add(D, e, h), H, F \cup {e})
        /\ \A g \in H, n \in Node :
              Reaches(list_add(D, e, h), g, n) <=> Reaches(D, g, n) \/ (n = e /\ g = h)
    <2>1. Partitioned(D, H, F)
      BY <1>1
    <2>2. F \in SUBSET Node /\ e \in Node \ (H \cup F)
      BY <1>3
    <2> QED
      BY <1>2, <2>1, <2>2, PartitionedAdd, Zenon
  <1> QED
    BY <1>1, <1>3, <1>4 DEF list_move, D

\* Moving an entry to the end of a list.
LEMMA PartitionedMoveTail ==
    ASSUME NEW Node, NEW H \in SUBSET Node, NEW E \in SUBSET Node, NEW L \in Links(Node),
           Partitioned(L, H, E), NEW e \in E \ H, NEW h \in H
    PROVE  /\ Partitioned(list_move_tail(L, e, h), H, E)
           /\ \A g \in H, n \in Node :
                 Reaches(list_move_tail(L, e, h), g, n)
                    <=> (Reaches(L, g, n) /\ n # e) \/ (n = e /\ g = h)
  <1> DEFINE D == list_del_entry(L, e)
             F == E \ {e}
  <1>1. /\ Partitioned(D, H, F)
        /\ \A g \in H, n \in Node : Reaches(D, g, n) <=> Reaches(L, g, n) /\ n # e
    BY PartitionedDelete
  <1>2. D \in Links(Node)
    BY DEF list_del_entry, Join, Links
  <1>3. F \in SUBSET Node /\ e \in Node \ (H \cup F) /\ F \cup {e} = E
    OBVIOUS
  <1> HIDE DEF D, F
  <1>4. /\ Partitioned(list_add_tail(D, e, h), H, F \cup {e})
        /\ \A g \in H, n \in Node :
              Reaches(list_add_tail(D, e, h), g, n) <=> Reaches(D, g, n) \/ (n = e /\ g = h)
    <2>1. Partitioned(D, H, F)
      BY <1>1
    <2>2. F \in SUBSET Node /\ e \in Node \ (H \cup F)
      BY <1>3
    <2> QED
      BY <1>2, <2>1, <2>2, PartitionedAdd, Zenon
  <1> QED
    BY <1>1, <1>3, <1>4 DEF list_move_tail, D

\* A new list is empty and is apart from the others.
LEMMA PartitionedNewHead ==
    ASSUME NEW Node, NEW H \in SUBSET Node, NEW E \in SUBSET Node, NEW L \in Links(Node),
           Partitioned(L, H, E), NEW s \in Node \ (H \cup E)
    PROVE  /\ Partitioned(INIT_LIST_HEAD(L, s), H \cup {s}, E)
           /\ \A g \in H, n \in Node :
                 Reaches(INIT_LIST_HEAD(L, s), g, n) <=> Reaches(L, g, n)
  <1> DEFINE S == H \cup E
             M == INIT_LIST_HEAD(L, s)
  <1>1. /\ S \in SUBSET Node /\ Consistent(L, S) /\ s \in Node \ S
        /\ H \subseteq S /\ S \cup {s} = (H \cup {s}) \cup E
    BY DEF Partitioned
  <1> HIDE DEF S
  <1>2. /\ M \in Links(Node) /\ L.next \in [Node -> Node] /\ L.prev \in [Node -> Node]
        /\ M.next = [L.next EXCEPT ![s] = s] /\ M.prev = [L.prev EXCEPT ![s] = s]
    BY DEF INIT_LIST_HEAD, Links
  <1> HIDE DEF M
  <1>3. Consistent(M, S \cup {s})
    BY <1>1, <1>2 DEF Consistent
  <1>4. ASSUME NEW g \in S, NEW n \in Node
        PROVE  Reaches(M, g, n) <=> Reaches(L, g, n)
    <2>1. g \in Node
      BY <1>1
    <2>2. ASSUME NEW A \in Links(Node), NEW B \in Links(Node), Consistent(A, S),
                 \A k \in S : A.next[k] = B.next[k], Reaches(B, g, n)
          PROVE  Reaches(A, g, n)
      <3> DEFINE R == {k \in S : Reaches(A, g, k)}
      <3>1. R \in SUBSET Node /\ g \in R
        BY <1>1, <2>1, <2>2, ReachesFacts
      <3>2. Closed(B, R)
        BY <1>1, <2>1, <2>2, ReachesFacts DEF Closed, Consistent
      <3> HIDE DEF R
      <3>3. n \in R
        BY <2>1, <2>2, <3>1, <3>2, ReachesFacts
      <3> QED
        BY <3>3 DEF R
    <2>3. Consistent(M, S) /\ \A k \in S : M.next[k] = L.next[k]
      BY <1>1, <1>2 DEF Consistent
    <2> QED
      BY <1>1, <1>2, <2>2, <2>3
  <1>5. RoundTrip(M, s) /\ \A n \in Node : Reaches(M, s, n) => n = s
    <2>1. Closed(M, {s}) /\ M.prev[s] = s /\ s \in Node
      BY <1>2 DEF Closed
    <2> QED
      BY <1>2, <2>1, ReachesFacts DEF RoundTrip
  <1>6. \A g \in H : RoundTrip(M, g)
    <2> SUFFICES ASSUME NEW g \in H
                 PROVE  RoundTrip(M, g)
      OBVIOUS
    <2>1. g \in S /\ M.prev[g] = L.prev[g] /\ L.prev[g] \in Node /\ RoundTrip(L, g)
      BY <1>1, <1>2 DEF Partitioned
    <2> QED
      BY <1>4, <2>1 DEF RoundTrip
  <1>7. ASSUME NEW g \in H, Reaches(M, g, s)
        PROVE  FALSE
    <2>1. Reaches(L, g, s)
      BY <1>1, <1>4, <1>7
    <2> QED
      BY <1>1, <2>1, ReachesInside
  <1>8. \A g \in H \cup {s}, f \in H \cup {s} : Reaches(M, g, f) => f = g
    BY <1>1, <1>4, <1>5, <1>7 DEF Partitioned
  <1>9. \A e \in E : \E g \in H \cup {s} : Reaches(M, g, e)
    BY <1>1, <1>4 DEF Partitioned
  <1> QED
    BY <1>1, <1>3, <1>4, <1>5, <1>6, <1>8, <1>9 DEF Partitioned, M

\* An empty list can be given up.
LEMMA PartitionedDropHead ==
    ASSUME NEW Node, NEW H \in SUBSET Node, NEW E \in SUBSET Node, NEW L \in Links(Node),
           Partitioned(L, H, E), NEW s \in H \ E, L.next[s] = s
    PROVE  Partitioned(L, H \ {s}, E)
  <1>1. Consistent(L, (H \ {s}) \cup E)
    <2>1. L.prev[s] = s
      BY DEF Partitioned, Consistent
    <2> QED
      BY <2>1 DEF Partitioned, Consistent
  <1>2. \A n \in Node : Reaches(L, s, n) => n = s
    <2>1. Closed(L, {s}) /\ s \in Node
      BY DEF Closed
    <2> QED
      BY <2>1, ReachesFacts
  <1>3. \A e \in E : \E h \in H \ {s} : Reaches(L, h, e)
    BY <1>2 DEF Partitioned
  <1> QED
    BY <1>1, <1>3 DEF Partitioned
=============================================================================
