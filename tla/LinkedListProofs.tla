-------------------------- MODULE LinkedListProofs --------------------------
(***************************************************************************)
(* For any heads and entries, no sequence of the operations of llist.h     *)
(* that the kernel uses leaves a list that leads to a deleted entry or     *)
(* whose next and prev disagree; and the lists are sequences: LinkedList   *)
(* implements TaskLists.                                                   *)
(***************************************************************************)
EXTENDS LinkedList, LinkedListLemmas, SequencesExt, FiniteSetTheorems, SequenceTheorems,
        WellFoundedInduction

IInv == TypeOK /\ PointersInverse

LEMMA InitInductive == Init => IInv
  <1> SUFFICES ASSUME Init
               PROVE  IInv
    OBVIOUS
  <1>1. ListHead \cup {} \in SUBSET Node
    BY DEF Node
  <1> QED
    BY <1>1, InitialConsistent DEF Init, IInv, TypeOK, PointersInverse

LEMMA NextInductive == IInv /\ [Next]_vars => IInv'
  <1> SUFFICES ASSUME IInv, [Next]_vars
               PROVE  IInv'
    OBVIOUS
  <1> DEFINE S == ListHead \cup listed
  <1>1. /\ links \in Links(Node) /\ listed \subseteq Entry
        /\ S \in SUBSET Node /\ Consistent(links, S)
    BY DEF IInv, TypeOK, PointersInverse, Node
  <1>2. ASSUME NEW e \in Entry, NEW h \in ListHead, Add(e, h) \/ AddTail(e, h)
        PROVE  IInv'
    <2>1. e \in Node \ S /\ h \in S /\ S \cup {e} = ListHead \cup (listed \cup {e})
      BY <1>2, NodesDiffer DEF Add, AddTail, Node
    <2>2. /\ links' \in Links(Node)
          /\ Consistent(links', S \cup {e})
      <3>1. links' = list_add(links, e, h) \/ links' = list_add_tail(links, e, h)
        BY <1>2 DEF Add, AddTail
      <3> HIDE DEF S
      <3> QED
        <4>1. e \in Node \ S /\ h \in S
          BY <2>1
        <4>2. /\ list_add(links, e, h) \in Links(Node)
              /\ Consistent(list_add(links, e, h), S \cup {e})
              /\ list_add_tail(links, e, h) \in Links(Node)
              /\ Consistent(list_add_tail(links, e, h), S \cup {e})
          BY <1>1, <4>1, AddConsistent
        <4> QED
          BY <3>1, <4>2
    <2>3. listed' = listed \cup {e}
      BY <1>2 DEF Add, AddTail
    <2> QED
      BY <1>1, <2>1, <2>2, <2>3 DEF IInv, TypeOK, PointersInverse
  <1>3. ASSUME NEW e \in Entry, Delete(e)
        PROVE  IInv'
    <2>1. e \in S /\ S \ {e} = ListHead \cup (listed \ {e})
      BY <1>3, NodesDiffer DEF Delete
    <2>2. /\ links' \in Links(Node)
          /\ Consistent(links', S \ {e})
      BY <1>1, <1>3, <2>1, DeleteConsistent DEF Delete
    <2> QED
      BY <1>1, <1>3, <2>1, <2>2 DEF Delete, IInv, TypeOK, PointersInverse
  <1>4. ASSUME NEW e \in Entry, NEW h \in ListHead, Move(e, h) \/ MoveTail(e, h)
        PROVE  IInv'
    <2>1. e \in S /\ h \in S \ {e}
      BY <1>4, NodesDiffer DEF Move, MoveTail
    <2>2. /\ links' \in Links(Node)
          /\ Consistent(links', S)
      <3>1. links' = list_move(links, e, h) \/ links' = list_move_tail(links, e, h)
        BY <1>4 DEF Move, MoveTail
      <3> HIDE DEF S
      <3> QED
        BY <1>1, <2>1, <3>1, MoveConsistent
    <2> QED
      BY <1>1, <1>4, <2>2 DEF Move, MoveTail, IInv, TypeOK, PointersInverse
  <1>5. ASSUME UNCHANGED vars
        PROVE  IInv'
    BY <1>5 DEF vars, IInv, TypeOK, PointersInverse
  <1> QED
    BY <1>2, <1>3, <1>4, <1>5 DEF Next

\* No list ever leads to a deleted entry, and its two directions agree
\* (llist.h lines 43-140), for any number of lists and entries.
THEOREM ListsNeverDangle == Spec => []PointersInverse
  <1>1. IInv => PointersInverse
    BY DEF IInv
  <1> QED
    BY <1>1, InitInductive, NextInductive, PTL DEF Spec

-----------------------------------------------------------------------------
(* A traversal visits the sequence that the pointers stand for. *)

\* The head h and the entries s of its list, counted from the head.
At(h, s, i) == IF i = 0 THEN h ELSE s[i]

\* The pointers next lead from h through s and back to h.
Represents(L, h, s) ==
    /\ \A i \in 0 .. Len(s) : L.next[At(h, s, i)] = IF i = Len(s) THEN h ELSE s[i + 1]
    /\ \A i, j \in 0 .. Len(s) : At(h, s, i) = At(h, s, j) => i = j

LEMMA RoundAndRound ==
    ASSUME NEW m \in Nat, m > 0, NEW i \in Nat, i > 0
    PROVE  i % m = IF (i - 1) % m = m - 1 THEN 0 ELSE ((i - 1) % m) + 1
<1> DEFINE o == (i - 1) % m
           q == (i - 1) \div m
<1>1. o \in 0 .. m - 1 /\ q \in Int /\ i - 1 = m * q + o
  OBVIOUS
<1> HIDE DEF o, q
<1>2. CASE o = m - 1
  <2> DEFINE j == q + 1
  <2>1. i = m * j + 0 /\ j \in Int /\ 0 \in 0 .. m - 1
    BY <1>1, <1>2
  <2> HIDE DEF j
  <2>2. i % m = 0
    BY <2>1
  <2> QED  BY <1>2, <2>2 DEF o
<1>3. CASE o # m - 1
  <2>1. i = m * q + (o + 1) /\ o + 1 \in 0 .. m - 1
    BY <1>1, <1>3
  <2>2. i % m = o + 1
    BY <1>1, <2>1
  <2> QED  BY <1>3, <2>2 DEF o
<1>4. QED
  BY <1>2, <1>3

\* next, followed again and again, goes round the ring.
LEMMA NodeAfterIs ==
    ASSUME NEW L, NEW h, NEW E, NEW s \in Seq(E), Represents(L, h, s)
    PROVE  \A i \in Nat : NodeAfter(L, h)[i] = At(h, s, i % (Len(s) + 1))
<1> DEFINE m == Len(s) + 1
           f == [i \in Nat |-> At(h, s, i % m)]
           N == NodeAfter(L, h)
<1>1. m \in Nat /\ m > 0
  OBVIOUS
<1>2. f = [i \in Nat |-> IF i = 0 THEN h ELSE L.next[f[i - 1]]]
  <2>1. ASSUME NEW i \in Nat
        PROVE  f[i] = IF i = 0 THEN h ELSE L.next[f[i - 1]]
    <3>1. CASE i = 0
      <4>1. 0 % m = 0
        BY <1>1
      <4> QED  BY <3>1, <4>1 DEF At
    <3>2. CASE i # 0
      <4> DEFINE o == (i - 1) % m
      <4>1. i % m = IF o = m - 1 THEN 0 ELSE o + 1
        <5>1. i > 0
          BY <3>2
        <5> HIDE DEF m
        <5>2. i % m = IF (i - 1) % m = m - 1 THEN 0 ELSE ((i - 1) % m) + 1
          BY <1>1, <5>1, RoundAndRound
        <5> QED  BY <5>2
      <4>2. o \in 0 .. Len(s) /\ i - 1 \in Nat
        BY <1>1, <3>2
      <4>3. f[i - 1] = At(h, s, o) /\ f[i] = At(h, s, i % m)
        BY <4>2
      <4> HIDE DEF o, f
      <4>4. L.next[At(h, s, o)] = IF o = Len(s) THEN h ELSE s[o + 1]
        BY <4>2 DEF Represents
      <4>5. o = Len(s) <=> o = m - 1
        BY <4>2
      <4> HIDE DEF m
      <4> QED  BY <3>2, <4>1, <4>2, <4>3, <4>4, <4>5 DEF At
    <3> QED  BY <3>1, <3>2
  <2> HIDE DEF f
  <2>2. f = [i \in Nat |-> f[i]]
    BY DEF f
  <2> QED  BY <2>1, <2>2
<1> HIDE DEF f
<1>3. N = [i \in Nat |-> IF i = 0 THEN h ELSE L.next[N[i - 1]]]
  BY <1>2 DEF NodeAfter
<1> HIDE DEF N
<1>4. \A i \in Nat : N[i] = f[i]
  <2> DEFINE D == {i \in Nat : N[i] # f[i]}
  <2> SUFFICES ASSUME D # {} PROVE FALSE
    OBVIOUS
  <2>1. PICK x \in D : \A y \in D : ~(<<y, x>> \in OpToRel(<, Nat))
    BY WFMin, NatLessThanWellFounded
  <2>2. x \in Nat /\ N[x] # f[x]
    OBVIOUS
  <2>3. \A y \in D : ~(y < x)
    BY <2>1, <2>2 DEF OpToRel
  <2>4. CASE x = 0
    BY <1>2, <1>3, <2>2, <2>4
  <2>5. CASE x # 0
    <3>1. x - 1 \in Nat /\ x - 1 < x
      BY <2>2, <2>5
    <3>2. N[x - 1] = f[x - 1]
      BY <2>3, <3>1
    <3>3. N[x] = L.next[N[x - 1]]
      BY <1>3, <2>2, <2>5
    <3>4. f[x] = L.next[f[x - 1]]
      BY <1>2, <2>2, <2>5
    <3> QED  BY <2>2, <3>2, <3>3, <3>4
  <2> QED  BY <2>4, <2>5
<1>5. QED
  BY <1>4 DEF f, N

\* So a traversal ends, and visits s.
LEMMA ElementsAre ==
    ASSUME NEW Nodes, IsFiniteSet(Nodes), NEW L \in Links(Nodes), NEW h \in Nodes,
           NEW s \in Seq(Nodes), Represents(L, h, s)
    PROVE  Elements(L, h) = s
<1> DEFINE n == Len(s)
           C == Cardinality(DOMAIN L.next)
           N == NodeAfter(L, h)
           Ends(k) == N[k + 1] = h /\ \A i \in 1 .. k : N[i] # h
           length == CHOOSE k \in 0 .. C : Ends(k)
<1>1. n \in Nat /\ C \in Nat /\ n <= C
  <2>1. DOMAIN L.next = Nodes
    BY DEF Links
  <2>2. \A i, j \in 1 .. n : s[i] = s[j] => i = j
    BY DEF Represents, At
  <2>3. s \in Injection(1 .. n, Nodes)
    BY <2>2 DEF Injection, IsInjective
  <2>4. Cardinality(1 .. n) <= Cardinality(Nodes) /\ Cardinality(1 .. n) = n
    <3>1. Cardinality(1 .. n) <= Cardinality(Nodes)
      BY <2>3, FS_Injection
    <3>2. n \in Nat
      OBVIOUS
    <3> HIDE DEF n
    <3>3. Cardinality(1 .. n) = n
      <4>1. Cardinality(1 .. n) = IF 1 > n THEN 0 ELSE n - 1 + 1
        BY <3>2, FS_Interval
      <4> QED  BY <3>2, <4>1
    <3> QED  BY <3>1, <3>3
  <2>5. Cardinality(Nodes) \in Nat
    BY FS_CardinalityType
  <2> QED  BY <2>1, <2>4, <2>5
<1>2. \A i \in Nat : N[i] = At(h, s, i % (n + 1))
  BY NodeAfterIs
<1>3. ASSUME NEW i \in 1 .. n PROVE N[i] = s[i] /\ N[i] # h
  <2>1. i % (n + 1) = i
    BY <1>1
  <2>2. N[i] = s[i]
    <3>1. N[i] = At(h, s, i % (n + 1)) /\ i # 0
      BY <1>1, <1>2
    <3> HIDE DEF N, n
    <3> QED  BY <2>1, <3>1 DEF At
  <2>3. At(h, s, i) # At(h, s, 0)
    BY <1>1 DEF Represents
  <2> QED  BY <2>2, <2>3 DEF At
<1>4. N[n + 1] = h
  <2>1. (n + 1) % (n + 1) = 0
    BY <1>1
  <2>2. N[n + 1] = At(h, s, (n + 1) % (n + 1))
    BY <1>1, <1>2
  <2> HIDE DEF N, n
  <2> QED  BY <2>1, <2>2 DEF At
<1>5. Elements(L, h) = [i \in 1 .. length |-> N[i]]
  BY DEF Elements
<1> HIDE DEF C, N, n
<1>6. length = n
  <2>1. n \in 0 .. C /\ Ends(n)
    BY <1>1, <1>3, <1>4
  <2>2. ASSUME NEW k \in 0 .. C, Ends(k) PROVE k = n
    <3>1. CASE k < n
      <4>1. k + 1 \in 1 .. n
        BY <1>1, <3>1
      <4> QED  BY <1>3, <2>2, <4>1
    <3>2. CASE k > n
      <4>1. n + 1 \in 1 .. k
        BY <1>1, <3>2
      <4> QED  BY <1>4, <2>2, <4>1
    <3> QED  BY <1>1, <3>1, <3>2
  <2> QED  BY <2>1, <2>2
<1> HIDE DEF length
<1>7. s = [i \in 1 .. n |-> s[i]]
  BY DEF n
<1>8. QED
  BY <1>3, <1>5, <1>6, <1>7

-----------------------------------------------------------------------------
(* What the operations do to the sequences. *)

\* The pointers L stand for the sequences l, in which the entries of S are.
Shape(L, S, l) ==
    /\ l \in [ListHead -> Seq(Entry)]
    /\ \A h \in ListHead : Represents(L, h, l[h])
    /\ \A g, h \in ListHead : \A i \in 1 .. Len(l[g]), j \in 1 .. Len(l[h]) :
          l[g][i] = l[h][j] => g = h
    /\ \A e \in Entry : e \in S <=> \E h \in ListHead : \E i \in 1 .. Len(l[h]) : l[h][i] = e

\* RemoveAt, by its elements.
LEMMA RemoveAtIs ==
    ASSUME NEW E, NEW s \in Seq(E), NEW k \in 1 .. Len(s)
    PROVE  /\ RemoveAt(s, k) \in Seq(E)
           /\ Len(RemoveAt(s, k)) = Len(s) - 1
           /\ \A i \in 1 .. Len(s) - 1 : RemoveAt(s, k)[i] = IF i < k THEN s[i] ELSE s[i + 1]
<1> DEFINE a == SubSeq(s, 1, k - 1)
           b == SubSeq(s, k + 1, Len(s))
<1>1. a \in Seq(E) /\ Len(a) = k - 1 /\ \A i \in 1 .. k - 1 : a[i] = s[i]
  OBVIOUS
<1>2. b \in Seq(E) /\ Len(b) = Len(s) - k /\ \A i \in 1 .. Len(s) - k : b[i] = s[k + i]
  OBVIOUS
<1>3. RemoveAt(s, k) = a \o b
  BY DEF RemoveAt
<1> HIDE DEF a, b
<1> DEFINE d == a \o b
<1>4. /\ d \in Seq(E) /\ Len(d) = Len(a) + Len(b)
      /\ \A i \in 1 .. Len(a) + Len(b) : d[i] = IF i <= Len(a) THEN a[i] ELSE b[i - Len(a)]
  BY <1>1, <1>2, ConcatProperties
<1> HIDE DEF d
<1>5. ASSUME NEW i \in 1 .. Len(s) - 1
      PROVE  d[i] = IF i < k THEN s[i] ELSE s[i + 1]
  <2>1. i \in 1 .. Len(a) + Len(b)
    BY <1>1, <1>2
  <2>2. CASE i < k
    <3>1. i <= Len(a) /\ i \in 1 .. k - 1
      BY <2>2, <1>1
    <3> QED  BY <1>1, <1>4, <2>1, <2>2, <3>1
  <2>3. CASE ~(i < k)
    <3>1. i - (k - 1) \in 1 .. Len(s) - k /\ k + (i - (k - 1)) = i + 1
      BY <2>3
    <3>2. ~(i <= Len(a)) /\ Len(a) = k - 1
      BY <2>3, <1>1
    <3>3. d[i] = b[i - (k - 1)]
      BY <1>4, <2>1, <3>2
    <3>4. b[i - (k - 1)] = s[k + (i - (k - 1))]
      BY <1>2, <3>1
    <3> QED  BY <2>3, <3>1, <3>3, <3>4
  <2> QED  BY <2>2, <2>3
<1>6. QED
  BY <1>1, <1>2, <1>3, <1>4, <1>5 DEF d

\* The nodes of two lists are different.
LEMMA NodesApart ==
    ASSUME NEW L, NEW S, NEW l, Shape(L, S, l), NEW g \in ListHead, NEW h \in ListHead, g # h,
           NEW i \in 0 .. Len(l[g]), NEW j \in 0 .. Len(l[h])
    PROVE  At(g, l[g], i) # At(h, l[h], j)
<1>1. l[g] \in Seq(Entry) /\ l[h] \in Seq(Entry)
  BY DEF Shape
<1>2. i # 0 => i \in 1 .. Len(l[g]) /\ l[g][i] \in Entry
  BY <1>1
<1>3. j # 0 => j \in 1 .. Len(l[h]) /\ l[h][j] \in Entry
  BY <1>1
<1>4. g \notin Entry /\ h \notin Entry
  BY NodesDiffer
<1>5. i # 0 /\ j # 0 => l[g][i] # l[h][j]
  BY <1>2, <1>3 DEF Shape
<1>6. QED
  BY <1>2, <1>3, <1>4, <1>5 DEF At

\* __list_del_entry takes the k-th entry out of its sequence.
LEMMA DeleteShape ==
    ASSUME NEW L \in Links(Node), NEW S \in SUBSET Entry, Consistent(L, ListHead \cup S),
           NEW l, Shape(L, S, l),
           NEW g \in ListHead, NEW k \in 1 .. Len(l[g]), NEW e, e = l[g][k]
    PROVE  Shape(list_del_entry(L, e), S \ {e}, [l EXCEPT ![g] = RemoveAt(@, k)])
<1> DEFINE s == l[g]
           n == Len(s)
           p == At(g, s, k - 1)
           M == list_del_entry(L, e)
           t == RemoveAt(s, k)
           m == [l EXCEPT ![g] = t]
<1>1. /\ l \in [ListHead -> Seq(Entry)] /\ s \in Seq(Entry) /\ n \in Nat
      /\ e \in Entry /\ e \in S
      /\ L.next \in [Node -> Node] /\ L.prev \in [Node -> Node]
  BY DEF Shape, Links
<1>2. /\ t \in Seq(Entry) /\ Len(t) = n - 1
      /\ \A i \in 1 .. n - 1 : t[i] = IF i < k THEN s[i] ELSE s[i + 1]
  <2> HIDE DEF s
  <2> QED  BY <1>1, RemoveAtIs DEF s
<1>3. /\ m \in [ListHead -> Seq(Entry)] /\ m[g] = t /\ \A h \in ListHead \ {g} : m[h] = l[h]
  <2> HIDE DEF t
  <2> QED  BY <1>1, <1>2
<1>ring. Represents(L, g, s)
  BY DEF Shape
<1>4. p \in Node /\ p \in ListHead \cup S /\ L.next[p] = e /\ L.prev[e] = p
  <2>1. k - 1 \in 0 .. n /\ k - 1 # n /\ k - 1 + 1 = k
    BY <1>1
  <2>2. L.next[p] = s[k - 1 + 1]
    BY <1>ring, <2>1 DEF Represents
  <2>3. L.next[p] = e
    BY <2>1, <2>2
  <2>4. p \in ListHead \cup S
    <3>1. CASE k - 1 = 0
      BY <3>1 DEF At
    <3>2. CASE k - 1 # 0
      <4>1. k - 1 \in 1 .. n
        BY <2>1, <3>2
      <4>2. s[k - 1] \in Entry
        BY <1>1, <4>1
      <4>3. s[k - 1] \in S
        BY <4>1, <4>2 DEF Shape
      <4> QED  BY <3>2, <4>3 DEF At
    <3> QED  BY <3>1, <3>2
  <2>5. L.prev[L.next[p]] = p
    <3> HIDE DEF p
    <3> QED  BY <2>4 DEF Consistent
  <2>6. p \in Node
    <3> HIDE DEF p
    <3> QED  BY <2>4 DEF Node
  <2> HIDE DEF p
  <2> QED  BY <2>3, <2>4, <2>5, <2>6
<1>5. M.next = [L.next EXCEPT ![p] = L.next[e]]
  <2> HIDE DEF p
  <2> QED  BY <1>4 DEF list_del_entry, Join
<1> HIDE DEF M, t, m
<1>6. ASSUME NEW x, x \in Node PROVE M.next[x] = IF x = p THEN L.next[e] ELSE L.next[x]
  <2> HIDE DEF p
  <2> QED  BY <1>1, <1>4, <1>5, <1>6
<1>7. ASSUME NEW h \in ListHead, h # g PROVE Represents(M, h, m[h])
  <2>1. m[h] = l[h] /\ Represents(L, h, l[h]) /\ l[h] \in Seq(Entry)
    BY <1>1, <1>3, <1>7 DEF Shape
  <2>2. ASSUME NEW i \in 0 .. Len(l[h]) PROVE M.next[At(h, l[h], i)] = L.next[At(h, l[h], i)]
    <3>1. k - 1 \in 0 .. Len(l[g])
      BY <1>1
    <3>2. At(h, l[h], i) # p
      BY <1>7, <3>1, NodesApart
    <3>3. At(h, l[h], i) \in Node
      BY <2>1 DEF At, Node
    <3> HIDE DEF p
    <3> QED  BY <1>6, <3>2, <3>3
  <2> QED  BY <2>1, <2>2 DEF Represents
\* Where the nodes of the new sequence were in the old one.
<1> DEFINE Old(i) == IF i < k THEN i ELSE i + 1
<1>8. ASSUME NEW i \in 0 .. n - 1
      PROVE  Old(i) \in 0 .. n /\ Old(i) # k /\ At(g, t, i) = At(g, s, Old(i))
  <2>1. Old(i) \in 0 .. n /\ Old(i) # k /\ (i = 0 <=> Old(i) = 0)
    BY <1>1
  <2>2. i # 0 => t[i] = s[Old(i)]
    BY <1>1, <1>2
  <2> HIDE DEF Old, s
  <2> QED  BY <2>1, <2>2 DEF At
<1>9. Represents(M, g, t)
  <2>1. ASSUME NEW i \in 0 .. n - 1
        PROVE  M.next[At(g, t, i)] = IF i = n - 1 THEN g ELSE t[i + 1]
    <3> DEFINE x == At(g, s, Old(i))
    <3>1. x = At(g, t, i) /\ Old(i) \in 0 .. n
      BY <1>8
    <3>2. x \in Node
      <4>1. Old(i) # 0 => s[Old(i)] \in Entry
        BY <1>1, <3>1
      <4> HIDE DEF Old
      <4> QED  BY <4>1 DEF At, Node
    <3>3. L.next[x] = IF Old(i) = n THEN g ELSE s[Old(i) + 1]
      <4> HIDE DEF Old
      <4> QED  BY <1>ring, <3>1 DEF Represents
    <3>4. L.next[e] = IF k = n THEN g ELSE s[k + 1]
      BY <1>1, <1>ring DEF Represents, At
    <3>5. x = p <=> i = k - 1
      <4>1. k - 1 \in 0 .. n
        BY <1>1
      <4>2. x = p <=> Old(i) = k - 1
        <5> HIDE DEF Old
        <5> QED  BY <1>ring, <3>1, <4>1 DEF Represents
      <4> QED  BY <4>2
    <3>6. M.next[x] = IF x = p THEN L.next[e] ELSE L.next[x]
      <4> HIDE DEF x, p
      <4> QED  BY <1>6, <3>2
    <3>7. i # n - 1 => i + 1 \in 1 .. n - 1
      BY <1>1
    <3> HIDE DEF x, p
    <3>8. CASE i = k - 1
      <4>1. M.next[x] = IF k = n THEN g ELSE s[k + 1]
        BY <3>4, <3>5, <3>6, <3>8
      <4>2. i # n - 1 => t[i + 1] = s[k + 1]
        BY <1>2, <3>7, <3>8
      <4> QED  BY <1>1, <3>1, <3>8, <4>1, <4>2
    <3>9. CASE i # k - 1
      <4>1. M.next[x] = IF Old(i) = n THEN g ELSE s[Old(i) + 1]
        BY <3>3, <3>5, <3>6, <3>9
      <4>2. i # n - 1 => t[i + 1] = s[Old(i) + 1]
        <5>1. i # n - 1 => t[i + 1] = IF i + 1 < k THEN s[i + 1] ELSE s[i + 1 + 1]
          BY <1>2, <3>7
        <5>2. i + 1 < k <=> i < k
          BY <3>9
        <5>3. CASE i < k
          BY <5>1, <5>2, <5>3
        <5>4. CASE ~(i < k)
          BY <5>1, <5>2, <5>4
        <5> QED  BY <5>3, <5>4
      <4>3. Old(i) = n <=> i = n - 1
        BY <1>1, <3>9
      <4> QED  BY <3>1, <4>1, <4>2, <4>3
    <3> QED  BY <3>8, <3>9
  <2>2. ASSUME NEW i \in 0 .. n - 1, NEW j \in 0 .. n - 1, At(g, t, i) = At(g, t, j)
        PROVE  i = j
    <3>1. Old(i) = Old(j)
      <4>1. Old(i) \in 0 .. n /\ Old(j) \in 0 .. n /\ At(g, s, Old(i)) = At(g, s, Old(j))
        BY <1>8, <2>2
      <4> HIDE DEF Old
      <4> QED  BY <1>ring, <4>1 DEF Represents
    <3> QED  BY <3>1
  <2> QED  BY <1>2, <2>1, <2>2 DEF Represents
<1>10. ASSUME NEW h \in ListHead, NEW x \in Entry
       PROVE  (\E i \in 1 .. Len(m[h]) : m[h][i] = x)
                 <=> x # e /\ \E i \in 1 .. Len(l[h]) : l[h][i] = x
  <2>1. CASE h # g
    <3>1. m[h] = l[h]
      BY <1>3, <2>1
    <3>2. \A i \in 1 .. Len(l[h]) : l[h][i] # e
      BY <2>1 DEF Shape
    <3> QED  BY <3>1, <3>2
  <2>2. CASE h = g
    <3>1. ASSUME NEW i \in 1 .. n - 1, t[i] = x
          PROVE  x # e /\ \E j \in 1 .. n : s[j] = x
      <4>1. Old(i) \in 1 .. n /\ Old(i) # k /\ t[i] = s[Old(i)]
        BY <1>1, <1>2
      <4>2. Old(i) \in 0 .. n /\ k \in 0 .. n /\ At(g, s, Old(i)) = x /\ At(g, s, k) = e
        BY <1>1, <3>1, <4>1 DEF At
      <4> HIDE DEF Old
      <4> QED  BY <1>ring, <3>1, <4>1, <4>2 DEF Represents
    <3>2. ASSUME NEW j \in 1 .. n, s[j] = x, x # e
          PROVE  \E i \in 1 .. n - 1 : t[i] = x
      <4>1. j # k
        BY <3>2
      <4>2. CASE j < k
        BY <1>1, <1>2, <3>2, <4>2, j \in 1 .. n - 1
      <4>3. CASE j > k
        <5>1. j - 1 \in 1 .. n - 1 /\ ~(j - 1 < k) /\ j - 1 + 1 = j
          BY <1>1, <4>3
        <5>2. t[j - 1] = s[j]
          BY <1>2, <5>1
        <5> QED  BY <3>2, <5>1, <5>2
      <4> QED  BY <1>1, <4>1, <4>2, <4>3
    <3> QED  BY <1>2, <1>3, <2>2, <3>1, <3>2
  <2> QED  BY <2>1, <2>2
<1>11. Shape(M, S \ {e}, m)
  <2>1. \A h \in ListHead : Represents(M, h, m[h])
    BY <1>3, <1>7, <1>9
  <2>2. ASSUME NEW f \in ListHead, NEW h \in ListHead,
               NEW i \in 1 .. Len(m[f]), NEW j \in 1 .. Len(m[h]), m[f][i] = m[h][j]
        PROVE  f = h
    <3>1. m[f][i] \in Entry
      BY <1>3
    <3>2. /\ \E a \in 1 .. Len(l[f]) : l[f][a] = m[f][i]
          /\ \E a \in 1 .. Len(l[h]) : l[h][a] = m[f][i]
      BY <1>10, <2>2, <3>1
    <3> QED  BY <3>2 DEF Shape
  <2>3. \A x \in Entry : x \in S \ {e} <=> \E h \in ListHead : \E i \in 1 .. Len(m[h]) : m[h][i] = x
    <3> SUFFICES ASSUME NEW x \in Entry
                 PROVE  x \in S \ {e} <=> \E h \in ListHead : \E i \in 1 .. Len(m[h]) : m[h][i] = x
      OBVIOUS
    <3>1. x \in S <=> \E h \in ListHead : \E i \in 1 .. Len(l[h]) : l[h][i] = x
      BY DEF Shape
    <3>2. \A h \in ListHead : (\E i \in 1 .. Len(m[h]) : m[h][i] = x)
                               <=> x # e /\ \E i \in 1 .. Len(l[h]) : l[h][i] = x
      BY <1>10
    <3> QED  BY <3>1, <3>2, Zenon
  <2> QED  BY <1>3, <2>1, <2>2, <2>3 DEF Shape
<1>12. QED
  BY <1>11 DEF M, m, t

\* __list_add puts an entry that is in no list behind the k-th node of h.
LEMMA InsertShape ==
    ASSUME NEW L \in Links(Node), NEW S \in SUBSET Entry, NEW l, Shape(L, S, l),
           NEW h \in ListHead, NEW k \in 0 .. Len(l[h]), NEW e \in Entry, e \notin S,
           NEW t \in Seq(Entry), Len(t) = Len(l[h]) + 1,
           \A i \in 1 .. Len(t) : t[i] = IF i <= k THEN l[h][i] ELSE IF i = k + 1 THEN e ELSE l[h][i - 1],
           NEW p, p = At(h, l[h], k)
    PROVE  Shape(InsertBetween(L, e, p, L.next[p]), S \cup {e}, [l EXCEPT ![h] = t])
<1> DEFINE s == l[h]
           n == Len(s)
           M == InsertBetween(L, e, p, L.next[p])
           m == [l EXCEPT ![h] = t]
<1>1. /\ l \in [ListHead -> Seq(Entry)] /\ s \in Seq(Entry) /\ n \in Nat
      /\ L.next \in [Node -> Node]
      /\ Represents(L, h, s)
  BY DEF Shape, Links
<1>2. /\ m \in [ListHead -> Seq(Entry)] /\ m[h] = t /\ \A g \in ListHead \ {h} : m[g] = l[g]
  <2> HIDE DEF s, n
  <2> QED  BY <1>1
\* No list leads to e.
<1>3. ASSUME NEW g \in ListHead, NEW i \in 0 .. Len(l[g]) PROVE At(g, l[g], i) \in Node \ {e}
  <2>1. CASE i = 0
    BY <2>1, NodesDiffer DEF At, Node
  <2>2. CASE i # 0
    <3>1. i \in 1 .. Len(l[g])
      BY <2>2
    <3>2. l[g][i] \in Entry
      BY <1>1, <3>1
    <3>3. l[g][i] \in S
      BY <3>1, <3>2 DEF Shape
    <3> QED  BY <2>2, <3>2, <3>3 DEF At, Node
  <2> QED  BY <2>1, <2>2
<1>4. p \in Node \ {e} /\ e \in Node
  <2>1. p \in Node \ {e}
    <3> HIDE DEF s, n
    <3> QED  BY <1>3
  <2> QED  BY <2>1 DEF Node
<1>5. M.next = [L.next EXCEPT ![e] = L.next[p], ![p] = e]
  BY DEF InsertBetween
<1> HIDE DEF M, m
<1>6. /\ M.next[e] = L.next[p] /\ M.next[p] = e
      /\ \A x \in Node \ {e} : x # p => M.next[x] = L.next[x]
  BY <1>1, <1>4, <1>5
<1>7. ASSUME NEW g \in ListHead, g # h PROVE Represents(M, g, m[g])
  <2>1. m[g] = l[g] /\ Represents(L, g, l[g])
    BY <1>2, <1>7 DEF Shape
  <2>2. ASSUME NEW i \in 0 .. Len(l[g]) PROVE M.next[At(g, l[g], i)] = L.next[At(g, l[g], i)]
    <3>1. At(g, l[g], i) # p
      <4> HIDE DEF s, n
      <4> QED  BY <1>7, NodesApart
    <3> QED  BY <1>3, <1>6, <3>1
  <2> QED  BY <2>1, <2>2 DEF Represents
\* Where the other nodes of the new sequence were in the old one.
<1> DEFINE Old(i) == IF i <= k THEN i ELSE i - 1
<1>8. ASSUME NEW i \in 0 .. n + 1, i # k + 1
      PROVE  Old(i) \in 0 .. n /\ At(h, t, i) = At(h, s, Old(i))
  <2>1. Old(i) \in 0 .. n /\ (i = 0 <=> Old(i) = 0)
    BY <1>1, <1>8
  <2>2. i # 0 => t[i] = s[Old(i)]
    BY <1>1, <1>8
  <2> HIDE DEF Old, s
  <2> QED  BY <2>1, <2>2 DEF At
<1>9. At(h, t, k + 1) = e
  <2>1. t[k + 1] = e /\ k + 1 # 0
    BY <1>1
  <2> QED  BY <2>1 DEF At
<1>10. Represents(M, h, t)
  <2>1. ASSUME NEW i \in 0 .. n + 1, i # k + 1
        PROVE  M.next[At(h, t, i)] = IF i = n + 1 THEN h ELSE t[i + 1]
    <3> DEFINE x == At(h, s, Old(i))
    <3>1. x = At(h, t, i) /\ Old(i) \in 0 .. n
      BY <1>8, <2>1
    <3>2. x \in Node \ {e}
      <4> HIDE DEF Old
      <4> QED  BY <1>3, <3>1
    <3>3. L.next[x] = IF Old(i) = n THEN h ELSE s[Old(i) + 1]
      <4> HIDE DEF Old
      <4> QED  BY <1>1, <3>1 DEF Represents
    <3>4. x = p <=> i = k
      <4>1. k \in 0 .. n
        BY <1>1
      <4>2. x = p <=> Old(i) = k
        <5> HIDE DEF Old
        <5> QED  BY <1>1, <3>1, <4>1 DEF Represents
      <4> QED  BY <2>1, <4>2
    <3>5. CASE i = k
      <4>1. M.next[x] = e
        BY <1>6, <3>4, <3>5
      <4>2. t[i + 1] = e /\ i # n + 1
        BY <1>1, <3>5
      <4> QED  BY <3>1, <4>1, <4>2
    <3>6. CASE i # k
      <4>1. M.next[x] = IF Old(i) = n THEN h ELSE s[Old(i) + 1]
        <5> HIDE DEF x, Old
        <5> QED  BY <1>6, <3>2, <3>3, <3>4, <3>6
      <4>2. i # n + 1 => t[i + 1] = s[Old(i) + 1]
        <5>1. i # n + 1 => i + 1 \in 1 .. Len(t)
          BY <1>1
        <5>2. CASE i < k
          BY <1>1, <5>1, <5>2
        <5>3. CASE i > k + 1
          <6>1. ~(i + 1 <= k) /\ i + 1 # k + 1 /\ i + 1 - 1 = i /\ i - 1 + 1 = i /\ ~(i <= k)
            BY <5>3
          <6> QED  BY <1>1, <5>1, <6>1
        <5> QED  BY <2>1, <3>6, <5>2, <5>3
      <4>3. Old(i) = n <=> i = n + 1
        BY <1>1, <2>1, <3>6
      <4> HIDE DEF Old
      <4> QED  BY <3>1, <4>1, <4>2, <4>3
    <3> QED  BY <3>5, <3>6
  <2>2. M.next[At(h, t, k + 1)] = IF k + 1 = n + 1 THEN h ELSE t[k + 1 + 1]
    <3>1. L.next[p] = IF k = n THEN h ELSE s[k + 1]
      BY <1>1 DEF Represents
    <3>2. k # n => t[k + 1 + 1] = s[k + 1]
      <4>1. k # n => k + 1 + 1 \in 1 .. Len(t) /\ ~(k + 1 + 1 <= k) /\ k + 1 + 1 # k + 1 /\ k + 1 + 1 - 1 = k + 1
        BY <1>1
      <4> QED  BY <4>1
    <3>3. k + 1 = n + 1 <=> k = n
      BY <1>1
    <3> QED  BY <1>6, <1>9, <3>1, <3>2, <3>3
  <2>3. ASSUME NEW i \in 0 .. n + 1, NEW j \in 0 .. n + 1, At(h, t, i) = At(h, t, j)
        PROVE  i = j
    <3>1. CASE i = k + 1 \/ j = k + 1
      <4>1. \A x \in 0 .. n + 1 : x # k + 1 => At(h, t, x) # e
        <5> SUFFICES ASSUME NEW x \in 0 .. n + 1, x # k + 1 PROVE At(h, t, x) # e
          OBVIOUS
        <5>1. Old(x) \in 0 .. n /\ At(h, t, x) = At(h, s, Old(x))
          BY <1>8
        <5> HIDE DEF Old
        <5> QED  BY <1>3, <5>1
      <4> QED  BY <1>9, <2>3, <3>1, <4>1
    <3>2. CASE i # k + 1 /\ j # k + 1
      <4>1. Old(i) = Old(j)
        <5>1. Old(i) \in 0 .. n /\ Old(j) \in 0 .. n /\ At(h, s, Old(i)) = At(h, s, Old(j))
          BY <1>8, <2>3, <3>2
        <5> HIDE DEF Old
        <5> QED  BY <1>1, <5>1 DEF Represents
      <4> QED  BY <3>2, <4>1
    <3> QED  BY <3>1, <3>2
  <2>4. Len(t) = n + 1
    OBVIOUS
  <2>5. \A i \in 0 .. n + 1 : M.next[At(h, t, i)] = IF i = n + 1 THEN h ELSE t[i + 1]
    BY <2>1, <2>2
  <2> HIDE DEF n
  <2> QED  BY <2>3, <2>4, <2>5 DEF Represents
<1>11. ASSUME NEW g \in ListHead, NEW x \in Entry
       PROVE  (\E i \in 1 .. Len(m[g]) : m[g][i] = x)
                 <=> (x = e /\ g = h) \/ \E i \in 1 .. Len(l[g]) : l[g][i] = x
  <2>1. CASE g # h
    <3>1. m[g] = l[g]
      BY <1>2, <2>1
    <3> QED  BY <2>1, <3>1
  <2>2. CASE g = h
    <3>1. t[k + 1] = e /\ k + 1 \in 1 .. Len(t)
      BY <1>1
    <3>2. ASSUME NEW i \in 1 .. Len(t), i # k + 1 PROVE Old(i) \in 1 .. n /\ t[i] = s[Old(i)]
      BY <1>1, <3>2
    <3>3. ASSUME NEW j \in 1 .. n PROVE \E i \in 1 .. Len(t) : t[i] = s[j]
      <4>1. CASE j <= k
        <5>1. j \in 1 .. Len(t)
          BY <1>1
        <5> QED  BY <4>1, <5>1
      <4>2. CASE j > k
        <5>1. j + 1 \in 1 .. Len(t) /\ ~(j + 1 <= k) /\ j + 1 # k + 1 /\ j + 1 - 1 = j
          BY <1>1, <4>2
        <5> QED  BY <5>1
      <4> QED  BY <1>1, <4>1, <4>2
    <3> HIDE DEF Old
    <3>4. (\E i \in 1 .. Len(t) : t[i] = x) <=> x = e \/ \E i \in 1 .. n : s[i] = x
      BY <3>1, <3>2, <3>3
    <3> QED  BY <1>2, <2>2, <3>4
  <2> QED  BY <2>1, <2>2
<1>12. Shape(M, S \cup {e}, m)
  <2>1. \A g \in ListHead : Represents(M, g, m[g])
    BY <1>2, <1>7, <1>10
  <2>2. ASSUME NEW f \in ListHead, NEW g \in ListHead,
               NEW i \in 1 .. Len(m[f]), NEW j \in 1 .. Len(m[g]), m[f][i] = m[g][j]
        PROVE  f = g
    <3> DEFINE x == m[f][i]
    <3>1. x \in Entry
      BY <1>2
    <3>2. /\ (x = e /\ f = h) \/ \E a \in 1 .. Len(l[f]) : l[f][a] = x
          /\ (x = e /\ g = h) \/ \E a \in 1 .. Len(l[g]) : l[g][a] = x
      BY <1>11, <2>2, <3>1
    <3>3. x = e => \A q \in ListHead : ~\E a \in 1 .. Len(l[q]) : l[q][a] = x
      BY DEF Shape
    <3> HIDE DEF x
    <3> QED  BY <3>2, <3>3 DEF Shape
  <2>3. \A x \in Entry : x \in S \cup {e} <=> \E g \in ListHead : \E i \in 1 .. Len(m[g]) : m[g][i] = x
    <3> SUFFICES ASSUME NEW x \in Entry
                 PROVE  x \in S \cup {e} <=> \E g \in ListHead : \E i \in 1 .. Len(m[g]) : m[g][i] = x
      OBVIOUS
    <3>1. x \in S <=> \E g \in ListHead : \E i \in 1 .. Len(l[g]) : l[g][i] = x
      BY DEF Shape
    <3>2. \A g \in ListHead : (\E i \in 1 .. Len(m[g]) : m[g][i] = x)
                               <=> (x = e /\ g = h) \/ \E i \in 1 .. Len(l[g]) : l[g][i] = x
      BY <1>11
    <3> QED  BY <3>1, <3>2, Zenon
  <2> QED  BY <1>2, <2>1, <2>2, <2>3 DEF Shape
<1>13. QED
  BY <1>12 DEF M, m

\* list_add and list_add_tail.
LEMMA AddShape ==
    ASSUME NEW L \in Links(Node), NEW S \in SUBSET Entry, Consistent(L, ListHead \cup S),
           NEW l, Shape(L, S, l), NEW h \in ListHead, NEW e \in Entry, e \notin S
    PROVE  /\ Shape(list_add(L, e, h), S \cup {e}, [l EXCEPT ![h] = <<e>> \o @])
           /\ Shape(list_add_tail(L, e, h), S \cup {e}, [l EXCEPT ![h] = Append(@, e)])
<1> DEFINE s == l[h]
           n == Len(s)
<1>1. s \in Seq(Entry) /\ n \in Nat /\ Represents(L, h, s)
  BY DEF Shape
<1>2. Shape(list_add(L, e, h), S \cup {e}, [l EXCEPT ![h] = <<e>> \o @])
  <2> DEFINE t == <<e>> \o s
  <2>1. <<e>> \in Seq(Entry) /\ Len(<<e>>) = 1 /\ <<e>>[1] = e
    OBVIOUS
  <2>2. /\ t \in Seq(Entry) /\ Len(t) = n + 1
        /\ \A i \in 1 .. n + 1 : t[i] = IF i <= 1 THEN <<e>>[i] ELSE s[i - 1]
    <3> DEFINE a == <<e>>
    <3>1. a \in Seq(Entry) /\ Len(a) = 1
      BY <2>1
    <3> HIDE DEF a, s
    <3>2. /\ a \o s \in Seq(Entry) /\ Len(a \o s) = Len(a) + n
          /\ \A i \in 1 .. Len(a) + n : (a \o s)[i] = IF i <= Len(a) THEN a[i] ELSE s[i - Len(a)]
      BY <1>1, <3>1, ConcatProperties
    <3> QED  BY <1>1, <3>1, <3>2 DEF a
  <2>3. \A i \in 1 .. Len(t) : t[i] = IF i <= 0 THEN s[i] ELSE IF i = 0 + 1 THEN e ELSE s[i - 1]
    <3> SUFFICES ASSUME NEW i \in 1 .. n + 1
                 PROVE  t[i] = IF i <= 0 THEN s[i] ELSE IF i = 0 + 1 THEN e ELSE s[i - 1]
      BY <2>2
    <3> HIDE DEF t, n, s
    <3>1. t[i] = IF i <= 1 THEN <<e>>[i] ELSE s[i - 1]
      BY <2>2
    <3>2. CASE i = 1
      BY <2>1, <3>1, <3>2
    <3>3. CASE i # 1
      BY <1>1, <3>1, <3>3
    <3> QED  BY <3>2, <3>3
  <2>4. 0 \in 0 .. n /\ h = At(h, s, 0)
    BY <1>1 DEF At
  <2> HIDE DEF t
  <2>5. Shape(InsertBetween(L, e, h, L.next[h]), S \cup {e}, [l EXCEPT ![h] = t])
    BY <2>2, <2>3, <2>4, InsertShape
  <2> QED  BY <2>5 DEF list_add, t
<1>3. Shape(list_add_tail(L, e, h), S \cup {e}, [l EXCEPT ![h] = Append(@, e)])
  <2> DEFINE t == Append(s, e)
             p == At(h, s, n)
  <2>1. /\ t \in Seq(Entry) /\ Len(t) = n + 1
        /\ \A i \in 1 .. n : t[i] = s[i]
        /\ t[n + 1] = e
    <3> HIDE DEF s
    <3> QED  BY <1>1, AppendProperties
  <2>2. \A i \in 1 .. Len(t) : t[i] = IF i <= n THEN s[i] ELSE IF i = n + 1 THEN e ELSE s[i - 1]
    <3> SUFFICES ASSUME NEW i \in 1 .. n + 1
                 PROVE  t[i] = IF i <= n THEN s[i] ELSE IF i = n + 1 THEN e ELSE s[i - 1]
      BY <2>1
    <3> HIDE DEF t, n, s
    <3> QED  BY <1>1, <2>1
  <2>3. n \in 0 .. n /\ L.next[p] = h
    BY <1>1 DEF Represents
  <2>4. p \in ListHead \cup S
    <3>1. CASE n = 0
      BY <3>1 DEF At
    <3>2. CASE n # 0
      <4>1. n \in 1 .. n
        BY <1>1, <3>2
      <4>2. s[n] \in Entry
        BY <1>1, <4>1
      <4>3. s[n] \in S
        BY <4>1, <4>2 DEF Shape
      <4> QED  BY <3>2, <4>3 DEF At
    <3> QED  BY <3>1, <3>2
  <2>5. L.prev[h] = p
    <3> HIDE DEF p
    <3> QED  BY <2>3, <2>4 DEF Consistent
  <2>6. list_add_tail(L, e, h) = InsertBetween(L, e, p, L.next[p])
    <3> HIDE DEF p
    <3> QED  BY <2>3, <2>5 DEF list_add_tail
  <2> HIDE DEF t
  <2>7. Shape(InsertBetween(L, e, p, L.next[p]), S \cup {e}, [l EXCEPT ![h] = t])
    BY <2>1, <2>2, <2>3, InsertShape
  <2> QED  BY <2>6, <2>7 DEF t
<1>4. QED
  BY <1>2, <1>3

\* The sequences are the ones that a traversal visits.
LEMMA ShapeIsVisited ==
    ASSUME NEW L \in Links(Node), NEW S, NEW l, Shape(L, S, l)
    PROVE  l = [h \in ListHead |-> Elements(L, h)]
<1>1. ASSUME NEW h \in ListHead PROVE l[h] = Elements(L, h)
  <2>1. h \in Node /\ IsFiniteSet(Node)
    BY NodesAreFinite DEF Node
  <2>2. l[h] \in Seq(Entry) /\ Represents(L, h, l[h])
    BY DEF Shape
  <2>3. l[h] \in Seq(Node)
    BY <2>2 DEF Node
  <2> QED  BY <2>1, <2>2, <2>3, ElementsAre
<1>2. l = [h \in ListHead |-> l[h]]
  BY DEF Shape
<1>3. QED
  BY <1>1, <1>2

-----------------------------------------------------------------------------
(* Every step of LinkedList is one of TaskLists. *)

\* The pointers stand for sequences that contain what is listed.
SequencesInv == IInv /\ Shape(links, listed, TheLists)

LEMMA InitRefines == Init => SequencesInv /\ Lists!Init
<1> SUFFICES ASSUME Init PROVE SequencesInv /\ Lists!Init
  OBVIOUS
<1> DEFINE l == [h \in ListHead |-> <<>>]
<1>1. IInv /\ links = InitialLinks(Node) /\ listed = {} /\ links \in Links(Node)
  BY InitInductive DEF Init, IInv, TypeOK
<1>2. \A h \in ListHead : l[h] = <<>> /\ Len(l[h]) = 0
  OBVIOUS
<1>3. l \in [ListHead -> Seq(Entry)]
  OBVIOUS
<1> HIDE DEF l
<1>4. ASSUME NEW h \in ListHead PROVE Represents(links, h, l[h])
  <2>1. links.next[h] = h
    BY <1>1 DEF InitialLinks, Node
  <2>2. Len(l[h]) = 0
    BY <1>2
  <2> QED  BY <2>1, <2>2 DEF Represents, At
<1>5. Shape(links, listed, l)
  BY <1>1, <1>2, <1>3, <1>4 DEF Shape
<1>6. l = TheLists
  BY <1>1, <1>5, ShapeIsVisited DEF TheLists
<1>7. QED
  BY <1>1, <1>5, <1>6 DEF SequencesInv, Lists!Init, l

\* Where a listed entry is, and that an entry that is not listed is free.
LEMMA WhereEntriesAre ==
    ASSUME SequencesInv, NEW e \in Entry
    PROVE  /\ e \in listed => \E h \in ListHead : \E i \in 1 .. Len(TheLists[h]) : TheLists[h][i] = e
           /\ e \notin listed => Lists!Free(e)
<1>1. e \in listed <=> \E h \in ListHead : \E i \in 1 .. Len(TheLists[h]) : TheLists[h][i] = e
  BY DEF SequencesInv, Shape
<1>2. ASSUME NEW h \in ListHead, e \in Lists!Members(h)
      PROVE  \E i \in 1 .. Len(TheLists[h]) : TheLists[h][i] = e
  <2>1. TheLists[h] \in Seq(Entry)
    BY DEF SequencesInv, Shape
  <2>2. DOMAIN TheLists[h] = 1 .. Len(TheLists[h])
    BY <2>1
  <2> QED  BY <1>2, <2>2 DEF Lists!Members, Lists!Range
<1>3. QED
  BY <1>1, <1>2 DEF Lists!Free

LEMMA NextRefines ==
    SequencesInv /\ [Next]_vars => SequencesInv' /\ [Lists!Next]_TheLists
<1> SUFFICES ASSUME SequencesInv, [Next]_vars
             PROVE  SequencesInv' /\ [Lists!Next]_TheLists
  OBVIOUS
<1> DEFINE l == TheLists
           S == ListHead \cup listed
<1>1. /\ IInv /\ IInv' /\ Shape(links, listed, l)
      /\ links \in Links(Node) /\ links' \in Links(Node)
      /\ listed \in SUBSET Entry /\ Consistent(links, S)
      /\ l \in [ListHead -> Seq(Entry)]
  BY NextInductive DEF SequencesInv, IInv, TypeOK, PointersInverse, Shape
\* It is enough to show what the new pointers stand for.
<1>2. ASSUME NEW m, Shape(links', listed', m) PROVE SequencesInv' /\ TheLists' = m
  <2>1. TheLists' = m
    BY <1>1, <1>2, ShapeIsVisited DEF TheLists
  <2> QED  BY <1>1, <1>2, <2>1 DEF SequencesInv
<1>3. ASSUME NEW e \in Entry, NEW h \in ListHead, Add(e, h)
      PROVE  SequencesInv' /\ Lists!Next
  <2>1. Shape(links', listed', [l EXCEPT ![h] = <<e>> \o @])
    BY <1>1, <1>3, AddShape DEF Add
  <2>2. SequencesInv' /\ TheLists' = [l EXCEPT ![h] = <<e>> \o @]
    BY <1>2, <2>1
  <2>3. Lists!AddFirst(e, h)
    BY <1>3, <2>2, WhereEntriesAre DEF Add, Lists!AddFirst
  <2> QED  BY <2>2, <2>3 DEF Lists!Next
<1>4. ASSUME NEW e \in Entry, NEW h \in ListHead, AddTail(e, h)
      PROVE  SequencesInv' /\ Lists!Next
  <2>1. Shape(links', listed', [l EXCEPT ![h] = Append(@, e)])
    BY <1>1, <1>4, AddShape DEF AddTail
  <2>2. SequencesInv' /\ TheLists' = [l EXCEPT ![h] = Append(@, e)]
    BY <1>2, <2>1
  <2>3. Lists!AddLast(e, h)
    BY <1>4, <2>2, WhereEntriesAre DEF AddTail, Lists!AddLast
  <2> QED  BY <2>2, <2>3 DEF Lists!Next
\* What a deletion leaves, which is what a move adds to.
<1>5. ASSUME NEW e \in Entry, e \in listed
      PROVE  \E g \in ListHead : \E i \in Nat :
                 /\ i \in DOMAIN l[g] /\ l[g][i] = e
                 /\ list_del_entry(links, e) \in Links(Node)
                 /\ Consistent(list_del_entry(links, e), ListHead \cup (listed \ {e}))
                 /\ Shape(list_del_entry(links, e), listed \ {e}, Lists!Out(g, i))
  <2> DEFINE M == list_del_entry(links, e)
  <2>1. PICK g \in ListHead : \E i \in 1 .. Len(l[g]) : l[g][i] = e
    BY <1>5, WhereEntriesAre
  <2>2. PICK i \in 1 .. Len(l[g]) : l[g][i] = e
    BY <2>1
  <2>3. M \in Links(Node) /\ Consistent(M, S \ {e})
    <3>1. e \in S /\ S \in SUBSET Node
      BY <1>1, <1>5 DEF Node
    <3> HIDE DEF S, l
    <3> QED  BY <1>1, <3>1, DeleteConsistent
  <2>4. S \ {e} = ListHead \cup (listed \ {e})
    BY NodesDiffer
  <2>5. Shape(M, listed \ {e}, [l EXCEPT ![g] = RemoveAt(@, i)])
    <3> HIDE DEF l
    <3> QED  BY <1>1, <2>2, DeleteShape
  <2>6. Lists!Out(g, i) = [l EXCEPT ![g] = RemoveAt(@, i)]
    BY DEF Lists!Out, Lists!RemoveAt, RemoveAt
  <2>7. i \in DOMAIN l[g] /\ i \in Nat
    BY <1>1
  <2>8. /\ i \in DOMAIN l[g] /\ l[g][i] = e
        /\ M \in Links(Node) /\ Consistent(M, ListHead \cup (listed \ {e}))
        /\ Shape(M, listed \ {e}, Lists!Out(g, i))
    <3> HIDE DEF M, S, l
    <3> QED  BY <2>2, <2>3, <2>4, <2>5, <2>6, <2>7
  <2> HIDE DEF l
  <2> QED  BY <2>7, <2>8, Zenon DEF M
<1>6. ASSUME NEW e \in Entry, Delete(e)
      PROVE  SequencesInv' /\ Lists!Next
  <2>1. e \in listed
    BY <1>6 DEF Delete
  <2>2. PICK g \in ListHead, i \in Nat :
            /\ i \in DOMAIN l[g] /\ l[g][i] = e
            /\ Shape(list_del_entry(links, e), listed \ {e}, Lists!Out(g, i))
    BY <1>5, <2>1
  <2>3. SequencesInv' /\ TheLists' = Lists!Out(g, i)
    BY <1>2, <1>6, <2>2 DEF Delete
  <2>4. Lists!TakeOut(e)
    BY <2>2, <2>3 DEF Lists!TakeOut
  <2> QED  BY <2>3, <2>4 DEF Lists!Next
<1>7. ASSUME NEW e \in Entry, NEW h \in ListHead, Move(e, h) \/ MoveTail(e, h)
      PROVE  SequencesInv' /\ Lists!Next
  <2> DEFINE M == list_del_entry(links, e)
  <2>1. e \in listed /\ listed' = listed
    BY <1>7 DEF Move, MoveTail
  <2>2. PICK g \in ListHead, i \in Nat :
            /\ i \in DOMAIN l[g] /\ l[g][i] = e
            /\ M \in Links(Node) /\ Consistent(M, ListHead \cup (listed \ {e}))
            /\ Shape(M, listed \ {e}, Lists!Out(g, i))
    BY <1>5, <2>1
  <2> DEFINE d == Lists!Out(g, i)
  <2>3. /\ Shape(list_add(M, e, h), listed, [d EXCEPT ![h] = <<e>> \o @])
        /\ Shape(list_add_tail(M, e, h), listed, [d EXCEPT ![h] = Append(@, e)])
    <3>1. listed \ {e} \in SUBSET Entry /\ e \notin listed \ {e} /\ (listed \ {e}) \cup {e} = listed
      BY <1>1, <2>1
    <3> HIDE DEF M, d
    <3>2. /\ Shape(list_add(M, e, h), (listed \ {e}) \cup {e}, [d EXCEPT ![h] = <<e>> \o @])
          /\ Shape(list_add_tail(M, e, h), (listed \ {e}) \cup {e}, [d EXCEPT ![h] = Append(@, e)])
      BY <2>2, <3>1, AddShape DEF d
    <3> QED  BY <3>1, <3>2
  <2>4. CASE Move(e, h)
    <3>1. links' = list_add(M, e, h)
      BY <2>4 DEF Move, list_move
    <3> HIDE DEF M, d
    <3>2. SequencesInv' /\ TheLists' = [d EXCEPT ![h] = <<e>> \o @]
      BY <1>2, <2>1, <2>3, <3>1
    <3>3. Lists!MoveFirst(e, h)
      BY <2>2, <3>2 DEF Lists!MoveFirst, d
    <3> QED  BY <3>2, <3>3 DEF Lists!Next
  <2>5. CASE MoveTail(e, h)
    <3>1. links' = list_add_tail(M, e, h)
      BY <2>5 DEF MoveTail, list_move_tail
    <3> HIDE DEF M, d
    <3>2. SequencesInv' /\ TheLists' = [d EXCEPT ![h] = Append(@, e)]
      BY <1>2, <2>1, <2>3, <3>1
    <3>3. Lists!MoveLast(e, h)
      BY <2>2, <3>2 DEF Lists!MoveLast, d
    <3> QED  BY <3>2, <3>3 DEF Lists!Next
  <2> QED  BY <1>7, <2>4, <2>5
<1>8. ASSUME UNCHANGED vars
      PROVE  SequencesInv' /\ UNCHANGED TheLists
  BY <1>1, <1>8 DEF vars, SequencesInv, TheLists
<1>9. QED
  BY <1>3, <1>4, <1>6, <1>7, <1>8 DEF Next

\* The pointers of llist.h are sequences for those who use them: each operation
\* adds an entry at an end, takes one out or moves it, a traversal ends, and no
\* entry is in two lists.
THEOREM ListsAreSequences == Spec => ImplementsLists
<1>1. Init => SequencesInv /\ Lists!Init
  BY InitRefines
<1>2. SequencesInv /\ [Next]_vars => SequencesInv' /\ [Lists!Next]_TheLists
  BY NextRefines
<1>3. QED
  BY <1>1, <1>2, PTL DEF Spec, ImplementsLists, Lists!Spec
=============================================================================
