----------------------------- MODULE HeapProofs -----------------------------
(***************************************************************************)
(* The allocator, for every page size, every limit of the heap, all sizes  *)
(* of requests, and whatever the words contain that no call has written:   *)
(* until the first fault the chunks tile the heap, no chunk is lost, listed *)
(* twice or handed out twice, and PINUSE_BIT is set after a used chunk.    *)
(*                                                                         *)
(* alloc, palignedAlloc and free are put together from a few changes of    *)
(* the headers: a chunk is handed out, split, joined, cut at the end, or   *)
(* the heap grows.  Each change has a lemma that says which layout it      *)
(* keeps; the calls follow from those lemmas, and HeapInv from the calls.  *)
(***************************************************************************)
EXTENDS Heap, WellFoundedInduction, SequenceTheorems, TLAPS

-----------------------------------------------------------------------------
(* Sets of integers and sequences. *)

\* The least number of a set, which findSmallestChunk looks for.
LEMMA LeastIsThere ==
    ASSUME NEW S, S \subseteq Nat, S # {}
    PROVE  Min(S) \in S /\ \A y \in S : Min(S) <= y
<1>1. PICK x \in S : \A y \in S : ~(<<y, x>> \in OpToRel(<, Nat))
  BY WFMin, NatLessThanWellFounded
<1>2. \A y \in S : ~(y < x)
  BY <1>1 DEF OpToRel
<1>3. \A y \in S : x <= y
  BY <1>2
<1>4. QED
  BY <1>3 DEF Min

\* The highest address of a set of addresses below a given one.
LEMMA HighestIsThere ==
    ASSUME NEW S, S \subseteq Int, S # {}, NEW e \in Int, \A x \in S : x < e
    PROVE  Max(S) \in S /\ \A y \in S : Max(S) >= y
<1> DEFINE T == {e - x : x \in S}
<1>1. T \subseteq Nat /\ T # {}
  <2>1. \A x \in S : e - x \in Nat
    OBVIOUS
  <2> QED  BY <2>1
<1>2. Min(T) \in T /\ \A y \in T : Min(T) <= y
  <2> HIDE DEF T
  <2> QED  BY <1>1, LeastIsThere
<1>3. PICK x \in S : Min(T) = e - x
  BY <1>2
<1>4. \A y \in S : x >= y
  <2> TAKE y \in S
  <2>1. e - y \in T
    OBVIOUS
  <2>2. e - x <= e - y
    BY <1>2, <1>3, <2>1
  <2> QED  BY <2>2
<1>5. QED
  BY <1>4 DEF Max

LEMMA HigherOfTwo ==
    ASSUME NEW a \in Int, NEW b \in Int
    PROVE  /\ Max({a, b}) \in Int
           /\ Max({a, b}) = a \/ Max({a, b}) = b
           /\ Max({a, b}) >= a /\ Max({a, b}) >= b
<1>1. \E x \in {a, b} : \A y \in {a, b} : x >= y
  BY a >= b \/ b >= a
<1>2. Max({a, b}) \in {a, b} /\ \A y \in {a, b} : Max({a, b}) >= y
  BY <1>1 DEF Max
<1>3. QED
  BY <1>2

LEMMA InsertAtIs ==
    ASSUME NEW s \in Seq(Int), NEW i \in 1 .. Len(s), NEW e \in Int
    PROVE  /\ InsertAt(s, i, e) \in Seq(Int)
           /\ Len(InsertAt(s, i, e)) = Len(s) + 1
           /\ \A j \in 1 .. Len(s) + 1 :
                 InsertAt(s, i, e)[j] = IF j < i THEN s[j] ELSE IF j = i THEN e ELSE s[j - 1]
<1> DEFINE a == SubSeq(s, 1, i - 1)
           b == SubSeq(s, i, Len(s))
<1>1. a \in Seq(Int) /\ Len(a) = i - 1 /\ \A j \in 1 .. i - 1 : a[j] = s[j]
  OBVIOUS
<1>2. b \in Seq(Int) /\ Len(b) = Len(s) - i + 1 /\ \A j \in 1 .. Len(s) - i + 1 : b[j] = s[i + j - 1]
  OBVIOUS
<1>3. InsertAt(s, i, e) = (a \o <<e>>) \o b
  BY DEF InsertAt
<1> HIDE DEF a, b
<1> DEFINE c == a \o <<e>>
<1>4. c \in Seq(Int) /\ Len(c) = i /\ \A j \in 1 .. i : c[j] = IF j < i THEN s[j] ELSE e
  <2>1. c = Append(a, e)
    BY <1>1
  <2>2. Append(a, e) \in Seq(Int) /\ Len(Append(a, e)) = i
    BY <1>1
  <2>3. \A j \in 1 .. i - 1 : Append(a, e)[j] = a[j]
    BY <1>1
  <2>4. Append(a, e)[i] = e
    BY <1>1
  <2> HIDE DEF c
  <2> QED  BY <1>1, <2>1, <2>2, <2>3, <2>4
<1> HIDE DEF c
<1> DEFINE d == c \o b
<1>5. /\ d \in Seq(Int) /\ Len(d) = Len(c) + Len(b)
      /\ \A j \in 1 .. Len(c) + Len(b) : d[j] = IF j <= Len(c) THEN c[j] ELSE b[j - Len(c)]
  BY <1>2, <1>4, ConcatProperties
<1>6. InsertAt(s, i, e) = d
  BY <1>3 DEF c
<1> HIDE DEF d
<1>7. ASSUME NEW j \in 1 .. Len(s) + 1
      PROVE  d[j] = IF j < i THEN s[j] ELSE IF j = i THEN e ELSE s[j - 1]
  <2>1. CASE j <= i
    <3>1. d[j] = c[j] /\ j \in 1 .. i
      BY <2>1, <1>2, <1>4, <1>5
    <3> QED  BY <2>1, <1>4, <3>1
  <2>2. CASE j > i
    <3>1. j - i \in 1 .. Len(s) - i + 1 /\ i + (j - i) - 1 = j - 1
      BY <2>2
    <3>2. d[j] = b[j - i]
      BY <2>2, <1>2, <1>4, <1>5
    <3>3. b[j - i] = s[i + (j - i) - 1]
      BY <1>2, <3>1
    <3>4. ~(j < i) /\ j # i
      BY <2>2
    <3> QED  BY <3>1, <3>2, <3>3, <3>4
  <2> QED  BY <2>1, <2>2
<1>8. QED
  BY <1>2, <1>4, <1>5, <1>6, <1>7

LEMMA RemoveAtIs ==
    ASSUME NEW s \in Seq(Int), NEW i \in 1 .. Len(s)
    PROVE  /\ RemoveAt(s, i) \in Seq(Int)
           /\ Len(RemoveAt(s, i)) = Len(s) - 1
           /\ \A j \in 1 .. Len(s) - 1 :
                 RemoveAt(s, i)[j] = IF j < i THEN s[j] ELSE s[j + 1]
<1> DEFINE a == SubSeq(s, 1, i - 1)
           b == SubSeq(s, i + 1, Len(s))
<1>1. a \in Seq(Int) /\ Len(a) = i - 1 /\ \A j \in 1 .. i - 1 : a[j] = s[j]
  OBVIOUS
<1>2. b \in Seq(Int) /\ Len(b) = Len(s) - i /\ \A j \in 1 .. Len(s) - i : b[j] = s[i + j]
  OBVIOUS
<1>3. RemoveAt(s, i) = a \o b
  BY DEF RemoveAt
<1> HIDE DEF a, b
<1> DEFINE d == a \o b
<1>4. /\ d \in Seq(Int) /\ Len(d) = Len(a) + Len(b)
      /\ \A j \in 1 .. Len(a) + Len(b) : d[j] = IF j <= Len(a) THEN a[j] ELSE b[j - Len(a)]
  BY <1>1, <1>2, ConcatProperties
<1> HIDE DEF d
<1>5. ASSUME NEW j \in 1 .. Len(s) - 1
      PROVE  d[j] = IF j < i THEN s[j] ELSE s[j + 1]
  <2> j \in 1 .. Len(a) + Len(b)
    BY <1>1, <1>2
  <2>1. CASE j < i
    <3>1. j <= Len(a) /\ j \in 1 .. i - 1
      BY <2>1, <1>1
    <3>2. d[j] = a[j]
      BY <1>4, <3>1
    <3>3. a[j] = s[j]
      BY <1>1, <3>1
    <3> QED  BY <2>1, <3>2, <3>3
  <2>2. CASE j >= i
    <3>1. j - (i - 1) \in 1 .. Len(s) - i /\ i + (j - (i - 1)) = j + 1
      BY <2>2
    <3>2. d[j] = b[j - (i - 1)]
      <4>1. ~(j <= Len(a)) /\ Len(a) = i - 1
        BY <2>2, <1>1
      <4> QED  BY <1>4, <4>1
    <3>3. b[j - (i - 1)] = s[i + (j - (i - 1))]
      BY <1>2, <3>1
    <3>4. ~(j < i)
      BY <2>2
    <3> QED  BY <3>1, <3>2, <3>3, <3>4
  <2> QED  BY <2>1, <2>2
<1>6. QED
  BY <1>1, <1>2, <1>3, <1>4, <1>5 DEF d

(***************************************************************************)
(* The list of free chunks: every address of a set once.                   *)
(***************************************************************************)

Lists(s, S) == s \in Seq(Int) /\ IsInjective(s) /\ ToSet(s) = S

LEMMA ListsFacts ==
    ASSUME NEW s \in Seq(Int)
    PROVE  /\ IsInjective(s) <=> \A i, j \in 1 .. Len(s) : s[i] = s[j] => i = j
           /\ \A x : x \in ToSet(s) <=> \E i \in 1 .. Len(s) : s[i] = x
           /\ ToSet(s) \subseteq Int
BY DEF IsInjective, ToSet

LEMMA AppendLists ==
    ASSUME NEW S, NEW s, Lists(s, S), NEW p \in Int, p \notin S
    PROVE  Lists(Append(s, p), S \cup {p})
<1>1. s \in Seq(Int) /\ (\A i, j \in 1 .. Len(s) : s[i] = s[j] => i = j)
      /\ \A x : x \in S <=> \E i \in 1 .. Len(s) : s[i] = x
  BY ListsFacts DEF Lists
<1> DEFINE t == Append(s, p)
<1>2. t \in Seq(Int) /\ Len(t) = Len(s) + 1 /\ t[Len(s) + 1] = p
      /\ \A i \in 1 .. Len(s) : t[i] = s[i]
  BY <1>1
<1> HIDE DEF t
<1>3. \A i, j \in 1 .. Len(t) : t[i] = t[j] => i = j
  <2> SUFFICES ASSUME NEW i \in 1 .. Len(t), NEW j \in 1 .. Len(t), t[i] = t[j] PROVE i = j
    OBVIOUS
  <2>1. i \in 1 .. Len(s) \/ i = Len(s) + 1
    BY <1>2, <1>1
  <2>2. j \in 1 .. Len(s) \/ j = Len(s) + 1
    BY <1>2, <1>1
  <2> QED  BY <1>1, <1>2, <2>1, <2>2
<1>4. ASSUME NEW x PROVE x \in S \cup {p} <=> \E i \in 1 .. Len(t) : t[i] = x
  <2>1. ASSUME x \in S PROVE \E i \in 1 .. Len(t) : t[i] = x
    <3>1. PICK i \in 1 .. Len(s) : s[i] = x
      BY <1>1, <2>1
    <3>2. i \in 1 .. Len(t) /\ t[i] = x
      BY <1>1, <1>2, <3>1
    <3> QED  BY <3>2
  <2>2. ASSUME x = p PROVE \E i \in 1 .. Len(t) : t[i] = x
    BY <1>1, <1>2, <2>2, Len(s) + 1 \in 1 .. Len(t)
  <2>3. ASSUME NEW i \in 1 .. Len(t), t[i] = x PROVE x \in S \cup {p}
    <3>1. i \in 1 .. Len(s) \/ i = Len(s) + 1
      BY <1>2, <1>1
    <3> QED  BY <1>1, <1>2, <2>3, <3>1
  <2> QED  BY <2>1, <2>2, <2>3
<1>5. IsInjective(t) /\ ToSet(t) = S \cup {p}
  BY <1>2, <1>3, <1>4, ListsFacts
<1>6. QED
  BY <1>2, <1>5 DEF Lists, t

LEMMA InsertAtLists ==
    ASSUME NEW S, NEW s, Lists(s, S), NEW p \in Int, p \notin S, NEW k \in 1 .. Len(s)
    PROVE  Lists(InsertAt(s, k, p), S \cup {p})
<1>1. s \in Seq(Int) /\ (\A i, j \in 1 .. Len(s) : s[i] = s[j] => i = j)
      /\ \A x : x \in S <=> \E i \in 1 .. Len(s) : s[i] = x
  BY ListsFacts DEF Lists
<1> DEFINE t == InsertAt(s, k, p)
<1>2. t \in Seq(Int) /\ Len(t) = Len(s) + 1
      /\ \A j \in 1 .. Len(s) + 1 : t[j] = IF j < k THEN s[j] ELSE IF j = k THEN p ELSE s[j - 1]
  BY <1>1, InsertAtIs
<1> HIDE DEF t
<1>3. \A i, j \in 1 .. Len(t) : t[i] = t[j] => i = j
  <2> SUFFICES ASSUME NEW i \in 1 .. Len(t), NEW j \in 1 .. Len(t), t[i] = t[j] PROVE i = j
    OBVIOUS
  <2>1. ASSUME NEW l \in 1 .. Len(t), l # k
        PROVE  \E m \in 1 .. Len(s) : t[l] = s[m] /\ m = IF l < k THEN l ELSE l - 1
    <3>1. (IF l < k THEN l ELSE l - 1) \in 1 .. Len(s)
      BY <1>1, <1>2, <2>1
    <3> QED  BY <1>1, <1>2, <2>1, <3>1
  <2>2. t[k] = p /\ k \in 1 .. Len(t)
    BY <1>1, <1>2
  <2>3. \A l \in 1 .. Len(t) : l # k => t[l] # p
    BY <1>1, <2>1
  <2>4. CASE i = k \/ j = k
    BY <2>2, <2>3, <2>4
  <2>5. CASE i # k /\ j # k
    <3>1. PICK m \in 1 .. Len(s) : t[i] = s[m] /\ m = IF i < k THEN i ELSE i - 1
      BY <2>1, <2>5
    <3>2. PICK n \in 1 .. Len(s) : t[j] = s[n] /\ n = IF j < k THEN j ELSE j - 1
      BY <2>1, <2>5
    <3>3. m = n
      BY <1>1, <3>1, <3>2
    <3> QED  BY <2>5, <3>1, <3>2, <3>3
  <2> QED  BY <2>4, <2>5
<1>4. ASSUME NEW x PROVE x \in S \cup {p} <=> \E i \in 1 .. Len(t) : t[i] = x
  <2>1. ASSUME x \in S PROVE \E i \in 1 .. Len(t) : t[i] = x
    <3>1. PICK i \in 1 .. Len(s) : s[i] = x
      BY <1>1, <2>1
    <3>2. CASE i < k
      BY <1>1, <1>2, <3>1, <3>2, i \in 1 .. Len(t)
    <3>3. CASE i >= k
      <4>1. i + 1 \in 1 .. Len(s) + 1 /\ i + 1 > k /\ i + 1 - 1 = i
        BY <1>1, <3>3
      <4>2. t[i + 1] = s[i]
        BY <1>2, <4>1
      <4> QED  BY <1>2, <3>1, <4>1, <4>2
    <3> QED  BY <3>2, <3>3
  <2>2. ASSUME x = p PROVE \E i \in 1 .. Len(t) : t[i] = x
    BY <1>1, <1>2, <2>2, k \in 1 .. Len(t)
  <2>3. ASSUME NEW i \in 1 .. Len(t), t[i] = x PROVE x \in S \cup {p}
    <3>1. CASE i < k
      BY <1>1, <1>2, <2>3, <3>1, i \in 1 .. Len(s)
    <3>2. CASE i = k
      BY <1>1, <1>2, <2>3, <3>2
    <3>3. CASE i > k
      <4>1. i - 1 \in 1 .. Len(s) /\ i \in 1 .. Len(s) + 1
        BY <1>1, <1>2, <2>3, <3>3
      <4>2. t[i] = s[i - 1]
        BY <1>2, <3>3, <4>1
      <4> QED  BY <1>1, <2>3, <4>1, <4>2
    <3> QED  BY <3>1, <3>2, <3>3
  <2> QED  BY <2>1, <2>2, <2>3
<1>5. IsInjective(t) /\ ToSet(t) = S \cup {p}
  BY <1>2, <1>3, <1>4, ListsFacts
<1>6. QED
  BY <1>2, <1>5 DEF Lists, t

LEMMA RemoveFirstLists ==
    ASSUME NEW S, NEW s, Lists(s, S), NEW p \in S
    PROVE  Lists(RemoveFirst(s, p), S \ {p})
<1>1. s \in Seq(Int) /\ (\A i, j \in 1 .. Len(s) : s[i] = s[j] => i = j)
      /\ \A x : x \in S <=> \E i \in 1 .. Len(s) : s[i] = x
  BY ListsFacts DEF Lists
<1>2. \E i \in 1 .. Len(s) : s[i] = p
  BY <1>1
<1> DEFINE k == Min({i \in 1 .. Len(s) : s[i] = p})
           t == RemoveFirst(s, p)
<1>3. t = RemoveAt(s, k)
  BY <1>2 DEF RemoveFirst, SelectInSeq
<1>4. k \in 1 .. Len(s) /\ s[k] = p
  <2> DEFINE I == {i \in 1 .. Len(s) : s[i] = p}
  <2>1. I \subseteq Nat /\ I # {}
    BY <1>2
  <2>2. Min(I) \in I
    <3> HIDE DEF I
    <3> QED  BY <2>1, LeastIsThere
  <2> QED  BY <2>2
<1> HIDE DEF k
<1> HIDE DEF t
<1>5. t \in Seq(Int) /\ Len(t) = Len(s) - 1
      /\ \A j \in 1 .. Len(s) - 1 : t[j] = IF j < k THEN s[j] ELSE s[j + 1]
  BY <1>1, <1>3, <1>4, RemoveAtIs
<1>6. ASSUME NEW l \in 1 .. Len(t)
      PROVE  \E m \in 1 .. Len(s) : t[l] = s[m] /\ m = (IF l < k THEN l ELSE l + 1) /\ m # k
  <2>1. l \in 1 .. Len(s) /\ l + 1 \in 1 .. Len(s) /\ l \in 1 .. Len(s) - 1
    BY <1>1, <1>4, <1>5
  <2>2. CASE l < k
    BY <1>4, <1>5, <2>1, <2>2
  <2>3. CASE ~(l < k)
    <3>1. t[l] = s[l + 1] /\ l + 1 # k
      BY <1>4, <1>5, <2>1, <2>3
    <3> QED  BY <2>1, <2>3, <3>1
  <2> QED  BY <2>2, <2>3
<1>7. \A i, j \in 1 .. Len(t) : t[i] = t[j] => i = j
  <2> SUFFICES ASSUME NEW i \in 1 .. Len(t), NEW j \in 1 .. Len(t), t[i] = t[j] PROVE i = j
    OBVIOUS
  <2>1. PICK m \in 1 .. Len(s) : t[i] = s[m] /\ m = IF i < k THEN i ELSE i + 1
    BY <1>6
  <2>2. PICK n \in 1 .. Len(s) : t[j] = s[n] /\ n = IF j < k THEN j ELSE j + 1
    BY <1>6
  <2>3. m = n
    BY <1>1, <2>1, <2>2
  <2> QED  BY <1>4, <2>1, <2>2, <2>3
<1>8. ASSUME NEW x PROVE x \in S \ {p} <=> \E i \in 1 .. Len(t) : t[i] = x
  <2>1. ASSUME x \in S, x # p PROVE \E i \in 1 .. Len(t) : t[i] = x
    <3>1. PICK i \in 1 .. Len(s) : s[i] = x
      BY <1>1, <2>1
    <3>2. i # k
      BY <1>4, <2>1, <3>1
    <3>3. CASE i < k
      BY <1>1, <1>4, <1>5, <3>1, <3>3, i \in 1 .. Len(t)
    <3>4. CASE i > k
      <4>1. i - 1 \in 1 .. Len(s) - 1 /\ ~(i - 1 < k) /\ i - 1 + 1 = i
        BY <1>1, <1>4, <3>4
      <4>2. t[i - 1] = s[i]
        BY <1>5, <4>1
      <4> QED  BY <1>5, <3>1, <4>1, <4>2
    <3> QED  BY <1>4, <3>2, <3>3, <3>4
  <2>2. ASSUME NEW i \in 1 .. Len(t), t[i] = x PROVE x \in S /\ x # p
    <3>1. PICK m \in 1 .. Len(s) : t[i] = s[m] /\ m # k
      BY <1>6
    <3> QED  BY <1>1, <1>4, <2>2, <3>1
  <2> QED  BY <2>1, <2>2
<1>9. IsInjective(t) /\ ToSet(t) = S \ {p}
  BY <1>5, <1>7, <1>8, ListsFacts
<1>10. QED
  BY <1>5, <1>9 DEF Lists, t

(***************************************************************************)
(* The layout of a heap.  Its three parts are what the runs check, written *)
(* for any heap: alloc, free and palignedAlloc are put together from steps *)
(* that keep them.                                                         *)
(***************************************************************************)

\* The chunks c tile the addresses from startAddr up to e.
Tiled(c, e) ==
    /\ startAddr \in DOMAIN c
    /\ \A p \in DOMAIN c :
          /\ p \in Int /\ startAddr <= p /\ p < e
          /\ c[p] \in Chunk /\ c[p].size >= MIN_CHUNK_SIZE
          /\ p + c[p].size \in DOMAIN c \cup {e}
    /\ \A p, q \in DOMAIN c : q > p => q >= p + c[p].size

Held(c) == {p \in DOMAIN c : c[p].cinuse}

\* A chunk after one that is held has the PINUSE_BIT.
Truthful(c) == \A p, q \in DOMAIN c : q + c[q].size = p /\ c[q].cinuse => c[p].pinuse

IsHeap(h) == h = [chunk |-> h.chunk, free |-> h.free, endAddr |-> h.endAddr, state |-> h.state]

HeapOK(h) ==
    /\ IsHeap(h) /\ h.endAddr \in Int
    /\ Tiled(h.chunk, h.endAddr)
    /\ Truthful(h.chunk)
    /\ Lists(h.free, DOMAIN h.chunk \ Held(h.chunk))

\* The chunks of S have kept their size.
KeepSize(c, d, S) == \A q \in S : d[q].size = c[q].size

\* A chunk that ends inside the heap ends at a chunk.
LEMMA TileEnds ==
    ASSUME NEW c, NEW e \in Int, Tiled(c, e), NEW p \in DOMAIN c
    PROVE  /\ p \in Int /\ c[p].size \in Nat /\ c[p].size >= 16
           /\ p + c[p].size <= e
           /\ p + c[p].size # e => p + c[p].size \in DOMAIN c
           /\ \A q \in DOMAIN c : q > p => q >= p + c[p].size
BY DEF Tiled, Chunk, MIN_CHUNK_SIZE

\* A chunk is cut at m (the split of alloc, the two cuts of palignedAlloc).
LEMMA SplitTiles ==
    ASSUME NEW c, NEW d, NEW e \in Int, Tiled(c, e), NEW at \in DOMAIN c, NEW m \in Int,
           at + 16 <= m, m + 16 <= at + c[at].size,
           DOMAIN d = DOMAIN c \cup {m},
           \A q \in DOMAIN d : d[q] \in Chunk,
           d[at].size = m - at, d[m].size = at + c[at].size - m,
           \A q \in DOMAIN c : q # at => d[q].size = c[q].size
    PROVE  Tiled(d, e) /\ m \notin DOMAIN c
<1>1. \A p \in DOMAIN c :
         /\ p \in Int /\ startAddr <= p /\ p < e /\ c[p].size \in Nat /\ c[p].size >= 16
         /\ p + c[p].size \in DOMAIN c \cup {e}
         /\ \A q \in DOMAIN c : q > p => q >= p + c[p].size
  BY DEF Tiled, Chunk, MIN_CHUNK_SIZE
<1>2. m \notin DOMAIN c
  BY <1>1
<1>3. at + c[at].size <= e
  BY <1>1
<1>4. startAddr \in DOMAIN d
  BY DEF Tiled
<1>5. ASSUME NEW p \in DOMAIN d
      PROVE  /\ p \in Int /\ startAddr <= p /\ p < e
             /\ d[p] \in Chunk /\ d[p].size >= MIN_CHUNK_SIZE
             /\ p + d[p].size \in DOMAIN d \cup {e}
  <2>1. CASE p = m
    <3>1. startAddr \in Int /\ startAddr <= at /\ at \in Int
      BY <1>1 DEF Tiled
    <3>2. m \in Int /\ startAddr <= m /\ m < e
      BY <1>1, <1>3, <3>1
    <3>3. d[m] \in Chunk /\ d[m].size >= MIN_CHUNK_SIZE
      BY <1>1, <3>1 DEF MIN_CHUNK_SIZE
    <3>4. m + d[m].size = at + c[at].size
      BY <1>1, <3>1
    <3> QED  BY <1>1, <2>1, <3>2, <3>3, <3>4
  <2>2. CASE p = at
    BY <2>2, <1>1 DEF MIN_CHUNK_SIZE
  <2>3. CASE p # m /\ p # at
    BY <2>3, <1>1 DEF MIN_CHUNK_SIZE
  <2> QED  BY <2>1, <2>2, <2>3
<1>6. ASSUME NEW p \in DOMAIN d, NEW q \in DOMAIN d, q > p
      PROVE  q >= p + d[p].size
  <2>1. CASE p = m
    <3>1. q \in DOMAIN c /\ q > at
      BY <2>1, <1>1, <1>6
    <3>2. q >= at + c[at].size
      BY <1>1, <3>1
    <3> QED  BY <1>1, <2>1, <3>1, <3>2
  <2>2. CASE p = at
    <3>1. CASE q = m
      BY <1>1, <2>2, <3>1
    <3>2. CASE q # m
      <4>1. q >= at + c[at].size
        BY <1>1, <1>6, <2>2, <3>2
      <4> QED  BY <1>1, <2>2, <3>2, <4>1
    <3> QED  BY <3>1, <3>2
  <2>3. CASE p # m /\ p # at /\ q = m
    <3>1. p < at
      BY <1>1, <1>6, <2>3
    <3> QED  BY <1>1, <2>3, <3>1
  <2>4. CASE p # m /\ p # at /\ q # m
    BY <1>1, <1>6, <2>4
  <2> QED  BY <2>1, <2>2, <2>3, <2>4
<1>7. QED
  BY <1>2, <1>4, <1>5, <1>6 DEF Tiled

\* The end of the heap moves up and the last chunk, or a new one, fills it (expand).
LEMMA ExtendTiles ==
    ASSUME NEW c, NEW d, NEW e \in Int, Tiled(c, e), NEW f \in Int, NEW at \in Int,
           f >= at + 16, f > e,
           \/ at = e
           \/ at \in DOMAIN c /\ at + c[at].size = e,
           DOMAIN d = DOMAIN c \cup {at},
           \A q \in DOMAIN d : d[q] \in Chunk,
           d[at].size = f - at,
           \A q \in DOMAIN c : q # at => d[q].size = c[q].size
    PROVE  Tiled(d, f)
<1>1. \A p \in DOMAIN c :
         /\ p \in Int /\ startAddr <= p /\ p < e /\ c[p].size \in Nat /\ c[p].size >= 16
         /\ p + c[p].size \in DOMAIN c \cup {e}
         /\ \A q \in DOMAIN c : q > p => q >= p + c[p].size
  BY DEF Tiled, Chunk, MIN_CHUNK_SIZE
<1>2. startAddr \in DOMAIN c /\ startAddr \in DOMAIN d
  BY DEF Tiled
<1>3. at <= e /\ startAddr <= at /\ startAddr \in Int
  BY <1>1, <1>2
<1>4. \A p \in DOMAIN c : p # at => p + c[p].size # e \/ at = e
  <2> SUFFICES ASSUME NEW p \in DOMAIN c, p # at, p + c[p].size = e, at # e PROVE FALSE
    OBVIOUS
  <2>1. at \in DOMAIN c /\ at + c[at].size = e
    OBVIOUS
  <2>2. p > at \/ at > p
    BY <1>1
  <2> QED  BY <1>1, <2>1, <2>2
<1>5. ASSUME NEW p \in DOMAIN d
      PROVE  /\ p \in Int /\ startAddr <= p /\ p < f
             /\ d[p] \in Chunk /\ d[p].size >= MIN_CHUNK_SIZE
             /\ p + d[p].size \in DOMAIN d \cup {f}
  <2>1. CASE p = at
    BY <2>1, <1>3 DEF MIN_CHUNK_SIZE
  <2>2. CASE p # at
    <3>1. p \in DOMAIN c /\ d[p].size = c[p].size
      BY <2>2
    <3>2. p + c[p].size \in DOMAIN d
      BY <1>1, <1>4, <2>2, <3>1
    <3> QED  BY <1>1, <3>1, <3>2 DEF MIN_CHUNK_SIZE
  <2> QED  BY <2>1, <2>2
<1>6. ASSUME NEW p \in DOMAIN d, NEW q \in DOMAIN d, q > p
      PROVE  q >= p + d[p].size
  <2>1. CASE p = at
    <3>1. q \in DOMAIN c /\ q < e /\ at # e
      BY <1>1, <1>3, <1>6, <2>1
    <3>2. q >= at + c[at].size /\ at + c[at].size = e
      BY <1>1, <1>6, <2>1, <3>1
    <3> QED  BY <1>1, <3>1, <3>2
  <2>2. CASE p # at /\ q = at
    <3>1. p \in DOMAIN c /\ d[p].size = c[p].size
      BY <2>2
    <3>2. CASE at = e
      <4>1. p + c[p].size <= e
        BY <1>1, <3>1
      <4> QED  BY <2>2, <3>1, <3>2, <4>1
    <3>3. CASE at \in DOMAIN c
      BY <1>1, <1>6, <2>2, <3>1, <3>3
    <3> QED  BY <3>2, <3>3
  <2>3. CASE p # at /\ q # at
    BY <1>1, <1>6, <2>3
  <2> QED  BY <2>1, <2>2, <2>3
<1>7. QED
  BY <1>2, <1>5, <1>6 DEF Tiled

\* Two neighbours become one chunk (free).
LEMMA JoinTiles ==
    ASSUME NEW c, NEW d, NEW e \in Int, Tiled(c, e), NEW p \in DOMAIN c, NEW prev \in DOMAIN c,
           prev + c[prev].size = p,
           DOMAIN d = DOMAIN c \ {p},
           \A q \in DOMAIN d : d[q] \in Chunk,
           d[prev].size = c[prev].size + c[p].size,
           \A q \in DOMAIN d : q # prev => d[q].size = c[q].size
    PROVE  Tiled(d, e)
<1>1. \A q \in DOMAIN c :
         /\ q \in Int /\ startAddr <= q /\ q < e /\ c[q].size \in Nat /\ c[q].size >= 16
         /\ q + c[q].size \in DOMAIN c \cup {e}
         /\ \A r \in DOMAIN c : r > q => r >= q + c[q].size
  BY DEF Tiled, Chunk, MIN_CHUNK_SIZE
<1>2. prev < p /\ prev \in DOMAIN d
  BY <1>1
<1>3. startAddr \in DOMAIN d
  BY <1>1, <1>2 DEF Tiled
<1>4. \A q \in DOMAIN c : q + c[q].size = p => q = prev
  <2> SUFFICES ASSUME NEW q \in DOMAIN c, q + c[q].size = p, q # prev PROVE FALSE
    OBVIOUS
  <2>1. q > prev \/ prev > q
    BY <1>1
  <2> QED  BY <1>1, <2>1
<1>5. ASSUME NEW q \in DOMAIN d
      PROVE  /\ q \in Int /\ startAddr <= q /\ q < e
             /\ d[q] \in Chunk /\ d[q].size >= MIN_CHUNK_SIZE
             /\ q + d[q].size \in DOMAIN d \cup {e}
  <2>1. CASE q = prev
    <3>1. prev + d[prev].size = p + c[p].size
      BY <1>1
    <3>2. p + c[p].size \in DOMAIN d \cup {e}
      BY <1>1
    <3> QED  BY <1>1, <2>1, <3>1, <3>2 DEF MIN_CHUNK_SIZE
  <2>2. CASE q # prev
    BY <1>1, <1>4, <2>2 DEF MIN_CHUNK_SIZE
  <2> QED  BY <2>1, <2>2
<1>6. ASSUME NEW q \in DOMAIN d, NEW r \in DOMAIN d, r > q
      PROVE  r >= q + d[q].size
  <2>1. CASE q = prev
    <3>1. r >= p /\ r # p /\ r \in Int
      BY <1>1, <1>6, <2>1
    <3>2. r >= p + c[p].size
      BY <1>1, <3>1
    <3> QED  BY <1>1, <2>1, <3>2
  <2>2. CASE q # prev
    BY <1>1, <1>6, <2>2
  <2> QED  BY <2>1, <2>2
<1>7. QED
  BY <1>3, <1>5, <1>6 DEF Tiled

\* The heap c ends with chunk p.  It comes to end at f, inside or before p: d.
Shrunk(c, d, e, p, f) ==
    /\ e \in Int /\ Tiled(c, e) /\ p \in DOMAIN c /\ p + c[p].size = e
    /\ f \in Int /\ (f = p \/ f >= p + 16) /\ f > startAddr
    /\ \A q : q \in DOMAIN d <=> q \in DOMAIN c /\ q < f
    /\ \A q \in DOMAIN d : d[q] \in Chunk
    /\ f > p => d[p].size = f - p
    /\ \A q \in DOMAIN d : q # p => d[q].size = c[q].size

LEMMA ShrinkTiles ==
    ASSUME NEW c, NEW d, NEW e, NEW p, NEW f, Shrunk(c, d, e, p, f)
    PROVE  /\ Tiled(d, f)
           /\ \A q : q \in DOMAIN d <=> q \in DOMAIN c /\ (q # p \/ f # p)
<1> /\ e \in Int /\ Tiled(c, e) /\ p \in DOMAIN c /\ p + c[p].size = e
    /\ f \in Int /\ (f = p \/ f >= p + 16) /\ f > startAddr
    /\ \A q : q \in DOMAIN d <=> q \in DOMAIN c /\ q < f
    /\ \A q \in DOMAIN d : d[q] \in Chunk
    /\ f > p => d[p].size = f - p
    /\ \A q \in DOMAIN d : q # p => d[q].size = c[q].size
  BY DEF Shrunk
<1>1. \A q \in DOMAIN c :
         /\ q \in Int /\ startAddr <= q /\ q < e /\ c[q].size \in Nat /\ c[q].size >= 16
         /\ q + c[q].size \in DOMAIN c \cup {e}
         /\ \A r \in DOMAIN c : r > q => r >= q + c[q].size
  BY DEF Tiled, Chunk, MIN_CHUNK_SIZE
<1>2. \A q \in DOMAIN c : q <= p
  BY <1>1
<1>3. \A q : q \in DOMAIN d <=> q \in DOMAIN c /\ (q # p \/ f # p)
  <2>1. ASSUME NEW q \in DOMAIN c PROVE q < f <=> q # p \/ f # p
    <3>1. q \in Int /\ p \in Int /\ q <= p
      BY <1>1, <1>2
    <3> QED  BY <3>1
  <2> QED  BY <2>1
<1>4. startAddr \in DOMAIN d
  BY DEF Tiled
<1>5. \A q \in DOMAIN c : q # p => q < p /\ q + c[q].size \in DOMAIN c
  <2> SUFFICES ASSUME NEW q \in DOMAIN c, q # p PROVE q < p /\ q + c[q].size \in DOMAIN c
    OBVIOUS
  <2>1. q < p
    BY <1>1, <1>2
  <2>2. q + c[q].size <= p
    BY <1>1, <2>1
  <2> QED  BY <1>1, <2>1, <2>2
<1>6. ASSUME NEW q \in DOMAIN d
      PROVE  /\ q \in Int /\ startAddr <= q /\ q < f
             /\ d[q] \in Chunk /\ d[q].size >= MIN_CHUNK_SIZE
             /\ q + d[q].size \in DOMAIN d \cup {f}
  <2>1. CASE q = p
    BY <1>1, <2>1 DEF MIN_CHUNK_SIZE
  <2>2. CASE q # p
    <3>1. q \in DOMAIN c /\ d[q].size = c[q].size /\ q + c[q].size \in DOMAIN c
      BY <1>5, <2>2
    <3>2. q + c[q].size \in DOMAIN d \cup {f}
      BY <1>3, <3>1
    <3> QED  BY <1>1, <3>1, <3>2 DEF MIN_CHUNK_SIZE
  <2> QED  BY <2>1, <2>2
<1>7. ASSUME NEW q \in DOMAIN d, NEW r \in DOMAIN d, r > q
      PROVE  r >= q + d[q].size
  <2>1. q # p /\ q \in DOMAIN c /\ r \in DOMAIN c
    BY <1>1, <1>2, <1>7
  <2> QED  BY <1>1, <1>7, <2>1
<1>8. QED
  BY <1>3, <1>4, <1>6, <1>7 DEF Tiled

(***************************************************************************)
(* What the operators that alloc, free and palignedAlloc are made of do to *)
(* a heap.                                                                 *)
(***************************************************************************)

LEMMA WithIs ==
    ASSUME NEW h, IsHeap(h), NEW p, NEW k
    PROVE  LET g == With(h, p, k)
           IN  /\ IsHeap(g) /\ g.free = h.free /\ g.endAddr = h.endAddr /\ g.state = h.state
               /\ DOMAIN g.chunk = DOMAIN h.chunk \cup {p}
               /\ g.chunk[p] = k
               /\ \A q \in DOMAIN h.chunk : q # p => g.chunk[q] = h.chunk[q]
<1> DEFINE c == [q \in DOMAIN h.chunk \cup {p} |-> IF q = p THEN k ELSE h.chunk[q]]
           g == With(h, p, k)
<1>1. g = [chunk |-> c, free |-> h.free, endAddr |-> h.endAddr, state |-> h.state]
  BY DEF With, IsHeap
<1>2. DOMAIN c = DOMAIN h.chunk \cup {p} /\ c[p] = k
      /\ \A q \in DOMAIN h.chunk : q # p => c[q] = h.chunk[q]
  OBVIOUS
<1> HIDE DEF c, g
<1>3. IsHeap(g) /\ g.chunk = c /\ g.free = h.free /\ g.endAddr = h.endAddr /\ g.state = h.state
  BY <1>1 DEF IsHeap
<1>4. QED
  BY <1>2, <1>3 DEF g

\* The first chunk that is large enough, if there is one.
LEMMA FindSmallestChunkIs ==
    ASSUME NEW h, h.free \in Seq(Int), NEW n
    PROVE  LET i == findSmallestChunk(h, n)
           IN  /\ i # 0 => i \in 1 .. Len(h.free) /\ h.chunk[h.free[i]].size >= n
               /\ (\E x \in ToSet(h.free) : h.chunk[x].size >= n) => i # 0
<1> DEFINE I == {i \in 1 .. Len(h.free) : h.chunk[h.free[i]].size >= n}
<1>1. findSmallestChunk(h, n) = IF I # {} THEN Min(I) ELSE 0
  BY DEF findSmallestChunk, SelectInSeq, chunksize
<1>2. I # {} => Min(I) \in I
  <2>1. I \subseteq Nat
    OBVIOUS
  <2> HIDE DEF I
  <2> QED  BY <2>1, LeastIsThere
<1>3. (\E x \in ToSet(h.free) : h.chunk[x].size >= n) => I # {}
  BY DEF ToSet
<1>4. I # {} => Min(I) # 0
  BY <1>2
<1>5. QED
  BY <1>1, <1>2, <1>3, <1>4

LEMMA InsertChunkIs ==
    ASSUME NEW h, IsHeap(h), NEW S, Lists(h.free, S), NEW p \in Int, p \notin S
    PROVE  LET g == insertChunk(h, p)
           IN  /\ IsHeap(g) /\ g.chunk = h.chunk /\ g.endAddr = h.endAddr /\ g.state = h.state
               /\ Lists(g.free, S \cup {p})
<1> DEFINE i == findSmallestChunk(h, chunksize(h, p))
           s == IF i = 0 THEN Append(h.free, p) ELSE InsertAt(h.free, i, p)
           g == insertChunk(h, p)
<1>1. g = [chunk |-> h.chunk, free |-> s, endAddr |-> h.endAddr, state |-> h.state]
  BY DEF insertChunk, IsHeap
<1>2. i # 0 => i \in 1 .. Len(h.free)
  BY FindSmallestChunkIs DEF Lists
<1> HIDE DEF i
<1>3. Lists(s, S \cup {p})
  <2>1. CASE i = 0
    BY <2>1, AppendLists
  <2>2. CASE i # 0
    BY <1>2, <2>2, InsertAtLists
  <2> QED  BY <2>1, <2>2
<1> HIDE DEF s, g
<1>4. QED
  BY <1>1, <1>3 DEF IsHeap, g

LEMMA RemoveChunkIs ==
    ASSUME NEW h, IsHeap(h), NEW S, Lists(h.free, S), NEW p \in S
    PROVE  LET g == removeChunk(h, p)
           IN  /\ IsHeap(g) /\ g.chunk = h.chunk /\ g.endAddr = h.endAddr /\ g.state = h.state
               /\ Lists(g.free, S \ {p})
<1> DEFINE g == removeChunk(h, p)
           s == RemoveFirst(h.free, p)
<1>1. g = [chunk |-> h.chunk, free |-> s, endAddr |-> h.endAddr, state |-> h.state]
  BY DEF removeChunk, IsHeap
<1>2. Lists(s, S \ {p})
  BY RemoveFirstLists
<1> HIDE DEF s, g
<1>3. QED
  BY <1>1, <1>2 DEF IsHeap, g

\* The block is marked, and so is the chunk after it, if there is one.
LEMMA SetInuseIs ==
    ASSUME NEW h, IsHeap(h), h.endAddr \in Int,
           NEW p \in Int, NEW size \in Nat, size # 0,
           p + size < h.endAddr => p + size \in DOMAIN h.chunk,
           NEW pinuse \in BOOLEAN, NEW foot \in Nat, NEW beyond,
           \A q \in DOMAIN h.chunk : q # p => h.chunk[q] \in Chunk,
           Running(set_inuse(h, p, size, pinuse, foot, beyond))
    PROVE  LET g == set_inuse(h, p, size, pinuse, foot, beyond)
           IN  /\ IsHeap(g) /\ g.free = h.free /\ g.endAddr = h.endAddr
               /\ DOMAIN g.chunk = DOMAIN h.chunk \cup {p}
               /\ \A q \in DOMAIN g.chunk : g.chunk[q] \in Chunk
               /\ g.chunk[p].size = size /\ g.chunk[p].cinuse /\ g.chunk[p].pinuse = pinuse
               /\ \A q \in DOMAIN h.chunk : q # p =>
                     /\ g.chunk[q].size = h.chunk[q].size
                     /\ g.chunk[q].cinuse = h.chunk[q].cinuse
                     /\ h.chunk[q].pinuse => g.chunk[q].pinuse
               /\ p + size < h.endAddr => g.chunk[p + size].pinuse
<1> DEFINE k == [size |-> size, pinuse |-> pinuse, cinuse |-> TRUE, prevFoot |-> foot]
           w == With(h, p, k)
           m == p + size
           g == set_inuse(h, p, size, pinuse, foot, beyond)
<1>1. /\ IsHeap(w) /\ w.free = h.free /\ w.endAddr = h.endAddr
      /\ DOMAIN w.chunk = DOMAIN h.chunk \cup {p}
      /\ w.chunk[p] = k
      /\ \A q \in DOMAIN h.chunk : q # p => w.chunk[q] = h.chunk[q]
  BY WithIs
<1>2. k \in Chunk /\ k.size = size /\ k.pinuse = pinuse /\ k.cinuse
  BY DEF Chunk
<1>3. m # p
  OBVIOUS
<1>4. \A q \in DOMAIN w.chunk : w.chunk[q] \in Chunk
  BY <1>1, <1>2
<1>5. g = IF m < h.endAddr THEN [w EXCEPT !.chunk[m].pinuse = TRUE]
          ELSE IF beyond = "unmapped" THEN Stop(w, "page fault") ELSE w
  BY DEF set_inuse
<1> HIDE DEF k, w, g
<1>6. CASE m < h.endAddr
  <2> DEFINE x == [w.chunk[m] EXCEPT !.pinuse = TRUE]
             c == [w.chunk EXCEPT ![m] = x]
  <2>1. g = [chunk |-> c, free |-> w.free, endAddr |-> w.endAddr, state |-> w.state]
    BY <1>1, <1>5, <1>6 DEF IsHeap
  <2>2. m \in DOMAIN h.chunk /\ w.chunk[m] = h.chunk[m] /\ w.chunk[m] \in Chunk
    BY <1>1, <1>3, <1>6
  <2>3. x \in Chunk /\ x.size = h.chunk[m].size /\ x.cinuse = h.chunk[m].cinuse /\ x.pinuse
    BY <2>2 DEF Chunk
  <2> HIDE DEF x
  <2>4. DOMAIN c = DOMAIN h.chunk \cup {p} /\ c[p] = k /\ c[m] = x
        /\ \A q \in DOMAIN h.chunk : q # p /\ q # m => c[q] = h.chunk[q]
    BY <1>1, <1>3, <2>2
  <2> HIDE DEF c
  <2>5. IsHeap(g) /\ g.chunk = c /\ g.free = h.free /\ g.endAddr = h.endAddr
    BY <1>1, <2>1 DEF IsHeap
  <2> HIDE DEF m
  <2>6. \A q \in DOMAIN c : c[q] \in Chunk
    BY <1>2, <2>3, <2>4
  <2>7. ASSUME NEW q \in DOMAIN h.chunk, q # p
        PROVE  /\ c[q].size = h.chunk[q].size
               /\ c[q].cinuse = h.chunk[q].cinuse
               /\ h.chunk[q].pinuse => c[q].pinuse
    <3>1. CASE q = m
      BY <2>3, <2>4, <3>1
    <3>2. CASE q # m
      BY <2>4, <2>7, <3>2
    <3> QED  BY <3>1, <3>2
  <2>8. c[p].size = size /\ c[p].cinuse /\ c[p].pinuse = pinuse /\ c[m].pinuse
    BY <1>2, <2>3, <2>4
  <2> QED  BY <2>4, <2>5, <2>6, <2>7, <2>8 DEF m, g
<1>7. CASE ~(m < h.endAddr)
  <2>1. g = w
    BY <1>1, <1>5, <1>7 DEF Running, Stop, IsHeap, g
  <2> QED  BY <1>1, <1>2, <1>4, <1>7, <2>1 DEF m, g
<1>8. QED
  BY <1>6, <1>7

LEMMA RequestIs ==
    ASSUME NEW req \in Nat
    PROVE  request2size(req) \in Nat /\ request2size(req) >= 16 /\ request2size(req) >= req + 4
BY DEF request2size, MIN_CHUNK_SIZE

\* The state of a heap is a string: nothing here looks into it.
LEMMA HeapFacts ==
    ASSUME NEW h, HeapOK(h)
    PROVE  /\ IsHeap(h) /\ h.endAddr \in Int
           /\ h.free \in Seq(Int) /\ ToSet(h.free) = DOMAIN h.chunk \ Held(h.chunk)
           /\ Lists(h.free, DOMAIN h.chunk \ Held(h.chunk))
           /\ \A p \in DOMAIN h.chunk :
                 /\ p \in Int /\ startAddr <= p /\ p < h.endAddr /\ startAddr \in Int
                 /\ h.chunk[p] \in Chunk
                 /\ h.chunk[p].size \in Nat /\ h.chunk[p].size >= 16
                 /\ h.chunk[p].pinuse \in BOOLEAN /\ h.chunk[p].prevFoot \in Nat
                 /\ p + h.chunk[p].size <= h.endAddr
                 /\ p + h.chunk[p].size < h.endAddr => p + h.chunk[p].size \in DOMAIN h.chunk
<1>1. IsHeap(h) /\ h.endAddr \in Int /\ Tiled(h.chunk, h.endAddr)
      /\ Lists(h.free, DOMAIN h.chunk \ Held(h.chunk))
  BY DEF HeapOK
<1>2. h.free \in Seq(Int) /\ ToSet(h.free) = DOMAIN h.chunk \ Held(h.chunk)
  BY <1>1 DEF Lists
<1>3. startAddr \in Int
  BY <1>1 DEF Tiled
<1>4. ASSUME NEW p \in DOMAIN h.chunk
      PROVE  /\ p \in Int /\ startAddr <= p /\ p < h.endAddr
             /\ h.chunk[p] \in Chunk
             /\ h.chunk[p].size \in Nat /\ h.chunk[p].size >= 16
             /\ h.chunk[p].pinuse \in BOOLEAN /\ h.chunk[p].prevFoot \in Nat
             /\ p + h.chunk[p].size <= h.endAddr
             /\ p + h.chunk[p].size < h.endAddr => p + h.chunk[p].size \in DOMAIN h.chunk
  <2>1. p \in Int /\ startAddr <= p /\ p < h.endAddr /\ h.chunk[p] \in Chunk
        /\ h.chunk[p].size >= MIN_CHUNK_SIZE /\ p + h.chunk[p].size \in DOMAIN h.chunk \cup {h.endAddr}
    BY <1>1 DEF Tiled
  <2>2. p + h.chunk[p].size <= h.endAddr
    BY <1>1, TileEnds
  <2>3. h.chunk[p].size \in Nat /\ h.chunk[p].pinuse \in BOOLEAN /\ h.chunk[p].prevFoot \in Nat
    BY <2>1 DEF Chunk
  <2>4. p + h.chunk[p].size < h.endAddr => p + h.chunk[p].size \in DOMAIN h.chunk
    BY <1>1, <2>1, <2>3
  <2> QED  BY <2>1, <2>2, <2>3, <2>4 DEF MIN_CHUNK_SIZE
<1>5. QED
  BY <1>1, <1>2, <1>3, <1>4

\* Flags and feet may change: the tiles are where they were.
LEMMA SameTiles ==
    ASSUME NEW c, NEW d, NEW e \in Int, Tiled(c, e), DOMAIN d = DOMAIN c,
           \A q \in DOMAIN d : d[q] \in Chunk /\ d[q].size = c[q].size
    PROVE  Tiled(d, e)
BY DEF Tiled

\* alloc, once a chunk is large enough: the caller gets it, or its first part.
LEMMA CarveKeeps ==
    ASSUME NEW h, HeapOK(h), NEW nb \in Nat, nb >= 16, findSmallestChunk(h, nb) # 0,
           NEW beyond, Running(Carve(h, nb, beyond).heap)
    PROVE  LET r == Carve(h, nb, beyond)
           IN  /\ r.at \in DOMAIN h.chunk \ Held(h.chunk)
               /\ HeapOK(r.heap)
               /\ Held(r.heap.chunk) = Held(h.chunk) \cup {r.at}
               /\ KeepSize(h.chunk, r.heap.chunk, Held(h.chunk))
               /\ r.heap.chunk[r.at].size >= nb
<1> DEFINE hole == h.free[findSmallestChunk(h, nb)]
           rest == h.chunk[hole].size - nb
           m    == hole + nb
           F    == DOMAIN h.chunk \ Held(h.chunk)
           pin  == h.chunk[hole].pinuse
           foot == h.chunk[hole].prevFoot
           h1   == removeChunk(h, hole)
           K    == [FreeChunk(rest) EXCEPT !.pinuse = FALSE]
           h2   == With(h1, m, K)
           cut  == insertChunk(h2, m)
           r    == Carve(h, nb, beyond)
           g    == r.heap
<1>1. /\ r.at = hole
      /\ g = IF rest >= 16 THEN set_inuse(cut, hole, nb, pin, foot, beyond)
             ELSE set_inuse(h1, hole, h.chunk[hole].size, pin, foot, beyond)
  BY DEF Carve, chunksize, MIN_CHUNK_SIZE
<1>2. hole \in F /\ h.chunk[hole].size >= nb
  <2>1. findSmallestChunk(h, nb) \in 1 .. Len(h.free) /\ h.chunk[hole].size >= nb
    BY HeapFacts, FindSmallestChunkIs
  <2>2. ToSet(h.free) = F
    BY HeapFacts
  <2> HIDE DEF F
  <2> QED  BY <2>1, <2>2, HeapFacts DEF ToSet
<1>3. /\ IsHeap(h1) /\ h1.chunk = h.chunk /\ h1.endAddr = h.endAddr
      /\ Lists(h1.free, F \ {hole})
  BY <1>2, RemoveChunkIs, HeapFacts
<1>4. hole \in DOMAIN h.chunk /\ hole \notin Held(h.chunk) /\ ~h.chunk[hole].cinuse
  BY <1>2 DEF Held
<1> HIDE DEF hole
<1>5. /\ hole \in Int /\ h.endAddr \in Int /\ h.chunk[hole].size \in Nat /\ h.chunk[hole].size >= 16
      /\ pin \in BOOLEAN /\ foot \in Nat /\ rest \in Nat /\ m \in Int
      /\ hole + h.chunk[hole].size < h.endAddr => hole + h.chunk[hole].size \in DOMAIN h.chunk
      /\ hole + h.chunk[hole].size <= h.endAddr
      /\ \A q \in DOMAIN h.chunk : h.chunk[q] \in Chunk
  <2>1. /\ hole \in Int /\ h.endAddr \in Int /\ h.chunk[hole].size \in Nat /\ h.chunk[hole].size >= 16
        /\ pin \in BOOLEAN /\ foot \in Nat
        /\ hole + h.chunk[hole].size < h.endAddr => hole + h.chunk[hole].size \in DOMAIN h.chunk
        /\ hole + h.chunk[hole].size <= h.endAddr
    BY <1>4, HeapFacts
  <2>2. \A q \in DOMAIN h.chunk : h.chunk[q] \in Chunk
    BY HeapFacts
  <2>3. rest \in Nat /\ m \in Int
    BY <1>2, <2>1
  <2> QED  BY <2>1, <2>2, <2>3
<1>6. Running(g)
  OBVIOUS
<1>7. Tiled(h.chunk, h.endAddr) /\ Truthful(h.chunk)
  BY DEF HeapOK
<1>8. CASE rest < 16
  <2>1. g = set_inuse(h1, hole, h.chunk[hole].size, pin, foot, beyond)
    BY <1>1, <1>5, <1>8
  <2> HIDE DEF g, h1, pin, foot
  <2>2. /\ IsHeap(g) /\ g.free = h1.free /\ g.endAddr = h.endAddr
        /\ DOMAIN g.chunk = DOMAIN h.chunk
        /\ \A q \in DOMAIN g.chunk : g.chunk[q] \in Chunk
        /\ g.chunk[hole].size = h.chunk[hole].size /\ g.chunk[hole].cinuse /\ g.chunk[hole].pinuse = pin
        /\ \A q \in DOMAIN h.chunk : q # hole =>
              /\ g.chunk[q].size = h.chunk[q].size
              /\ g.chunk[q].cinuse = h.chunk[q].cinuse
              /\ h.chunk[q].pinuse => g.chunk[q].pinuse
        /\ hole + h.chunk[hole].size < h.endAddr => g.chunk[hole + h.chunk[hole].size].pinuse
    <3> DEFINE n == h.chunk[hole].size
    <3>1. /\ n \in Nat /\ n # 0 /\ h1.endAddr \in Int /\ IsHeap(h1)
          /\ hole \in Int /\ pin \in BOOLEAN /\ foot \in Nat
          /\ hole + n < h1.endAddr => hole + n \in DOMAIN h1.chunk
          /\ \A q \in DOMAIN h1.chunk : q # hole => h1.chunk[q] \in Chunk
      BY <1>3, <1>5
    <3>2. DOMAIN h1.chunk \cup {hole} = DOMAIN h.chunk
      BY <1>3, <1>4
    <3>3. Running(set_inuse(h1, hole, n, pin, foot, beyond))
      BY <1>6, <2>1
    <3>4. g = set_inuse(h1, hole, n, pin, foot, beyond)
      BY <2>1
    <3>5. /\ IsHeap(g) /\ g.free = h1.free /\ g.endAddr = h1.endAddr
          /\ DOMAIN g.chunk = DOMAIN h1.chunk \cup {hole}
          /\ \A q \in DOMAIN g.chunk : g.chunk[q] \in Chunk
          /\ g.chunk[hole].size = n /\ g.chunk[hole].cinuse /\ g.chunk[hole].pinuse = pin
          /\ \A q \in DOMAIN h1.chunk : q # hole =>
                /\ g.chunk[q].size = h1.chunk[q].size
                /\ g.chunk[q].cinuse = h1.chunk[q].cinuse
                /\ h1.chunk[q].pinuse => g.chunk[q].pinuse
          /\ hole + n < h1.endAddr => g.chunk[hole + n].pinuse
      <4> HIDE DEF n
      <4> QED  BY <3>1, <3>3, <3>4, SetInuseIs
    <3> QED  BY <1>3, <3>2, <3>5
  <2>3. Held(g.chunk) = Held(h.chunk) \cup {hole}
    BY <1>4, <2>2 DEF Held
  <2>4. Tiled(g.chunk, g.endAddr)
    BY <1>5, <1>7, <2>2, SameTiles
  <2>5. Truthful(g.chunk)
    <3> SUFFICES ASSUME NEW p \in DOMAIN h.chunk, NEW q \in DOMAIN h.chunk,
                        q + g.chunk[q].size = p, g.chunk[q].cinuse
                 PROVE  g.chunk[p].pinuse
      BY <2>2 DEF Truthful
    <3>1. CASE q = hole
      BY <2>2, <3>1, HeapFacts
    <3>2. CASE q # hole
      <4>1. q + h.chunk[q].size = p /\ h.chunk[q].cinuse
        BY <2>2, <3>2
      <4>2. h.chunk[p].pinuse
        BY <1>7, <4>1 DEF Truthful
      <4> QED  BY <2>2, <4>2 DEF pin
    <3> QED  BY <3>1, <3>2
  <2>6. Lists(g.free, DOMAIN g.chunk \ Held(g.chunk))
    <3>1. DOMAIN g.chunk \ Held(g.chunk) = F \ {hole}
      BY <2>2, <2>3
    <3> QED  BY <1>3, <2>2, <3>1
  <2>7. HeapOK(g)
    BY <1>5, <2>2, <2>4, <2>5, <2>6 DEF HeapOK
  <2>8. KeepSize(h.chunk, g.chunk, Held(h.chunk))
    BY <1>4, <2>2 DEF KeepSize, Held
  <2> QED  BY <1>1, <1>2, <2>2, <2>3, <2>7, <2>8 DEF g
<1>9. CASE rest >= 16
  <2>1. g = set_inuse(cut, hole, nb, pin, foot, beyond)
    BY <1>1, <1>9
  <2>2. K \in Chunk /\ K.size = rest /\ ~K.cinuse
    BY <1>5 DEF FreeChunk, Chunk
  <2>3. m \notin DOMAIN h.chunk
    <3>1. \A q \in DOMAIN h.chunk : q > hole => q >= hole + h.chunk[hole].size
      BY <1>4, <1>5, <1>7, TileEnds
    <3> QED  BY <1>5, <1>9, <3>1
  <2> HIDE DEF K, h1
  <2>4. /\ IsHeap(h2) /\ h2.free = h1.free /\ h2.endAddr = h.endAddr
        /\ DOMAIN h2.chunk = DOMAIN h.chunk \cup {m}
        /\ h2.chunk[m] = K
        /\ \A q \in DOMAIN h.chunk : q # m => h2.chunk[q] = h.chunk[q]
    BY <1>3, WithIs
  <2> HIDE DEF h2
  <2>5. /\ IsHeap(cut) /\ cut.chunk = h2.chunk /\ cut.endAddr = h.endAddr
        /\ Lists(cut.free, (F \ {hole}) \cup {m})
    <3> DEFINE T == F \ {hole}
    <3>1. m \in Int /\ m \notin T /\ IsHeap(h2) /\ Lists(h2.free, T)
      BY <1>3, <1>5, <2>3, <2>4
    <3> HIDE DEF T, m
    <3>2. /\ IsHeap(cut) /\ cut.chunk = h2.chunk /\ cut.endAddr = h2.endAddr
          /\ Lists(cut.free, T \cup {m})
      BY <3>1, InsertChunkIs
    <3> QED  BY <2>4, <3>2 DEF T
  <2> HIDE DEF cut, g, pin, foot
  <2>6. m \in DOMAIN cut.chunk /\ hole \in DOMAIN cut.chunk /\ m # hole
        /\ \A q \in DOMAIN cut.chunk : cut.chunk[q] \in Chunk
    BY <1>4, <1>5, <2>2, <2>3, <2>4, <2>5
  <2>7. /\ IsHeap(g) /\ g.free = cut.free /\ g.endAddr = h.endAddr
        /\ DOMAIN g.chunk = DOMAIN cut.chunk
        /\ \A q \in DOMAIN g.chunk : g.chunk[q] \in Chunk
        /\ g.chunk[hole].size = nb /\ g.chunk[hole].cinuse /\ g.chunk[hole].pinuse = pin
        /\ \A q \in DOMAIN cut.chunk : q # hole =>
              /\ g.chunk[q].size = cut.chunk[q].size
              /\ g.chunk[q].cinuse = cut.chunk[q].cinuse
              /\ cut.chunk[q].pinuse => g.chunk[q].pinuse
        /\ m < h.endAddr => g.chunk[m].pinuse
    <3>1. /\ nb # 0 /\ cut.endAddr \in Int
          /\ hole + nb < cut.endAddr => hole + nb \in DOMAIN cut.chunk
          /\ \A q \in DOMAIN cut.chunk : q # hole => cut.chunk[q] \in Chunk
      BY <1>5, <2>5, <2>6
    <3>2. DOMAIN cut.chunk \cup {hole} = DOMAIN cut.chunk
      BY <2>6
    <3>3. /\ IsHeap(g) /\ g.free = cut.free /\ g.endAddr = cut.endAddr
          /\ DOMAIN g.chunk = DOMAIN cut.chunk \cup {hole}
          /\ \A q \in DOMAIN g.chunk : g.chunk[q] \in Chunk
          /\ g.chunk[hole].size = nb /\ g.chunk[hole].cinuse /\ g.chunk[hole].pinuse = pin
          /\ \A q \in DOMAIN cut.chunk : q # hole =>
                /\ g.chunk[q].size = cut.chunk[q].size
                /\ g.chunk[q].cinuse = cut.chunk[q].cinuse
                /\ cut.chunk[q].pinuse => g.chunk[q].pinuse
          /\ hole + nb < cut.endAddr => g.chunk[hole + nb].pinuse
      BY <1>5, <1>6, <2>1, <2>5, <3>1, SetInuseIs
    <3> QED  BY <2>5, <3>2, <3>3
  <2>8. /\ DOMAIN g.chunk = DOMAIN h.chunk \cup {m}
        /\ g.chunk[m].size = rest /\ ~g.chunk[m].cinuse /\ g.chunk[m].pinuse
        /\ \A q \in DOMAIN h.chunk : q # hole =>
              /\ g.chunk[q].size = h.chunk[q].size
              /\ g.chunk[q].cinuse = h.chunk[q].cinuse
              /\ h.chunk[q].pinuse => g.chunk[q].pinuse
    <3>1. m < h.endAddr
      BY <1>5, <1>9
    <3> QED  BY <2>2, <2>3, <2>4, <2>5, <2>6, <2>7, <3>1
  <2>9. Held(g.chunk) = Held(h.chunk) \cup {hole}
    BY <1>4, <2>3, <2>7, <2>8 DEF Held
  <2>10. Tiled(g.chunk, g.endAddr)
    <3>1. m - hole = nb /\ hole + h.chunk[hole].size - m = rest /\ hole + 16 <= m
          /\ m + 16 <= hole + h.chunk[hole].size
      BY <1>5, <1>9
    <3> HIDE DEF m, rest
    <3> QED  BY <1>4, <1>5, <1>7, <2>7, <2>8, <3>1, SplitTiles
  <2>11. Truthful(g.chunk)
    <3> SUFFICES ASSUME NEW p \in DOMAIN g.chunk, NEW q \in DOMAIN g.chunk,
                        q + g.chunk[q].size = p, g.chunk[q].cinuse
                 PROVE  g.chunk[p].pinuse
      BY DEF Truthful
    <3>1. CASE q = hole
      BY <2>7, <2>8, <3>1
    <3>2. CASE p = m
      BY <2>8, <3>2
    <3>3. CASE q # hole /\ p # m
      <4>1. q \in DOMAIN h.chunk /\ p \in DOMAIN h.chunk
        BY <2>8, <3>3
      <4>2. q + h.chunk[q].size = p /\ h.chunk[q].cinuse
        BY <2>8, <3>3, <4>1
      <4>3. h.chunk[p].pinuse
        BY <1>7, <4>1, <4>2 DEF Truthful
      <4> QED  BY <2>7, <2>8, <4>1, <4>3 DEF pin
    <3> QED  BY <3>1, <3>2, <3>3
  <2>12. Lists(g.free, DOMAIN g.chunk \ Held(g.chunk))
    <3>1. DOMAIN g.chunk \ Held(g.chunk) = (F \ {hole}) \cup {m}
      BY <1>4, <2>3, <2>8, <2>9 DEF Held
    <3> QED  BY <2>5, <2>7, <3>1
  <2>13. HeapOK(g)
    BY <1>5, <2>7, <2>10, <2>11, <2>12 DEF HeapOK
  <2>14. KeepSize(h.chunk, g.chunk, Held(h.chunk))
    BY <1>4, <2>8 DEF KeepSize, Held
  <2>15. g.chunk[hole].size >= nb
    BY <2>7
  <2> QED  BY <1>1, <1>2, <2>9, <2>13, <2>14, <2>15 DEF g
<1>10. QED
  BY <1>5, <1>8, <1>9

-----------------------------------------------------------------------------
(* alloc. *)

LEMMA DivModIs ==
    ASSUME NEW n \in Nat, n > 0, NEW y \in Int
    PROVE  y \div n \in Int /\ y % n \in 0 .. n - 1 /\ y = n * (y \div n) + (y % n)
OBVIOUS

\* The page that an address is in, and where in it.
LEMMA PageDivMod ==
    ASSUME NEW y \in Int
    PROVE  /\ y \div PAGE_SIZE \in Int /\ y % PAGE_SIZE \in 0 .. PAGE_SIZE - 1
           /\ y = PAGE_SIZE * (y \div PAGE_SIZE) + (y % PAGE_SIZE)
<1>1. PAGE_SIZE \in Nat /\ PAGE_SIZE > 0
  BY HeapConstants DEF MIN_CHUNK_SIZE
<1>2. QED
  BY <1>1, DivModIs

LEMMA RoundedUp ==
    ASSUME NEW x \in Int
    PROVE  /\ RoundedToPage(x) \in Int /\ RoundedToPage(x) >= x
           /\ \E k \in Int : RoundedToPage(x) = PAGE_SIZE * k
<1> DEFINE y == x + PAGE_SIZE - 1
           k == y \div PAGE_SIZE
           o == y % PAGE_SIZE
<1>1. PAGE_SIZE \in Nat /\ PAGE_SIZE > 16
  BY HeapConstants DEF MIN_CHUNK_SIZE
<1>2. y \in Int
  BY <1>1
<1>3. k \in Int /\ y = PAGE_SIZE * k + o /\ o \in 0 .. PAGE_SIZE - 1
  <2> HIDE DEF y
  <2> QED  BY <1>2, PageDivMod
<1>4. RoundedToPage(x) = k * PAGE_SIZE
  BY DEF RoundedToPage
<1> HIDE DEF k, o
<1>5. k * PAGE_SIZE = PAGE_SIZE * k /\ PAGE_SIZE * k \in Int
  BY <1>1, <1>3
<1>6. PAGE_SIZE * k >= x
  BY <1>1, <1>3, <1>5
<1>7. QED
  BY <1>3, <1>4, <1>5, <1>6

\* Two page boundaries are a page apart, at least.
LEMMA PagesApart ==
    ASSUME NEW i \in Int, NEW j \in Int, PAGE_SIZE * i > PAGE_SIZE * j
    PROVE  PAGE_SIZE * i >= PAGE_SIZE * j + PAGE_SIZE
<1>1. PAGE_SIZE \in Nat
  BY HeapConstants
<1>2. i > j
  <2> SUFFICES ASSUME j >= i PROVE PAGE_SIZE * j >= PAGE_SIZE * i
    BY <1>1
  <2>1. j - i \in Nat /\ PAGE_SIZE * (j - i) >= 0
    BY <1>1
  <2>2. PAGE_SIZE * (j - i) = PAGE_SIZE * j - PAGE_SIZE * i
    BY <1>1
  <2> QED  BY <1>1, <2>1, <2>2
<1>3. i - j - 1 \in Nat /\ PAGE_SIZE * (i - j - 1) >= 0
  BY <1>1, <1>2
<1>4. PAGE_SIZE * (i - j - 1) = PAGE_SIZE * i - PAGE_SIZE * j - PAGE_SIZE
  BY <1>1
<1>5. QED
  BY <1>1, <1>3, <1>4

LEMMA StopStops ==
    ASSUME NEW h, IsHeap(h), NEW why, why # "running"
    PROVE  ~Running(Stop(h, why))
<1>1. Stop(h, why) = [chunk |-> h.chunk, free |-> h.free, endAddr |-> h.endAddr, state |-> why]
  BY DEF Stop, IsHeap
<1>2. Stop(h, why).state = why
  BY <1>1
<1>3. QED
  BY <1>2 DEF Running

\* expand either reaches the end of what the heap may have or adds whole pages.
LEMMA ExpandIs ==
    ASSUME NEW h, IsHeap(h), h.endAddr \in Int, startAddr \in Int, NEW nb \in Nat,
           Running(expand(h, HeapSize(h) + nb))
    PROVE  LET g == expand(h, HeapSize(h) + nb)
           IN  /\ IsHeap(g) /\ g.chunk = h.chunk /\ g.free = h.free
               /\ g.endAddr \in Int /\ g.endAddr >= h.endAddr + nb
<1> DEFINE g == expand(h, HeapSize(h) + nb)
           n == RoundedToPage(HeapSize(h) + nb)
<1>1. startAddr + n <= maxAddr
  <2> SUFFICES ASSUME ~(startAddr + n <= maxAddr) PROVE FALSE
    OBVIOUS
  <2>1. g = Stop(h, "assertion")
    BY DEF expand
  <2>2. "assertion" # "running"
    OBVIOUS
  <2> QED  BY <2>1, <2>2, StopStops
<1>2. g = [chunk |-> h.chunk, free |-> h.free, endAddr |-> startAddr + n, state |-> h.state]
  BY <1>1 DEF expand, IsHeap
<1>3. n \in Int /\ n >= h.endAddr - startAddr + nb
  BY RoundedUp DEF HeapSize
<1> HIDE DEF g, n
<1>4. QED
  BY <1>2, <1>3 DEF IsHeap, g

\* The new pages make a free chunk that is large enough for the request.
LEMMA ToppedKeeps ==
    ASSUME NEW h, HeapOK(h), NEW nb \in Nat, nb >= 16,
           NEW w, IsHeap(w), w.chunk = h.chunk, w.free = h.free,
           w.endAddr \in Int, w.endAddr >= h.endAddr + nb,
           Running(Topped(w, h.endAddr))
    PROVE  LET g == Topped(w, h.endAddr)
           IN  /\ HeapOK(g)
               /\ Held(g.chunk) = Held(h.chunk)
               /\ KeepSize(h.chunk, g.chunk, Held(h.chunk))
               /\ findSmallestChunk(g, nb) # 0
<1> DEFINE e == h.endAddr
           f == w.endAddr
           c == h.chunk
           F == DOMAIN c \ Held(c)
           top == Max(ToSet(w.free))
           joined == w.free # <<>> /\ top + chunksize(w, top) = e
           at == IF joined THEN top ELSE e
           w1 == IF joined THEN removeChunk(w, top) ELSE w
           K  == FreeChunk(f - at)
           w2 == With(w1, at, K)
           g  == Topped(w, e)
<1>1. /\ IsHeap(h) /\ e \in Int /\ h.free \in Seq(Int) /\ ToSet(h.free) = F /\ Lists(h.free, F)
      /\ Tiled(c, e) /\ Truthful(c)
  BY HeapFacts DEF HeapOK
<1>2. g = insertChunk(w2, at)
  <2>1. CASE joined /\ ~w.chunk[top].pinuse /\ w.chunk[top].cinuse
    <3>1. g = Stop(w, "(alloc) Memory Corrupt")
      BY <2>1, Zenon DEF Topped
    <3>2. "(alloc) Memory Corrupt" # "running"
      BY Zenon
    <3>3. ~Running(g)
      <4> DEFINE why == "(alloc) Memory Corrupt"
      <4>1. g = Stop(w, why) /\ why # "running"
        BY <3>1, <3>2
      <4> HIDE DEF why
      <4> QED  BY <4>1, StopStops
    <3> QED  BY <3>3
  <2>2. CASE ~(joined /\ ~w.chunk[top].pinuse /\ w.chunk[top].cinuse)
    BY <2>2, Zenon DEF Topped
  <2> QED  BY <2>1, <2>2
<1>3. joined => top \in F /\ top \in DOMAIN c /\ top \in Int /\ top + c[top].size = e /\ top < e
  <2> SUFFICES ASSUME joined PROVE top \in F /\ top \in DOMAIN c /\ top \in Int /\ top + c[top].size = e /\ top < e
    OBVIOUS
  <2>1. F # {} /\ F \subseteq Int /\ \A x \in F : x < e
    <3>1. \A p \in DOMAIN c : p \in Int /\ p < e
      BY HeapFacts
    <3>2. h.free[1] \in ToSet(h.free)
      BY <1>1 DEF ToSet
    <3> QED  BY <1>1, <3>1, <3>2
  <2>2. top = Max(F)
    BY <1>1
  <2>3. top \in F
    <3> HIDE DEF F, top
    <3> QED  BY <1>1, <2>1, <2>2, HighestIsThere
  <2>4. top + c[top].size = e
    BY DEF chunksize
  <2> QED  BY <2>1, <2>3, <2>4
<1>4. joined <=> at # e
  BY <1>3
<1>5. at \in Int /\ at <= e /\ e \notin DOMAIN c
  <2>1. \A p \in DOMAIN c : p \in Int /\ p < e
    BY HeapFacts
  <2> QED  BY <1>1, <1>3, <2>1
<1>6. /\ IsHeap(w1) /\ w1.chunk = c /\ w1.endAddr = f
      /\ Lists(w1.free, F \ {at})
  <2>1. CASE joined
    BY <1>1, <1>3, <2>1, RemoveChunkIs
  <2>2. CASE ~joined
    <3>1. F \ {at} = F
      BY <1>5, <2>2
    <3> QED  BY <1>1, <2>2, <3>1
  <2> QED  BY <2>1, <2>2
<1>7. at = e \/ (at \in DOMAIN c /\ at \notin Held(c) /\ at + c[at].size = e)
  BY <1>3
<1>8. f >= e + nb /\ f \in Int /\ f - at >= nb
  BY <1>1, <1>5
<1> HIDE DEF at, joined, w1, top
<1>9. K \in Chunk /\ K.size = f - at /\ ~K.cinuse /\ K.pinuse
  BY <1>5, <1>8 DEF FreeChunk, Chunk
<1> HIDE DEF K
<1>10. /\ IsHeap(w2) /\ w2.free = w1.free /\ w2.endAddr = f
       /\ DOMAIN w2.chunk = DOMAIN c \cup {at}
       /\ w2.chunk[at] = K
       /\ \A q \in DOMAIN c : q # at => w2.chunk[q] = c[q]
  BY <1>6, WithIs
<1> HIDE DEF w2
<1>11. /\ IsHeap(g) /\ g.chunk = w2.chunk /\ g.endAddr = f
       /\ Lists(g.free, (F \ {at}) \cup {at})
  <2> DEFINE T == F \ {at}
  <2>1. at \in Int /\ at \notin T /\ IsHeap(w2) /\ Lists(w2.free, T)
    BY <1>5, <1>6, <1>10
  <2> HIDE DEF T
  <2>2. /\ IsHeap(g) /\ g.chunk = w2.chunk /\ g.endAddr = w2.endAddr
        /\ Lists(g.free, T \cup {at})
    BY <1>2, <2>1, InsertChunkIs
  <2> QED  BY <1>10, <2>2 DEF T
<1> HIDE DEF g
<1>12. /\ DOMAIN g.chunk = DOMAIN c \cup {at}
       /\ g.chunk[at] \in Chunk /\ g.chunk[at].size = f - at /\ ~g.chunk[at].cinuse /\ g.chunk[at].pinuse
       /\ \A q \in DOMAIN c : q # at => g.chunk[q] = c[q]
  BY <1>9, <1>10, <1>11
<1>13. Held(g.chunk) = Held(c)
  <2>1. at \notin Held(c)
    BY <1>5, <1>7 DEF Held
  <2> QED  BY <1>12, <2>1 DEF Held
<1>14. Tiled(g.chunk, f)
  <2> DEFINE d == g.chunk
  <2>1. \A q \in DOMAIN d : d[q] \in Chunk
    <3>1. \A q \in DOMAIN c : c[q] \in Chunk
      BY HeapFacts
    <3> QED  BY <1>12, <3>1
  <2>2. f >= at + 16 /\ f > e
    BY <1>1, <1>5, <1>8
  <2>3. \A q \in DOMAIN c : q # at => d[q].size = c[q].size
    BY <1>12
  <2>4. at = e \/ (at \in DOMAIN c /\ at + c[at].size = e)
    BY <1>7
  <2>5. /\ e \in Int /\ f \in Int /\ at \in Int /\ Tiled(c, e)
        /\ DOMAIN d = DOMAIN c \cup {at} /\ d[at].size = f - at
    BY <1>1, <1>5, <1>8, <1>12
  <2>6. Tiled(d, f)
    <3> HIDE DEF e, f, c, d
    <3> QED  BY <2>1, <2>2, <2>3, <2>4, <2>5, ExtendTiles
  <2> QED  BY <2>6
<1>15. Truthful(g.chunk)
  <2> SUFFICES ASSUME NEW p \in DOMAIN g.chunk, NEW q \in DOMAIN g.chunk,
                      q + g.chunk[q].size = p, g.chunk[q].cinuse
               PROVE  g.chunk[p].pinuse
    BY DEF Truthful
  <2>1. CASE p = at
    BY <1>12, <2>1
  <2>2. CASE p # at
    <3>1. q # at
      BY <1>12
    <3>2. p \in DOMAIN c /\ q \in DOMAIN c /\ g.chunk[p] = c[p] /\ g.chunk[q] = c[q]
      BY <1>12, <2>2, <3>1
    <3> HIDE DEF c
    <3> QED  BY <1>1, <3>2 DEF Truthful
  <2> QED  BY <2>1, <2>2
<1>16. Lists(g.free, DOMAIN g.chunk \ Held(g.chunk))
  <2>1. at \notin Held(c)
    BY <1>5, <1>7 DEF Held
  <2>2. DOMAIN g.chunk \ Held(g.chunk) = (F \ {at}) \cup {at}
    BY <1>12, <1>13, <2>1
  <2> QED  BY <1>11, <2>2
<1>17. HeapOK(g)
  BY <1>8, <1>11, <1>14, <1>15, <1>16 DEF HeapOK
<1>18. KeepSize(c, g.chunk, Held(c))
  <2>1. at \notin Held(c)
    BY <1>5, <1>7 DEF Held
  <2> QED  BY <1>12, <2>1 DEF KeepSize, Held
<1>19. findSmallestChunk(g, nb) # 0
  <2>1. at \in ToSet(g.free) /\ g.free \in Seq(Int)
    BY <1>11 DEF Lists
  <2>2. g.chunk[at].size >= nb
    BY <1>8, <1>12
  <2> QED  BY <2>1, <2>2, FindSmallestChunkIs
<1>20. QED
  BY <1>13, <1>17, <1>18, <1>19 DEF g

\* alloc hands out a free chunk, or a part of one, and leaves what is held alone.
LEMMA AllocKeeps ==
    ASSUME NEW h, HeapOK(h), NEW nb \in Nat, nb >= 16, NEW beyond,
           Running(Alloc(h, nb, beyond).heap)
    PROVE  LET r == Alloc(h, nb, beyond)
           IN  /\ r.at \notin Held(h.chunk)
               /\ HeapOK(r.heap)
               /\ Held(r.heap.chunk) = Held(h.chunk) \cup {r.at}
               /\ KeepSize(h.chunk, r.heap.chunk, Held(h.chunk))
               /\ r.heap.chunk[r.at].size >= nb
<1> DEFINE grown == expand(h, HeapSize(h) + nb)
           ready == IF findSmallestChunk(h, nb) # 0 THEN h
                    ELSE IF Running(grown) THEN Topped(grown, h.endAddr) ELSE grown
           r == Alloc(h, nb, beyond)
<1>1. r = IF Running(ready) THEN Carve(ready, nb, beyond) ELSE [at |-> 0, heap |-> ready]
  BY DEF Alloc
<1>2. Running(ready) /\ r = Carve(ready, nb, beyond)
  BY <1>1
<1>3. /\ HeapOK(ready) /\ findSmallestChunk(ready, nb) # 0
      /\ Held(ready.chunk) = Held(h.chunk)
      /\ KeepSize(h.chunk, ready.chunk, Held(h.chunk))
  <2>1. CASE findSmallestChunk(h, nb) # 0
    BY <2>1 DEF KeepSize
  <2>2. CASE findSmallestChunk(h, nb) = 0
    <3>1. Running(grown) /\ ready = Topped(grown, h.endAddr)
      BY <1>2, <2>2
    <3>2. IsHeap(h) /\ h.endAddr \in Int /\ startAddr \in Int
      BY HeapConstants DEF HeapOK
    <3>3. /\ IsHeap(grown) /\ grown.chunk = h.chunk /\ grown.free = h.free
          /\ grown.endAddr \in Int /\ grown.endAddr >= h.endAddr + nb
      BY <3>1, <3>2, ExpandIs
    <3> HIDE DEF grown, ready
    <3> QED  BY <1>2, <3>1, <3>3, ToppedKeeps
  <2> QED  BY <2>1, <2>2
<1> HIDE DEF ready, r
<1>4. /\ r.at \in DOMAIN ready.chunk \ Held(ready.chunk)
      /\ HeapOK(r.heap)
      /\ Held(r.heap.chunk) = Held(ready.chunk) \cup {r.at}
      /\ KeepSize(ready.chunk, r.heap.chunk, Held(ready.chunk))
      /\ r.heap.chunk[r.at].size >= nb
  <2>1. Running(Carve(ready, nb, beyond).heap)
    BY <1>2 DEF r
  <2> QED  BY <1>2, <1>3, <2>1, CarveKeeps
<1>5. KeepSize(h.chunk, r.heap.chunk, Held(h.chunk))
  BY <1>3, <1>4 DEF KeepSize
<1>6. QED
  BY <1>3, <1>4, <1>5 DEF r

-----------------------------------------------------------------------------
(* free. *)

\* Chunk p is out of the list, about to be freed: it is the block, or the
\* chunk that the block and its free neighbour have become.
Pulled(h, block, g, p) ==
    /\ IsHeap(g) /\ g.endAddr = h.endAddr /\ h.endAddr \in Int
    /\ p \in DOMAIN g.chunk
    /\ Tiled(g.chunk, h.endAddr)
    /\ Truthful(g.chunk)
    /\ Lists(g.free, (DOMAIN g.chunk \ Held(g.chunk)) \ {p})
    /\ Held(g.chunk) \ {p} = Held(h.chunk) \ {block}
    /\ \A q \in DOMAIN g.chunk : q # p => q \in DOMAIN h.chunk /\ g.chunk[q] = h.chunk[q]

LEMMA BlockPulled ==
    ASSUME NEW h, HeapOK(h), NEW block \in Held(h.chunk)
    PROVE  Pulled(h, block, h, block)
<1>1. (DOMAIN h.chunk \ Held(h.chunk)) \ {block} = DOMAIN h.chunk \ Held(h.chunk)
  OBVIOUS
<1>2. block \in DOMAIN h.chunk
  BY DEF Held
<1>3. QED
  BY <1>1, <1>2 DEF HeapOK, Pulled

LEMMA PreviousPulled ==
    ASSUME NEW h, HeapOK(h), NEW block \in Held(h.chunk), Running(JoinPrevious(h, block))
    PROVE  Pulled(h, block, JoinPrevious(h, block), block - h.chunk[block].prevFoot)
<1> DEFINE c    == h.chunk
           e    == h.endAddr
           F    == DOMAIN c \ Held(c)
           foot == c[block].prevFoot
           prev == block - foot
           both == foot + chunksize(h, block)
           cb   == [q \in DOMAIN c \ {block} |-> c[q]]
           h1   == [h EXCEPT !.chunk = [q \in DOMAIN @ \ {block} |-> @[q]]]
           h2   == removeChunk(h1, prev)
           g    == JoinPrevious(h, block)
<1>1. /\ IsHeap(h) /\ e \in Int /\ Tiled(c, e) /\ Truthful(c) /\ Lists(h.free, F)
      /\ ToSet(h.free) = F
  BY HeapFacts DEF HeapOK
<1>2. /\ prev \in F /\ c[prev].size = foot
      /\ g = With(h2, prev, FreeChunk(both))
  <2>1. CASE ~ok_address(h, prev)
    <3> DEFINE why == "(free) Memory Corrupt"
    <3>1. g = Stop(h, why) /\ why # "running"
      BY <2>1, Zenon DEF JoinPrevious
    <3> HIDE DEF why
    <3> QED  BY <1>1, <3>1, StopStops
  <2>2. CASE ok_address(h, prev) /\ ~(prev \in ToSet(h.free) /\ chunksize(h, prev) = foot)
    <3> DEFINE why == "stale foot"
    <3>1. g = Stop(h, why) /\ why # "running"
      BY <2>2, Zenon DEF JoinPrevious
    <3> HIDE DEF why
    <3> QED  BY <1>1, <3>1, StopStops
  <2>3. CASE ok_address(h, prev) /\ prev \in ToSet(h.free) /\ chunksize(h, prev) = foot
    <3>1. g = With(h2, prev, FreeChunk(both))
      BY <2>3, Zenon DEF JoinPrevious
    <3> QED  BY <1>1, <2>3, <3>1 DEF chunksize
  <2> QED  BY <2>1, <2>2, <2>3
<1>3. h1 = [chunk |-> cb, free |-> h.free, endAddr |-> e, state |-> h.state]
  BY <1>1 DEF IsHeap
<1>4. IsHeap(h1) /\ h1.chunk = cb /\ h1.free = h.free /\ h1.endAddr = e
  <2> HIDE DEF h1, cb
  <2> QED  BY <1>3 DEF IsHeap
<1> HIDE DEF h1
<1>5. /\ IsHeap(h2) /\ h2.chunk = cb /\ h2.endAddr = e
      /\ Lists(h2.free, F \ {prev})
  <2> HIDE DEF F, prev, cb
  <2> QED  BY <1>1, <1>2, <1>4, RemoveChunkIs
<1> HIDE DEF h2
<1>6. /\ IsHeap(g) /\ g.free = h2.free /\ g.endAddr = e
      /\ DOMAIN g.chunk = DOMAIN cb \cup {prev}
      /\ g.chunk[prev] = FreeChunk(both)
      /\ \A q \in DOMAIN cb : q # prev => g.chunk[q] = cb[q]
  <2> HIDE DEF g, prev, both, cb
  <2> QED  BY <1>2, <1>5, WithIs
<1> HIDE DEF g
<1>7. block \in DOMAIN c /\ c[block].cinuse /\ prev \in DOMAIN c /\ ~c[prev].cinuse /\ block # prev
  BY <1>2 DEF Held
<1>8. /\ DOMAIN g.chunk = DOMAIN c \ {block}
      /\ \A q \in DOMAIN g.chunk : q # prev => g.chunk[q] = c[q]
  BY <1>6, <1>7
<1>9. both \in Nat /\ both = c[prev].size + c[block].size /\ prev + c[prev].size = block
  <2>1. c[prev].size \in Nat /\ c[block].size \in Nat /\ block \in Int
    BY <1>7, HeapFacts
  <2> QED  BY <1>2, <2>1 DEF chunksize
<1>10. g.chunk[prev] \in Chunk /\ g.chunk[prev].size = both
       /\ ~g.chunk[prev].cinuse /\ g.chunk[prev].pinuse
  <2> HIDE DEF prev, both
  <2> QED  BY <1>6, <1>9 DEF FreeChunk, Chunk
<1>11. Held(g.chunk) = Held(c) \ {block} /\ prev \notin Held(g.chunk)
  <2> HIDE DEF prev
  <2> QED  BY <1>7, <1>8, <1>10 DEF Held
<1>12. Tiled(g.chunk, e)
  <2>1. \A q \in DOMAIN g.chunk : g.chunk[q] \in Chunk
    <3>1. \A q \in DOMAIN c : c[q] \in Chunk
      BY HeapFacts
    <3> QED  BY <1>8, <1>10, <3>1
  <2>2. g.chunk[prev].size = c[prev].size + c[block].size
    BY <1>9, <1>10
  <2> HIDE DEF prev, both, c, e
  <2> QED  BY <1>1, <1>7, <1>8, <1>9, <2>1, <2>2, JoinTiles
<1>13. Truthful(g.chunk)
  <2> SUFFICES ASSUME NEW p \in DOMAIN g.chunk, NEW q \in DOMAIN g.chunk,
                      q + g.chunk[q].size = p, g.chunk[q].cinuse
               PROVE  g.chunk[p].pinuse
    BY DEF Truthful
  <2> HIDE DEF prev, c
  <2>1. CASE p = prev
    BY <1>10, <2>1
  <2>2. CASE p # prev
    <3>1. q # prev
      BY <1>10
    <3> QED  BY <1>1, <1>8, <2>2, <3>1 DEF Truthful
  <2> QED  BY <2>1, <2>2
<1>14. Lists(g.free, (DOMAIN g.chunk \ Held(g.chunk)) \ {prev})
  <2>1. (DOMAIN g.chunk \ Held(g.chunk)) \ {prev} = F \ {prev}
    <3> HIDE DEF prev
    <3> QED  BY <1>7, <1>8, <1>11 DEF Held
  <2> QED  BY <1>5, <1>6, <2>1
<1>15. /\ prev \in DOMAIN g.chunk
       /\ Held(g.chunk) \ {prev} = Held(c) \ {block}
       /\ \A q \in DOMAIN g.chunk : q # prev => q \in DOMAIN c /\ g.chunk[q] = c[q]
  <2> HIDE DEF prev
  <2> QED  BY <1>7, <1>8, <1>11
<1>16. QED
  BY <1>1, <1>6, <1>12, <1>13, <1>14, <1>15 DEF Pulled, g

\* The chunk of a block in the middle of the heap goes to the list as it is.
LEMMA ListedAgain ==
    ASSUME NEW h, NEW block, NEW g, NEW p, Pulled(h, block, g, p),
           p + g.chunk[p].size # h.endAddr
    PROVE  LET n == g.chunk[p].size
               r == insertChunk(WithFoot(With(g, p, FreeChunk(n)), p, n), p)
           IN  /\ HeapOK(r)
               /\ Held(r.chunk) = Held(h.chunk) \ {block}
               /\ KeepSize(h.chunk, r.chunk, Held(r.chunk))
<1> DEFINE c == g.chunk
           e == h.endAddr
           n == c[p].size
           m == p + n
           S == (DOMAIN c \ Held(c)) \ {p}
           w == With(g, p, FreeChunk(n))
           v == WithFoot(w, p, n)
           r == insertChunk(v, p)
<1>1. /\ IsHeap(g) /\ e \in Int /\ p \in DOMAIN c /\ Tiled(c, e) /\ Truthful(c)
      /\ Lists(g.free, S) /\ g.endAddr = e
      /\ Held(c) \ {p} = Held(h.chunk) \ {block}
      /\ \A q \in DOMAIN c : q # p => q \in DOMAIN h.chunk /\ c[q] = h.chunk[q]
      /\ p + c[p].size # e
  BY DEF Pulled
<1>2. /\ p \in Int /\ n \in Nat /\ n >= 16 /\ m \in DOMAIN c /\ m # p
      /\ \A q \in DOMAIN c : c[q] \in Chunk
  <2>1. p \in Int /\ n \in Nat /\ n >= 16 /\ m \in DOMAIN c
    <3> HIDE DEF c, e
    <3> QED  BY <1>1, TileEnds
  <2>2. \A q \in DOMAIN c : c[q] \in Chunk
    BY <1>1 DEF Tiled
  <2> QED  BY <2>1, <2>2
<1>3. /\ IsHeap(w) /\ w.free = g.free /\ w.endAddr = e
      /\ DOMAIN w.chunk = DOMAIN c
      /\ w.chunk[p] = FreeChunk(n)
      /\ \A q \in DOMAIN c : q # p => w.chunk[q] = c[q]
  <2>1. DOMAIN c \cup {p} = DOMAIN c
    BY <1>1
  <2> DEFINE K == FreeChunk(n)
  <2>2. /\ IsHeap(w) /\ w.free = g.free /\ w.endAddr = g.endAddr
        /\ DOMAIN w.chunk = DOMAIN g.chunk \cup {p}
        /\ w.chunk[p] = K
        /\ \A q \in DOMAIN g.chunk : q # p => w.chunk[q] = g.chunk[q]
    <3>1. w = With(g, p, K)
      OBVIOUS
    <3> HIDE DEF K, w
    <3> QED  BY <1>1, <3>1, WithIs
  <2> QED  BY <1>1, <2>1, <2>2
<1> HIDE DEF w
<1> DEFINE x == [w.chunk[m] EXCEPT !.prevFoot = n]
           d == [w.chunk EXCEPT ![m] = x]
<1>4. v = [chunk |-> d, free |-> g.free, endAddr |-> e, state |-> w.state]
  BY <1>3 DEF WithFoot, IsHeap
<1>5. x \in Chunk /\ x.size = c[m].size /\ x.cinuse = c[m].cinuse /\ x.pinuse = c[m].pinuse
  <2>1. w.chunk[m] = c[m] /\ c[m] \in Chunk
    BY <1>2, <1>3
  <2> HIDE DEF m, n, c
  <2> QED  BY <1>2, <2>1 DEF Chunk
<1> HIDE DEF x, v
<1>6. /\ DOMAIN d = DOMAIN c /\ d[m] = x /\ d[p] = FreeChunk(n)
      /\ \A q \in DOMAIN c : q # p /\ q # m => d[q] = c[q]
  BY <1>2, <1>3
<1> HIDE DEF d
<1>7. IsHeap(v) /\ v.chunk = d /\ v.free = g.free /\ v.endAddr = e
  BY <1>4 DEF IsHeap
<1>8. /\ IsHeap(r) /\ r.chunk = d /\ r.endAddr = e /\ Lists(r.free, S \cup {p})
  <2>1. p \notin S
    OBVIOUS
  <2> HIDE DEF S, r, e
  <2>2. IsHeap(v) /\ Lists(v.free, S) /\ p \in Int
    BY <1>1, <1>2, <1>7
  <2>3. /\ IsHeap(r) /\ r.chunk = v.chunk /\ r.endAddr = v.endAddr
        /\ Lists(r.free, S \cup {p})
    BY <2>1, <2>2, InsertChunkIs DEF r
  <2> QED  BY <1>7, <2>3
<1> HIDE DEF r
<1>9. d[p] \in Chunk /\ d[p].size = n /\ ~d[p].cinuse /\ d[p].pinuse
  <2> HIDE DEF n
  <2> QED  BY <1>2, <1>6 DEF FreeChunk, Chunk
<1>10. \A q \in DOMAIN c : /\ d[q] \in Chunk /\ d[q].size = c[q].size
                           /\ q # p => d[q].cinuse = c[q].cinuse /\ d[q].pinuse = c[q].pinuse
  <2> TAKE q \in DOMAIN c
  <2>1. CASE q = p
    BY <1>9, <2>1
  <2>2. CASE q = m
    BY <1>2, <1>5, <1>6, <2>2
  <2>3. CASE q # p /\ q # m
    BY <1>2, <1>6, <2>3
  <2> QED  BY <2>1, <2>2, <2>3
<1> HIDE DEF n, m
<1>11. Held(d) = Held(c) \ {p}
  BY <1>1, <1>6, <1>9, <1>10 DEF Held
<1>12. Tiled(d, e)
  <2> HIDE DEF c, e
  <2> QED  BY <1>1, <1>6, <1>10, SameTiles
<1>13. Truthful(d)
  <2> SUFFICES ASSUME NEW q1 \in DOMAIN c, NEW q \in DOMAIN c,
                      q + d[q].size = q1, d[q].cinuse
               PROVE  d[q1].pinuse
    BY <1>6 DEF Truthful
  <2> HIDE DEF c
  <2>1. CASE q1 = p
    BY <1>9, <2>1
  <2>2. CASE q1 # p
    <3>1. q # p
      BY <1>9
    <3> QED  BY <1>1, <1>10, <2>2, <3>1 DEF Truthful
  <2> QED  BY <2>1, <2>2
<1>14. Lists(r.free, DOMAIN d \ Held(d))
  <2>1. DOMAIN d \ Held(d) = S \cup {p}
    BY <1>1, <1>6, <1>11
  <2> QED  BY <1>8, <2>1
<1>15. HeapOK(r)
  BY <1>1, <1>8, <1>12, <1>13, <1>14 DEF HeapOK
<1>16. KeepSize(h.chunk, d, Held(d))
  BY <1>1, <1>10, <1>11 DEF KeepSize, Held
<1>17. QED
  BY <1>1, <1>8, <1>11, <1>15, <1>16 DEF r, v, w, n

LEMMA WholePages ==
    ASSUME NEW n \in Nat, n % PAGE_SIZE = 0
    PROVE  \E k \in Int : n = PAGE_SIZE * k
<1> DEFINE k == n \div PAGE_SIZE
<1>1. PAGE_SIZE \in Nat /\ PAGE_SIZE > 0
  BY HeapConstants DEF MIN_CHUNK_SIZE
<1>2. k \in Int /\ n = PAGE_SIZE * k + (n % PAGE_SIZE)
  BY PageDivMod, n \in Int
<1> HIDE DEF k
<1>3. PAGE_SIZE * k \in Int
  BY <1>1, <1>2
<1>4. n = PAGE_SIZE * k
  BY <1>2, <1>3
<1>5. QED
  BY <1>2, <1>4

\* The last chunk of the heap: whole pages of it are given back (contract).
LEMMA GivenBack ==
    ASSUME NEW h, NEW block, NEW g, NEW p, Pulled(h, block, g, p),
           p + g.chunk[p].size = h.endAddr,
           Running(GiveBack(g, p, g.chunk[p].size))
    PROVE  LET r == GiveBack(g, p, g.chunk[p].size)
           IN  /\ HeapOK(r)
               /\ Held(r.chunk) = Held(h.chunk) \ {block}
               /\ KeepSize(h.chunk, r.chunk, Held(r.chunk))
<1> DEFINE c == g.chunk
           e == h.endAddr
           n == c[p].size
           S == (DOMAIN c \ Held(c)) \ {p}
           newSize == p - startAddr
           x == IF newSize % PAGE_SIZE = 0 THEN newSize ELSE newSize + MIN_CHUNK_SIZE
           t == contract(g, x)
           M == Max({RoundedToPage(x), HEAP_MIN_SIZE})
           f == startAddr + M
           left == n - (g.endAddr - t.endAddr)
           r == GiveBack(g, p, n)
<1>1. /\ IsHeap(g) /\ e \in Int /\ p \in DOMAIN c /\ Tiled(c, e) /\ Truthful(c)
      /\ Lists(g.free, S) /\ g.endAddr = e
      /\ Held(c) \ {p} = Held(h.chunk) \ {block}
      /\ \A q \in DOMAIN c : q # p => q \in DOMAIN h.chunk /\ c[q] = h.chunk[q]
      /\ p + n = e
  BY DEF Pulled
<1>2. p \in Int /\ n \in Nat /\ n >= 16 /\ startAddr \in Nat /\ startAddr <= p
  <2>1. p \in Int /\ n \in Nat /\ n >= 16
    <3> HIDE DEF c, e
    <3> QED  BY <1>1, TileEnds
  <2>2. startAddr \in Nat
    BY HeapConstants
  <2> QED  BY <1>1, <2>1, <2>2 DEF Tiled
<1>3. /\ M \in Int /\ M > 0 /\ (M = newSize \/ M >= newSize + 16)
  <2>1. PAGE_SIZE \in Nat /\ PAGE_SIZE > 16 /\ HEAP_MIN_SIZE \in Nat /\ HEAP_MIN_SIZE > 0
        /\ HEAP_MIN_SIZE % PAGE_SIZE = 0
    BY HeapConstants DEF MIN_CHUNK_SIZE
  <2>2. newSize \in Nat /\ x \in Int /\ x >= newSize
    BY <1>2 DEF MIN_CHUNK_SIZE
  <2>3. PICK k \in Int : RoundedToPage(x) = PAGE_SIZE * k
    <3> HIDE DEF x
    <3> QED  BY <2>2, RoundedUp
  <2>4. RoundedToPage(x) \in Int /\ RoundedToPage(x) >= x
    <3> HIDE DEF x
    <3> QED  BY <2>2, RoundedUp
  <2>5. /\ M \in Int /\ M >= RoundedToPage(x) /\ M >= HEAP_MIN_SIZE
        /\ M = RoundedToPage(x) \/ M = HEAP_MIN_SIZE
    <3> DEFINE a == RoundedToPage(x)
    <3>1. M = Max({a, HEAP_MIN_SIZE}) /\ a \in Int /\ HEAP_MIN_SIZE \in Int
      BY <2>1, <2>4
    <3> HIDE DEF a, M
    <3>2. /\ M \in Int /\ M >= a /\ M >= HEAP_MIN_SIZE
          /\ M = a \/ M = HEAP_MIN_SIZE
      BY <3>1, HigherOfTwo
    <3> QED  BY <3>2 DEF a
  <2> HIDE DEF M
  <2>6. CASE newSize % PAGE_SIZE = 0
    <3>1. PICK l \in Int : HEAP_MIN_SIZE = PAGE_SIZE * l
      BY <2>1, WholePages
    <3>2. PICK j \in Int : newSize = PAGE_SIZE * j
      <4> HIDE DEF newSize
      <4> QED  BY <2>2, <2>6, WholePages
    <3>3. PICK i \in Int : M = PAGE_SIZE * i
      BY <2>3, <2>5, <3>1
    <3>4. M > newSize => M >= newSize + PAGE_SIZE
      <4> HIDE DEF newSize
      <4> QED  BY <3>2, <3>3, PagesApart
    <3>5. M >= newSize
      BY <2>2, <2>4, <2>5
    <3> HIDE DEF newSize
    <3> QED  BY <2>1, <2>2, <2>5, <3>4, <3>5
  <2>7. CASE newSize % PAGE_SIZE # 0
    <3>1. x = newSize + 16
      BY <2>7 DEF MIN_CHUNK_SIZE
    <3> QED  BY <2>1, <2>2, <2>4, <2>5, <3>1
  <2> QED  BY <2>6, <2>7
<1> DEFINE cf == [q \in {s \in DOMAIN c : s < f} |-> c[q]]
<1>4. Running(t) /\ r = IF left > 0 THEN insertChunk(With(t, p, FreeChunk(left)), p) ELSE t
  <2>1. r = IF ~Running(t) THEN t
            ELSE IF left > 0 THEN insertChunk(With(t, p, FreeChunk(left)), p) ELSE t
    BY Zenon DEF GiveBack
  <2>2. Running(r)
    OBVIOUS
  <2> HIDE DEF r, t
  <2> QED  BY <2>1, <2>2
<1>5. t = [chunk |-> cf, free |-> g.free, endAddr |-> f, state |-> g.state]
  <2>1. x < HeapSize(g)
    <3> SUFFICES ASSUME ~(x < HeapSize(g)) PROVE FALSE
      OBVIOUS
    <3> DEFINE why == "assertion"
    <3>1. t = Stop(g, why) /\ why # "running"
      BY DEF contract
    <3> HIDE DEF why, t
    <3> QED  BY <1>1, <1>4, <3>1, StopStops
  <2>2. t = Truncated(g, M)
    BY <2>1 DEF contract
  <2> HIDE DEF t, M
  <2> QED  BY <1>1, <2>2 DEF Truncated, IsHeap
<1> HIDE DEF M, t
<1>6. IsHeap(t) /\ t.chunk = cf /\ t.free = g.free /\ t.endAddr = f
  <2> HIDE DEF cf, f
  <2> QED  BY <1>5 DEF IsHeap
<1>7. f \in Int /\ f > startAddr /\ (f = p \/ f >= p + 16)
  BY <1>2, <1>3
<1>8. left = f - p
  <2> HIDE DEF f, n
  <2> QED  BY <1>1, <1>2, <1>6, <1>7
<1>9. DOMAIN cf = {s \in DOMAIN c : s < f} /\ \A q \in DOMAIN cf : cf[q] = c[q]
  OBVIOUS
<1>10. \A q \in DOMAIN c : c[q] \in Chunk
  BY <1>1 DEF Tiled
<1> HIDE DEF cf, f, left, r
<1>11. CASE f = p
  <2>1. r = t
    BY <1>2, <1>4, <1>8, <1>11
  <2>2. Tiled(cf, f) /\ DOMAIN cf = DOMAIN c \ {p}
    <3>1. Tiled(cf, f) /\ \A q : q \in DOMAIN cf <=> q \in DOMAIN c /\ (q # p \/ f # p)
      <4>1. /\ \A q \in DOMAIN cf : cf[q] \in Chunk
            /\ \A q \in DOMAIN cf : q # p => cf[q].size = c[q].size
            /\ f > p => cf[p].size = f - p
        BY <1>2, <1>9, <1>10, <1>11
      <4>2. /\ e \in Int /\ Tiled(c, e) /\ p \in DOMAIN c /\ p + c[p].size = e
            /\ f \in Int /\ (f = p \/ f >= p + 16) /\ f > startAddr
            /\ \A q : q \in DOMAIN cf <=> q \in DOMAIN c /\ q < f
        BY <1>1, <1>7, <1>9
      <4> HIDE DEF c, e
      <4>3. Shrunk(c, cf, e, p, f)
        BY <4>1, <4>2 DEF Shrunk
      <4> QED  BY <4>3, ShrinkTiles
    <3> QED  BY <1>11, <3>1
  <2>3. Held(cf) = Held(c) \ {p}
    BY <1>9, <2>2 DEF Held
  <2>4. Truthful(cf)
    <3> HIDE DEF c
    <3> QED  BY <1>1, <1>9, <2>2 DEF Truthful
  <2>5. Lists(t.free, DOMAIN cf \ Held(cf))
    <3>1. DOMAIN cf \ Held(cf) = S
      BY <2>2, <2>3
    <3> QED  BY <1>1, <1>6, <3>1
  <2>6. HeapOK(t)
    BY <1>6, <1>7, <2>2, <2>4, <2>5 DEF HeapOK
  <2>7. KeepSize(h.chunk, cf, Held(cf))
    BY <1>1, <1>9, <2>2, <2>3 DEF KeepSize, Held
  <2> QED  BY <1>1, <1>6, <2>1, <2>3, <2>6, <2>7 DEF r
<1>12. CASE f >= p + 16
  <2> DEFINE K == FreeChunk(left)
             w == With(t, p, K)
  <2>1. left \in Nat /\ left >= 16 /\ left = f - p
    BY <1>2, <1>7, <1>8, <1>12
  <2>2. r = insertChunk(w, p)
    BY <1>4, <2>1
  <2>3. K \in Chunk /\ K.size = f - p /\ ~K.cinuse /\ K.pinuse
    BY <2>1 DEF FreeChunk, Chunk
  <2> HIDE DEF K
  <2>4. /\ IsHeap(w) /\ w.free = g.free /\ w.endAddr = f
        /\ DOMAIN w.chunk = DOMAIN cf \cup {p}
        /\ w.chunk[p] = K
        /\ \A q \in DOMAIN cf : q # p => w.chunk[q] = cf[q]
    BY <1>6, WithIs
  <2> HIDE DEF w
  <2> DEFINE d == w.chunk
  <2>5. p \in DOMAIN cf
    BY <1>1, <1>2, <1>7, <1>9, <1>12
  <2>6. /\ DOMAIN d = {s \in DOMAIN c : s < f} /\ d[p] = K
        /\ \A q \in DOMAIN d : q # p => d[q] = c[q]
    BY <1>9, <2>4, <2>5
  <2>7. IsHeap(r) /\ r.chunk = d /\ r.endAddr = f /\ Lists(r.free, S \cup {p})
    <3>1. p \notin S
      OBVIOUS
    <3> HIDE DEF S, d
    <3>2. IsHeap(w) /\ Lists(w.free, S) /\ p \in Int
      BY <1>1, <1>2, <2>4
    <3>3. /\ IsHeap(r) /\ r.chunk = w.chunk /\ r.endAddr = w.endAddr
          /\ Lists(r.free, S \cup {p})
      BY <2>2, <3>1, <3>2, InsertChunkIs
    <3> QED  BY <2>4, <3>3 DEF d
  <2> HIDE DEF d
  <2>8. Tiled(d, f) /\ DOMAIN d = DOMAIN c
    <3>1. Tiled(d, f) /\ \A q : q \in DOMAIN d <=> q \in DOMAIN c /\ (q # p \/ f # p)
      <4>1. /\ \A q \in DOMAIN d : d[q] \in Chunk
            /\ \A q \in DOMAIN d : q # p => d[q].size = c[q].size
            /\ f > p => d[p].size = f - p
        BY <1>10, <2>3, <2>6
      <4>2. /\ e \in Int /\ Tiled(c, e) /\ p \in DOMAIN c /\ p + c[p].size = e
            /\ f \in Int /\ (f = p \/ f >= p + 16) /\ f > startAddr
            /\ \A q : q \in DOMAIN d <=> q \in DOMAIN c /\ q < f
        BY <1>1, <1>7, <2>6
      <4> HIDE DEF c, e
      <4>3. Shrunk(c, d, e, p, f)
        BY <4>1, <4>2 DEF Shrunk
      <4> QED  BY <4>3, ShrinkTiles
    <3>2. f # p
      BY <1>2, <1>7, <1>12
    <3> QED  BY <3>1, <3>2
  <2>9. Held(d) = Held(c) \ {p}
    BY <2>3, <2>6, <2>8 DEF Held
  <2>10. Truthful(d)
    <3> SUFFICES ASSUME NEW q1 \in DOMAIN d, NEW q \in DOMAIN d,
                        q + d[q].size = q1, d[q].cinuse
                 PROVE  d[q1].pinuse
      BY DEF Truthful
    <3> HIDE DEF c
    <3>1. CASE q1 = p
      BY <2>3, <2>6, <3>1
    <3>2. CASE q1 # p
      <4>1. q # p
        BY <2>3, <2>6
      <4> QED  BY <1>1, <2>6, <2>8, <3>2, <4>1 DEF Truthful
    <3> QED  BY <3>1, <3>2
  <2>11. Lists(r.free, DOMAIN d \ Held(d))
    <3>1. DOMAIN d \ Held(d) = S \cup {p}
      BY <1>1, <2>8, <2>9
    <3> QED  BY <2>7, <3>1
  <2>12. HeapOK(r)
    BY <1>7, <2>7, <2>8, <2>10, <2>11 DEF HeapOK
  <2>13. KeepSize(h.chunk, d, Held(d))
    BY <1>1, <2>6, <2>8, <2>9 DEF KeepSize, Held
  <2> QED  BY <1>1, <2>7, <2>9, <2>12, <2>13 DEF r
<1>13. QED
  BY <1>7, <1>11, <1>12

\* free takes the block out of what is held and leaves the other blocks alone.
LEMMA FreeKeeps ==
    ASSUME NEW h, HeapOK(h), NEW block \in Held(h.chunk), NEW beyond,
           Running(Free(h, block, beyond))
    PROVE  LET r == Free(h, block, beyond)
           IN  /\ HeapOK(r)
               /\ Held(r.chunk) = Held(h.chunk) \ {block}
               /\ KeepSize(h.chunk, r.chunk, Held(r.chunk))
<1> DEFINE alone == h.chunk[block].pinuse
           p == IF alone THEN block ELSE block - h.chunk[block].prevFoot
           g == IF alone THEN h ELSE JoinPrevious(h, block)
           a == AfterNext(g, p, beyond)
           n == chunksize(g, p)
           r == Free(h, block, beyond)
<1>1. h.chunk[block].cinuse
  BY DEF Held
<1>2. r = IF ~Running(g) THEN g
          ELSE IF ~Running(a) THEN a
          ELSE IF p + n = h.endAddr THEN GiveBack(g, p, n)
          ELSE insertChunk(WithFoot(With(g, p, FreeChunk(n)), p, n), p)
  BY <1>1, Zenon DEF Free
<1>3. Running(r)
  OBVIOUS
<1>4. Pulled(h, block, g, p)
  <2>1. CASE alone
    BY <2>1, BlockPulled
  <2>2. CASE ~alone
    <3>1. g = JoinPrevious(h, block) /\ p = block - h.chunk[block].prevFoot
      BY <2>2
    <3>2. Running(g)
      <4> HIDE DEF g, r, a, n, p
      <4> QED  BY <1>2, <1>3
    <3> QED  BY <3>1, <3>2, PreviousPulled
  <2> QED  BY <2>1, <2>2
<1>5. n = g.chunk[p].size
  BY DEF chunksize
<1> HIDE DEF g, p, a, r, n
<1>6. CASE p + n = h.endAddr
  <2>1. r = GiveBack(g, p, g.chunk[p].size) /\ Running(r)
    BY <1>2, <1>3, <1>5, <1>6
  <2> QED  BY <1>4, <1>5, <1>6, <2>1, GivenBack DEF r
<1>7. CASE p + n # h.endAddr
  <2>1. r = insertChunk(WithFoot(With(g, p, FreeChunk(g.chunk[p].size)), p, g.chunk[p].size), p)
    BY <1>2, <1>3, <1>5, <1>7
  <2> QED  BY <1>4, <1>5, <1>7, <2>1, ListedAgain DEF r
<1>8. QED
  BY <1>6, <1>7

-----------------------------------------------------------------------------
(* palignedAlloc. *)

\* A call's result: a heap and the chunk it returns, which is held.
ResultOK(r) ==
    /\ r = [at |-> r.at, heap |-> r.heap]
    /\ HeapOK(r.heap)
    /\ r.at \in Held(r.heap.chunk)

\* The block's lead becomes a free chunk.  The PINUSE_BIT of what remains is
\* any bit: the chunk before it is free.
LEMMA CutLeadKeeps ==
    ASSUME NEW r, ResultOK(r), NEW nb \in Nat, nb >= 16,
           r.heap.chunk[r.at].size >= nb + PAGE_SIZE + 16,
           NEW pinuse \in BOOLEAN, NEW beyond,
           Running(CutLead(r, pinuse, beyond).heap)
    PROVE  LET s == CutLead(r, pinuse, beyond)
           IN  /\ ResultOK(s)
               /\ s.at \notin Held(r.heap.chunk) \ {r.at}
               /\ Held(s.heap.chunk) = (Held(r.heap.chunk) \ {r.at}) \cup {s.at}
               /\ KeepSize(r.heap.chunk, s.heap.chunk, Held(r.heap.chunk) \ {r.at})
               /\ s.heap.chunk[s.at].size >= nb
<1> DEFINE h    == r.heap
           c    == h.chunk
           e    == h.endAddr
           at   == r.at
           size == c[at].size
           br   == (chunk2mem(at) \div PAGE_SIZE + 1) * PAGE_SIZE - 8
           pos  == IF br - at >= MIN_CHUNK_SIZE THEN br ELSE br + PAGE_SIZE
           lead == pos - at
           rest == size - lead
           F    == DOMAIN c \ Held(c)
           g    == set_inuse(h, pos, rest, pinuse, lead, beyond)
           w    == With(g, at, FreeChunk(lead))
           v    == insertChunk(w, at)
           s    == CutLead(r, pinuse, beyond)
<1>1. /\ r = [at |-> at, heap |-> h]
      /\ IsHeap(h) /\ e \in Int /\ Tiled(c, e) /\ Truthful(c) /\ Lists(h.free, F)
      /\ at \in DOMAIN c /\ c[at].cinuse /\ at \in Held(c)
  BY DEF ResultOK, HeapOK, Held
<1>2. /\ at \in Int /\ size \in Nat /\ at + size <= e
      /\ at + size < e => at + size \in DOMAIN c
      /\ \A q \in DOMAIN c : c[q] \in Chunk
      /\ \A q \in DOMAIN c : q \in Int /\ (q < at => q + c[q].size <= at) /\ (q > at => q >= at + size)
  <2>1. HeapOK(h) /\ at \in DOMAIN c
    BY <1>1 DEF ResultOK
  <2>2. /\ at \in Int /\ size \in Nat /\ at + size <= e
        /\ at + size < e => at + size \in DOMAIN c
        /\ \A q \in DOMAIN c : q \in Int /\ c[q] \in Chunk
    BY <2>1, HeapFacts
  <2>3. ASSUME NEW q \in DOMAIN c
        PROVE  (q < at => q + c[q].size <= at) /\ (q > at => q >= at + size)
    <3> HIDE DEF h, at
    <3>1. \A x, y \in DOMAIN c : y > x => y >= x + c[x].size
      BY <1>1 DEF Tiled
    <3>2. q \in Int /\ at \in Int /\ c[q].size \in Nat
      BY <2>2 DEF Chunk
    <3> QED  BY <1>1, <3>1, <3>2
  <2> QED  BY <2>2, <2>3
<1>3. /\ pos \in Int /\ lead \in Nat /\ lead >= 16 /\ rest \in Nat /\ rest >= nb
      /\ pos = at + lead /\ pos + rest = at + size
  <2>1. PAGE_SIZE \in Nat /\ PAGE_SIZE > 16
    BY HeapConstants DEF MIN_CHUNK_SIZE
  <2> DEFINE k == (at + 8) \div PAGE_SIZE
             o == (at + 8) % PAGE_SIZE
             b == PAGE_SIZE * k
  <2>2. k \in Int /\ at + 8 = b + o /\ o \in 0 .. PAGE_SIZE - 1
    <3> DEFINE y == at + 8
    <3>1. y \in Int
      BY <1>2
    <3> HIDE DEF y
    <3>2. /\ y \div PAGE_SIZE \in Int /\ y % PAGE_SIZE \in 0 .. PAGE_SIZE - 1
          /\ y = PAGE_SIZE * (y \div PAGE_SIZE) + (y % PAGE_SIZE)
      BY <3>1, PageDivMod
    <3> QED  BY <3>2 DEF y
  <2>3. br = (k + 1) * PAGE_SIZE - 8
    BY DEF chunk2mem
  <2> HIDE DEF k, o, br
  <2>4. (k + 1) * PAGE_SIZE = b + PAGE_SIZE /\ b \in Int
    BY <2>1, <2>2
  <2> HIDE DEF b
  <2>5. br \in Int /\ br = b + PAGE_SIZE - 8 /\ br > at /\ br <= at + PAGE_SIZE
    BY <1>2, <2>1, <2>2, <2>3, <2>4
  <2>6. pos \in Int /\ pos >= at + 16 /\ pos <= at + PAGE_SIZE + 16
    BY <1>2, <2>1, <2>5 DEF MIN_CHUNK_SIZE
  <2>7. size >= nb + PAGE_SIZE + 16
    OBVIOUS
  <2> HIDE DEF pos, size
  <2> QED  BY <1>2, <2>1, <2>6, <2>7
<1>4. s = IF ~Running(h) \/ chunk2mem(at) % PAGE_SIZE = 0 THEN r
          ELSE IF ~Running(g) THEN [r EXCEPT !.heap = g]
          ELSE [at |-> pos, heap |-> v]
  BY DEF CutLead, chunksize
<1>5. CASE ~Running(h) \/ chunk2mem(at) % PAGE_SIZE = 0
  <2>1. s = r
    BY <1>4, <1>5
  <2>2. size >= nb
    <3>1. PAGE_SIZE \in Nat
      BY HeapConstants
    <3> QED  BY <1>2, <3>1
  <2>3. Held(c) = (Held(c) \ {at}) \cup {at}
    BY <1>1
  <2> HIDE DEF s
  <2> QED  BY <2>1, <2>2, <2>3 DEF KeepSize, s
<1>6. CASE Running(h) /\ chunk2mem(at) % PAGE_SIZE # 0
  <2>1. Running(g) /\ s = [at |-> pos, heap |-> v]
    <3>1. ~Running(g) => s.heap = g
      <4>1. [r EXCEPT !.heap = g] = [at |-> at, heap |-> g]
        BY <1>1
      <4> HIDE DEF g, v, pos
      <4> QED  BY <1>4, <1>6, <4>1
    <3>2. Running(s.heap)
      OBVIOUS
    <3> HIDE DEF g, v, s, pos
    <3> QED  BY <1>4, <1>6, <3>1, <3>2
  <2> HIDE DEF h, at, pos, lead, rest, size, g, w, v, s
  <2>2. pos \notin DOMAIN c /\ pos # at
    BY <1>2, <1>3
  <2>3. /\ IsHeap(g) /\ g.free = h.free /\ g.endAddr = e
        /\ DOMAIN g.chunk = DOMAIN c \cup {pos}
        /\ \A q \in DOMAIN g.chunk : g.chunk[q] \in Chunk
        /\ g.chunk[pos].size = rest /\ g.chunk[pos].cinuse
        /\ \A q \in DOMAIN c :
              /\ g.chunk[q].size = c[q].size
              /\ g.chunk[q].cinuse = c[q].cinuse
              /\ c[q].pinuse => g.chunk[q].pinuse
        /\ pos + rest < e => g.chunk[pos + rest].pinuse
    <3>1. /\ rest # 0 /\ (pos + rest < h.endAddr => pos + rest \in DOMAIN h.chunk)
          /\ \A q \in DOMAIN h.chunk : q # pos => h.chunk[q] \in Chunk
      BY <1>2, <1>3
    <3>2. /\ IsHeap(g) /\ g.free = h.free /\ g.endAddr = h.endAddr
          /\ DOMAIN g.chunk = DOMAIN h.chunk \cup {pos}
          /\ \A q \in DOMAIN g.chunk : g.chunk[q] \in Chunk
          /\ g.chunk[pos].size = rest /\ g.chunk[pos].cinuse
          /\ \A q \in DOMAIN h.chunk : q # pos =>
                /\ g.chunk[q].size = h.chunk[q].size
                /\ g.chunk[q].cinuse = h.chunk[q].cinuse
                /\ h.chunk[q].pinuse => g.chunk[q].pinuse
          /\ pos + rest < h.endAddr => g.chunk[pos + rest].pinuse
      <4>1. Running(set_inuse(h, pos, rest, pinuse, lead, beyond))
            /\ g = set_inuse(h, pos, rest, pinuse, lead, beyond)
        BY <2>1 DEF g
      <4>2. pos \in Int /\ rest \in Nat /\ lead \in Nat /\ IsHeap(h) /\ h.endAddr \in Int
        BY <1>1, <1>3
      <4> QED  BY <3>1, <4>1, <4>2, SetInuseIs
    <3> QED  BY <2>2, <3>2
  <2> DEFINE K == FreeChunk(lead)
             d == w.chunk
  <2>4. K \in Chunk /\ K.size = lead /\ ~K.cinuse /\ K.pinuse
    BY <1>3 DEF FreeChunk, Chunk
  <2>5. /\ IsHeap(w) /\ w.free = h.free /\ w.endAddr = e
        /\ DOMAIN d = DOMAIN c \cup {pos}
        /\ d[at] = K
        /\ \A q \in DOMAIN c \cup {pos} : q # at => d[q] = g.chunk[q]
    <3>1. /\ IsHeap(w) /\ w.free = g.free /\ w.endAddr = g.endAddr
          /\ DOMAIN w.chunk = DOMAIN g.chunk \cup {at}
          /\ w.chunk[at] = K
          /\ \A q \in DOMAIN g.chunk : q # at => w.chunk[q] = g.chunk[q]
      <4>1. w = With(g, at, K)
        BY DEF w
      <4> HIDE DEF K
      <4> QED  BY <2>3, <4>1, WithIs
    <3> QED  BY <1>1, <2>3, <3>1
  <2> HIDE DEF K, d
  <2>6. /\ IsHeap(v) /\ v.chunk = d /\ v.endAddr = e /\ Lists(v.free, F \cup {at})
    <3>1. at \notin F
      BY <1>1
    <3> HIDE DEF F
    <3>2. IsHeap(w) /\ Lists(w.free, F) /\ at \in Int
      BY <1>1, <1>2, <2>5
    <3>3. /\ IsHeap(v) /\ v.chunk = w.chunk /\ v.endAddr = w.endAddr
          /\ Lists(v.free, F \cup {at})
      BY <3>1, <3>2, InsertChunkIs DEF v
    <3> QED  BY <2>5, <3>3 DEF d
  <2>7. /\ d[at].size = lead /\ ~d[at].cinuse /\ d[at].pinuse
        /\ d[pos].size = rest /\ d[pos].cinuse
        /\ \A q \in DOMAIN d : d[q] \in Chunk
        /\ \A q \in DOMAIN c : q # at =>
              /\ d[q].size = c[q].size
              /\ d[q].cinuse = c[q].cinuse
              /\ c[q].pinuse => d[q].pinuse
        /\ pos + rest < e => d[pos + rest].pinuse
    <3>1. pos + rest < e => pos + rest \in DOMAIN c /\ pos + rest # at
      BY <1>2, <1>3
    <3> QED  BY <2>2, <2>3, <2>4, <2>5, <3>1
  <2>8. Held(d) = (Held(c) \ {at}) \cup {pos}
    BY <1>1, <2>2, <2>5, <2>7 DEF Held
  <2>9. Tiled(d, e)
    <3>1. /\ at + 16 <= pos /\ pos + 16 <= at + c[at].size
          /\ d[at].size = pos - at /\ d[pos].size = at + c[at].size - pos
      BY <1>2, <1>3, <2>7 DEF size
    <3>2. \A q \in DOMAIN c : q # at => d[q].size = c[q].size
      BY <2>7
    <3>3. \A q \in DOMAIN d : d[q] \in Chunk
      BY <2>7
    <3>4. DOMAIN d = DOMAIN c \cup {pos} /\ e \in Int /\ Tiled(c, e) /\ at \in DOMAIN c /\ pos \in Int
      BY <1>1, <1>3, <2>5
    <3> HIDE DEF c, e
    <3> QED  BY <3>1, <3>2, <3>3, <3>4, SplitTiles
  <2>10. Truthful(d)
    <3> SUFFICES ASSUME NEW p \in DOMAIN d, NEW q \in DOMAIN d,
                        q + d[q].size = p, d[q].cinuse
                 PROVE  d[p].pinuse
      BY DEF Truthful
    <3>1. q # at
      BY <2>7
    <3>2. CASE p = at
      BY <2>7, <3>2
    <3>3. CASE q = pos
      <4>1. p = pos + rest
        BY <2>7, <3>3
      <4>2. p < e
        BY <2>9 DEF Tiled
      <4> QED  BY <2>7, <4>1, <4>2
    <3>4. CASE p # at /\ q # pos
      <4>1. q \in DOMAIN c /\ q + c[q].size = p /\ c[q].cinuse
        BY <2>5, <2>7, <3>1, <3>4
      <4>2. p # pos
        <5>1. q \in Int /\ c[q].size \in Nat
          BY <1>2, <4>1 DEF Chunk
        <5>2. q < at \/ q > at
          BY <1>2, <3>1, <5>1
        <5> QED  BY <1>2, <1>3, <4>1, <5>1, <5>2
      <4>3. p \in DOMAIN c
        BY <2>5, <4>2
      <4>4. c[p].pinuse
        BY <1>1, <4>1, <4>3 DEF Truthful
      <4> QED  BY <2>7, <3>4, <4>3, <4>4
    <3> QED  BY <3>2, <3>3, <3>4
  <2>11. Lists(v.free, DOMAIN d \ Held(d))
    <3>1. DOMAIN d \ Held(d) = F \cup {at}
      BY <1>1, <2>2, <2>5, <2>8 DEF Held
    <3> QED  BY <2>6, <3>1
  <2>12. HeapOK(v)
    BY <1>1, <2>6, <2>9, <2>10, <2>11 DEF HeapOK
  <2>13. KeepSize(c, d, Held(c) \ {at})
    BY <2>7 DEF KeepSize, Held
  <2>14. pos \notin Held(c) \ {at}
    BY <2>2 DEF Held
  <2>15. d[pos].size >= nb
    BY <1>3, <2>7
  <2>16. s.at = pos /\ s.heap = v /\ s = [at |-> s.at, heap |-> s.heap]
    BY <2>1
  <2>17. pos \in Held(d)
    BY <2>8
  <2>18. ResultOK(s)
    BY <2>6, <2>12, <2>16, <2>17 DEF ResultOK
  <2> QED  BY <2>6, <2>8, <2>13, <2>14, <2>15, <2>16, <2>18 DEF s, h, at
<1>7. QED
  BY <1>5, <1>6

\* What is left behind the block is freed: another block was never in between.
LEMMA CutRemainderKeeps ==
    ASSUME NEW r, ResultOK(r), NEW nb \in Nat, nb >= 16, r.heap.chunk[r.at].size >= nb,
           NEW beyond, Running(CutRemainder(r, nb, beyond).heap)
    PROVE  LET s == CutRemainder(r, nb, beyond)
           IN  /\ s.at = r.at
               /\ ResultOK(s)
               /\ Held(s.heap.chunk) = Held(r.heap.chunk)
               /\ KeepSize(r.heap.chunk, s.heap.chunk, Held(r.heap.chunk) \ {r.at})
               /\ s.heap.chunk[s.at].size >= nb
<1> DEFINE h    == r.heap
           c    == h.chunk
           e    == h.endAddr
           at   == r.at
           size == c[at].size
           rest == size - nb
           m    == at + nb
           F    == DOMAIN c \ Held(c)
           tail == [size |-> rest, pinuse |-> TRUE, cinuse |-> TRUE, prevFoot |-> 0]
           w    == With(h, m, tail)
           u    == [w EXCEPT !.chunk[at].size = nb]
           g    == set_inuse(u, m, rest, TRUE, 0, beyond)
           s    == CutRemainder(r, nb, beyond)
<1>1. /\ r = [at |-> at, heap |-> h]
      /\ IsHeap(h) /\ e \in Int /\ Tiled(c, e) /\ Truthful(c) /\ Lists(h.free, F)
      /\ at \in DOMAIN c /\ c[at].cinuse /\ at \in Held(c)
  BY DEF ResultOK, HeapOK, Held
<1>2. /\ at \in Int /\ size \in Nat /\ at + size <= e
      /\ at + size < e => at + size \in DOMAIN c
      /\ \A q \in DOMAIN c : c[q] \in Chunk
      /\ \A q \in DOMAIN c : q > at => q >= at + size
  <2>1. HeapOK(h) /\ at \in DOMAIN c
    BY <1>1 DEF ResultOK
  <2>2. /\ at \in Int /\ size \in Nat /\ at + size <= e
        /\ at + size < e => at + size \in DOMAIN c
        /\ \A q \in DOMAIN c : c[q] \in Chunk
    BY <2>1, HeapFacts
  <2> QED  BY <1>1, <2>2 DEF Tiled
<1>3. s = IF ~Running(h) \/ rest <= 16 THEN r
          ELSE [r EXCEPT !.heap = IF Running(g) THEN Free(g, m, beyond) ELSE g]
  BY DEF CutRemainder, chunksize, MIN_CHUNK_SIZE
<1>4. CASE ~Running(h) \/ rest <= 16
  <2>1. s = r
    BY <1>3, <1>4
  <2> HIDE DEF s
  <2> QED  BY <2>1 DEF KeepSize, s
<1>5. CASE Running(h) /\ rest > 16
  <2> DEFINE f == Free(g, m, beyond)
  <2>1. Running(g) /\ Running(f) /\ s = [at |-> at, heap |-> f]
    <3> HIDE DEF g, f
    <3>1. s = [at |-> at, heap |-> IF Running(g) THEN f ELSE g]
      <4> DEFINE x == IF Running(g) THEN f ELSE g
      <4>1. s = [r EXCEPT !.heap = x]
        <5>1. ~(rest <= 16)
          BY <1>2, <1>5
        <5> HIDE DEF rest, m, h, s, f
        <5>2. s = [r EXCEPT !.heap = IF Running(g) THEN Free(g, m, beyond) ELSE g]
          BY <1>3, <1>5, <5>1
        <5> QED  BY <5>2 DEF f
      <4> HIDE DEF x, s
      <4>2. [r EXCEPT !.heap = x] = [at |-> at, heap |-> x]
        BY <1>1
      <4>3. s = [at |-> at, heap |-> x]
        BY <4>1, <4>2
      <4> QED  BY <4>3 DEF x
    <3>2. Running(s.heap)
      OBVIOUS
    <3> HIDE DEF s
    <3> QED  BY <3>1, <3>2
  <2> HIDE DEF f, g, s
  <2>2. rest \in Nat /\ rest > 16 /\ m \in Int /\ m \notin DOMAIN c /\ m # at
        /\ m + rest = at + size
    BY <1>2, <1>5
  <2>3. tail \in Chunk /\ tail.size = rest /\ tail.cinuse /\ tail.pinuse
    BY <2>2 DEF Chunk
  <2> HIDE DEF tail
  <2>4. /\ IsHeap(w) /\ w.free = h.free /\ w.endAddr = e
        /\ DOMAIN w.chunk = DOMAIN c \cup {m}
        /\ w.chunk[m] = tail
        /\ \A q \in DOMAIN c : w.chunk[q] = c[q]
    <3> HIDE DEF m
    <3> QED  BY <1>1, <2>2, WithIs
  <2> HIDE DEF w
  <2> DEFINE x  == [w.chunk[at] EXCEPT !.size = nb]
             uc == [w.chunk EXCEPT ![at] = x]
  <2>5. u = [chunk |-> uc, free |-> h.free, endAddr |-> e, state |-> w.state]
    BY <2>4 DEF IsHeap
  <2>6. x \in Chunk /\ x.size = nb /\ x.cinuse = c[at].cinuse /\ x.pinuse = c[at].pinuse
    <3>1. w.chunk[at] = c[at] /\ c[at] \in Chunk
      BY <1>1, <1>2, <2>4
    <3> HIDE DEF at, c
    <3> QED  BY <3>1 DEF Chunk
  <2> HIDE DEF u, x
  <2>7. /\ DOMAIN uc = DOMAIN c \cup {m} /\ uc[at] = x /\ uc[m] = tail
        /\ \A q \in DOMAIN c : q # at => uc[q] = c[q]
    <3> HIDE DEF m
    <3> QED  BY <1>1, <2>2, <2>4
  <2> HIDE DEF uc
  <2>8. IsHeap(u) /\ u.chunk = uc /\ u.free = h.free /\ u.endAddr = e
    BY <2>5 DEF IsHeap
  <2>9. \A q \in DOMAIN uc : uc[q] \in Chunk
    BY <1>2, <2>3, <2>6, <2>7
  <2>10. /\ IsHeap(g) /\ g.free = h.free /\ g.endAddr = e
         /\ DOMAIN g.chunk = DOMAIN c \cup {m}
         /\ \A q \in DOMAIN g.chunk : g.chunk[q] \in Chunk
         /\ g.chunk[m].size = rest /\ g.chunk[m].cinuse /\ g.chunk[m].pinuse
         /\ \A q \in DOMAIN uc : q # m =>
               /\ g.chunk[q].size = uc[q].size
               /\ g.chunk[q].cinuse = uc[q].cinuse
               /\ uc[q].pinuse => g.chunk[q].pinuse
         /\ m + rest < e => g.chunk[m + rest].pinuse
    <3>1. /\ rest # 0 /\ (m + rest < u.endAddr => m + rest \in DOMAIN u.chunk)
          /\ \A q \in DOMAIN u.chunk : q # m => u.chunk[q] \in Chunk
      BY <1>2, <2>2, <2>7, <2>8, <2>9
    <3>2. /\ m \in Int /\ rest \in Nat /\ IsHeap(u) /\ u.endAddr \in Int /\ TRUE \in BOOLEAN /\ 0 \in Nat
      BY <1>1, <2>2, <2>8
    <3>3. Running(set_inuse(u, m, rest, TRUE, 0, beyond)) /\ g = set_inuse(u, m, rest, TRUE, 0, beyond)
      BY <2>1 DEF g
    <3> DEFINE bit == TRUE
    <3>5. bit \in BOOLEAN /\ Running(set_inuse(u, m, rest, bit, 0, beyond))
          /\ g = set_inuse(u, m, rest, bit, 0, beyond)
      BY <3>3
    <3> HIDE DEF m, rest, bit
    <3>4. /\ IsHeap(g) /\ g.free = u.free /\ g.endAddr = u.endAddr
          /\ DOMAIN g.chunk = DOMAIN u.chunk \cup {m}
          /\ \A q \in DOMAIN g.chunk : g.chunk[q] \in Chunk
          /\ g.chunk[m].size = rest /\ g.chunk[m].cinuse /\ g.chunk[m].pinuse = bit
          /\ \A q \in DOMAIN u.chunk : q # m =>
                /\ g.chunk[q].size = u.chunk[q].size
                /\ g.chunk[q].cinuse = u.chunk[q].cinuse
                /\ u.chunk[q].pinuse => g.chunk[q].pinuse
          /\ m + rest < u.endAddr => g.chunk[m + rest].pinuse
      BY <3>1, <3>2, <3>5, SetInuseIs
    <3> QED  BY <2>7, <2>8, <3>4 DEF bit
  <2> HIDE DEF rest, m, size
  <2>11. /\ g.chunk[at].size = nb /\ g.chunk[at].cinuse
         /\ c[at].pinuse => g.chunk[at].pinuse
         /\ \A q \in DOMAIN c : q # at =>
               /\ g.chunk[q].size = c[q].size
               /\ g.chunk[q].cinuse = c[q].cinuse
               /\ c[q].pinuse => g.chunk[q].pinuse
    BY <1>1, <2>2, <2>6, <2>7, <2>10
  <2>12. Held(g.chunk) = Held(c) \cup {m}
    BY <1>1, <2>2, <2>10, <2>11 DEF Held
  <2>13. Tiled(g.chunk, e)
    <3> DEFINE d == g.chunk
    <3>1. /\ at + 16 <= m /\ m + 16 <= at + c[at].size
          /\ d[at].size = m - at /\ d[m].size = at + c[at].size - m
      BY <1>2, <2>2, <2>10, <2>11 DEF m, rest, size
    <3>2. \A q \in DOMAIN c : q # at => d[q].size = c[q].size
      BY <2>11
    <3>3. \A q \in DOMAIN d : d[q] \in Chunk
      BY <2>10
    <3>4. DOMAIN d = DOMAIN c \cup {m} /\ e \in Int /\ Tiled(c, e) /\ at \in DOMAIN c /\ m \in Int
      BY <1>1, <2>2, <2>10
    <3>5. Tiled(d, e)
      <4> HIDE DEF c, e, d, at
      <4> QED  BY <3>1, <3>2, <3>3, <3>4, SplitTiles
    <3> QED  BY <3>5
  <2>14. Truthful(g.chunk)
    <3> SUFFICES ASSUME NEW p \in DOMAIN g.chunk, NEW q \in DOMAIN g.chunk,
                        q + g.chunk[q].size = p, g.chunk[q].cinuse
                 PROVE  g.chunk[p].pinuse
      BY DEF Truthful
    <3>1. CASE p = m
      BY <2>10, <3>1
    <3>2. CASE q = m
      <4>1. p = m + rest /\ p < e
        BY <2>10, <2>13, <3>2 DEF Tiled
      <4> QED  BY <2>10, <4>1
    <3>3. CASE q = at /\ p # m
      BY <2>11, <3>3 DEF m
    <3>4. CASE q # m /\ q # at /\ p # m
      <4>1. q \in DOMAIN c /\ p \in DOMAIN c
        BY <2>10, <3>4
      <4>2. q + c[q].size = p /\ c[q].cinuse
        BY <2>11, <3>4, <4>1
      <4>3. c[p].pinuse
        BY <1>1, <4>1, <4>2 DEF Truthful
      <4> QED  BY <2>11, <4>1, <4>3
    <3> QED  BY <3>1, <3>2, <3>3, <3>4
  <2>15. Lists(g.free, DOMAIN g.chunk \ Held(g.chunk))
    <3>1. DOMAIN g.chunk \ Held(g.chunk) = F
      BY <2>2, <2>10, <2>12 DEF Held
    <3> QED  BY <1>1, <2>10, <3>1
  <2>16. HeapOK(g)
    BY <1>1, <2>10, <2>13, <2>14, <2>15 DEF HeapOK
  <2>17. /\ HeapOK(f)
         /\ Held(f.chunk) = Held(g.chunk) \ {m}
         /\ KeepSize(g.chunk, f.chunk, Held(f.chunk))
    <3>1. m \in Held(g.chunk)
      BY <2>12
    <3> QED  BY <2>1, <2>16, <3>1, FreeKeeps DEF f
  <2>18. Held(f.chunk) = Held(c)
    BY <2>2, <2>12, <2>17 DEF Held
  <2>19. KeepSize(c, f.chunk, Held(c) \ {at}) /\ f.chunk[at].size = nb
    BY <1>1, <2>11, <2>17, <2>18 DEF KeepSize, Held
  <2>20. s.at = at /\ s.heap = f /\ s = [at |-> s.at, heap |-> s.heap]
    BY <2>1
  <2>21. ResultOK(s)
    BY <1>1, <2>17, <2>18, <2>20 DEF ResultOK
  <2> QED  BY <2>18, <2>19, <2>20, <2>21 DEF s
<1>6. QED
  BY <1>2, <1>4, <1>5

\* palignedAlloc hands out one chunk that nobody held and leaves the others alone.
LEMMA PalignedAllocKeeps ==
    ASSUME NEW h, HeapOK(h), NEW nb \in Nat, nb >= 16,
           NEW pinuse \in BOOLEAN, NEW beyond,
           Running(PalignedAlloc(h, nb, pinuse, beyond).heap)
    PROVE  LET r == PalignedAlloc(h, nb, pinuse, beyond)
           IN  /\ r.at \notin Held(h.chunk)
               /\ HeapOK(r.heap)
               /\ Held(r.heap.chunk) = Held(h.chunk) \cup {r.at}
               /\ KeepSize(h.chunk, r.heap.chunk, Held(h.chunk))
               /\ r.heap.chunk[r.at].size >= nb
<1> DEFINE n == request2size(nb + PAGE_SIZE + MIN_CHUNK_SIZE - 4)
           a == Alloc(h, n, beyond)
           b == CutLead(a, pinuse, beyond)
           r == PalignedAlloc(h, nb, pinuse, beyond)
<1>1. r = CutRemainder(b, nb, beyond) /\ Running(r.heap)
  BY DEF PalignedAlloc
<1>2. n \in Nat /\ n >= 16 /\ n >= nb + PAGE_SIZE + 16
  <2> DEFINE x == nb + PAGE_SIZE + MIN_CHUNK_SIZE - 4
  <2>1. x \in Nat /\ x + 4 = nb + PAGE_SIZE + 16 /\ PAGE_SIZE \in Nat
    BY HeapConstants DEF MIN_CHUNK_SIZE
  <2>2. request2size(x) \in Nat /\ request2size(x) >= 16 /\ request2size(x) >= x + 4
    <3> HIDE DEF x
    <3> QED  BY <2>1, RequestIs
  <2> QED  BY <2>1, <2>2
<1> HIDE DEF n, r
<1>3. Running(b.heap)
  <2> SUFFICES ASSUME ~Running(b.heap) PROVE FALSE
    OBVIOUS
  <2>1. r = b
    BY <1>1 DEF CutRemainder
  <2> QED  BY <1>1, <2>1
<1>4. Running(a.heap)
  <2> SUFFICES ASSUME ~Running(a.heap) PROVE FALSE
    OBVIOUS
  <2>1. b = a
    BY DEF CutLead
  <2> QED  BY <1>3, <2>1
<1>5. /\ a.at \notin Held(h.chunk)
      /\ HeapOK(a.heap)
      /\ Held(a.heap.chunk) = Held(h.chunk) \cup {a.at}
      /\ KeepSize(h.chunk, a.heap.chunk, Held(h.chunk))
      /\ a.heap.chunk[a.at].size >= n
  BY <1>2, <1>4, AllocKeeps
<1>6. a = [at |-> a.at, heap |-> a.heap]
  BY DEF Alloc, Carve
<1> HIDE DEF a
<1>7. ResultOK(a)
  BY <1>5, <1>6 DEF ResultOK
<1>8. a.heap.chunk[a.at].size >= nb + PAGE_SIZE + 16
  <2>1. a.heap.chunk[a.at].size \in Nat /\ PAGE_SIZE \in Nat
    BY <1>5, HeapFacts, HeapConstants DEF Held
  <2> QED  BY <1>2, <1>5, <2>1
<1>9. /\ ResultOK(b)
      /\ b.at \notin Held(a.heap.chunk) \ {a.at}
      /\ Held(b.heap.chunk) = (Held(a.heap.chunk) \ {a.at}) \cup {b.at}
      /\ KeepSize(a.heap.chunk, b.heap.chunk, Held(a.heap.chunk) \ {a.at})
      /\ b.heap.chunk[b.at].size >= nb
  BY <1>3, <1>7, <1>8, CutLeadKeeps
<1> HIDE DEF b
<1>10. /\ r.at = b.at
       /\ ResultOK(r)
       /\ Held(r.heap.chunk) = Held(b.heap.chunk)
       /\ KeepSize(b.heap.chunk, r.heap.chunk, Held(b.heap.chunk) \ {b.at})
       /\ r.heap.chunk[r.at].size >= nb
  BY <1>1, <1>9, CutRemainderKeeps
<1>11. Held(a.heap.chunk) \ {a.at} = Held(h.chunk)
  BY <1>5
<1>12. Held(r.heap.chunk) = Held(h.chunk) \cup {r.at} /\ r.at \notin Held(h.chunk)
  BY <1>9, <1>10, <1>11
<1>13. KeepSize(h.chunk, r.heap.chunk, Held(h.chunk))
  <2> SUFFICES ASSUME NEW q \in Held(h.chunk) PROVE r.heap.chunk[q].size = h.chunk[q].size
    BY DEF KeepSize
  <2>1. a.heap.chunk[q].size = h.chunk[q].size
    BY <1>5 DEF KeepSize
  <2>2. b.heap.chunk[q].size = a.heap.chunk[q].size
    BY <1>9, <1>11 DEF KeepSize
  <2>3. q \in Held(b.heap.chunk) \ {b.at}
    BY <1>9, <1>11
  <2>4. r.heap.chunk[q].size = b.heap.chunk[q].size
    BY <1>10, <2>3 DEF KeepSize
  <2> QED  BY <2>1, <2>2, <2>4
<1>14. QED
  BY <1>10, <1>12, <1>13 DEF ResultOK, r

-----------------------------------------------------------------------------
(* Every sequence of calls. *)

\* The invariant that every call keeps as long as the system runs.
HeapInv ==
    Running(heap) =>
        /\ HeapOK(heap)
        /\ DOMAIN blocks = Held(heap.chunk)
        /\ \A p \in DOMAIN blocks : heap.chunk[p].size >= blocks[p] + 4

LEMMA InitHeap == Init => HeapInv
<1> SUFFICES ASSUME Init PROVE HeapInv
  OBVIOUS
<1> DEFINE K == FreeChunk(HEAP_MIN_SIZE)
           c == [p \in {startAddr} |-> K]
           e == startAddr + HEAP_MIN_SIZE
<1>1. heap = [chunk |-> c, free |-> <<startAddr>>, endAddr |-> e, state |-> "running"]
      /\ blocks = <<>>
  BY DEF Init
<1>2. /\ startAddr \in Nat /\ HEAP_MIN_SIZE \in Nat /\ HEAP_MIN_SIZE >= 16 /\ e \in Int /\ e > startAddr
  <2>1. /\ startAddr \in Nat /\ HEAP_MIN_SIZE \in Nat /\ HEAP_MIN_SIZE > 0 /\ PAGE_SIZE \in Nat
        /\ PAGE_SIZE > 16 /\ HEAP_MIN_SIZE % PAGE_SIZE = 0
    BY HeapConstants DEF MIN_CHUNK_SIZE
  <2>2. PICK k \in Int : HEAP_MIN_SIZE = PAGE_SIZE * k
    BY <2>1, WholePages
  <2>3. PAGE_SIZE * 0 = 0 /\ 0 \in Int
    BY <2>1
  <2>4. HEAP_MIN_SIZE >= PAGE_SIZE
    BY <2>1, <2>2, <2>3, PagesApart
  <2> QED  BY <2>1, <2>4
<1>3. K \in Chunk /\ K.size = HEAP_MIN_SIZE /\ ~K.cinuse /\ K.pinuse
  BY <1>2 DEF FreeChunk, Chunk
<1> HIDE DEF K
<1>4. DOMAIN c = {startAddr} /\ c[startAddr] = K
  OBVIOUS
<1> HIDE DEF c
<1>5. IsHeap(heap) /\ heap.chunk = c /\ heap.free = <<startAddr>> /\ heap.endAddr = e
  BY <1>1 DEF IsHeap
<1>6. Held(c) = {}
  BY <1>3, <1>4 DEF Held
<1>7. Tiled(c, e)
  BY <1>2, <1>3, <1>4 DEF Tiled, MIN_CHUNK_SIZE
<1>8. Truthful(c)
  BY <1>3, <1>4 DEF Truthful
<1>9. Lists(<<startAddr>>, {startAddr})
  <2> DEFINE l == <<startAddr>>
  <2>1. l \in Seq(Int) /\ Len(l) = 1 /\ l[1] = startAddr /\ DOMAIN l = {1}
    BY <1>2
  <2> HIDE DEF l
  <2>2. IsInjective(l) /\ ToSet(l) = {startAddr}
    BY <2>1 DEF IsInjective, ToSet
  <2>3. Lists(l, {startAddr})
    BY <2>1, <2>2 DEF Lists
  <2> QED  BY <2>3 DEF l
<1>10. HeapOK(heap)
  <2>1. Lists(heap.free, DOMAIN heap.chunk \ Held(heap.chunk))
    BY <1>4, <1>5, <1>6, <1>9
  <2> QED  BY <1>2, <1>5, <1>7, <1>8, <2>1 DEF HeapOK
<1>11. DOMAIN blocks = {}
  BY <1>1
<1>12. QED
  BY <1>5, <1>6, <1>10, <1>11 DEF HeapInv

\* A call that hands out a chunk of r.
LEMMA HandsOutKeeps ==
    ASSUME HeapInv, Running(heap), NEW r, NEW req \in Nat, HandsOut(r, req),
           Running(r.heap) =>
             /\ r.at \notin Held(heap.chunk)
             /\ HeapOK(r.heap)
             /\ Held(r.heap.chunk) = Held(heap.chunk) \cup {r.at}
             /\ KeepSize(heap.chunk, r.heap.chunk, Held(heap.chunk))
             /\ r.heap.chunk[r.at].size >= req + 4
    PROVE  HeapInv'
<1> SUFFICES ASSUME Running(heap') PROVE /\ HeapOK(heap')
                                         /\ DOMAIN blocks' = Held(heap'.chunk)
                                         /\ \A p \in DOMAIN blocks' : heap'.chunk[p].size >= blocks'[p] + 4
  BY DEF HeapInv, HeapOK, IsHeap, Tiled, Truthful, Held, Running
<1>1. heap' = r.heap /\ Running(r.heap)
  BY DEF HandsOut
<1>2. /\ DOMAIN blocks' = DOMAIN blocks \cup {r.at}
      /\ \A p \in DOMAIN blocks' : blocks'[p] = IF p = r.at THEN req ELSE blocks[p]
  BY <1>1 DEF HandsOut
<1>3. /\ DOMAIN blocks = Held(heap.chunk)
      /\ \A p \in DOMAIN blocks : heap.chunk[p].size >= blocks[p] + 4
  BY DEF HeapInv
<1>4. DOMAIN blocks' = Held(heap'.chunk)
  BY <1>1, <1>2, <1>3
<1>5. ASSUME NEW p \in DOMAIN blocks' PROVE heap'.chunk[p].size >= blocks'[p] + 4
  <2>1. CASE p = r.at
    BY <1>1, <1>2, <2>1
  <2>2. CASE p # r.at
    BY <1>1, <1>2, <1>3, <2>2 DEF KeepSize
  <2> QED  BY <2>1, <2>2
<1>6. QED
  BY <1>1, <1>4, <1>5

LEMMA NextKeepsHeap == HeapInv /\ [Next]_vars => HeapInv'
<1> SUFFICES ASSUME HeapInv, [Next]_vars PROVE HeapInv'
  OBVIOUS
<1>1. ASSUME NEW req \in Requests, Malloc(req) PROVE HeapInv'
  <2>1. Running(heap) /\ HeapOK(heap) /\ req \in Nat
    BY <1>1, HeapConstants DEF Malloc, HeapInv
  <2>2. PICK beyond \in BeyondEnd : HandsOut(Alloc(heap, request2size(req), beyond), req)
    BY <1>1 DEF Malloc
  <2>3. request2size(req) \in Nat /\ request2size(req) >= 16 /\ request2size(req) >= req + 4
    BY <2>1, RequestIs
  <2> DEFINE r == Alloc(heap, request2size(req), beyond)
  <2>4. Running(r.heap) =>
          /\ r.at \notin Held(heap.chunk)
          /\ HeapOK(r.heap)
          /\ Held(r.heap.chunk) = Held(heap.chunk) \cup {r.at}
          /\ KeepSize(heap.chunk, r.heap.chunk, Held(heap.chunk))
          /\ r.heap.chunk[r.at].size >= request2size(req)
    BY <2>1, <2>3, AllocKeeps
  <2> HIDE DEF r
  <2>5. Running(r.heap) => r.heap.chunk[r.at].size >= req + 4
    <3> SUFFICES ASSUME Running(r.heap) PROVE r.heap.chunk[r.at].size >= req + 4
      OBVIOUS
    <3>1. r.heap.chunk[r.at].size \in Nat
      BY <2>4, HeapFacts DEF Held
    <3> QED  BY <2>1, <2>3, <2>4, <3>1
  <2>6. HandsOut(r, req)
    BY <2>2 DEF r
  <2> QED  BY <2>1, <2>4, <2>5, <2>6, HandsOutKeeps
<1>2. ASSUME NEW req \in AlignedRequests, MallocAligned(req) PROVE HeapInv'
  <2>1. Running(heap) /\ HeapOK(heap) /\ req \in Nat
    BY <1>2, HeapConstants DEF MallocAligned, HeapInv
  <2>2. PICK beyond \in BeyondEnd, pinuse \in StalePinuse :
           HandsOut(PalignedAlloc(heap, request2size(req), pinuse, beyond), req)
    BY <1>2 DEF MallocAligned
  <2>3. request2size(req) \in Nat /\ request2size(req) >= 16 /\ request2size(req) >= req + 4
    BY <2>1, RequestIs
  <2> DEFINE r == PalignedAlloc(heap, request2size(req), pinuse, beyond)
  <2>4. Running(r.heap) =>
          /\ r.at \notin Held(heap.chunk)
          /\ HeapOK(r.heap)
          /\ Held(r.heap.chunk) = Held(heap.chunk) \cup {r.at}
          /\ KeepSize(heap.chunk, r.heap.chunk, Held(heap.chunk))
          /\ r.heap.chunk[r.at].size >= request2size(req)
    <3>1. pinuse \in BOOLEAN
      BY HeapConstants
    <3> QED  BY <2>1, <2>3, <3>1, PalignedAllocKeeps
  <2> HIDE DEF r
  <2>5. Running(r.heap) => r.heap.chunk[r.at].size >= req + 4
    <3> SUFFICES ASSUME Running(r.heap) PROVE r.heap.chunk[r.at].size >= req + 4
      OBVIOUS
    <3>1. r.heap.chunk[r.at].size \in Nat
      BY <2>4, HeapFacts DEF Held
    <3> QED  BY <2>1, <2>3, <2>4, <3>1
  <2>6. HandsOut(r, req)
    BY <2>2 DEF r
  <2> QED  BY <2>1, <2>4, <2>5, <2>6, HandsOutKeeps
<1>3. ASSUME NEW b \in DOMAIN blocks, HeapFree(b) PROVE HeapInv'
  <2>1. Running(heap) /\ HeapOK(heap) /\ DOMAIN blocks = Held(heap.chunk)
        /\ \A p \in DOMAIN blocks : heap.chunk[p].size >= blocks[p] + 4
    BY <1>3 DEF HeapFree, HeapInv
  <2>2. PICK beyond \in BeyondEnd : heap' = Free(heap, b, beyond)
    BY <1>3 DEF HeapFree
  <2>3. /\ DOMAIN blocks' = DOMAIN blocks \ {b}
        /\ \A p \in DOMAIN blocks' : blocks'[p] = blocks[p]
    BY <1>3 DEF HeapFree
  <2>4. SUFFICES ASSUME Running(heap') PROVE /\ HeapOK(heap')
                                             /\ DOMAIN blocks' = Held(heap'.chunk)
                                             /\ \A p \in DOMAIN blocks' : heap'.chunk[p].size >= blocks'[p] + 4
    BY DEF HeapInv, HeapOK, IsHeap, Tiled, Truthful, Held, Running
  <2> DEFINE g == Free(heap, b, beyond)
  <2>5. /\ HeapOK(g)
        /\ Held(g.chunk) = Held(heap.chunk) \ {b}
        /\ KeepSize(heap.chunk, g.chunk, Held(g.chunk))
    <3>1. Running(g) /\ b \in Held(heap.chunk)
      BY <2>1, <2>2, <2>4
    <3> QED  BY <2>1, <3>1, FreeKeeps
  <2> HIDE DEF g
  <2>6. heap' = g
    BY <2>2 DEF g
  <2>7. DOMAIN blocks' = Held(heap'.chunk)
    BY <2>1, <2>3, <2>5, <2>6
  <2>8. \A p \in DOMAIN blocks' : heap'.chunk[p].size >= blocks'[p] + 4
    BY <2>1, <2>3, <2>5, <2>6, <2>7 DEF KeepSize
  <2> QED  BY <2>5, <2>6, <2>7, <2>8
<1>4. CASE UNCHANGED vars
  BY <1>4 DEF vars, HeapInv, HeapOK, IsHeap, Tiled, Truthful, Held, Running
<1>5. QED
  BY <1>1, <1>2, <1>3, <1>4 DEF Next

LEMMA HeapInductive == Spec => []HeapInv
<1>1. Init => HeapInv
  BY InitHeap
<1>2. HeapInv /\ [Next]_vars => HeapInv'
  BY NextKeepsHeap
<1>3. QED
  BY <1>1, <1>2, PTL DEF Spec

\* The chunks tile the heap after any sequence of calls, whatever the sizes of
\* pages and requests (alloc, palignedAlloc, free, expand, contract).
THEOREM HeapIsTiled == Spec => []ChunksTileTheHeap
<1>1. HeapInv => ChunksTileTheHeap
  <2> SUFFICES ASSUME HeapInv, Running(heap) PROVE
        /\ startAddr \in DOMAIN heap.chunk
        /\ \A p \in DOMAIN heap.chunk :
              /\ chunksize(heap, p) >= MIN_CHUNK_SIZE
              /\ p + chunksize(heap, p) \in DOMAIN heap.chunk \cup {heap.endAddr}
              /\ \A q \in DOMAIN heap.chunk : q > p => q >= p + chunksize(heap, p)
    BY DEF ChunksTileTheHeap
  <2>1. Tiled(heap.chunk, heap.endAddr)
    BY DEF HeapInv, HeapOK
  <2> QED  BY <2>1 DEF Tiled, chunksize
<1>2. QED
  BY <1>1, HeapInductive, PTL

\* No chunk is lost and none is handed out twice: each is in the list of free
\* chunks, once, or held by one caller, with room for what he asked for.
THEOREM NoChunkLostOrShared == Spec => []ChunksAreFreeOrHeld
<1>1. HeapInv => ChunksAreFreeOrHeld
  <2> SUFFICES ASSUME HeapInv, Running(heap) PROVE
        /\ IsInjective(heap.free)
        /\ ToSet(heap.free) = {p \in DOMAIN heap.chunk : ~heap.chunk[p].cinuse}
        /\ DOMAIN blocks = {p \in DOMAIN heap.chunk : heap.chunk[p].cinuse}
        /\ \A p \in DOMAIN blocks : chunksize(heap, p) >= blocks[p] + 4
    BY DEF ChunksAreFreeOrHeld
  <2>1. Lists(heap.free, DOMAIN heap.chunk \ Held(heap.chunk)) /\ DOMAIN blocks = Held(heap.chunk)
        /\ \A p \in DOMAIN blocks : heap.chunk[p].size >= blocks[p] + 4
    BY DEF HeapInv, HeapOK
  <2>2. DOMAIN heap.chunk \ Held(heap.chunk) = {p \in DOMAIN heap.chunk : ~heap.chunk[p].cinuse}
    BY DEF Held
  <2>3. IsInjective(heap.free) /\ ToSet(heap.free) = DOMAIN heap.chunk \ Held(heap.chunk)
    BY <2>1 DEF Lists
  <2>4. \A p \in DOMAIN blocks : chunksize(heap, p) >= blocks[p] + 4
    BY <2>1 DEF chunksize
  <2>5. DOMAIN blocks = {p \in DOMAIN heap.chunk : heap.chunk[p].cinuse}
    BY <2>1 DEF Held
  <2> QED  BY <2>2, <2>3, <2>4, <2>5
<1>2. QED
  BY <1>1, HeapInductive, PTL

\* free never joins a block with a chunk that somebody holds: where the
\* PINUSE_BIT is clear the chunk before is free.
THEOREM PinuseIsTrue == Spec => []PinuseTellsTheTruth
<1>1. HeapInv => PinuseTellsTheTruth
  BY DEF HeapInv, HeapOK, Truthful, PinuseTellsTheTruth, chunksize
<1>2. QED
  BY <1>1, HeapInductive, PTL
====
