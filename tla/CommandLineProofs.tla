-------------------------- MODULE CommandLineProofs --------------------------
(***************************************************************************)
(* The command line, for every width of an int, every set of lines, names  *)
(* and buses: the command that is executed is the one on the screen, the   *)
(* numbers of readmem are those that were typed, and lspci lists the       *)
(* devices that there are.                                                 *)
(***************************************************************************)
EXTENDS CommandLine, FiniteSetTheorems, SequenceTheorems, WellFoundedInduction, TLAPS

-----------------------------------------------------------------------------
(* Numbers, sequences and finite sets. *)

\* The first place at which a loop stops.
LEMMA LeastOf ==
    ASSUME NEW S, S \subseteq Nat, S # {}
    PROVE  \E m \in S : \A k \in S : m <= k
<1>1. PICK x \in S : \A y \in S : ~(<<y, x>> \in OpToRel(<, Nat))
  BY WFMin, NatLessThanWellFounded
<1>2. \A y \in S : ~(y < x)
  BY <1>1 DEF OpToRel
<1> QED
  BY <1>2

\* What holds at 0 and goes from each number to the next holds up to n.
LEMMA UpTo ==
    ASSUME NEW n \in Nat, NEW S, 0 \in S,
           \A k \in 1 .. n : k - 1 \in S => k \in S
    PROVE  \A k \in 0 .. n : k \in S
<1> SUFFICES ASSUME NEW k \in 0 .. n, k \notin S
             PROVE  FALSE
  OBVIOUS
<1> DEFINE T == {i \in 0 .. n : i \notin S}
<1>1. PICK m \in T : \A i \in T : m <= i
  <2>1. T \subseteq Nat /\ T # {}
    OBVIOUS
  <2> HIDE DEF T
  <2> QED  BY <2>1, LeastOf
<1>2. m \in 1 .. n
  BY <1>1
<1>3. m - 1 \in 0 .. n /\ m - 1 \notin T
  BY <1>1, <1>2
<1> QED
  BY <1>1, <1>2, <1>3

LEMMA ArrayIsSeq ==
    ASSUME NEW n \in Nat, NEW S, NEW f \in [1 .. n -> S]
    PROVE  f \in Seq(S) /\ Len(f) = n
OBVIOUS

\* Two stretches of two sequences that agree are equal.
LEMMA SameStretch ==
    ASSUME NEW S, NEW s, NEW t, NEW m \in Int, NEW n \in Int,
           \A i \in m .. n : s[i] \in S /\ s[i] = t[i]
    PROVE  SubSeq(s, m, n) = SubSeq(t, m, n) /\ SubSeq(s, m, n) \in Seq(S)
<1> DEFINE a == SubSeq(s, m, n)
           b == SubSeq(t, m, n)
<1>1. /\ a \in Seq(S) /\ Len(a) = IF m <= n THEN n - m + 1 ELSE 0
      /\ \A i \in 1 .. n - m + 1 : a[i] = s[m + i - 1]
  BY SubSeqProperties
<1>2. /\ b \in Seq(S) /\ Len(b) = IF m <= n THEN n - m + 1 ELSE 0
      /\ \A i \in 1 .. n - m + 1 : b[i] = t[m + i - 1]
  <2>1. \A i \in m .. n : t[i] \in S
    OBVIOUS
  <2> QED  BY <2>1, SubSeqProperties
<1>3. \A i \in 1 .. Len(a) : a[i] = b[i]
  <2> TAKE i \in 1 .. Len(a)
  <2>1. i \in 1 .. n - m + 1 /\ m + i - 1 \in m .. n
    BY <1>1
  <2> QED  BY <1>1, <1>2, <2>1
<1> HIDE DEF a, b
<1>4. a = b
  BY <1>1, <1>2, <1>3, SeqEqual
<1> QED
  BY <1>1, <1>4 DEF a, b

\* In a finite set of numbers, no two have as many below them, and there are
\* fewer below one than there are numbers.
LEMMA NthOfNumbers ==
    ASSUME NEW S, NEW n \in Nat, S \subseteq 1 .. n, NEW x \in S
    PROVE  /\ Cardinality({y \in S : y < x}) \in 0 .. Cardinality(S) - 1
           /\ Nth(S, Cardinality({y \in S : y < x}) + 1) = x
<1> DEFINE Below(z) == {y \in S : y < z}
<1>1. IsFiniteSet(S) /\ Cardinality(S) \in Nat
  <2>1. IsFiniteSet(1 .. n)
    BY FS_Interval
  <2> QED  BY <2>1, FS_Subset, FS_CardinalityType
<1>2. \A z \in S : IsFiniteSet(Below(z)) /\ Cardinality(Below(z)) \in Nat
  <2> TAKE z \in S
  <2>1. Below(z) \in SUBSET S
    OBVIOUS
  <2> QED  BY <1>1, <2>1, FS_Subset, FS_CardinalityType
<1>3. \A z \in S, T \in SUBSET S :
         Below(z) \cup {z} \subseteq T => Cardinality(Below(z)) < Cardinality(T)
  <2> TAKE z \in S, T \in SUBSET S
  <2> HAVE Below(z) \cup {z} \subseteq T
  <2>1. IsFiniteSet(T) /\ Cardinality(T) \in Nat
    BY <1>1, FS_Subset, FS_CardinalityType
  <2>2. z \notin Below(z)
    OBVIOUS
  <2> HIDE DEF Below
  <2>3. Cardinality(Below(z) \cup {z}) = Cardinality(Below(z)) + 1
    BY <1>2, <2>2, FS_AddElement
  <2>4. Cardinality(Below(z) \cup {z}) <= Cardinality(T)
    BY <2>1, FS_Subset
  <2> QED  BY <1>2, <2>1, <2>3, <2>4
<1>4. \A z \in S : Below(z) \cup {z} \subseteq S
  OBVIOUS
<1>5. Cardinality(Below(x)) < Cardinality(S)
  BY <1>3, <1>4
<1>6. \A y, z \in S : y < z => Cardinality(Below(y)) < Cardinality(Below(z))
  <2> TAKE y \in S, z \in S
  <2> HAVE y < z
  <2>1. \A w \in S : w < y => w < z
    OBVIOUS
  <2>2. Below(y) \cup {y} \subseteq Below(z) /\ Below(z) \in SUBSET S
    BY <2>1
  <2> QED  BY <1>3, <2>2
<1>7. \A y \in S : Cardinality(Below(y)) = Cardinality(Below(x)) => y = x
  <2> TAKE y \in S
  <2>1. y \in Int /\ x \in Int
    OBVIOUS
  <2> HIDE DEF Below
  <2> QED  BY <1>2, <1>6, <2>1
<1>8. Nth(S, Cardinality(Below(x)) + 1)
        = CHOOSE y \in S : Cardinality(Below(y)) = (Cardinality(Below(x)) + 1) - 1
  BY DEF Nth
<1> HIDE DEF Below
<1>9. Nth(S, Cardinality(Below(x)) + 1) = x
  <2>1. \A y \in S : Cardinality(Below(y)) = (Cardinality(Below(x)) + 1) - 1 <=> y = x
    BY <1>2, <1>7
  <2> QED  BY <1>8, <2>1
<1>10. Cardinality(Below(x)) \in 0 .. Cardinality(S) - 1
  BY <1>1, <1>2, <1>5
<1> QED
  BY <1>9, <1>10 DEF Below
-----------------------------------------------------------------------------
(* The words of the line. *)

\* A byte of a buffer.
Letter == STRING \cup {"nul"}

\* From the place p on, the buffer holds what is left of the line, and its 0;
\* the words before p have been taken out.
Held(line, buffer, p) ==
    /\ buffer \in [Buffer -> Letter]
    /\ p \in 1 .. Len(line) + 1
    /\ \A i \in p .. Len(line) : buffer[i] = line[i]
    /\ buffer[Len(line) + 1] = "nul"
    /\ p = 1 \/ p = Len(line) + 1 \/ line[p - 1] = Blank

LEMMA BlankIsNoEnd == Blank # "nul"
  BY DEF Blank

\* strtok skips blanks to the 0 or to the next start of a word.
LEMMA FirstIsAStart ==
    ASSUME NEW line \in Text, Len(line) < LineSize, NEW buffer, NEW p, Held(line, buffer, p)
    PROVE  LET first == CHOOSE j \in p .. Len(buffer) :
                            /\ ~IsDelim(buffer, j)
                            /\ \A k \in p .. j - 1 : IsDelim(buffer, k)
           IN  /\ first \in p .. Len(line) + 1
               /\ \A j \in Starts(line) : p <= j => first <= j
               /\ first <= Len(line) => first \in Starts(line)
<1> DEFINE n == Len(line)
           Is(j) == ~IsDelim(buffer, j) /\ \A k \in p .. j - 1 : IsDelim(buffer, k)
           F == {j \in p .. n + 1 : ~IsDelim(buffer, j)}
<1>1. /\ n \in Nat /\ line \in [1 .. n -> STRING] /\ n + 1 <= LineSize /\ Len(buffer) = LineSize
      /\ p \in 1 .. n + 1
  <2>1. LineSize \in Nat
    BY CommandLineConstants
  <2>2. Len(buffer) = LineSize
    BY <2>1, ArrayIsSeq DEF Held, Buffer
  <2>3. line \in Seq(STRING)
    BY DEF Text
  <2>4. n \in Nat /\ line \in [1 .. n -> STRING]
    BY <2>3
  <2> QED  BY <2>1, <2>2, <2>4 DEF Held
<1>2. PICK m \in F : \A k \in F : m <= k
  <2>1. n + 1 \in F
    BY <1>1, BlankIsNoEnd DEF Held, IsDelim
  <2>2. F \subseteq Nat
    BY <1>1
  <2> HIDE DEF F
  <2> QED  BY <2>1, <2>2, LeastOf
<1>3. m \in p .. n + 1 /\ ~IsDelim(buffer, m) /\ \A k \in p .. m - 1 : IsDelim(buffer, k)
  <2>1. m \in p .. n + 1 /\ ~IsDelim(buffer, m)
    BY <1>2
  <2>2. ASSUME NEW k \in p .. m - 1, ~IsDelim(buffer, k)
        PROVE  FALSE
    <3>1. k \in F
      BY <1>1, <2>1, <2>2
    <3> HIDE DEF F
    <3> QED  BY <1>1, <1>2, <2>1, <3>1
  <2> QED  BY <2>1, <2>2
<1>4. \A j \in p .. LineSize : Is(j) <=> j = m
  <2>1. \A j \in p .. LineSize : Is(j) => j = m
    BY <1>1, <1>3
  <2> QED  BY <1>3, <2>1
<1>5. (CHOOSE j \in p .. Len(buffer) : Is(j)) = m
  <2>1. m \in p .. LineSize
    BY <1>1, <1>3
  <2> HIDE DEF Is
  <2> QED  BY <1>1, <1>4, <2>1
<1>6. \A j \in Starts(line) : p <= j => m <= j
  <2> TAKE j \in Starts(line)
  <2> HAVE p <= j
  <2>1. j \in 1 .. n /\ line[j] # Blank
    BY DEF Starts
  <2>2. j \in p .. n /\ buffer[j] # Blank
    BY <1>1, <2>1 DEF Held
  <2> QED  BY <1>1, <1>3, <2>2 DEF IsDelim
<1>7. ASSUME m <= n
      PROVE  m \in Starts(line)
  <2>1. m \in 1 .. n /\ line[m] # Blank
    BY <1>1, <1>3, <1>7 DEF Held, IsDelim
  <2>2. CASE m = p
    BY <1>1, <2>1, <2>2 DEF Held, Starts
  <2>3. CASE m # p
    <3>1. m - 1 \in p .. m - 1 /\ m - 1 \in p .. n
      BY <1>1, <1>3, <1>7, <2>3
    <3>2. line[m - 1] = Blank
      BY <1>3, <3>1 DEF Held, IsDelim
    <3> QED  BY <2>1, <3>2 DEF Starts
  <2> QED  BY <2>2, <2>3
<1> QED
  BY <1>3, <1>5, <1>6, <1>7

\* A word goes to the first blank after its start, or to the end of the line.
LEMMA WordEnds ==
    ASSUME NEW line \in Text, NEW i \in Starts(line)
    PROVE  \E e \in i + 1 .. Len(line) + 1 :
              /\ e <= Len(line) => line[e] = Blank
              /\ \A k \in i .. e - 1 : line[k] # Blank
              /\ WordAt(line, i) = SubSeq(line, i, e - 1)
              /\ WordAt(line, i) \in Text /\ WordAt(line, i) # <<>>
              /\ \A j \in Starts(line) : j < e => j <= i
<1> DEFINE n == Len(line)
           E == {j \in i .. n + 1 : j = n + 1 \/ line[j] = Blank}
           Is(j) == /\ j = Len(line) \/ line[j + 1] = Blank
                    /\ \A k \in i .. j : line[k] # Blank
<1>1. n \in Nat /\ line \in [1 .. n -> STRING] /\ i \in 1 .. n /\ line[i] # Blank
  <2>1. line \in Seq(STRING)
    BY DEF Text
  <2> QED  BY <2>1 DEF Starts
<1>2. PICK e \in E : \A k \in E : e <= k
  <2>1. n + 1 \in E /\ E \subseteq Nat
    BY <1>1
  <2> HIDE DEF E
  <2> QED  BY <2>1, LeastOf
<1>3. e \in i + 1 .. n + 1 /\ (e <= n => line[e] = Blank)
  BY <1>1, <1>2
<1>4. \A k \in i .. e - 1 : line[k] # Blank
  <2> SUFFICES ASSUME NEW k \in i .. e - 1, line[k] = Blank
               PROVE  FALSE
    OBVIOUS
  <2>1. k \in E
    BY <1>1, <1>3
  <2> HIDE DEF E
  <2> QED  BY <1>1, <1>2, <1>3, <2>1
<1>5. \A j \in i .. n : Is(j) <=> j = e - 1
  <2>1. ASSUME NEW j \in i .. n, Is(j)
        PROVE  j = e - 1
    <3> HIDE DEF Is
    <3>1. /\ j \in Int /\ i \in Int /\ e \in Int /\ n \in Int
          /\ i < e /\ e <= n + 1 /\ i <= j /\ j <= n
      BY <1>1, <1>3
    <3>2. CASE j < e - 1
      <4>1. j + 1 \in i .. e - 1 /\ j # n
        BY <3>1, <3>2
      <4> QED  BY <1>4, <2>1, <4>1 DEF Is
    <3>3. CASE j > e - 1
      <4>1. e \in i .. j /\ e <= n
        BY <1>1, <3>1, <3>3
      <4> QED  BY <1>3, <2>1, <4>1 DEF Is
    <3> QED  BY <3>1, <3>2, <3>3
  <2>2. e - 1 \in i .. n /\ Is(e - 1)
    BY <1>1, <1>3, <1>4
  <2> QED  BY <2>1, <2>2
<1>6. WordAt(line, i) = SubSeq(line, i, e - 1)
  <2>1. e - 1 \in i .. n
    BY <1>1, <1>3
  <2>2. (CHOOSE j \in i .. Len(line) : Is(j)) = e - 1
    <3> HIDE DEF Is
    <3> QED  BY <1>5, <2>1
  <2> QED  BY <2>2 DEF WordAt
<1>7. WordAt(line, i) \in Text /\ WordAt(line, i) # <<>>
  <2> DEFINE w == SubSeq(line, i, e - 1)
  <2>1. \A k \in i .. e - 1 : line[k] \in STRING /\ line[k] # "nul"
    BY <1>1, <1>3 DEF Text
  <2>2. w \in Seq(STRING) /\ Len(w) = e - i /\ \A k \in 1 .. e - i : w[k] = line[i + k - 1]
    <3>1. \A k \in i .. e - 1 : line[k] \in STRING
      BY <2>1
    <3>2. i \in Int /\ e - 1 \in Int /\ i <= e - 1 /\ (e - 1) - i + 1 = e - i
      BY <1>1, <1>3
    <3> QED  BY <3>1, <3>2, SubSeqProperties
  <2>3. \A k \in 1 .. e - i : i + k - 1 \in i .. e - 1
    BY <1>1, <1>3
  <2>4. e - i \in Nat /\ e - i # 0
    BY <1>1, <1>3
  <2> HIDE DEF w
  <2>5. w \in Text /\ w # <<>>
    BY <2>1, <2>2, <2>3, <2>4, EmptySeq DEF Text
  <2> QED  BY <1>6, <2>5 DEF w
<1>8. \A j \in Starts(line) : j < e => j <= i
  <2> SUFFICES ASSUME NEW j \in Starts(line), j < e, i < j
               PROVE  FALSE
    BY <1>1, <1>3 DEF Starts
  <2>1. j \in 1 .. n /\ (j = 1 \/ line[j - 1] = Blank)
    BY DEF Starts
  <2>2. j - 1 \in i .. e - 1
    BY <1>1, <1>3, <2>1
  <2> QED  BY <1>1, <1>4, <2>1, <2>2
<1> QED
  BY <1>3, <1>4, <1>6, <1>7, <1>8

\* strtok finds the next word of the line, if there is one, and then holds what
\* is left of the line after it.
TakesNextWord(line, p, call) ==
    /\ call.found \in BOOLEAN
    /\ Held(line, call.buffer, call.backup)
    /\ call.found =>
          \E i \in Starts(line) :
             /\ p <= i /\ \A j \in Starts(line) : p <= j => i <= j
             /\ call.word = WordAt(line, i)
             /\ i < call.backup
             /\ \A j \in Starts(line) : j < call.backup => j <= i
    /\ ~call.found =>
          /\ call.backup = p
          /\ call.word = <<>>
          /\ \A j \in Starts(line) : j < p

LEMMA StrtokTakesTheNextWord ==
    ASSUME NEW line \in Text, Len(line) < LineSize, NEW buffer, NEW p, Held(line, buffer, p)
    PROVE  TakesNextWord(line, p, strtok(buffer, p))
<1> DEFINE n == Len(line)
           first == CHOOSE j \in p .. Len(buffer) :
                       /\ ~IsDelim(buffer, j)
                       /\ \A k \in p .. j - 1 : IsDelim(buffer, k)
           Is(j) == /\ buffer[j] = "nul" \/ IsDelim(buffer, j)
                    /\ \A k \in first .. j - 1 : buffer[k] # "nul" /\ ~IsDelim(buffer, k)
           end == CHOOSE j \in first .. Len(buffer) : Is(j)
           call == strtok(buffer, p)
<1>1. /\ n \in Nat /\ line \in [1 .. n -> STRING] /\ n + 1 <= LineSize /\ Len(buffer) = LineSize
      /\ p \in 1 .. n + 1 /\ p # 0 /\ LineSize \in Nat
  <2>1. LineSize \in Nat
    BY CommandLineConstants
  <2>2. Len(buffer) = LineSize
    BY <2>1, ArrayIsSeq DEF Held, Buffer
  <2>3. line \in Seq(STRING)
    BY DEF Text
  <2>4. n \in Nat /\ line \in [1 .. n -> STRING]
    BY <2>3
  <2> QED  BY <2>1, <2>2, <2>4 DEF Held
<1>2. /\ first \in p .. n + 1
      /\ \A j \in Starts(line) : p <= j => first <= j
      /\ first <= n => first \in Starts(line)
  BY FirstIsAStart
<1>3. call = IF buffer[first] = "nul"
             THEN [word |-> <<>>, buffer |-> buffer, backup |-> p, found |-> FALSE]
             ELSE [word |-> SubSeq(buffer, first, end - 1), found |-> TRUE,
                   buffer |-> [buffer EXCEPT ![end] = "nul"],
                   backup |-> NextPlace(buffer, end)]
  BY <1>1 DEF strtok
<1> HIDE DEF first
<1>4. CASE first = n + 1
  <2>1. buffer[first] = "nul"
    BY <1>4 DEF Held
  <2>2. call = [word |-> <<>>, buffer |-> buffer, backup |-> p, found |-> FALSE]
    BY <1>3, <2>1
  <2>3. \A j \in Starts(line) : j < p
    BY <1>1, <1>2, <1>4 DEF Starts
  <2> HIDE DEF call
  <2>4. call.found = FALSE /\ call.buffer = buffer /\ call.backup = p /\ call.word = <<>>
    BY <2>2
  <2> QED  BY <2>3, <2>4 DEF call, TakesNextWord
<1>5. CASE first # n + 1
  <2>1. first \in p .. n /\ first \in Starts(line)
    BY <1>1, <1>2, <1>5
  <2>2. buffer[first] # "nul"
    <3>1. buffer[first] = line[first] /\ first \in 1 .. n
      BY <1>1, <2>1 DEF Held
    <3> QED  BY <3>1 DEF Text
  <2>3. PICK e \in first + 1 .. n + 1 :
              /\ e <= n => line[e] = Blank
              /\ \A k \in first .. e - 1 : line[k] # Blank
              /\ WordAt(line, first) = SubSeq(line, first, e - 1)
              /\ \A j \in Starts(line) : j < e => j <= first
    BY <2>1, WordEnds
  <2>4. e \in Nat /\ first \in Nat /\ first < e /\ e <= n + 1 /\ p <= first
    BY <1>1, <2>1, <2>3
  <2>5. \A k \in first .. e - 1 : /\ buffer[k] = line[k] /\ buffer[k] \in STRING
                                  /\ buffer[k] # "nul" /\ ~IsDelim(buffer, k)
    <3> TAKE k \in first .. e - 1
    <3>1. k \in p .. n /\ k \in 1 .. n
      BY <1>1, <2>4
    <3>2. buffer[k] = line[k]
      BY <3>1 DEF Held
    <3> QED  BY <1>1, <2>3, <3>1, <3>2 DEF Text, IsDelim
  <2>6. Is(e)
    <3>1. CASE e = n + 1
      BY <2>5, <3>1 DEF Held
    <3>2. CASE e # n + 1
      <4>1. e \in p .. n
        BY <1>1, <2>4, <3>2
      <4> QED  BY <2>3, <2>5, <4>1 DEF Held, IsDelim
    <3> QED  BY <3>1, <3>2
  <2>7. \A j \in first .. Len(buffer) : Is(j) => j = e
    <3> TAKE j \in first .. Len(buffer)
    <3> HAVE Is(j)
    <3>1. j \in Int /\ first <= j
      BY <1>1, <2>4
    <3>2. CASE j < e
      <4>1. j \in first .. e - 1
        BY <2>4, <3>1, <3>2
      <4> QED  BY <2>5, <4>1
    <3>3. CASE j > e
      <4>1. e \in first .. j - 1
        BY <2>4, <3>1, <3>3
      <4> QED  BY <2>6, <4>1
    <3> QED  BY <2>4, <3>1, <3>2, <3>3
  <2>8. end = e
    <3>1. e \in first .. Len(buffer)
      BY <1>1, <2>4
    <3> HIDE DEF Is
    <3> QED  BY <2>6, <2>7, <3>1
  <2> DEFINE after == [buffer EXCEPT ![e] = "nul"]
             place == NextPlace(buffer, e)
  <2>9. call = [word |-> SubSeq(buffer, first, e - 1), found |-> TRUE,
                buffer |-> after, backup |-> place]
    BY <1>3, <2>2, <2>8
  <2>10. SubSeq(buffer, first, e - 1) = WordAt(line, first)
    <3>1. first \in Int /\ e - 1 \in Int
      BY <2>4
    <3>2. \A k \in first .. e - 1 : buffer[k] \in STRING /\ buffer[k] = line[k]
      BY <2>5
    <3> HIDE DEF first
    <3>3. SubSeq(buffer, first, e - 1) = SubSeq(line, first, e - 1)
      BY <3>1, <3>2, SameStretch
    <3> QED  BY <2>3, <3>3
  <2>11. /\ Held(line, after, place)
         /\ first < place /\ \A j \in Starts(line) : j < place => j <= first
    <3>1. after \in [Buffer -> Letter] /\ e \in Buffer
      BY <1>1, <2>4 DEF Held, Buffer, Letter
    <3>2. buffer \in [Buffer -> Letter] /\ buffer[n + 1] = "nul"
      BY DEF Held
    <3>3. n + 1 \in Buffer /\ n + 1 \in Nat
      BY <1>1 DEF Buffer
    <3>4. after[n + 1] = "nul"
      BY <3>2, <3>3
    <3>5. CASE e = n + 1
      <4>1. place = n + 1
        BY <3>2, <3>5 DEF NextPlace
      <4>2. \A i \in n + 1 .. n : after[i] = line[i]
        BY <1>1
      <4>3. n + 1 \in 1 .. n + 1
        BY <1>1
      <4>4. Held(line, after, n + 1)
        BY <3>1, <3>4, <4>2, <4>3 DEF Held
      <4> QED  BY <2>3, <2>4, <3>5, <4>1, <4>4
    <3>6. CASE e # n + 1
      <4>1. e \in p .. n /\ line[e] = Blank
        <5>1. e \in p .. n /\ e <= n
          BY <1>1, <2>4, <3>6
        <5> QED  BY <2>3, <5>1
      <4>2. buffer[e] = Blank
        BY <4>1 DEF Held
      <4>3. place = e + 1
        BY <4>2, BlankIsNoEnd DEF NextPlace
      <4>4. \A i \in e + 1 .. n : after[i] = line[i]
        <5> TAKE i \in e + 1 .. n
        <5>1. i \in p .. n /\ i # e /\ i \in Buffer
          BY <1>1, <2>4 DEF Buffer
        <5> QED  BY <3>2, <5>1 DEF Held
      <4>5. e + 1 \in 1 .. n + 1 /\ (e + 1) - 1 = e
        BY <1>1, <4>1
      <4>6. Held(line, after, e + 1)
        BY <3>1, <3>4, <4>1, <4>4, <4>5 DEF Held
      <4>7. \A j \in Starts(line) : j < e + 1 => j <= first
        <5> TAKE j \in Starts(line)
        <5> HAVE j < e + 1
        <5>1. j \in Int /\ line[j] # Blank
          BY DEF Starts
        <5>2. j < e
          BY <2>4, <4>1, <5>1
        <5> QED  BY <2>3, <5>2
      <4> QED  BY <2>4, <4>3, <4>6, <4>7
    <3> QED  BY <3>5, <3>6
  <2> HIDE DEF call, after, place
  <2>12. /\ call.found = TRUE /\ call.buffer = after /\ call.backup = place
         /\ call.word = WordAt(line, first)
    BY <2>9, <2>10
  <2>13. p <= first /\ \A j \in Starts(line) : p <= j => first <= j
    BY <1>2, <2>4
  <2> QED  BY <2>1, <2>11, <2>12, <2>13 DEF call, TakesNextWord
<1> QED
  BY <1>4, <1>5

StartsBefore(line, p) == {j \in Starts(line) : j < p}

\* What the loop that fills argv has done after n calls: the words are the
\* first of the line, and strtok holds the rest.
TokensRead(line, n, t) ==
    /\ Held(line, t.buffer, t.backup)
    /\ t.found \in BOOLEAN
    /\ t.word \in Seq(Text)
    /\ Len(t.word) = Cardinality(StartsBefore(line, t.backup))
    /\ \A k \in 1 .. Len(t.word) : k \in DOMAIN WordsOf(line) /\ t.word[k] = WordsOf(line)[k]
    /\ IF t.found THEN Len(t.word) = n + 1
       ELSE Len(t.word) <= n /\ \A j \in Starts(line) : j < t.backup

LEMMA StartsAreFinite ==
    ASSUME NEW line \in Text
    PROVE  /\ Len(line) \in Nat /\ Starts(line) \subseteq 1 .. Len(line)
           /\ IsFiniteSet(Starts(line)) /\ Cardinality(Starts(line)) \in Nat
<1>1. Len(line) \in Nat /\ Starts(line) \subseteq 1 .. Len(line)
  <2>1. line \in Seq(STRING)
    BY DEF Text
  <2> QED  BY <2>1 DEF Starts
<1>2. IsFiniteSet(Starts(line))
  <2>1. IsFiniteSet(1 .. Len(line))
    BY <1>1, FS_Interval
  <2> QED  BY <1>1, <2>1, FS_Subset
<1> QED
  BY <1>1, <1>2, FS_CardinalityType

\* The least start that is left is the start of the next word.
LEMMA NextWordIs ==
    ASSUME NEW line \in Text, NEW p \in Nat, NEW q \in Nat, NEW i \in Starts(line),
           p <= i, i < q,
           \A j \in Starts(line) : p <= j => i <= j,
           \A j \in Starts(line) : j < q => j <= i,
           NEW c, c = Cardinality(StartsBefore(line, p))
    PROVE  /\ c + 1 \in DOMAIN WordsOf(line)
           /\ WordsOf(line)[c + 1] = WordAt(line, i)
           /\ Cardinality(StartsBefore(line, q)) = c + 1
<1> DEFINE S == Starts(line)
<1>1. /\ S \subseteq 1 .. Len(line) /\ Len(line) \in Nat
      /\ IsFiniteSet(S) /\ Cardinality(S) \in Nat
  BY StartsAreFinite
<1>2. i \in Nat /\ \A j \in S : j \in Nat
  BY <1>1
<1> SUFFICES /\ c + 1 \in DOMAIN WordsOf(line)
             /\ WordsOf(line)[c + 1] = WordAt(line, i)
             /\ Cardinality({j \in S : j < q}) = c + 1
  BY DEF StartsBefore
<1>10. i \in S /\ c = Cardinality({j \in S : j < p})
  BY DEF StartsBefore
<1>11. \A j \in S : (j < p <=> j < i) /\ (j < q <=> j < i \/ j = i)
  <2> TAKE j \in S
  <2>1. j \in Nat /\ i \in Nat /\ (p <= j => i <= j) /\ (j < q => j <= i)
    BY <1>2
  <2> QED  BY <2>1
<1> HIDE DEF S
<1>3. {j \in S : j < p} = {j \in S : j < i}
  BY <1>11
<1>4. {j \in S : j < q} = {j \in S : j < i} \cup {i}
  BY <1>10, <1>11
<1>5. c \in 0 .. Cardinality(S) - 1 /\ Nth(S, c + 1) = i
  <2>1. /\ Cardinality({j \in S : j < i}) \in 0 .. Cardinality(S) - 1
        /\ Nth(S, Cardinality({j \in S : j < i}) + 1) = i
    BY <1>1, <1>10, NthOfNumbers
  <2>2. c = Cardinality({j \in S : j < i})
    BY <1>3, <1>10
  <2> QED  BY <2>1, <2>2
<1>6. Cardinality({j \in S : j < q}) = c + 1
  <2> DEFINE B == {j \in S : j < i}
  <2>1. IsFiniteSet(B) /\ i \notin B
    <3>1. B \in SUBSET S
      OBVIOUS
    <3> QED  BY <1>1, <1>2, <3>1, FS_Subset
  <2> HIDE DEF B
  <2>2. Cardinality(B \cup {i}) = Cardinality(B) + 1
    BY <2>1, FS_AddElement
  <2> QED  BY <1>3, <1>4, <1>10, <2>2 DEF B
<1>7. c \in Nat /\ c + 1 \in 1 .. Cardinality(S)
  BY <1>1, <1>5
<1>8. WordsOf(line) = [n \in 1 .. Cardinality(S) |-> WordAt(line, Nth(S, n))]
  BY DEF WordsOf, S
<1>9. c + 1 \in DOMAIN WordsOf(line) /\ WordsOf(line)[c + 1] = WordAt(line, i)
  BY <1>5, <1>7, <1>8
<1> QED
  BY <1>6, <1>7, <1>9 DEF S

\* One more call.
LEMMA NextTokenReads ==
    ASSUME NEW line \in Text, Len(line) < LineSize, NEW n \in Nat, NEW t,
           TokensRead(line, n, t)
    PROVE  TokensRead(line, n + 1, NextToken(t))
<1> DEFINE call == strtok(t.buffer, t.backup)
           next == NextToken(t)
<1>1. Held(line, t.buffer, t.backup) /\ t.found \in BOOLEAN /\ t.backup \in Nat
      /\ Len(t.word) \in Nat /\ t.word \in Seq(Text)
  <2>1. Len(line) \in Nat
    BY StartsAreFinite
  <2> QED  BY <2>1 DEF TokensRead, Held
<1>2. CASE ~t.found
  <2>1. next = t
    BY <1>2 DEF NextToken
  <2>2. Len(t.word) <= n + 1
    BY <1>1, <1>2 DEF TokensRead
  <2> HIDE DEF next
  <2> QED  BY <1>2, <2>1, <2>2 DEF TokensRead, next
<1>3. CASE t.found
  <2>1. /\ call.found \in BOOLEAN
        /\ Held(line, call.buffer, call.backup)
        /\ call.found =>
              \E i \in Starts(line) :
                 /\ t.backup <= i /\ \A j \in Starts(line) : t.backup <= j => i <= j
                 /\ call.word = WordAt(line, i)
                 /\ i < call.backup
                 /\ \A j \in Starts(line) : j < call.backup => j <= i
        /\ ~call.found => /\ call.backup = t.backup
                          /\ \A j \in Starts(line) : j < t.backup
    <3>1. TakesNextWord(line, t.backup, call)
      BY <1>1, StrtokTakesTheNextWord
    <3> HIDE DEF call
    <3> QED  BY <3>1 DEF TakesNextWord
  <2>2. /\ next.found = call.found /\ next.buffer = call.buffer /\ next.backup = call.backup
        /\ next.word = IF call.found THEN Append(t.word, call.word) ELSE t.word
    BY <1>3 DEF NextToken, strtok
  <2> HIDE DEF call, next
  <2>3. CASE ~call.found
    <3>1. next.word = t.word /\ next.backup = t.backup /\ next.found = FALSE
      BY <2>1, <2>2, <2>3
    <3>2. Len(next.word) <= n + 1
      BY <1>1, <1>3, <3>1 DEF TokensRead
    <3> QED  BY <1>1, <2>1, <2>2, <2>3, <3>1, <3>2 DEF TokensRead, next
  <2>4. CASE call.found
    <3>1. PICK i \in Starts(line) :
                /\ t.backup <= i /\ \A j \in Starts(line) : t.backup <= j => i <= j
                /\ call.word = WordAt(line, i)
                /\ i < call.backup
                /\ \A j \in Starts(line) : j < call.backup => j <= i
      BY <2>1, <2>4
    <3>2. call.backup \in Nat
      <4>1. Len(line) \in Nat
        BY StartsAreFinite
      <4> QED  BY <2>1, <4>1 DEF Held
    <3>3. Len(t.word) = Cardinality(StartsBefore(line, t.backup)) /\ Len(t.word) = n + 1
      BY <1>3 DEF TokensRead
    <3>4. /\ n + 2 \in DOMAIN WordsOf(line) /\ WordsOf(line)[n + 2] = call.word
          /\ Cardinality(StartsBefore(line, call.backup)) = n + 2
      <4>1. (n + 1) + 1 = n + 2
        OBVIOUS
      <4>2. n + 1 = Cardinality(StartsBefore(line, t.backup))
        BY <3>3
      <4>3. /\ (n + 1) + 1 \in DOMAIN WordsOf(line)
            /\ WordsOf(line)[(n + 1) + 1] = WordAt(line, i)
            /\ Cardinality(StartsBefore(line, call.backup)) = (n + 1) + 1
        <5> DEFINE p == t.backup
                   q == call.backup
                   c == n + 1
        <5>1. /\ p \in Nat /\ q \in Nat /\ p <= i /\ i < q
              /\ \A j \in Starts(line) : p <= j => i <= j
              /\ \A j \in Starts(line) : j < q => j <= i
              /\ c = Cardinality(StartsBefore(line, p))
          BY <1>1, <3>1, <3>2, <4>2
        <5> HIDE DEF p, q, c
        <5>2. /\ c + 1 \in DOMAIN WordsOf(line) /\ WordsOf(line)[c + 1] = WordAt(line, i)
              /\ Cardinality(StartsBefore(line, q)) = c + 1
          BY <5>1, NextWordIs
        <5> QED  BY <5>2 DEF c, q
      <4> QED  BY <3>1, <4>1, <4>3
    <3>5. call.word \in Text
      BY <3>1, WordEnds
    <3>6. /\ next.word \in Seq(Text) /\ Len(next.word) = n + 2
          /\ next.word[n + 2] = call.word
          /\ \A k \in 1 .. n + 1 : next.word[k] = t.word[k]
      BY <1>1, <2>2, <2>4, <3>3, <3>5
    <3>7. \A k \in 1 .. n + 2 : k \in DOMAIN WordsOf(line) /\ next.word[k] = WordsOf(line)[k]
      <4> TAKE k \in 1 .. n + 2
      <4>1. CASE k \in 1 .. n + 1
        BY <3>3, <3>6, <4>1 DEF TokensRead
      <4>2. CASE k = n + 2
        BY <3>4, <3>6, <4>2
      <4> QED  BY <4>1, <4>2
    <3>8. Len(next.word) = (n + 1) + 1
      BY <3>6
    <3> QED  BY <2>1, <2>2, <2>4, <3>4, <3>6, <3>7, <3>8 DEF TokensRead, next
  <2> QED  BY <2>1, <2>3, <2>4
<1> QED
  BY <1>1, <1>2, <1>3

\* The first call.
LEMMA FirstTokenReads ==
    ASSUME NEW line \in Text, Len(line) < LineSize, NEW buffer, Held(line, buffer, 1)
    PROVE  TokensRead(line, 0, FirstToken(buffer))
<1> DEFINE call == strtok(buffer, 1)
           first == FirstToken(buffer)
<1>1. Len(line) \in Nat /\ Starts(line) \subseteq 1 .. Len(line)
  BY StartsAreFinite
<1>2. StartsBefore(line, 1) = {}
  BY <1>1 DEF StartsBefore
<1>3. /\ call.found \in BOOLEAN
      /\ Held(line, call.buffer, call.backup)
      /\ call.found =>
            \E i \in Starts(line) :
               /\ 1 <= i /\ \A j \in Starts(line) : 1 <= j => i <= j
               /\ call.word = WordAt(line, i)
               /\ i < call.backup
               /\ \A j \in Starts(line) : j < call.backup => j <= i
      /\ ~call.found => /\ call.backup = 1
                        /\ \A j \in Starts(line) : j < 1
  <2>1. TakesNextWord(line, 1, call)
    BY StrtokTakesTheNextWord
  <2> HIDE DEF call
  <2> QED  BY <2>1 DEF TakesNextWord
<1>4. /\ first.found = call.found /\ first.buffer = call.buffer /\ first.backup = call.backup
      /\ first.word = IF call.found THEN <<call.word>> ELSE <<>>
  BY DEF FirstToken, strtok
<1>5. Cardinality({}) = 0
  BY FS_EmptySet
<1> HIDE DEF call, first
<1>6. CASE ~call.found
  <2>1. first.word = <<>> /\ first.backup = 1 /\ first.found = FALSE
    BY <1>3, <1>4, <1>6
  <2>2. first.word \in Seq(Text) /\ Len(first.word) = 0
    BY <2>1
  <2>3. \A k \in 1 .. 0 : k \in DOMAIN WordsOf(line) /\ first.word[k] = WordsOf(line)[k]
    OBVIOUS
  <2>4. Len(first.word) = Cardinality(StartsBefore(line, first.backup))
    BY <1>2, <1>5, <2>1, <2>2
  <2>5. TokensRead(line, 0, first)
    BY <1>3, <1>4, <1>6, <2>1, <2>2, <2>3, <2>4 DEF TokensRead
  <2> QED  BY <2>5 DEF first
<1>7. CASE call.found
  <2>1. PICK i \in Starts(line) :
              /\ 1 <= i /\ \A j \in Starts(line) : 1 <= j => i <= j
              /\ call.word = WordAt(line, i)
              /\ i < call.backup
              /\ \A j \in Starts(line) : j < call.backup => j <= i
    BY <1>3, <1>7
  <2>2. call.backup \in Nat /\ 1 \in Nat
    BY <1>1, <1>3 DEF Held
  <2>3. 0 = Cardinality(StartsBefore(line, 1))
    BY <1>2, <1>5
  <2>4. /\ 0 + 1 \in DOMAIN WordsOf(line)
        /\ WordsOf(line)[0 + 1] = WordAt(line, i)
        /\ Cardinality(StartsBefore(line, call.backup)) = 0 + 1
    BY <2>1, <2>2, <2>3, NextWordIs
  <2>5. call.word \in Text
    BY <2>1, WordEnds
  <2>6. first.word \in Seq(Text) /\ Len(first.word) = 1 /\ first.word[1] = call.word
    BY <1>4, <1>7, <2>5
  <2>7. \A k \in 1 .. 1 : k \in DOMAIN WordsOf(line) /\ first.word[k] = WordsOf(line)[k]
    BY <2>1, <2>4, <2>6
  <2> QED  BY <1>3, <1>4, <1>7, <2>4, <2>6, <2>7 DEF TokensRead, first
<1> QED
  BY <1>3, <1>6, <1>7

\* The calls are the ones that the recursion of Tokens says.
LEMMA TokensIs ==
    ASSUME NEW buffer
    PROVE  \E next : /\ next[0] = FirstToken(buffer)
                     /\ \A n \in 1 .. MaxArguments : next[n] = NextToken(next[n - 1])
                     /\ Tokens(buffer) = next[MaxArguments]
<1> DEFINE Calls(f, m) == f = [n \in 0 .. m |-> IF n = 0 THEN FirstToken(buffer)
                                                ELSE NextToken(f[n - 1])]
           S == {m \in 0 .. MaxArguments : \E f : Calls(f, m)}
<1>1. MaxArguments \in Nat
  BY CommandLineConstants
<1>2. 0 \in S
  <2>1. Calls([n \in 0 .. 0 |-> FirstToken(buffer)], 0)
    OBVIOUS
  <2> HIDE DEF Calls
  <2> QED  BY <1>1, <2>1
<1>3. \A k \in 1 .. MaxArguments : k - 1 \in S => k \in S
  <2> TAKE k \in 1 .. MaxArguments
  <2> HAVE k - 1 \in S
  <2>1. PICK f : Calls(f, k - 1)
    OBVIOUS
  <2> DEFINE g == [n \in 0 .. k |-> IF n = k THEN NextToken(f[k - 1]) ELSE f[n]]
  <2>2. DOMAIN g = 0 .. k
    OBVIOUS
  <2>3. \A n \in 0 .. k : g[n] = IF n = 0 THEN FirstToken(buffer) ELSE NextToken(g[n - 1])
    <3> TAKE n \in 0 .. k
    <3>1. n \in Int /\ k \in Int /\ 0 <= n /\ n <= k /\ 1 <= k
      BY <1>1
    <3>2. CASE n = k
      <4>1. k - 1 \in 0 .. k /\ k - 1 # k /\ k \in 0 .. k /\ k # 0
        BY <3>1
      <4>2. g[k] = NextToken(f[k - 1]) /\ g[k - 1] = f[k - 1]
        BY <4>1
      <4> QED  BY <3>2, <4>1, <4>2
    <3>3. CASE n # k
      <4>1. n \in 0 .. k - 1 /\ (n # 0 => n - 1 \in 0 .. k /\ n - 1 # k)
        BY <3>1, <3>3
      <4>2. g[n] = f[n] /\ (n # 0 => g[n - 1] = f[n - 1])
        BY <3>3, <4>1
      <4>3. f[n] = IF n = 0 THEN FirstToken(buffer) ELSE NextToken(f[n - 1])
        BY <2>1, <4>1
      <4> QED  BY <4>2, <4>3
    <3> QED  BY <3>2, <3>3
  <2>4. Calls(g, k)
    <3> HIDE DEF g
    <3>1. g = [n \in 0 .. k |-> g[n]]
      BY <2>2 DEF g
    <3> QED  BY <2>3, <3>1
  <2>5. k \in 0 .. MaxArguments
    BY <1>1
  <2> HIDE DEF Calls, g
  <2> QED  BY <2>4, <2>5
<1>4. \E f : Calls(f, MaxArguments)
  <2>1. MaxArguments \in 0 .. MaxArguments
    BY <1>1
  <2> HIDE DEF S
  <2>2. MaxArguments \in S
    BY <1>1, <1>2, <1>3, <2>1, UpTo
  <2> HIDE DEF Calls
  <2> QED  BY <2>2 DEF S
<1> DEFINE next == CHOOSE f : Calls(f, MaxArguments)
<1>5. Calls(next, MaxArguments)
  <2> HIDE DEF Calls
  <2> QED  BY <1>4
<1>6. Tokens(buffer) = next[MaxArguments]
  BY DEF Tokens
<1> HIDE DEF next
<1>7. /\ next[0] = FirstToken(buffer)
      /\ \A n \in 1 .. MaxArguments : next[n] = NextToken(next[n - 1])
  <2>1. 0 \in 0 .. MaxArguments /\ \A n \in 1 .. MaxArguments : n \in 0 .. MaxArguments /\ n # 0
    BY <1>1
  <2> QED  BY <1>5, <2>1
<1> QED
  BY <1>6, <1>7

\* The words of the command are those of the line, as many as argv holds.
LEMMA TokensAreTheWords ==
    ASSUME NEW line \in Text, Len(line) < LineSize, NEW buffer, Held(line, buffer, 1)
    PROVE  /\ TokensRead(line, MaxArguments, Tokens(buffer))
           /\ Tokens(buffer).word
                = [i \in DOMAIN WordsOf(line) \cap 1 .. MaxArguments + 1 |-> WordsOf(line)[i]]
<1> DEFINE t == Tokens(buffer)
           words == WordsOf(line)
<1>1. MaxArguments \in Nat
  BY CommandLineConstants
<1>2. PICK next : /\ next[0] = FirstToken(buffer)
                  /\ \A n \in 1 .. MaxArguments : next[n] = NextToken(next[n - 1])
                  /\ t = next[MaxArguments]
  BY TokensIs
<1>3. TokensRead(line, MaxArguments, t)
  <2> DEFINE S == {n \in 0 .. MaxArguments : TokensRead(line, n, next[n])}
  <2>1. 0 \in S
    BY <1>1, <1>2, FirstTokenReads
  <2>2. \A k \in 1 .. MaxArguments : k - 1 \in S => k \in S
    <3> TAKE k \in 1 .. MaxArguments
    <3> HAVE k - 1 \in S
    <3>1. k - 1 \in Nat /\ (k - 1) + 1 = k /\ k \in 0 .. MaxArguments
      BY <1>1
    <3>2. TokensRead(line, k - 1, next[k - 1])
      OBVIOUS
    <3>3. TokensRead(line, (k - 1) + 1, NextToken(next[k - 1]))
      BY <3>1, <3>2, NextTokenReads
    <3> QED  BY <1>2, <3>1, <3>3
  <2>3. MaxArguments \in 0 .. MaxArguments
    BY <1>1
  <2> HIDE DEF S
  <2>4. MaxArguments \in S
    BY <1>1, <2>1, <2>2, <2>3, UpTo
  <2> QED  BY <1>2, <2>4 DEF S
<1> HIDE DEF t
<1>4. DOMAIN words = 1 .. Cardinality(Starts(line)) /\ Cardinality(Starts(line)) \in Nat
  BY StartsAreFinite DEF WordsOf
<1>5. t.word \in Seq(Text) /\ Len(t.word) \in Nat /\ DOMAIN t.word = 1 .. Len(t.word)
  BY <1>3 DEF TokensRead
<1>6. DOMAIN t.word = DOMAIN words \cap 1 .. MaxArguments + 1
  <2>1. CASE t.found
    <3>1. Len(t.word) = MaxArguments + 1 /\ MaxArguments + 1 \in DOMAIN words
      <4>1. Len(t.word) = MaxArguments + 1
        BY <1>3, <2>1 DEF TokensRead
      <4>2. Len(t.word) \in 1 .. Len(t.word)
        BY <1>1, <4>1
      <4> QED  BY <1>3, <4>1, <4>2 DEF TokensRead
    <3> HIDE DEF words
    <3> QED  BY <1>1, <1>4, <1>5, <3>1
  <2>2. CASE ~t.found
    <3>1. Len(t.word) <= MaxArguments /\ \A j \in Starts(line) : j < t.backup
      BY <1>3, <2>2 DEF TokensRead
    <3>2. StartsBefore(line, t.backup) = Starts(line)
      BY <3>1 DEF StartsBefore
    <3>3. Len(t.word) = Cardinality(Starts(line))
      BY <1>3, <3>2 DEF TokensRead
    <3> HIDE DEF words
    <3> QED  BY <1>1, <1>4, <1>5, <3>1, <3>3
  <2> QED  BY <1>3, <2>1, <2>2 DEF TokensRead
<1>7. \A k \in DOMAIN t.word : t.word[k] = words[k]
  BY <1>3, <1>5 DEF TokensRead
<1>8. t.word = [i \in DOMAIN words \cap 1 .. MaxArguments + 1 |-> words[i]]
  <2>1. t.word = [i \in DOMAIN t.word |-> t.word[i]]
    BY <1>5
  <2> HIDE DEF words
  <2> QED  BY <1>6, <1>7, <2>1
<1> QED
  BY <1>3, <1>8 DEF t
-----------------------------------------------------------------------------
(* The command and its arguments. *)

\* strcmp tells texts apart.
LEMMA StrcmpIsEquality ==
    ASSUME NEW s1 \in Text, NEW s2 \in Text
    PROVE  strcmp(s1, s2) = 0 <=> s1 = s2
<1> DEFINE n == Len(s1)
           Is(j) == /\ j = n + 1 \/ At(s2, j) # s1[j]
                    /\ \A k \in 1 .. j - 1 : At(s2, k) = s1[k]
           F == {j \in 1 .. n + 1 : j = n + 1 \/ At(s2, j) # s1[j]}
           i == CHOOSE j \in 1 .. n + 1 : Is(j)
<1>1. /\ n \in Nat /\ s1 \in Seq(STRING) /\ s2 \in Seq(STRING) /\ Len(s2) \in Nat
      /\ \A k \in 1 .. n : s1[k] # "nul"
      /\ \A k \in 1 .. Len(s2) : s2[k] # "nul"
  BY DEF Text
<1>2. PICK m \in F : \A k \in F : m <= k
  <2>1. n + 1 \in F /\ F \subseteq Nat
    BY <1>1
  <2> HIDE DEF F
  <2> QED  BY <2>1, LeastOf
<1>3. m \in 1 .. n + 1 /\ (m = n + 1 \/ At(s2, m) # s1[m])
  BY <1>2
<1>4. \A k \in 1 .. m - 1 : At(s2, k) = s1[k]
  <2> SUFFICES ASSUME NEW k \in 1 .. m - 1, At(s2, k) # s1[k]
               PROVE  FALSE
    OBVIOUS
  <2>1. k \in F
    BY <1>1, <1>3
  <2> HIDE DEF F
  <2> QED  BY <1>1, <1>2, <1>3, <2>1
<1>5. \A j \in 1 .. n + 1 : Is(j) <=> j = m
  <2> TAKE j \in 1 .. n + 1
  <2>1. j \in Int /\ m \in Int /\ n \in Int /\ 1 <= j /\ j <= n + 1 /\ 1 <= m /\ m <= n + 1
    BY <1>1, <1>3
  <2>2. CASE j < m
    <3>1. j \in 1 .. m - 1 /\ j # n + 1
      BY <2>1, <2>2
    <3> QED  BY <1>4, <2>2, <3>1
  <2>3. CASE m < j
    <3>1. m \in 1 .. j - 1 /\ m # n + 1
      BY <2>1, <2>3
    <3> QED  BY <1>3, <2>3, <3>1
  <2> QED  BY <1>3, <1>4, <2>1, <2>2, <2>3
<1>6. i = m
  <2> HIDE DEF Is
  <2> QED  BY <1>3, <1>5
<1>7. strcmp(s1, s2) = IF At(s1, m) = At(s2, m) THEN 0 ELSE 1
  BY <1>6 DEF strcmp
<1>8. CASE m = n + 1
  <2>1. At(s1, m) = "nul"
    BY <1>1, <1>8 DEF At
  <2>2. At(s2, m) = "nul" <=> Len(s2) <= n
    <3>1. n + 1 <= Len(s2) => n + 1 \in 1 .. Len(s2)
      BY <1>1
    <3> QED  BY <1>1, <1>8, <3>1 DEF At
  <2>3. ASSUME Len(s2) <= n
        PROVE  s1 = s2
    <3>1. \A k \in 1 .. n : k <= Len(s2) /\ s2[k] = s1[k]
      <4> TAKE k \in 1 .. n
      <4>1. k \in 1 .. m - 1
        BY <1>1, <1>8
      <4> QED  BY <1>1, <1>4, <4>1 DEF At
    <3>2. Len(s2) = n
      <4>1. n # 0 => n \in 1 .. n
        BY <1>1
      <4> QED  BY <1>1, <2>3, <3>1, <4>1
    <3> QED  BY <1>1, <3>1, <3>2, SeqEqual
  <2>4. s1 = s2 => Len(s2) <= n
    BY <1>1
  <2> QED  BY <1>7, <2>1, <2>2, <2>3, <2>4
<1>9. CASE m # n + 1
  <2>1. m \in 1 .. n /\ At(s2, m) # s1[m] /\ At(s1, m) = s1[m]
    BY <1>1, <1>3, <1>9 DEF At
  <2>2. s1 # s2
    BY <2>1
  <2> QED  BY <1>7, <2>1, <2>2
<1> QED
  BY <1>8, <1>9

\* The buffer up to ptr is what the screen shows; what is behind ptr is left
\* over from characters that were taken back.
LineInv ==
    /\ command \in [Buffer -> Letter]
    /\ shown \in Text /\ Len(shown) < LineSize
    /\ ptr = Len(shown) + 1
    /\ \A i \in 1 .. Len(shown) : command[i] = shown[i]

\* The newline ends the line in the buffer where it ends on the screen.
LEMMA LineIsHeld ==
    ASSUME LineInv
    PROVE  Held(shown, [command EXCEPT ![ptr] = "nul"], 1)
<1> DEFINE n == Len(shown)
           buffer == [command EXCEPT ![ptr] = "nul"]
<1>1. n \in Nat /\ n < LineSize /\ LineSize \in Nat /\ ptr = n + 1
  BY CommandLineConstants DEF LineInv, Text
<1>2. ptr \in Buffer /\ 1 \in 1 .. n + 1
  BY <1>1 DEF Buffer
<1>3. buffer \in [Buffer -> Letter] /\ buffer[ptr] = "nul"
  BY <1>2 DEF LineInv, Letter
<1>4. \A i \in 1 .. n : buffer[i] = shown[i]
  <2> TAKE i \in 1 .. n
  <2>1. i # ptr /\ i \in Buffer
    BY <1>1 DEF Buffer
  <2> QED  BY <2>1 DEF LineInv
<1> HIDE DEF buffer
<1>5. Held(shown, buffer, 1)
  BY <1>1, <1>2, <1>3, <1>4 DEF Held
<1> QED
  BY <1>5 DEF buffer

LEMMA PrefixesAreLines ==
    ASSUME NEW s \in Prefix
    PROVE  s \in Text /\ Len(s) < LineSize
<1>1. PICK l \in Line : \E k \in 0 .. Len(l) : s = SubSeq(l, 1, k)
  BY DEF Prefix, Prefixes
<1>7. PICK k \in 0 .. Len(l) : s = SubSeq(l, 1, k)
  BY <1>1
<1>2. l \in Text /\ Len(l) < LineSize /\ Len(l) \in Nat /\ l \in Seq(STRING) /\ LineSize \in Nat
  BY CommandLineConstants DEF Text
<1>3. \A i \in 1 .. k : l[i] \in STRING /\ l[i] # "nul"
  BY <1>2 DEF Text
<1>4. k \in Nat /\ 1 \in Int /\ k \in Int /\ k <= Len(l)
  BY <1>2
<1>5. /\ s \in Seq(STRING) /\ Len(s) = (IF 1 <= k THEN k - 1 + 1 ELSE 0)
      /\ \A i \in 1 .. k - 1 + 1 : s[i] = l[1 + i - 1]
  BY <1>3, <1>4, <1>7, SubSeqProperties
<1>6. Len(s) = k /\ \A i \in 1 .. k : s[i] = l[i]
  BY <1>4, <1>5
<1> QED
  BY <1>2, <1>3, <1>4, <1>5, <1>6 DEF Text

LEMMA InitLine == Init => LineInv
<1> SUFFICES ASSUME Init
             PROVE  LineInv
  OBVIOUS
<1>1. "nul" \in Letter /\ LineSize \in Nat \ {0}
  BY CommandLineConstants DEF Letter
<1>2. shown \in Text /\ Len(shown) = 0
  BY DEF Init, Text
<1> QED
  BY <1>1, <1>2 DEF Init, LineInv, Buffer

LEMMA NextLine == LineInv /\ [Next]_commandVars => LineInv'
<1> SUFFICES ASSUME LineInv, [Next]_commandVars
             PROVE  LineInv'
  OBVIOUS
<1>1. LineSize \in Nat \ {0} /\ Len(shown) \in Nat /\ shown \in Seq(STRING)
  BY CommandLineConstants DEF LineInv, Text
<1>2. CASE Newline
  <2>1. /\ command' = [i \in Buffer |-> "nul"] /\ ptr' = 1 /\ shown' = <<>>
    BY <1>2 DEF Newline
  <2>2. shown' \in Text /\ Len(shown') = 0 /\ command' \in [Buffer -> Letter]
    BY <2>1 DEF Text, Letter
  <2> QED  BY <1>1, <2>1, <2>2 DEF LineInv
<1>3. CASE Backspace
  <2> DEFINE n == Len(shown)
  <2>1. /\ shown' = SubSeq(shown, 1, n - 1) /\ ptr' = ptr - 1 /\ ptr > 1
        /\ command' = command
    BY <1>3 DEF Backspace, CanErase
  <2>2. n - 1 \in Nat /\ n \in Nat /\ ptr = n + 1
    BY <1>1, <2>1 DEF LineInv
  <2>3. \A i \in 1 .. n - 1 : shown[i] \in STRING /\ shown[i] # "nul"
    BY <1>1, <2>2 DEF LineInv, Text
  <2>4. /\ shown' \in Seq(STRING) /\ Len(shown') = n - 1
        /\ \A i \in 1 .. n - 1 : shown'[i] = shown[i]
    BY <1>1, <2>1, <2>2
  <2>5. shown' \in Text
    BY <2>3, <2>4 DEF Text
  <2>6. \A i \in 1 .. n - 1 : command[i] = shown[i]
    BY <2>2 DEF LineInv
  <2> QED  BY <1>1, <2>1, <2>2, <2>4, <2>5, <2>6 DEF LineInv
<1>4. ASSUME NEW ch \in Character, Type(ch)
      PROVE  LineInv'
  <2> DEFINE n == Len(shown)
  <2>1. /\ shown' = Append(shown, ch) /\ shown' \in Prefix
        /\ command' = [command EXCEPT ![ptr] = ch] /\ ptr' = ptr + 1
    BY <1>4 DEF Type
  <2>2. shown' \in Text /\ Len(shown') < LineSize
    BY <2>1, PrefixesAreLines
  <2>3. /\ Len(shown') = n + 1 /\ shown'[n + 1] = ch /\ \A i \in 1 .. n : shown'[i] = shown[i]
        /\ ptr = n + 1
    BY <1>1, <2>1 DEF LineInv
  <2>4. ch \in STRING
    <3>1. n + 1 \in 1 .. Len(shown')
      BY <1>1, <2>3
    <3>2. shown' \in Seq(STRING)
      BY <2>2 DEF Text
    <3> QED  BY <2>3, <3>1, <3>2, ElementOfSeq
  <2>5. command' \in [Buffer -> Letter]
    BY <2>1, <2>4 DEF LineInv, Letter
  <2>6. \A i \in 1 .. n + 1 : command'[i] = shown'[i]
    <3> TAKE i \in 1 .. n + 1
    <3>1. i \in Buffer
      BY <1>1, <2>2, <2>3 DEF Buffer
    <3>2. CASE i = n + 1
      BY <2>1, <2>3, <3>1, <3>2 DEF LineInv
    <3>3. CASE i # n + 1
      <4>1. i \in 1 .. n
        BY <1>1, <3>3
      <4> QED  BY <2>1, <2>3, <3>1, <3>3, <4>1 DEF LineInv
    <3> QED  BY <3>2, <3>3
  <2> QED  BY <1>1, <2>1, <2>2, <2>3, <2>5, <2>6 DEF LineInv
<1>5. CASE UNCHANGED commandVars
  BY <1>5 DEF LineInv, commandVars
<1> QED
  BY <1>2, <1>3, <1>4, <1>5 DEF Next

\* The command that is executed is that of the line on the screen.
LEMMA TheCommandIsTheLines ==
    ASSUME LineInv, handle_command([command EXCEPT ![ptr] = "nul"])
    PROVE  TheLineIsExecuted'
<1> DEFINE buffer == [command EXCEPT ![ptr] = "nul"]
           t == Tokens(buffer)
           words == WordsOf(shown)
           names == NameOf(t.word[1])
           name == IF names = {} THEN "not found" ELSE CHOOSE c \in names : TRUE
<1>1. Held(shown, buffer, 1) /\ shown \in Text /\ Len(shown) < LineSize
  BY LineIsHeld DEF LineInv
<1>2. /\ strtok(buffer, 1).found => Starts(shown) # {}
      /\ ~strtok(buffer, 1).found => \A j \in Starts(shown) : j < 1
  <2>1. TakesNextWord(shown, 1, strtok(buffer, 1))
    BY <1>1, StrtokTakesTheNextWord
  <2> HIDE DEF buffer
  <2> QED  BY <2>1 DEF TakesNextWord
<1>3. /\ Starts(shown) \subseteq 1 .. Len(shown) /\ Len(shown) \in Nat
      /\ IsFiniteSet(Starts(shown)) /\ Cardinality(Starts(shown)) \in Nat
  BY <1>1, StartsAreFinite
<1>4. DOMAIN words = 1 .. Cardinality(Starts(shown))
  BY DEF WordsOf
<1>5. MaxArguments \in Nat
  BY CommandLineConstants
<1> HIDE DEF words
<1>6. CASE IsEmptyLine(buffer)
  <2>1. /\ did'.name = "empty" /\ did'.line = shown /\ did'.words = <<>>
    BY <1>6 DEF handle_command, Nothing
  <2>2. Starts(shown) = {}
    <3>1. CASE buffer[1] = "nul"
      <4>1. \A i \in Starts(shown) : FALSE
        <5> SUFFICES ASSUME NEW i \in Starts(shown)
                     PROVE  FALSE
          OBVIOUS
        <5>1. 1 \in 1 .. Len(shown)
          BY <1>3
        <5>2. buffer[1] = shown[1]
          BY <1>1, <5>1 DEF Held
        <5> QED  BY <1>1, <3>1, <5>1, <5>2 DEF Text
      <4> QED  BY <4>1
    <3>2. CASE ~strtok(buffer, 1).found
      <4>1. \A i \in Starts(shown) : FALSE
        BY <1>2, <1>3, <3>2
      <4> QED  BY <4>1
    <3> QED  BY <1>6, <3>1, <3>2 DEF IsEmptyLine
  <2>3. DOMAIN words = {}
    <3>1. Cardinality(Starts(shown)) = 0
      BY <2>2, FS_EmptySet
    <3> QED  BY <1>4, <3>1
  <2>4. did'.words = [i \in DOMAIN words \cap 1 .. MaxArguments + 1 |-> words[i]]
    BY <2>1, <2>3
  <2>5. did'.name \notin Command /\ did'.name # "not found"
    BY <2>1 DEF Command
  <2> QED  BY <2>1, <2>4, <2>5 DEF TheLineIsExecuted, words
<1>7. CASE ~IsEmptyLine(buffer)
  <2>9. \E config, outcome : did' = [name |-> name, line |-> shown, words |-> t.word,
                                     bus |-> config, printed |-> outcome.printed]
    BY <1>7 DEF handle_command
  <2> HIDE DEF name, t
  <2>1. /\ did'.name = name /\ did'.line = shown /\ did'.words = t.word
    BY <2>9
  <2>2. t.word = [i \in DOMAIN words \cap 1 .. MaxArguments + 1 |-> words[i]]
    BY <1>1, TokensAreTheWords DEF words, t
  <2>3. 1 \in DOMAIN words \cap 1 .. MaxArguments + 1
    <3>1. Starts(shown) # {}
      BY <1>2, <1>7 DEF IsEmptyLine
    <3>2. Cardinality(Starts(shown)) # 0
      BY <1>3, <3>1, FS_EmptySet
    <3> QED  BY <1>3, <1>4, <1>5, <3>2
  <2>4. t.word[1] = words[1]
    BY <2>2, <2>3
  <2>5. words[1] \in Text
    <3>1. TokensRead(shown, MaxArguments, t)
      BY <1>1, TokensAreTheWords DEF t
    <3>2. t.word \in Seq(Text)
      BY <3>1 DEF TokensRead
    <3>4. DOMAIN t.word = 1 .. Len(t.word)
      BY <3>2
    <3>5. DOMAIN t.word = DOMAIN words \cap 1 .. MaxArguments + 1
      BY <2>2
    <3>3. 1 \in 1 .. Len(t.word)
      BY <2>3, <3>4, <3>5
    <3> QED  BY <2>4, <3>2, <3>3, ElementOfSeq
  <2>6. names = {c \in Command : words[1] = CommandName[c]}
    <3>1. \A c \in Command : CommandName[c] \in Text
      BY CommandLineConstants
    <3> HIDE DEF Command
    <3>2. \A c \in Command : strcmp(t.word[1], CommandName[c]) = 0 <=> words[1] = CommandName[c]
      BY <2>4, <2>5, <3>1, StrcmpIsEquality
    <3> QED  BY <3>2 DEF NameOf
  <2>7. "not found" \notin Command
    BY DEF Command
  <2> HIDE DEF names
  <2>8. /\ name \in Command => words[1] = CommandName[name]
        /\ name = "not found" => \A c \in Command : words[1] # CommandName[c]
    <3>1. CASE names = {}
      BY <2>6, <2>7, <3>1 DEF name
    <3>2. CASE names # {}
      <4>1. name \in names
        BY <3>2 DEF name
      <4> QED  BY <2>6, <2>7, <4>1
    <3> QED  BY <3>1, <3>2
  <2> QED  BY <2>1, <2>2, <2>8 DEF TheLineIsExecuted, words
<1> QED
  BY <1>6, <1>7

\* TheLineIsExecuted (main.c lines 38-57 and 141-171, stdlib.c lines 205-239):
\* whatever was typed and taken back, and whatever strtok remembers, the
\* command and the words are those of the line on the screen.
THEOREM TheLineOnTheScreenIsExecuted == Spec => []TheLineIsExecuted
<1>1. Init => LineInv /\ TheLineIsExecuted
  BY InitLine DEF Init, TheLineIsExecuted
<1>2. ASSUME LineInv, TheLineIsExecuted, [Next]_commandVars
      PROVE  LineInv' /\ TheLineIsExecuted'
  <2>1. LineInv'
    BY <1>2, NextLine
  <2>2. CASE Newline
    BY <1>2, <2>1, <2>2, TheCommandIsTheLines DEF Newline
  <2>3. CASE Backspace
    BY <2>1, <2>3 DEF Backspace, TheLineIsExecuted
  <2>4. ASSUME NEW ch \in Character, Type(ch)
        PROVE  TheLineIsExecuted'
    BY <2>4 DEF Type, TheLineIsExecuted
  <2>5. CASE UNCHANGED commandVars
    BY <1>2, <2>1, <2>5 DEF TheLineIsExecuted, commandVars
  <2> QED
    BY <1>2, <2>1, <2>2, <2>3, <2>4, <2>5 DEF Next
<1> QED
  BY <1>1, <1>2, PTL DEF Spec
-----------------------------------------------------------------------------
(* Numbers: words of the machine, digits, and loops over digits. *)

LEMMA WordIs == Word \in {256, 256 * 256, 256 * 256 * 256 * 256}
  BY IntAssumption DEF Word

LEMMA IntLimits ==
    /\ Word \in Nat \ {0} /\ INT_MAX \in Nat /\ INT_MIN \in Int
    /\ Word = 2 * INT_MAX + 2 /\ INT_MIN = -INT_MAX - 1 /\ INT_MAX % 10 = 7 /\ INT_MAX >= 127
  BY WordIs DEF INT_MAX, INT_MIN

\* A remainder, by what it is the remainder of.
LEMMA RemainderIs ==
    ASSUME NEW n \in Nat \ {0}, NEW q \in Int, NEW r \in 0 .. n - 1, NEW v \in Int, v = n * q + r
    PROVE  v % n = r
OBVIOUS

LEMMA DivisionIs ==
    ASSUME NEW n \in Nat \ {0}, NEW v \in Int
    PROVE  /\ v \div n \in Int /\ v % n \in 0 .. n - 1
           /\ v = n * (v \div n) + (v % n)
OBVIOUS

LEMMA UnsignedIs ==
    ASSUME NEW v \in Int
    PROVE  /\ Unsigned(v) \in 0 .. Word - 1
           /\ v \in 0 .. Word - 1 => Unsigned(v) = v
           /\ Signed(v) \in Int /\ Unsigned(Signed(v)) = Unsigned(v)
           /\ Unsigned(Unsigned(v)) = Unsigned(v)
<1> DEFINE r == v % Word
<1>1. r \in 0 .. Word - 1 /\ Word \in Nat \ {0}
  BY IntLimits
<1>2. ASSUME NEW x \in 0 .. Word - 1
      PROVE  x % Word = x /\ (x - Word) % Word = x
  <2>1. x = Word * 0 + x /\ x - Word = Word * (-1) + x /\ x \in Int /\ x - Word \in Int
    BY <1>1
  <2> QED  BY <1>1, <2>1, RemainderIs
<1>3. Signed(v) \in {r, r - Word}
  BY DEF Signed
<1>4. Unsigned(v) = r /\ Unsigned(r) = r /\ Unsigned(Signed(v)) = r
  BY <1>1, <1>2, <1>3 DEF Unsigned
<1>5. v \in 0 .. Word - 1 => r = v
  BY <1>2
<1>6. Signed(v) \in Int
  BY <1>1, <1>3
<1> QED
  BY <1>1, <1>4, <1>5, <1>6

\* Numbers that are equal in a word stay so when a digit or a sign is added.
LEMMA SameInAWord ==
    ASSUME NEW a \in Int, NEW b \in Int, Unsigned(a) = Unsigned(b), NEW d \in Int
    PROVE  /\ Unsigned(16 * a + d) = Unsigned(16 * b + d)
           /\ Unsigned(-a) = Unsigned(-b)
<1> DEFINE r == a % Word
           p == a \div Word
           q == b \div Word
           x == 16 * r + d
           y == -r
<1>1. Word \in Nat \ {0}
  BY IntLimits
<1>2. /\ r \in Int /\ p \in Int /\ q \in Int
      /\ a = Word * p + r /\ b = Word * q + r
  BY <1>1, DivisionIs DEF Unsigned
<1> HIDE DEF r, p, q
<1>3. ASSUME NEW m \in {16, -1}, NEW e \in Int
      PROVE  (m * a + e) % Word = (m * b + e) % Word
  <2> DEFINE z == m * r + e
             k == z \div Word
             s == z % Word
  <2>1. z \in Int /\ k \in Int /\ s \in 0 .. Word - 1 /\ z = Word * k + s
    BY <1>1, <1>2, DivisionIs
  <2>2. m * a + e = m * (Word * p) + z /\ m * b + e = m * (Word * q) + z
    BY <1>1, <1>2
  <2> HIDE DEF z, k, s
  <2> DEFINE f == m * p + k
             g == m * q + k
             v == m * a + e
             w == m * b + e
  <2>3. v = Word * f + s /\ w = Word * g + s
    BY <1>1, <1>2, <2>1, <2>2
  <2>4. f \in Int /\ g \in Int /\ v \in Int /\ w \in Int
    BY <1>1, <1>2, <2>1
  <2> HIDE DEF f, g, v, w
  <2>5. v % Word = s /\ w % Word = s
    BY <1>1, <2>1, <2>3, <2>4, RemainderIs
  <2> QED  BY <2>5 DEF v, w
<1>4. (16 * a + d) % Word = (16 * b + d) % Word
  BY <1>3
<1>5. ((-1) * a + 0) % Word = ((-1) * b + 0) % Word
  <2>1. -1 \in {16, -1} /\ 0 \in Int
    OBVIOUS
  <2> QED  BY <1>3, <2>1, Zenon
<1>6. (-1) * a + 0 = -a /\ (-1) * b + 0 = -b
  OBVIOUS
<1> QED
  BY <1>4, <1>5, <1>6 DEF Unsigned

LEMMA DigitsDiffer ==
    ASSUME NEW i \in 1 .. 16, NEW j \in 1 .. 16, Digit[i] = Digit[j]
    PROVE  i = j
  BY DEF Digit

LEMMA DigitIs ==
    ASSUME NEW d \in 0 .. 15
    PROVE  DigitChar(d) \in HexDigit /\ DigitValue(DigitChar(d)) = d
<1>1. \A e \in 0 .. 15 : DigitChar(e) = DigitChar(d) => e = d
  <2> TAKE e \in 0 .. 15
  <2> HAVE DigitChar(e) = DigitChar(d)
  <2>1. e + 1 = d + 1
    BY DigitsDiffer DEF DigitChar
  <2> QED  BY <2>1
<1>2. DigitValue(DigitChar(d)) = d
  BY <1>1 DEF DigitValue
<1>3. DigitChar(d) \in HexDigit
  BY DEF DigitChar, HexDigit
<1> QED
  BY <1>2, <1>3

LEMMA ValueIs ==
    ASSUME NEW c \in HexDigit
    PROVE  /\ DigitValue(c) \in 0 .. 15
           /\ isdigit(c) => DigitValue(c) \in 0 .. 9
<1>1. PICK i \in 1 .. 16 : c = Digit[i]
  BY DEF HexDigit
<1>2. c = DigitChar(i - 1) /\ i - 1 \in 0 .. 15
  BY <1>1 DEF DigitChar
<1>3. DigitValue(c) = i - 1
  BY <1>2, DigitIs
<1>4. ASSUME isdigit(c)
      PROVE  i \in 1 .. 10
  <2>1. PICK j \in 1 .. 10 : c = Digit[j]
    BY <1>4 DEF isdigit, Decimal
  <2>2. j \in 1 .. 16 /\ Digit[i] = Digit[j]
    BY <1>1, <2>1
  <2>3. i = j
    BY <2>2, DigitsDiffer
  <2> QED  BY <2>3
<1> QED
  BY <1>2, <1>3, <1>4

\* No digit is one of the characters that the readers look for.
LEMMA DigitsAreNoSigns ==
    ASSUME NEW c \in HexDigit
    PROVE  /\ c \notin {"-", "+", "x", "nul", "tab", "newline"} /\ c # Blank
<1>1. PICK i \in 1 .. 16 : c = Digit[i]
  BY DEF HexDigit
<1>2. c \notin {"-", "+", "x", "nul", "tab", "newline"}
  BY <1>1 DEF Digit
<1>3. c # Blank
  <2>1. \/ i = 1 \/ i = 2 \/ i = 3 \/ i = 4 \/ i = 5 \/ i = 6 \/ i = 7 \/ i = 8
        \/ i = 9 \/ i = 10 \/ i = 11 \/ i = 12 \/ i = 13 \/ i = 14 \/ i = 15 \/ i = 16
    OBVIOUS
  <2>2. c \in {"0", "1", "2", "3", "4", "5", "6", "7", "8", "9", "a", "b", "c", "d", "e", "f"}
    BY <1>1, <2>1 DEF Digit
  <2> QED  BY <2>2, Zenon DEF Blank
<1> QED
  BY <1>2, <1>3

\* What a loop over the numbers from 1 to n computes, from a on.
LoopsOf(n, V, a, step) ==
    {f \in [0 .. n -> V] : f[0] = a /\ \A k \in 1 .. n : f[k] = step[<<k, f[k - 1]>>]}

LEMMA LoopRuns ==
    ASSUME NEW n \in Nat, NEW V, NEW a \in V, NEW step \in [(1 .. n) \X V -> V]
    PROVE  LoopsOf(n, V, a, step) # {}
<1> DEFINE Runs(f, m) == f[0] = a /\ \A k \in 1 .. m : f[k] = step[<<k, f[k - 1]>>]
           S == {m \in 0 .. n : \E f \in [0 .. m -> V] : Runs(f, m)}
<1>1. 0 \in S
  <2>1. [k \in 0 .. 0 |-> a] \in [0 .. 0 -> V] /\ Runs([k \in 0 .. 0 |-> a], 0)
    OBVIOUS
  <2> HIDE DEF Runs
  <2> QED  BY <2>1
<1>2. \A m \in 1 .. n : m - 1 \in S => m \in S
  <2> TAKE m \in 1 .. n
  <2> HAVE m - 1 \in S
  <2>1. PICK f \in [0 .. m - 1 -> V] : Runs(f, m - 1)
    OBVIOUS
  <2> DEFINE g == [k \in 0 .. m |-> IF k = m THEN step[<<m, f[m - 1]>>] ELSE f[k]]
  <2>2. m - 1 \in 0 .. m - 1 /\ m \in Nat /\ m # 0 /\ m \in 0 .. n
    OBVIOUS
  <2>3. step[<<m, f[m - 1]>>] \in V
    BY <2>1, <2>2
  <2>4. g \in [0 .. m -> V]
    <3>1. \A k \in 0 .. m : k # m => f[k] \in V
      <4> TAKE k \in 0 .. m
      <4> HAVE k # m
      <4>1. k \in 0 .. m - 1
        BY <2>2
      <4> QED  BY <2>1, <4>1
    <3> QED  BY <2>3, <3>1
  <2>5. g[0] = a
    BY <2>1, <2>2
  <2>6. \A k \in 1 .. m : g[k] = step[<<k, g[k - 1]>>]
    <3> TAKE k \in 1 .. m
    <3>1. k \in 0 .. m /\ k - 1 \in 0 .. m /\ k - 1 # m
      BY <2>2
    <3>2. CASE k = m
      BY <3>1, <3>2
    <3>3. CASE k # m
      <4>1. k \in 1 .. m - 1
        BY <2>2, <3>3
      <4> QED  BY <2>1, <3>1, <3>3, <4>1
    <3> QED  BY <3>2, <3>3
  <2> HIDE DEF g
  <2>7. Runs(g, m)
    BY <2>5, <2>6
  <2> HIDE DEF Runs
  <2> QED  BY <2>2, <2>4, <2>7
<1>3. n \in 0 .. n
  OBVIOUS
<1> HIDE DEF S
<1>4. n \in S
  BY <1>1, <1>2, <1>3, UpTo
<1> HIDE DEF Runs
<1>5. \E f \in [0 .. n -> V] : Runs(f, n)
  BY <1>4 DEF S
<1> QED
  BY <1>5 DEF Runs, LoopsOf
-----------------------------------------------------------------------------
(* The readers of numbers. *)

\* A loop that skips characters stops, at the end of the text at the latest.
LEMMA SkipAllIs ==
    ASSUME NEW s, Len(s) \in Nat, NEW i \in 1 .. Len(s) + 1, NEW C, "nul" \notin C
    PROVE  /\ SkipAll(s, i, C) \in i .. Len(s) + 1
           /\ At(s, SkipAll(s, i, C)) \notin C
           /\ \A k \in i .. SkipAll(s, i, C) - 1 : s[k] \in C
<1> DEFINE Is(j) == At(s, j) \notin C /\ \A k \in i .. j - 1 : s[k] \in C
           F == {j \in i .. Len(s) + 1 : At(s, j) \notin C}
<1>1. PICK m \in F : \A k \in F : m <= k
  <2>1. Len(s) + 1 \in F /\ F \subseteq Nat
    BY DEF At
  <2> HIDE DEF F
  <2> QED  BY <2>1, LeastOf
<1>2. m \in i .. Len(s) + 1 /\ Is(m)
  <2>1. m \in i .. Len(s) + 1 /\ At(s, m) \notin C
    BY <1>1
  <2>2. ASSUME NEW k \in i .. m - 1, s[k] \notin C
        PROVE  FALSE
    <3>1. k \in F
      BY <2>1, <2>2 DEF At
    <3> HIDE DEF F
    <3> QED  BY <1>1, <2>1, <3>1
  <2> QED  BY <2>1, <2>2
<1>3. SkipAll(s, i, C) = CHOOSE j \in i .. Len(s) + 1 : Is(j)
  BY DEF SkipAll
<1>4. SkipAll(s, i, C) \in i .. Len(s) + 1 /\ Is(SkipAll(s, i, C))
  <2> HIDE DEF Is
  <2> QED  BY <1>2, <1>3
<1> QED
  BY <1>4

\* The value that a sequence of digits stands for is found digit by digit.
LEMMA PositionalIs ==
    ASSUME NEW base \in Nat, NEW d \in Seq(HexDigit)
    PROVE  \E value \in [0 .. Len(d) -> Nat] :
              /\ value[0] = 0
              /\ \A k \in 1 .. Len(d) : value[k] = base * value[k - 1] + DigitValue(d[k])
              /\ Positional(base, d) = value[Len(d)]
<1> DEFINE n == Len(d)
           step == [p \in (1 .. n) \X Nat |-> base * p[2] + DigitValue(d[p[1]])]
           Is(f) == f = [k \in 0 .. n |-> IF k = 0 THEN 0
                                          ELSE base * f[k - 1] + DigitValue(d[k])]
           value == CHOOSE f : Is(f)
<1>1. n \in Nat /\ \A k \in 1 .. n : DigitValue(d[k]) \in Nat
  BY ValueIs, ElementOfSeq
<1>2. PICK f \in [0 .. n -> Nat] : f[0] = 0 /\ \A k \in 1 .. n : f[k] = step[<<k, f[k - 1]>>]
  <2>1. \A a \in 1 .. n, v \in Nat : base * v + DigitValue(d[a]) \in Nat
    BY <1>1
  <2>2. \A p \in (1 .. n) \X Nat : base * p[2] + DigitValue(d[p[1]]) \in Nat
    BY <2>1
  <2>3. step \in [(1 .. n) \X Nat -> Nat]
    BY <2>2
  <2>4. 0 \in Nat
    OBVIOUS
  <2> HIDE DEF step, n
  <2>5. LoopsOf(n, Nat, 0, step) # {}
    BY <1>1, <2>3, <2>4, LoopRuns, Zenon
  <2> QED  BY <2>5 DEF LoopsOf
<1>3. Is(f)
  <2>1. \A k \in 1 .. n : f[k] = base * f[k - 1] + DigitValue(d[k])
    <3> TAKE k \in 1 .. n
    <3>1. k - 1 \in 0 .. n
      BY <1>1
    <3>2. <<k, f[k - 1]>> \in (1 .. n) \X Nat
      BY <1>2, <3>1
    <3> QED  BY <1>2, <3>2
  <2>2. \A k \in 0 .. n : f[k] = IF k = 0 THEN 0 ELSE base * f[k - 1] + DigitValue(d[k])
    <3> TAKE k \in 0 .. n
    <3>1. k # 0 => k \in 1 .. n
      BY <1>1
    <3> QED  BY <1>2, <2>1, <3>1
  <2>3. f = [k \in 0 .. n |-> f[k]]
    BY <1>2
  <2> QED  BY <2>2, <2>3
<1>4. Is(value)
  <2> HIDE DEF Is
  <2> QED  BY <1>3
<1>5. Positional(base, d) = value[n]
  BY DEF Positional
<1> HIDE DEF value
<1>6. /\ value[0] = 0
      /\ \A k \in 1 .. n : value[k] = base * value[k - 1] + DigitValue(d[k])
  <2>1. 0 \in 0 .. n /\ \A k \in 1 .. n : k \in 0 .. n /\ k # 0
    BY <1>1
  <2> QED  BY <1>4, <2>1
<1>7. \A k \in 0 .. n : value[k] \in Nat
  <2> DEFINE S == {k \in 0 .. n : value[k] \in Nat}
  <2>1. 0 \in S
    BY <1>1, <1>6
  <2>2. \A k \in 1 .. n : k - 1 \in S => k \in S
    <3> TAKE k \in 1 .. n
    <3> HAVE k - 1 \in S
    <3>1. k \in 0 .. n /\ value[k - 1] \in Nat
      BY <1>1
    <3>2. base * value[k - 1] \in Nat /\ DigitValue(d[k]) \in Nat
      BY <1>1, <3>1
    <3>3. value[k] \in Nat
      BY <1>6, <3>2
    <3> QED  BY <3>1, <3>3
  <2> HIDE DEF S
  <2>3. \A k \in 0 .. n : k \in S
    BY <1>1, <2>1, <2>2, UpTo
  <2> QED  BY <2>3 DEF S
<1>8. value \in [0 .. n -> Nat]
  <2>1. value = [k \in 0 .. n |-> value[k]]
    BY <1>4
  <2> QED  BY <1>7, <2>1
<1> QED
  BY <1>5, <1>6, <1>8

\* strtoi's loop, in the width of a word.
LEMMA HexIsRead ==
    ASSUME NEW d \in Seq(HexDigit)
    PROVE  ReadHex(d) \in Int /\ Unsigned(ReadHex(d)) = Unsigned(Positional(16, d))
<1> DEFINE n == Len(d)
           step == [p \in (1 .. n) \X Int |-> Signed(16 * p[2] + DigitValue(d[p[1]]))]
           Is(f) == f = [k \in 0 .. n |-> IF k = 0 THEN 0
                                          ELSE Signed(16 * f[k - 1] + DigitValue(d[k]))]
           result == CHOOSE f : Is(f)
<1>1. n \in Nat /\ \A k \in 1 .. n : DigitValue(d[k]) \in Int
  <2>1. \A k \in 1 .. n : d[k] \in HexDigit
    BY ElementOfSeq
  <2>2. \A k \in 1 .. n : DigitValue(d[k]) \in 0 .. 15
    BY <2>1, ValueIs
  <2> QED  BY <2>2
<1>2. PICK value \in [0 .. n -> Nat] :
         /\ value[0] = 0
         /\ \A k \in 1 .. n : value[k] = 16 * value[k - 1] + DigitValue(d[k])
         /\ Positional(16, d) = value[n]
  BY PositionalIs
<1>3. PICK f \in [0 .. n -> Int] : f[0] = 0 /\ \A k \in 1 .. n : f[k] = step[<<k, f[k - 1]>>]
  <2>1. \A p \in (1 .. n) \X Int : 16 * p[2] + DigitValue(d[p[1]]) \in Int
    BY <1>1
  <2>2. \A p \in (1 .. n) \X Int : Signed(16 * p[2] + DigitValue(d[p[1]])) \in Int
    BY <2>1, UnsignedIs
  <2>3. step \in [(1 .. n) \X Int -> Int] /\ 0 \in Int
    BY <2>2
  <2> HIDE DEF step, n
  <2>4. LoopsOf(n, Int, 0, step) # {}
    BY <1>1, <2>3, LoopRuns, Zenon
  <2> QED  BY <2>4 DEF LoopsOf
<1>4. Is(f)
  <2>1. \A k \in 1 .. n : f[k] = Signed(16 * f[k - 1] + DigitValue(d[k]))
    <3> TAKE k \in 1 .. n
    <3>1. k - 1 \in 0 .. n
      BY <1>1
    <3>2. <<k, f[k - 1]>> \in (1 .. n) \X Int
      BY <1>3, <3>1
    <3> QED  BY <1>3, <3>2
  <2>2. \A k \in 0 .. n : f[k] = IF k = 0 THEN 0 ELSE Signed(16 * f[k - 1] + DigitValue(d[k]))
    <3> TAKE k \in 0 .. n
    <3>1. k # 0 => k \in 1 .. n
      BY <1>1
    <3> QED  BY <1>3, <2>1, <3>1
  <2>3. f = [k \in 0 .. n |-> f[k]]
    BY <1>3
  <2> QED  BY <2>2, <2>3
<1>5. Is(result)
  <2> HIDE DEF Is
  <2> QED  BY <1>4
<1>6. ReadHex(d) = result[n]
  BY DEF ReadHex
<1> HIDE DEF result
<1>7. /\ result[0] = 0
      /\ \A k \in 1 .. n : result[k] = Signed(16 * result[k - 1] + DigitValue(d[k]))
  <2>1. 0 \in 0 .. n /\ \A k \in 1 .. n : k \in 0 .. n /\ k # 0
    BY <1>1
  <2> QED  BY <1>5, <2>1
<1> DEFINE T == {k \in 0 .. n : result[k] \in Int /\ Unsigned(result[k]) = Unsigned(value[k])}
<1>8. 0 \in T
  BY <1>1, <1>2, <1>7
<1>9. \A k \in 1 .. n : k - 1 \in T => k \in T
  <2> TAKE k \in 1 .. n
  <2> HAVE k - 1 \in T
  <2> DEFINE r == result[k - 1]
             v == value[k - 1]
             x == DigitValue(d[k])
  <2>1. r \in Int /\ Unsigned(r) = Unsigned(v)
    OBVIOUS
  <2>2. v \in Int /\ x \in Int /\ k \in 0 .. n
    <3>1. k - 1 \in 0 .. n
      BY <1>1
    <3>2. v \in Nat
      BY <1>2, <3>1
    <3> QED  BY <1>1, <3>2
  <2>3. result[k] = Signed(16 * r + x) /\ value[k] = 16 * v + x
    BY <1>2, <1>7
  <2> HIDE DEF r, v, x
  <2>4. Unsigned(16 * r + x) = Unsigned(16 * v + x)
    BY <2>1, <2>2, SameInAWord
  <2>5. Signed(16 * r + x) \in Int /\ Unsigned(Signed(16 * r + x)) = Unsigned(16 * r + x)
    <3>1. 16 * r + x \in Int
      BY <2>1, <2>2
    <3> QED  BY <3>1, UnsignedIs
  <2> QED  BY <2>2, <2>3, <2>4, <2>5
<1> HIDE DEF T
<1>10. n \in T
  <2>1. n \in 0 .. n
    BY <1>1
  <2> QED  BY <1>1, <1>8, <1>9, <2>1, UpTo
<1> QED
  BY <1>2, <1>6, <1>10 DEF T

\* The parts of a number that was typed.
LEMMA NumberIs ==
    ASSUME NEW X, NEW w \in Seq(X), NEW C, C \subseteq HexDigit, Unsign(w) # <<>>,
           \A i \in 1 .. Len(Unsign(w)) : Unsign(w)[i] \in C,
           NEW B, B \subseteq {Blank, "tab", "newline"}
    PROVE  LET first == IF At(w, 1) \in {"-", "+"} THEN 2 ELSE 1
           IN  /\ SkipAll(w, 1, B) = 1
               /\ SkipAll(w, first, C) = Len(w) + 1
               /\ SubSeq(w, first, (Len(w) + 1) - 1) = Unsign(w)
               /\ Unsign(w) \in Seq(C)
               /\ At(w, first + 1) # "x"
<1> DEFINE u == Unsign(w)
           first == IF At(w, 1) \in {"-", "+"} THEN 2 ELSE 1
<1>1. Len(w) \in Nat
  OBVIOUS
<1>2. w # <<>> /\ Len(w) # 0
  BY <1>1 DEF Unsign, At
<1>3. /\ At(w, 1) = w[1]
      /\ u = IF w[1] = "-" THEN Tail(w) ELSE w
  BY <1>1, <1>2 DEF At, Unsign
<1>4. /\ u \in Seq(X)
      /\ Len(u) = IF w[1] = "-" THEN Len(w) - 1 ELSE Len(w)
      /\ \A i \in 1 .. Len(u) : u[i] = IF w[1] = "-" THEN w[i + 1] ELSE w[i]
  <2>1. /\ Tail(w) \in Seq(X) /\ Len(Tail(w)) = Len(w) - 1
        /\ \A i \in 1 .. Len(Tail(w)) : Tail(w)[i] = w[i + 1]
    BY <1>1, <1>2, HeadTailProperties
  <2>2. CASE w[1] = "-"
    BY <1>3, <2>1, <2>2
  <2>3. CASE w[1] # "-"
    BY <1>1, <1>3, <2>3
  <2> QED  BY <2>2, <2>3
<1>5. first = IF w[1] = "-" THEN 2 ELSE 1
  <2>1. ASSUME w[1] # "-"
        PROVE  w[1] # "+"
    <3>1. 1 \in 1 .. Len(u) /\ u[1] = w[1]
      BY <1>1, <1>2, <1>4, <2>1
    <3> QED  BY <3>1, DigitsAreNoSigns
  <2> QED  BY <1>3, <2>1
<1>6. \A i \in first .. Len(w) : w[i] \in C
  <2> TAKE i \in first .. Len(w)
  <2>1. CASE w[1] = "-"
    <3>1. i - 1 \in 1 .. Len(u) /\ u[i - 1] = w[(i - 1) + 1] /\ (i - 1) + 1 = i
      BY <1>1, <1>4, <1>5, <2>1
    <3> QED  BY <3>1
  <2>2. CASE w[1] # "-"
    BY <1>1, <1>4, <1>5, <2>2
  <2> QED  BY <2>1, <2>2
<1>7. first \in 1 .. Len(w) + 1 /\ first \in 1 .. Len(w) /\ first \in {1, 2}
  <2>1. Len(u) # 0
    BY <1>4
  <2> QED  BY <1>1, <1>2, <1>4, <1>5, <2>1
<1> HIDE DEF first
<1>8. SkipAll(w, first, C) = Len(w) + 1
  <2> DEFINE j == SkipAll(w, first, C)
  <2>1. j \in first .. Len(w) + 1 /\ At(w, j) \notin C
    BY <1>1, <1>7, SkipAllIs, DigitsAreNoSigns
  <2>2. ~(j <= Len(w))
    BY <1>6, <2>1 DEF At
  <2> HIDE DEF j
  <2>3. j = Len(w) + 1
    BY <1>1, <1>7, <2>1, <2>2
  <2> QED  BY <2>3 DEF j
<1>9. SkipAll(w, 1, B) = 1
  <2>1. w[1] \notin B
    <3>1. CASE w[1] = "-"
      <4>1. "-" \notin {"tab", "newline"}
        OBVIOUS
      <4>2. "-" # Blank
        BY Zenon DEF Blank
      <4> QED  BY <3>1, <4>1, <4>2
    <3>2. CASE w[1] # "-"
      <4>1. w[1] \in C
        BY <1>5, <1>6, <1>7, <3>2
      <4> QED  BY <4>1, DigitsAreNoSigns
    <3> QED  BY <3>1, <3>2
  <2> DEFINE j == SkipAll(w, 1, B)
  <2>2. 1 \in 1 .. Len(w) + 1 /\ "nul" \notin B
    <3>1. "nul" # Blank
      BY BlankIsNoEnd
    <3> QED  BY <1>1, <3>1
  <2>3. j \in 1 .. Len(w) + 1 /\ \A k \in 1 .. j - 1 : w[k] \in B
    BY <1>1, <2>2, SkipAllIs
  <2> HIDE DEF j
  <2>4. j = 1
    BY <1>1, <2>1, <2>3
  <2> QED  BY <2>4 DEF j
<1>10. SubSeq(w, first, (Len(w) + 1) - 1) = u
  <2>1. (Len(w) + 1) - 1 = Len(w)
    BY <1>1
  <2>2. CASE w[1] = "-"
    BY <1>1, <1>2, <1>3, <1>5, <2>1, <2>2
  <2>3. CASE w[1] # "-"
    BY <1>1, <1>2, <1>3, <1>5, <2>1, <2>3
  <2> QED  BY <2>2, <2>3
<1>11. u \in Seq(C)
  <2>1. u = [i \in 1 .. Len(u) |-> u[i]] /\ Len(u) \in Nat
    BY <1>4
  <2>2. u \in [1 .. Len(u) -> C]
    BY <2>1
  <2> HIDE DEF u
  <2> QED  BY <2>1, <2>2, ArrayIsSeq
<1>12. At(w, first + 1) # "x"
  <2>1. CASE first + 1 <= Len(w)
    <3>1. first + 1 \in first .. Len(w)
      BY <1>1, <1>7, <2>1
    <3> QED  BY <1>6, <2>1, <3>1, DigitsAreNoSigns DEF At
  <2>2. CASE ~(first + 1 <= Len(w))
    BY <2>2 DEF At
  <2> QED  BY <2>1, <2>2
<1> QED
  BY <1>8, <1>9, <1>10, <1>11, <1>12 DEF first

\* A number in base 16 is read as its value, modulo the width of a word.
LEMMA StrtoiReads ==
    ASSUME NEW X, NEW w \in Seq(X), IsHex(w)
    PROVE  /\ strtoi(w) \in Int /\ Sign(w) * Positional(16, Unsign(w)) \in Int
           /\ Unsigned(strtoi(w)) = Unsigned(Sign(w) * Positional(16, Unsign(w)))
<1> DEFINE B == {Blank, "tab", "newline"}
           d == Unsign(w)
           first == IF At(w, 1) \in {"-", "+"} THEN 2 ELSE 1
           r == ReadHex(d)
           p == Positional(16, d)
<1>1. /\ SkipAll(w, 1, B) = 1
      /\ SkipAll(w, first, HexDigit) = Len(w) + 1
      /\ SubSeq(w, first, (Len(w) + 1) - 1) = d
      /\ d \in Seq(HexDigit)
      /\ At(w, first + 1) # "x"
  BY NumberIs DEF IsHex
<1>2. 1 + 1 = 2
  OBVIOUS
<1> HIDE DEF B
<1>3. strtoi(w) = Signed(Sign(w) * r)
  BY <1>1, <1>2 DEF strtoi, B, Sign
<1>4. r \in Int /\ Unsigned(r) = Unsigned(p)
  BY <1>1, HexIsRead
<1>5. p \in Int
  <2>1. \E value \in [0 .. Len(d) -> Nat] : p = value[Len(d)]
    BY <1>1, PositionalIs
  <2>2. Len(d) \in 0 .. Len(d)
    BY <1>1
  <2> QED  BY <2>1, <2>2
<1> HIDE DEF r, p, d
<1>6. /\ Unsigned(Sign(w) * r) = Unsigned(Sign(w) * p)
      /\ Sign(w) * r \in Int /\ Sign(w) * p \in Int
  <2>1. CASE Sign(w) = 1
    <3>1. Sign(w) * r = r /\ Sign(w) * p = p
      BY <1>4, <1>5, <2>1
    <3> QED  BY <1>4, <1>5, <3>1
  <2>2. CASE Sign(w) = -1
    <3>1. Unsigned(-r) = Unsigned(-p)
      BY <1>4, <1>5, SameInAWord
    <3>2. Sign(w) * r = -r /\ Sign(w) * p = -p /\ -r \in Int /\ -p \in Int
      BY <1>4, <1>5, <2>2
    <3> QED  BY <3>1, <3>2
  <2> QED  BY <2>1, <2>2 DEF Sign
<1> DEFINE z == Sign(w) * r
<1>7. Signed(z) \in Int /\ Unsigned(Signed(z)) = Unsigned(z)
  BY <1>6, UnsignedIs
<1> QED
  BY <1>3, <1>6, <1>7 DEF p, d

\* atoi finds out before it adds a digit whether the number still fits.
LEMMA OverflowsIs ==
    ASSUME NEW v \in Nat, NEW x \in 0 .. 9
    PROVE  Overflows(v, x) <=> 10 * v + x > INT_MAX
<1> DEFINE q == INT_MAX \div 10
<1>1. q \in Int /\ INT_MAX \in Nat /\ INT_MAX = 10 * q + 7
  <2>1. INT_MAX = 10 * q + (INT_MAX % 10) /\ q \in Int
    BY IntLimits, DivisionIs
  <2> QED  BY <2>1, IntLimits
<1>2. Overflows(v, x) <=> v > q \/ (v = q /\ x > 7)
  BY DEF Overflows
<1> HIDE DEF q
<1> QED
  BY <1>1, <1>2

\* atoi's loop: the value, or that it does not fit.
Sums == [value : 0 .. INT_MAX, over : BOOLEAN]
SumIs(b, p) == b \in Sums /\ IF b.over THEN p > INT_MAX ELSE b.value = p

LEMMA AddDigitIs ==
    ASSUME NEW b \in Sums, NEW x \in 0 .. 9
    PROVE  /\ AddDigit(b, x) \in Sums
           /\ \A p \in Nat : SumIs(b, p) => SumIs(AddDigit(b, x), 10 * p + x)
<1>1. INT_MAX \in Nat
  BY IntLimits
<1>2. b.value \in 0 .. INT_MAX /\ b.over \in BOOLEAN /\ b.value \in Nat
  BY <1>1 DEF Sums
<1> DEFINE o == b.over \/ Overflows(b.value, x)
           v == 10 * b.value + x
<1>3. CASE b.over \/ Overflows(b.value, x)
  <2>1. AddDigit(b, x) = [b EXCEPT !.over = TRUE]
    BY <1>3 DEF AddDigit
  <2>2. AddDigit(b, x) \in Sums /\ AddDigit(b, x).over = TRUE
    BY <2>1 DEF Sums
  <2>3. \A p \in Nat : SumIs(b, p) => 10 * p + x > INT_MAX
    <3> TAKE p \in Nat
    <3> HAVE SumIs(b, p)
    <3>1. CASE b.over
      <4>1. p > INT_MAX /\ 10 * p + x >= p
        BY <3>1 DEF SumIs
      <4> QED  BY <1>1, <4>1
    <3>2. CASE ~b.over
      <4>1. b.value = p /\ Overflows(p, x)
        BY <1>3, <3>2 DEF SumIs
      <4> QED  BY <4>1, OverflowsIs
    <3> QED  BY <3>1, <3>2
  <2> QED  BY <2>2, <2>3 DEF SumIs
<1>4. CASE ~(b.over \/ Overflows(b.value, x))
  <2>1. AddDigit(b, x) = [b EXCEPT !.value = v]
    BY <1>4 DEF AddDigit
  <2>2. v \in 0 .. INT_MAX
    BY <1>1, <1>2, <1>4, OverflowsIs
  <2> HIDE DEF v
  <2>3. AddDigit(b, x) \in Sums /\ AddDigit(b, x).over = b.over /\ AddDigit(b, x).value = v
    BY <2>1, <2>2 DEF Sums
  <2>4. \A p \in Nat : SumIs(b, p) => v = 10 * p + x
    BY <1>4 DEF v, SumIs
  <2> QED  BY <1>4, <2>3, <2>4 DEF SumIs
<1> QED
  BY <1>3, <1>4

LEMMA DecimalIsRead ==
    ASSUME NEW d \in Seq(Decimal)
    PROVE  Positional(10, d) \in Nat /\ SumIs(ReadDecimal(d), Positional(10, d))
<1> DEFINE n == Len(d)
           zero == [value |-> 0, over |-> FALSE]
           step == [p \in (1 .. n) \X Sums |-> AddDigit(p[2], DigitValue(d[p[1]]))]
           Is(f) == f = [k \in 0 .. n |-> IF k = 0 THEN zero
                                          ELSE AddDigit(f[k - 1], DigitValue(d[k]))]
           base == CHOOSE f : Is(f)
<1>1. n \in Nat /\ \A k \in 1 .. n : DigitValue(d[k]) \in 0 .. 9
  <2>1. \A k \in 1 .. n : d[k] \in Decimal
    BY ElementOfSeq
  <2>2. Decimal \subseteq HexDigit
    BY DEF Decimal, HexDigit
  <2>3. \A k \in 1 .. n : DigitValue(d[k]) \in 0 .. 9
    BY <2>1, <2>2, ValueIs DEF isdigit
  <2> QED  BY <2>3
<1>2. d \in Seq(HexDigit)
  <2>1. Decimal \subseteq HexDigit
    BY DEF Decimal, HexDigit
  <2>2. \A k \in 1 .. n : d[k] \in HexDigit
    BY <2>1, ElementOfSeq
  <2>3. d = [k \in 1 .. n |-> d[k]] /\ n \in Nat
    OBVIOUS
  <2>4. d \in [1 .. n -> HexDigit]
    BY <2>2, <2>3
  <2> HIDE DEF n
  <2> QED  BY <2>3, <2>4, ArrayIsSeq
<1>3. PICK value \in [0 .. n -> Nat] :
         /\ value[0] = 0
         /\ \A k \in 1 .. n : value[k] = 10 * value[k - 1] + DigitValue(d[k])
         /\ Positional(10, d) = value[n]
  BY <1>2, PositionalIs
<1>4. PICK f \in [0 .. n -> Sums] : f[0] = zero /\ \A k \in 1 .. n : f[k] = step[<<k, f[k - 1]>>]
  <2>1. \A p \in (1 .. n) \X Sums : AddDigit(p[2], DigitValue(d[p[1]])) \in Sums
    BY <1>1, AddDigitIs
  <2>2. step \in [(1 .. n) \X Sums -> Sums]
    BY <2>1
  <2>3. zero \in Sums
    BY IntLimits DEF Sums
  <2> HIDE DEF step, n, zero
  <2>4. LoopsOf(n, Sums, zero, step) # {}
    BY <1>1, <2>2, <2>3, LoopRuns, Zenon
  <2> QED  BY <2>4 DEF LoopsOf
<1> HIDE DEF zero
<1>5. Is(f)
  <2>1. \A k \in 1 .. n : f[k] = AddDigit(f[k - 1], DigitValue(d[k]))
    <3> TAKE k \in 1 .. n
    <3>1. k - 1 \in 0 .. n
      BY <1>1
    <3>2. <<k, f[k - 1]>> \in (1 .. n) \X Sums
      BY <1>4, <3>1
    <3> QED  BY <1>4, <3>2
  <2>2. \A k \in 0 .. n : f[k] = IF k = 0 THEN zero ELSE AddDigit(f[k - 1], DigitValue(d[k]))
    <3> TAKE k \in 0 .. n
    <3>1. k # 0 => k \in 1 .. n
      BY <1>1
    <3> QED  BY <1>4, <2>1, <3>1
  <2>3. f = [k \in 0 .. n |-> f[k]]
    BY <1>4
  <2> QED  BY <2>2, <2>3
<1>6. Is(base)
  <2> HIDE DEF Is
  <2> QED  BY <1>5
<1>7. ReadDecimal(d) = base[n]
  BY DEF ReadDecimal, zero
<1> HIDE DEF base
<1>8. /\ base[0] = zero
      /\ \A k \in 1 .. n : base[k] = AddDigit(base[k - 1], DigitValue(d[k]))
  <2>1. 0 \in 0 .. n /\ \A k \in 1 .. n : k \in 0 .. n /\ k # 0
    BY <1>1
  <2> QED  BY <1>6, <2>1
<1> DEFINE T == {k \in 0 .. n : SumIs(base[k], value[k])}
<1>9. 0 \in T
  <2>1. zero \in Sums /\ zero.value = 0 /\ zero.over = FALSE
    BY IntLimits DEF Sums, zero
  <2> QED  BY <1>1, <1>3, <1>8, <2>1 DEF SumIs
<1>10. \A k \in 1 .. n : k - 1 \in T => k \in T
  <2> TAKE k \in 1 .. n
  <2> HAVE k - 1 \in T
  <2> DEFINE b == base[k - 1]
             v == value[k - 1]
             x == DigitValue(d[k])
  <2>1. SumIs(b, v)
    OBVIOUS
  <2>2. v \in Nat /\ x \in 0 .. 9 /\ k \in 0 .. n
    <3>1. k - 1 \in 0 .. n
      BY <1>1
    <3>2. v \in Nat
      BY <1>3, <3>1
    <3> QED  BY <1>1, <3>2
  <2>3. base[k] = AddDigit(b, x) /\ value[k] = 10 * v + x
    BY <1>3, <1>8
  <2> HIDE DEF b, v, x
  <2>4. SumIs(AddDigit(b, x), 10 * v + x)
    <3>1. b \in Sums
      BY <2>1 DEF SumIs
    <3> QED  BY <2>1, <2>2, <3>1, AddDigitIs
  <2> QED  BY <2>2, <2>3, <2>4
<1> HIDE DEF T
<1>11. n \in T /\ n \in 0 .. n
  <2>1. n \in 0 .. n
    BY <1>1
  <2> QED  BY <1>1, <1>9, <1>10, <2>1, UpTo
<1> QED
  BY <1>3, <1>7, <1>11 DEF T

\* A decimal number is read as the nearest number that an int holds.
LEMMA AtoiReads ==
    ASSUME NEW w \in Text, IsDecimal(w)
    PROVE  /\ atoi(w) = Clamp(Sign(w) * Positional(10, Unsign(w)))
           /\ atoi(w) \in Int
<1> DEFINE d == Unsign(w)
           first == IF At(w, 1) \in {"-", "+"} THEN 2 ELSE 1
           base == ReadDecimal(d)
           p == Positional(10, d)
<1>1. /\ SkipAll(w, 1, {Blank}) = 1
      /\ SkipAll(w, first, Decimal) = Len(w) + 1
      /\ SubSeq(w, first, (Len(w) + 1) - 1) = d
      /\ d \in Seq(Decimal)
  <2>1. Decimal \subseteq HexDigit /\ {Blank} \subseteq {Blank, "tab", "newline"}
    BY DEF Decimal, HexDigit
  <2>2. Unsign(w) # <<>> /\ \A i \in 1 .. Len(Unsign(w)) : Unsign(w)[i] \in Decimal
    BY DEF IsDecimal, isdigit
  <2>3. w \in Seq(STRING)
    BY DEF Text
  <2> QED  BY <2>1, <2>2, <2>3, NumberIs
<1>2. 1 + 1 = 2
  OBVIOUS
<1>3. atoi(w) = IF base.over THEN IF Sign(w) = 1 THEN INT_MAX ELSE INT_MIN
                ELSE base.value * Sign(w)
  BY <1>1, <1>2 DEF atoi, Sign
<1>4. p \in Nat /\ SumIs(base, p)
  BY <1>1, DecimalIsRead
<1>5. INT_MAX \in Nat /\ INT_MIN = -INT_MAX - 1
  BY IntLimits
<1> HIDE DEF base, p, d
<1>6. CASE base.over
  <2>1. p > INT_MAX
    BY <1>4, <1>6 DEF SumIs
  <2>2. CASE Sign(w) = 1
    <3>1. Sign(w) * p = p
      BY <1>4, <2>2
    <3> QED  BY <1>3, <1>4, <1>5, <1>6, <2>1, <2>2, <3>1 DEF Clamp, p, d
  <2>3. CASE Sign(w) = -1
    <3>1. Sign(w) * p = -p
      BY <1>4, <2>3
    <3>2. atoi(w) = INT_MIN
      BY <1>3, <1>6, <2>3
    <3>3. Clamp(-p) = INT_MIN
      BY <1>4, <1>5, <2>1 DEF Clamp
    <3> QED  BY <1>5, <3>1, <3>2, <3>3 DEF p, d
  <2> QED  BY <2>2, <2>3 DEF Sign
<1>7. CASE ~base.over
  <2>1. base.value = p /\ p <= INT_MAX
    BY <1>4, <1>5, <1>7 DEF SumIs, Sums
  <2>2. CASE Sign(w) = 1
    <3>1. Sign(w) * p = p /\ p * Sign(w) = p
      BY <1>4, <2>2
    <3>2. Clamp(p) = p
      BY <1>4, <1>5, <2>1 DEF Clamp
    <3> QED  BY <1>3, <1>4, <1>7, <2>1, <3>1, <3>2 DEF p, d
  <2>3. CASE Sign(w) = -1
    <3>1. Sign(w) * p = -p /\ p * Sign(w) = -p
      BY <1>4, <2>3
    <3>2. Clamp(-p) = -p
      BY <1>4, <1>5, <2>1 DEF Clamp
    <3> QED  BY <1>3, <1>4, <1>7, <2>1, <3>1, <3>2 DEF p, d
  <2> QED  BY <2>2, <2>3 DEF Sign
<1> QED
  BY <1>6, <1>7

\* Whatever was typed, atoi returns an int.
LEMMA AtoiIsInt ==
    ASSUME NEW w \in Text
    PROVE  atoi(w) \in Int
<1> DEFINE i == SkipAll(w, 1, {Blank})
           first == IF At(w, i) \in {"-", "+"} THEN i + 1 ELSE i
           j == SkipAll(w, first, Decimal)
           d == SubSeq(w, first, j - 1)
           base == ReadDecimal(d)
<1>1. Len(w) \in Nat /\ "nul" \notin Decimal /\ "nul" \notin {Blank}
  <2>1. Decimal \subseteq HexDigit
    BY DEF Decimal, HexDigit
  <2> QED  BY <2>1, DigitsAreNoSigns, BlankIsNoEnd DEF Text
<1>2. i \in 1 .. Len(w) + 1
  <2>1. 1 \in 1 .. Len(w) + 1
    BY <1>1
  <2> QED  BY <1>1, <2>1, SkipAllIs
<1> HIDE DEF i
<1>3. first \in 1 .. Len(w) + 1
  <2>1. At(w, i) \in {"-", "+"} => i <= Len(w)
    BY DEF At
  <2> QED  BY <1>1, <1>2, <2>1
<1> HIDE DEF first
<1>4. j \in first .. Len(w) + 1 /\ \A k \in first .. j - 1 : w[k] \in Decimal
  BY <1>1, <1>3, SkipAllIs
<1> HIDE DEF j
<1>5. d \in Seq(Decimal)
  <2>1. first \in Int /\ j - 1 \in Int
    BY <1>1, <1>3, <1>4
  <2> QED  BY <1>4, <2>1, SubSeqProperties
<1>6. base.over \in BOOLEAN /\ base.value \in Int
  <2>1. SumIs(base, Positional(10, d))
    BY <1>5, DecimalIsRead
  <2> HIDE DEF base, d
  <2>2. base \in Sums
    BY <2>1 DEF SumIs
  <2> QED  BY <2>2, IntLimits DEF Sums
<1> HIDE DEF base
<1> DEFINE sign == IF At(w, i) = "-" THEN -1 ELSE 1
<1>7. atoi(w) = IF base.over THEN IF sign = 1 THEN INT_MAX ELSE INT_MIN ELSE base.value * sign
  BY DEF atoi, base, d, j, first, i
<1> QED
  BY <1>6, <1>7, IntLimits
-----------------------------------------------------------------------------
(* What printf writes. *)

\* What is left of a number after each of its digits in base 16.
Shifted(v, rest) ==
    /\ rest \in [0 .. IntBits -> Nat]
    /\ rest[0] = Unsigned(v)
    /\ \A n \in 1 .. IntBits : rest[n] = rest[n - 1] \div 16

LEMMA DivideBy16 ==
    ASSUME NEW x \in Nat, NEW m \in Nat, x < 256 * m
    PROVE  x \div 16 \in Nat /\ (x \div 16) \div 16 < m /\ 0 \div 16 = 0
OBVIOUS

\* A word has IntBits / 4 digits.
LEMMA ShiftedOut ==
    ASSUME NEW v \in Int, NEW rest, Shifted(v, rest)
    PROVE  IntBits \div 4 \in 2 .. 8 /\ IntBits \div 4 <= IntBits /\ rest[IntBits \div 4] = 0
<1>1. \A k \in 0 .. IntBits : rest[k] \in Nat
  BY DEF Shifted
<1>2. \A k \in 0 .. IntBits - 2, m \in Nat : rest[k] < 256 * m => rest[k + 2] < m
  <2> TAKE k \in 0 .. IntBits - 2, m \in Nat
  <2> HAVE rest[k] < 256 * m
  <2>1. k \in 0 .. IntBits /\ k + 1 \in 1 .. IntBits /\ k + 2 \in 1 .. IntBits
    BY IntAssumption
  <2>2. rest[k + 1] = rest[k] \div 16 /\ rest[k + 2] = rest[k + 1] \div 16
    <3>1. (k + 1) - 1 = k /\ (k + 2) - 1 = k + 1
      OBVIOUS
    <3>2. rest[k + 1] = rest[(k + 1) - 1] \div 16 /\ rest[k + 2] = rest[(k + 2) - 1] \div 16
      BY <2>1 DEF Shifted
    <3> QED  BY <3>1, <3>2
  <2>3. rest[k] \in Nat
    BY <1>1, <2>1
  <2> QED  BY <2>2, <2>3, DivideBy16
<1>3. rest[0] < Word
  <2>1. rest[0] = Unsigned(v) /\ Unsigned(v) \in 0 .. Word - 1
    BY UnsignedIs DEF Shifted
  <2> QED  BY <2>1, IntLimits
<1>4. CASE IntBits = 8
  <2>1. rest[0] < 256 * 1
    BY <1>3, <1>4 DEF Word
  <2>2. rest[0 + 2] < 1 /\ rest[2] \in Nat
    BY <1>1, <1>2, <1>4, <2>1
  <2> QED  BY <1>4, <2>2
<1>5. CASE IntBits = 16
  <2>1. rest[0] < 256 * 256
    BY <1>3, <1>5 DEF Word
  <2>2. rest[0 + 2] < 256
    BY <1>2, <1>5, <2>1
  <2>3. rest[2] < 256 * 1
    BY <2>2
  <2>4. rest[2 + 2] < 1 /\ rest[4] \in Nat
    BY <1>1, <1>2, <1>5, <2>3
  <2> QED  BY <1>5, <2>4
<1>6. CASE IntBits = 32
  <2>1. rest[0] < 256 * (256 * 256 * 256)
    BY <1>3, <1>6 DEF Word
  <2>2. rest[0 + 2] < 256 * 256 * 256
    <3>1. 256 * 256 * 256 \in Nat
      OBVIOUS
    <3>2. 0 \in 0 .. IntBits - 2
      BY <1>6
    <3> QED  BY <1>2, <2>1, <3>1, <3>2
  <2>3. rest[2] < 256 * (256 * 256)
    BY <2>2
  <2>4. rest[2 + 2] < 256 * 256
    <3>1. 256 * 256 \in Nat /\ 2 \in 0 .. IntBits - 2
      BY <1>6
    <3> QED  BY <1>2, <2>3, <3>1
  <2>5. rest[4] < 256 * 256
    BY <2>4
  <2>6. rest[4 + 2] < 256
    BY <1>2, <1>6, <2>5
  <2>7. rest[6] < 256 * 1
    BY <2>6
  <2>8. rest[6 + 2] < 1 /\ rest[8] \in Nat
    BY <1>1, <1>2, <1>6, <2>7
  <2> QED  BY <1>6, <2>8
<1> QED
  BY <1>4, <1>5, <1>6, IntAssumption

\* A number is its digits, from the last that is not 0 on.
LEMMA ItoaIs ==
    ASSUME NEW v \in Int
    PROVE  \E rest : Shifted(v, rest) /\ \E len \in 1 .. IntBits :
              /\ rest[len] = 0 /\ \A k \in 1 .. IntBits : rest[k] = 0 => len <= k
              /\ itoa(16, v) = [i \in 1 .. len |-> DigitChar(rest[len - i] % 16)]
<1> DEFINE n == IntBits
           step == [p \in (1 .. n) \X Nat |-> p[2] \div 16]
           Is(f) == f = [k \in 0 .. n |-> IF k = 0 THEN Unsigned(v) ELSE f[k - 1] \div 16]
           rest == CHOOSE f : Is(f)
           Ends(j) == rest[j] = 0 /\ \A k \in 1 .. j - 1 : rest[k] # 0
           len == CHOOSE j \in 1 .. IntBits : Ends(j)
<1>1. n \in Nat /\ n > 0 /\ Unsigned(v) \in Nat
  BY IntAssumption, UnsignedIs, IntLimits
<1>2. PICK f \in [0 .. n -> Nat] : /\ f[0] = Unsigned(v)
                                   /\ \A k \in 1 .. n : f[k] = step[<<k, f[k - 1]>>]
  <2>1. \A p \in (1 .. n) \X Nat : p[2] \div 16 \in Nat
    OBVIOUS
  <2>2. step \in [(1 .. n) \X Nat -> Nat]
    BY <2>1
  <2> HIDE DEF step, n
  <2>3. LoopsOf(n, Nat, Unsigned(v), step) # {}
    BY <1>1, <2>2, LoopRuns, Zenon
  <2> QED  BY <2>3 DEF LoopsOf
<1>3. Is(f)
  <2>1. \A k \in 1 .. n : f[k] = f[k - 1] \div 16
    <3> TAKE k \in 1 .. n
    <3>1. k - 1 \in 0 .. n
      BY <1>1
    <3>2. <<k, f[k - 1]>> \in (1 .. n) \X Nat
      BY <1>2, <3>1
    <3> QED  BY <1>2, <3>2
  <2>2. \A k \in 0 .. n : f[k] = IF k = 0 THEN Unsigned(v) ELSE f[k - 1] \div 16
    <3> TAKE k \in 0 .. n
    <3>1. k # 0 => k \in 1 .. n
      BY <1>1
    <3> QED  BY <1>2, <2>1, <3>1
  <2>3. f = [k \in 0 .. n |-> f[k]]
    BY <1>2
  <2> QED  BY <2>2, <2>3
<1>4. Is(rest)
  <2> HIDE DEF Is
  <2> QED  BY <1>3
<1>5. itoa(16, v) = [i \in 1 .. len |-> DigitChar(rest[len - i] % 16)]
  BY DEF itoa
<1> HIDE DEF rest
<1>6. Shifted(v, rest)
  <2>1. 0 \in 0 .. n /\ \A k \in 1 .. n : k \in 0 .. n /\ k # 0
    BY <1>1
  <2>2. rest[0] = Unsigned(v) /\ \A k \in 1 .. n : rest[k] = rest[k - 1] \div 16
    BY <1>4, <2>1
  <2> DEFINE S == {k \in 0 .. n : rest[k] \in Nat}
  <2>3. 0 \in S
    BY <1>1, <2>2
  <2>4. \A k \in 1 .. n : k - 1 \in S => k \in S
    BY <2>1, <2>2
  <2> HIDE DEF S
  <2>5. \A k \in 0 .. n : k \in S
    BY <1>1, <2>3, <2>4, UpTo
  <2>6. rest = [k \in 0 .. n |-> rest[k]]
    BY <1>4
  <2>7. \A k \in 0 .. n : rest[k] \in Nat
    BY <2>5 DEF S
  <2>8. rest \in [0 .. n -> Nat]
    BY <2>6, <2>7
  <2> QED  BY <2>2, <2>8 DEF Shifted
<1> DEFINE Z == {k \in 1 .. n : rest[k] = 0}
<1>7. PICK m \in Z : \A k \in Z : m <= k
  <2>1. IntBits \div 4 \in Z
    BY <1>6, ShiftedOut
  <2>2. Z \subseteq Nat
    BY <1>1
  <2> HIDE DEF Z
  <2> QED  BY <2>1, <2>2, LeastOf
<1>8. \A j \in 1 .. n : Ends(j) <=> j = m
  <2>1. m \in 1 .. n /\ rest[m] = 0 /\ \A k \in 1 .. n : rest[k] = 0 => m <= k
    BY <1>7
  <2> QED  BY <1>1, <2>1
<1>9. len = m /\ m \in 1 .. n /\ rest[m] = 0
  <2>1. m \in 1 .. n /\ rest[m] = 0
    BY <1>7
  <2> HIDE DEF Ends
  <2> QED  BY <1>8, <2>1
<1>10. \A k \in 1 .. IntBits : rest[k] = 0 => m <= k
  BY <1>7
<1> HIDE DEF len
<1> QED
  BY <1>5, <1>6, <1>9, <1>10

\* The digits in the first w places.
Places(rest, w) == [j \in 1 .. w |-> DigitChar(rest[w - j] % 16)]

\* With zeros before it, a number fills its places with the digits it has there.
LEMMA PaddedIs ==
    ASSUME NEW v \in Int, NEW w \in 1 .. IntBits,
           \A rest : Shifted(v, rest) => rest[w] = 0
    PROVE  /\ itoa(16, v) \in Seq(HexDigit) /\ Len(itoa(16, v)) \in 1 .. w
           /\ \E rest : /\ Shifted(v, rest)
                        /\ Times(w - Len(itoa(16, v)), "0") \o itoa(16, v) = Places(rest, w)
<1> DEFINE p == itoa(16, v)
<1>1. PICK rest : Shifted(v, rest) /\ \E len \in 1 .. IntBits :
              /\ rest[len] = 0 /\ \A k \in 1 .. IntBits : rest[k] = 0 => len <= k
              /\ p = [i \in 1 .. len |-> DigitChar(rest[len - i] % 16)]
  BY ItoaIs
<1>2. PICK len \in 1 .. IntBits :
              /\ rest[len] = 0 /\ \A k \in 1 .. IntBits : rest[k] = 0 => len <= k
              /\ p = [i \in 1 .. len |-> DigitChar(rest[len - i] % 16)]
  BY <1>1
<1>3. len <= w /\ len \in Nat /\ w \in Nat /\ IntBits \in Nat /\ IntBits <= 32
  BY <1>1, <1>2, IntAssumption
<1>4. \A k \in 0 .. IntBits : rest[k] \in Nat /\ DigitChar(rest[k] % 16) \in HexDigit
  <2>1. \A k \in 0 .. IntBits : rest[k] \in Nat
    BY <1>1 DEF Shifted
  <2>2. \A k \in 0 .. IntBits : rest[k] % 16 \in 0 .. 15
    BY <2>1
  <2> QED  BY <2>1, <2>2, DigitIs
<1> HIDE DEF p
<1>5. p \in Seq(HexDigit) /\ Len(p) = len
  <2>1. \A i \in 1 .. len : len - i \in 0 .. IntBits
    BY <1>3
  <2>2. p \in [1 .. len -> HexDigit]
    BY <1>2, <1>4, <2>1
  <2> QED  BY <1>3, <2>2, ArrayIsSeq
<1>6. \A k \in len .. IntBits : rest[k] = 0
  <2> DEFINE S == {k \in 0 .. IntBits : k >= len => rest[k] = 0}
  <2>1. 0 \in S
    BY <1>2, <1>3
  <2>2. \A k \in 1 .. IntBits : k - 1 \in S => k \in S
    <3> TAKE k \in 1 .. IntBits
    <3> HAVE k - 1 \in S
    <3>1. k \in 0 .. IntBits /\ rest[k] = rest[k - 1] \div 16
      BY <1>1, <1>3 DEF Shifted
    <3>2. CASE k = len
      BY <1>2, <3>1, <3>2
    <3>3. CASE k < len
      BY <1>3, <3>1, <3>3
    <3>4. CASE k > len
      <4>1. rest[k - 1] = 0
        BY <1>3, <3>4
      <4> QED  BY <3>1, <4>1
    <3> QED  BY <1>3, <3>2, <3>3, <3>4
  <2> HIDE DEF S
  <2>3. \A k \in 0 .. IntBits : k \in S
    BY <1>3, <2>1, <2>2, UpTo
  <2> QED  BY <1>3, <2>3 DEF S
<1> DEFINE zeros == Times(w - len, "0")
           all == Places(rest, w)
<1>7. DigitChar(0) = "0" /\ "0" \in HexDigit
  <2>1. DigitChar(0) = "0"
    BY DEF DigitChar, Digit
  <2> QED  BY <2>1, DigitIs
<1>8. zeros \in Seq(HexDigit) /\ Len(zeros) = w - len /\ \A j \in 1 .. w - len : zeros[j] = "0"
  <2>1. (w - len) % 256 = w - len /\ w - len \in Nat
    BY <1>3
  <2>2. zeros = [j \in 1 .. w - len |-> "0"]
    BY <2>1 DEF Times
  <2>3. zeros \in [1 .. w - len -> HexDigit]
    BY <1>7, <2>2
  <2> HIDE DEF zeros
  <2> QED  BY <2>1, <2>2, <2>3, ArrayIsSeq
<1>9. all \in Seq(HexDigit) /\ Len(all) = w
  <2>1. \A j \in 1 .. w : w - j \in 0 .. IntBits
    BY <1>3
  <2>2. all \in [1 .. w -> HexDigit]
    BY <1>4, <2>1 DEF Places
  <2> HIDE DEF all
  <2> QED  BY <1>3, <2>2, ArrayIsSeq
<1>10. \A j \in 1 .. w : (zeros \o p)[j] = all[j]
  <2> TAKE j \in 1 .. w
  <2>1. all[j] = DigitChar(rest[w - j] % 16)
    BY DEF Places
  <2> HIDE DEF zeros, all
  <2>2. CASE j <= w - len
    <3>1. (zeros \o p)[j] = "0"
      BY <1>3, <1>5, <1>8, <2>2
    <3>2. rest[w - j] = 0 /\ 0 % 16 = 0
      BY <1>3, <1>6, <2>2
    <3> QED  BY <1>7, <2>1, <3>1, <3>2
  <2>3. CASE j > w - len
    <3>1. (zeros \o p)[j] = p[j - (w - len)]
      BY <1>3, <1>5, <1>8, <2>3
    <3>2. j - (w - len) \in 1 .. len /\ len - (j - (w - len)) = w - j
      BY <1>3, <2>3
    <3> QED  BY <1>2, <2>1, <3>1, <3>2
  <2>4. j <= w - len \/ j > w - len
    BY <1>3
  <2> QED  BY <2>2, <2>3, <2>4
<1> HIDE DEF zeros
<1>11. zeros \o p = all
  <2>1. zeros \o p \in Seq(HexDigit) /\ Len(zeros \o p) = w
    BY <1>3, <1>5, <1>8
  <2> HIDE DEF all
  <2> QED  BY <1>9, <1>10, <2>1, SeqEqual
<1>12. Times(w - Len(p), "0") \o p = Places(rest, w) /\ Len(p) \in 1 .. w
  BY <1>3, <1>5, <1>11 DEF zeros
<1> QED
  BY <1>1, <1>5, <1>12 DEF p

\* The digits of a number stand for the number.
LEMMA PlacesStandFor ==
    ASSUME NEW v \in Int, NEW rest, Shifted(v, rest), NEW w \in 1 .. IntBits, rest[w] = 0
    PROVE  /\ Places(rest, w) \in Seq(HexDigit) /\ Len(Places(rest, w)) = w
           /\ Positional(16, Places(rest, w)) = Unsigned(v)
<1> DEFINE d == Places(rest, w)
<1>1. IntBits \in Nat /\ w \in Nat /\ w > 0
  BY IntAssumption
<1>2. \A k \in 0 .. w : rest[k] \in Nat /\ rest[k] % 16 \in 0 .. 15
  <2>1. \A k \in 0 .. w : rest[k] \in Nat
    BY <1>1 DEF Shifted
  <2> QED  BY <2>1
<1>3. d \in Seq(HexDigit) /\ Len(d) = w /\ \A j \in 1 .. w : d[j] = DigitChar(rest[w - j] % 16)
  <2>1. \A j \in 1 .. w : w - j \in 0 .. w
    BY <1>1
  <2>2. d \in [1 .. w -> HexDigit]
    BY <1>2, <2>1, DigitIs DEF Places
  <2>3. \A j \in 1 .. w : d[j] = DigitChar(rest[w - j] % 16)
    BY DEF Places
  <2> HIDE DEF d
  <2> QED  BY <1>1, <2>2, <2>3, ArrayIsSeq
<1> HIDE DEF d
<1>4. PICK value \in [0 .. w -> Nat] :
         /\ value[0] = 0
         /\ \A k \in 1 .. w : value[k] = 16 * value[k - 1] + DigitValue(d[k])
         /\ Positional(16, d) = value[w]
  BY <1>3, PositionalIs
<1> DEFINE S == {k \in 0 .. w : value[k] = rest[w - k]}
<1>5. 0 \in S
  BY <1>1, <1>4
<1>6. \A k \in 1 .. w : k - 1 \in S => k \in S
  <2> TAKE k \in 1 .. w
  <2> HAVE k - 1 \in S
  <2> DEFINE m == w - k
             x == rest[m]
  <2>1. /\ m \in 0 .. w /\ m + 1 \in 1 .. IntBits /\ k \in 0 .. w
        /\ w - (k - 1) = m + 1 /\ (m + 1) - 1 = m
    BY <1>1
  <2>2. value[k - 1] = rest[m + 1]
    BY <2>1
  <2>3. rest[m + 1] = rest[(m + 1) - 1] \div 16
    BY <2>1 DEF Shifted
  <2>4. rest[m + 1] = x \div 16
    BY <2>1, <2>3
  <2>5. DigitValue(d[k]) = x % 16
    BY <1>2, <1>3, <2>1, DigitIs
  <2>6. x \in Nat
    BY <1>2, <2>1
  <2>7. value[k] = 16 * (x \div 16) + (x % 16)
    BY <1>4, <2>2, <2>4, <2>5
  <2> HIDE DEF x, m
  <2>8. value[k] = x
    BY <2>6, <2>7
  <2> QED  BY <2>1, <2>8 DEF x, m
<1> HIDE DEF S
<1>7. w \in S
  <2>1. w \in 0 .. w
    BY <1>1
  <2> QED  BY <1>1, <1>5, <1>6, <2>1, UpTo
<1>8. value[w] = rest[0]
  BY <1>1, <1>7 DEF S
<1> QED
  BY <1>3, <1>4, <1>8 DEF Shifted, d

\* printf goes through its format item by item.
LEMMA PrintfIs ==
    ASSUME NEW format, NEW args, Len(format) \in Nat
    PROVE  \E state : /\ state[0] = [out |-> <<>>, num |-> 0, args |-> args]
                      /\ \A n \in 1 .. Len(format) : state[n] = PrintItem(state[n - 1], format[n])
                      /\ printf(format, args) = state[Len(format)].out
<1> DEFINE start == [out |-> <<>>, num |-> 0, args |-> args]
           Calls(f, m) == f = [n \in 0 .. m |-> IF n = 0 THEN start
                                                ELSE PrintItem(f[n - 1], format[n])]
           S == {m \in 0 .. Len(format) : \E f : Calls(f, m)}
<1>1. printf(format, args) = (CHOOSE f : Calls(f, Len(format)))[Len(format)].out
  BY DEF printf
<1> HIDE DEF start
<1>2. 0 \in S
  <2>1. Calls([n \in 0 .. 0 |-> start], 0)
    OBVIOUS
  <2> HIDE DEF Calls
  <2> QED  BY <2>1
<1>3. \A k \in 1 .. Len(format) : k - 1 \in S => k \in S
  <2> TAKE k \in 1 .. Len(format)
  <2> HAVE k - 1 \in S
  <2>1. PICK f : Calls(f, k - 1)
    OBVIOUS
  <2> DEFINE g == [n \in 0 .. k |-> IF n = k THEN PrintItem(f[k - 1], format[k]) ELSE f[n]]
  <2>2. DOMAIN g = 0 .. k
    OBVIOUS
  <2>3. \A n \in 0 .. k : g[n] = IF n = 0 THEN start ELSE PrintItem(g[n - 1], format[n])
    <3> TAKE n \in 0 .. k
    <3>1. n \in Int /\ k \in Int /\ 0 <= n /\ n <= k /\ 1 <= k
      OBVIOUS
    <3>2. CASE n = k
      <4>1. k - 1 \in 0 .. k /\ k - 1 # k /\ k \in 0 .. k /\ k # 0
        BY <3>1
      <4>2. g[k] = PrintItem(f[k - 1], format[k]) /\ g[k - 1] = f[k - 1]
        BY <4>1
      <4> QED  BY <3>2, <4>1, <4>2
    <3>3. CASE n # k
      <4>1. n \in 0 .. k - 1 /\ (n # 0 => n - 1 \in 0 .. k /\ n - 1 # k)
        BY <3>1, <3>3
      <4>2. g[n] = f[n] /\ (n # 0 => g[n - 1] = f[n - 1])
        BY <3>3, <4>1
      <4>3. f[n] = IF n = 0 THEN start ELSE PrintItem(f[n - 1], format[n])
        BY <2>1, <4>1
      <4> QED  BY <4>2, <4>3
    <3> QED  BY <3>2, <3>3
  <2>4. Calls(g, k)
    <3> HIDE DEF g
    <3>1. g = [n \in 0 .. k |-> g[n]]
      BY <2>2 DEF g
    <3> QED  BY <2>3, <3>1
  <2>5. k \in 0 .. Len(format)
    OBVIOUS
  <2> HIDE DEF Calls, g
  <2> QED  BY <2>4, <2>5
<1>4. \E f : Calls(f, Len(format))
  <2>1. Len(format) \in 0 .. Len(format)
    OBVIOUS
  <2> HIDE DEF S
  <2>2. Len(format) \in S
    BY <1>2, <1>3, <2>1, UpTo
  <2> HIDE DEF Calls
  <2> QED  BY <2>2 DEF S
<1> DEFINE state == CHOOSE f : Calls(f, Len(format))
<1>5. Calls(state, Len(format))
  <2> HIDE DEF Calls
  <2> QED  BY <1>4
<1>6. printf(format, args) = state[Len(format)].out
  BY <1>1
<1> HIDE DEF state
<1>7. /\ state[0] = start
      /\ \A n \in 1 .. Len(format) : state[n] = PrintItem(state[n - 1], format[n])
  <2>1. 0 \in 0 .. Len(format) /\ \A n \in 1 .. Len(format) : n \in 0 .. Len(format) /\ n # 0
    OBVIOUS
  <2> QED  BY <1>5, <2>1
<1> QED
  BY <1>6, <1>7 DEF start

LEMMA CharIsPrinted ==
    ASSUME NEW o, NEW m, NEW as, NEW c
    PROVE  PrintItem([out |-> o, num |-> m, args |-> as], Char(c))
             = [out |-> Append(o, c), num |-> m, args |-> as]
BY DEF PrintItem, Char

\* A number in base 16 with a width that it fits leaves -1 in num.
PrintsPlaces(o, m, as, w) ==
    \E rest : /\ Shifted(Head(as), rest)
              /\ PrintItem([out |-> o, num |-> m, args |-> as], ZeroPadded("x", w))
                   = [out |-> o \o Places(rest, w), num |-> -1, args |-> Tail(as)]

LEMMA HexIsPrinted ==
    ASSUME NEW S, HexDigit \subseteq S, NEW o \in Seq(S), NEW m, NEW as, Head(as) \in Int,
           NEW w \in 1 .. IntBits, \A rest : Shifted(Head(as), rest) => rest[w] = 0
    PROVE  PrintsPlaces(o, m, as, w)
<1> DEFINE p == itoa(16, Head(as))
           pad == Times(w - Len(p), "0")
<1>1. PICK rest : Shifted(Head(as), rest) /\ pad \o p = Places(rest, w)
  BY PaddedIs
<1>2. p \in Seq(HexDigit) /\ Len(p) \in 1 .. w
  BY PaddedIs
<1>3. PrintItem([out |-> o, num |-> m, args |-> as], ZeroPadded("x", w))
        = [out |-> o \o Times(Reduced(w, Len(p)), "0") \o p \o <<>>, num |-> -1, args |-> Tail(as)]
  <2> DEFINE item == ZeroPadded("x", w)
             st == [out |-> o, num |-> m, args |-> as]
  <2>1. /\ item.kind = "x" /\ item.own = TRUE /\ item.sym = "0" /\ item.padRight = FALSE
        /\ item.width = w
    BY DEF ZeroPadded
  <2>2. st.out = o /\ st.args = as
    OBVIOUS
  <2>3. w # 0
    BY <1>2
  <2> HIDE DEF item, st, p
  <2>4. PrintItem(st, item)
          = [out |-> o \o Times(Reduced(w, Len(p)), "0") \o p \o <<>>, num |-> -1,
             args |-> Tail(as)]
    BY <2>1, <2>2, <2>3 DEF PrintItem, strlen, p
  <2> QED  BY <2>4 DEF item, st
<1> HIDE DEF p
<1>4. Reduced(w, Len(p)) = w - Len(p) /\ w - Len(p) \in Nat /\ w - Len(p) < 256
  BY <1>2, IntAssumption DEF Reduced
<1>5. p \in Seq(S) /\ pad \in Seq(S)
  <2>1. p = [i \in 1 .. Len(p) |-> p[i]] /\ Len(p) \in Nat
    BY <1>2
  <2>2. p \in [1 .. Len(p) -> S]
    BY <1>2, <2>1, ElementOfSeq
  <2>3. p \in Seq(S)
    BY <2>1, <2>2, ArrayIsSeq
  <2>4. "0" \in S
    <3>1. DigitChar(0) = "0"
      BY DEF DigitChar, Digit
    <3> QED  BY <3>1, DigitIs
  <2>5. pad \in [1 .. w - Len(p) -> S]
    <3>1. (w - Len(p)) % 256 = w - Len(p)
      BY <1>4
    <3> QED  BY <2>4, <3>1 DEF Times
  <2> HIDE DEF pad
  <2>6. pad \in Seq(S)
    BY <1>4, <2>5, ArrayIsSeq
  <2> QED  BY <2>3, <2>6
<1>6. o \o Times(Reduced(w, Len(p)), "0") \o p \o <<>> = o \o Places(rest, w)
  <2>1. o \o pad \o p \o <<>> = o \o (pad \o p)
    <3> HIDE DEF pad
    <3>1. o \o pad \o p \in Seq(S) /\ (o \o pad \o p) \o <<>> = o \o pad \o p
      BY <1>5
    <3>2. o \o pad \o p = o \o (pad \o p)
      <4>1. o \in Seq(S) /\ pad \in Seq(S) /\ p \in Seq(S)
        BY <1>5
      <4> QED  BY <4>1, ConcatAssociative, SMTT(30)
    <3> QED  BY <3>1, <3>2
  <2> QED  BY <1>1, <1>4, <2>1
<1> QED
  BY <1>1, <1>3, <1>6 DEF PrintsPlaces
-----------------------------------------------------------------------------
(* readmem. *)

\* The address in the header of memPrint reads back as the address.
LEMMA HeaderReadsBack ==
    ASSUME NEW a \in Int
    PROVE  Unsigned(strtoi(Tail(printf(<<Char("@"), ZeroPadded("x", IntBits \div 4)>>, <<a>>))))
             = Unsigned(a)
<1> DEFINE w == IntBits \div 4
           S == HexDigit \cup {"@"}
           format == <<Char("@"), ZeroPadded("x", w)>>
<1>1. Len(format) = 2 /\ format[1] = Char("@") /\ format[2] = ZeroPadded("x", w)
  OBVIOUS
<1>2. PICK state : /\ state[0] = [out |-> <<>>, num |-> 0, args |-> <<a>>]
                   /\ \A n \in 1 .. Len(format) : state[n] = PrintItem(state[n - 1], format[n])
                   /\ printf(format, <<a>>) = state[Len(format)].out
  <2>1. Len(format) \in Nat
    BY <1>1
  <2> HIDE DEF format
  <2> QED  BY <2>1, PrintfIs
<1>3. /\ state[1] = PrintItem(state[0], Char("@"))
      /\ state[2] = PrintItem(state[1], ZeroPadded("x", w))
      /\ printf(format, <<a>>) = state[2].out
  <2>1. 1 - 1 = 0 /\ 2 - 1 = 1 /\ 1 \in 1 .. 2 /\ 2 \in 1 .. 2
    OBVIOUS
  <2> HIDE DEF format
  <2> QED  BY <1>1, <1>2, <2>1
<1> HIDE DEF format
<1>4. state[1] = [out |-> <<"@">>, num |-> 0, args |-> <<a>>]
  <2>1. PrintItem([out |-> <<>>, num |-> 0, args |-> <<a>>], Char("@"))
          = [out |-> Append(<<>>, "@"), num |-> 0, args |-> <<a>>]
    BY CharIsPrinted
  <2>2. Append(<<>>, "@") = <<"@">>
    OBVIOUS
  <2>3. state[1] = PrintItem([out |-> <<>>, num |-> 0, args |-> <<a>>], Char("@"))
    BY <1>2, <1>3, Zenon
  <2> QED  BY <2>1, <2>2, <2>3, Zenon
<1>5. w \in 1 .. IntBits /\ \A rest : Shifted(a, rest) => rest[w] = 0
  <2>1. \A rest : Shifted(a, rest) => rest[w] = 0
    BY ShiftedOut
  <2>2. w \in 1 .. IntBits
    BY IntAssumption
  <2> QED  BY <2>1, <2>2
<1> HIDE DEF w
<1>6. PICK rest : /\ Shifted(a, rest)
                  /\ state[2] = [out |-> <<"@">> \o Places(rest, w), num |-> -1,
                                args |-> Tail(<<a>>)]
  <2> DEFINE o == <<"@">>
             as == <<a>>
  <2>1. Head(as) = a /\ HexDigit \subseteq S /\ o \in Seq(S)
    OBVIOUS
  <2>2. state[1] = [out |-> o, num |-> 0, args |-> as]
    BY <1>4
  <2> HIDE DEF S, o, as
  <2>3. Head(as) \in Int /\ \A rest : Shifted(Head(as), rest) => rest[w] = 0
    BY <1>5, <2>1
  <2>4. PrintsPlaces(o, 0, as, w)
    BY <1>5, <2>1, <2>3, HexIsPrinted, Zenon
  <2> QED  BY <1>3, <2>1, <2>2, <2>4 DEF o, as, PrintsPlaces
<1> DEFINE d == Places(rest, w)
<1>7. d \in Seq(HexDigit) /\ Len(d) = w /\ Positional(16, d) = Unsigned(a)
  BY <1>5, <1>6, PlacesStandFor
<1>8. Tail(printf(format, <<a>>)) = d
  <2>1. printf(format, <<a>>) = <<"@">> \o d
    <3> DEFINE p == <<"@">> \o d
    <3> HIDE DEF p
    <3>1. state[2] = [out |-> p, num |-> -1, args |-> Tail(<<a>>)]
      BY <1>6 DEF p
    <3>2. state[2].out = p
      BY <3>1
    <3> QED  BY <1>3, <3>2 DEF p
  <2>2. d \in Seq(S) /\ <<"@">> \in Seq(S)
    <3>1. d = [i \in 1 .. Len(d) |-> d[i]] /\ Len(d) \in Nat
      BY <1>7
    <3>2. d \in [1 .. Len(d) -> S]
      BY <1>7, <3>1, ElementOfSeq
    <3> HIDE DEF d, S
    <3>3. d \in Seq(S)
      BY <3>1, <3>2, ArrayIsSeq
    <3> QED  BY <3>3 DEF S
  <2> HIDE DEF d, S, format
  <2>3. Tail(<<"@">> \o d) = d
    <3>1. /\ <<"@">> \o d \in Seq(S) /\ Len(<<"@">> \o d) = Len(d) + 1
          /\ \A i \in 1 .. Len(d) : (<<"@">> \o d)[i + 1] = d[i]
      BY <2>2
    <3>2. <<"@">> \o d # <<>> /\ Len(d) \in Nat
      BY <2>2, <3>1
    <3>3. /\ Tail(<<"@">> \o d) \in Seq(S) /\ Len(Tail(<<"@">> \o d)) = Len(d)
          /\ \A i \in 1 .. Len(d) : Tail(<<"@">> \o d)[i] = (<<"@">> \o d)[i + 1]
      BY <3>1, <3>2, HeadTailProperties
    <3> QED  BY <2>2, <3>1, <3>3, SeqEqual
  <2> QED  BY <2>1, <2>3
<1>9. Unsign(d) = d /\ Sign(d) = 1 /\ IsHex(d)
  <2>1. 1 \in 1 .. Len(d) /\ d # <<>> /\ At(d, 1) = d[1]
    BY <1>5, <1>7 DEF At
  <2>2. d[1] # "-"
    BY <1>7, <2>1, ElementOfSeq, DigitsAreNoSigns
  <2> HIDE DEF d
  <2>3. Unsign(d) = d /\ Sign(d) = 1
    BY <2>1, <2>2 DEF Unsign, Sign
  <2> QED  BY <1>7, <2>1, <2>3, ElementOfSeq DEF IsHex
<1> HIDE DEF d, format
<1>10. Unsigned(strtoi(d)) = Unsigned(1 * Unsigned(a))
  BY <1>7, <1>9, StrtoiReads
<1>11. 1 * Unsigned(a) = Unsigned(a) /\ Unsigned(Unsigned(a)) = Unsigned(a)
  BY UnsignedIs, IntLimits
<1> QED
  BY <1>8, <1>10, <1>11 DEF format, w

\* A line for the header and one for each OUT_W bytes.
LEMMA MemPrintIs ==
    ASSUME NEW a, NEW n \in Nat
    PROVE  /\ a \in Int => Unsigned(strtoi(Tail(memPrint(a, n)[1]))) = Unsigned(a)
           /\ Len(memPrint(a, n)) - 1 = n
<1> DEFINE h == printf(<<Char("@"), ZeroPadded("x", IntBits \div 4)>>, <<a>>)
           Row(i) == printf(<<ZeroPadded("x", IntBits \div 4), Char(Blank)>>,
                            <<Unsigned(a + OUT_W * (i - 1))>>)
           S == {h} \cup {Row(i) : i \in 1 .. n}
           rows == [i \in 1 .. n |-> Row(i)]
<1>1. memPrint(a, n) = <<h>> \o rows
  BY DEF memPrint
<1>2. a \in Int => Unsigned(strtoi(Tail(h))) = Unsigned(a)
  BY HeaderReadsBack
<1> HIDE DEF h, Row
<1>3. rows \in [1 .. n -> S] /\ h \in S
  OBVIOUS
<1> HIDE DEF S, rows
<1>4. rows \in Seq(S) /\ Len(rows) = n /\ <<h>> \in Seq(S)
  BY <1>3, ArrayIsSeq
<1>5. (<<h>> \o rows)[1] = h /\ Len(<<h>> \o rows) = 1 + n
  BY <1>3, <1>4
<1> QED
  BY <1>1, <1>2, <1>5

\* Two addresses that are the same to a program have the same bytes behind them.
LEMMA SameBytes ==
    ASSUME NEW a \in Int, NEW b \in Int, Unsigned(a) = Unsigned(b), NEW k \in Int
    PROVE  Unsigned(a + k) = Unsigned(b + k)
<1>1. PICK n \in Nat \ {0} : n = Word
  BY IntLimits
<1>2. a % n = b % n
  BY <1>1 DEF Unsigned
<1>3. PICK p \in Int : a = n * p + (a % n)
  BY DivisionIs
<1>4. PICK q \in Int : b = n * q + (b % n)
  BY DivisionIs
<1>5. PICK t \in Int : a + k = n * t + ((a + k) % n)
  <2> DEFINE v == a + k
  <2>1. v \in Int
    OBVIOUS
  <2> HIDE DEF v
  <2>2. v = n * (v \div n) + (v % n) /\ v \div n \in Int
    BY <2>1, DivisionIs
  <2> QED  BY <2>2 DEF v
<1> DEFINE r == (a + k) % n
<1>6. r \in 0 .. n - 1
  OBVIOUS
<1>6a. a + k = n * t + r
  BY <1>5
<1> HIDE DEF r
<1>7. b + k = n * (t - p + q) + r
  <2>1. n * (t - p + q) = n * t - n * p + n * q
    OBVIOUS
  <2>2. n * t \in Int /\ n * p \in Int /\ n * q \in Int
    OBVIOUS
  <2> DEFINE x == n * t
             y == n * p
             z == n * q
  <2> HIDE DEF x, y, z
  <2>3. n * (t - p + q) = x - y + z /\ x \in Int /\ y \in Int /\ z \in Int
    BY <2>1, <2>2 DEF x, y, z
  <2>4. a = y + (a % n) /\ b = z + (b % n) /\ a + k = x + r
    BY <1>3, <1>4, <1>6a DEF x, y, z
  <2> QED  BY <1>2, <1>6, <2>3, <2>4
<1>8. (b + k) % n = r
  <2> DEFINE m == t - p + q
             v == b + k
  <2>1. m \in Int /\ v \in Int
    OBVIOUS
  <2>2. v = n * m + r
    BY <1>7
  <2> HIDE DEF m, v
  <2>3. v % n = r
    BY <1>6, <2>1, <2>2, RemainderIs
  <2> QED  BY <2>3 DEF v
<1> QED
  BY <1>1, <1>8 DEF r, Unsigned

\* How far readmem gets: the lines before the last have no byte that cannot be
\* read, and the last one has one exactly if the program ends in it.
LEMMA ReadMemoryIs ==
    ASSUME NEW a, NEW asked \in Nat, NEW outcome \in ReadMemory(a, asked)
    PROVE  \E n \in 0 .. asked :
              /\ outcome.printed = memPrint(a, n)
              /\ IF ~outcome.faults THEN n = asked ELSE n \in 1 .. asked
              /\ \A i \in 1 .. n : (~outcome.faults \/ i < n) <=> IsReadable(a, i)
<1>1. PICK n \in 0 .. asked :
         /\ outcome = [printed |-> memPrint(a, n), faults |-> n > 0 /\ ~IsReadable(a, n)]
         /\ \A i \in 1 .. n - 1 : IsReadable(a, i)
         /\ n < asked => n > 0 /\ ~IsReadable(a, n)
  BY DEF ReadMemory
<1>2. outcome.printed = memPrint(a, n) /\ outcome.faults = (n > 0 /\ ~IsReadable(a, n))
  BY <1>1
<1>2a. outcome.faults <=> n > 0 /\ ~IsReadable(a, n)
  <2>1. CASE n > 0 /\ ~IsReadable(a, n)
    BY <1>2, <2>1
  <2>2. CASE ~(n > 0 /\ ~IsReadable(a, n))
    <3>1. outcome.faults = FALSE
      BY <1>2, <2>2
    <3> QED  BY <2>2, <3>1
  <2> QED  BY <2>1, <2>2
<1>3. IF ~outcome.faults THEN n = asked ELSE n \in 1 .. asked
  BY <1>1, <1>2a
<1>4. ASSUME NEW i \in 1 .. n
      PROVE  (~outcome.faults \/ i < n) <=> IsReadable(a, i)
  <2>1. CASE i < n
    BY <1>1, <2>1
  <2>2. CASE i = n
    BY <1>2a, <2>2
  <2> QED  BY <2>1, <2>2
<1> QED
  BY <1>2, <1>3, <1>4

\* NumbersAreRead of the words of a line, of what it printed and of whether the
\* program goes on.
ReadsAs(words, printed, on) ==
    LET address == Sign(words[2]) * Positional(16, Unsign(words[2]))
        asked == Unsigned(Clamp(Sign(words[3]) * Positional(10, Unsign(words[3])))) \div OUT_W
        lines == Len(printed) - 1
    IN  /\ IsHex(words[2]) =>
               /\ Unsigned(strtoi(Tail(printed[1]))) = Unsigned(address)
               /\ \A i \in 1 .. lines :
                     (on \/ i < lines) <=> \A j \in 0 .. OUT_W - 1 :
                         Unsigned(address + OUT_W * (i - 1) + j) \in Readable
        /\ IsDecimal(words[3]) => IF on THEN lines = asked ELSE lines \in 1 .. asked

\* What readmem prints of its arguments.
LEMMA ReadmemIs ==
    ASSUME NEW words \in Seq(Text), Len(words) > 2, NEW config,
           NEW outcome \in Outcomes("readmem", Tail(words), config)
    PROVE  ReadsAs(words, outcome.printed, ~outcome.faults)
<1> DEFINE args == Tail(words)
<1>1. Len(args) >= 2 /\ args[1] = words[2] /\ args[2] = words[3]
  <2>1. words # <<>> /\ Len(words) \in Nat
    OBVIOUS
  <2>2. Len(args) = Len(words) - 1 /\ \A i \in 1 .. Len(args) : args[i] = words[i + 1]
    BY <2>1, HeadTailProperties
  <2> QED  BY <2>1, <2>2
<1>2. words[2] \in Text /\ words[3] \in Text
  BY ElementOfSeq
<1>3. Outcomes("readmem", args, config)
        = IF Len(args) < 2 THEN {Quiet}
          ELSE ReadMemory(strtoi(args[1]), Unsigned(atoi(args[2])) \div OUT_W)
  BY Zenon DEF Outcomes
<1> HIDE DEF args
<1> DEFINE a == strtoi(words[2])
           c == atoi(words[3])
           asked == Unsigned(c) \div OUT_W
           hex == Sign(words[2]) * Positional(16, Unsign(words[2]))
<1>4. outcome \in ReadMemory(a, asked)
  <2>1. ~(Len(args) < 2)
    BY <1>1
  <2> QED  BY <1>1, <1>3, <2>1 DEF args
<1>5. ASSUME IsHex(words[2])
      PROVE  a \in Int /\ Unsigned(a) = Unsigned(hex) /\ hex \in Int
  <2>1. words[2] \in Seq(STRING)
    BY <1>2 DEF Text
  <2> QED  BY <1>5, <2>1, StrtoiReads
<1>6. IsDecimal(words[3]) => c = Clamp(Sign(words[3]) * Positional(10, Unsign(words[3])))
  BY <1>2, AtoiReads
<1>7. asked \in Nat /\ OUT_W \in Nat \ {0}
  <2>1. c \in Int
    BY <1>2, AtoiIsInt
  <2> HIDE DEF c
  <2>2. Unsigned(c) \in 0 .. Word - 1
    BY <2>1, UnsignedIs
  <2>3. OUT_W \in Nat \ {0}
    BY CommandLineConstants
  <2>4. Unsigned(c) \in Nat
    BY <2>2, IntLimits
  <2> HIDE DEF asked
  <2>5. Unsigned(c) \div OUT_W \in Nat
    BY <2>3, <2>4
  <2> QED  BY <2>3, <2>5 DEF asked
<1> HIDE DEF a, asked, hex
<1>8. PICK n \in 0 .. asked :
         /\ outcome.printed = memPrint(a, n)
         /\ IF ~outcome.faults THEN n = asked ELSE n \in 1 .. asked
         /\ \A i \in 1 .. n : (~outcome.faults \/ i < n) <=> IsReadable(a, i)
  BY <1>4, <1>7, ReadMemoryIs
<1>9. /\ a \in Int => Unsigned(strtoi(Tail(outcome.printed[1]))) = Unsigned(a)
      /\ Len(outcome.printed) - 1 = n
  BY <1>7, <1>8, MemPrintIs
<1>10. ASSUME IsHex(words[2]), NEW i \in 1 .. n
       PROVE  IsReadable(a, i) <=> \A j \in 0 .. OUT_W - 1 :
                                      Unsigned(hex + OUT_W * (i - 1) + j) \in Readable
  <2>1. IsReadable(a, i) <=> \A j \in 0 .. OUT_W - 1 : Unsigned(a + OUT_W * (i - 1) + j) \in Readable
    BY DEF IsReadable, BytesOf
  <2>2. ASSUME NEW j \in 0 .. OUT_W - 1
        PROVE  Unsigned(a + OUT_W * (i - 1) + j) = Unsigned(hex + OUT_W * (i - 1) + j)
    <3> DEFINE m == OUT_W * (i - 1)
    <3>1. m \in Int
      BY <1>7
    <3>2. a \in Int /\ hex \in Int /\ Unsigned(a) = Unsigned(hex)
      BY <1>5, <1>10
    <3> HIDE DEF m
    <3>3. Unsigned(a + (m + j)) = Unsigned(hex + (m + j))
      <4>1. m + j \in Int
        BY <1>7, <3>1
      <4> QED  BY <3>2, <4>1, SameBytes
    <3>4. a + (m + j) = a + m + j /\ hex + (m + j) = hex + m + j
      BY <1>7, <3>1, <3>2
    <3> QED  BY <3>3, <3>4 DEF m
  <2> QED  BY <2>1, <2>2
<1>11. IsDecimal(words[3]) =>
          asked = Unsigned(Clamp(Sign(words[3]) * Positional(10, Unsign(words[3])))) \div OUT_W
  BY <1>6 DEF asked
<1> HIDE DEF c
<1>12. IsHex(words[2]) =>
          /\ Unsigned(strtoi(Tail(outcome.printed[1]))) = Unsigned(hex)
          /\ \A i \in 1 .. Len(outcome.printed) - 1 :
                (~outcome.faults \/ i < Len(outcome.printed) - 1) <=>
                    \A j \in 0 .. OUT_W - 1 : Unsigned(hex + OUT_W * (i - 1) + j) \in Readable
  BY <1>5, <1>8, <1>9, <1>10
<1>13. IsDecimal(words[3]) =>
          IF ~outcome.faults
          THEN Len(outcome.printed) - 1
                 = Unsigned(Clamp(Sign(words[3]) * Positional(10, Unsign(words[3])))) \div OUT_W
          ELSE Len(outcome.printed) - 1
                 \in 1 .. Unsigned(Clamp(Sign(words[3]) * Positional(10, Unsign(words[3])))) \div OUT_W
  BY <1>8, <1>9, <1>11
<1> QED
  BY <1>12, <1>13, Zenon DEF ReadsAs, hex

LEMMA TheNumbersAreTheLines ==
    ASSUME LineInv, handle_command([command EXCEPT ![ptr] = "nul"])
    PROVE  NumbersAreRead'
<1> DEFINE buffer == [command EXCEPT ![ptr] = "nul"]
           t == Tokens(buffer)
           names == NameOf(t.word[1])
           name == IF names = {} THEN "not found" ELSE CHOOSE c \in names : TRUE
<1>1. CASE IsEmptyLine(buffer)
  <2>1. did'.name = "empty"
    BY <1>1 DEF handle_command, Nothing
  <2> QED  BY <2>1 DEF NumbersAreRead
<1>2. CASE ~IsEmptyLine(buffer)
  <2>1. PICK config : \E outcome \in Outcomes(name, Tail(t.word), config) :
             /\ did' = [name |-> name, line |-> shown, words |-> t.word, bus |-> config,
                        printed |-> outcome.printed]
             /\ running' = (name # "exit" /\ ~outcome.faults)
    BY <1>2 DEF handle_command
  <2>2. t.word \in Seq(Text)
    <3>1. Held(shown, buffer, 1) /\ shown \in Text /\ Len(shown) < LineSize
      BY LineIsHeld DEF LineInv
    <3> QED  BY <3>1, TokensAreTheWords DEF TokensRead
  <2> DEFINE words == t.word
  <2> HIDE DEF name, t, words
  <2>3. PICK outcome \in Outcomes(name, Tail(words), config) :
             /\ did'.name = name /\ did'.words = words /\ did'.printed = outcome.printed
             /\ running' = (name # "exit" /\ ~outcome.faults)
    BY <2>1 DEF words
  <2> SUFFICES ASSUME name = "readmem", Len(words) > 2
               PROVE  NumbersAreRead'
    BY <2>3 DEF NumbersAreRead
  <2>4. words \in Seq(Text) /\ outcome \in Outcomes("readmem", Tail(words), config)
    BY <2>2, <2>3 DEF words
  <2>5. ReadsAs(words, outcome.printed, ~outcome.faults)
    BY <2>4, ReadmemIs
  <2>6. running' = ~outcome.faults
    BY <2>3
  <2>7. ReadsAs(did'.words, did'.printed, running')
    BY <2>3, <2>5, <2>6
  <2> QED  BY <2>7 DEF NumbersAreRead, ReadsAs
<1> QED
  BY <1>1, <1>2

\* NumbersAreRead (main.c lines 13-32 and 73-80, stdlib.c lines 69-113 and
\* 137-192): whatever line was typed, and in every width of an int, readmem
\* starts at the number that was typed and shows the lines that were asked for;
\* where one has a byte that a program may not read, it and the shell end there.
THEOREM TheNumbersAreRead == Spec => []NumbersAreRead
<1>1. Init => LineInv /\ NumbersAreRead
  BY InitLine DEF Init, NumbersAreRead, Nothing
<1>2. ASSUME LineInv, NumbersAreRead, [Next]_commandVars
      PROVE  LineInv' /\ NumbersAreRead'
  <2>1. LineInv'
    BY <1>2, NextLine
  <2>2. CASE Newline
    BY <1>2, <2>1, <2>2, TheNumbersAreTheLines DEF Newline
  <2>3. CASE Backspace
    <3>1. did'.name = "none"
      BY <2>3 DEF Backspace, Nothing
    <3> QED  BY <2>1, <3>1 DEF NumbersAreRead
  <2>4. ASSUME NEW ch \in Character, Type(ch)
        PROVE  NumbersAreRead'
    <3>1. did'.name = "none"
      BY <2>4 DEF Type, Nothing
    <3> QED  BY <3>1 DEF NumbersAreRead
  <2>5. CASE UNCHANGED commandVars
    BY <1>2, <2>1, <2>5 DEF NumbersAreRead, commandVars
  <2> QED
    BY <1>2, <2>1, <2>2, <2>3, <2>4, <2>5 DEF Next
<1> QED
  BY <1>1, <1>2, PTL DEF Spec
-----------------------------------------------------------------------------
(* lspci. *)

LEMMA TripleIs ==
    ASSUME NEW A, NEW B, NEW C, NEW f \in A \X B \X C
    PROVE  f[1] \in A /\ f[2] \in B /\ f[3] \in C
OBVIOUS

LEMMA TriplesDiffer ==
    ASSUME NEW A, NEW B, NEW C, NEW f \in A \X B \X C, NEW g \in A \X B \X C,
           f[1] = g[1], f[2] = g[2], f[3] = g[3]
    PROVE  f = g
OBVIOUS

LEMMA SeqIsArray ==
    ASSUME NEW S, NEW s \in Seq(S)
    PROVE  s \in [1 .. Len(s) -> S]
OBVIOUS

LEMMA SeqOfLength ==
    ASSUME NEW S, NEW n, NEW s \in Seq(S), Len(s) = n
    PROVE  s \in [1 .. n -> S]
OBVIOUS

LEMMA InjectionIs ==
    ASSUME NEW S, NEW T, NEW f \in [S -> T], \A x, y \in S : f[x] = f[y] => x = y
    PROVE  f \in Injection(S, T)
BY DEF Injection, IsInjective

LEMMA NotEmpty ==
    ASSUME NEW s, Len(s) > 0
    PROVE  s # <<>>
OBVIOUS

\* A stretch inside a sequence.
LEMMA StretchIs ==
    ASSUME NEW S, NEW s \in Seq(S), NEW m \in 1 .. Len(s), NEW n \in m .. Len(s)
    PROVE  /\ SubSeq(s, m, n) \in Seq(S)
           /\ Len(SubSeq(s, m, n)) = n - m + 1
           /\ \A i \in 1 .. n - m + 1 : SubSeq(s, m, n)[i] = s[m + i - 1]
<1>1. \A i \in m .. n : s[i] \in S
  OBVIOUS
<1> QED
  BY <1>1, SubSeqProperties

LEMMA PairIs ==
    ASSUME NEW S, NEW s \in Seq(S), Len(s) = 2, NEW a \in S, NEW b \in S, s[1] = a, s[2] = b
    PROVE  s = <<a, b>>
<1>1. <<a, b>> \in Seq(S) /\ Len(<<a, b>>) = 2 /\ <<a, b>>[1] = a /\ <<a, b>>[2] = b
  OBVIOUS
<1>2. \A i \in 1 .. Len(s) : s[i] = <<a, b>>[i]
  <2> TAKE i \in 1 .. Len(s)
  <2>1. i = 1 \/ i = 2
    OBVIOUS
  <2> QED  BY <1>1, <2>1
<1> HIDE <1>1
<1> QED
  BY <1>1, <1>2, SeqEqual

LEMMA FunctionIs ==
    ASSUME NEW f \in Functions
    PROVE  /\ f[1] \in Bus /\ f[2] \in 0 .. 31 /\ f[3] \in 0 .. 7
           /\ f[1] \in 0 .. 255 /\ f[1] \in Int /\ f[2] \in Int /\ f[3] \in Int
           /\ Number(f) \in Int
<1>1. f[1] \in Bus /\ f[2] \in 0 .. 31 /\ f[3] \in 0 .. 7
  BY TripleIs DEF Functions
<1>2. f[1] \in 0 .. 255
  <2>1. Bus \subseteq 0 .. 255
    BY PciConstants
  <2>2. f[1] \in Bus
    BY <1>1
  <2> QED  BY <2>1, <2>2, ZenonT(30)
<1> HIDE DEF Functions
<1>3. f[1] \in Int /\ f[2] \in Int /\ f[3] \in Int
  BY <1>1, <1>2
<1> QED
  BY <1>1, <1>2, <1>3 DEF Number

\* A number of two parts is compared by its first part first.
LEMMA HigherPart ==
    ASSUME NEW p \in Int, NEW q \in Int, NEW m \in Nat, NEW a \in 0 .. m - 1, NEW b \in 0 .. m - 1
    PROVE  /\ p * m + a < q * m + b <=> p < q \/ (p = q /\ a < b)
           /\ p * m + a = q * m + b <=> p = q /\ a = b
<1>1. CASE p < q
  <2>1. (q - p) * m >= m /\ q * m = p * m + (q - p) * m
    <3>1. (q - p) - 1 >= 0
      BY <1>1
    <3>2. \A i \in Nat : i * m \in Nat
      OBVIOUS
    <3>3. ((q - p) - 1) * m >= 0
      BY <3>1, <3>2
    <3> QED  BY <3>3
  <2>2. p * m \in Int /\ q * m \in Int /\ (q - p) * m \in Int
    OBVIOUS
  <2> QED  BY <1>1, <2>1, <2>2
<1>2. CASE q < p
  <2>1. (p - q) * m >= m /\ p * m = q * m + (p - q) * m
    <3>1. (p - q) - 1 >= 0
      BY <1>2
    <3>2. \A i \in Nat : i * m \in Nat
      OBVIOUS
    <3>3. ((p - q) - 1) * m >= 0
      BY <3>1, <3>2
    <3> QED  BY <3>3
  <2>2. p * m \in Int /\ q * m \in Int /\ (p - q) * m \in Int
    OBVIOUS
  <2> QED  BY <1>2, <2>1, <2>2
<1>3. CASE p = q
  <2>1. p * m \in Int
    OBVIOUS
  <2> QED  BY <1>3, <2>1
<1> QED
  BY <1>1, <1>2, <1>3

\* The number of the last function of the last bus.
MaxNumber == 65535

LEMMA UpToMax ==
    ASSUME NEW h \in Int, h <= 65280, NEW a \in Int, a <= 255
    PROVE  h + a <= MaxNumber
BY SMT DEF MaxNumber

\* The order of the three loops is that of the numbers of the functions.
LEMMA LoopsCountUp ==
    ASSUME NEW f \in Functions, NEW g \in Functions
    PROVE  /\ 0 <= Number(f) /\ Number(f) <= MaxNumber
           /\ Precedes(f, g) <=> Number(f) < Number(g)
           /\ Number(f) = Number(g) => f = g
<1>1. /\ f[1] \in 0 .. 255 /\ f[2] \in 0 .. 31 /\ f[3] \in 0 .. 7
      /\ g[1] \in 0 .. 255 /\ g[2] \in 0 .. 31 /\ g[3] \in 0 .. 7
  BY FunctionIs
<1>2. Precedes(f, g) <=> \/ f[1] < g[1]
                         \/ f[1] = g[1] /\ f[2] < g[2]
                         \/ f[1] = g[1] /\ f[2] = g[2] /\ f[3] < g[3]
  <2>1. ASSUME NEW i \in 1 .. 3, f[i] < g[i], \A j \in 1 .. i - 1 : f[j] = g[j]
        PROVE  \/ f[1] < g[1]
               \/ f[1] = g[1] /\ f[2] < g[2]
               \/ f[1] = g[1] /\ f[2] = g[2] /\ f[3] < g[3]
    <3>1. CASE i = 1
      BY <2>1, <3>1
    <3>2. CASE i = 2
      <4>1. 1 \in 1 .. i - 1
        BY <3>2
      <4> QED  BY <2>1, <3>2, <4>1
    <3>3. CASE i = 3
      <4>1. 1 \in 1 .. i - 1 /\ 2 \in 1 .. i - 1
        BY <3>3
      <4> QED  BY <2>1, <3>3, <4>1
    <3> QED  BY <3>1, <3>2, <3>3
  <2>2. ASSUME f[1] < g[1]
        PROVE  Precedes(f, g)
    <3>1. 1 \in 1 .. 3 /\ \A j \in 1 .. 1 - 1 : f[j] = g[j]
      OBVIOUS
    <3> QED  BY <2>2, <3>1 DEF Precedes
  <2>3. ASSUME f[1] = g[1], f[2] < g[2]
        PROVE  Precedes(f, g)
    <3>1. 2 \in 1 .. 3 /\ \A j \in 1 .. 2 - 1 : f[j] = g[j]
      BY <2>3
    <3> QED  BY <2>3, <3>1 DEF Precedes
  <2>4. ASSUME f[1] = g[1], f[2] = g[2], f[3] < g[3]
        PROVE  Precedes(f, g)
    <3>1. 3 \in 1 .. 3 /\ \A j \in 1 .. 3 - 1 : f[j] = g[j]
      BY <2>4
    <3> QED  BY <2>4, <3>1 DEF Precedes
  <2> QED  BY <2>1, <2>2, <2>3, <2>4 DEF Precedes
<1>3. /\ Number(f) < Number(g) <=> \/ f[1] < g[1]
                                   \/ f[1] = g[1] /\ f[2] < g[2]
                                   \/ f[1] = g[1] /\ f[2] = g[2] /\ f[3] < g[3]
      /\ Number(f) = Number(g) => f[1] = g[1] /\ f[2] = g[2] /\ f[3] = g[3]
      /\ 0 <= Number(f) /\ Number(f) <= MaxNumber
  <2> DEFINE a1 == f[1]  a2 == f[2]  a3 == f[3]  a == 8 * a2 + a3  m == Number(f)
             b1 == g[1]  b2 == g[2]  b3 == g[3]  b == 8 * b2 + b3  n == Number(g)
  <2>1. m = 256 * a1 + 8 * a2 + a3 /\ n = 256 * b1 + 8 * b2 + b3
    BY DEF Number
  <2>2. /\ a1 \in 0 .. 255 /\ a2 \in 0 .. 31 /\ a3 \in 0 .. 7
        /\ b1 \in 0 .. 255 /\ b2 \in 0 .. 31 /\ b3 \in 0 .. 7
    BY <1>1
  <2> HIDE DEF a1, a2, a3, b1, b2, b3, m, n
  <2>3. /\ a2 * 8 + a3 < b2 * 8 + b3 <=> a2 < b2 \/ (a2 = b2 /\ a3 < b3)
        /\ a2 * 8 + a3 = b2 * 8 + b3 <=> a2 = b2 /\ a3 = b3
    <3>1. a3 \in 0 .. 8 - 1 /\ b3 \in 0 .. 8 - 1 /\ a2 \in Int /\ b2 \in Int
      BY <2>2
    <3> QED  BY <3>1, HigherPart
  <2>4. a \in 0 .. 255 /\ b \in 0 .. 255 /\ a = a2 * 8 + a3 /\ b = b2 * 8 + b3
    BY <2>2
  <2>5. m = a1 * 256 + a /\ n = b1 * 256 + b
    BY <2>1, <2>2
  <2> HIDE DEF a, b
  <2>6. /\ a1 * 256 + a < b1 * 256 + b <=> a1 < b1 \/ (a1 = b1 /\ a < b)
        /\ a1 * 256 + a = b1 * 256 + b <=> a1 = b1 /\ a = b
    <3>1. a \in 0 .. 256 - 1 /\ b \in 0 .. 256 - 1 /\ a1 \in Int /\ b1 \in Int
      BY <2>2, <2>4
    <3> QED  BY <3>1, HigherPart
  <2>7. m \in Int /\ 0 <= m /\ m <= MaxNumber
    <3> DEFINE h == a1 * 256
    <3>1. h \in Int /\ 0 <= h /\ h <= 65280
      BY <2>2
    <3>2. m = h + a
      BY <2>5
    <3> HIDE DEF h
    <3>3. a \in Int /\ 0 <= a /\ a <= 255
      BY <2>4
    <3>4. m \in Int /\ 0 <= m
      BY <3>1, <3>2, <3>3
    <3>5. m <= MaxNumber
      BY <3>1, <3>2, <3>3, UpToMax
    <3> QED  BY <3>4, <3>5
  <2>8. /\ m < n <=> a1 < b1 \/ (a1 = b1 /\ a2 < b2) \/ (a1 = b1 /\ a2 = b2 /\ a3 < b3)
        /\ m = n => a1 = b1 /\ a2 = b2 /\ a3 = b3
    BY <2>3, <2>4, <2>5, <2>6, ZenonT(60)
  <2> QED  BY <2>7, <2>8 DEF a1, a2, a3, b1, b2, b3, m, n
<1>4. f[1] = g[1] /\ f[2] = g[2] /\ f[3] = g[3] => f = g
  BY TriplesDiffer DEF Functions
<1> QED
  BY <1>2, <1>3, <1>4

\* Each function has its place in the list, and each place its function.
Lower(S, f) == {g \in S : Number(g) < Number(f)}

LEMMA PlacesAreTaken ==
    ASSUME NEW S, S \subseteq Functions
    PROVE  /\ IsFiniteSet(S) /\ Cardinality(S) \in Nat
           /\ \A i \in 1 .. Cardinality(S) : /\ NthNumber(S, i) \in S
                                             /\ NthScanned(S, i) = NthNumber(S, i)
<1> DEFINE number == [f \in S |-> Number(f)]
           rank == [f \in S |-> Cardinality(Lower(S, f))]
           c == Cardinality(S)
<1>1. IsFiniteSet(S) /\ c \in Nat
  <2>1. number \in Injection(S, 0 .. MaxNumber)
    <3>1. \A f \in S : Number(f) \in 0 .. MaxNumber
      <4> TAKE f \in S
      <4>1. Number(f) \in Int /\ 0 <= Number(f) /\ Number(f) <= MaxNumber
        BY LoopsCountUp, FunctionIs
      <4>2. MaxNumber \in Int
        BY SMT DEF MaxNumber
      <4> QED  BY <4>1, <4>2
    <3>2. \A f, g \in S : Number(f) = Number(g) => f = g
      BY LoopsCountUp
    <3>3. number \in [S -> 0 .. MaxNumber] /\ \A f, g \in S : number[f] = number[g] => f = g
      BY <3>1, <3>2
    <3> HIDE DEF number
    <3> QED  BY <3>3, InjectionIs
  <2>2. IsFiniteSet(0 .. MaxNumber)
    <3>1. 0 \in Int /\ MaxNumber \in Int
      BY SMT DEF MaxNumber
    <3> QED  BY <3>1, FS_Interval
  <2> HIDE DEF number
  <2> QED  BY <2>1, <2>2, FS_Injection, FS_CardinalityType
<1>2. \A f \in S : IsFiniteSet(Lower(S, f)) /\ Cardinality(Lower(S, f)) \in Nat
  <2> TAKE f \in S
  <2>1. Lower(S, f) \in SUBSET S
    BY DEF Lower
  <2> QED  BY <1>1, <2>1, FS_Subset, FS_CardinalityType
<1>3. \A f \in S, T \in SUBSET S :
         Lower(S, f) \cup {f} \subseteq T => Cardinality(Lower(S, f)) < Cardinality(T)
  <2> TAKE f \in S, T \in SUBSET S
  <2> HAVE Lower(S, f) \cup {f} \subseteq T
  <2>1. IsFiniteSet(T) /\ Cardinality(T) \in Nat
    BY <1>1, FS_Subset, FS_CardinalityType
  <2>2. f \notin Lower(S, f)
    <3>1. Number(f) \in Int
      BY FunctionIs
    <3> QED  BY <3>1 DEF Lower
  <2>3. Cardinality(Lower(S, f) \cup {f}) = Cardinality(Lower(S, f)) + 1
    BY <1>2, <2>2, FS_AddElement
  <2>4. Cardinality(Lower(S, f) \cup {f}) <= Cardinality(T)
    BY <2>1, FS_Subset
  <2> QED  BY <1>2, <2>1, <2>3, <2>4
<1>4. \A f \in S : Cardinality(Lower(S, f)) \in 0 .. c - 1
  <2> TAKE f \in S
  <2>1. Lower(S, f) \cup {f} \subseteq S
    BY DEF Lower
  <2>2. Cardinality(Lower(S, f)) < c
    BY <1>3, <2>1
  <2> QED  BY <1>1, <1>2, <2>2
<1>5. \A f, g \in S : Number(f) < Number(g) => Cardinality(Lower(S, f)) < Cardinality(Lower(S, g))
  <2> TAKE f \in S, g \in S
  <2> HAVE Number(f) < Number(g)
  <2>1. \A h \in S : Number(h) \in Int
    BY FunctionIs
  <2>2. Lower(S, f) \cup {f} \subseteq Lower(S, g) /\ Lower(S, g) \in SUBSET S
    BY <2>1 DEF Lower
  <2> QED  BY <1>3, <2>2
<1>6. \A f, g \in S : Cardinality(Lower(S, f)) = Cardinality(Lower(S, g)) => f = g
  <2> TAKE f \in S, g \in S
  <2> HAVE Cardinality(Lower(S, f)) = Cardinality(Lower(S, g))
  <2>1. Number(f) \in Int /\ Number(g) \in Int
    BY FunctionIs
  <2>2. ~(Number(f) < Number(g)) /\ ~(Number(g) < Number(f))
    BY <1>2, <1>5
  <2>3. Number(f) = Number(g)
    BY <2>1, <2>2
  <2> QED  BY <2>3, LoopsCountUp
<1>7. rank \in Surjection(S, 0 .. c - 1)
  <2>1. rank \in Injection(S, 0 .. c - 1)
    <3> HIDE DEF c
    <3>1. rank \in [S -> 0 .. c - 1]
      BY <1>4
    <3>2. \A f, g \in S : rank[f] = rank[g] => f = g
      BY <1>6
    <3> HIDE DEF rank
    <3> QED  BY <3>1, <3>2, InjectionIs, ZenonT(60)
  <2>2. IsFiniteSet(0 .. c - 1) /\ Cardinality(0 .. c - 1) = c
    <3> HIDE DEF c, rank
    <3>1. 0 \in Int /\ c - 1 \in Int /\ c \in Nat
      BY <1>1
    <3>2. /\ IsFiniteSet(0 .. c - 1)
          /\ Cardinality(0 .. c - 1) = IF 0 > c - 1 THEN 0 ELSE c - 1 - 0 + 1
      BY <3>1, FS_Interval
    <3> QED  BY <3>1, <3>2
  <2> HIDE DEF rank, c
  <2>3. Cardinality(S) = c
    BY DEF c
  <2> QED  BY <2>1, <2>2, <2>3, FS_Injection
<1>8. ASSUME NEW i \in 1 .. c
      PROVE  NthNumber(S, i) \in S /\ NthScanned(S, i) = NthNumber(S, i)
  <2>1. i - 1 \in 0 .. c - 1
    BY <1>1
  <2>2. PICK f \in S : Cardinality(Lower(S, f)) = i - 1
    BY <1>7, <2>1 DEF Surjection
  <2>3. \A g \in S : Cardinality(Lower(S, g)) = i - 1 <=> g = f
    BY <1>6, <2>2
  <2>4. NthNumber(S, i) = CHOOSE g \in S : Cardinality(Lower(S, g)) = i - 1
    BY DEF NthNumber, Lower
  <2>5. NthNumber(S, i) = f
    BY <2>3, <2>4
  <2>6. \A g \in S : {h \in S : Precedes(h, g)} = Lower(S, g)
    BY LoopsCountUp DEF Lower
  <2>7. \A g \in S : Cardinality({h \in S : Precedes(h, g)}) = i - 1 <=> g = f
    BY <2>3, <2>6
  <2>8. NthScanned(S, i) = f
    BY <2>7 DEF NthScanned
  <2> QED  BY <2>5, <2>8
<1> QED
  BY <1>1, <1>8

\* The registers of a function that there is, and the answer of an empty slot.
LEMMA RegistersAreRead ==
    ASSUME NEW config \in Config, NEW f \in Functions
    PROVE  /\ Present(config, f) <=> f \in DOMAIN config
           /\ f \in DOMAIN config =>
                 /\ PCIGetVendorID(config, f) = SubSeq(config[f][0], 1, 2)
                 /\ PCIGetVendorID(config, f) \in [1 .. 2 -> Byte]
                 /\ PCIGetClassCode(config, f) = Tail(config[f][8])
                 /\ PCIGetClassCode(config, f) \in [1 .. 3 -> Byte]
<1>1. f[1] \in 0 .. 255 /\ f[2] \in 0 .. 31 /\ f[3] \in 0 .. 7
  BY FunctionIs
<1>2. ~(f[2] > 31 \/ f[3] > 7)
  BY <1>1
<1>3. /\ 0 - (0 % 4) = 0 /\ 8 - (8 % 4) = 8 /\ 2 * ((0 \div 2) % 2) = 0
      /\ 0 + 1 = 1 /\ 0 + 2 = 2 /\ 0 + 4 = 4
  OBVIOUS
<1>4. PCIGetVendorID(config, f) = SubSeq(Inl(config, PCI_CONF1_ADDRESS(f, 0)), 1, 2)
  BY <1>2, <1>3 DEF PCIGetVendorID, PCIDirectRead
<1>5. PCIGetClassCode(config, f) = SubSeq(SubSeq(Inl(config, PCI_CONF1_ADDRESS(f, 8)), 1, 4), 2, 4)
  BY <1>2, <1>3 DEF PCIGetClassCode, PCIDirectRead
<1>6. CASE f \notin DOMAIN config
  <2>1. Inl(config, PCI_CONF1_ADDRESS(f, 0)) = <<255, 255, 255, 255>>
    BY <1>6 DEF Inl, PCI_CONF1_ADDRESS
  <2>2. SubSeq(<<255, 255, 255, 255>>, 1, 2) = <<255, 255>>
    <3> DEFINE e == <<255, 255, 255, 255>>
    <3>1. e \in Seq(Int) /\ Len(e) = 4 /\ e[1] = 255 /\ e[2] = 255
      OBVIOUS
    <3> HIDE DEF e
    <3>2. /\ SubSeq(e, 1, 2) \in Seq(Int) /\ Len(SubSeq(e, 1, 2)) = 2 - 1 + 1
          /\ \A i \in 1 .. 2 - 1 + 1 : SubSeq(e, 1, 2)[i] = e[1 + i - 1]
      BY <3>1, StretchIs
    <3>3. /\ Len(SubSeq(e, 1, 2)) = 2
          /\ SubSeq(e, 1, 2)[1] = 255 /\ SubSeq(e, 1, 2)[2] = 255
      BY <3>1, <3>2
    <3> DEFINE t == SubSeq(e, 1, 2)
    <3> HIDE DEF t
    <3>4. t \in Seq(Int) /\ Len(t) = 2 /\ t[1] = 255 /\ t[2] = 255 /\ 255 \in Int
      BY <3>2, <3>3 DEF t
    <3>5. t = <<255, 255>>
      BY <3>4, PairIs
    <3> QED  BY <3>5 DEF t, e
  <2> QED  BY <1>4, <1>6, <2>1, <2>2 DEF Present
<1>7. CASE f \in DOMAIN config
  <2> DEFINE r == config[f][0]
             s == config[f][8]
  <2>1. r \in [1 .. 4 -> Byte] /\ s \in [1 .. 4 -> Byte] /\ SubSeq(r, 1, 2) # <<255, 255>>
    BY <1>7, CommandLineConstants DEF HasRegisters
  <2>2. Inl(config, PCI_CONF1_ADDRESS(f, 0)) = r /\ Inl(config, PCI_CONF1_ADDRESS(f, 8)) = s
    BY <1>3, <1>7 DEF Inl, PCI_CONF1_ADDRESS
  <2> HIDE DEF r, s
  <2>3. r \in Seq(Byte) /\ Len(r) = 4 /\ s \in Seq(Byte) /\ Len(s) = 4
    BY <2>1, ArrayIsSeq
  <2>4. SubSeq(r, 1, 2) \in [1 .. 2 -> Byte]
    <3>1. SubSeq(r, 1, 2) \in Seq(Byte) /\ Len(SubSeq(r, 1, 2)) = 2 - 1 + 1
      <4>1. 1 \in 1 .. Len(r) /\ 2 \in 1 .. Len(r) /\ r \in Seq(Byte)
        BY <2>3
      <4> QED  BY <4>1, StretchIs
    <3> DEFINE t == SubSeq(r, 1, 2)
    <3> HIDE DEF t
    <3>2. t \in Seq(Byte) /\ Len(t) = 2
      BY <3>1 DEF t
    <3>3. t \in [1 .. 2 -> Byte]
      BY <3>2, SeqOfLength, Zenon
    <3> QED  BY <3>3 DEF t
  <2>5. SubSeq(SubSeq(s, 1, 4), 2, 4) = Tail(s) /\ Tail(s) \in [1 .. 3 -> Byte]
    <3> DEFINE u == SubSeq(s, 1, 4)
               v == SubSeq(u, 2, 4)
               w == Tail(s)
    <3>1. /\ u \in Seq(Byte) /\ Len(u) = 4 - 1 + 1
          /\ \A i \in 1 .. 4 - 1 + 1 : u[i] = s[1 + i - 1]
      <4>1. 1 \in 1 .. Len(s) /\ 4 \in 1 .. Len(s) /\ s \in Seq(Byte)
        BY <2>3
      <4> QED  BY <4>1, StretchIs
    <3> HIDE DEF u
    <3>2. Len(u) = 4 /\ \A i \in 1 .. 4 : u[i] = s[i]
      BY <3>1
    <3>3. /\ v \in Seq(Byte) /\ Len(v) = 4 - 2 + 1
          /\ \A i \in 1 .. 4 - 2 + 1 : v[i] = u[2 + i - 1]
      <4>1. 2 \in 1 .. Len(u) /\ 4 \in 2 .. Len(u) /\ u \in Seq(Byte)
        BY <3>1, <3>2
      <4> QED  BY <4>1, StretchIs
    <3>4. s # <<>>
      BY <2>3, NotEmpty
    <3>5. w \in Seq(Byte) /\ Len(w) = Len(s) - 1 /\ \A i \in 1 .. Len(w) : w[i] = s[i + 1]
      BY <2>3, <3>4, HeadTailProperties
    <3> HIDE DEF v, w
    <3>6. Len(v) = 3 /\ Len(w) = 3 /\ \A i \in 1 .. Len(v) : v[i] = w[i]
      <4>1. Len(v) = 3 /\ Len(w) = 3
        BY <2>3, <3>3, <3>5
      <4>2. \A i \in 1 .. 3 : v[i] = w[i]
        <5> TAKE i \in 1 .. 3
        <5>1. v[i] = u[2 + i - 1] /\ 2 + i - 1 \in 1 .. 4 /\ 2 + i - 1 = i + 1
          BY <3>3
        <5>2. u[2 + i - 1] = s[2 + i - 1]
          BY <3>2, <5>1
        <5>3. w[i] = s[i + 1]
          BY <3>5, <4>1
        <5> QED  BY <5>1, <5>2, <5>3
      <4> QED  BY <4>1, <4>2
    <3>7. v = w
      BY <3>3, <3>5, <3>6, SeqEqual
    <3>8. w \in [1 .. 3 -> Byte]
      <4>1. w \in Seq(Byte) /\ Len(w) = 3
        BY <3>5, <3>6
      <4> QED  BY <4>1, SeqOfLength, Zenon
    <3> QED  BY <3>7, <3>8 DEF u, v, w
  <2>6. PCIGetVendorID(config, f) = SubSeq(r, 1, 2) /\ Present(config, f)
    BY <1>4, <2>1, <2>2 DEF Present
  <2>7. PCIGetClassCode(config, f) = Tail(s)
    BY <1>5, <2>2, <2>5
  <2> QED  BY <1>7, <2>4, <2>5, <2>6, <2>7, SMTT(30) DEF r, s
<1> QED
  BY <1>6, <1>7
LEMMA SeqGrows ==
    ASSUME NEW S, NEW T, S \subseteq T, NEW s \in Seq(S)
    PROVE  s \in Seq(T)
<1>1. s \in [1 .. Len(s) -> S] /\ Len(s) \in Nat
  BY SeqIsArray
<1>2. s \in [1 .. Len(s) -> T]
  BY <1>1
<1> QED
  BY <1>1, <1>2, ArrayIsSeq

\* What is left of a byte after one, two and three digits.
LEMMA ByteShifted ==
    ASSUME NEW v \in 0 .. 255, NEW rest, Shifted(v, rest)
    PROVE  rest[0] = v /\ rest[1] = v \div 16 /\ rest[2] = 0 /\ rest[3] = 0
<1>1. rest[0] = v
  <2>1. Unsigned(v) = v
    BY IntLimits, UnsignedIs
  <2> QED  BY <2>1 DEF Shifted
<1>2. /\ 1 \in 1 .. IntBits /\ 2 \in 1 .. IntBits /\ 3 \in 1 .. IntBits
      /\ 1 - 1 = 0 /\ 2 - 1 = 1 /\ 3 - 1 = 2
  BY IntAssumption
<1>3. rest[1] = rest[0] \div 16 /\ rest[2] = rest[1] \div 16 /\ rest[3] = rest[2] \div 16
  BY <1>2 DEF Shifted
<1>4. (v \div 16) \div 16 = 0 /\ 0 \div 16 = 0
  OBVIOUS
<1> QED
  BY <1>1, <1>3, <1>4

LEMMA PlacesOfAByte ==
    ASSUME NEW v \in 0 .. 255, NEW rest, Shifted(v, rest), NEW w \in {2, 3}
    PROVE  Places(rest, w) = InPlaces(v, w)
<1>1. rest[0] = v /\ rest[1] = v \div 16 /\ rest[2] = 0
  BY ByteShifted
<1>2. v \div 1 = v /\ v \div 256 = 0
  OBVIOUS
<1> DEFINE q == <<1, 16, 256>>
<1>3. q[1] = 1 /\ q[2] = 16 /\ q[3] = 256
  OBVIOUS
<1> HIDE DEF q
<1>4. \A i \in 1 .. w : rest[w - i] = v \div q[w - i + 1]
  <2> TAKE i \in 1 .. w
  <2>1. w - i = 0 \/ w - i = 1 \/ w - i = 2
    OBVIOUS
  <2>2. 0 + 1 = 1 /\ 1 + 1 = 2 /\ 2 + 1 = 3
    OBVIOUS
  <2> QED  BY <1>1, <1>2, <1>3, <2>1, <2>2
<1> QED
  BY <1>4 DEF Places, InPlaces, q

\* The characters in a line of lspci, with those of a text that nobody wrote.
LineChar == HexDigit \cup {":", "(", ")", "/", "u", "n", "c", Blank} \cup STRING

\* The state of printf in the middle of a line: what it has printed, what the
\* last width has left, and the arguments that are left.
Stands(s, o, m, as) == s = [out |-> o, num |-> m, args |-> as] /\ o \in Seq(LineChar)

LEMMA ByteStep ==
    ASSUME NEW s, NEW o, NEW m, NEW as, Stands(s, o, m, as),
           NEW v \in 0 .. 255, Head(as) = v, NEW w \in {2, 3},
           NEW t, t = PrintItem(s, ZeroPadded("x", w)), NEW x, x = o \o InPlaces(v, w),
           NEW bs, bs = Tail(as)
    PROVE  Stands(t, x, -1, bs)
<1>0. s = [out |-> o, num |-> m, args |-> as] /\ o \in Seq(LineChar)
  BY DEF Stands
<1>1. w \in 1 .. IntBits
  BY IntAssumption
<1>2. \A rest : Shifted(v, rest) => rest[w] = 0
  BY ByteShifted
<1>3. HexDigit \subseteq LineChar
  BY DEF LineChar
<1>4. PrintsPlaces(o, m, as, w)
  <2>1. Head(as) \in Int
    <3>1. v \in Int
      OBVIOUS
    <3> QED  BY <3>1, Zenon
  <2>2. \A rest : Shifted(Head(as), rest) => rest[w] = 0
    BY <1>2, Zenon
  <2> QED  BY <1>0, <1>1, <1>3, <2>1, <2>2, HexIsPrinted, Zenon
<1>5. PICK rest : /\ Shifted(v, rest)
                  /\ PrintItem([out |-> o, num |-> m, args |-> as], ZeroPadded("x", w))
                       = [out |-> o \o Places(rest, w), num |-> -1, args |-> Tail(as)]
  BY <1>4, Zenon DEF PrintsPlaces
<1>6. Places(rest, w) = InPlaces(v, w)
  BY <1>5, PlacesOfAByte
<1>7. Places(rest, w) \in Seq(HexDigit)
  BY <1>1, <1>2, <1>5, PlacesStandFor
<1>8. Places(rest, w) \in Seq(LineChar)
  BY <1>3, <1>7, SeqGrows
<1>9. o \o Places(rest, w) \in Seq(LineChar)
  BY <1>0, <1>8, ConcatProperties
<1>10. t = [out |-> x, num |-> -1, args |-> bs]
  BY <1>0, <1>5, <1>6, Zenon
<1> QED
  BY <1>6, <1>9, <1>10 DEF Stands

LEMMA SignIsPrinted ==
    ASSUME NEW o \in Seq(LineChar), NEW m, NEW as, NEW c \in LineChar
    PROVE  /\ PrintItem([out |-> o, num |-> m, args |-> as], Char(c))
                = [out |-> o \o <<c>>, num |-> m, args |-> as]
           /\ o \o <<c>> \in Seq(LineChar)
<1>1. Append(o, c) = o \o <<c>>
  BY AppendIsConcat
<1>2. o \o <<c>> \in Seq(LineChar)
  BY ConcatProperties
<1> DEFINE x == o \o <<c>>
           y == Append(o, c)
<1>3. PrintItem([out |-> o, num |-> m, args |-> as], Char(c)) = [out |-> y, num |-> m, args |-> as]
  BY CharIsPrinted
<1>4. x = y
  BY <1>1
<1> HIDE DEF x, y
<1>5. PrintItem([out |-> o, num |-> m, args |-> as], Char(c)) = [out |-> x, num |-> m, args |-> as]
  BY <1>3, <1>4
<1> QED
  BY <1>2, <1>5 DEF x

\* What the number before it has left in num gives a name no blanks.
LEMMA NameIsPrinted ==
    ASSUME NEW o \in Seq(LineChar), NEW as, NEW p \in Seq(LineChar), Head(as) = p
    PROVE  /\ PrintItem([out |-> o, num |-> -1, args |-> as], Plain("s"))
                = [out |-> o \o p, num |-> -1, args |-> Tail(as)]
           /\ o \o p \in Seq(LineChar)
<1> DEFINE item == Plain("s")
           left == -1
           st == [out |-> o, num |-> left, args |-> as]
<1>1. item.kind = "s" /\ item.own = FALSE /\ item.sym = Blank /\ item.padRight = FALSE
  BY DEF Plain
<1>2. st.out = o /\ st.num = left /\ st.args = as
  OBVIOUS
<1>3. left # 0 /\ Reduced(left, Len(p)) = 0
  BY DEF Reduced
<1>4. Times(0, Blank) = <<>>
  <2>1. 0 % 256 = 0
    OBVIOUS
  <2>2. Times(0, Blank) = [i \in 1 .. 0 |-> Blank]
    BY <2>1 DEF Times
  <2> QED  BY <2>2
<1>5. o \o p \in Seq(LineChar) /\ o \o <<>> = o
  BY ConcatProperties
<1>6. (o \o p) \o <<>> = o \o p
  BY <1>5
<1> HIDE DEF item, st, left
<1>7. PrintItem(st, item)
        = [out |-> o \o Times(Reduced(left, Len(p)), Blank) \o p \o <<>>, num |-> -1,
           args |-> Tail(as)]
  BY <1>1, <1>2, <1>3 DEF PrintItem, strlen
<1> QED
  BY <1>3, <1>4, <1>5, <1>6, <1>7 DEF item, st, left

\* The names of classes and vendors.
LEMMA NamesAreSeqs ==
    /\ \A v \in Byte : itoa(16, v) \in Seq(LineChar)
    /\ \A v, w \in Byte : Name(v, w) \in Seq(LineChar)
    /\ \A class \in [1 .. 3 -> Byte] : PCIGetClassName(class) \in Seq(LineChar)
    /\ \A vendor \in [1 .. 2 -> Byte], text \in Garbage :
          PCIGetVendorName(vendor, text) \in Seq(LineChar)
<1>1. ASSUME NEW v \in Byte
      PROVE  itoa(16, v) \in Seq(LineChar)
  <2>1. v \in Int /\ v \in 0 .. 255 /\ 3 \in 1 .. IntBits
    BY IntAssumption DEF Byte
  <2>2. \A rest : Shifted(v, rest) => rest[3] = 0
    BY <2>1, ByteShifted
  <2>3. itoa(16, v) \in Seq(HexDigit)
    BY <2>1, <2>2, PaddedIs
  <2> QED  BY <2>3, SeqGrows DEF LineChar
<1>2. ASSUME NEW v \in Byte, NEW w \in Byte
      PROVE  Name(v, w) \in Seq(LineChar)
  <2>1. "/" \in LineChar
    BY DEF LineChar
  <2>2. <<"/">> \in Seq(LineChar)
    BY <2>1
  <2>3. itoa(16, v) \o <<"/">> \in Seq(LineChar)
    BY <1>1, <2>2, ConcatProperties
  <2>4. (itoa(16, v) \o <<"/">>) \o itoa(16, w) \in Seq(LineChar)
    BY <1>1, <2>3, ConcatProperties
  <2> QED  BY <2>4 DEF Name
<1>3. ASSUME NEW class \in [1 .. 3 -> Byte]
      PROVE  PCIGetClassName(class) \in Seq(LineChar)
  <2>1. class[3] \in Byte /\ class[2] \in Byte /\ 4 \in Byte
    BY DEF Byte
  <2>2. Unclassified \in Seq(LineChar)
    <3>1. "u" \in LineChar /\ "n" \in LineChar /\ "c" \in LineChar
      BY DEF LineChar
    <3> QED  BY <3>1 DEF Unclassified
  <2>3. itoa(16, class[3]) \in Seq(LineChar)
    BY <1>1, <2>1
  <2>4. Name(IF class[3] = 3 THEN 4 ELSE class[3], class[2]) \in Seq(LineChar)
    <3>1. (IF class[3] = 3 THEN 4 ELSE class[3]) \in Byte
      BY <2>1
    <3> QED  BY <1>2, <2>1, <3>1
  <2> QED  BY <2>2, <2>3, <2>4, Zenon DEF PCIGetClassName
<1>4. ASSUME NEW vendor \in [1 .. 2 -> Byte], NEW text \in Garbage
      PROVE  PCIGetVendorName(vendor, text) \in Seq(LineChar)
  <2>1. vendor[1] \in Byte /\ vendor[2] \in Byte
    OBVIOUS
  <2>2. text \in Seq(LineChar)
    <3>1. text \in Seq(STRING)
      BY CommandLineConstants DEF Text
    <3> QED  BY <3>1, SeqGrows DEF LineChar
  <2> QED  BY <1>2, <2>1, <2>2 DEF PCIGetVendorName
<1> QED
  BY <1>1, <1>2, <1>3, <1>4

\* The columns of a line: three numbers, the class and the vendor.
ColumnsWith(b, d, n, c) ==
    InPlaces(b, 3) \o <<":">> \o InPlaces(d, 2) \o <<":">> \o InPlaces(n, 2) \o <<Blank>>
      \o c \o <<"(">>

LEMMA FiveArguments ==
    ASSUME NEW b, NEW d, NEW n, NEW c, NEW v, NEW as1, NEW as2, NEW as3, NEW as4, NEW as0,
           as0 = <<b, d, n, c, v>>,
           as1 = Tail(as0), as2 = Tail(as1), as3 = Tail(as2), as4 = Tail(as3)
    PROVE  Head(as0) = b /\ Head(as1) = d /\ Head(as2) = n /\ Head(as3) = c /\ Head(as4) = v
<1>1. as1 = <<d, n, c, v>>
  OBVIOUS
<1>2. as2 = <<n, c, v>>
  BY <1>1
<1>3. as3 = <<c, v>>
  BY <1>2
<1>4. as4 = <<v>>
  BY <1>3
<1> QED
  BY <1>1, <1>2, <1>3, <1>4

LEMMA SignStep ==
    ASSUME NEW s, NEW o, NEW m, NEW as, Stands(s, o, m, as), NEW c \in LineChar,
           NEW t, t = PrintItem(s, Char(c)), NEW x, x = o \o <<c>>
    PROVE  Stands(t, x, m, as)
<1>1. s = [out |-> o, num |-> m, args |-> as] /\ o \in Seq(LineChar)
  BY DEF Stands
<1>2. /\ PrintItem(s, Char(c)) = [out |-> o \o <<c>>, num |-> m, args |-> as]
      /\ o \o <<c>> \in Seq(LineChar)
  BY <1>1, SignIsPrinted, Zenon
<1> QED
  BY <1>2 DEF Stands

LEMMA NameStep ==
    ASSUME NEW s, NEW o, NEW as, Stands(s, o, -1, as), NEW p \in Seq(LineChar), Head(as) = p,
           NEW t, t = PrintItem(s, Plain("s")), NEW x, x = o \o p, NEW bs, bs = Tail(as)
    PROVE  Stands(t, x, -1, bs)
<1>1. s = [out |-> o, num |-> -1, args |-> as] /\ o \in Seq(LineChar)
  BY DEF Stands
<1>2. /\ PrintItem(s, Plain("s")) = [out |-> o \o p, num |-> -1, args |-> Tail(as)]
      /\ o \o p \in Seq(LineChar)
  BY <1>1, NameIsPrinted, Zenon
<1> QED
  BY <1>2 DEF Stands

AreTheItems(f, a1, a2, a3, a4, a5, a6, a7, a8, a9, a10) ==
    /\ Len(f) = 10 /\ f[1] = a1 /\ f[2] = a2 /\ f[3] = a3 /\ f[4] = a4 /\ f[5] = a5
    /\ f[6] = a6 /\ f[7] = a7 /\ f[8] = a8 /\ f[9] = a9 /\ f[10] = a10

LEMMA TenItems ==
    ASSUME NEW a1, NEW a2, NEW a3, NEW a4, NEW a5, NEW a6, NEW a7, NEW a8, NEW a9, NEW a10,
           NEW x, x = <<a1, a2, a3, a4, a5, a6, a7, a8>>, NEW y, y = <<a9, a10>>, NEW f, f = x \o y
    PROVE  AreTheItems(f, a1, a2, a3, a4, a5, a6, a7, a8, a9, a10)
<1> DEFINE S == {a1, a2, a3, a4, a5, a6, a7, a8, a9, a10}
<1>1. /\ x \in Seq(S) /\ Len(x) = 8 /\ x[1] = a1 /\ x[2] = a2 /\ x[3] = a3
      /\ x[4] = a4 /\ x[5] = a5 /\ x[6] = a6 /\ x[7] = a7 /\ x[8] = a8
  OBVIOUS
<1>2. y \in Seq(S) /\ Len(y) = 2 /\ y[1] = a9 /\ y[2] = a10
  OBVIOUS
<1> HIDE DEF S
<1>3. /\ Len(f) = Len(x) + Len(y)
      /\ \A k \in 1 .. Len(x) + Len(y) : f[k] = IF k <= Len(x) THEN x[k] ELSE y[k - Len(x)]
  BY <1>1, <1>2, ConcatProperties
<1>4. Len(f) = 10 /\ \A k \in 1 .. 10 : f[k] = IF k <= 8 THEN x[k] ELSE y[k - 8]
  BY <1>1, <1>2, <1>3
<1> QED
  BY <1>1, <1>2, <1>4 DEF AreTheItems

\* The conversions of a line, whole or up to the name of the vendor.
LEMMA FormatIs ==
    ASSUME NEW faults \in BOOLEAN, NEW format,
           format = IF faults THEN Columns ELSE Columns \o <<Plain("s"), Char(")")>>
    PROVE  /\ Len(format) = IF faults THEN 8 ELSE 10
           /\ format[1] = ZeroPadded("x", 3) /\ format[2] = Char(":")
           /\ format[3] = ZeroPadded("x", 2) /\ format[4] = Char(":")
           /\ format[5] = ZeroPadded("x", 2) /\ format[6] = Char(Blank)
           /\ format[7] = Plain("s") /\ format[8] = Char("(")
           /\ ~faults => format[9] = Plain("s") /\ format[10] = Char(")")
<1> DEFINE z3 == ZeroPadded("x", 3)
           z2 == ZeroPadded("x", 2)
           colon == Char(":")
           blank == Char(Blank)
           name == Plain("s")
           open == Char("(")
           close == Char(")")
<1>1. Columns = <<z3, colon, z2, colon, z2, blank, name, open>>
  BY DEF Columns
<1> HIDE DEF z3, z2, colon, blank, name, open, close
<1>2. CASE faults
  <2>1. format = <<z3, colon, z2, colon, z2, blank, name, open>>
    BY <1>1, <1>2
  <2> QED  BY <1>2, <2>1 DEF z3, z2, colon, blank, name, open
<1>3. CASE ~faults
  <2>1. format = <<z3, colon, z2, colon, z2, blank, name, open>> \o <<name, close>>
    BY <1>1, <1>3 DEF name, close
  <2>2. AreTheItems(format, z3, colon, z2, colon, z2, blank, name, open, name, close)
    BY <2>1, TenItems, Zenon
  <2> QED
    BY <1>3, <2>2 DEF AreTheItems, z3, z2, colon, blank, name, open, close
<1> QED
  BY <1>2, <1>3

LEMMA DeviceLineIs ==
    ASSUME NEW device, device.bus \in 0 .. 255, device.dev \in 0 .. 31, device.fn \in 0 .. 7,
           device.class \in [1 .. 3 -> Byte], device.vendor \in [1 .. 2 -> Byte],
           NEW text \in Garbage, NEW faults \in BOOLEAN, NEW columns,
           columns = ColumnsWith(device.bus, device.dev, device.fn, PCIGetClassName(device.class))
    PROVE  DeviceLine(device, text, faults)
             = IF faults THEN columns
               ELSE columns \o PCIGetVendorName(device.vendor, text) \o <<")">>
<1> DEFINE b == device.bus
           d == device.dev
           n == device.fn
           c == PCIGetClassName(device.class)
           v == PCIGetVendorName(device.vendor, text)
           format == IF faults THEN Columns ELSE Columns \o <<Plain("s"), Char(")")>>
           as0 == <<b, d, n, c, v>>
           as1 == Tail(as0)
           as2 == Tail(as1)
           as3 == Tail(as2)
           as4 == Tail(as3)
<1>1. /\ b \in 0 .. 255 /\ d \in 0 .. 255 /\ n \in 0 .. 255
      /\ c \in Seq(LineChar) /\ v \in Seq(LineChar)
  <2>1. b \in 0 .. 255 /\ d \in 0 .. 255 /\ n \in 0 .. 255
    <3>1. b \in 0 .. 255 /\ d \in 0 .. 31 /\ n \in 0 .. 7
      OBVIOUS
    <3> HIDE DEF b, d, n
    <3> QED  BY <3>1
  <2>2. c \in Seq(LineChar) /\ v \in Seq(LineChar)
    BY NamesAreSeqs, Zenon
  <2> QED  BY <2>1, <2>2
<1>2. /\ Len(format) = IF faults THEN 8 ELSE 10
      /\ format[1] = ZeroPadded("x", 3) /\ format[2] = Char(":")
      /\ format[3] = ZeroPadded("x", 2) /\ format[4] = Char(":")
      /\ format[5] = ZeroPadded("x", 2) /\ format[6] = Char(Blank)
      /\ format[7] = Plain("s") /\ format[8] = Char("(")
      /\ ~faults => format[9] = Plain("s") /\ format[10] = Char(")")
  BY FormatIs
<1>3. DeviceLine(device, text, faults) = printf(format, as0)
  BY DEF DeviceLine
<1> HIDE DEF b, d, n, c, v, format
<1>4. Head(as0) = b /\ Head(as1) = d /\ Head(as2) = n /\ Head(as3) = c /\ Head(as4) = v
  <2> HIDE DEF as0, as1, as2, as3, as4
  <2> QED  BY FiveArguments DEF as0, as1, as2, as3, as4
<1>5. PICK state : /\ state[0] = [out |-> <<>>, num |-> 0, args |-> as0]
                   /\ \A k \in 1 .. Len(format) : state[k] = PrintItem(state[k - 1], format[k])
                   /\ printf(format, as0) = state[Len(format)].out
  <2>1. Len(format) \in Nat
    BY <1>2
  <2> HIDE DEF as0
  <2> QED  BY <2>1, PrintfIs
<1>6. /\ \A k \in 1 .. Len(format) : state[k] = PrintItem(state[k - 1], format[k])
      /\ printf(format, as0) = state[Len(format)].out
      /\ 1 .. 8 \subseteq 1 .. Len(format) /\ (~faults => {9, 10} \subseteq 1 .. Len(format))
  BY <1>2, <1>5
<1> HIDE DEF as0, as1, as2, as3, as4
<1>7. /\ state[1] = PrintItem(state[0], ZeroPadded("x", 3))
      /\ state[2] = PrintItem(state[1], Char(":"))
      /\ state[3] = PrintItem(state[2], ZeroPadded("x", 2))
      /\ state[4] = PrintItem(state[3], Char(":"))
      /\ state[5] = PrintItem(state[4], ZeroPadded("x", 2))
      /\ state[6] = PrintItem(state[5], Char(Blank))
      /\ state[7] = PrintItem(state[6], Plain("s"))
      /\ state[8] = PrintItem(state[7], Char("("))
      /\ ~faults => /\ state[9] = PrintItem(state[8], Plain("s"))
                    /\ state[10] = PrintItem(state[9], Char(")"))
  <2>1. /\ 1 - 1 = 0 /\ 2 - 1 = 1 /\ 3 - 1 = 2 /\ 4 - 1 = 3 /\ 5 - 1 = 4 /\ 6 - 1 = 5 /\ 7 - 1 = 6
        /\ 8 - 1 = 7 /\ 9 - 1 = 8 /\ 10 - 1 = 9
        /\ {1, 2, 3, 4, 5, 6, 7, 8} \subseteq 1 .. 8
    OBVIOUS
  <2> QED  BY <1>2, <1>6, <2>1
<1>8. <<>> \in Seq(LineChar) /\ 2 \in {2, 3} /\ 3 \in {2, 3}
  OBVIOUS
<1>9. ":" \in LineChar /\ Blank \in LineChar /\ "(" \in LineChar /\ ")" \in LineChar
  BY DEF LineChar
<1> DEFINE o1 == <<>> \o InPlaces(b, 3)
           o2 == o1 \o <<":">>
           o3 == o2 \o InPlaces(d, 2)
           o4 == o3 \o <<":">>
           o5 == o4 \o InPlaces(n, 2)
           o6 == o5 \o <<Blank>>
           o7 == o6 \o c
           o8 == o7 \o <<"(">>
           o9 == o8 \o v
           o10 == o9 \o <<")">>
<1> HIDE DEF o1, o2, o3, o4, o5, o6, o7, o8, o9, o10
<1>10. Stands(state[0], <<>>, 0, as0)
  BY <1>5, <1>8, Zenon DEF Stands
<1>11. Stands(state[1], o1, -1, as1)
  BY <1>1, <1>4, <1>7, <1>8, <1>10, ByteStep, Zenon DEF o1, as1
<1>12. Stands(state[2], o2, -1, as1)
  BY <1>7, <1>9, <1>11, SignStep, Zenon DEF o2
<1>13. Stands(state[3], o3, -1, as2)
  BY <1>1, <1>4, <1>7, <1>8, <1>12, ByteStep, Zenon DEF o3, as2
<1>14. Stands(state[4], o4, -1, as2)
  BY <1>7, <1>9, <1>13, SignStep, Zenon DEF o4
<1>15. Stands(state[5], o5, -1, as3)
  BY <1>1, <1>4, <1>7, <1>8, <1>14, ByteStep, Zenon DEF o5, as3
<1>16. Stands(state[6], o6, -1, as3)
  BY <1>7, <1>9, <1>15, SignStep, Zenon DEF o6
<1>17. Stands(state[7], o7, -1, as4)
  BY <1>1, <1>4, <1>7, <1>16, NameStep, Zenon DEF o7, as4
<1>18. Stands(state[8], o8, -1, as4)
  BY <1>7, <1>9, <1>17, SignStep, Zenon DEF o8
<1>19. ~faults => Stands(state[9], o9, -1, Tail(as4))
  BY <1>1, <1>4, <1>7, <1>18, NameStep, Zenon DEF o9
<1>20. state[8].out = o8 /\ (~faults => state[10].out = o10)
  <2>1. ~faults => Stands(state[10], o10, -1, Tail(as4))
    BY <1>7, <1>9, <1>19, SignStep, Zenon DEF o10
  <2> QED  BY <1>18, <2>1 DEF Stands
<1>21. <<>> \o InPlaces(b, 3) = InPlaces(b, 3)
  <2>1. \A i \in 1 .. 3 : (b \div <<1, 16, 256>>[3 - i + 1]) % 16 \in 0 .. 15
    <3> DEFINE q == <<1, 16, 256>>
    <3>1. q[1] = 1 /\ q[2] = 16 /\ q[3] = 256
      OBVIOUS
    <3> HIDE DEF q
    <3>2. \A k \in 1 .. 3 : q[k] = 1 \/ q[k] = 16 \/ q[k] = 256
      BY <3>1
    <3>3. /\ (b \div 1) % 16 \in 0 .. 15 /\ (b \div 16) % 16 \in 0 .. 15
          /\ (b \div 256) % 16 \in 0 .. 15
      <4>1. b \in 0 .. 255
        BY <1>1
      <4> QED  BY ONLY <4>1
    <3>4. \A i \in 1 .. 3 : (b \div q[3 - i + 1]) % 16 \in 0 .. 15
      <4> TAKE i \in 1 .. 3
      <4>1. 3 - i + 1 \in 1 .. 3
        OBVIOUS
      <4>2. q[3 - i + 1] = 1 \/ q[3 - i + 1] = 16 \/ q[3 - i + 1] = 256
        BY <3>2, <4>1
      <4> QED  BY <3>3, <4>2, Zenon
    <3> QED  BY <3>4 DEF q
  <2>2. InPlaces(b, 3) \in [1 .. 3 -> HexDigit]
    BY <2>1, DigitIs DEF InPlaces
  <2>3. InPlaces(b, 3) \in Seq(HexDigit)
    BY <2>2, ArrayIsSeq
  <2> QED  BY <2>3
<1>22. o8 = columns
  BY <1>21 DEF ColumnsWith, o1, o2, o3, o4, o5, o6, o7, o8, b, d, n, c
<1>23. o10 = columns \o v \o <<")">>
  BY <1>22 DEF o9, o10
<1>24. printf(format, as0) = IF faults THEN o8 ELSE o10
  BY <1>2, <1>6, <1>20
<1> QED
  BY <1>3, <1>22, <1>23, <1>24 DEF v

\* A line of the list, whole or not, for every configuration of the bus.
LEMMA TheLineIs ==
    ASSUME NEW config \in Config, NEW i \in 1 .. Cardinality(DOMAIN config),
           NEW text \in Garbage, NEW faults \in BOOLEAN
    PROVE  LET devices == PCIDirectScan(config)
               f == NthNumber(DOMAIN config, i)
               columns == ColumnsOf(config[f], f)
           IN  /\ Len(devices) = Cardinality(DOMAIN config)
               /\ devices[i].vendor = SubSeq(config[f][0], 1, 2)
               /\ DeviceLine(devices[i], text, faults)
                    = IF faults THEN columns
                      ELSE columns \o PCIGetVendorName(SubSeq(config[f][0], 1, 2), text) \o <<")">>
<1> DEFINE there == DOMAIN config
           devices == PCIDirectScan(config)
           Scanned(f) == [vendor |-> PCIGetVendorID(config, f),
                          device |-> PCIGetDeviceID(config, f),
                          class  |-> PCIGetClassCode(config, f),
                          bus |-> f[1], dev |-> f[2], fn |-> f[3]]
           f == NthNumber(there, i)
           c == Cardinality(there)
<1>1. {g \in Functions : Present(config, g)} = there /\ there \subseteq Functions
  <2>1. \A g \in Functions : Present(config, g) <=> g \in there
    BY RegistersAreRead
  <2>2. there \subseteq Functions
    BY CommandLineConstants
  <2> QED  BY <2>1, <2>2
<1>2. /\ c \in Nat
      /\ \A k \in 1 .. c : /\ NthNumber(there, k) \in there
                           /\ NthScanned(there, k) = NthNumber(there, k)
  <2> HIDE DEF there
  <2> QED  BY <1>1, PlacesAreTaken DEF c
<1>3. devices = [k \in 1 .. c |-> Scanned(NthScanned(there, k))]
  BY <1>1, Zenon DEF PCIDirectScan
<1>4. f \in there /\ f \in Functions /\ i \in 1 .. c
  BY <1>1, <1>2
<1>5. /\ PCIGetVendorID(config, f) = SubSeq(config[f][0], 1, 2)
      /\ PCIGetVendorID(config, f) \in [1 .. 2 -> Byte]
      /\ PCIGetClassCode(config, f) = Tail(config[f][8])
      /\ PCIGetClassCode(config, f) \in [1 .. 3 -> Byte]
  BY <1>4, RegistersAreRead
<1> DEFINE device == Scanned(f)
<1>6. /\ device.vendor = PCIGetVendorID(config, f) /\ device.class = PCIGetClassCode(config, f)
      /\ device.bus = f[1] /\ device.dev = f[2] /\ device.fn = f[3]
  OBVIOUS
<1>7. Len(devices) = c /\ devices[i] = device
  <2> HIDE DEF Scanned, devices, there, f
  <2> QED  BY <1>2, <1>3, <1>4 DEF c, f
<1> HIDE DEF device, devices, there, f, c
<1>8. device.bus \in 0 .. 255 /\ device.dev \in 0 .. 31 /\ device.fn \in 0 .. 7
  BY <1>4, <1>6, FunctionIs
<1> DEFINE columns == ColumnsWith(device.bus, device.dev, device.fn, PCIGetClassName(device.class))
<1>9. DeviceLine(device, text, faults)
        = IF faults THEN columns
          ELSE columns \o PCIGetVendorName(device.vendor, text) \o <<")">>
  BY <1>5, <1>6, <1>8, DeviceLineIs
<1>10. columns = ColumnsOf(config[f], f)
  BY <1>5, <1>6, Zenon DEF ColumnsOf, ColumnsWith
<1> HIDE DEF columns
<1> QED
  BY <1>5, <1>6, <1>7, <1>9, <1>10 DEF devices, there, f, c

\* DevicesAreListed of a bus, of what is printed and of whether the program
\* goes on, when the devices fit in the array.
ListsAll(bus, printed, on) ==
    LET there == DOMAIN bus
        listed == Len(printed)
        Vendor(f) == SubSeq(bus[f][0], 1, 2)
    IN  /\ IF on THEN listed = Cardinality(there) ELSE listed \in 1 .. Cardinality(there)
        /\ \A i \in 1 .. listed :
              LET f == NthNumber(there, i)
                  columns == ColumnsOf(bus[f], f)
              IN  IF on \/ i < listed
                  THEN \E text \in Garbage : printed[i]
                           = columns \o PCIGetVendorName(Vendor(f), text) \o <<")">>
                  ELSE Vendor(f) \notin KnownVendor /\ printed[i] = columns

\* The first n lines of a list, of which the last is cut or not.
LEMMA TheListIs ==
    ASSUME NEW config \in Config, NEW n \in 0 .. Cardinality(DOMAIN config), NEW faults \in BOOLEAN,
           faults => n \in DOMAIN PCIDirectScan(config)
                     /\ PCIDirectScan(config)[n].vendor \notin KnownVendor,
           ~faults => n = Cardinality(DOMAIN config),
           NEW texts \in [1 .. n -> Garbage], NEW printed,
           printed = [i \in 1 .. n |-> DeviceLine(PCIDirectScan(config)[i], texts[i], faults /\ i = n)]
    PROVE  ListsAll(config, printed, ~faults)
<1> DEFINE there == DOMAIN config
           devices == PCIDirectScan(config)
           F(i) == NthNumber(there, i)
           C(i) == ColumnsOf(config[F(i)], F(i))
           V(i) == SubSeq(config[F(i)][0], 1, 2)
           c == Cardinality(DOMAIN config)
<1>1. n \in Nat /\ there \subseteq Functions /\ c \in Nat
  <2>1. there \subseteq Functions
    BY CommandLineConstants
  <2> HIDE DEF there
  <2>2. Cardinality(there) \in Nat
    BY <2>1, PlacesAreTaken
  <2> QED  BY <2>1, <2>2 DEF there
<1>2. ASSUME NEW i \in 1 .. n
      PROVE  /\ Len(devices) = Cardinality(there)
             /\ devices[i].vendor = V(i)
             /\ printed[i] = IF faults /\ i = n THEN C(i)
                             ELSE C(i) \o PCIGetVendorName(V(i), texts[i]) \o <<")">>
  <2>1. i \in 1 .. Cardinality(DOMAIN config) /\ texts[i] \in Garbage
    <3>1. n \in 0 .. c /\ c \in Nat
      BY <1>1
    <3> HIDE DEF c
    <3>2. i \in 1 .. c
      BY <1>1, <3>1
    <3> QED  BY <3>2 DEF c
  <2>2. printed[i] = DeviceLine(devices[i], texts[i], faults /\ i = n)
    OBVIOUS
  <2> DEFINE cut == faults /\ i = n
  <2>4. cut \in BOOLEAN
    OBVIOUS
  <2> HIDE DEF cut
  <2>3. /\ Len(devices) = Cardinality(there)
        /\ devices[i].vendor = V(i)
        /\ DeviceLine(devices[i], texts[i], cut)
              = IF cut THEN C(i) ELSE C(i) \o PCIGetVendorName(V(i), texts[i]) \o <<")">>
    BY <2>1, <2>4, TheLineIs
  <2> QED  BY <2>2, <2>3 DEF cut
<1>3. Len(printed) = n
  BY <1>1
<1>4. faults => n \in 1 .. n /\ V(n) \notin KnownVendor
  <2>1. SUFFICES ASSUME faults
                 PROVE  n \in 1 .. n /\ V(n) \notin KnownVendor
    OBVIOUS
  <2>2. n # 0
    <3>1. DOMAIN devices = 1 .. Cardinality({g \in Functions : Present(config, g)})
      BY DEF PCIDirectScan
    <3>2. 0 \notin DOMAIN devices
      BY <3>1
    <3> QED  BY <2>1, <3>2
  <2>3. n \in 1 .. n
    BY <1>1, <2>2
  <2> QED  BY <1>2, <2>1, <2>3
<1> HIDE DEF F, C, V
<1>5. IF ~faults THEN Len(printed) = Cardinality(there) ELSE Len(printed) \in 1 .. Cardinality(there)
  BY <1>1, <1>3, <1>4
<1>6. ASSUME NEW i \in 1 .. Len(printed)
      PROVE  IF ~faults \/ i < Len(printed)
             THEN \E text \in Garbage : printed[i] = C(i) \o PCIGetVendorName(V(i), text) \o <<")">>
             ELSE V(i) \notin KnownVendor /\ printed[i] = C(i)
  <2>1. i \in 1 .. n /\ texts[i] \in Garbage
    BY <1>3
  <2>2. CASE ~faults \/ i < n
    <3>1. ~(faults /\ i = n)
      BY <1>1, <2>1, <2>2
    <3>2. printed[i] = C(i) \o PCIGetVendorName(V(i), texts[i]) \o <<")">>
      BY <1>2, <2>1, <3>1
    <3>3. \E text \in Garbage : printed[i] = C(i) \o PCIGetVendorName(V(i), text) \o <<")">>
      BY <2>1, <3>2
    <3> QED  BY <1>3, <2>2, <3>3
  <2>3. CASE ~(~faults \/ i < n)
    <3>1. i = n /\ faults
      BY <1>1, <2>1, <2>3
    <3> QED  BY <1>2, <1>3, <1>4, <2>1, <3>1
  <2> QED  BY <2>2, <2>3
<1> QED
  BY <1>5, <1>6, Zenon DEF ListsAll, F, C, V

\* What lspci prints of a bus whose devices fit.
LEMMA LspciIs ==
    ASSUME NEW config \in Config, Cardinality(DOMAIN config) <= MaxDevices, NEW args,
           NEW outcome \in Outcomes("lspci", args, config)
    PROVE  ListsAll(config, outcome.printed, ~outcome.faults)
<1> DEFINE there == DOMAIN config
           devices == PCIDirectScan(config)
           c == Cardinality(there)
<1>1. c \in Nat /\ Len(devices) = c /\ DOMAIN devices = 1 .. c
  <2>1. {g \in Functions : Present(config, g)} = there /\ there \subseteq Functions
    <3>1. \A g \in Functions : Present(config, g) <=> g \in there
      BY RegistersAreRead
    <3>2. there \subseteq Functions
      BY CommandLineConstants
    <3> QED  BY <3>1, <3>2
  <2> HIDE DEF there
  <2>2. c \in Nat
    BY <2>1, PlacesAreTaken
  <2>3. DOMAIN devices = 1 .. c
    BY <2>1 DEF PCIDirectScan
  <2>4. Len(devices) = c
    BY <2>1, <2>2 DEF PCIDirectScan
  <2> QED  BY <2>2, <2>3, <2>4
<1>2. ~Overruns(config)
  <2>1. MaxDevices \in Nat
    BY PciConstants
  <2> HIDE DEF there
  <2> QED  BY <1>1, <2>1 DEF Overruns, there
<1>3. outcome \in ListDevices(devices)
  <2>1. Outcomes("lspci", args, config)
          = IF Overruns(config) THEN {[Quiet EXCEPT !.faults = TRUE]}
            ELSE ListDevices(devices)
    BY Zenon DEF Outcomes
  <2> QED  BY <1>2, <2>1
<1>4. PICK faults \in BOOLEAN, n \in 0 .. c :
         /\ faults => n \in DOMAIN devices /\ devices[n].vendor \notin KnownVendor
         /\ ~faults => n = c
         /\ \E texts \in [1 .. n -> Garbage] :
               outcome = [printed |-> [i \in 1 .. n |-> DeviceLine(devices[i], texts[i], faults /\ i = n)],
                          faults |-> faults]
  <2> HIDE DEF devices, there, c
  <2>1. CASE \E texts \in [1 .. Len(devices) -> Garbage] :
               outcome = [printed |-> [i \in 1 .. Len(devices) |->
                                          DeviceLine(devices[i], texts[i], FALSE /\ i = Len(devices))],
                          faults |-> FALSE]
    <3>1. c \in 0 .. c
      BY <1>1
    <3> QED  BY <1>1, <2>1, <3>1, Zenon
  <2>2. CASE \E n \in {m \in DOMAIN devices : devices[m].vendor \notin KnownVendor} :
             \E texts \in [1 .. n -> Garbage] :
               outcome = [printed |-> [i \in 1 .. n |->
                                          DeviceLine(devices[i], texts[i], TRUE /\ i = n)],
                          faults |-> TRUE]
    <3>1. \A n \in DOMAIN devices : n \in 0 .. c
      BY <1>1
    <3> QED  BY <2>2, <3>1, Zenon
  <2> QED  BY <1>3, <2>1, <2>2, Zenon DEF ListDevices
<1>5. PICK texts \in [1 .. n -> Garbage] :
         outcome = [printed |-> [i \in 1 .. n |-> DeviceLine(devices[i], texts[i], faults /\ i = n)],
                    faults |-> faults]
  BY <1>4
<1> DEFINE printed == [i \in 1 .. n |-> DeviceLine(devices[i], texts[i], faults /\ i = n)]
<1>6. outcome.printed = printed /\ outcome.faults = faults
  BY <1>5
<1>7. ListsAll(config, printed, ~faults)
  BY <1>4, TheListIs
<1> HIDE DEF printed
<1> QED
  BY <1>6, <1>7

LEMMA TheDevicesAreTheBus ==
    ASSUME LineInv, handle_command([command EXCEPT ![ptr] = "nul"])
    PROVE  DevicesAreListed'
<1> DEFINE buffer == [command EXCEPT ![ptr] = "nul"]
           t == Tokens(buffer)
           names == NameOf(t.word[1])
           name == IF names = {} THEN "not found" ELSE CHOOSE c \in names : TRUE
<1>1. CASE IsEmptyLine(buffer)
  <2>1. did'.name = "empty"
    BY <1>1 DEF handle_command, Nothing
  <2> QED  BY <2>1 DEF DevicesAreListed
<1>2. CASE ~IsEmptyLine(buffer)
  <2>1. PICK config \in IF name = "lspci" THEN Config ELSE {<<>>} :
             \E outcome \in Outcomes(name, Tail(t.word), config) :
             /\ did' = [name |-> name, line |-> shown, words |-> t.word, bus |-> config,
                        printed |-> outcome.printed]
             /\ running' = (name # "exit" /\ ~outcome.faults)
    BY <1>2 DEF handle_command
  <2> DEFINE args == Tail(t.word)
  <2> HIDE DEF name, t
  <2>2. PICK outcome \in Outcomes(name, args, config) :
             /\ did'.name = name /\ did'.bus = config /\ did'.printed = outcome.printed
             /\ running' = (name # "exit" /\ ~outcome.faults)
    BY <2>1
  <2> HIDE DEF args
  <2> SUFFICES ASSUME name = "lspci", Cardinality(DOMAIN config) <= MaxDevices
               PROVE  DevicesAreListed'
    BY <2>2 DEF DevicesAreListed
  <2>3. config \in Config /\ outcome \in Outcomes("lspci", args, config)
    BY <2>1, <2>2
  <2>4. ListsAll(config, outcome.printed, ~outcome.faults)
    BY <2>3, LspciIs
  <2>5. running' = ~outcome.faults
    BY <2>2
  <2>6. ListsAll(did'.bus, did'.printed, running')
    BY <2>2, <2>4, <2>5
  <2> QED  BY <2>6 DEF DevicesAreListed, ListsAll
<1> QED
  BY <1>1, <1>2

\* DevicesAreListed (pci.c lines 65-162, main.c line 95, screen.c lines 3-81 of
\* the programs): for every set of buses, and of functions on them with any
\* registers that fit devices[], lspci lists each function once, in order, in
\* columns, with some text for the name of an unknown vendor, or ends at one.
THEOREM TheDevicesAreListed == Spec => []DevicesAreListed
<1>1. Init => LineInv /\ DevicesAreListed
  BY InitLine DEF Init, DevicesAreListed, Nothing
<1>2. ASSUME LineInv, DevicesAreListed, [Next]_commandVars
      PROVE  LineInv' /\ DevicesAreListed'
  <2>1. LineInv'
    BY <1>2, NextLine
  <2>2. CASE Newline
    BY <1>2, <2>1, <2>2, TheDevicesAreTheBus DEF Newline
  <2>3. CASE Backspace
    <3>1. did'.name = "none"
      BY <2>3 DEF Backspace, Nothing
    <3> QED  BY <2>1, <3>1 DEF DevicesAreListed
  <2>4. ASSUME NEW ch \in Character, Type(ch)
        PROVE  DevicesAreListed'
    <3>1. did'.name = "none"
      BY <2>4 DEF Type, Nothing
    <3> QED  BY <3>1 DEF DevicesAreListed
  <2>5. CASE UNCHANGED commandVars
    BY <1>2, <2>1, <2>5 DEF DevicesAreListed, commandVars
  <2> QED
    BY <1>2, <2>1, <2>2, <2>3, <2>4, <2>5 DEF Next
<1> QED
  BY <1>1, <1>2, PTL DEF Spec
=============================================================================
