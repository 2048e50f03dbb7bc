---------------------------- MODULE PagingProofs ----------------------------
(***************************************************************************)
(* For every number of tables, pages, frames and directories: what the     *)
(* runs of Paging.tla check of the page tables and the bitmap of frames.   *)
(***************************************************************************)
EXTENDS Paging, TLAPS

-----------------------------------------------------------------------------
(* Pages, indexes and offsets. *)

LEMMA DivMod ==
    ASSUME NEW n \in Nat \ {0}, NEW p \in Nat
    PROVE  p \div n \in Nat /\ p % n \in 0 .. n - 1 /\ p = n * (p \div n) + (p % n)
  OBVIOUS

\* A larger quotient is larger by at least n.
LEMMA Quotients ==
    ASSUME NEW n \in Nat, NEW i \in Int, NEW j \in Int, i < j
    PROVE  n * i + n <= n * j
  <1>1. \A k \in Nat : n * k >= 0
    OBVIOUS
  <1>2. j - i - 1 \in Nat
    OBVIOUS
  <1>3. n * (j - i - 1) >= 0
    BY <1>1, <1>2
  <1>4. n * (j - i - 1) = n * j - n * i - n
    OBVIOUS
  <1>5. n * i \in Int /\ n * j \in Int
    OBVIOUS
  <1> QED
    BY <1>3, <1>4, <1>5

LEMMA UniqueDivision ==
    ASSUME NEW n \in Nat \ {0}, NEW i \in Int, NEW j \in Int,
           NEW o \in 0 .. n - 1, NEW q \in 0 .. n - 1, n * i + o = n * j + q
    PROVE  i = j /\ o = q
  <1>1. ~(i < j) /\ ~(j < i)
    <2>1. i < j => n * i + n <= n * j
      BY Quotients
    <2>2. j < i => n * j + n <= n * i
      BY Quotients
    <2>3. n * i \in Int /\ n * j \in Int
      OBVIOUS
    <2> QED
      BY <2>1, <2>2, <2>3
  <1>2. i = j
    BY <1>1
  <1> QED
    BY <1>2

\* Every page has one index and one offset, and every index and offset a page.
LEMMA PageFacts ==
    /\ \A p \in Page : IndexOf(p) \in TableIndex /\ OffsetOf(p) \in PageOffset
    /\ \A p, q \in Page : IndexOf(p) = IndexOf(q) /\ OffsetOf(p) = OffsetOf(q) => p = q
    /\ \A i \in TableIndex, o \in PageOffset :
          LET p == i * PAGES_IN_TABLE + o
          IN  p \in Page /\ IndexOf(p) = i /\ OffsetOf(p) = o
  <1> DEFINE n == PAGES_IN_TABLE
             T == TABLES_IN_DIR
  <1>1. n \in Nat \ {0} /\ T \in Nat \ {0}
    BY PagingConstants
  <1> HIDE DEF n, T
  <1>2. Page = 0 .. T * n - 1 /\ TableIndex = 0 .. T - 1 /\ PageOffset = 0 .. n - 1
    BY DEF Page, TableIndex, PageOffset, n, T
  <1>3. T * n \in Nat /\ T * n = n * T
    BY <1>1
  <1>4. \A p \in Nat : IndexOf(p) = p \div n /\ OffsetOf(p) = p % n
    BY DEF IndexOf, OffsetOf, n
  <1>5. ASSUME NEW p \in Page
        PROVE  IndexOf(p) \in TableIndex /\ OffsetOf(p) \in PageOffset
    <2>1. p \in Nat /\ p < n * T
      BY <1>2, <1>3
    <2>2. p \div n \in Nat /\ p % n \in 0 .. n - 1 /\ p = n * (p \div n) + (p % n)
      BY <1>1, <2>1, DivMod
    <2> DEFINE q == p \div n
    <2>5. q \in Int /\ T \in Int /\ n \in Nat
      BY <1>1, <2>2
    <2> HIDE DEF q
    <2>6. T < q => n * T + n <= n * q
      BY <2>5, Quotients
    <2>7. p = n * q + (p % n) /\ p % n \in 0 .. n - 1 /\ n * q \in Int /\ n * T \in Int
      BY <1>1, <2>2, <2>5 DEF q
    <2>3. q < T
      BY <1>1, <2>1, <2>5, <2>6, <2>7
    <2>4. p \div n \in 0 .. T - 1
      BY <1>1, <2>2, <2>3 DEF q
    <2> QED
      BY <1>2, <1>4, <2>1, <2>2, <2>4
  <1>6. ASSUME NEW p \in Page, NEW q \in Page, IndexOf(p) = IndexOf(q), OffsetOf(p) = OffsetOf(q)
        PROVE  p = q
    <2>1. p \in Nat /\ q \in Nat
      BY <1>2, <1>3
    <2>2. p = n * (p \div n) + (p % n) /\ q = n * (q \div n) + (q % n)
      BY <1>1, <2>1, DivMod
    <2>3. p \div n = q \div n /\ p % n = q % n
      BY <1>4, <1>6, <2>1
    <2> QED
      BY <2>2, <2>3
  <1>7. ASSUME NEW i \in TableIndex, NEW o \in PageOffset
        PROVE  LET p == i * n + o
               IN  p \in Page /\ IndexOf(p) = i /\ OffsetOf(p) = o
    <2> DEFINE p == i * n + o
    <2>1. i \in Nat /\ i < T /\ o \in 0 .. n - 1
      BY <1>1, <1>2
    <2>2. i * n = n * i /\ n * i \in Nat
      BY <1>1, <2>1
    <2>3. n * i + n <= n * T
      BY <1>1, <2>1, Quotients
    <2>4. p \in Nat /\ p = n * i + o
      BY <1>1, <2>1, <2>2
    <2>5. p \in Page
      BY <1>1, <1>2, <1>3, <2>1, <2>2, <2>3, <2>4
    <2> HIDE DEF p
    <2>6. p \div n \in Nat /\ p % n \in 0 .. n - 1 /\ p = n * (p \div n) + (p % n)
      BY <1>1, <2>4, DivMod
    <2> DEFINE q == p \div n
               m == p % n
    <2>8. q \in Int /\ i \in Int /\ m \in 0 .. n - 1 /\ n * i + o = n * q + m
      BY <2>1, <2>4, <2>6
    <2> HIDE DEF q, m
    <2>9. q = i /\ m = o
      BY <1>1, <2>1, <2>8, UniqueDivision
    <2>7. p \div n = i /\ p % n = o
      BY <2>9 DEF q, m
    <2> QED
      BY <1>4, <2>4, <2>5, <2>7 DEF p
  <1> QED
    BY <1>5, <1>6, <1>7 DEF n

\* What the assumptions say of the pages, the frames and the tables.
LEMMA Layout ==
    /\ BootIndex \subseteq KernelIndex /\ KernelIndex \subseteq TableIndex
    /\ Page \subseteq Nat /\ TouchedPages \subseteq Page /\ TouchedPages \subseteq Frame
    /\ 0 .. KernelPages + KHeapMin - 1 \subseteq Frame /\ 0 \in Frame /\ nframes \in Nat
    /\ \A d \in PageDir, k \in Nat : k < MaxSize(d) => HeapStart(d) + k \in Page
    /\ \A d \in PageDir : MinSize(d) \in Nat /\ MaxSize(d) \in Nat /\ MinSize(d) <= MaxSize(d)
    /\ TaskPages \in Seq(Page)
    /\ 0 .. KernelPages - 1 \subseteq Page /\ KernelHeapPages \subseteq Page
    /\ kernelDir \in PageDir /\ NoTable \notin PageTable /\ NoHeap \notin PageDir
    /\ TABLES_IN_DIR \in Nat \ {0} /\ PAGES_IN_TABLE \in Nat \ {0}
  <1>1. PagingConstants
    BY PagingConstants
  <1> DEFINE top == TABLES_IN_DIR * PAGES_IN_TABLE
  <1>2. Page = 0 .. top - 1 /\ Frame = 0 .. nframes - 1
    BY DEF Page, Frame
  <1>3. top \in Nat
    BY <1>1 DEF PagingConstants
  <1> HIDE DEF top
  <1>12. /\ KernelPages \in Nat \ {0} /\ nframes \in Nat /\ KernelPages + KHeapMin <= nframes
         /\ KernelPages <= KHEAP_START
         /\ KHEAP_START \in Nat /\ KHeapMin \in Nat /\ KHeapMax \in Nat
         /\ HEAP_START \in Nat /\ HeapMin \in Nat /\ HeapMax \in Nat
         /\ KHeapMin <= KHeapMax /\ HeapMin <= HeapMax
         /\ KHEAP_START + KHeapMax - 1 \in Page
         /\ HEAP_START + HeapMax - 1 \in Page
    BY <1>1 DEF PagingConstants
  <1>13. KHEAP_START + KHeapMax <= top /\ HEAP_START + HeapMax <= top
    BY <1>2, <1>3, <1>12
  <1>4. \A d \in PageDir, k \in Nat : k < MaxSize(d) => HeapStart(d) + k \in Page
    BY <1>2, <1>3, <1>12, <1>13 DEF MaxSize, HeapStart
  <1>5. \A p \in KHEAP_START .. KHEAP_START + KHeapMax - 1 : p \in Page
    BY <1>2, <1>3, <1>12, <1>13
  <1>6. 0 .. KernelPages - 1 \subseteq Page /\ KernelHeapPages \subseteq Page
    BY <1>2, <1>3, <1>12, <1>13 DEF KernelHeapPages
  <1>7. TouchedPages \subseteq Page /\ TouchedPages \subseteq Frame
    <2>1. \A p \in Touched : p \in Page /\ p + 1 \in Page /\ p + 1 \in Frame
      BY <1>1 DEF PagingConstants
    <2>2. \A p \in Touched : p \in Frame
      BY <1>2, <1>3, <1>12, <2>1
    <2> QED
      BY <2>1, <2>2 DEF TouchedPages
  <1>8. BootIndex \subseteq KernelIndex /\ KernelIndex \subseteq TableIndex
    BY <1>5, <1>6, <1>7, PageFacts DEF BootIndex, KernelIndex
  <1>9. TaskPages \in Seq(Page)
    <2> DEFINE h == [i \in 1 .. HeapMin |-> HEAP_START + i - 1]
    <2>1. \A i \in 1 .. HeapMin : HEAP_START + i - 1 \in Page
      BY <1>2, <1>3, <1>12, <1>13
    <2>2. HeapMin \in Nat /\ Stack \in Seq(Page) /\ Sections \in Seq(Page)
      BY <1>1 DEF PagingConstants
    <2>3. h \in Seq(Page)
      BY <2>1, <2>2
    <2> HIDE DEF h
    <2>4. Stack \o h \in Seq(Page)
      BY <2>2, <2>3
    <2>5. (Stack \o h) \o Sections \in Seq(Page)
      BY <2>2, <2>4
    <2> QED
      BY <2>5 DEF TaskPages, h
  <1>10. 0 .. KernelPages + KHeapMin - 1 \subseteq Frame /\ 0 \in Frame /\ nframes \in Nat
    BY <1>2, <1>12
  <1>11. \A d \in PageDir : MinSize(d) \in Nat /\ MaxSize(d) \in Nat /\ MinSize(d) <= MaxSize(d)
    BY <1>12 DEF MinSize, MaxSize
  <1>14. Page \subseteq Nat
    BY <1>2, <1>3
  <1> QED
    BY <1>1, <1>14, <1>4, <1>6, <1>7, <1>8, <1>9, <1>10, <1>11 DEF PagingConstants

-----------------------------------------------------------------------------
\* Which directories the call under way works on, whose heap a task uses, and
\* how large the heaps are.
JobInv ==
    /\ job.op \in {"clone", "copy"} =>
         job.dir \in live \ {kernelDir} /\ job.source \in live /\ job.source # job.dir
    /\ job.op = "free" => job.dir \in live \ {kernelDir, cr3}
    /\ currentDir = kernelDir <=> job.op # "map"
    /\ \A d \in PageDir : heap[d] \in live \cup {NoHeap} /\ heapSize[d] \in 0 .. MaxSize(d)
    /\ 0 \in used

LEMMA JobFacts ==
    ASSUME TypeOK
    PROVE  /\ job.op \in {"none", "clone", "copy", "map", "mirror", "free"}
           /\ job.op = "clone" => /\ job.source \in PageDir /\ job.dir \in PageDir
                                  /\ job.index \in 0 .. TABLES_IN_DIR
                                  /\ job.index < TABLES_IN_DIR => job.index \in TableIndex
           /\ job.op = "copy" => /\ job.source \in PageDir /\ job.dir \in PageDir
                                 /\ job.index \in TableIndex /\ job.table \in PageTable
                                 /\ job.offset \in 0 .. PAGES_IN_TABLE
                                 /\ job.offset < PAGES_IN_TABLE => job.offset \in PageOffset
           /\ job.op = "map" => job.todo \in Seq(Page) /\ job = [op |-> "map", todo |-> job.todo]
           /\ job.op = "mirror" => /\ job.todo \in Seq(TouchedPages)
                                   /\ job = [op |-> "mirror", todo |-> job.todo]
           /\ job.op = "free" => /\ job.dir \in PageDir /\ job.index \in 0 .. TABLES_IN_DIR
                                 /\ job.index < TABLES_IN_DIR => job.index \in TableIndex
  <1>1. TABLES_IN_DIR \in Nat \ {0} /\ PAGES_IN_TABLE \in Nat \ {0}
    BY Layout
  <1>2. \A i \in 0 .. TABLES_IN_DIR : i < TABLES_IN_DIR => i \in TableIndex
    BY <1>1 DEF TableIndex
  <1>3. \A o \in 0 .. PAGES_IN_TABLE : o < PAGES_IN_TABLE => o \in PageOffset
    BY <1>1 DEF PageOffset
  <1>4. \/ job \in [op : {"none"}]
        \/ job \in [op : {"clone"}, source : PageDir, dir : PageDir, index : 0 .. TABLES_IN_DIR]
        \/ job \in [op : {"copy"}, source : PageDir, dir : PageDir, index : TableIndex,
                    table : PageTable, offset : 0 .. PAGES_IN_TABLE]
        \/ job \in [op : {"map"}, todo : Seq(Page)]
        \/ job \in [op : {"mirror"}, todo : Seq(TouchedPages)]
        \/ job \in [op : {"free"}, dir : PageDir, index : 0 .. TABLES_IN_DIR]
    BY DEF TypeOK, Job
  <1> QED
    BY <1>2, <1>3, <1>4

-----------------------------------------------------------------------------
(* Frames and entries: what the operations of paging.c leave. *)

\* All variables of the model that the memory operations change.
MemoryTyped == /\ used \subseteq Frame
               /\ pages \in [PageTable -> [PageOffset -> Frame]]
               /\ allocated \subseteq PageTable
               /\ tables \in [PageDir -> [TableIndex -> PageTable \cup {NoTable}]]
               /\ exhausted \in BOOLEAN

LEMMA EmptyTableTyped == EmptyTable \in [PageOffset -> Frame]
  BY Layout DEF EmptyTable

LEMMA GetPageTyped ==
    ASSUME MemoryTyped, NEW dir \in PageDir, NEW page \in Page, NEW t \in PageTable,
           NEW entries \in {pages[t], EmptyTable}, GetPage(dir, page, t, entries)
    PROVE  /\ entries \in [PageOffset -> Frame]
           /\ allocated' \subseteq PageTable
           /\ tables' \in [PageDir -> [TableIndex -> PageTable \cup {NoTable}]]
  <1>1. IndexOf(page) \in TableIndex
    BY PageFacts
  <1>2. entries \in [PageOffset -> Frame]
    BY EmptyTableTyped DEF MemoryTyped
  <1>3. CASE UNCHANGED <<allocated, tables>>
    BY <1>2, <1>3 DEF MemoryTyped
  <1>4. CASE /\ allocated' = allocated \cup {t}
             /\ tables' = [tables EXCEPT ![dir][IndexOf(page)] = t]
    BY <1>1, <1>2, <1>4 DEF MemoryTyped
  <1> QED
    BY <1>3, <1>4 DEF GetPage

LEMMA AllocFrameTyped ==
    ASSUME MemoryTyped, NEW t \in PageTable, NEW entries \in [PageOffset -> Frame],
           NEW offset \in PageOffset, AllocFrame(t, entries, offset)
    PROVE  /\ used' \subseteq Frame /\ used \subseteq used'
           /\ pages' \in [PageTable -> [PageOffset -> Frame]]
           /\ exhausted' \in BOOLEAN
  <1>1. FirstFrame \subseteq Frame
    BY DEF FirstFrame, Free
  <1>2. CASE entries[offset] # 0
    BY <1>2 DEF MemoryTyped, AllocFrame
  <1>3. CASE entries[offset] = 0
    <2>1. PICK frame \in FirstFrame :
            /\ used' = used \cup {frame}
            /\ pages' = [pages EXCEPT ![t] = [entries EXCEPT ![offset] = frame]]
            /\ exhausted' = (exhausted \/ Free = {})
      BY <1>3 DEF AllocFrame
    <2>2. [entries EXCEPT ![offset] = frame] \in [PageOffset -> Frame]
      BY <1>1
    <2>3. exhausted' \in BOOLEAN
      BY <2>1
    <2> QED
      BY <1>1, <2>1, <2>2, <2>3 DEF MemoryTyped
  <1> QED
    BY <1>2, <1>3

LEMMA MapPageTyped ==
    ASSUME MemoryTyped, NEW dir \in PageDir, NEW page \in Page, MapPage(dir, page)
    PROVE  MemoryTyped' /\ used \subseteq used'
  <1>1. PICK t \in PageTable : \E entries \in {pages[t], EmptyTable} :
            GetPage(dir, page, t, entries) /\ AllocFrame(t, entries, OffsetOf(page))
    BY DEF MapPage
  <1>2. PICK entries \in {pages[t], EmptyTable} :
            GetPage(dir, page, t, entries) /\ AllocFrame(t, entries, OffsetOf(page))
    BY <1>1
  <1>3. entries \in [PageOffset -> Frame] /\ OffsetOf(page) \in PageOffset
    BY <1>2, GetPageTyped, PageFacts
  <1> QED
    BY <1>2, <1>3, GetPageTyped, AllocFrameTyped DEF MemoryTyped

LEMMA MirrorPageTyped ==
    ASSUME MemoryTyped, NEW dir \in PageDir, NEW page \in Page, page \in Frame,
           MirrorPage(dir, page)
    PROVE  MemoryTyped' /\ used \subseteq used'
  <1>1. PICK t \in PageTable : \E entries \in {pages[t], EmptyTable} :
            GetPage(dir, page, t, entries) /\ LinkFrame(t, entries, page)
    BY DEF MirrorPage
  <1>2. PICK entries \in {pages[t], EmptyTable} :
            GetPage(dir, page, t, entries) /\ LinkFrame(t, entries, page)
    BY <1>1
  <1>3. entries \in [PageOffset -> Frame] /\ OffsetOf(page) \in PageOffset
    BY <1>2, GetPageTyped, PageFacts
  <1>4. used' \subseteq Frame /\ used \subseteq used' /\ pages' \in [PageTable -> [PageOffset -> Frame]]
        /\ exhausted' \in BOOLEAN
    BY <1>2, <1>3 DEF LinkFrame, MemoryTyped
  <1> QED
    BY <1>2, <1>4, GetPageTyped DEF MemoryTyped

LEMMA UnmapPageTyped ==
    ASSUME MemoryTyped, NEW dir \in PageDir, NEW page \in Page, UnmapPage(dir, page),
           UNCHANGED <<allocated, tables, exhausted>>
    PROVE  MemoryTyped' /\ (0 \in used => 0 \in used')
  <1>1. CASE FrameAt(dir, page) = 0
    BY <1>1 DEF UnmapPage, MemoryTyped
  <1>2. CASE FrameAt(dir, page) # 0
    <2> DEFINE t == TableOf(dir, page)
               o == OffsetOf(page)
    <2>1. t \in PageTable /\ o \in PageOffset
      BY <1>2, PageFacts DEF FrameAt, TableOf, MemoryTyped
    <2>2. /\ used' = used \ {FrameAt(dir, page)}
          /\ pages' = [pages EXCEPT ![t] = [pages[t] EXCEPT ![o] = 0]]
      BY <1>2 DEF UnmapPage
    <2> HIDE DEF t, o
    <2>3. [pages[t] EXCEPT ![o] = 0] \in [PageOffset -> Frame]
      BY <2>1, Layout DEF MemoryTyped
    <2> QED
      BY <1>2, <2>1, <2>2, <2>3 DEF MemoryTyped
  <1> QED
    BY <1>1, <1>2

-----------------------------------------------------------------------------
(* Types and jobs. *)

LEMMA InitTyped == Init => TypeOK /\ JobInv
  <1> SUFFICES ASSUME Init PROVE TypeOK /\ JobInv
    OBVIOUS
  <1>1. PICK table \in [BootIndex -> PageTable] :
             /\ \A i, j \in BootIndex : table[i] = table[j] => i = j
             /\ allocated = {table[i] : i \in BootIndex}
             /\ tables = [d \in PageDir |-> [i \in TableIndex |->
                            IF d = kernelDir /\ i \in BootIndex THEN table[i] ELSE NoTable]]
             /\ pages = [t \in PageTable |-> [o \in PageOffset |->
                            IF \E i \in BootIndex : table[i] = t
                            THEN BootFrame((CHOOSE i \in BootIndex : table[i] = t) * PAGES_IN_TABLE + o)
                            ELSE 0]]
    BY DEF Init
  <1>2. allocated \subseteq PageTable
    BY <1>1, Layout
  <1>3. tables \in [PageDir -> [TableIndex -> PageTable \cup {NoTable}]]
    BY <1>1
  <1>4. used \subseteq Frame /\ 0 \in used
    <2>1. used = 0 .. KernelPages + KHeapMin - 1 /\ KernelPages \in Nat \ {0} /\ KHeapMin \in Nat
      BY PagingConstants DEF Init, PagingConstants
    <2>2. 0 .. KernelPages + KHeapMin - 1 \subseteq Frame
      BY Layout
    <2> QED
      BY <2>1, <2>2
  <1>5. pages \in [PageTable -> [PageOffset -> Frame]]
    <2>1. \A p \in Page : BootFrame(p) \in Frame
      <3> DEFINE last == KernelPages + KHeapMin - 1
      <3>1. /\ KernelPages \in Nat \ {0} /\ KHeapMin \in Nat /\ KHEAP_START \in Nat
            /\ 0 .. last \subseteq Frame /\ Page \subseteq Nat
        BY PagingConstants, Layout DEF PagingConstants
      <3>2. \A p \in Nat : BootFrame(p) \in 0 .. last
        BY <3>1 DEF BootFrame, KernelHeapPages
      <3> QED
        BY <3>1, <3>2
    <2>2. \A i \in BootIndex, o \in PageOffset : i * PAGES_IN_TABLE + o \in Page
      BY PageFacts, Layout
    <2>3. ASSUME NEW t \in PageTable, NEW o \in PageOffset
          PROVE  (IF \E i \in BootIndex : table[i] = t
                  THEN BootFrame((CHOOSE i \in BootIndex : table[i] = t) * PAGES_IN_TABLE + o)
                  ELSE 0) \in Frame
      <3>1. (\E i \in BootIndex : table[i] = t) =>
                (CHOOSE i \in BootIndex : table[i] = t) \in BootIndex
        OBVIOUS
      <3> QED
        BY <2>1, <2>2, <3>1, Layout
    <2> QED
      BY <1>1, <2>3
  <1>6. job \in Job /\ job.op = "none"
    BY DEF Init, Job, Idle
  <1>7. \A d \in PageDir : heap[d] \in live \cup {NoHeap} /\ heapSize[d] \in 0 .. MaxSize(d)
    BY PagingConstants DEF Init, MaxSize, PagingConstants
  <1>8. heap \in [PageDir -> PageDir \cup {NoHeap}] /\ heapSize \in [PageDir -> Nat]
    BY PagingConstants DEF Init, PagingConstants
  <1> QED
    BY <1>2, <1>3, <1>4, <1>5, <1>6, <1>7, <1>8, Layout DEF Init, TypeOK, JobInv

\* The steps of a call that change neither the frames nor the heaps.
LEMMA CallKeepsTypes ==
    ASSUME TypeOK, JobInv,
           \/ SkipTable \/ ShareTable \/ BeginTable \/ EndTable \/ EndClone \/ EndMap
           \/ EndMirror \/ KeepTable
           \/ \E page \in Touched : PageFault(page)
           \/ \E dir \in PageDir : Destroy(dir)
    PROVE  TypeOK' /\ JobInv'
  <1>1. /\ UNCHANGED <<used, live, heap, heapSize, cr3, exhausted>>
        /\ currentDir' = currentDir \/ EndClone \/ EndMap
    BY DEF SkipTable, ShareTable, BeginTable, EndTable, EndClone, EndMap, EndMirror, KeepTable,
           PageFault, Destroy, taskVars
  <1>2. \A i \in TableIndex : i + 1 \in 0 .. TABLES_IN_DIR
    BY Layout DEF TableIndex
  <1>3. SkipTable \/ ShareTable \/ BeginTable =>
            /\ job.op = "clone" /\ job.index \in TableIndex
            /\ job.source \in PageDir /\ job.dir \in PageDir
            /\ SourceTable \in PageTable \cup {NoTable}
    BY JobFacts DEF SkipTable, ShareTable, BeginTable, Cloning, SourceTable, TypeOK
  <1>4. CASE SkipTable
    <2>1. job' = CloneJob(job.source, job.dir, job.index + 1)
      BY <1>4 DEF SkipTable, NextTable
    <2>2. job' \in Job
      BY <1>2, <1>3, <1>4, <2>1 DEF CloneJob, Job
    <2>3. UNCHANGED <<pages, allocated, tables, currentDir>>
      BY <1>4 DEF SkipTable, taskVars
    <2> QED
      BY <1>1, <1>3, <1>4, <2>1, <2>2, <2>3 DEF TypeOK, JobInv, CloneJob
  <1>5. CASE ShareTable
    <2>1. /\ job' = CloneJob(job.source, job.dir, job.index + 1)
          /\ tables' = [tables EXCEPT ![job.dir][job.index] = SourceTable]
      BY <1>5 DEF ShareTable, NextTable
    <2>2. job' \in Job
      BY <1>2, <1>3, <1>5, <2>1 DEF CloneJob, Job
    <2>3. UNCHANGED <<pages, allocated, currentDir>>
      BY <1>5 DEF ShareTable, taskVars
    <2>4. tables' \in [PageDir -> [TableIndex -> PageTable \cup {NoTable}]]
      BY <1>3, <1>5, <2>1 DEF TypeOK
    <2> QED
      BY <1>1, <1>3, <1>5, <2>1, <2>2, <2>3, <2>4 DEF TypeOK, JobInv, CloneJob
  <1>6. CASE BeginTable
    <2>1. PICK t \in PageTable \ allocated :
                   /\ allocated' = allocated \cup {t}
                   /\ pages' = [pages EXCEPT ![t] = EmptyTable]
                   /\ job' = [op |-> "copy", source |-> job.source, dir |-> job.dir,
                              index |-> job.index, table |-> t, offset |-> 0]
      BY <1>6 DEF BeginTable
    <2>2. job' \in Job
      BY <1>3, <1>6, <2>1, Layout DEF Job
    <2>3. UNCHANGED <<tables, currentDir>>
      BY <1>6 DEF BeginTable, taskVars
    <2>4. allocated' \subseteq PageTable /\ pages' \in [PageTable -> [PageOffset -> Frame]]
      BY <2>1, EmptyTableTyped DEF TypeOK
    <2> QED
      BY <1>1, <1>3, <1>6, <2>1, <2>2, <2>3, <2>4 DEF TypeOK, JobInv
  <1>7. CASE EndTable
    <2>1. /\ job' = CloneJob(job.source, job.dir, job.index + 1)
          /\ tables' = [tables EXCEPT ![job.dir][job.index] = job.table]
          /\ job.op = "copy"
      BY <1>7 DEF EndTable, NextTable
    <2>2. /\ job.index \in TableIndex /\ job.source \in PageDir /\ job.dir \in PageDir
          /\ job.table \in PageTable
      BY <2>1, JobFacts
    <2>3. job' \in Job
      BY <1>2, <2>1, <2>2 DEF CloneJob, Job
    <2>4. UNCHANGED <<pages, allocated, currentDir>>
      BY <1>7 DEF EndTable, taskVars
    <2>5. tables' \in [PageDir -> [TableIndex -> PageTable \cup {NoTable}]]
      BY <2>1, <2>2 DEF TypeOK
    <2> QED
      BY <1>1, <2>1, <2>2, <2>3, <2>4, <2>5 DEF TypeOK, JobInv, CloneJob
  <1>8. CASE EndClone
    <2>1. /\ UNCHANGED <<pages, allocated, tables>> /\ job.op = "clone"
          /\ IF job.source = kernelDir
             THEN currentDir' = job.dir /\ job' = [op |-> "map", todo |-> TaskPages]
             ELSE job' = Idle /\ currentDir' = currentDir
      BY <1>8 DEF EndClone
    <2>2. job' \in Job
      BY <2>1, Layout DEF Job, Idle
    <2>3. currentDir' \in live /\ (currentDir' = kernelDir <=> job'.op # "map")
          /\ job'.op \in {"none", "map"}
      BY <2>1 DEF TypeOK, JobInv, Idle
    <2> QED
      BY <1>1, <2>1, <2>2, <2>3 DEF TypeOK, JobInv
  <1>9. CASE EndMap \/ EndMirror
    <2>1. UNCHANGED <<pages, allocated, tables>> /\ job' = Idle /\ currentDir' = kernelDir
      BY <1>9 DEF EndMap, EndMirror, taskVars, JobInv
    <2>2. job' \in Job
      BY <2>1 DEF Job, Idle
    <2> QED
      BY <1>1, <2>1, <2>2 DEF TypeOK, JobInv, Idle
  <1>10. CASE KeepTable
    <2>1. /\ UNCHANGED <<pages, allocated, tables, currentDir>> /\ job.op = "free"
          /\ job.index < TABLES_IN_DIR
          /\ job' = [job EXCEPT !.index = @ + 1]
      BY <1>10 DEF KeepTable, Freeing, taskVars
    <2>2. job \in [op : {"free"}, dir : PageDir, index : 0 .. TABLES_IN_DIR]
      BY <2>1 DEF TypeOK, Job
    <2>3. job.index \in TableIndex
      BY <2>1, JobFacts
    <2>4. job' \in [op : {"free"}, dir : PageDir, index : 0 .. TABLES_IN_DIR] /\ job'.dir = job.dir
      BY <1>2, <2>1, <2>2, <2>3
    <2>5. job' \in Job /\ job'.op = "free"
      BY <2>4 DEF Job
    <2> QED
      BY <1>1, <2>1, <2>4, <2>5 DEF TypeOK, JobInv
  <1>11. CASE \E page \in Touched : PageFault(page)
    <2>1. PICK page \in Touched : PageFault(page)
      BY <1>11
    <2>2. /\ UNCHANGED <<pages, allocated, tables, currentDir>> /\ currentDir = kernelDir
          /\ job' = [op |-> "mirror", todo |-> <<page, page + 1>>]
      BY <2>1 DEF PageFault, taskVars
    <2>3. page \in TouchedPages /\ page + 1 \in TouchedPages
      BY DEF TouchedPages
    <2>4. <<page, page + 1>> \in Seq(TouchedPages)
      BY <2>3
    <2>5. job' \in Job
      BY <2>2, <2>4 DEF Job
    <2> QED
      BY <1>1, <2>2, <2>5 DEF TypeOK, JobInv
  <1>12. CASE \E dir \in PageDir : Destroy(dir)
    <2>1. PICK dir \in PageDir : Destroy(dir)
      BY <1>12
    <2>2. /\ UNCHANGED <<pages, allocated, tables, currentDir>> /\ job = Idle
          /\ dir \in live \ {kernelDir, cr3}
          /\ job' = [op |-> "free", dir |-> dir, index |-> 0]
      BY <2>1 DEF Destroy, taskVars
    <2>3. job' \in Job
      BY <2>2, Layout DEF Job
    <2> QED
      BY <1>1, <2>2, <2>3 DEF TypeOK, JobInv, Idle
  <1> QED
    BY <1>4, <1>5, <1>6, <1>7, <1>8, <1>9, <1>10, <1>11, <1>12

\* The steps that change frames, heaps or the live directories.
LEMMA MemoryStepKeepsTypes ==
    ASSUME TypeOK, JobInv,
           \/ \E dir \in PageDir : MakeTask(dir) \/ Fork(dir) \/ Expand(dir) \/ Contract(dir)
                                   \/ Switch(dir)
           \/ CopyPage \/ MapNext \/ MirrorNext \/ FreeTable \/ EndFree
    PROVE  TypeOK' /\ JobInv'
  <1>1. MemoryTyped
    BY DEF TypeOK, MemoryTyped
  <1>2. ASSUME NEW dir \in PageDir, NEW source \in PageDir, BeginClone(source, dir),
               source \in live,
               heap' = [heap EXCEPT ![dir] = heap'[dir]], heap'[dir] \in live' \cup {NoHeap},
               heapSize' = [heapSize EXCEPT ![dir] = heapSize'[dir]],
               heapSize'[dir] \in 0 .. MaxSize(dir)
        PROVE  TypeOK' /\ JobInv'
    <2>1. /\ job = Idle /\ dir \notin live /\ live' = live \cup {dir}
          /\ tables' = [tables EXCEPT ![dir] = [i \in TableIndex |-> NoTable]]
          /\ job' = CloneJob(source, dir, 0)
          /\ UNCHANGED <<used, pages, allocated, currentDir, cr3, exhausted>>
      BY <1>2 DEF BeginClone
    <2>2. job' \in Job
      BY <2>1, Layout DEF CloneJob, Job
    <2>3. heapSize'[dir] \in Nat /\ heap'[dir] \in PageDir \cup {NoHeap}
      BY <1>2, <2>1, Layout DEF TypeOK
    <2>4. heap' \in [PageDir -> PageDir \cup {NoHeap}] /\ heapSize' \in [PageDir -> Nat]
      BY <1>2, <2>3 DEF TypeOK
    <2>5. tables' \in [PageDir -> [TableIndex -> PageTable \cup {NoTable}]]
      BY <2>1 DEF TypeOK
    <2>6. TypeOK'
      BY <2>1, <2>2, <2>4, <2>5 DEF TypeOK
    <2>7. \A d \in PageDir : heap'[d] \in live' \cup {NoHeap} /\ heapSize'[d] \in 0 .. MaxSize(d)
      BY <1>2, <2>1, <2>4 DEF JobInv, TypeOK
    <2>8. dir # kernelDir /\ source # dir
      BY <1>2, <2>1 DEF TypeOK
    <2> QED
      BY <1>2, <2>1, <2>6, <2>7, <2>8 DEF JobInv, CloneJob, Idle
  <1>3. ASSUME NEW dir \in PageDir, MakeTask(dir)
        PROVE  TypeOK' /\ JobInv'
    <2>1. BeginClone(kernelDir, dir) /\ heap' = [heap EXCEPT ![dir] = dir]
          /\ heapSize' = [heapSize EXCEPT ![dir] = HeapMin]
      BY <1>3 DEF MakeTask
    <2>2. dir # kernelDir /\ live' = live \cup {dir}
      BY <2>1 DEF BeginClone, TypeOK
    <2>3. heap'[dir] = dir /\ heapSize'[dir] = HeapMin
      BY <2>1 DEF TypeOK
    <2>4. HeapMin \in 0 .. MaxSize(dir)
      BY <2>2, Layout DEF MinSize, MaxSize
    <2> QED
      BY <1>2, <2>1, <2>2, <2>3, <2>4, Layout DEF TypeOK
  <1>4. ASSUME NEW dir \in PageDir, Fork(dir)
        PROVE  TypeOK' /\ JobInv'
    <2>1. BeginClone(cr3, dir) /\ heap' = [heap EXCEPT ![dir] = heap[cr3]] /\ UNCHANGED heapSize
      BY <1>4 DEF Fork
    <2>2. cr3 \in live /\ cr3 \in PageDir
      BY DEF TypeOK
    <2>3. heap'[dir] = heap[cr3] /\ heapSize' = [heapSize EXCEPT ![dir] = heapSize'[dir]]
      BY <2>1 DEF TypeOK
    <2>4. heap[cr3] \in live \cup {NoHeap} /\ heapSize'[dir] \in 0 .. MaxSize(dir)
      BY <2>1, <2>2 DEF JobInv
    <2>5. live \subseteq live'
      BY <2>1 DEF BeginClone
    <2> QED
      BY <1>2, <2>1, <2>2, <2>3, <2>4, <2>5
  <1>5. ASSUME NEW dir \in PageDir, Expand(dir)
        PROVE  TypeOK' /\ JobInv'
    <2>1. /\ heapSize[dir] < MaxSize(dir)
          /\ MapPage(dir, HeapStart(dir) + heapSize[dir])
          /\ heapSize' = [heapSize EXCEPT ![dir] = @ + 1]
          /\ UNCHANGED <<live, heap, currentDir, cr3, job>>
      BY <1>5 DEF Expand
    <2>2. heapSize[dir] \in Nat /\ heapSize[dir] + 1 \in 0 .. MaxSize(dir)
      BY <2>1, Layout DEF JobInv
    <2>3. HeapStart(dir) + heapSize[dir] \in Page
      BY <2>1, <2>2, Layout
    <2>4. MemoryTyped' /\ used \subseteq used'
      BY <1>1, <2>1, <2>3, MapPageTyped
    <2>5. heapSize' \in [PageDir -> Nat] /\ \A d \in PageDir : heapSize'[d] \in 0 .. MaxSize(d)
      BY <2>1, <2>2 DEF TypeOK, JobInv
    <2> QED
      BY <2>1, <2>4, <2>5 DEF TypeOK, JobInv, MemoryTyped
  <1>6. ASSUME NEW dir \in PageDir, Contract(dir)
        PROVE  TypeOK' /\ JobInv'
    <2>1. /\ heapSize[dir] > MinSize(dir)
          /\ UnmapPage(dir, HeapStart(dir) + heapSize[dir] - 1)
          /\ heapSize' = [heapSize EXCEPT ![dir] = @ - 1]
          /\ UNCHANGED <<allocated, live, tables, heap, currentDir, cr3, job, exhausted>>
      BY <1>6 DEF Contract
    <2>2. heapSize[dir] \in Nat \ {0} /\ heapSize[dir] - 1 \in 0 .. MaxSize(dir)
          /\ heapSize[dir] - 1 < MaxSize(dir)
      BY <2>1, Layout DEF JobInv
    <2>3. HeapStart(dir) + (heapSize[dir] - 1) \in Page
      BY <2>2, Layout
    <2>4. HeapStart(dir) + heapSize[dir] - 1 = HeapStart(dir) + (heapSize[dir] - 1)
      BY <2>2, PagingConstants DEF HeapStart, PagingConstants
    <2>5. MemoryTyped' /\ 0 \in used'
      BY <1>1, <2>1, <2>3, <2>4, UnmapPageTyped DEF JobInv
    <2>6. heapSize' \in [PageDir -> Nat] /\ \A d \in PageDir : heapSize'[d] \in 0 .. MaxSize(d)
      BY <2>1, <2>2 DEF TypeOK, JobInv
    <2> QED
      BY <2>1, <2>5, <2>6 DEF TypeOK, JobInv, MemoryTyped
  <1>7. ASSUME NEW dir \in PageDir, Switch(dir)
        PROVE  TypeOK' /\ JobInv'
    BY <1>7 DEF Switch, TypeOK, JobInv, Idle
  <1>8. CASE CopyPage
    <2>1. /\ job.op = "copy" /\ job.offset < PAGES_IN_TABLE
          /\ job' = [job EXCEPT !.offset = @ + 1]
          /\ UNCHANGED <<allocated, live, tables, heap, heapSize, currentDir, cr3>>
      BY <1>8 DEF CopyPage, Copying, taskVars
    <2>2. job.table \in PageTable /\ job.offset \in PageOffset
          /\ job.offset \in 0 .. PAGES_IN_TABLE /\ job.offset + 1 \in 0 .. PAGES_IN_TABLE
      BY <2>1, JobFacts, Layout
    <2>3. job \in [op : {"copy"}, source : PageDir, dir : PageDir, index : TableIndex,
                   table : PageTable, offset : 0 .. PAGES_IN_TABLE]
      BY <2>1 DEF TypeOK, Job
    <2>4. job' \in [op : {"copy"}, source : PageDir, dir : PageDir, index : TableIndex,
                    table : PageTable, offset : 0 .. PAGES_IN_TABLE]
          /\ job'.dir = job.dir /\ job'.source = job.source
      BY <2>1, <2>2, <2>3
    <2>5. job' \in Job /\ job'.op = "copy"
      BY <2>4 DEF Job
    <2>6. /\ used' \subseteq Frame /\ used \subseteq used' /\ exhausted' \in BOOLEAN
          /\ pages' \in [PageTable -> [PageOffset -> Frame]]
      <3>1. CASE AllocFrame(job.table, pages[job.table], job.offset)
        <4>1. pages[job.table] \in [PageOffset -> Frame]
          BY <2>2 DEF TypeOK
        <4> QED
          BY <1>1, <2>2, <3>1, <4>1, AllocFrameTyped
      <3>2. CASE UNCHANGED <<used, pages, exhausted>>
        BY <3>2 DEF TypeOK
      <3> QED
        BY <1>8, <3>1, <3>2 DEF CopyPage
    <2> QED
      BY <2>1, <2>4, <2>5, <2>6 DEF TypeOK, JobInv
  <1>9. CASE MapNext
    <2>1. /\ job.op = "map" /\ job.todo # <<>> /\ MapPage(currentDir, Head(job.todo))
          /\ job' = [job EXCEPT !.todo = Tail(@)]
          /\ UNCHANGED <<live, heap, heapSize, currentDir, cr3>>
      BY <1>9 DEF MapNext, taskVars
    <2>2. job.todo \in Seq(Page) /\ job = [op |-> "map", todo |-> job.todo]
      BY <2>1, JobFacts
    <2>3. Head(job.todo) \in Page /\ Tail(job.todo) \in Seq(Page)
      BY <2>1, <2>2
    <2>4. job' = [op |-> "map", todo |-> Tail(job.todo)]
      BY <2>1, <2>2
    <2>5. job' \in Job /\ job'.op = "map"
      BY <2>3, <2>4 DEF Job
    <2>6. MemoryTyped' /\ used \subseteq used'
      BY <1>1, <2>1, <2>3, MapPageTyped DEF TypeOK
    <2> QED
      BY <2>1, <2>5, <2>6 DEF TypeOK, JobInv, MemoryTyped
  <1>10. CASE MirrorNext
    <2>1. /\ job.op = "mirror" /\ job.todo # <<>> /\ MirrorPage(currentDir, Head(job.todo))
          /\ job' = [job EXCEPT !.todo = Tail(@)]
          /\ UNCHANGED <<live, heap, heapSize, currentDir, cr3>>
      BY <1>10 DEF MirrorNext, taskVars
    <2>2. job.todo \in Seq(TouchedPages) /\ job = [op |-> "mirror", todo |-> job.todo]
      BY <2>1, JobFacts
    <2>3. Head(job.todo) \in TouchedPages /\ Tail(job.todo) \in Seq(TouchedPages)
      BY <2>1, <2>2
    <2>4. job' = [op |-> "mirror", todo |-> Tail(job.todo)]
      BY <2>1, <2>2
    <2>5. job' \in Job /\ job'.op = "mirror"
      BY <2>3, <2>4 DEF Job
    <2>6. MemoryTyped' /\ used \subseteq used'
      BY <1>1, <2>1, <2>3, Layout, MirrorPageTyped DEF TypeOK
    <2> QED
      BY <2>1, <2>5, <2>6 DEF TypeOK, JobInv, MemoryTyped
  <1>11. CASE FreeTable
    <2>1. /\ job.op = "free" /\ job.index < TABLES_IN_DIR /\ DyingTable # NoTable
          /\ used' = used \ ({pages[DyingTable][o] : o \in PageOffset} \ {0})
          /\ pages' = [pages EXCEPT ![DyingTable] = EmptyTable]
          /\ allocated' = allocated \ {DyingTable}
          /\ job' = [job EXCEPT !.index = @ + 1]
          /\ UNCHANGED <<live, tables, heap, heapSize, currentDir, cr3, exhausted>>
      BY <1>11 DEF FreeTable, Freeing, OwnTable, taskVars
    <2>2. job \in [op : {"free"}, dir : PageDir, index : 0 .. TABLES_IN_DIR]
          /\ job.index + 1 \in 0 .. TABLES_IN_DIR
      <3>1. job \in [op : {"free"}, dir : PageDir, index : 0 .. TABLES_IN_DIR]
        BY <2>1 DEF TypeOK, Job
      <3> QED
        BY <2>1, <3>1, Layout
    <2>3. job' \in [op : {"free"}, dir : PageDir, index : 0 .. TABLES_IN_DIR] /\ job'.dir = job.dir
      BY <2>1, <2>2
    <2>4. job' \in Job /\ job'.op = "free"
      BY <2>3 DEF Job
    <2>5. pages' \in [PageTable -> [PageOffset -> Frame]]
      BY <2>1, EmptyTableTyped DEF TypeOK
    <2>6. used' \subseteq Frame /\ 0 \in used' /\ allocated' \subseteq PageTable
      BY <2>1 DEF TypeOK, JobInv
    <2> QED
      BY <2>1, <2>3, <2>4, <2>5, <2>6 DEF TypeOK, JobInv
  <1>12. CASE EndFree
    <2>1. /\ job.op = "free" /\ live' = live \ {job.dir} /\ job' = Idle
          /\ heap' = [d \in PageDir |-> IF heap[d] = job.dir THEN NoHeap ELSE heap[d]]
          /\ UNCHANGED <<used, pages, allocated, tables, heapSize, currentDir, cr3, exhausted>>
      BY <1>12 DEF EndFree
    <2>2. job' \in Job /\ job'.op = "none"
      BY <2>1 DEF Idle, Job
    <2>3. currentDir = kernelDir /\ job.dir \in live \ {kernelDir, cr3}
      BY <2>1 DEF JobInv
    <2>4. heap' \in [PageDir -> PageDir \cup {NoHeap}]
      BY <2>1 DEF TypeOK
    <2>5. \A d \in PageDir : heap'[d] \in live' \cup {NoHeap}
      BY <2>1 DEF JobInv
    <2> QED
      BY <2>1, <2>2, <2>3, <2>4, <2>5 DEF TypeOK, JobInv
  <1> QED
    BY <1>3, <1>4, <1>5, <1>6, <1>7, <1>8, <1>9, <1>10, <1>11, <1>12

LEMMA StutterKeepsTypes == TypeOK /\ JobInv /\ UNCHANGED vars => TypeOK' /\ JobInv'
  BY DEF vars, taskVars, TypeOK, JobInv

\* No call takes a frame, a page, a table or a directory that does not exist,
\* however the heaps grow and the calls overlap.
THEOREM PagingTypeCorrect == Spec => [](TypeOK /\ JobInv)
  <1>1. TypeOK /\ JobInv /\ [Next]_vars => TypeOK' /\ JobInv'
    BY CallKeepsTypes, MemoryStepKeepsTypes, StutterKeepsTypes DEF Next
  <1> QED
    BY <1>1, InitTyped, PTL DEF Spec

-----------------------------------------------------------------------------
(* Tables and directories. *)

\* A table of its own that freeDir has freed already.
Freed(d, i) == /\ job.op = "free" /\ d = job.dir /\ i < job.index
               /\ tables[d][i] # tables[kernelDir][i]

\* A live directory holds the tables that it points to and has not freed.
Holds(d, i) == d \in live /\ tables[d][i] # NoTable /\ ~Freed(d, i)

\* The tables that are allocated are those the live directories hold and the
\* one that is filled.
TablesAllocated ==
    \A t \in PageTable :
        t \in allocated <=> \/ job.op = "copy" /\ t = job.table
                            \/ \E d \in PageDir, i \in TableIndex : Holds(d, i) /\ t = tables[d][i]

\* Two directories hold a table at the same index, and only if it is the kernel's.
TablesHaveOneOwner ==
    \A d, e \in PageDir, i, j \in TableIndex :
        Holds(d, i) /\ Holds(e, j) /\ tables[d][i] = tables[e][j] =>
            i = j /\ (d = e \/ tables[d][i] = tables[kernelDir][i])

FreeTablesAreEmpty == \A t \in PageTable \ allocated : pages[t] = EmptyTable

UnderConstruction(d) == job.op \in {"clone", "copy"} /\ d = job.dir

\* How far cloneDir has come.
CloneInv ==
    /\ job.op \in {"clone", "copy"} =>
         \A j \in TableIndex : j >= job.index => tables[job.dir][j] = NoTable
    /\ job.op = "copy" =>
         /\ \A d \in PageDir, i \in TableIndex : Holds(d, i) => tables[d][i] # job.table
         /\ SourceTable \notin {NoTable, tables[kernelDir][job.index]}

\* Every directory has the tables that initPaging made.
BootTablesInv ==
    \A i \in BootIndex :
        /\ tables[kernelDir][i] # NoTable
        /\ \A d \in live : (UnderConstruction(d) => i < job.index) =>
                                 tables[d][i] = tables[kernelDir][i]

KernelTablesInv == \A i \in TableIndex : tables[kernelDir][i] # NoTable => i \in KernelIndex

TableInv == /\ TablesAllocated /\ TablesHaveOneOwner /\ FreeTablesAreEmpty
            /\ CloneInv /\ BootTablesInv /\ KernelTablesInv

\* The kernel holds all of its tables.
LEMMA KernelHolds ==
    ASSUME TypeOK, JobInv, NEW i \in TableIndex, tables[kernelDir][i] # NoTable
    PROVE  Holds(kernelDir, i)
  BY DEF TypeOK, Holds, Freed

LEMMA GetPageKeepsTables ==
    ASSUME TypeOK, JobInv, TableInv, NEW dir \in live, NEW page \in Page,
           NEW t \in PageTable, NEW entries, GetPage(dir, page, t, entries),
           dir = kernelDir => IndexOf(page) \in KernelIndex,
           job.op \notin {"free", "copy"}, ~UnderConstruction(dir),
           UNCHANGED live, job'.op = job.op, job.op = "clone" => UNCHANGED job,
           \A u \in PageTable \ {t} : pages'[u] = pages[u]
    PROVE  TableInv'
  <1> DEFINE k == IndexOf(page)
  <1>1. k \in TableIndex /\ dir \in PageDir /\ kernelDir \in PageDir /\ t # NoTable
    BY PageFacts, Layout DEF TypeOK
  <1>2. \A d \in PageDir, i \in TableIndex : Holds(d, i) <=> d \in live /\ tables[d][i] # NoTable
    BY DEF Holds, Freed
  <1>3. \A d \in PageDir, i \in TableIndex : Holds(d, i)' <=> d \in live /\ tables'[d][i] # NoTable
    BY DEF Holds, Freed
  <1>4. CASE t = TableOf(dir, page) /\ t # NoTable /\ UNCHANGED <<allocated, tables>>
    <2>1. t \in allocated
      BY <1>1, <1>2, <1>4 DEF TableOf, TableInv, TablesAllocated
    <2>2. TablesAllocated'
      BY <1>2, <1>3, <1>4 DEF TableInv, TablesAllocated
    <2>3. TablesHaveOneOwner'
      BY <1>2, <1>3, <1>4 DEF TableInv, TablesHaveOneOwner
    <2>4. FreeTablesAreEmpty'
      BY <1>4, <2>1 DEF TableInv, FreeTablesAreEmpty
    <2>5. CloneInv' /\ BootTablesInv' /\ KernelTablesInv'
      BY <1>4 DEF TableInv, CloneInv, BootTablesInv, KernelTablesInv, UnderConstruction
    <2> QED
      BY <2>2, <2>3, <2>4, <2>5 DEF TableInv
  <1>5. CASE /\ TableOf(dir, page) = NoTable /\ t \notin allocated
             /\ allocated' = allocated \cup {t}
             /\ tables' = [tables EXCEPT ![dir][k] = t]
    <2>1. \A d \in PageDir, i \in TableIndex :
              tables'[d][i] = IF d = dir /\ i = k THEN t ELSE tables[d][i]
      BY <1>1, <1>5 DEF TypeOK
    <2>2. tables[dir][k] = NoTable
      BY <1>5 DEF TableOf
    <2>3. \A d \in PageDir, i \in TableIndex : d \in live => tables[d][i] # t
      BY <1>1, <1>2, <1>5 DEF TableInv, TablesAllocated
    <2>4. TablesAllocated'
      <3> SUFFICES ASSUME NEW u \in PageTable
                   PROVE  u \in allocated' <=>
                            \E d \in PageDir, i \in TableIndex : Holds(d, i)' /\ u = tables'[d][i]
        BY DEF TablesAllocated
      <3>1. u \in allocated <=> \E d \in PageDir, i \in TableIndex : d \in live /\ tables[d][i] # NoTable /\ u = tables[d][i]
        BY <1>2 DEF TableInv, TablesAllocated
      <3>2. CASE u = t
        BY <1>1, <1>3, <1>5, <2>1, <3>2
      <3>3. CASE u # t
        <4>1. u \in allocated' <=> u \in allocated
          BY <1>5, <3>3
        <4>2. \A d \in PageDir, i \in TableIndex :
                 (d \in live /\ tables[d][i] # NoTable /\ u = tables[d][i])
                    <=> (Holds(d, i)' /\ u = tables'[d][i])
          BY <1>3, <2>1, <2>2, <3>3
        <4> QED
          BY <3>1, <4>1, <4>2
      <3> QED
        BY <3>2, <3>3
    <2>5. TablesHaveOneOwner'
      <3> SUFFICES ASSUME NEW d \in PageDir, NEW e \in PageDir,
                          NEW i \in TableIndex, NEW j \in TableIndex,
                          Holds(d, i)', Holds(e, j)', tables'[d][i] = tables'[e][j]
                   PROVE  i = j /\ (d = e \/ tables'[d][i] = tables'[kernelDir][i])
        BY DEF TablesHaveOneOwner
      <3>0. /\ d \in live /\ tables'[d][i] # NoTable
            /\ e \in live /\ tables'[e][j] # NoTable
        BY <1>3
      <3>1. CASE tables'[d][i] = t
        <4>1. d = dir /\ i = k
          BY <2>1, <2>3, <3>0, <3>1
        <4>2. tables'[e][j] = t
          BY <3>1
        <4>3. e = dir /\ j = k
          BY <2>1, <2>3, <3>0, <4>2
        <4> QED
          BY <4>1, <4>3
      <3>2. CASE tables'[d][i] # t
        <4>1. tables'[d][i] = tables[d][i] /\ tables'[e][j] = tables[e][j]
          BY <2>1, <3>2
        <4>4. Holds(d, i) /\ Holds(e, j) /\ tables[d][i] = tables[e][j]
          BY <1>2, <3>0, <4>1
        <4>2. i = j /\ (d = e \/ tables[d][i] = tables[kernelDir][i])
          BY <4>4 DEF TableInv, TablesHaveOneOwner
        <4>3. tables[kernelDir][i] # NoTable => tables'[kernelDir][i] = tables[kernelDir][i]
          BY <1>1, <2>1, <2>2
        <4> QED
          BY <3>0, <4>1, <4>2, <4>3
      <3> QED
        BY <3>1, <3>2
    <2>6. FreeTablesAreEmpty'
      BY <1>5 DEF TableInv, FreeTablesAreEmpty
    <2>7. CloneInv'
      <3> SUFFICES ASSUME job.op = "clone"
                   PROVE  \A j \in TableIndex : j >= job.index => tables'[job.dir][j] = NoTable
        BY DEF CloneInv
      <3>1. job.dir # dir /\ job.dir \in PageDir
        BY DEF UnderConstruction, JobInv, TypeOK
      <3> QED
        BY <2>1, <3>1 DEF TableInv, CloneInv
    <2>8. BootTablesInv'
      <3> SUFFICES ASSUME NEW i \in BootIndex
                   PROVE  /\ tables'[kernelDir][i] # NoTable
                          /\ \A d \in live : (UnderConstruction(d)' => i < job'.index) =>
                                 tables'[d][i] = tables'[kernelDir][i]
        BY DEF BootTablesInv
      <3>1. i \in TableIndex /\ tables[kernelDir][i] # NoTable
        BY Layout DEF TableInv, BootTablesInv
      <3>2. \A d \in live : (UnderConstruction(d)' => i < job'.index) => (UnderConstruction(d) => i < job.index)
        BY DEF UnderConstruction
      <3>3. \A d \in live : (UnderConstruction(d) => i < job.index) => tables[d][i] = tables[kernelDir][i]
        BY DEF TableInv, BootTablesInv
      <3>4. ~(i = k)
        BY <2>2, <3>1, <3>3
      <3>5. live \subseteq PageDir
        BY DEF TypeOK
      <3> QED
        BY <1>1, <2>1, <3>1, <3>2, <3>3, <3>4, <3>5
    <2>9. KernelTablesInv'
      BY <1>1, <2>1 DEF TableInv, KernelTablesInv
    <2> QED
      BY <2>4, <2>5, <2>6, <2>7, <2>8, <2>9 DEF TableInv
  <1> QED
    BY <1>4, <1>5 DEF GetPage

\* A step that leaves the tables alone, and ends or changes the call only where
\* this makes no difference to them.
LEMMA QuietStep ==
    ASSUME TypeOK, JobInv, TableInv, UNCHANGED <<allocated, live, tables>>,
           FreeTablesAreEmpty',
           \A d \in PageDir, i \in TableIndex : Holds(d, i)' <=> Holds(d, i),
           job'.op \in {"clone", "copy"} => /\ job.op = job'.op /\ job.index = job'.index
                                            /\ job.dir = job'.dir /\ job.source = job'.source,
           job.op = "copy" => job'.op = "copy" /\ job'.table = job.table,
           job.op = "clone" => job'.op = "clone" \/ job.index = TABLES_IN_DIR
    PROVE  TableInv'
  <1>1. TablesAllocated'
    <2>1. \A t \in PageTable : job.op = "copy" /\ t = job.table <=> job'.op = "copy" /\ t = job'.table
      OBVIOUS
    <2> QED
      BY <2>1 DEF TableInv, TablesAllocated
  <1>2. TablesHaveOneOwner'
    BY DEF TableInv, TablesHaveOneOwner
  <1>3. CloneInv'
    BY DEF TableInv, CloneInv, SourceTable
  <1>4. BootTablesInv'
    <2>1. ASSUME NEW d \in live, NEW i \in BootIndex, UnderConstruction(d), ~UnderConstruction(d)'
          PROVE  i < job.index
      <3>1. job.index = TABLES_IN_DIR
        BY <2>1 DEF UnderConstruction
      <3> QED
        BY <3>1, Layout DEF TableIndex
    <2>2. \A d \in live, i \in BootIndex : UnderConstruction(d)' => UnderConstruction(d) /\ job'.index = job.index
      BY DEF UnderConstruction
    <2> QED
      BY <2>1, <2>2 DEF TableInv, BootTablesInv
  <1>5. KernelTablesInv'
    BY DEF TableInv, KernelTablesInv
  <1> QED
    BY <1>1, <1>2, <1>3, <1>4, <1>5 DEF TableInv

\* The steps that start and end a call, and those that unmap or copy a page.
LEMMA QuietStepsKeepTables ==
    ASSUME TypeOK, JobInv, TableInv,
           \/ CopyPage \/ EndClone \/ EndMap \/ EndMirror \/ KeepTable
           \/ \E page \in Touched : PageFault(page)
           \/ \E dir \in PageDir : Contract(dir) \/ Destroy(dir) \/ Switch(dir)
    PROVE  TableInv'
  <1>1. CASE CopyPage
    <2>1. /\ job.op = "copy" /\ job.offset < PAGES_IN_TABLE
          /\ job' = [job EXCEPT !.offset = @ + 1] /\ UNCHANGED <<allocated, live, tables>>
      BY <1>1 DEF CopyPage, Copying
    <2>2. job \in [op : {"copy"}, source : PageDir, dir : PageDir, index : TableIndex,
                   table : PageTable, offset : 0 .. PAGES_IN_TABLE]
      BY <2>1 DEF TypeOK, Job
    <2>3. /\ job'.op = "copy" /\ job'.index = job.index /\ job'.dir = job.dir
          /\ job'.source = job.source /\ job'.table = job.table
      BY <2>1, <2>2
    <2>4. job.table \in allocated
      BY <2>1, <2>2 DEF TableInv, TablesAllocated
    <2>5. \A u \in PageTable \ {job.table} : pages'[u] = pages[u]
      BY <1>1, <2>2 DEF CopyPage, AllocFrame, TypeOK
    <2>6. FreeTablesAreEmpty'
      BY <2>1, <2>4, <2>5 DEF TableInv, FreeTablesAreEmpty
    <2>7. \A d \in PageDir, i \in TableIndex : Holds(d, i)' <=> Holds(d, i)
      BY <2>1, <2>3 DEF Holds, Freed
    <2> QED
      BY <2>1, <2>3, <2>6, <2>7, QuietStep
  <1>2. CASE EndClone
    <2>1. /\ UNCHANGED <<pages, allocated, live, tables>> /\ job.op = "clone"
          /\ job.index = TABLES_IN_DIR
          /\ job' \in {Idle, [op |-> "map", todo |-> TaskPages]}
      BY <1>2 DEF EndClone
    <2>2. job'.op \in {"none", "map"}
      BY <2>1 DEF Idle
    <2>3. \A d \in PageDir, i \in TableIndex : Holds(d, i)' <=> Holds(d, i)
      BY <2>1, <2>2 DEF Holds, Freed
    <2>4. FreeTablesAreEmpty'
      BY <2>1 DEF TableInv, FreeTablesAreEmpty
    <2> QED
      BY <2>1, <2>2, <2>3, <2>4, QuietStep
  <1>3. CASE EndMap \/ EndMirror
    <2>1. /\ UNCHANGED <<pages, allocated, live, tables>> /\ job.op \in {"map", "mirror"}
          /\ job' = Idle
      BY <1>3 DEF EndMap, EndMirror
    <2>2. job'.op = "none"
      BY <2>1 DEF Idle
    <2>3. \A d \in PageDir, i \in TableIndex : Holds(d, i)' <=> Holds(d, i)
      BY <2>1, <2>2 DEF Holds, Freed
    <2>4. FreeTablesAreEmpty'
      BY <2>1 DEF TableInv, FreeTablesAreEmpty
    <2> QED
      BY <2>1, <2>2, <2>3, <2>4, QuietStep
  <1>4. CASE KeepTable
    <2>1. /\ UNCHANGED <<pages, allocated, live, tables>> /\ job.op = "free"
          /\ job.index < TABLES_IN_DIR /\ DyingTable \in {NoTable, tables[kernelDir][job.index]}
          /\ job' = [job EXCEPT !.index = @ + 1]
      BY <1>4 DEF KeepTable, Freeing, OwnTable
    <2>2. job \in [op : {"free"}, dir : PageDir, index : 0 .. TABLES_IN_DIR]
      BY <2>1 DEF TypeOK, Job
    <2>3. job'.op = "free" /\ job'.dir = job.dir /\ job'.index = job.index + 1
      BY <2>1, <2>2
    <2>4. \A i \in TableIndex : i < job.index + 1 <=> i < job.index \/ i = job.index
      BY <2>2, Layout DEF TableIndex
    <2>5. \A d \in PageDir, i \in TableIndex : Holds(d, i)' <=> Holds(d, i)
      BY <2>1, <2>3, <2>4 DEF Holds, Freed, DyingTable
    <2>6. FreeTablesAreEmpty'
      BY <2>1 DEF TableInv, FreeTablesAreEmpty
    <2> QED
      BY <2>1, <2>3, <2>5, <2>6, QuietStep
  <1>5. CASE \E page \in Touched : PageFault(page)
    <2>1. /\ UNCHANGED <<pages, allocated, live, tables>> /\ job.op = "none"
          /\ job'.op = "mirror"
      BY <1>5 DEF PageFault, Idle
    <2>2. \A d \in PageDir, i \in TableIndex : Holds(d, i)' <=> Holds(d, i)
      BY <2>1 DEF Holds, Freed
    <2>3. FreeTablesAreEmpty'
      BY <2>1 DEF TableInv, FreeTablesAreEmpty
    <2> QED
      BY <2>1, <2>2, <2>3, QuietStep
  <1>6. ASSUME NEW dir \in PageDir, Contract(dir)
        PROVE  TableInv'
    <2> DEFINE page == HeapStart(dir) + heapSize[dir] - 1
    <2>1. /\ UnmapPage(dir, page)
          /\ UNCHANGED <<allocated, live, tables, job>>
          /\ heapSize[dir] > MinSize(dir)
          /\ \/ job = Idle /\ dir \in {kernelDir, heap[cr3]}
             \/ dir = kernelDir /\ job.op = "free"
      BY <1>6 DEF Contract, UsesHeap
    <2>2. dir \in live /\ (job.op = "free" => dir # job.dir)
      <3>1. kernelDir \in live /\ (job.op = "free" => kernelDir # job.dir)
        BY DEF TypeOK, JobInv
      <3>2. cr3 \in PageDir /\ NoHeap \notin PageDir
        BY Layout DEF TypeOK
      <3>3. heap[cr3] \in live \cup {NoHeap}
        BY <3>2 DEF JobInv
      <3>4. job = Idle => job.op # "free"
        BY DEF Idle
      <3> QED
        BY <2>1, <3>1, <3>2, <3>3, <3>4
    <2>3. page \in Page
      <3>1. heapSize[dir] \in Nat \ {0} /\ heapSize[dir] - 1 \in Nat
            /\ heapSize[dir] - 1 < MaxSize(dir)
        BY <2>1, Layout DEF JobInv
      <3>2. HeapStart(dir) + (heapSize[dir] - 1) \in Page
        BY <3>1, Layout
      <3> QED
        BY <3>1, <3>2, PagingConstants DEF HeapStart, PagingConstants
    <2> HIDE DEF page
    <2>4. TableOf(dir, page) # NoTable => TableOf(dir, page) \in allocated
      <3>1. IndexOf(page) \in TableIndex
        BY <2>3, PageFacts
      <3>2. Holds(dir, IndexOf(page)) \/ TableOf(dir, page) = NoTable
        BY <2>2 DEF TableOf, Holds, Freed
      <3>3. TableOf(dir, page) \in PageTable \cup {NoTable}
        BY <3>1 DEF TableOf, TypeOK
      <3> QED
        BY <3>1, <3>2, <3>3 DEF TableInv, TablesAllocated, TableOf
    <2>5. \A u \in PageTable \ allocated : pages'[u] = pages[u]
      BY <2>1, <2>4 DEF UnmapPage, FrameAt, TypeOK
    <2>6. FreeTablesAreEmpty'
      BY <2>1, <2>5 DEF TableInv, FreeTablesAreEmpty
    <2>7. \A d \in PageDir, i \in TableIndex : Holds(d, i)' <=> Holds(d, i)
      BY <2>1 DEF Holds, Freed
    <2> QED
      BY <2>1, <2>6, <2>7, QuietStep
  <1>7. ASSUME NEW dir \in PageDir, Destroy(dir)
        PROVE  TableInv'
    <2>1. /\ UNCHANGED <<pages, allocated, live, tables>> /\ job.op = "none"
          /\ job'.op = "free" /\ job'.index = 0
      BY <1>7 DEF Destroy, Idle
    <2>2. \A d \in PageDir, i \in TableIndex : Holds(d, i)' <=> Holds(d, i)
      BY <2>1, Layout DEF Holds, Freed, TableIndex
    <2>3. FreeTablesAreEmpty'
      BY <2>1 DEF TableInv, FreeTablesAreEmpty
    <2> QED
      BY <2>1, <2>2, <2>3, QuietStep
  <1>8. ASSUME NEW dir \in PageDir, Switch(dir)
        PROVE  TableInv'
    <2>1. UNCHANGED <<pages, allocated, live, tables, job>>
      BY <1>8 DEF Switch
    <2>2. \A d \in PageDir, i \in TableIndex : Holds(d, i)' <=> Holds(d, i)
      BY <2>1 DEF Holds, Freed
    <2>3. FreeTablesAreEmpty'
      BY <2>1 DEF TableInv, FreeTablesAreEmpty
    <2> QED
      BY <2>1, <2>2, <2>3, QuietStep
  <1> QED
    BY <1>1, <1>2, <1>3, <1>4, <1>5, <1>6, <1>7, <1>8

\* The steps of cloneDir.
LEMMA CloneKeepsTables ==
    ASSUME TypeOK, JobInv, TableInv,
           \/ \E dir \in PageDir : MakeTask(dir) \/ Fork(dir)
           \/ SkipTable \/ ShareTable \/ BeginTable \/ EndTable
    PROVE  TableInv'
  <1>1. ASSUME NEW source \in live, NEW dir \in PageDir, BeginClone(source, dir)
        PROVE  TableInv'
    <2>1. /\ job.op = "none" /\ dir \notin live /\ live' = live \cup {dir}
          /\ tables' = [tables EXCEPT ![dir] = [i \in TableIndex |-> NoTable]]
          /\ job'.op = "clone" /\ job'.source = source /\ job'.dir = dir /\ job'.index = 0
          /\ UNCHANGED <<pages, allocated>>
      BY <1>1 DEF BeginClone, CloneJob, Idle
    <2>2. /\ \A d \in PageDir \ {dir} : tables'[d] = tables[d]
          /\ \A i \in TableIndex : tables'[dir][i] = NoTable
          /\ dir # kernelDir /\ kernelDir \in PageDir
      BY <2>1, Layout DEF TypeOK
    <2>3. \A d \in PageDir, i \in TableIndex : Holds(d, i)' <=> Holds(d, i)
      BY <2>1, <2>2 DEF Holds, Freed
    <2>4. \A d \in PageDir, i \in TableIndex : Holds(d, i) => d # dir
      BY <2>1 DEF Holds
    <2>5. TablesAllocated' /\ TablesHaveOneOwner' /\ FreeTablesAreEmpty'
      <3>1. \A d \in PageDir, i \in TableIndex : Holds(d, i) => tables'[d][i] = tables[d][i]
        BY <2>2, <2>4
      <3>2. TablesAllocated'
        BY <2>1, <2>3, <3>1 DEF TableInv, TablesAllocated
      <3>3. \A i \in TableIndex : tables'[kernelDir][i] = tables[kernelDir][i]
        BY <2>2
      <3>4. TablesHaveOneOwner'
        BY <2>3, <3>1, <3>3 DEF TableInv, TablesHaveOneOwner
      <3> QED
        BY <2>1, <3>2, <3>4 DEF TableInv, FreeTablesAreEmpty
    <2>6. CloneInv'
      BY <2>1, <2>2 DEF CloneInv
    <2>7. BootTablesInv'
      <3> SUFFICES ASSUME NEW i \in BootIndex
                   PROVE  /\ tables'[kernelDir][i] # NoTable
                          /\ \A d \in live' : (UnderConstruction(d)' => i < job'.index) =>
                                 tables'[d][i] = tables'[kernelDir][i]
        BY DEF BootTablesInv
      <3>1. i \in TableIndex /\ ~(i < 0)
        BY Layout DEF TableIndex
      <3>2. tables[kernelDir][i] # NoTable /\ \A d \in live : tables[d][i] = tables[kernelDir][i]
        BY <2>1 DEF TableInv, BootTablesInv, UnderConstruction
      <3> QED
        BY <2>1, <2>2, <3>1, <3>2 DEF UnderConstruction, TypeOK
    <2>8. KernelTablesInv'
      BY <2>2 DEF TableInv, KernelTablesInv
    <2> QED
      BY <2>5, <2>6, <2>7, <2>8 DEF TableInv
  <1> PICK dir, k : dir = job.dir /\ k = job.index
    OBVIOUS
  <1>2. ASSUME job.op \in {"clone", "copy"}, job.op = "clone" => k < TABLES_IN_DIR
        PROVE  /\ k \in TableIndex /\ dir \in live \ {kernelDir} /\ dir \in PageDir
               /\ job.source \in live /\ job.source \in PageDir /\ job.source # dir
               /\ \A j \in TableIndex : j >= k => tables[dir][j] = NoTable
               /\ \A d \in PageDir, i \in TableIndex : Holds(d, i) <=> d \in live /\ tables[d][i] # NoTable
               /\ k \in BootIndex => SourceTable = tables[kernelDir][k] /\ SourceTable # NoTable
    <2>1. /\ k \in TableIndex /\ dir \in live \ {kernelDir} /\ dir \in PageDir
          /\ job.source \in live /\ job.source \in PageDir /\ job.source # dir
      BY <1>2, JobFacts DEF JobInv
    <2>2. \A j \in TableIndex : j >= k => tables[dir][j] = NoTable
      BY <1>2 DEF TableInv, CloneInv
    <2>3. \A d \in PageDir, i \in TableIndex : Holds(d, i) <=> d \in live /\ tables[d][i] # NoTable
      BY <1>2 DEF Holds, Freed
    <2>4. k \in BootIndex => SourceTable = tables[kernelDir][k] /\ SourceTable # NoTable
      BY <2>1 DEF TableInv, BootTablesInv, UnderConstruction, SourceTable
    <2> QED
      BY <2>1, <2>2, <2>3, <2>4
  <1>3. ASSUME job.op \in {"clone", "copy"}, job.op = "clone" => k < TABLES_IN_DIR,
               NextTable, UNCHANGED live
        PROVE  /\ job'.op = "clone" /\ job'.dir = dir /\ job'.source = job.source
               /\ job'.index = k + 1
               /\ \A i \in TableIndex : i >= k + 1 => i >= k /\ i # k
               /\ \A i \in TableIndex : i < k + 1 => i < k \/ i = k
               /\ \A d \in PageDir, i \in TableIndex : Holds(d, i)' <=> d \in live /\ tables'[d][i] # NoTable
    <2>1. /\ job'.op = "clone" /\ job'.dir = dir /\ job'.source = job.source
          /\ job'.index = k + 1
      BY <1>3 DEF NextTable, CloneJob
    <2>2. k \in TableIndex
      BY <1>2, <1>3
    <2> QED
      BY <1>3, <2>1, <2>2, Layout DEF TableIndex, Holds, Freed
  <1>4. CASE SkipTable
    <2>1. /\ job.op = "clone" /\ k < TABLES_IN_DIR /\ SourceTable = NoTable
          /\ NextTable /\ UNCHANGED <<pages, allocated, live, tables>>
      BY <1>4 DEF SkipTable, Cloning
    <2>2. \A d \in PageDir, i \in TableIndex : Holds(d, i)' <=> Holds(d, i)
      BY <1>2, <1>3, <2>1
    <2>3. TablesAllocated' /\ TablesHaveOneOwner' /\ FreeTablesAreEmpty' /\ KernelTablesInv'
      <3>1. job'.op = "clone"
        BY <1>3, <2>1
      <3>2. TablesAllocated'
        BY <2>1, <2>2, <3>1 DEF TableInv, TablesAllocated
      <3> QED
        BY <2>1, <2>2, <3>2 DEF TableInv, TablesHaveOneOwner, FreeTablesAreEmpty, KernelTablesInv
    <2>4. CloneInv'
      BY <1>2, <1>3, <2>1 DEF CloneInv
    <2>5. BootTablesInv'
      <3>1. k \notin BootIndex
        BY <1>2, <2>1
      <3> QED
        BY <1>3, <2>1, <3>1, Layout DEF TableInv, BootTablesInv, UnderConstruction
    <2> QED
      BY <2>3, <2>4, <2>5 DEF TableInv
  <1>5. CASE ShareTable
    <2>1. /\ job.op = "clone" /\ k < TABLES_IN_DIR /\ SourceTable # NoTable
          /\ SourceTable = tables[kernelDir][k]
          /\ tables' = [tables EXCEPT ![dir][k] = SourceTable]
          /\ NextTable /\ UNCHANGED <<pages, allocated, live>>
      BY <1>5 DEF ShareTable, Cloning
    <2>2. \A d \in PageDir, i \in TableIndex :
              tables'[d][i] = IF d = dir /\ i = k THEN SourceTable ELSE tables[d][i]
      BY <1>2, <2>1 DEF TypeOK
    <2>3. \A i \in TableIndex : tables'[kernelDir][i] = tables[kernelDir][i]
      BY <1>2, <2>1, <2>2, Layout
    <2>4. Holds(kernelDir, k) /\ k \in TableIndex /\ tables[dir][k] = NoTable
      BY <1>2, <2>1, KernelHolds, Layout DEF TableIndex
    <2>5. /\ Holds(dir, k)' /\ ~Holds(dir, k)
          /\ \A d \in PageDir, i \in TableIndex : ~(d = dir /\ i = k) => (Holds(d, i)' <=> Holds(d, i))
      <3>1. /\ \A d \in PageDir, i \in TableIndex : Holds(d, i)' <=> d \in live /\ tables'[d][i] # NoTable
            /\ \A d \in PageDir, i \in TableIndex : Holds(d, i) <=> d \in live /\ tables[d][i] # NoTable
            /\ dir \in live /\ dir \in PageDir
        BY <1>2, <1>3, <2>1
      <3>2. tables'[dir][k] # NoTable
        BY <2>1, <2>2, <2>4, <3>1
      <3> QED
        BY <2>2, <2>4, <3>1, <3>2
    <2>6. TablesAllocated'
      <3> SUFFICES ASSUME NEW u \in PageTable
                   PROVE  u \in allocated <=>
                            \E d \in PageDir, i \in TableIndex : Holds(d, i)' /\ u = tables'[d][i]
        BY <1>3, <2>1 DEF TablesAllocated
      <3>1. u \in allocated <=> \E d \in PageDir, i \in TableIndex : Holds(d, i) /\ u = tables[d][i]
        BY <2>1 DEF TableInv, TablesAllocated
      <3>2. ASSUME NEW d \in PageDir, NEW i \in TableIndex, Holds(d, i), u = tables[d][i]
            PROVE  Holds(d, i)' /\ u = tables'[d][i]
        BY <2>2, <2>5, <3>2
      <3>3. ASSUME NEW d \in PageDir, NEW i \in TableIndex, Holds(d, i)', u = tables'[d][i]
            PROVE  \E e \in PageDir, j \in TableIndex : Holds(e, j) /\ u = tables[e][j]
        BY <2>1, <2>2, <2>4, <2>5, <3>3, Layout
      <3> QED
        BY <3>1, <3>2, <3>3
    <2>7. TablesHaveOneOwner'
      <3> DEFINE KernelsOwn(t) == \A d \in PageDir, i \in TableIndex :
                                      Holds(d, i) /\ tables[d][i] = t => i = k
      <3>1. KernelsOwn(SourceTable)
        BY <2>1, <2>4, Layout DEF TableInv, TablesHaveOneOwner
      <3> SUFFICES ASSUME NEW d \in PageDir, NEW e \in PageDir,
                          NEW i \in TableIndex, NEW j \in TableIndex,
                          Holds(d, i)', Holds(e, j)', tables'[d][i] = tables'[e][j]
                   PROVE  i = j /\ (d = e \/ tables'[d][i] = tables'[kernelDir][i])
        BY DEF TablesHaveOneOwner
      <3>2. CASE d = dir /\ i = k
        <4>1. tables'[e][j] = SourceTable
          BY <2>2, <3>2
        <4>2. j = k
          BY <2>2, <2>5, <3>1, <4>1
        <4> QED
          BY <2>1, <2>2, <2>3, <3>2, <4>2
      <3>3. CASE e = dir /\ j = k
        <4>1. tables'[d][i] = SourceTable
          BY <2>2, <3>3
        <4>2. i = k
          BY <2>2, <2>5, <3>1, <4>1
        <4> QED
          BY <2>1, <2>2, <2>3, <3>3, <4>1, <4>2
      <3>4. CASE ~(d = dir /\ i = k) /\ ~(e = dir /\ j = k)
        <4>1. Holds(d, i) /\ Holds(e, j) /\ tables[d][i] = tables[e][j] /\ tables'[d][i] = tables[d][i]
          BY <2>2, <2>5, <3>4
        <4>2. i = j /\ (d = e \/ tables[d][i] = tables[kernelDir][i])
          BY <4>1 DEF TableInv, TablesHaveOneOwner
        <4> QED
          BY <2>3, <4>1, <4>2
      <3> QED
        BY <3>2, <3>3, <3>4
    <2>8. CloneInv'
      BY <1>2, <1>3, <2>1, <2>2 DEF CloneInv
    <2>9. BootTablesInv'
      <3> SUFFICES ASSUME NEW i \in BootIndex
                   PROVE  /\ tables'[kernelDir][i] # NoTable
                          /\ \A d \in live : (UnderConstruction(d)' => i < job'.index) =>
                                 tables'[d][i] = tables'[kernelDir][i]
        BY <2>1 DEF BootTablesInv
      <3>1. i \in TableIndex /\ tables[kernelDir][i] # NoTable /\ live \subseteq PageDir
        BY Layout DEF TableInv, BootTablesInv, TypeOK
      <3>2. \A d \in live : (UnderConstruction(d) => i < job.index) => tables[d][i] = tables[kernelDir][i]
        BY DEF TableInv, BootTablesInv
      <3>3. \A d \in live : UnderConstruction(d)' <=> d = dir
        BY <1>3, <2>1 DEF UnderConstruction
      <3>4. \A d \in live : UnderConstruction(d) <=> d = dir
        BY <2>1 DEF UnderConstruction
      <3>5. job'.index = k + 1 /\ (i < k + 1 => i < k \/ i = k)
        BY <1>3, <2>1, <3>1
      <3> QED
        BY <2>1, <2>2, <2>3, <3>1, <3>2, <3>3, <3>4, <3>5
    <2>10. FreeTablesAreEmpty' /\ KernelTablesInv'
      BY <2>1, <2>3 DEF TableInv, FreeTablesAreEmpty, KernelTablesInv
    <2> QED
      BY <2>6, <2>7, <2>8, <2>9, <2>10 DEF TableInv
  <1>6. CASE BeginTable
    <2>1. PICK t \in PageTable \ allocated :
            /\ allocated' = allocated \cup {t}
            /\ pages' = [pages EXCEPT ![t] = EmptyTable]
            /\ job' = [op |-> "copy", source |-> job.source, dir |-> dir,
                       index |-> k, table |-> t, offset |-> 0]
      BY <1>6 DEF BeginTable
    <2>2. /\ job.op = "clone" /\ k < TABLES_IN_DIR
          /\ SourceTable \notin {NoTable, tables[kernelDir][k]} /\ UNCHANGED <<live, tables>>
      BY <1>6 DEF BeginTable, Cloning
    <2>3. /\ job'.op = "copy" /\ job'.source = job.source /\ job'.dir = dir
          /\ job'.index = k /\ job'.table = t
      BY <2>1
    <2>4. \A d \in PageDir, i \in TableIndex : Holds(d, i)' <=> Holds(d, i)
      BY <2>2, <2>3 DEF Holds, Freed
    <2>5. TablesAllocated'
      BY <2>1, <2>2, <2>3, <2>4 DEF TableInv, TablesAllocated
    <2>6. TablesHaveOneOwner'
      BY <2>2, <2>4 DEF TableInv, TablesHaveOneOwner
    <2>7. FreeTablesAreEmpty'
      BY <2>1 DEF TableInv, FreeTablesAreEmpty, TypeOK
    <2>8. CloneInv'
      <3>1. \A d \in PageDir, i \in TableIndex : Holds(d, i) => tables[d][i] # t
        BY <2>1 DEF TableInv, TablesAllocated
      <3> QED
        BY <1>2, <2>2, <2>3, <2>4, <3>1 DEF CloneInv, SourceTable
    <2>9. BootTablesInv'
      BY <2>2, <2>3 DEF TableInv, BootTablesInv, UnderConstruction
    <2>10. KernelTablesInv'
      BY <2>2 DEF TableInv, KernelTablesInv
    <2> QED
      BY <2>5, <2>6, <2>7, <2>8, <2>9, <2>10 DEF TableInv
  <1>7. CASE EndTable
    <2> DEFINE t == job.table
    <2>1. /\ job.op = "copy" /\ tables' = [tables EXCEPT ![dir][k] = t]
          /\ NextTable /\ UNCHANGED <<pages, allocated, live>>
      BY <1>7 DEF EndTable
    <2>2. t \in PageTable /\ t # NoTable
      BY <2>1, JobFacts, Layout
    <2>3. \A d \in PageDir, i \in TableIndex :
              tables'[d][i] = IF d = dir /\ i = k THEN t ELSE tables[d][i]
      BY <1>2, <2>1 DEF TypeOK
    <2>4. \A i \in TableIndex : tables'[kernelDir][i] = tables[kernelDir][i]
      BY <1>2, <2>1, <2>3, Layout
    <2>5. k \in TableIndex /\ tables[dir][k] = NoTable
      BY <1>2, <2>1 DEF TableIndex
    <2>6. /\ Holds(dir, k)' /\ ~Holds(dir, k)
          /\ \A d \in PageDir, i \in TableIndex : ~(d = dir /\ i = k) => (Holds(d, i)' <=> Holds(d, i))
      <3>1. /\ \A d \in PageDir, i \in TableIndex : Holds(d, i)' <=> d \in live /\ tables'[d][i] # NoTable
            /\ \A d \in PageDir, i \in TableIndex : Holds(d, i) <=> d \in live /\ tables[d][i] # NoTable
            /\ dir \in live /\ dir \in PageDir
        BY <1>2, <1>3, <2>1
      <3>2. tables'[dir][k] # NoTable
        BY <2>2, <2>3, <2>5, <3>1
      <3> QED
        BY <2>3, <2>5, <3>1, <3>2
    <2>7. \A d \in PageDir, i \in TableIndex : Holds(d, i) => tables[d][i] # t
      BY <2>1 DEF TableInv, CloneInv
    <2>8. TablesAllocated'
      <3> SUFFICES ASSUME NEW u \in PageTable
                   PROVE  u \in allocated <=>
                            \E d \in PageDir, i \in TableIndex : Holds(d, i)' /\ u = tables'[d][i]
        BY <1>3, <2>1 DEF TablesAllocated
      <3>1. u \in allocated <=> \/ u = t
                                \/ \E d \in PageDir, i \in TableIndex : Holds(d, i) /\ u = tables[d][i]
        BY <2>1 DEF TableInv, TablesAllocated
      <3>2. ASSUME NEW d \in PageDir, NEW i \in TableIndex, Holds(d, i), u = tables[d][i]
            PROVE  Holds(d, i)' /\ u = tables'[d][i]
        BY <2>3, <2>6, <3>2
      <3>3. ASSUME NEW d \in PageDir, NEW i \in TableIndex, Holds(d, i)', u = tables'[d][i]
            PROVE  u = t \/ \E e \in PageDir, j \in TableIndex : Holds(e, j) /\ u = tables[e][j]
        BY <2>3, <2>6, <3>3
      <3>4. u = t => Holds(dir, k)' /\ u = tables'[dir][k]
        BY <1>2, <2>1, <2>3, <2>6
      <3>5. dir \in PageDir /\ k \in TableIndex
        BY <1>2, <2>1
      <3>6. u = t => \E d \in PageDir, i \in TableIndex : Holds(d, i)' /\ u = tables'[d][i]
        BY <3>4, <3>5
      <3> QED
        BY <3>1, <3>2, <3>3, <3>6
    <2>9. TablesHaveOneOwner'
      <3> SUFFICES ASSUME NEW d \in PageDir, NEW e \in PageDir,
                          NEW i \in TableIndex, NEW j \in TableIndex,
                          Holds(d, i)', Holds(e, j)', tables'[d][i] = tables'[e][j]
                   PROVE  i = j /\ (d = e \/ tables'[d][i] = tables'[kernelDir][i])
        BY DEF TablesHaveOneOwner
      <3>1. d = dir /\ i = k <=> e = dir /\ j = k
        BY <2>3, <2>6, <2>7
      <3>2. CASE ~(d = dir /\ i = k) /\ ~(e = dir /\ j = k)
        <4>1. Holds(d, i) /\ Holds(e, j) /\ tables[d][i] = tables[e][j] /\ tables'[d][i] = tables[d][i]
          BY <2>3, <2>6, <3>2
        <4>2. i = j /\ (d = e \/ tables[d][i] = tables[kernelDir][i])
          BY <4>1 DEF TableInv, TablesHaveOneOwner
        <4> QED
          BY <2>4, <4>1, <4>2
      <3> QED
        BY <3>1, <3>2
    <2>10. CloneInv'
      BY <1>2, <1>3, <2>1, <2>3 DEF CloneInv
    <2>11. BootTablesInv'
      <3>1. k \notin BootIndex
        BY <1>2, <2>1 DEF TableInv, CloneInv
      <3> SUFFICES ASSUME NEW i \in BootIndex
                   PROVE  /\ tables'[kernelDir][i] # NoTable
                          /\ \A d \in live : (UnderConstruction(d)' => i < job'.index) =>
                                 tables'[d][i] = tables'[kernelDir][i]
        BY <2>1 DEF BootTablesInv
      <3>2. i \in TableIndex /\ tables[kernelDir][i] # NoTable /\ live \subseteq PageDir /\ i # k
        BY <3>1, Layout DEF TableInv, BootTablesInv, TypeOK
      <3>3. \A d \in live : (UnderConstruction(d) => i < job.index) => tables[d][i] = tables[kernelDir][i]
        BY DEF TableInv, BootTablesInv
      <3>4. \A d \in live : UnderConstruction(d)' <=> d = dir
        BY <1>3, <2>1 DEF UnderConstruction
      <3>5. \A d \in live : UnderConstruction(d) <=> d = dir
        BY <2>1 DEF UnderConstruction
      <3>6. job'.index = k + 1 /\ (i < k + 1 => i < k \/ i = k)
        BY <1>3, <2>1, <3>2
      <3> QED
        BY <2>3, <2>4, <3>2, <3>3, <3>4, <3>5, <3>6
    <2>12. FreeTablesAreEmpty' /\ KernelTablesInv'
      BY <2>1, <2>4 DEF TableInv, FreeTablesAreEmpty, KernelTablesInv
    <2> QED
      BY <2>8, <2>9, <2>10, <2>11, <2>12 DEF TableInv
  <1>8. kernelDir \in live /\ cr3 \in live
    BY DEF TypeOK
  <1> QED
    BY <1>1, <1>4, <1>5, <1>6, <1>7, <1>8 DEF MakeTask, Fork

\* The steps of freeDir.
LEMMA FreeKeepsTables ==
    ASSUME TypeOK, JobInv, TableInv, FreeTable \/ EndFree
    PROVE  TableInv'
  <1> PICK dir, k : dir = job.dir /\ k = job.index
    OBVIOUS
  <1>0. /\ job.op = "free" /\ dir \in PageDir /\ dir \in live \ {kernelDir} /\ kernelDir \in live
        /\ kernelDir \in PageDir
        /\ \A d \in PageDir, i \in TableIndex :
              Holds(d, i) <=> d \in live /\ tables[d][i] # NoTable /\ ~Freed(d, i)
        /\ \A i \in TableIndex : Holds(kernelDir, i) <=> tables[kernelDir][i] # NoTable
    <2>1. job.op = "free"
      BY DEF FreeTable, Freeing, EndFree
    <2> QED
      BY <2>1, JobFacts, Layout DEF TypeOK, JobInv, Holds, Freed
  <1>1. CASE FreeTable
    <2>1. /\ k < TABLES_IN_DIR /\ DyingTable \notin {NoTable, tables[kernelDir][k]}
          /\ pages' = [pages EXCEPT ![DyingTable] = EmptyTable]
          /\ allocated' = allocated \ {DyingTable}
          /\ job' = [job EXCEPT !.index = @ + 1]
          /\ UNCHANGED <<live, tables>>
      BY <1>1 DEF FreeTable, Freeing, OwnTable
    <2>2. job \in [op : {"free"}, dir : PageDir, index : 0 .. TABLES_IN_DIR]
      BY <1>0 DEF TypeOK, Job
    <2>3. job'.op = "free" /\ job'.dir = dir /\ job'.index = k + 1 /\ k \in TableIndex
      BY <1>0, <2>1, <2>2, JobFacts
    <2>4. /\ \A i \in TableIndex : i < k + 1 <=> i < k \/ i = k
          /\ ~(k < k)
      BY <2>3, Layout DEF TableIndex
    <2>5. /\ Holds(dir, k) /\ ~Holds(dir, k)'
          /\ \A d \in PageDir, i \in TableIndex : ~(d = dir /\ i = k) => (Holds(d, i)' <=> Holds(d, i))
      <3>1. \A d \in PageDir, i \in TableIndex :
                Freed(d, i)' <=> Freed(d, i) \/ (d = dir /\ i = k)
        BY <1>0, <2>1, <2>3, <2>4 DEF Freed, DyingTable
      <3>2. ~Freed(dir, k)
        BY <2>4 DEF Freed
      <3>3. \A d \in PageDir, i \in TableIndex :
                Holds(d, i)' <=> d \in live /\ tables[d][i] # NoTable /\ ~Freed(d, i)'
        BY <2>1 DEF Holds
      <3>4. dir \in PageDir /\ k \in TableIndex /\ dir \in live
        BY <1>0, <2>3
      <3>5. tables[dir][k] # NoTable
        BY <2>1 DEF DyingTable
      <3>6. Holds(dir, k)
        BY <3>2, <3>4, <3>5 DEF Holds
      <3>7. ~Holds(dir, k)'
        BY <3>1, <3>3, <3>4
      <3>8. \A d \in PageDir, i \in TableIndex : ~(d = dir /\ i = k) => (Freed(d, i)' <=> Freed(d, i))
        BY <3>1
      <3>9. \A d \in PageDir, i \in TableIndex : ~(d = dir /\ i = k) => (Holds(d, i)' <=> Holds(d, i))
        BY <3>3, <3>8 DEF Holds
      <3> QED
        BY <3>6, <3>7, <3>9
    <2>6. \A d \in PageDir, i \in TableIndex : Holds(d, i)' => tables[d][i] # DyingTable
      <3> SUFFICES ASSUME NEW d \in PageDir, NEW i \in TableIndex, Holds(d, i)',
                          tables[d][i] = DyingTable
                   PROVE  FALSE
        OBVIOUS
      <3>1. Holds(d, i) /\ ~(d = dir /\ i = k)
        BY <2>5
      <3>2. i = k /\ (d = dir \/ tables[dir][k] = tables[kernelDir][k])
        BY <1>0, <2>3, <2>5, <3>1 DEF DyingTable, TableInv, TablesHaveOneOwner
      <3> QED
        BY <2>1, <3>1, <3>2 DEF DyingTable
    <2>7. TablesAllocated'
      <3> SUFFICES ASSUME NEW u \in PageTable
                   PROVE  u \in allocated' <=>
                            \E d \in PageDir, i \in TableIndex : Holds(d, i)' /\ u = tables[d][i]
        BY <2>1, <2>3 DEF TablesAllocated
      <3>1. u \in allocated <=> \E d \in PageDir, i \in TableIndex : Holds(d, i) /\ u = tables[d][i]
        BY <1>0 DEF TableInv, TablesAllocated
      <3>2. u = DyingTable => u \notin allocated'
        BY <2>1
      <3>3. u # DyingTable => \A d \in PageDir, i \in TableIndex :
                                 Holds(d, i) /\ u = tables[d][i] => Holds(d, i)'
        BY <2>5 DEF DyingTable
      <3>4. \A d \in PageDir, i \in TableIndex : Holds(d, i)' => Holds(d, i)
        BY <2>5
      <3> QED
        BY <2>1, <2>6, <3>1, <3>2, <3>3, <3>4
    <2>8. TablesHaveOneOwner'
      BY <2>1, <2>5 DEF TableInv, TablesHaveOneOwner
    <2>9. FreeTablesAreEmpty'
      <3>1. \A u \in PageTable \ {DyingTable} : pages'[u] = pages[u]
        BY <2>1 DEF TypeOK
      <3>2. DyingTable \in PageTable => pages'[DyingTable] = EmptyTable
        BY <2>1 DEF TypeOK
      <3> QED
        BY <2>1, <3>1, <3>2 DEF TableInv, FreeTablesAreEmpty
    <2>10. CloneInv' /\ BootTablesInv' /\ KernelTablesInv'
      BY <1>0, <2>1, <2>3 DEF TableInv, CloneInv, BootTablesInv, KernelTablesInv, UnderConstruction
    <2> QED
      BY <2>7, <2>8, <2>9, <2>10 DEF TableInv
  <1>2. CASE EndFree
    <2>1. /\ k = TABLES_IN_DIR /\ live' = live \ {dir} /\ job'.op = "none"
          /\ UNCHANGED <<pages, allocated, tables>>
      BY <1>2 DEF EndFree, Idle
    <2>2. \A d \in PageDir, i \in TableIndex : Holds(d, i)' <=> Holds(d, i) /\ d # dir
      BY <1>0, <2>1 DEF Holds, Freed
    <2>3. \A i \in TableIndex : Holds(dir, i) => /\ tables[dir][i] = tables[kernelDir][i]
                                                 /\ Holds(kernelDir, i)'
      <3>1. \A i \in TableIndex : i < k
        BY <2>1, Layout DEF TableIndex
      <3> QED
        BY <1>0, <2>2, <3>1 DEF Freed
    <2>4. TablesAllocated'
      <3> SUFFICES ASSUME NEW u \in PageTable
                   PROVE  u \in allocated <=>
                            \E d \in PageDir, i \in TableIndex : Holds(d, i)' /\ u = tables[d][i]
        BY <2>1 DEF TablesAllocated
      <3>1. u \in allocated <=> \E d \in PageDir, i \in TableIndex : Holds(d, i) /\ u = tables[d][i]
        BY <1>0 DEF TableInv, TablesAllocated
      <3> QED
        BY <1>0, <2>2, <2>3, <3>1
    <2>5. TablesHaveOneOwner'
      BY <2>1, <2>2 DEF TableInv, TablesHaveOneOwner
    <2>6. FreeTablesAreEmpty' /\ CloneInv' /\ KernelTablesInv'
      BY <2>1 DEF TableInv, FreeTablesAreEmpty, CloneInv, KernelTablesInv
    <2>7. BootTablesInv'
      BY <1>0, <2>1 DEF TableInv, BootTablesInv, UnderConstruction
    <2> QED
      BY <2>4, <2>5, <2>6, <2>7 DEF TableInv
  <1> QED
    BY <1>1, <1>2

LEMMA MapKeepsTables ==
    ASSUME TypeOK, JobInv, TableInv, NEW dir \in live, NEW page \in Page,
           MapPage(dir, page) \/ MirrorPage(dir, page),
           dir = kernelDir => IndexOf(page) \in KernelIndex,
           job.op \notin {"free", "copy"}, ~UnderConstruction(dir),
           UNCHANGED live, job'.op = job.op, job.op = "clone" => UNCHANGED job
    PROVE  TableInv'
  <1>1. PICK t \in PageTable : \E entries \in {pages[t], EmptyTable} :
            /\ GetPage(dir, page, t, entries)
            /\ AllocFrame(t, entries, OffsetOf(page)) \/ LinkFrame(t, entries, page)
    BY DEF MapPage, MirrorPage
  <1>2. PICK entries \in {pages[t], EmptyTable} :
            /\ GetPage(dir, page, t, entries)
            /\ AllocFrame(t, entries, OffsetOf(page)) \/ LinkFrame(t, entries, page)
    BY <1>1
  <1>3. \A u \in PageTable \ {t} : pages'[u] = pages[u]
    BY <1>2 DEF AllocFrame, LinkFrame, TypeOK
  <1> QED
    BY <1>2, <1>3, GetPageKeepsTables

\* A page of a heap that is still to be mapped.
LEMMA HeapPage ==
    ASSUME TypeOK, JobInv, NEW dir \in PageDir, heapSize[dir] < MaxSize(dir)
    PROVE  LET page == HeapStart(dir) + heapSize[dir]
           IN  page \in Page /\ (dir = kernelDir => IndexOf(page) \in KernelIndex)
  <1>1. heapSize[dir] \in Nat /\ HeapStart(dir) + heapSize[dir] \in Page
    BY Layout DEF TypeOK
  <1>2. dir = kernelDir => HeapStart(dir) + heapSize[dir] \in KHEAP_START .. KHEAP_START + KHeapMax - 1
    <2>1. KHEAP_START \in Nat /\ KHeapMax \in Nat
      BY PagingConstants DEF PagingConstants
    <2>2. dir = kernelDir => HeapStart(dir) = KHEAP_START /\ MaxSize(dir) = KHeapMax
      BY DEF MaxSize, HeapStart
    <2> QED
      BY <1>1, <2>1, <2>2
  <1> QED
    BY <1>1, <1>2 DEF KernelIndex

LEMMA MapStepsKeepTables ==
    ASSUME TypeOK, JobInv, TableInv,
           (\E dir \in PageDir : Expand(dir)) \/ MapNext \/ MirrorNext
    PROVE  TableInv'
  <1>1. ASSUME NEW dir \in PageDir, Expand(dir)
        PROVE  TableInv'
    <2>1. /\ MapPage(dir, HeapStart(dir) + heapSize[dir]) /\ UNCHANGED <<live, job>>
          /\ heapSize[dir] < MaxSize(dir)
          /\ \/ job = Idle /\ dir \in {kernelDir, heap[cr3]}
             \/ dir = kernelDir /\ job.op \in {"clone", "map", "mirror"}
      BY <1>1 DEF Expand, UsesHeap, AsksForMemory, Cloning
    <2>2. dir \in live /\ job.op \notin {"free", "copy"} /\ ~UnderConstruction(dir)
      BY <2>1, Layout DEF TypeOK, JobInv, Idle, UnderConstruction
    <2> DEFINE page == HeapStart(dir) + heapSize[dir]
    <2>3. page \in Page /\ (dir = kernelDir => IndexOf(page) \in KernelIndex)
      BY <2>1, HeapPage
    <2>4. MapPage(dir, page)
      BY <2>1
    <2> HIDE DEF page
    <2> QED
      BY <2>1, <2>2, <2>3, <2>4, MapKeepsTables
  <1>2. CASE MapNext
    <2>1. /\ job.op = "map" /\ job.todo # <<>> /\ MapPage(currentDir, Head(job.todo))
          /\ job' = [job EXCEPT !.todo = Tail(@)] /\ UNCHANGED live
      BY <1>2 DEF MapNext
    <2>2. job.todo \in Seq(Page) /\ job = [op |-> "map", todo |-> job.todo]
      BY <2>1, JobFacts
    <2>3. Head(job.todo) \in Page /\ job'.op = "map"
      BY <2>1, <2>2
    <2>4. currentDir \in live /\ currentDir # kernelDir /\ ~UnderConstruction(currentDir)
      BY <2>1 DEF TypeOK, JobInv, UnderConstruction
    <2> QED
      BY <2>1, <2>3, <2>4, MapKeepsTables
  <1>3. CASE MirrorNext
    <2>1. /\ job.op = "mirror" /\ job.todo # <<>> /\ MirrorPage(currentDir, Head(job.todo))
          /\ job' = [job EXCEPT !.todo = Tail(@)] /\ UNCHANGED live
      BY <1>3 DEF MirrorNext
    <2>2. job.todo \in Seq(TouchedPages) /\ job = [op |-> "mirror", todo |-> job.todo]
      BY <2>1, JobFacts
    <2>3. Head(job.todo) \in TouchedPages /\ job'.op = "mirror"
      BY <2>1, <2>2
    <2>4. Head(job.todo) \in Page /\ IndexOf(Head(job.todo)) \in KernelIndex
      BY <2>3, Layout DEF KernelIndex
    <2>5. currentDir \in live /\ ~UnderConstruction(currentDir)
      BY <2>1 DEF TypeOK, JobInv, UnderConstruction
    <2> QED
      BY <2>1, <2>3, <2>4, <2>5, MapKeepsTables
  <1> QED
    BY <1>1, <1>2, <1>3

LEMMA InitTables == Init => TableInv
  <1> SUFFICES ASSUME Init PROVE TableInv
    OBVIOUS
  <1>1. PICK table \in [BootIndex -> PageTable] :
             /\ \A i, j \in BootIndex : table[i] = table[j] => i = j
             /\ allocated = {table[i] : i \in BootIndex}
             /\ tables = [d \in PageDir |-> [i \in TableIndex |->
                            IF d = kernelDir /\ i \in BootIndex THEN table[i] ELSE NoTable]]
             /\ pages = [t \in PageTable |-> [o \in PageOffset |->
                            IF \E i \in BootIndex : table[i] = t
                            THEN BootFrame((CHOOSE i \in BootIndex : table[i] = t) * PAGES_IN_TABLE + o)
                            ELSE 0]]
    BY DEF Init
  <1>2. live = {kernelDir} /\ job.op = "none" /\ kernelDir \in PageDir
    BY Layout DEF Init, Idle
  <1>3. \A i \in TableIndex : tables[kernelDir][i] = IF i \in BootIndex THEN table[i] ELSE NoTable
    BY <1>1, <1>2
  <1>4. \A d \in PageDir, i \in TableIndex : Holds(d, i) <=> d = kernelDir /\ i \in BootIndex
    BY <1>1, <1>2, <1>3, Layout DEF Holds, Freed
  <1>5. TablesAllocated
    <2> SUFFICES ASSUME NEW t \in PageTable
                 PROVE  t \in allocated <=> \E d \in PageDir, i \in TableIndex : Holds(d, i) /\ t = tables[d][i]
      BY <1>2 DEF TablesAllocated
    <2>1. t \in allocated <=> \E i \in BootIndex : t = tables[kernelDir][i]
      BY <1>1, <1>3, Layout
    <2> QED
      BY <1>2, <1>4, <2>1, Layout
  <1>6. TablesHaveOneOwner
    BY <1>1, <1>2, <1>3, <1>4 DEF TablesHaveOneOwner
  <1>7. FreeTablesAreEmpty
    <2> SUFFICES ASSUME NEW t \in PageTable, t \notin allocated
                 PROVE  pages[t] = EmptyTable
      BY DEF FreeTablesAreEmpty
    <2>1. ~\E i \in BootIndex : table[i] = t
      BY <1>1
    <2> QED
      BY <1>1, <2>1 DEF EmptyTable
  <1>8. CloneInv
    BY <1>2 DEF CloneInv
  <1>9. BootTablesInv
    BY <1>1, <1>2, <1>3, Layout DEF BootTablesInv
  <1>10. KernelTablesInv
    BY <1>3, Layout DEF KernelTablesInv
  <1> QED
    BY <1>5, <1>6, <1>7, <1>8, <1>9, <1>10 DEF TableInv

LEMMA NextKeepsTables == TypeOK /\ JobInv /\ TableInv /\ [Next]_vars => TableInv'
  <1>1. TypeOK /\ JobInv /\ TableInv /\ Next => TableInv'
    BY QuietStepsKeepTables, CloneKeepsTables, FreeKeepsTables, MapStepsKeepTables DEF Next
  <1>2. TypeOK /\ JobInv /\ TableInv /\ UNCHANGED vars => TableInv'
    <2> SUFFICES ASSUME TypeOK, JobInv, TableInv, UNCHANGED <<allocated, live, tables, pages, job>>
                 PROVE  TableInv'
      BY DEF vars
    <2>1. \A d \in PageDir, i \in TableIndex : Holds(d, i)' <=> Holds(d, i)
      BY DEF Holds, Freed
    <2>2. FreeTablesAreEmpty'
      BY DEF TableInv, FreeTablesAreEmpty
    <2> QED
      BY <2>1, <2>2, QuietStep
  <1> QED
    BY <1>1, <1>2

\* Between two calls the tables that are allocated are those of the live
\* directories: cloneDir, getPage and freeDir lose none and leave no directory
\* with a table that has been freed.
THEOREM TablesAreAccounted == Spec => []NoDanglingTables
  <1>1. TypeOK /\ JobInv /\ TableInv => NoDanglingTables
    <2> SUFFICES ASSUME TypeOK, TableInv, job = Idle
                 PROVE  Reachable = allocated
      BY DEF NoDanglingTables
    <2>1. \A d \in PageDir, i \in TableIndex : Holds(d, i) <=> d \in live /\ tables[d][i] # NoTable
      BY DEF Holds, Freed, Idle
    <2>2. \A t \in PageTable : t \in allocated <=>
             \E d \in PageDir, i \in TableIndex : d \in live /\ tables[d][i] # NoTable /\ t = tables[d][i]
      BY <2>1 DEF TableInv, TablesAllocated, Idle
    <2>3. Reachable \subseteq PageTable /\ allocated \subseteq PageTable /\ live \subseteq PageDir
      BY DEF Reachable, TablesOf, TypeOK
    <2>4. \A t \in PageTable : t \in Reachable <=>
             \E d \in live, i \in TableIndex : t = tables[d][i] /\ t # NoTable
      BY DEF Reachable, TablesOf
    <2> QED
      BY <2>2, <2>3, <2>4
  <1>2. TypeOK /\ JobInv /\ TableInv /\ [Next]_vars => TableInv'
    BY NextKeepsTables
  <1> QED
    BY <1>1, <1>2, InitTables, PagingTypeCorrect, PTL DEF Spec

-----------------------------------------------------------------------------
(* Frames. *)

\* The entry maps the page of the kernel that lies in the frame of its number.
MirroredAt(t, o) == \E page \in Page : /\ t = TableOf(kernelDir, page) /\ o = OffsetOf(page)
                                       /\ pages[t][o] = page

\* No frame backs two pages, mirrored ones excepted.
ExclusiveInv ==
    \A t, u \in PageTable, o, q \in PageOffset :
        pages[t][o] = pages[u][q] /\ pages[t][o] # 0 =>
            (t = u /\ o = q) \/ MirroredAt(t, o) \/ MirroredAt(u, q)

\* The bit of a frame that backs a page is set, mirrored ones excepted.
InUseInv ==
    \A t \in PageTable, o \in PageOffset :
        pages[t][o] # 0 /\ ~MirroredAt(t, o) => pages[t][o] \in used

NoneLostInv == \A f \in used \ {0} : \E t \in PageTable, o \in PageOffset : pages[t][o] = f

FrameInv == ~exhausted => ExclusiveInv /\ InUseInv /\ NoneLostInv

\* The kernel gets tables and keeps those it has.
KernelTablesGrow ==
    \A i \in TableIndex : tables[kernelDir][i] # NoTable => tables'[kernelDir][i] = tables[kernelDir][i]

\* An entry that stays what it was stays mirrored.
LEMMA MirroredStays ==
    ASSUME TypeOK, KernelTablesGrow, NEW t \in PageTable, NEW o \in PageOffset,
           pages'[t][o] = pages[t][o], MirroredAt(t, o)
    PROVE  MirroredAt(t, o)'
  <1>1. PICK page \in Page : t = TableOf(kernelDir, page) /\ o = OffsetOf(page) /\ pages[t][o] = page
    BY DEF MirroredAt
  <1>2. IndexOf(page) \in TableIndex /\ t # NoTable
    BY PageFacts, Layout
  <1>3. t = tables'[kernelDir][IndexOf(page)]
    BY <1>1, <1>2 DEF KernelTablesGrow, TableOf
  <1> QED
    BY <1>1, <1>3 DEF MirroredAt, TableOf

LEMMA FramesKept ==
    ASSUME TypeOK, FrameInv, KernelTablesGrow, UNCHANGED <<used, pages, exhausted>>
    PROVE  FrameInv'
  <1> SUFFICES ASSUME ~exhausted PROVE ExclusiveInv' /\ InUseInv' /\ NoneLostInv'
    BY DEF FrameInv
  <1>1. ExclusiveInv /\ InUseInv /\ NoneLostInv
    BY DEF FrameInv
  <1>2. \A t \in PageTable, o \in PageOffset : MirroredAt(t, o) => MirroredAt(t, o)'
    BY MirroredStays
  <1>3. ExclusiveInv'
    BY <1>1, <1>2 DEF ExclusiveInv
  <1>4. InUseInv'
    BY <1>1, <1>2 DEF InUseInv
  <1>5. NoneLostInv'
    BY <1>1 DEF NoneLostInv
  <1> QED
    BY <1>3, <1>4, <1>5

\* An entry without a frame gets one: a free one, or the one it mirrors.
LEMMA FrameTaken ==
    ASSUME TypeOK, FrameInv, KernelTablesGrow, exhausted => exhausted',
           NEW t \in PageTable, NEW o \in PageOffset, NEW frame \in Frame,
           pages[t][o] = 0,
           pages' = [pages EXCEPT ![t] = [pages[t] EXCEPT ![o] = frame]],
           used' = used \cup {frame},
           ~exhausted' => frame \notin used \/ MirroredAt(t, o)'
    PROVE  FrameInv'
  <1> SUFFICES ASSUME ~exhausted' PROVE ExclusiveInv' /\ InUseInv' /\ NoneLostInv'
    BY DEF FrameInv
  <1>1. ExclusiveInv /\ InUseInv /\ NoneLostInv
    BY DEF FrameInv
  <1>2. \A u \in PageTable, q \in PageOffset :
            pages'[u][q] = IF u = t /\ q = o THEN frame ELSE pages[u][q]
    BY DEF TypeOK
  <1>3. \A u \in PageTable, q \in PageOffset :
            ~(u = t /\ q = o) => (MirroredAt(u, q) => MirroredAt(u, q)')
    BY <1>2, MirroredStays
  <1>4. ASSUME NEW u \in PageTable, NEW q \in PageOffset, ~(u = t /\ q = o),
               pages[u][q] = frame, frame # 0
        PROVE  MirroredAt(t, o)' \/ MirroredAt(u, q)'
    BY <1>1, <1>3, <1>4 DEF InUseInv
  <1>5. ExclusiveInv'
    <2> SUFFICES ASSUME NEW u \in PageTable, NEW v \in PageTable,
                        NEW q \in PageOffset, NEW r \in PageOffset,
                        pages'[u][q] = pages'[v][r], pages'[u][q] # 0, ~(u = v /\ q = r)
                 PROVE  MirroredAt(u, q)' \/ MirroredAt(v, r)'
      BY DEF ExclusiveInv
    <2>1. CASE u = t /\ q = o
      BY <1>2, <1>4, <2>1
    <2>2. CASE v = t /\ r = o
      BY <1>2, <1>4, <2>2
    <2>3. CASE ~(u = t /\ q = o) /\ ~(v = t /\ r = o)
      <3>1. pages[u][q] = pages[v][r] /\ pages[u][q] # 0
        BY <1>2, <2>3
      <3>2. MirroredAt(u, q) \/ MirroredAt(v, r)
        BY <1>1, <3>1 DEF ExclusiveInv
      <3> QED
        BY <1>3, <2>3, <3>2
    <2> QED
      BY <2>1, <2>2, <2>3
  <1>6. InUseInv'
    BY <1>1, <1>2, <1>3 DEF InUseInv
  <1>7. NoneLostInv'
    <2> SUFFICES ASSUME NEW f \in used' \ {0}
                 PROVE  \E u \in PageTable, q \in PageOffset : pages'[u][q] = f
      BY DEF NoneLostInv
    <2>1. CASE f = frame
      BY <1>2, <2>1
    <2>2. CASE f # frame
      <3>1. PICK u \in PageTable, q \in PageOffset : pages[u][q] = f
        BY <1>1, <2>2 DEF NoneLostInv
      <3> QED
        BY <1>2, <3>1
    <2> QED
      BY <2>1, <2>2
  <1> QED
    BY <1>5, <1>6, <1>7

\* Entries of one table, none of them mirrored, give their frames back.
LEMMA FramesReturned ==
    ASSUME TypeOK, FrameInv, UNCHANGED <<tables, exhausted>>,
           NEW t \in PageTable, NEW offsets \in SUBSET PageOffset,
           \A o \in offsets : pages[t][o] # 0 => ~MirroredAt(t, o),
           \A u \in PageTable, o \in PageOffset :
               pages'[u][o] = IF u = t /\ o \in offsets THEN 0 ELSE pages[u][o],
           used' = used \ ({pages[t][o] : o \in offsets} \ {0})
    PROVE  FrameInv'
  <1> SUFFICES ASSUME ~exhausted PROVE ExclusiveInv' /\ InUseInv' /\ NoneLostInv'
    BY DEF FrameInv
  <1>1. ExclusiveInv /\ InUseInv /\ NoneLostInv
    BY DEF FrameInv
  <1>2. \A u \in PageTable, q \in PageOffset :
            pages'[u][q] # 0 => /\ ~(u = t /\ q \in offsets)
                                /\ pages'[u][q] = pages[u][q]
                                /\ MirroredAt(u, q) => MirroredAt(u, q)'
    BY MirroredStays DEF KernelTablesGrow
  <1>3. ExclusiveInv'
    BY <1>1, <1>2 DEF ExclusiveInv
  <1>4. InUseInv'
    <2> SUFFICES ASSUME NEW u \in PageTable, NEW q \in PageOffset,
                        pages'[u][q] # 0, ~MirroredAt(u, q)'
                 PROVE  pages'[u][q] \in used'
      BY DEF InUseInv
    <2>1. /\ ~(u = t /\ q \in offsets) /\ pages'[u][q] = pages[u][q] /\ ~MirroredAt(u, q)
      BY <1>2
    <2>2. pages[u][q] \in used
      BY <1>1, <2>1 DEF InUseInv
    <2>3. ASSUME NEW o \in offsets, pages[t][o] = pages[u][q]
          PROVE  FALSE
      <3>1. o \in PageOffset /\ pages[t][o] # 0 /\ ~MirroredAt(t, o) /\ ~(t = u /\ o = q)
        BY <2>1, <2>3
      <3> QED
        BY <1>1, <2>1, <2>3, <3>1 DEF ExclusiveInv
    <2> QED
      BY <2>1, <2>2, <2>3
  <1>5. NoneLostInv'
    <2> SUFFICES ASSUME NEW f \in used' \ {0}
                 PROVE  \E u \in PageTable, q \in PageOffset : pages'[u][q] = f
      BY DEF NoneLostInv
    <2>1. PICK u \in PageTable, q \in PageOffset : pages[u][q] = f
      BY <1>1 DEF NoneLostInv
    <2>2. ~(u = t /\ q \in offsets)
      BY <2>1
    <2> QED
      BY <2>1, <2>2
  <1> QED
    BY <1>3, <1>4, <1>5

\* getPage returns the entries that the table has, and gives the kernel a table
\* only where it had none.
LEMMA GetPageFinds ==
    ASSUME TypeOK, TableInv, NEW dir \in PageDir, NEW page \in Page,
           NEW t \in PageTable, NEW entries, GetPage(dir, page, t, entries)
    PROVE  /\ entries = pages[t] /\ KernelTablesGrow
           /\ tables'[dir][IndexOf(page)] = t
           /\ \A d \in PageDir, i \in TableIndex :
                 tables[d][i] # NoTable => tables'[d][i] = tables[d][i]
  <1>1. IndexOf(page) \in TableIndex /\ kernelDir \in PageDir
    BY PageFacts, Layout
  <1>2. CASE t = TableOf(dir, page) /\ entries = pages[t] /\ UNCHANGED <<allocated, tables>>
    BY <1>2 DEF TableOf, KernelTablesGrow
  <1>3. CASE /\ TableOf(dir, page) = NoTable /\ t \notin allocated /\ entries = EmptyTable
             /\ tables' = [tables EXCEPT ![dir][IndexOf(page)] = t]
    <2>1. \A d \in PageDir, i \in TableIndex :
              tables'[d][i] = IF d = dir /\ i = IndexOf(page) THEN t ELSE tables[d][i]
      BY <1>1, <1>3 DEF TypeOK
    <2>2. entries = pages[t]
      BY <1>3 DEF TableInv, FreeTablesAreEmpty
    <2> QED
      BY <1>1, <1>3, <2>1, <2>2 DEF TableOf, KernelTablesGrow
  <1> QED
    BY <1>2, <1>3 DEF GetPage

\* allocFrame takes a free frame, or finds that there is none.
LEMMA AllocFrameKeepsFrames ==
    ASSUME TypeOK, FrameInv, KernelTablesGrow, NEW t \in PageTable, NEW o \in PageOffset,
           AllocFrame(t, pages[t], o)
    PROVE  FrameInv'
  <1>1. CASE pages[t][o] # 0
    <2>1. UNCHANGED <<used, pages, exhausted>>
      BY <1>1 DEF AllocFrame, TypeOK
    <2> QED
      BY <2>1, FramesKept
  <1>2. CASE pages[t][o] = 0
    <2>1. PICK frame \in FirstFrame :
            /\ used' = used \cup {frame}
            /\ pages' = [pages EXCEPT ![t] = [pages[t] EXCEPT ![o] = frame]]
            /\ exhausted' = (exhausted \/ Free = {})
      BY <1>2 DEF AllocFrame
    <2>2. frame \in Frame /\ (Free # {} => frame \notin used)
      BY DEF FirstFrame, Free
    <2>3. exhausted => exhausted'
      BY <2>1
    <2>4. ~exhausted' => frame \notin used
      BY <2>1, <2>2
    <2> QED
      BY <1>2, <2>1, <2>2, <2>3, <2>4, FrameTaken
  <1> QED
    BY <1>1, <1>2

LEMMA MapPageKeepsFrames ==
    ASSUME TypeOK, TableInv, FrameInv, NEW dir \in PageDir, NEW page \in Page, MapPage(dir, page)
    PROVE  FrameInv'
  <1>1. PICK t \in PageTable : \E entries \in {pages[t], EmptyTable} :
            GetPage(dir, page, t, entries) /\ AllocFrame(t, entries, OffsetOf(page))
    BY DEF MapPage
  <1>2. PICK entries \in {pages[t], EmptyTable} :
            GetPage(dir, page, t, entries) /\ AllocFrame(t, entries, OffsetOf(page))
    BY <1>1
  <1>3. entries = pages[t] /\ KernelTablesGrow
    BY <1>2, GetPageFinds
  <1>4. OffsetOf(page) \in PageOffset
    BY PageFacts
  <1> QED
    BY <1>2, <1>3, <1>4, AllocFrameKeepsFrames

\* What linkFrame maps in the kernel's directory is mirrored.
LEMMA MirrorPageKeepsFrames ==
    ASSUME TypeOK, TableInv, FrameInv, NEW page \in Page, page \in Frame,
           MirrorPage(kernelDir, page)
    PROVE  FrameInv'
  <1> DEFINE o == OffsetOf(page)
  <1>1. PICK t \in PageTable : \E entries \in {pages[t], EmptyTable} :
            GetPage(kernelDir, page, t, entries) /\ LinkFrame(t, entries, page)
    BY DEF MirrorPage
  <1>2. PICK entries \in {pages[t], EmptyTable} :
            GetPage(kernelDir, page, t, entries) /\ LinkFrame(t, entries, page)
    BY <1>1
  <1>3. entries = pages[t] /\ KernelTablesGrow /\ tables'[kernelDir][IndexOf(page)] = t
    BY <1>2, Layout, GetPageFinds
  <1>4. o \in PageOffset
    BY PageFacts
  <1>5. UNCHANGED exhausted
    BY <1>2 DEF LinkFrame
  <1>6. CASE pages[t][o] # 0
    <2>1. UNCHANGED <<used, pages>>
      BY <1>2, <1>3, <1>6 DEF LinkFrame, TypeOK
    <2> QED
      BY <1>3, <1>5, <2>1, FramesKept
  <1>7. CASE pages[t][o] = 0
    <2>1. /\ used' = used \cup {page}
          /\ pages' = [pages EXCEPT ![t] = [pages[t] EXCEPT ![o] = page]]
      BY <1>2, <1>3, <1>7 DEF LinkFrame
    <2>2. pages'[t][o] = page
      BY <1>4, <2>1 DEF TypeOK
    <2>3. MirroredAt(t, o)'
      BY <1>3, <2>2 DEF MirroredAt, TableOf
    <2> HIDE DEF o
    <2> QED
      BY <1>3, <1>4, <1>5, <1>7, <2>1, <2>3, FrameTaken
  <1> QED
    BY <1>6, <1>7

\* The entry of a directory's own page is mirrored only by the kernel, and there
\* by the page itself.
LEMMA MirroredWhere ==
    ASSUME TypeOK, JobInv, TableInv, NEW dir \in PageDir, NEW page \in Page,
           Holds(dir, IndexOf(page)), MirroredAt(TableOf(dir, page), OffsetOf(page))
    PROVE  /\ TableOf(dir, page) = TableOf(kernelDir, page)
           /\ pages[TableOf(dir, page)][OffsetOf(page)] = page
  <1>1. PICK p \in Page : /\ TableOf(dir, page) = TableOf(kernelDir, p)
                          /\ OffsetOf(page) = OffsetOf(p)
                          /\ pages[TableOf(dir, page)][OffsetOf(page)] = p
    BY DEF MirroredAt
  <1>2. IndexOf(page) \in TableIndex /\ IndexOf(p) \in TableIndex /\ kernelDir \in PageDir
    BY PageFacts, Layout
  <1>3. tables[kernelDir][IndexOf(p)] # NoTable
    BY <1>1 DEF TableOf, Holds
  <1>4. Holds(kernelDir, IndexOf(p))
    BY <1>2, <1>3, KernelHolds
  <1>5. IndexOf(page) = IndexOf(p)
    BY <1>1, <1>2, <1>4 DEF TableInv, TablesHaveOneOwner, TableOf
  <1>6. page = p
    BY <1>1, <1>5, PageFacts
  <1> QED
    BY <1>1, <1>6

\* contract unmaps no mirrored page: the kernel's heap lies above the frames,
\* and a task's heap in tables that the kernel does not have.
LEMMA ContractKeepsFrames ==
    ASSUME TypeOK, JobInv, TableInv, FrameInv, NEW dir \in PageDir, Contract(dir)
    PROVE  FrameInv'
  <1> DEFINE page == HeapStart(dir) + heapSize[dir] - 1
             t == TableOf(dir, page)
             o == OffsetOf(page)
  <1>1. /\ UnmapPage(dir, page)
        /\ UNCHANGED <<tables, exhausted>>
        /\ heapSize[dir] > MinSize(dir)
        /\ \/ job = Idle /\ dir \in {kernelDir, heap[cr3]}
           \/ dir = kernelDir /\ job.op = "free"
    BY DEF Contract, UsesHeap
  <1>2. dir \in live /\ (job.op = "free" => dir # job.dir)
    BY <1>1, Layout DEF TypeOK, JobInv, Idle
  <1>3. /\ page \in Page
        /\ dir = kernelDir => page >= nframes
        /\ dir # kernelDir => page \in TaskHeap
    <2>1. heapSize[dir] \in Nat \ {0} /\ heapSize[dir] - 1 \in Nat
          /\ heapSize[dir] - 1 < MaxSize(dir)
      BY <1>1, Layout DEF JobInv
    <2>2. HeapStart(dir) + (heapSize[dir] - 1) \in Page
      BY <2>1, Layout
    <2>3. KHEAP_START \in Nat /\ HEAP_START \in Nat /\ nframes \in Nat /\ nframes <= KHEAP_START
          /\ HeapMax \in Nat
      BY PagingConstants DEF PagingConstants
    <2>4. page = HeapStart(dir) + (heapSize[dir] - 1)
      BY <2>1, <2>3 DEF HeapStart
    <2>5. dir = kernelDir => HeapStart(dir) = KHEAP_START
      BY DEF HeapStart
    <2>6. dir # kernelDir => HeapStart(dir) = HEAP_START /\ MaxSize(dir) = HeapMax
      BY DEF HeapStart, MaxSize
    <2>7. dir = kernelDir => page >= nframes
      BY <2>1, <2>3, <2>4, <2>5
    <2>8. dir # kernelDir => page \in TaskHeap
      BY <2>1, <2>3, <2>4, <2>6 DEF TaskHeap
    <2> QED
      BY <2>2, <2>4, <2>7, <2>8
  <1> HIDE DEF page
  <1>4. IndexOf(page) \in TableIndex /\ o \in PageOffset
    BY <1>3, PageFacts
  <1>5. CASE FrameAt(dir, page) = 0
    <2>1. UNCHANGED <<used, pages>>
      BY <1>1, <1>5 DEF UnmapPage
    <2>2. KernelTablesGrow
      BY <1>1 DEF KernelTablesGrow
    <2> QED
      BY <1>1, <2>1, <2>2, FramesKept
  <1>6. CASE FrameAt(dir, page) # 0
    <2>1. t # NoTable /\ FrameAt(dir, page) = pages[t][o] /\ t \in PageTable
      BY <1>4, <1>6 DEF FrameAt, TableOf, TypeOK
    <2>2. /\ used' = used \ {pages[t][o]}
          /\ pages' = [pages EXCEPT ![t][o] = 0]
      BY <1>1, <1>6, <2>1 DEF UnmapPage
    <2>3. Holds(dir, IndexOf(page))
      BY <1>2, <2>1 DEF Holds, Freed, TableOf
    <2>4. ~MirroredAt(t, o)
      <3> SUFFICES ASSUME MirroredAt(t, o) PROVE FALSE
        OBVIOUS
      <3>1. t = TableOf(kernelDir, page) /\ pages[t][o] = page
        BY <1>3, <2>3, MirroredWhere
      <3>2. page \in Frame
        BY <1>4, <2>1, <3>1 DEF TypeOK
      <3>3. dir # kernelDir
        BY <1>3, <3>2, Layout DEF Frame
      <3>4. IndexOf(page) \in KernelIndex
        BY <1>4, <2>1, <3>1 DEF TableInv, KernelTablesInv, TableOf
      <3> QED
        BY <1>3, <3>3, <3>4, AddressSpace
    <2>5. \A u \in PageTable, q \in PageOffset :
              pages'[u][q] = IF u = t /\ q \in {o} THEN 0 ELSE pages[u][q]
      BY <1>4, <2>1, <2>2 DEF TypeOK
    <2> HIDE DEF t, o
    <2>6. used' = used \ ({pages[t][q] : q \in {o}} \ {0})
      BY <1>6, <2>1, <2>2
    <2>7. {o} \in SUBSET PageOffset
      BY <1>4
    <2>8. \A q \in {o} : pages[t][q] # 0 => ~MirroredAt(t, q)
      BY <2>4
    <2> QED
      BY <1>1, <2>1, <2>5, <2>6, <2>7, <2>8, FramesReturned
  <1> QED
    BY <1>5, <1>6

\* freeTable gives back the frames of a table that is not the kernel's.
LEMMA FreeTableKeepsFrames ==
    ASSUME TypeOK, JobInv, TableInv, FrameInv, FreeTable
    PROVE  FrameInv'
  <1> DEFINE t == DyingTable
  <1>1. /\ job.op = "free" /\ job.index < TABLES_IN_DIR
        /\ t # NoTable /\ t # tables[kernelDir][job.index]
        /\ used' = used \ ({pages[t][o] : o \in PageOffset} \ {0})
        /\ pages' = [pages EXCEPT ![t] = EmptyTable]
        /\ UNCHANGED <<tables, exhausted>>
    BY DEF FreeTable, Freeing, OwnTable
  <1>2. /\ job.index \in TableIndex /\ job.dir \in PageDir /\ job.dir \in live /\ kernelDir \in PageDir
    BY <1>1, JobFacts, Layout DEF JobInv
  <1>3. ~(job.index < job.index)
    BY <1>2 DEF TableIndex
  <1>4. Holds(job.dir, job.index) /\ t = tables[job.dir][job.index] /\ t \in PageTable
    BY <1>1, <1>2, <1>3 DEF Holds, Freed, DyingTable, TypeOK
  <1>5. \A i \in TableIndex : tables[kernelDir][i] # t
    <2> SUFFICES ASSUME NEW i \in TableIndex, tables[kernelDir][i] = t PROVE FALSE
      OBVIOUS
    <2>1. Holds(kernelDir, i)
      BY <1>1, KernelHolds
    <2>2. i = job.index
      BY <1>2, <1>4, <2>1 DEF TableInv, TablesHaveOneOwner
    <2> QED
      BY <1>1, <2>2
  <1>6. \A o \in PageOffset : ~MirroredAt(t, o)
    BY <1>5, PageFacts DEF MirroredAt, TableOf
  <1>7. \A u \in PageTable, o \in PageOffset :
            pages'[u][o] = IF u = t /\ o \in PageOffset THEN 0 ELSE pages[u][o]
    BY <1>1, <1>4 DEF TypeOK, EmptyTable
  <1> HIDE DEF t
  <1> QED
    BY <1>1, <1>4, <1>6, <1>7, FramesReturned

\* The other steps leave the frames alone.
LEMMA FramesUntouched ==
    ASSUME TypeOK, JobInv, TableInv, FrameInv,
           \/ \E dir \in PageDir : MakeTask(dir) \/ Fork(dir) \/ Destroy(dir) \/ Switch(dir)
           \/ SkipTable \/ ShareTable \/ BeginTable \/ EndTable \/ EndClone \/ EndMap \/ EndMirror
           \/ KeepTable \/ EndFree \/ UNCHANGED vars
           \/ \E page \in Touched : PageFault(page)
    PROVE  FrameInv'
  <1>1. UNCHANGED <<used, exhausted>>
    BY DEF MakeTask, Fork, BeginClone, Destroy, Switch, SkipTable, ShareTable, BeginTable, EndTable,
           EndClone, EndMap, EndMirror, KeepTable, EndFree, PageFault, vars
  <1>2. UNCHANGED pages
    <2>1. CASE BeginTable
      <3>1. PICK t \in PageTable \ allocated : pages' = [pages EXCEPT ![t] = EmptyTable]
        BY <2>1 DEF BeginTable
      <3>2. pages[t] = EmptyTable
        BY DEF TableInv, FreeTablesAreEmpty
      <3> QED
        BY <3>1, <3>2 DEF TypeOK
    <2>2. CASE ~BeginTable
      BY <2>2 DEF MakeTask, Fork, BeginClone, Destroy, Switch, SkipTable, ShareTable, EndTable,
             EndClone, EndMap, EndMirror, KeepTable, EndFree, PageFault, vars
    <2> QED
      BY <2>1, <2>2
  <1>3. KernelTablesGrow
    <2>1. CASE \E dir \in PageDir : MakeTask(dir) \/ Fork(dir)
      <3>1. PICK dir \in PageDir :
              dir \notin live /\ tables' = [tables EXCEPT ![dir] = [i \in TableIndex |-> NoTable]]
        BY <2>1 DEF MakeTask, Fork, BeginClone
      <3>2. dir # kernelDir
        BY <3>1 DEF TypeOK
      <3> QED
        BY <3>1, <3>2, Layout DEF KernelTablesGrow, TypeOK
    <2>2. CASE ShareTable \/ EndTable
      <3>1. /\ job.op \in {"clone", "copy"}
            /\ \E t : tables' = [tables EXCEPT ![job.dir][job.index] = t]
        BY <2>2 DEF ShareTable, Cloning, EndTable
      <3>2. job.dir # kernelDir
        BY <3>1 DEF JobInv
      <3> QED
        BY <3>1, <3>2, Layout DEF KernelTablesGrow, TypeOK
    <2>3. CASE UNCHANGED tables
      BY <2>3 DEF KernelTablesGrow
    <2>4. ~(\E dir \in PageDir : MakeTask(dir) \/ Fork(dir)) /\ ~(ShareTable \/ EndTable)
             => UNCHANGED tables
      BY DEF Destroy, Switch, SkipTable, BeginTable, EndClone, EndMap, EndMirror, KeepTable,
             EndFree, PageFault, vars
    <2> QED
      BY <2>1, <2>2, <2>3, <2>4
  <1> QED
    BY <1>1, <1>2, <1>3, FramesKept

LEMMA NextKeepsFrames == TypeOK /\ JobInv /\ TableInv /\ FrameInv /\ [Next]_vars => FrameInv'
  <1> SUFFICES ASSUME TypeOK, JobInv, TableInv, FrameInv, [Next]_vars PROVE FrameInv'
    OBVIOUS
  <1>1. ASSUME NEW dir \in PageDir, Expand(dir)
        PROVE  FrameInv'
    <2> DEFINE page == HeapStart(dir) + heapSize[dir]
    <2>1. MapPage(dir, page) /\ heapSize[dir] < MaxSize(dir)
      BY <1>1 DEF Expand
    <2>2. page \in Page
      BY <2>1, HeapPage
    <2> HIDE DEF page
    <2> QED
      BY <2>1, <2>2, MapPageKeepsFrames
  <1>2. CASE MapNext
    <2>1. /\ job.op = "map" /\ job.todo # <<>> /\ MapPage(currentDir, Head(job.todo))
      BY <1>2 DEF MapNext
    <2>2. job.todo \in Seq(Page)
      BY <2>1, JobFacts
    <2>3. Head(job.todo) \in Page /\ currentDir \in PageDir
      BY <2>1, <2>2 DEF TypeOK
    <2> QED
      BY <2>1, <2>3, MapPageKeepsFrames
  <1>3. CASE MirrorNext
    <2>1. /\ job.op = "mirror" /\ job.todo # <<>> /\ MirrorPage(currentDir, Head(job.todo))
      BY <1>3 DEF MirrorNext
    <2>2. job.todo \in Seq(TouchedPages) /\ currentDir = kernelDir
      BY <2>1, JobFacts DEF JobInv
    <2>3. Head(job.todo) \in TouchedPages
      BY <2>1, <2>2
    <2>4. Head(job.todo) \in Page /\ Head(job.todo) \in Frame
      BY <2>3, Layout
    <2> QED
      BY <2>1, <2>2, <2>4, MirrorPageKeepsFrames
  <1>4. CASE CopyPage
    <2>1. /\ job.op = "copy" /\ job.offset < PAGES_IN_TABLE /\ UNCHANGED tables
          /\ \/ AllocFrame(job.table, pages[job.table], job.offset)
             \/ UNCHANGED <<used, pages, exhausted>>
      BY <1>4 DEF CopyPage, Copying
    <2>2. job.table \in PageTable /\ job.offset \in PageOffset
      BY <2>1, JobFacts
    <2>3. KernelTablesGrow
      BY <2>1 DEF KernelTablesGrow
    <2> QED
      BY <2>1, <2>2, <2>3, AllocFrameKeepsFrames, FramesKept
  <1> QED
    BY <1>1, <1>2, <1>3, <1>4, ContractKeepsFrames, FreeTableKeepsFrames, FramesUntouched DEF Next

LEMMA InitFrames == Init => FrameInv
  <1> SUFFICES ASSUME Init PROVE ExclusiveInv /\ InUseInv /\ NoneLostInv
    BY DEF FrameInv
  <1>0. /\ KernelPages \in Nat \ {0} /\ KHeapMin \in Nat /\ KHEAP_START \in Nat
        /\ KernelPages <= KHEAP_START
    BY PagingConstants DEF PagingConstants
  <1>1. PICK table \in [BootIndex -> PageTable] :
             /\ \A i, j \in BootIndex : table[i] = table[j] => i = j
             /\ tables = [d \in PageDir |-> [i \in TableIndex |->
                            IF d = kernelDir /\ i \in BootIndex THEN table[i] ELSE NoTable]]
             /\ pages = [t \in PageTable |-> [o \in PageOffset |->
                            IF \E i \in BootIndex : table[i] = t
                            THEN BootFrame((CHOOSE i \in BootIndex : table[i] = t) * PAGES_IN_TABLE + o)
                            ELSE 0]]
    BY DEF Init
  <1>2. used = 0 .. KernelPages + KHeapMin - 1
    BY DEF Init
  <1>3. \A p \in Page : IndexOf(p) * PAGES_IN_TABLE + OffsetOf(p) = p
    <2> TAKE p \in Page
    <2> DEFINE q == IndexOf(p) * PAGES_IN_TABLE + OffsetOf(p)
    <2>1. q \in Page /\ IndexOf(q) = IndexOf(p) /\ OffsetOf(q) = OffsetOf(p)
      BY PageFacts
    <2> HIDE DEF q
    <2>2. q = p
      BY <2>1, PageFacts
    <2> QED
      BY <2>2 DEF q
  <1>4. ASSUME NEW i \in BootIndex, NEW o \in PageOffset
        PROVE  pages[table[i]][o] = BootFrame(i * PAGES_IN_TABLE + o)
    <2>1. (CHOOSE j \in BootIndex : table[j] = table[i]) = i
      BY <1>1
    <2> QED
      BY <1>1, <2>1
  <1>5. ASSUME NEW p \in Page, IndexOf(p) \in BootIndex
        PROVE  /\ pages[table[IndexOf(p)]][OffsetOf(p)] = BootFrame(p)
               /\ TableOf(kernelDir, p) = table[IndexOf(p)]
    <2>1. OffsetOf(p) \in PageOffset /\ IndexOf(p) \in TableIndex
      BY PageFacts
    <2>2. pages[table[IndexOf(p)]][OffsetOf(p)] = BootFrame(IndexOf(p) * PAGES_IN_TABLE + OffsetOf(p))
      BY <1>4, <1>5, <2>1
    <2> QED
      BY <1>1, <1>3, <1>5, <2>1, <2>2, Layout DEF TableOf
  <1>6. ASSUME NEW t \in PageTable, NEW o \in PageOffset, pages[t][o] # 0, ~MirroredAt(t, o)
        PROVE  \E p \in KernelHeapPages : /\ IndexOf(p) \in BootIndex
                                          /\ t = table[IndexOf(p)] /\ o = OffsetOf(p)
                                          /\ pages[t][o] = KernelPages + (p - KHEAP_START)
    <2>1. PICK i \in BootIndex : table[i] = t
      BY <1>1, <1>6
    <2> DEFINE p == i * PAGES_IN_TABLE + o
    <2>2. p \in Page /\ IndexOf(p) = i /\ OffsetOf(p) = o
      BY Layout, PageFacts
    <2>3. pages[t][o] = BootFrame(p)
      BY <1>4, <2>1
    <2> HIDE DEF p
    <2>4. BootFrame(p) # p
      BY <1>5, <1>6, <2>1, <2>2, <2>3 DEF MirroredAt
    <2>5. p \in KernelHeapPages /\ BootFrame(p) = KernelPages + (p - KHEAP_START)
      BY <1>6, <2>3, <2>4 DEF BootFrame
    <2> QED
      BY <2>1, <2>2, <2>3, <2>5
  <1>7. ExclusiveInv
    <2> SUFFICES ASSUME NEW t \in PageTable, NEW u \in PageTable,
                        NEW o \in PageOffset, NEW q \in PageOffset,
                        pages[t][o] = pages[u][q], pages[t][o] # 0,
                        ~MirroredAt(t, o), ~MirroredAt(u, q)
                 PROVE  t = u /\ o = q
      BY DEF ExclusiveInv
    <2>1. PICK p \in KernelHeapPages : /\ t = table[IndexOf(p)] /\ o = OffsetOf(p)
                                       /\ pages[t][o] = KernelPages + (p - KHEAP_START)
      BY <1>6
    <2>2. PICK r \in KernelHeapPages : /\ u = table[IndexOf(r)] /\ q = OffsetOf(r)
                                       /\ pages[u][q] = KernelPages + (r - KHEAP_START)
      BY <1>6
    <2>3. p = r
      BY <1>0, <2>1, <2>2 DEF KernelHeapPages
    <2> QED
      BY <2>1, <2>2, <2>3
  <1>8. InUseInv
    <2> SUFFICES ASSUME NEW t \in PageTable, NEW o \in PageOffset, pages[t][o] # 0, ~MirroredAt(t, o)
                 PROVE  pages[t][o] \in used
      BY DEF InUseInv
    <2>1. PICK p \in KernelHeapPages : pages[t][o] = KernelPages + (p - KHEAP_START)
      BY <1>6
    <2> QED
      BY <1>0, <1>2, <2>1 DEF KernelHeapPages
  <1>9. NoneLostInv
    <2> SUFFICES ASSUME NEW f \in used \ {0}
                 PROVE  \E t \in PageTable, o \in PageOffset : pages[t][o] = f
      BY DEF NoneLostInv
    <2>1. \E p \in Page : IndexOf(p) \in BootIndex /\ BootFrame(p) = f
      <3>1. CASE f < KernelPages
        <4>1. f \in 0 .. KernelPages - 1 /\ f \notin KernelHeapPages
          BY <1>0, <1>2, <3>1 DEF KernelHeapPages
        <4>2. f \in Page /\ IndexOf(f) \in BootIndex /\ BootFrame(f) = f
          BY <3>1, <4>1, Layout DEF BootIndex, BootFrame
        <4> QED
          BY <4>2
      <3>2. CASE ~(f < KernelPages)
        <4> DEFINE p == KHEAP_START + (f - KernelPages)
        <4>1. p \in KernelHeapPages /\ KernelPages + (p - KHEAP_START) = f
          BY <1>0, <1>2, <3>2 DEF KernelHeapPages
        <4>2. p \in Page /\ IndexOf(p) \in BootIndex /\ BootFrame(p) = f
          BY <4>1, Layout DEF BootIndex, BootFrame
        <4> QED
          BY <4>2
      <3> QED
        BY <3>1, <3>2
    <2>2. PICK p \in Page : IndexOf(p) \in BootIndex /\ BootFrame(p) = f
      BY <2>1
    <2> QED
      BY <1>1, <1>5, <2>2, PageFacts
  <1> QED
    BY <1>7, <1>8, <1>9

LEMMA PagingInductive == Spec => [](TypeOK /\ JobInv /\ TableInv /\ FrameInv)
  BY InitTables, InitFrames, NextKeepsTables, NextKeepsFrames, PagingTypeCorrect, PTL DEF Spec

\* Between two calls no frame backs two pages, however the heaps grow and shrink
\* and whatever tasks are made, forked and destroyed.
THEOREM FramesBackOnePage == Spec => []FramesExclusive
  <1>1. TypeOK /\ FrameInv => FramesExclusive
    <2> SUFFICES ASSUME TypeOK, ExclusiveInv, NEW e \in Entry, NEW f \in Entry,
                        e # f, FrameOf(e) = FrameOf(f), FrameOf(e) # 0
                 PROVE  Mirrored(e) \/ Mirrored(f)
      BY DEF FrameInv, FramesExclusive, SharedFrame
    <2>1. Reachable \subseteq PageTable
      BY DEF Reachable, TablesOf, TypeOK
    <2>2. /\ e = <<e[1], e[2]>> /\ e[1] \in PageTable /\ e[2] \in PageOffset
          /\ f = <<f[1], f[2]>> /\ f[1] \in PageTable /\ f[2] \in PageOffset
      BY <2>1 DEF Entry
    <2>3. ~(e[1] = f[1] /\ e[2] = f[2])
      BY <2>2
    <2>4. pages[e[1]][e[2]] = pages[f[1]][f[2]] /\ pages[e[1]][e[2]] # 0
      BY DEF FrameOf
    <2>5. MirroredAt(e[1], e[2]) \/ MirroredAt(f[1], f[2])
      BY <2>2, <2>3, <2>4 DEF ExclusiveInv
    <2>6. (MirroredAt(e[1], e[2]) => Mirrored(e)) /\ (MirroredAt(f[1], f[2]) => Mirrored(f))
      BY <2>2 DEF MirroredAt, Mirrored, FrameOf
    <2> QED
      BY <2>5, <2>6
  <1> QED
    BY <1>1, PagingInductive, PTL

\* Between two calls the bitmap and the page tables agree: no frame of a page
\* is free, and none stays taken that no directory maps.
THEOREM BitmapMatchesTables == Spec => []FramesAccounted
  <1>1. TypeOK /\ TableInv /\ FrameInv /\ NoDanglingTables => FramesAccounted
    <2> SUFFICES ASSUME TypeOK, FreeTablesAreEmpty, InUseInv, NoneLostInv, Reachable = allocated
                 PROVE  /\ \A e \in Entry : FrameOf(e) # 0 /\ ~Mirrored(e) => FrameOf(e) \in used
                        /\ \A f \in used \ {0} : \E e \in Entry : FrameOf(e) = f
      BY DEF FrameInv, TableInv, FramesAccounted, NoDanglingTables
    <2>1. ASSUME NEW e \in Entry, FrameOf(e) # 0, ~Mirrored(e)
          PROVE  FrameOf(e) \in used
      <3>1. e = <<e[1], e[2]>> /\ e[1] \in PageTable /\ e[2] \in PageOffset
        BY DEF Entry, TypeOK
      <3>2. MirroredAt(e[1], e[2]) => Mirrored(e)
        BY <3>1 DEF MirroredAt, Mirrored, FrameOf
      <3> QED
        BY <2>1, <3>1, <3>2 DEF InUseInv, FrameOf
    <2>2. ASSUME NEW f \in used \ {0}
          PROVE  \E e \in Entry : FrameOf(e) = f
      <3>1. PICK t \in PageTable, o \in PageOffset : pages[t][o] = f
        BY DEF NoneLostInv
      <3>2. t \in allocated
        BY <3>1 DEF FreeTablesAreEmpty, EmptyTable
      <3>3. <<t, o>> \in Entry /\ FrameOf(<<t, o>>) = f
        BY <3>1, <3>2 DEF Entry, FrameOf
      <3> QED
        BY <3>3
    <2> QED
      BY <2>1, <2>2
  <1> QED
    BY <1>1, PagingInductive, TablesAreAccounted, PTL

-----------------------------------------------------------------------------
(* The memory of a task. *)

OwnPages == {TaskPages[k] : k \in 1 .. Len(TaskPages)}

\* The pages of a task that lie in tables of its own.
PrivatePages == {page \in OwnPages : IndexOf(page) \notin BootIndex}

\* No call under way is still to map or already unmaps the directory.
Complete(d) == ~(\/ job.op \in {"clone", "copy", "free"} /\ d = job.dir
                 \/ job.op = "map" /\ d = currentDir)

\* A complete directory maps the page; an incomplete one maps it if the call has
\* come so far.
PageInv(page) ==
    /\ \A d \in live \ {kernelDir} : Complete(d) => FrameAt(d, page) # 0
    /\ job.op = "map" => \/ FrameAt(currentDir, page) # 0
                         \/ \E k \in 1 .. Len(job.todo) : job.todo[k] = page
    /\ job.op \in {"clone", "copy"} /\ job.source # kernelDir /\ IndexOf(page) < job.index =>
          FrameAt(job.dir, page) # 0
    /\ job.op = "copy" /\ IndexOf(page) = job.index /\ OffsetOf(page) < job.offset =>
          pages[job.table][OffsetOf(page)] # 0

MapInv == ~exhausted => \A page \in PrivatePages : PageInv(page)

\* The pages that makeTaskFromELF maps: those of the heap are the first of it,
\* the others are apart from it.
LEMMA PrivatePagesApart ==
    ASSUME NEW page \in PrivatePages
    PROVE  /\ page \in Page /\ IndexOf(page) \in TableIndex /\ OffsetOf(page) \in PageOffset
           /\ IndexOf(page) \notin KernelIndex
           /\ page \in TaskHeap => page < HEAP_START + HeapMin
           /\ \E k \in 1 .. Len(TaskPages) : TaskPages[k] = page
  <1> DEFINE h == [i \in 1 .. HeapMin |-> HEAP_START + i - 1]
  <1>1. /\ HeapMin \in Nat /\ HEAP_START \in Nat /\ HeapMax \in Nat /\ HeapMin <= HeapMax
        /\ Stack \in Seq(Page) /\ Sections \in Seq(Page)
    BY PagingConstants DEF PagingConstants
  <1>2. PICK k \in 1 .. Len(TaskPages) : TaskPages[k] = page
    BY DEF PrivatePages, OwnPages
  <1>3. page \in Page
    BY <1>2, Layout
  <1>4. \/ \E j \in DOMAIN Stack : page = Stack[j]
        \/ \E j \in 1 .. HeapMin : page = HEAP_START + j - 1
        \/ \E j \in DOMAIN Sections : page = Sections[j]
    <2>1. Len(Stack) \in Nat /\ Len(Sections) \in Nat /\ Len(h) = HeapMin
          /\ DOMAIN Stack = 1 .. Len(Stack) /\ DOMAIN Sections = 1 .. Len(Sections)
      BY <1>1
    <2>2. h \in Seq(Page)
      <3>1. HEAP_START + HeapMax - 1 \in Page
        BY PagingConstants DEF PagingConstants
      <3> DEFINE top == TABLES_IN_DIR * PAGES_IN_TABLE
      <3>2. top \in Nat /\ Page = 0 .. top - 1
        BY Layout DEF Page
      <3> HIDE DEF top
      <3>3. \A i \in 1 .. HeapMin : HEAP_START + i - 1 \in Page
        BY <1>1, <3>1, <3>2
      <3> QED
        BY <1>1, <3>3
    <2>3. \A i \in 1 .. HeapMin : h[i] = HEAP_START + i - 1
      OBVIOUS
    <2> HIDE DEF h
    <2> DEFINE front == Stack \o h
    <2>4. /\ Len(front) = Len(Stack) + HeapMin
          /\ \A i \in 1 .. Len(front) : front[i] = IF i <= Len(Stack) THEN Stack[i] ELSE h[i - Len(Stack)]
      BY <1>1, <2>1, <2>2
    <2>5. front \in Seq(Page)
      BY <1>1, <2>2
    <2> HIDE DEF front
    <2>6. TaskPages = front \o Sections
      BY DEF TaskPages, front, h
    <2>7. /\ Len(TaskPages) = Len(front) + Len(Sections)
          /\ TaskPages[k] = IF k <= Len(front) THEN front[k] ELSE Sections[k - Len(front)]
      BY <1>1, <1>2, <2>5, <2>6
    <2>8. CASE k <= Len(front)
      <3>1. page = front[k] /\ k \in 1 .. Len(front)
        BY <1>2, <2>7, <2>8
      <3>2. CASE k <= Len(Stack)
        BY <2>1, <2>4, <3>1, <3>2
      <3>3. CASE ~(k <= Len(Stack))
        <4>1. k - Len(Stack) \in 1 .. HeapMin /\ page = h[k - Len(Stack)]
          BY <1>1, <2>1, <2>4, <3>1, <3>3
        <4> QED
          BY <2>3, <4>1
      <3> QED
        BY <3>2, <3>3
    <2>9. CASE ~(k <= Len(front))
      <3>1. k - Len(front) \in 1 .. Len(Sections) /\ page = Sections[k - Len(front)]
        BY <1>1, <1>2, <2>1, <2>4, <2>7, <2>9
      <3> QED
        BY <2>1, <3>1
    <2> QED
      BY <2>8, <2>9
  <1>5. CASE \E j \in 1 .. HeapMin : page = HEAP_START + j - 1
    <2>1. page \in TaskHeap /\ page < HEAP_START + HeapMin
      BY <1>1, <1>5 DEF TaskHeap
    <2> QED
      BY <1>2, <1>3, <2>1, AddressSpace, PageFacts
  <1>6. CASE page \in {Stack[j] : j \in DOMAIN Stack} \cup {Sections[j] : j \in DOMAIN Sections}
    <2>1. page \notin TaskHeap /\ (IndexOf(page) \in KernelIndex => IndexOf(page) \in BootIndex)
      BY <1>6, AddressSpace
    <2> QED
      BY <1>2, <1>3, <2>1, PageFacts DEF PrivatePages
  <1> QED
    BY <1>4, <1>5, <1>6

\* No table and no entry that was in use is taken away.
PagesGrow ==
    /\ \A d \in PageDir, i \in TableIndex : tables[d][i] # NoTable => tables'[d][i] = tables[d][i]
    /\ \A t \in PageTable, o \in PageOffset : pages[t][o] # 0 => pages'[t][o] # 0

LEMMA GrownStaysMapped ==
    ASSUME TypeOK, PagesGrow, NEW d \in PageDir, NEW page \in Page, FrameAt(d, page) # 0
    PROVE  FrameAt(d, page)' # 0
  <1>1. IndexOf(page) \in TableIndex /\ OffsetOf(page) \in PageOffset
    BY PageFacts
  <1>2. tables[d][IndexOf(page)] # NoTable /\ tables[d][IndexOf(page)] \in PageTable
    BY <1>1 DEF FrameAt, TableOf, TypeOK
  <1> QED
    BY <1>1, <1>2 DEF FrameAt, TableOf, PagesGrow

LEMMA AllocFrameGrows ==
    ASSUME TypeOK, JobInv, NEW t \in PageTable, NEW o \in PageOffset, AllocFrame(t, pages[t], o)
    PROVE  /\ \A u \in PageTable, q \in PageOffset : pages[u][q] # 0 => pages'[u][q] # 0
           /\ ~exhausted' => ~exhausted /\ pages'[t][o] # 0
  <1>1. CASE pages[t][o] # 0
    BY <1>1 DEF AllocFrame, TypeOK
  <1>2. CASE pages[t][o] = 0
    <2>1. PICK frame \in FirstFrame :
            /\ pages' = [pages EXCEPT ![t] = [pages[t] EXCEPT ![o] = frame]]
            /\ exhausted' = (exhausted \/ Free = {})
      BY <1>2 DEF AllocFrame
    <2>2. \A u \in PageTable, q \in PageOffset :
              pages'[u][q] = IF u = t /\ q = o THEN frame ELSE pages[u][q]
      BY <2>1 DEF TypeOK
    <2>3. Free # {} => frame # 0
      BY DEF FirstFrame, Free, JobInv
    <2> QED
      BY <1>2, <2>1, <2>2, <2>3
  <1> QED
    BY <1>1, <1>2

LEMMA MapPageMaps ==
    ASSUME TypeOK, JobInv, TableInv, NEW dir \in PageDir, NEW page \in Page, MapPage(dir, page)
    PROVE  /\ PagesGrow
           /\ ~exhausted' => ~exhausted /\ FrameAt(dir, page)' # 0
  <1>1. PICK t \in PageTable : \E entries \in {pages[t], EmptyTable} :
            GetPage(dir, page, t, entries) /\ AllocFrame(t, entries, OffsetOf(page))
    BY DEF MapPage
  <1>2. PICK entries \in {pages[t], EmptyTable} :
            GetPage(dir, page, t, entries) /\ AllocFrame(t, entries, OffsetOf(page))
    BY <1>1
  <1>3. /\ entries = pages[t] /\ tables'[dir][IndexOf(page)] = t
        /\ \A d \in PageDir, i \in TableIndex : tables[d][i] # NoTable => tables'[d][i] = tables[d][i]
    BY <1>2, GetPageFinds
  <1>4. OffsetOf(page) \in PageOffset /\ t # NoTable
    BY PageFacts, Layout
  <1>5. /\ \A u \in PageTable, q \in PageOffset : pages[u][q] # 0 => pages'[u][q] # 0
        /\ ~exhausted' => ~exhausted /\ pages'[t][OffsetOf(page)] # 0
    BY <1>2, <1>3, <1>4, AllocFrameGrows
  <1> QED
    BY <1>3, <1>4, <1>5 DEF PagesGrow, FrameAt, TableOf

LEMMA MirrorPageGrows ==
    ASSUME TypeOK, JobInv, TableInv, NEW dir \in PageDir, NEW page \in Page, MirrorPage(dir, page)
    PROVE  PagesGrow /\ UNCHANGED exhausted
  <1>1. PICK t \in PageTable : \E entries \in {pages[t], EmptyTable} :
            GetPage(dir, page, t, entries) /\ LinkFrame(t, entries, page)
    BY DEF MirrorPage
  <1>2. PICK entries \in {pages[t], EmptyTable} :
            GetPage(dir, page, t, entries) /\ LinkFrame(t, entries, page)
    BY <1>1
  <1>3. /\ entries = pages[t]
        /\ \A d \in PageDir, i \in TableIndex : tables[d][i] # NoTable => tables'[d][i] = tables[d][i]
    BY <1>2, GetPageFinds
  <1>4. OffsetOf(page) \in PageOffset
    BY PageFacts
  <1>5. \A u \in PageTable, q \in PageOffset : pages[u][q] # 0 => pages'[u][q] # 0
    <2> DEFINE o == OffsetOf(page)
    <2>1. CASE pages[t][o] # 0
      <3>1. pages' = pages
        BY <1>2, <1>3, <2>1 DEF LinkFrame, TypeOK
      <3> QED
        BY <3>1
    <2>2. CASE pages[t][o] = 0
      <3>1. pages' = [pages EXCEPT ![t] = [pages[t] EXCEPT ![o] = page]]
        BY <1>2, <1>3, <2>2 DEF LinkFrame
      <3> HIDE DEF o
      <3>2. \A u \in PageTable, q \in PageOffset :
                pages'[u][q] = IF u = t /\ q = o THEN page ELSE pages[u][q]
        BY <1>4, <3>1 DEF TypeOK, o
      <3> QED
        BY <2>2, <3>2
    <2> QED
      BY <2>1, <2>2
  <1> QED
    BY <1>2, <1>3, <1>5 DEF PagesGrow, LinkFrame

\* A step that maps pages and takes none away.
LEMMA GrowthKeepsMapped ==
    ASSUME TypeOK, MapInv, PagesGrow, exhausted => exhausted',
           UNCHANGED <<live, currentDir>>, job.op \notin {"clone", "copy"} \/ UNCHANGED job,
           job'.op = job.op, job.op = "free" => UNCHANGED job,
           \A page \in PrivatePages :
               ~exhausted' /\ job.op = "map" => \/ FrameAt(currentDir, page)' # 0
                                                \/ \E k \in 1 .. Len(job'.todo) : job'.todo[k] = page
    PROVE  MapInv'
  <1> SUFFICES ASSUME ~exhausted', NEW page \in PrivatePages PROVE PageInv(page)'
    BY DEF MapInv
  <1>1. PageInv(page) /\ page \in Page /\ OffsetOf(page) \in PageOffset
    BY PrivatePagesApart DEF MapInv
  <1>2. \A d \in PageDir : FrameAt(d, page) # 0 => FrameAt(d, page)' # 0
    BY <1>1, GrownStaysMapped
  <1>3. live \subseteq PageDir /\ \A d \in PageDir : Complete(d)' => Complete(d)
    BY DEF Complete, TypeOK
  <1>4. \A d \in live \ {kernelDir} : Complete(d)' => FrameAt(d, page)' # 0
    BY <1>1, <1>2, <1>3 DEF PageInv
  <1>5. job'.op = "map" => \/ FrameAt(currentDir, page)' # 0
                           \/ \E k \in 1 .. Len(job'.todo) : job'.todo[k] = page
    OBVIOUS
  <1>6. job'.op \in {"clone", "copy"} =>
            /\ UNCHANGED job /\ job.dir \in PageDir
            /\ job.op = "copy" => job.table \in PageTable
    BY JobFacts
  <1>7. ASSUME job'.op \in {"clone", "copy"}, job'.source # kernelDir, IndexOf(page) < job'.index
        PROVE  FrameAt(job.dir, page)' # 0
    <2> PICK d : d = job.dir
      OBVIOUS
    <2>1. FrameAt(d, page) # 0 /\ d \in PageDir /\ d = job'.dir
      BY <1>1, <1>6, <1>7 DEF PageInv
    <2>2. FrameAt(d, page)' # 0
      BY <1>2, <2>1
    <2> QED
      BY <2>1, <2>2 DEF FrameAt, TableOf
  <1>8. ASSUME job'.op = "copy", IndexOf(page) = job'.index, OffsetOf(page) < job'.offset
        PROVE  pages'[job'.table][OffsetOf(page)] # 0
    BY <1>1, <1>6, <1>8 DEF PageInv, PagesGrow
  <1> QED
    BY <1>4, <1>5, <1>7, <1>8 DEF PageInv

LEMMA GrowthStepsKeepMapped ==
    ASSUME TypeOK, JobInv, TableInv, MapInv,
           (\E dir \in PageDir : Expand(dir)) \/ MapNext \/ MirrorNext
    PROVE  MapInv'
  <1>1. ASSUME NEW dir \in PageDir, Expand(dir)
        PROVE  MapInv'
    <2> DEFINE heapPage == HeapStart(dir) + heapSize[dir]
    <2>1. /\ MapPage(dir, heapPage) /\ UNCHANGED <<live, job, currentDir>>
          /\ heapSize[dir] < MaxSize(dir)
      BY <1>1 DEF Expand
    <2>2. heapPage \in Page
      BY <2>1, HeapPage
    <2> HIDE DEF heapPage
    <2>3. PagesGrow /\ (exhausted => exhausted')
      BY <2>1, <2>2, MapPageMaps
    <2>4. ASSUME NEW page \in PrivatePages, ~exhausted', job.op = "map"
          PROVE  \/ FrameAt(currentDir, page)' # 0
                 \/ \E k \in 1 .. Len(job'.todo) : job'.todo[k] = page
      <3> PICK d : d = currentDir
        OBVIOUS
      <3>1. PageInv(page) /\ page \in Page /\ d \in PageDir /\ d = currentDir'
        BY <2>1, <2>3, <2>4, PrivatePagesApart DEF MapInv, TypeOK
      <3>2. FrameAt(d, page) # 0 => FrameAt(d, page)' # 0
        BY <2>3, <3>1, GrownStaysMapped
      <3> QED
        BY <2>1, <2>4, <3>1, <3>2 DEF PageInv, FrameAt, TableOf
    <2> QED
      BY <2>1, <2>3, <2>4, GrowthKeepsMapped
  <1>2. CASE MapNext
    <2> PICK dir, first : dir = currentDir /\ first = Head(job.todo)
      OBVIOUS
    <2>1. /\ job.op = "map" /\ job.todo # <<>> /\ MapPage(dir, first)
          /\ job' = [job EXCEPT !.todo = Tail(@)] /\ UNCHANGED <<live, currentDir>>
      BY <1>2 DEF MapNext, taskVars
    <2>2. job.todo \in Seq(Page) /\ job = [op |-> "map", todo |-> job.todo]
      BY <2>1, JobFacts
    <2>3. /\ first \in Page /\ first = job.todo[1] /\ job'.op = "map" /\ dir \in PageDir
          /\ job'.todo = Tail(job.todo)
      BY <2>1, <2>2 DEF TypeOK
    <2>4. PagesGrow /\ (~exhausted' => ~exhausted /\ FrameAt(dir, first)' # 0)
      BY <2>1, <2>3, MapPageMaps
    <2>5. ASSUME NEW page \in PrivatePages, ~exhausted'
          PROVE  \/ FrameAt(currentDir, page)' # 0
                 \/ \E k \in 1 .. Len(job'.todo) : job'.todo[k] = page
      <3>1. PageInv(page) /\ page \in Page
        BY <2>4, <2>5, PrivatePagesApart DEF MapInv
      <3>2. FrameAt(dir, page)' = FrameAt(currentDir, page)'
        BY <2>1 DEF FrameAt, TableOf
      <3>3. CASE FrameAt(dir, page) # 0
        BY <2>3, <2>4, <3>1, <3>2, <3>3, GrownStaysMapped
      <3>4. CASE \E k \in 1 .. Len(job.todo) : job.todo[k] = page
        <4>1. PICK k \in 1 .. Len(job.todo) : job.todo[k] = page
          BY <3>4
        <4>2. CASE k = 1
          BY <2>3, <2>4, <2>5, <3>2, <4>1, <4>2
        <4>3. CASE k # 1
          <5>1. k - 1 \in 1 .. Len(Tail(job.todo)) /\ Tail(job.todo)[k - 1] = page
            BY <2>1, <2>2, <4>1, <4>3
          <5> QED
            BY <2>3, <5>1
        <4> QED
          BY <4>2, <4>3
      <3> QED
        BY <2>1, <3>1, <3>3, <3>4 DEF PageInv
    <2> QED
      BY <2>1, <2>3, <2>4, <2>5, GrowthKeepsMapped
  <1>3. CASE MirrorNext
    <2> PICK dir, first : dir = currentDir /\ first = Head(job.todo)
      OBVIOUS
    <2>1. /\ job.op = "mirror" /\ job.todo # <<>> /\ MirrorPage(dir, first)
          /\ job' = [job EXCEPT !.todo = Tail(@)] /\ UNCHANGED <<live, currentDir>>
      BY <1>3 DEF MirrorNext, taskVars
    <2>2. job.todo \in Seq(TouchedPages) /\ job = [op |-> "mirror", todo |-> job.todo]
      BY <2>1, JobFacts
    <2>3. first \in TouchedPages /\ job'.op = "mirror" /\ dir \in PageDir
      BY <2>1, <2>2 DEF TypeOK
    <2>4. PagesGrow /\ UNCHANGED exhausted
      BY <2>1, <2>3, Layout, MirrorPageGrows
    <2> QED
      BY <2>1, <2>3, <2>4, GrowthKeepsMapped
  <1> QED
    BY <1>1, <1>2, <1>3

\* A directory whose tables stay the same maps what it did, if the entries do.
LEMMA SameStaysMapped ==
    ASSUME NEW d \in PageDir, NEW page \in Page, tables'[d][IndexOf(page)] = tables[d][IndexOf(page)],
           tables[d][IndexOf(page)] # NoTable =>
               pages'[tables[d][IndexOf(page)]][OffsetOf(page)] = pages[tables[d][IndexOf(page)]][OffsetOf(page)]
    PROVE  FrameAt(d, page)' = FrameAt(d, page)
  BY DEF FrameAt, TableOf

\* The directory that is copied is complete.
LEMMA SourceIsComplete ==
    ASSUME TypeOK, JobInv, MapInv, ~exhausted, NEW page \in PrivatePages,
           job.op \in {"clone", "copy"}, job.source # kernelDir
    PROVE  FrameAt(job.source, page) # 0
  BY DEF MapInv, PageInv, Complete, JobInv

LEMMA CloneKeepsMapped ==
    ASSUME TypeOK, JobInv, TableInv, MapInv,
           \/ \E dir \in PageDir : MakeTask(dir) \/ Fork(dir)
           \/ SkipTable \/ ShareTable \/ BeginTable \/ EndTable \/ EndClone
    PROVE  MapInv'
  <1> SUFFICES ASSUME ~exhausted', NEW page \in PrivatePages PROVE PageInv(page)'
    BY DEF MapInv
  <1> PICK dir, k, source, o : /\ dir = job.dir /\ k = job.index /\ source = job.source
                               /\ o = OffsetOf(page)
    OBVIOUS
  <1>1. ~exhausted
    BY DEF MakeTask, Fork, BeginClone, SkipTable, ShareTable, BeginTable, EndTable, EndClone
  <1>2. /\ PageInv(page) /\ page \in Page /\ IndexOf(page) \in TableIndex /\ o \in PageOffset
        /\ IndexOf(page) \notin KernelIndex /\ live \subseteq PageDir
    BY <1>1, PrivatePagesApart DEF MapInv, TypeOK
  <1>3. job.op \in {"clone", "copy"} /\ source # kernelDir => FrameAt(source, page) # 0
    BY <1>1, SourceIsComplete
  <1>4. ASSUME NEW new \in PageDir, MakeTask(new) \/ Fork(new)
        PROVE  PageInv(page)'
    <2>1. /\ job.op = "none" /\ new \notin live /\ live' = live \cup {new}
          /\ tables' = [tables EXCEPT ![new] = [i \in TableIndex |-> NoTable]]
          /\ job'.op = "clone" /\ job'.dir = new /\ job'.index = 0
          /\ UNCHANGED pages
      BY <1>4 DEF MakeTask, Fork, BeginClone, CloneJob, Idle
    <2>2. \A d \in live : FrameAt(d, page)' = FrameAt(d, page)
      BY <1>2, <2>1, SameStaysMapped DEF TypeOK
    <2>3. \A d \in live : FrameAt(d, page) # 0 \/ d = kernelDir
      BY <1>2, <2>1 DEF PageInv, Complete
    <2>4. ~(IndexOf(page) < 0)
      BY <1>2 DEF TableIndex
    <2> QED
      BY <2>1, <2>2, <2>3, <2>4 DEF PageInv, Complete
  <1>5. ASSUME job.op \in {"clone", "copy"}, NextTable, UNCHANGED <<live, pages>>, k \in TableIndex,
               \A d \in PageDir, i \in TableIndex : ~(d = dir /\ i = k) => tables'[d][i] = tables[d][i],
               source # kernelDir /\ IndexOf(page) = k => FrameAt(dir, page)' # 0
        PROVE  PageInv(page)'
    <2>1. /\ job'.op = "clone" /\ job'.dir = dir /\ job'.source = source /\ job'.index = k + 1
      BY <1>5 DEF NextTable, CloneJob
    <2>2. dir \in PageDir
      BY <1>5, JobFacts
    <2>3. \A d \in live \ {kernelDir} : Complete(d)' => FrameAt(d, page)' # 0
      <3> SUFFICES ASSUME NEW d \in live \ {kernelDir}, d # dir
                   PROVE  FrameAt(d, page)' # 0
        BY <2>1 DEF Complete
      <3>1. FrameAt(d, page)' = FrameAt(d, page)
        BY <1>2, <1>5, SameStaysMapped
      <3> QED
        BY <1>2, <1>5, <3>1 DEF PageInv, Complete
    <2>4. ASSUME source # kernelDir, IndexOf(page) < k + 1
          PROVE  FrameAt(dir, page)' # 0
      <3>1. CASE IndexOf(page) = k
        BY <1>5, <2>4, <3>1
      <3>2. CASE IndexOf(page) # k
        <4>1. IndexOf(page) < k
          BY <1>2, <1>5, <2>4, <3>2 DEF TableIndex
        <4>2. FrameAt(dir, page) # 0
          BY <1>2, <1>5, <2>4, <4>1 DEF PageInv
        <4>3. FrameAt(dir, page)' = FrameAt(dir, page)
          BY <1>2, <1>5, <2>2, <3>2, SameStaysMapped
        <4> QED
          BY <4>2, <4>3
      <3> QED
        BY <3>1, <3>2
    <2>5. FrameAt(job.dir, page)' = FrameAt(dir, page)'
      BY <2>1 DEF FrameAt, TableOf
    <2> QED
      BY <1>5, <2>1, <2>3, <2>4, <2>5 DEF PageInv
  <1>6. SkipTable \/ ShareTable \/ BeginTable =>
            job.op = "clone" /\ k \in TableIndex /\ dir \in PageDir /\ SourceTable = tables[source][k]
    BY JobFacts DEF SkipTable, ShareTable, BeginTable, Cloning, SourceTable
  <1>7. CASE SkipTable
    <2>1. NextTable /\ UNCHANGED <<live, pages, tables>> /\ SourceTable = NoTable
      BY <1>7 DEF SkipTable
    <2>2. ~(source # kernelDir /\ IndexOf(page) = k)
      BY <1>3, <1>6, <1>7, <2>1 DEF FrameAt, TableOf
    <2> QED
      BY <1>5, <1>6, <1>7, <2>1, <2>2
  <1>8. CASE ShareTable
    <2>1. /\ NextTable /\ UNCHANGED <<live, pages>> /\ SourceTable # NoTable
          /\ SourceTable = tables[kernelDir][k]
          /\ tables' = [tables EXCEPT ![dir][k] = SourceTable]
      BY <1>8 DEF ShareTable
    <2>2. k \in KernelIndex
      BY <1>6, <1>8, <2>1 DEF TableInv, KernelTablesInv
    <2>3. \A d \in PageDir, i \in TableIndex : ~(d = dir /\ i = k) => tables'[d][i] = tables[d][i]
      BY <1>6, <1>8, <2>1 DEF TypeOK
    <2> QED
      BY <1>2, <1>5, <1>6, <1>8, <2>1, <2>2, <2>3
  <1>9. CASE BeginTable
    <2>1. PICK t \in PageTable \ allocated :
            /\ pages' = [pages EXCEPT ![t] = EmptyTable]
            /\ job' = [op |-> "copy", source |-> source, dir |-> dir,
                       index |-> k, table |-> t, offset |-> 0]
      BY <1>9 DEF BeginTable
    <2>2. UNCHANGED <<live, tables>> /\ pages' = pages
      <3>1. pages[t] = EmptyTable
        BY DEF TableInv, FreeTablesAreEmpty
      <3> QED
        BY <1>9, <2>1, <3>1 DEF BeginTable, TypeOK
    <2>3. /\ job'.op = "copy" /\ job'.source = source /\ job'.dir = dir
          /\ job'.index = k /\ job'.offset = 0
      BY <2>1
    <2>4. ~(o < 0)
      BY <1>2 DEF PageOffset
    <2>5. \A d \in PageDir : FrameAt(d, page)' = FrameAt(d, page)
      BY <2>2 DEF FrameAt, TableOf
    <2>6. FrameAt(job.dir, page)' = FrameAt(dir, page)'
      BY <2>3 DEF FrameAt, TableOf
    <2>7. \A d \in live \ {kernelDir} : Complete(d)' => Complete(d)
      BY <1>6, <1>9, <2>3 DEF Complete
    <2> QED
      BY <1>2, <1>6, <1>9, <2>2, <2>3, <2>4, <2>5, <2>6, <2>7 DEF PageInv
  <1>10. CASE EndTable
    <2> PICK t : t = job.table
      OBVIOUS
    <2>1. /\ NextTable /\ UNCHANGED <<live, pages>> /\ job.op = "copy"
          /\ job.offset = PAGES_IN_TABLE
          /\ tables' = [tables EXCEPT ![dir][k] = t]
      BY <1>10 DEF EndTable
    <2>2. k \in TableIndex /\ dir \in PageDir /\ t \in PageTable /\ t # NoTable
      BY <2>1, JobFacts, Layout
    <2>3. \A d \in PageDir, i \in TableIndex :
              tables'[d][i] = IF d = dir /\ i = k THEN t ELSE tables[d][i]
      BY <2>1, <2>2 DEF TypeOK
    <2>4. ASSUME IndexOf(page) = k
          PROVE  FrameAt(dir, page)' # 0
      <3>1. o < PAGES_IN_TABLE
        BY <1>2, Layout DEF PageOffset
      <3>2. pages[t][o] # 0
        BY <1>2, <2>1, <2>4, <3>1 DEF PageInv
      <3> QED
        BY <2>1, <2>2, <2>3, <2>4, <3>2 DEF FrameAt, TableOf
    <2> QED
      BY <1>5, <2>1, <2>2, <2>3, <2>4
  <1>11. CASE EndClone
    <2>1. /\ job.op = "clone" /\ k = TABLES_IN_DIR /\ UNCHANGED <<live, pages, tables>>
          /\ IF source = kernelDir
             THEN currentDir' = dir /\ job' = [op |-> "map", todo |-> TaskPages]
             ELSE job' = Idle /\ UNCHANGED currentDir
      BY <1>11 DEF EndClone
    <2>2. \A d \in PageDir : FrameAt(d, page)' = FrameAt(d, page)
      BY <2>1 DEF FrameAt, TableOf
    <2>3. \A d \in live \ {kernelDir} : d # dir => FrameAt(d, page) # 0
      BY <1>2, <2>1 DEF PageInv, Complete
    <2>4. CASE source = kernelDir
      <3>1. currentDir' = dir /\ job'.op = "map" /\ job'.todo = TaskPages
        BY <2>1, <2>4
      <3>2. \E j \in 1 .. Len(job'.todo) : job'.todo[j] = page
        BY <3>1, PrivatePagesApart
      <3>3. \A d \in live \ {kernelDir} : Complete(d)' => d # dir
        BY <3>1 DEF Complete
      <3> QED
        BY <1>2, <2>1, <2>2, <2>3, <3>1, <3>2, <3>3 DEF PageInv
    <2>5. CASE source # kernelDir
      <3>1. job'.op = "none"
        BY <2>1, <2>5 DEF Idle
      <3>2. IndexOf(page) < k
        BY <1>2, <2>1, Layout DEF TableIndex
      <3>3. FrameAt(dir, page) # 0
        BY <1>2, <2>1, <2>5, <3>2 DEF PageInv
      <3> QED
        BY <1>2, <2>1, <2>2, <2>3, <3>1, <3>3 DEF PageInv
    <2> QED
      BY <2>4, <2>5
  <1> QED
    BY <1>4, <1>7, <1>8, <1>9, <1>10, <1>11

LEMMA CopyKeepsMapped ==
    ASSUME TypeOK, JobInv, TableInv, MapInv, CopyPage
    PROVE  MapInv'
  <1> SUFFICES ASSUME ~exhausted', NEW page \in PrivatePages PROVE PageInv(page)'
    BY DEF MapInv
  <1> PICK dir, k, source, t, o, q : /\ dir = job.dir /\ k = job.index /\ source = job.source
                                     /\ t = job.table /\ o = job.offset /\ q = OffsetOf(page)
    OBVIOUS
  <1>1. /\ job.op = "copy" /\ o < PAGES_IN_TABLE
        /\ IF pages[SourceTable][o] # 0
           THEN AllocFrame(t, pages[t], o)
           ELSE UNCHANGED <<used, pages, exhausted>>
        /\ job' = [job EXCEPT !.offset = @ + 1]
        /\ UNCHANGED <<live, tables, currentDir>>
    BY DEF CopyPage, Copying, taskVars
  <1>2. /\ t \in PageTable /\ o \in PageOffset /\ k \in TableIndex
        /\ dir \in PageDir /\ source \in PageDir /\ o \in Int
    BY <1>1, JobFacts
  <1>3. job \in [op : {"copy"}, source : PageDir, dir : PageDir, index : TableIndex,
                 table : PageTable, offset : 0 .. PAGES_IN_TABLE]
    BY <1>1 DEF TypeOK, Job
  <1>4. /\ job'.op = "copy" /\ job'.source = source /\ job'.dir = dir
        /\ job'.index = k /\ job'.table = t /\ job'.offset = o + 1
    BY <1>1, <1>3
  <1>5. /\ \A u \in PageTable, r \in PageOffset : pages[u][r] # 0 => pages'[u][r] # 0
        /\ ~exhausted
        /\ pages[SourceTable][o] # 0 => pages'[t][o] # 0
    BY <1>1, <1>2, AllocFrameGrows
  <1>6. PagesGrow
    BY <1>1, <1>5 DEF PagesGrow
  <1>7. /\ PageInv(page) /\ page \in Page /\ IndexOf(page) \in TableIndex /\ q \in PageOffset
        /\ IndexOf(page) \notin KernelIndex /\ live \subseteq PageDir
    BY <1>5, PrivatePagesApart DEF MapInv, TypeOK
  <1>8. \A d \in PageDir : FrameAt(d, page) # 0 => FrameAt(d, page)' # 0
    BY <1>6, <1>7, GrownStaysMapped
  <1>9. \A d \in live \ {kernelDir} : Complete(d)' => FrameAt(d, page)' # 0
    BY <1>1, <1>4, <1>7, <1>8 DEF PageInv, Complete
  <1>10. source # kernelDir /\ IndexOf(page) < k => FrameAt(dir, page)' # 0
    BY <1>1, <1>2, <1>7, <1>8 DEF PageInv
  <1>11. FrameAt(job.dir, page)' = FrameAt(dir, page)'
    BY <1>4 DEF FrameAt, TableOf
  <1>12. ASSUME IndexOf(page) = k, q < o + 1
         PROVE  pages'[t][q] # 0
    <2>1. CASE q < o
      BY <1>1, <1>2, <1>5, <1>7, <1>12, <2>1 DEF PageInv
    <2>2. CASE q = o
      <3>1. SourceTable = tables[source][k] /\ SourceTable # NoTable
            /\ SourceTable # tables[kernelDir][k]
        BY <1>1 DEF TableInv, CloneInv, SourceTable
      <3>2. source # kernelDir
        BY <3>1
      <3>3. FrameAt(source, page) # 0
        BY <1>1, <1>5, <3>2, SourceIsComplete
      <3>4. pages[SourceTable][o] # 0
        BY <1>12, <2>2, <3>1, <3>3 DEF FrameAt, TableOf
      <3> QED
        BY <1>5, <2>2, <3>4
    <2>3. q \in Int
      BY <1>7 DEF PageOffset
    <2> QED
      BY <1>2, <1>12, <2>1, <2>2, <2>3
  <1>13. job'.op = "copy" /\ IndexOf(page) = job'.index /\ OffsetOf(page) < job'.offset =>
             pages'[job'.table][OffsetOf(page)] # 0
    BY <1>4, <1>12
  <1>14. job'.source # kernelDir /\ IndexOf(page) < job'.index => FrameAt(job.dir, page)' # 0
    BY <1>4, <1>10, <1>11
  <1>15. job'.op # "map"
    BY <1>4
  <1> QED
    BY <1>1, <1>9, <1>13, <1>14, <1>15 DEF PageInv

\* What a step must leave alone when no directory is made or filled.
LEMMA CompleteStayMapped ==
    ASSUME TypeOK, MapInv, exhausted => exhausted', live' \subseteq live,
           job'.op \notin {"clone", "copy", "map"},
           \A d \in live' \ {kernelDir} : Complete(d)' => Complete(d),
           \A d \in live \ {kernelDir}, page \in PrivatePages :
              Complete(d) /\ FrameAt(d, page) # 0 => FrameAt(d, page)' # 0
    PROVE  MapInv'
  <1> SUFFICES ASSUME ~exhausted', NEW page \in PrivatePages PROVE PageInv(page)'
    BY DEF MapInv
  <1>1. PageInv(page)
    BY DEF MapInv
  <1> QED
    BY <1>1 DEF PageInv

\* contract unmaps no page that makeTaskFromELF maps: it lies above the first
\* pages of a task's heap, or in tables of the kernel.
LEMMA ContractKeepsMapped ==
    ASSUME TypeOK, JobInv, TableInv, MapInv, NEW dir \in PageDir, Contract(dir)
    PROVE  MapInv'
  <1> DEFINE last == HeapStart(dir) + heapSize[dir] - 1
  <1>1. /\ UnmapPage(dir, last)
        /\ UNCHANGED <<live, tables, currentDir, job, exhausted>>
        /\ heapSize[dir] > MinSize(dir)
        /\ \/ job = Idle /\ dir \in {kernelDir, heap[cr3]}
           \/ dir = kernelDir /\ job.op = "free"
    BY DEF Contract, UsesHeap
  <1>2. dir \in live /\ (job.op = "free" => dir # job.dir) /\ job.op \in {"none", "free"}
    BY <1>1, Layout DEF TypeOK, JobInv, Idle
  <1>3. last \in Page /\ (dir # kernelDir => last \in TaskHeap /\ last >= HEAP_START + HeapMin)
    <2>1. heapSize[dir] \in Nat \ {0} /\ heapSize[dir] - 1 \in Nat
          /\ heapSize[dir] - 1 < MaxSize(dir)
      BY <1>1, Layout DEF JobInv
    <2>2. HeapStart(dir) + (heapSize[dir] - 1) \in Page
      BY <2>1, Layout
    <2>3. KHEAP_START \in Nat /\ HEAP_START \in Nat /\ HeapMax \in Nat /\ HeapMin \in Nat
      BY PagingConstants DEF PagingConstants
    <2>4. last = HeapStart(dir) + (heapSize[dir] - 1)
      BY <2>1, <2>3 DEF HeapStart
    <2>5. dir # kernelDir => HeapStart(dir) = HEAP_START /\ MaxSize(dir) = HeapMax /\ MinSize(dir) = HeapMin
      BY DEF HeapStart, MaxSize, MinSize
    <2>6. dir # kernelDir => last \in TaskHeap /\ last >= HEAP_START + HeapMin
      BY <1>1, <2>1, <2>3, <2>4, <2>5 DEF TaskHeap
    <2> QED
      BY <2>2, <2>4, <2>6
  <1> HIDE DEF last
  <1>4. ASSUME NEW d \in live \ {kernelDir}, NEW page \in PrivatePages,
               Complete(d), FrameAt(d, page) # 0
        PROVE  FrameAt(d, page)' # 0
    <2> DEFINE t == TableOf(d, page)
               u == TableOf(dir, last)
    <2>1. /\ page \in Page /\ IndexOf(page) \in TableIndex /\ OffsetOf(page) \in PageOffset
          /\ IndexOf(page) \notin KernelIndex
          /\ page \in TaskHeap => page < HEAP_START + HeapMin
      BY PrivatePagesApart
    <2>2. IndexOf(last) \in TableIndex /\ OffsetOf(last) \in PageOffset /\ d \in PageDir
      BY <1>3, PageFacts DEF TypeOK
    <2>3. t # NoTable /\ t \in PageTable /\ Holds(d, IndexOf(page))
      BY <1>4, <2>1, <2>2 DEF FrameAt, TableOf, TypeOK, Holds, Freed, Complete
    <2>4. ASSUME u = t, OffsetOf(last) = OffsetOf(page)
          PROVE  FALSE
      <3>1. Holds(dir, IndexOf(last))
        BY <1>2, <2>3, <2>4 DEF Holds, Freed, TableOf
      <3>2. /\ IndexOf(last) = IndexOf(page)
            /\ d = dir \/ tables[d][IndexOf(page)] = tables[kernelDir][IndexOf(page)]
        BY <2>1, <2>2, <2>3, <2>4, <3>1 DEF TableInv, TablesHaveOneOwner, TableOf
      <3>3. last = page
        BY <1>3, <2>1, <2>4, <3>2, PageFacts
      <3>4. tables[kernelDir][IndexOf(page)] = NoTable
        BY <2>1 DEF TableInv, KernelTablesInv
      <3>5. dir # kernelDir
        BY <2>3, <3>2, <3>4 DEF TableOf
      <3>6. page \in TaskHeap /\ page >= HEAP_START + HeapMin /\ page < HEAP_START + HeapMin
        BY <1>3, <2>1, <3>3, <3>5
      <3>7. HEAP_START + HeapMin \in Int /\ page \in Int
        BY <2>1, Layout, PagingConstants DEF PagingConstants
      <3> QED
        BY <3>6, <3>7
    <2>5. pages'[t][OffsetOf(page)] = pages[t][OffsetOf(page)]
      <3>1. CASE FrameAt(dir, last) = 0
        BY <1>1, <3>1 DEF UnmapPage
      <3>2. CASE FrameAt(dir, last) # 0
        <4>1. u \in PageTable
          BY <2>2, <3>2 DEF FrameAt, TableOf, TypeOK
        <4>2. pages' = [pages EXCEPT ![u][OffsetOf(last)] = 0]
          BY <1>1, <3>2 DEF UnmapPage
        <4> HIDE DEF t, u
        <4> QED
          BY <2>1, <2>2, <2>3, <2>4, <4>1, <4>2 DEF TypeOK
      <3> QED
        BY <3>1, <3>2
    <2>6. tables'[d][IndexOf(page)] = tables[d][IndexOf(page)]
      BY <1>1
    <2>7. FrameAt(d, page)' = FrameAt(d, page)
      BY <2>1, <2>2, <2>5, <2>6, SameStaysMapped DEF TableOf
    <2> QED
      BY <1>4, <2>7
  <1>5. \A d \in live' \ {kernelDir} : Complete(d)' => Complete(d)
    BY <1>1 DEF Complete
  <1> QED
    BY <1>1, <1>2, <1>4, <1>5, CompleteStayMapped

LEMMA FreeTableKeepsMapped ==
    ASSUME TypeOK, JobInv, TableInv, MapInv, FreeTable
    PROVE  MapInv'
  <1> PICK dir, k, t : dir = job.dir /\ k = job.index /\ t = DyingTable
    OBVIOUS
  <1>1. /\ job.op = "free" /\ k < TABLES_IN_DIR
        /\ t # NoTable /\ t # tables[kernelDir][k] /\ t = tables[dir][k]
        /\ pages' = [pages EXCEPT ![t] = EmptyTable]
        /\ job' = [job EXCEPT !.index = @ + 1]
        /\ UNCHANGED <<live, tables, currentDir, exhausted>>
    BY DEF FreeTable, Freeing, OwnTable, DyingTable, taskVars
  <1>2. k \in TableIndex /\ dir \in PageDir /\ dir \in live
    BY <1>1, JobFacts DEF JobInv
  <1>3. job \in [op : {"free"}, dir : PageDir, index : 0 .. TABLES_IN_DIR]
    BY <1>1 DEF TypeOK, Job
  <1>4. job'.op = "free" /\ job'.dir = dir
    BY <1>1, <1>3
  <1>5. Holds(dir, k)
    <2>1. ~(k < k)
      BY <1>2 DEF TableIndex
    <2> QED
      BY <1>1, <1>2, <2>1 DEF Holds, Freed
  <1>6. ASSUME NEW d \in live \ {kernelDir}, NEW page \in PrivatePages,
               Complete(d), FrameAt(d, page) # 0
        PROVE  FrameAt(d, page)' # 0
    <2> DEFINE i == IndexOf(page)
    <2>1. page \in Page /\ i \in TableIndex /\ d \in PageDir /\ d # dir
      BY <1>1, <1>6, PrivatePagesApart DEF TypeOK, Complete
    <2>2. tables[d][i] # NoTable /\ tables[d][i] \in PageTable /\ Holds(d, i)
      BY <1>6, <2>1 DEF FrameAt, TableOf, TypeOK, Holds, Freed
    <2>3. tables[d][i] # t
      <3> SUFFICES ASSUME tables[d][i] = t PROVE FALSE
        OBVIOUS
      <3>1. i = k /\ (d = dir \/ tables[dir][k] = tables[kernelDir][k])
        BY <1>1, <1>2, <1>5, <2>1, <2>2 DEF TableInv, TablesHaveOneOwner
      <3> QED
        BY <1>1, <2>1, <3>1
    <2>4. pages'[tables[d][i]] = pages[tables[d][i]]
      BY <1>1, <2>2, <2>3 DEF TypeOK
    <2>5. FrameAt(d, page)' = FrameAt(d, page)
      BY <1>1, <2>1, <2>4, SameStaysMapped
    <2> QED
      BY <1>6, <2>5
  <1>7. \A d \in live' \ {kernelDir} : Complete(d)' => Complete(d)
    BY <1>1, <1>4 DEF Complete
  <1> QED
    BY <1>1, <1>4, <1>6, <1>7, CompleteStayMapped

\* The steps that end a call or start one that maps nothing.
LEMMA MappedUntouched ==
    ASSUME TypeOK, JobInv, TableInv, MapInv,
           \/ \E dir \in PageDir : Destroy(dir) \/ Switch(dir)
           \/ EndMap \/ EndMirror \/ KeepTable \/ EndFree \/ UNCHANGED vars
           \/ \E page \in Touched : PageFault(page)
    PROVE  MapInv'
  <1>1. /\ UNCHANGED <<pages, tables, exhausted>>
        /\ live' \subseteq live
    BY DEF Destroy, Switch, EndMap, EndMirror, KeepTable, EndFree, PageFault, vars
  <1>2. \A d \in PageDir, page \in PrivatePages : FrameAt(d, page)' = FrameAt(d, page)
    BY <1>1 DEF FrameAt, TableOf
  <1>3. live \subseteq PageDir
    BY DEF TypeOK
  <1>4. CASE UNCHANGED <<live, job, currentDir>>
    <2> SUFFICES ASSUME ~exhausted, NEW page \in PrivatePages PROVE PageInv(page)'
      BY <1>1 DEF MapInv
    <2>1. PageInv(page)
      BY DEF MapInv
    <2>2. FrameAt(job.dir, page)' = FrameAt(job.dir, page)
          /\ FrameAt(currentDir, page)' = FrameAt(currentDir, page)
      BY <1>1, <1>4 DEF FrameAt, TableOf
    <2> QED
      BY <1>1, <1>2, <1>3, <1>4, <2>1, <2>2 DEF PageInv, Complete
  <1>5. ASSUME NEW dir \in PageDir, Destroy(dir)
        PROVE  MapInv'
    <2>1. job.op = "none" /\ job'.op = "free" /\ UNCHANGED live
      BY <1>5 DEF Destroy, Idle
    <2>2. \A d \in live' \ {kernelDir} : Complete(d)' => Complete(d)
      BY <2>1 DEF Complete
    <2> QED
      BY <1>1, <1>2, <1>3, <2>1, <2>2, CompleteStayMapped
  <1>6. CASE \E page \in Touched : PageFault(page)
    <2>1. job.op = "none" /\ job'.op = "mirror" /\ UNCHANGED live
      BY <1>6 DEF PageFault, Idle
    <2>2. \A d \in live' \ {kernelDir} : Complete(d)' => Complete(d)
      BY <2>1 DEF Complete
    <2> QED
      BY <1>1, <1>2, <1>3, <2>1, <2>2, CompleteStayMapped
  <1>7. CASE KeepTable
    <2>1. /\ job.op = "free" /\ job' = [job EXCEPT !.index = @ + 1] /\ UNCHANGED live
      BY <1>7 DEF KeepTable, Freeing
    <2>2. job \in [op : {"free"}, dir : PageDir, index : 0 .. TABLES_IN_DIR]
      BY <2>1 DEF TypeOK, Job
    <2>3. job'.op = "free" /\ job'.dir = job.dir
      BY <2>1, <2>2
    <2>4. \A d \in live' \ {kernelDir} : Complete(d)' => Complete(d)
      BY <2>1, <2>3 DEF Complete
    <2> QED
      BY <1>1, <1>2, <1>3, <2>3, <2>4, CompleteStayMapped
  <1>8. CASE EndFree
    <2>1. job.op = "free" /\ job'.op = "none" /\ live' = live \ {job.dir}
      BY <1>8 DEF EndFree, Idle
    <2>2. \A d \in live' \ {kernelDir} : Complete(d)' => Complete(d)
      BY <2>1 DEF Complete
    <2> QED
      BY <1>1, <1>2, <1>3, <2>1, <2>2, CompleteStayMapped
  <1>9. CASE EndMirror
    <2>1. job.op = "mirror" /\ job'.op = "none" /\ UNCHANGED live
      BY <1>9 DEF EndMirror, Idle
    <2>2. \A d \in live' \ {kernelDir} : Complete(d)' => Complete(d)
      BY <2>1 DEF Complete
    <2> QED
      BY <1>1, <1>2, <1>3, <2>1, <2>2, CompleteStayMapped
  <1>10. CASE EndMap
    <2>1. job.op = "map" /\ job.todo = <<>> /\ job'.op = "none" /\ UNCHANGED live
      BY <1>10 DEF EndMap, Idle
    <2> SUFFICES ASSUME ~exhausted, NEW page \in PrivatePages PROVE PageInv(page)'
      BY <1>1 DEF MapInv
    <2>2. PageInv(page)
      BY DEF MapInv
    <2>3. FrameAt(currentDir, page) # 0
      BY <2>1, <2>2 DEF PageInv
    <2>4. \A d \in live \ {kernelDir} : FrameAt(d, page) # 0
      BY <2>1, <2>2, <2>3 DEF PageInv, Complete
    <2> QED
      BY <1>1, <1>2, <1>3, <2>1, <2>4 DEF PageInv
  <1>11. (\E dir \in PageDir : Switch(dir)) \/ UNCHANGED vars => UNCHANGED <<live, job, currentDir>>
    BY DEF Switch, vars, taskVars
  <1> QED
    BY <1>4, <1>5, <1>6, <1>7, <1>8, <1>9, <1>10, <1>11

LEMMA NextKeepsMapped == TypeOK /\ JobInv /\ TableInv /\ MapInv /\ [Next]_vars => MapInv'
  BY GrowthStepsKeepMapped, CloneKeepsMapped, CopyKeepsMapped, ContractKeepsMapped,
     FreeTableKeepsMapped, MappedUntouched DEF Next

LEMMA InitMapped == Init => MapInv
  BY DEF Init, Idle, MapInv, PageInv

\* Between two calls every page of a task's own memory is mapped, through a
\* table that no other directory has: a task reads and writes no other's memory.
THEOREM TasksAreApart == Spec => []TaskMemoryIsPrivate
  <1>1. TypeOK /\ JobInv /\ TableInv /\ MapInv => TaskMemoryIsPrivate
    <2> SUFFICES ASSUME TypeOK, JobInv, TableInv, MapInv, job = Idle, ~exhausted,
                        NEW d \in live \ {kernelDir}, NEW page \in OwnPages,
                        IndexOf(page) \notin BootIndex
                 PROVE  /\ FrameAt(d, page) # 0
                        /\ \A other \in live \ {d} : TableOf(d, page) \notin TablesOf(other)
      BY DEF TaskMemoryIsPrivate, OwnPages
    <2> DEFINE i == IndexOf(page)
    <2>1. page \in PrivatePages
      BY DEF PrivatePages
    <2>2. i \in TableIndex /\ i \notin KernelIndex /\ live \subseteq PageDir
      BY <2>1, PrivatePagesApart DEF TypeOK
    <2>3. FrameAt(d, page) # 0
      BY <2>1 DEF MapInv, PageInv, Complete, Idle
    <2>4. tables[d][i] # NoTable /\ TableOf(d, page) = tables[d][i]
      BY <2>3 DEF FrameAt, TableOf
    <2>5. \A e \in live, j \in TableIndex : tables[e][j] # NoTable => Holds(e, j)
      BY DEF Holds, Freed, Idle
    <2>6. tables[kernelDir][i] = NoTable
      BY <2>2 DEF TableInv, KernelTablesInv
    <2>7. ASSUME NEW other \in live \ {d}, NEW j \in TableIndex, tables[other][j] = tables[d][i]
          PROVE  FALSE
      <3>1. Holds(d, i) /\ Holds(other, j) /\ other \in PageDir /\ d \in PageDir
        BY <2>2, <2>4, <2>5, <2>7
      <3>2. i = j /\ tables[d][i] = tables[kernelDir][i]
        BY <2>2, <2>7, <3>1 DEF TableInv, TablesHaveOneOwner
      <3> QED
        BY <2>4, <2>6, <3>2
    <2> QED
      BY <2>3, <2>4, <2>7 DEF TablesOf
  <1> QED
    BY <1>1, InitMapped, NextKeepsMapped, PagingInductive, PTL DEF Spec

-----------------------------------------------------------------------------
(* The kernel's heap. *)

\* No directory has a table of its own where the kernel has one, or can get one.
SharedTables == \A d \in live, i \in KernelIndex : tables[d][i] \in {NoTable, tables[kernelDir][i]}

HeapTables == \A page \in KHEAP_START .. KHEAP_START + heapSize[kernelDir] - 1 :
                  TableOf(kernelDir, page) # NoTable

\* makeTaskFromELF maps only the pages of the task.
TodoInv == job.op = "map" => \A k \in 1 .. Len(job.todo) : job.todo[k] \in OwnPages

HeapInv == SharedTables /\ HeapTables /\ TodoInv

\* The pages of the kernel's heap, now and at its largest.
LEMMA KernelHeapRange ==
    ASSUME TypeOK, JobInv, NEW page \in KHEAP_START .. KHEAP_START + heapSize[kernelDir] - 1
    PROVE  page \in Page /\ IndexOf(page) \in KernelIndex
  <1>1. KHEAP_START \in Nat /\ KHeapMax \in Nat /\ kernelDir \in PageDir
    BY PagingConstants DEF PagingConstants
  <1>2. MaxSize(kernelDir) = KHeapMax /\ HeapStart(kernelDir) = KHEAP_START
    BY DEF MaxSize, HeapStart
  <1>3. heapSize[kernelDir] \in 0 .. KHeapMax
    BY <1>1, <1>2 DEF JobInv
  <1>4. page \in KHEAP_START .. KHEAP_START + KHeapMax - 1
    BY <1>1, <1>3
  <1>5. page - KHEAP_START \in Nat /\ page - KHEAP_START < KHeapMax
    BY <1>1, <1>4
  <1>6. KHEAP_START + (page - KHEAP_START) \in Page
    BY <1>1, <1>2, <1>5, Layout
  <1>7. KHEAP_START + (page - KHEAP_START) = page
    BY <1>1, <1>4
  <1> QED
    BY <1>4, <1>6, <1>7 DEF KernelIndex

\* Steps that change no table of a directory that stays.
LEMMA TablesUntouched ==
    ASSUME TypeOK, JobInv, HeapInv, live' \subseteq live,
           \A d \in live, i \in TableIndex : tables'[d][i] = tables[d][i],
           heapSize'[kernelDir] \in Nat, heapSize'[kernelDir] <= heapSize[kernelDir],
           job'.op = "map" => job' = job
    PROVE  HeapInv'
  <1>1. kernelDir \in live /\ KernelIndex \subseteq TableIndex /\ kernelDir \in PageDir
    BY Layout DEF TypeOK
  <1>2. SharedTables'
    BY <1>1 DEF HeapInv, SharedTables
  <1>3. HeapTables'
    <2> SUFFICES ASSUME NEW page \in KHEAP_START .. KHEAP_START + heapSize'[kernelDir] - 1
                 PROVE  TableOf(kernelDir, page)' # NoTable
      BY DEF HeapTables
    <2>1. heapSize[kernelDir] \in Nat /\ KHEAP_START \in Nat
      BY <1>1, PagingConstants DEF TypeOK, PagingConstants
    <2>2. page \in KHEAP_START .. KHEAP_START + heapSize[kernelDir] - 1
      BY <2>1
    <2>3. TableOf(kernelDir, page) # NoTable
      BY <2>2 DEF HeapInv, HeapTables
    <2>4. tables[kernelDir][IndexOf(page)] # NoTable => tables'[kernelDir][IndexOf(page)] # NoTable
      BY <1>1, <2>2, KernelHeapRange, PageFacts
    <2> QED
      BY <2>3, <2>4 DEF TableOf
  <1>4. TodoInv'
    BY DEF HeapInv, TodoInv
  <1> QED
    BY <1>2, <1>3, <1>4 DEF HeapInv

LEMMA QuietStepsKeepHeap ==
    ASSUME TypeOK, JobInv, TypeOK', HeapInv,
           \/ SkipTable \/ BeginTable \/ CopyPage \/ EndMap \/ EndMirror
           \/ KeepTable \/ FreeTable \/ EndFree \/ UNCHANGED vars
           \/ \E page \in Touched : PageFault(page)
           \/ \E dir \in PageDir : Contract(dir) \/ Destroy(dir) \/ Switch(dir)
    PROVE  HeapInv'
  <1>1. kernelDir \in PageDir /\ heapSize'[kernelDir] \in Nat /\ heapSize[kernelDir] \in Nat
    BY Layout DEF TypeOK
  <1>2. tables' = tables
    BY DEF SkipTable, BeginTable, CopyPage, EndMap, EndMirror, KeepTable, FreeTable, EndFree,
           PageFault, Contract, Destroy, Switch, vars
  <1>3. live' \subseteq live
    BY DEF SkipTable, BeginTable, CopyPage, EndMap, EndMirror, KeepTable, FreeTable, EndFree,
           PageFault, Contract, Destroy, Switch, vars
  <1>4. heapSize'[kernelDir] <= heapSize[kernelDir]
    <2>1. ASSUME NEW dir \in PageDir, Contract(dir)
          PROVE  heapSize'[kernelDir] <= heapSize[kernelDir]
      BY <1>1, <2>1 DEF Contract, TypeOK
    <2>2. CASE UNCHANGED heapSize
      BY <1>1, <2>2
    <2>3. \/ UNCHANGED heapSize
          \/ \E dir \in PageDir : Contract(dir)
      BY DEF SkipTable, BeginTable, CopyPage, EndMap, EndMirror, KeepTable, FreeTable, EndFree,
             PageFault, Destroy, Switch, vars, taskVars
    <2> QED
      BY <2>1, <2>2, <2>3
  <1>5. job'.op = "map" => job' = job
    <2>1. CASE SkipTable \/ BeginTable
      BY <2>1 DEF SkipTable, NextTable, CloneJob, BeginTable
    <2>2. CASE CopyPage
      <3>1. job \in [op : {"copy"}, source : PageDir, dir : PageDir, index : TableIndex,
                     table : PageTable, offset : 0 .. PAGES_IN_TABLE]
        BY <2>2 DEF CopyPage, Copying, TypeOK, Job
      <3>2. job'.op = "copy"
        BY <2>2, <3>1 DEF CopyPage
      <3> QED
        BY <3>2
    <2>3. CASE KeepTable \/ FreeTable
      <3>1. job \in [op : {"free"}, dir : PageDir, index : 0 .. TABLES_IN_DIR]
        BY <2>3 DEF KeepTable, FreeTable, Freeing, TypeOK, Job
      <3>2. job'.op = "free"
        BY <2>3, <3>1 DEF KeepTable, FreeTable
      <3> QED
        BY <3>2
    <2>4. CASE EndMap \/ EndMirror \/ EndFree
      BY <2>4 DEF EndMap, EndMirror, EndFree, Idle
    <2>5. CASE (\E page \in Touched : PageFault(page)) \/ (\E dir \in PageDir : Destroy(dir))
      BY <2>5 DEF PageFault, Destroy
    <2>6. CASE (\E dir \in PageDir : Contract(dir) \/ Switch(dir)) \/ UNCHANGED vars
      BY <2>6 DEF Contract, Switch, vars
    <2> QED
      BY <2>1, <2>2, <2>3, <2>4, <2>5, <2>6
  <1>6. \A d \in live, i \in TableIndex : tables'[d][i] = tables[d][i]
    BY <1>2
  <1> QED
    BY <1>1, <1>3, <1>4, <1>5, <1>6, TablesUntouched

\* A step that enters one table into a directory.
LEMMA TableEntered ==
    ASSUME TypeOK, JobInv, HeapInv, TodoInv', live' = live,
           NEW dir \in live, NEW index \in TableIndex, NEW t \in PageTable,
           tables' = [tables EXCEPT ![dir][index] = t],
           dir # kernelDir /\ index \in KernelIndex => t = tables[kernelDir][index],
           dir = kernelDir => tables[dir][index] = NoTable,
           heapSize'[kernelDir] = heapSize[kernelDir]
    PROVE  HeapInv'
  <1>1. /\ kernelDir \in live /\ KernelIndex \subseteq TableIndex /\ live \subseteq PageDir
        /\ t # NoTable
    BY Layout DEF TypeOK
  <1>2. \A d \in PageDir, i \in TableIndex :
            tables'[d][i] = IF d = dir /\ i = index THEN t ELSE tables[d][i]
    BY <1>1 DEF TypeOK
  <1>3. SharedTables'
    <2> SUFFICES ASSUME NEW d \in live, NEW i \in KernelIndex
                 PROVE  tables'[d][i] \in {NoTable, tables'[kernelDir][i]}
      BY DEF SharedTables
    <2>1. tables[d][i] \in {NoTable, tables[kernelDir][i]} /\ i \in TableIndex /\ d \in PageDir
      BY <1>1 DEF HeapInv, SharedTables
    <2>2. CASE dir = kernelDir
      BY <1>1, <1>2, <2>1, <2>2
    <2>3. CASE dir # kernelDir
      BY <1>1, <1>2, <2>1, <2>3
    <2> QED
      BY <2>2, <2>3
  <1>4. HeapTables'
    <2> SUFFICES ASSUME NEW page \in KHEAP_START .. KHEAP_START + heapSize'[kernelDir] - 1
                 PROVE  TableOf(kernelDir, page)' # NoTable
      BY DEF HeapTables
    <2>1. page \in KHEAP_START .. KHEAP_START + heapSize[kernelDir] - 1
      OBVIOUS
    <2>2. TableOf(kernelDir, page) # NoTable
      BY <2>1 DEF HeapInv, HeapTables
    <2>3. IndexOf(page) \in TableIndex
      BY <2>1, KernelHeapRange, PageFacts
    <2> QED
      BY <1>1, <1>2, <2>2, <2>3 DEF TableOf
  <1> QED
    BY <1>3, <1>4 DEF HeapInv

\* The steps of cloneDir that enter a table: the kernel's, or one of the
\* directory's own where the kernel has none.
LEMMA CloneStepsKeepHeap ==
    ASSUME TypeOK, JobInv, TableInv, HeapInv, ShareTable \/ EndTable
    PROVE  HeapInv'
  <1> DEFINE dir == job.dir
             index == job.index
  <1>1. /\ job.op \in {"clone", "copy"} /\ index \in TableIndex
        /\ dir \in live /\ dir # kernelDir /\ job.source \in live
    <2>1. CASE ShareTable
      BY <2>1, JobFacts DEF ShareTable, Cloning, JobInv
    <2>2. CASE EndTable
      BY <2>2, JobFacts DEF EndTable, JobInv
    <2> QED
      BY <2>1, <2>2
  <1>2. live' = live /\ heapSize' = heapSize /\ job'.op = "clone"
    BY DEF ShareTable, EndTable, NextTable, CloneJob, taskVars
  <1>3. TodoInv'
    BY <1>2 DEF TodoInv
  <1>4. PICK t \in PageTable : /\ tables' = [tables EXCEPT ![dir][index] = t]
                               /\ index \in KernelIndex => t = tables[kernelDir][index]
    <2>1. CASE ShareTable
      <3>1. /\ SourceTable # NoTable /\ SourceTable = tables[kernelDir][index]
            /\ tables' = [tables EXCEPT ![dir][index] = SourceTable]
        BY <2>1 DEF ShareTable
      <3>2. SourceTable \in PageTable
        BY <1>1, <3>1 DEF SourceTable, TypeOK
      <3> QED
        BY <3>1, <3>2
    <2>2. CASE EndTable
      <3>1. tables' = [tables EXCEPT ![dir][index] = job.table] /\ job.op = "copy"
        BY <2>2 DEF EndTable
      <3>2. SourceTable \notin {NoTable, tables[kernelDir][index]}
        BY <3>1 DEF TableInv, CloneInv
      <3>3. index \notin KernelIndex
        BY <1>1, <3>2 DEF HeapInv, SharedTables, SourceTable
      <3>4. job.table \in PageTable
        BY <3>1, JobFacts
      <3> QED
        BY <3>1, <3>3, <3>4
    <2> QED
      BY <2>1, <2>2
  <1> HIDE DEF dir, index
  <1> QED
    BY <1>1, <1>2, <1>3, <1>4, TableEntered

\* getPage makes a table in the directory of a task only where the kernel can
\* have none.
LEMMA MapKeepsHeap ==
    ASSUME TypeOK, JobInv, TableInv, HeapInv, TodoInv', live' = live,
           NEW dir \in live, NEW page \in Page, MapPage(dir, page) \/ MirrorPage(dir, page),
           dir # kernelDir /\ IndexOf(page) \in KernelIndex => IndexOf(page) \in BootIndex,
           ~UnderConstruction(dir)
    PROVE  /\ heapSize'[kernelDir] = heapSize[kernelDir] => HeapInv'
           /\ SharedTables'
           /\ \A i \in TableIndex : tables[kernelDir][i] # NoTable => tables'[kernelDir][i] # NoTable
           /\ TableOf(dir, page)' # NoTable
  <1> DEFINE k == IndexOf(page)
  <1>1. k \in TableIndex /\ dir \in PageDir /\ kernelDir \in PageDir /\ kernelDir \in live
    BY PageFacts, Layout DEF TypeOK
  <1>2. PICK t \in PageTable : \E entries \in {pages[t], EmptyTable} : GetPage(dir, page, t, entries)
    BY DEF MapPage, MirrorPage
  <1>3. t # NoTable
    BY Layout
  <1>4. CASE t = TableOf(dir, page) /\ tables' = tables
    <2>1. SharedTables'
      BY <1>4 DEF HeapInv, SharedTables
    <2>2. heapSize'[kernelDir] = heapSize[kernelDir] => HeapTables'
      BY <1>4 DEF HeapInv, HeapTables, TableOf
    <2>3. TableOf(dir, page)' # NoTable
      BY <1>3, <1>4 DEF TableOf
    <2> QED
      BY <1>4, <2>1, <2>2, <2>3 DEF HeapInv
  <1>5. CASE TableOf(dir, page) = NoTable /\ tables' = [tables EXCEPT ![dir][k] = t]
    <2>1. tables[dir][k] = NoTable
      BY <1>5 DEF TableOf
    <2>2. k \notin BootIndex
      BY <2>1 DEF TableInv, BootTablesInv
    <2>3. dir # kernelDir /\ k \in KernelIndex => t = tables[kernelDir][k]
      BY <2>2
    <2>4. \A d \in PageDir, i \in TableIndex :
              tables'[d][i] = IF d = dir /\ i = k THEN t ELSE tables[d][i]
      BY <1>1, <1>5 DEF TypeOK
    <2>5. heapSize'[kernelDir] = heapSize[kernelDir] => HeapInv'
      BY <1>1, <1>5, <2>1, <2>3, TableEntered
    <2>6. SharedTables'
      <3> SUFFICES ASSUME NEW d \in live, NEW i \in KernelIndex
                   PROVE  tables'[d][i] \in {NoTable, tables'[kernelDir][i]}
        BY DEF SharedTables
      <3>1. tables[d][i] \in {NoTable, tables[kernelDir][i]} /\ i \in TableIndex /\ d \in PageDir
        BY Layout DEF HeapInv, SharedTables, TypeOK
      <3>2. dir # kernelDir => k \notin KernelIndex
        BY <2>2
      <3> QED
        BY <1>1, <2>1, <2>4, <3>1, <3>2
    <2>7. TableOf(dir, page)' # NoTable
      BY <1>1, <1>3, <2>4 DEF TableOf
    <2>8. \A i \in TableIndex : tables[kernelDir][i] # NoTable => tables'[kernelDir][i] # NoTable
      BY <1>1, <1>3, <2>4
    <2> QED
      BY <2>5, <2>6, <2>7, <2>8
  <1> QED
    BY <1>2, <1>4, <1>5 DEF GetPage

LEMMA MapStepsKeepHeap ==
    ASSUME TypeOK, JobInv, TableInv, HeapInv, MapNext \/ MirrorNext
    PROVE  HeapInv'
  <1>1. CASE MapNext
    <2>1. /\ job.op = "map" /\ job.todo # <<>> /\ MapPage(currentDir, Head(job.todo))
          /\ job' = [job EXCEPT !.todo = Tail(@)] /\ UNCHANGED <<live, heapSize>>
      BY <1>1 DEF MapNext, taskVars
    <2>2. job.todo \in Seq(Page) /\ job = [op |-> "map", todo |-> job.todo]
      BY <2>1, JobFacts
    <2>3. Head(job.todo) \in Page /\ job'.op = "map" /\ job'.todo = Tail(job.todo)
      BY <2>1, <2>2
    <2>4. currentDir \in live /\ currentDir # kernelDir /\ ~UnderConstruction(currentDir)
      BY <2>1 DEF TypeOK, JobInv, UnderConstruction
    <2>5. \A i \in 1 .. Len(job.todo) : job.todo[i] \in OwnPages
      BY <2>1 DEF HeapInv, TodoInv
    <2>6. Head(job.todo) \in OwnPages
      BY <2>1, <2>2, <2>5
    <2>7. IndexOf(Head(job.todo)) \in KernelIndex => IndexOf(Head(job.todo)) \in BootIndex
      BY <2>6, PrivatePagesApart DEF PrivatePages
    <2>8. TodoInv'
      BY <2>1, <2>2, <2>3, <2>5 DEF TodoInv
    <2> QED
      BY <2>1, <2>3, <2>4, <2>7, <2>8, MapKeepsHeap
  <1>2. CASE MirrorNext
    <2>1. /\ job.op = "mirror" /\ job.todo # <<>> /\ MirrorPage(currentDir, Head(job.todo))
          /\ job' = [job EXCEPT !.todo = Tail(@)] /\ UNCHANGED <<live, heapSize>>
      BY <1>2 DEF MirrorNext, taskVars
    <2>2. job.todo \in Seq(TouchedPages) /\ job = [op |-> "mirror", todo |-> job.todo]
      BY <2>1, JobFacts
    <2>3. Head(job.todo) \in Page /\ job'.op = "mirror"
      BY <2>1, <2>2, Layout
    <2>4. currentDir \in live /\ currentDir = kernelDir /\ ~UnderConstruction(currentDir)
      BY <2>1 DEF TypeOK, JobInv, UnderConstruction
    <2>5. TodoInv'
      BY <2>3 DEF TodoInv
    <2> QED
      BY <2>1, <2>3, <2>4, <2>5, MapKeepsHeap
  <1> QED
    BY <1>1, <1>2

LEMMA ExpandKeepsHeap ==
    ASSUME TypeOK, JobInv, TableInv, HeapInv, NEW dir \in PageDir, Expand(dir)
    PROVE  HeapInv'
  <1>0. PICK page : page = HeapStart(dir) + heapSize[dir]
    OBVIOUS
  <1>1. /\ MapPage(dir, HeapStart(dir) + heapSize[dir]) /\ UNCHANGED <<live, job>>
        /\ heapSize[dir] < MaxSize(dir)
        /\ heapSize' = [heapSize EXCEPT ![dir] = @ + 1]
        /\ \/ job = Idle /\ dir \in {kernelDir, heap[cr3]}
           \/ dir = kernelDir /\ job.op \in {"clone", "map", "mirror"}
    BY DEF Expand, UsesHeap, AsksForMemory, Cloning
  <1>2. dir \in live /\ ~UnderConstruction(dir)
    BY <1>1, Layout DEF TypeOK, JobInv, Idle, UnderConstruction
  <1>3. page \in Page /\ MapPage(dir, page)
    BY <1>0, <1>1, HeapPage
  <1>4. TodoInv'
    BY <1>1 DEF HeapInv, TodoInv
  <1>5. dir # kernelDir => IndexOf(page) \notin KernelIndex
    <2> SUFFICES ASSUME dir # kernelDir
                 PROVE  page \in TaskHeap
      BY AddressSpace
    <2>1. HeapStart(dir) = HEAP_START /\ MaxSize(dir) = HeapMax
      BY DEF HeapStart, MaxSize
    <2>2. HEAP_START \in Nat /\ HeapMax \in Nat /\ heapSize[dir] \in Nat
      BY PagingConstants DEF PagingConstants, TypeOK
    <2> QED
      BY <1>0, <1>1, <2>1, <2>2 DEF TaskHeap
  <1>6. /\ heapSize'[kernelDir] = heapSize[kernelDir] => HeapInv'
        /\ SharedTables'
        /\ \A i \in TableIndex : tables[kernelDir][i] # NoTable => tables'[kernelDir][i] # NoTable
        /\ TableOf(dir, page)' # NoTable
    <2>1. live' = live
      BY <1>1
    <2>2. dir # kernelDir /\ IndexOf(page) \in KernelIndex => IndexOf(page) \in BootIndex
      BY <1>5
    <2>3. MapPage(dir, page) \/ MirrorPage(dir, page)
      BY <1>3
    <2> QED
      BY <1>2, <1>3, <1>4, <2>1, <2>2, <2>3, MapKeepsHeap
  <1>7. CASE dir # kernelDir
    <2>1. heapSize'[kernelDir] = heapSize[kernelDir]
      BY <1>1, <1>7, Layout DEF TypeOK
    <2> QED
      BY <1>6, <2>1
  <1>8. CASE dir = kernelDir
    <2>1. heapSize'[kernelDir] = heapSize[kernelDir] + 1 /\ heapSize[kernelDir] \in Nat
          /\ KHEAP_START \in Nat /\ page = KHEAP_START + heapSize[kernelDir]
      BY <1>0, <1>1, <1>8, PagingConstants DEF TypeOK, PagingConstants, HeapStart
    <2>2. HeapTables'
      <3> SUFFICES ASSUME NEW p \in KHEAP_START .. KHEAP_START + heapSize'[kernelDir] - 1
                   PROVE  TableOf(kernelDir, p)' # NoTable
        BY DEF HeapTables
      <3>1. CASE p = page
        BY <1>6, <1>8, <3>1 DEF TableOf
      <3>2. CASE p # page
        <4>1. p \in KHEAP_START .. KHEAP_START + heapSize[kernelDir] - 1
          BY <2>1, <3>2
        <4>2. TableOf(kernelDir, p) # NoTable /\ IndexOf(p) \in TableIndex
          BY <4>1, KernelHeapRange, PageFacts DEF HeapInv, HeapTables
        <4>3. tables'[kernelDir][IndexOf(p)] # NoTable
          BY <1>6, <4>2 DEF TableOf
        <4> QED
          BY <4>3 DEF TableOf
      <3> QED
        BY <3>1, <3>2
    <2> QED
      BY <1>4, <1>6, <2>2 DEF HeapInv
  <1> QED
    BY <1>7, <1>8

\* A new directory has no table; what makeTaskFromELF maps is the task's own.
LEMMA CallsKeepHeap ==
    ASSUME TypeOK, JobInv, TypeOK', HeapInv,
           EndClone \/ \E dir \in PageDir : MakeTask(dir) \/ Fork(dir)
    PROVE  HeapInv'
  <1>1. CASE EndClone
    <2>1. /\ UNCHANGED <<live, tables, heapSize>>
          /\ job'.op = "map" => job' = [op |-> "map", todo |-> TaskPages]
      BY <1>1 DEF EndClone, Idle
    <2>2. SharedTables' /\ HeapTables'
      BY <2>1 DEF HeapInv, SharedTables, HeapTables, TableOf
    <2>3. TodoInv'
      BY <2>1 DEF TodoInv, OwnPages
    <2> QED
      BY <2>2, <2>3 DEF HeapInv
  <1>2. ASSUME NEW dir \in PageDir, MakeTask(dir) \/ Fork(dir)
        PROVE  HeapInv'
    <2>1. /\ dir \notin live /\ live' = live \cup {dir} /\ job'.op = "clone"
          /\ tables' = [tables EXCEPT ![dir] = [i \in TableIndex |-> NoTable]]
          /\ heapSize' \in {heapSize, [heapSize EXCEPT ![dir] = HeapMin]}
      BY <1>2 DEF MakeTask, Fork, BeginClone, CloneJob
    <2>2. dir # kernelDir /\ kernelDir \in PageDir /\ KernelIndex \subseteq TableIndex
      BY <2>1, Layout DEF TypeOK
    <2>3. /\ heapSize'[kernelDir] = heapSize[kernelDir]
          /\ \A d \in PageDir \ {dir} : tables'[d] = tables[d]
          /\ \A i \in TableIndex : tables'[dir][i] = NoTable
      BY <2>1, <2>2 DEF TypeOK
    <2>4. SharedTables'
      BY <2>1, <2>2, <2>3 DEF HeapInv, SharedTables, TypeOK
    <2>5. HeapTables'
      BY <2>2, <2>3 DEF HeapInv, HeapTables, TableOf
    <2>6. TodoInv'
      BY <2>1 DEF TodoInv
    <2> QED
      BY <2>4, <2>5, <2>6 DEF HeapInv
  <1> QED
    BY <1>1, <1>2

LEMMA NextKeepsHeap ==
    TypeOK /\ TypeOK' /\ JobInv /\ TableInv /\ HeapInv /\ [Next]_vars => HeapInv'
  BY QuietStepsKeepHeap, CloneStepsKeepHeap, MapStepsKeepHeap, ExpandKeepsHeap, CallsKeepHeap DEF Next

LEMMA InitHeap == Init => HeapInv
  <1> SUFFICES ASSUME Init PROVE HeapInv
    OBVIOUS
  <1>1. live = {kernelDir} /\ heapSize[kernelDir] = KHeapMin /\ job.op = "none"
    BY Layout DEF Init, Idle
  <1>2. SharedTables
    BY <1>1 DEF SharedTables
  <1>3. HeapTables
    <2> SUFFICES ASSUME NEW page \in KHEAP_START .. KHEAP_START + heapSize[kernelDir] - 1
                 PROVE  TableOf(kernelDir, page) # NoTable
      BY DEF HeapTables
    <2>1. IndexOf(page) \in BootIndex
      BY <1>1 DEF BootIndex, KernelHeapPages
    <2> QED
      BY <2>1, InitTables DEF TableOf, TableInv, BootTablesInv
  <1>4. TodoInv
    BY <1>1 DEF TodoInv
  <1> QED
    BY <1>2, <1>3, <1>4 DEF HeapInv

\* Between two calls every page of the kernel's heap, however far it has grown,
\* has one table in all directories: a handler that works on the kernel's data
\* under the directory of the task it interrupts works on the same frame, or on
\* a page that this older directory lacks, in a table that initPaging did not make.
THEOREM KernelHeapIsShared == Spec => []KernelHeapIsNeverDoubled
  <1>1. TypeOK /\ JobInv /\ TableInv /\ HeapInv => KernelHeapIsNeverDoubled
    <2> SUFFICES ASSUME TypeOK, JobInv, TableInv, HeapInv, job = Idle,
                        NEW page \in KHEAP_START .. KHEAP_START + heapSize[kernelDir] - 1
                 PROVE  /\ TableOf(kernelDir, page) # NoTable
                        /\ \A d \in live :
                              \/ TableOf(d, page) = TableOf(kernelDir, page)
                              \/ TableOf(d, page) = NoTable /\ IndexOf(page) \notin BootIndex
      BY DEF KernelHeapIsNeverDoubled
    <2>1. IndexOf(page) \in KernelIndex
      BY KernelHeapRange
    <2>2. \A d \in live : TableOf(d, page) \in {NoTable, TableOf(kernelDir, page)}
      BY <2>1 DEF HeapInv, SharedTables, TableOf
    <2>3. \A d \in live : IndexOf(page) \in BootIndex => TableOf(d, page) = TableOf(kernelDir, page)
      BY DEF TableInv, BootTablesInv, UnderConstruction, Idle, TableOf
    <2>4. TableOf(kernelDir, page) # NoTable
      BY DEF HeapInv, HeapTables
    <2> QED
      BY <2>2, <2>3, <2>4
  <1> QED
    BY <1>1, InitHeap, NextKeepsHeap, PagingInductive, PTL DEF Spec
=============================================================================
