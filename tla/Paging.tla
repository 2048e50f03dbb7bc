------------------------------- MODULE Paging -------------------------------
(***************************************************************************)
(* Physical frames, page tables and page directories:                      *)
(* kernel/src/memory_managment/paging.c, the part of heap.c that maps and  *)
(* unmaps the pages of a heap, and the calls of task.c that make, clone    *)
(* and free the address space of a task.                                   *)
(*                                                                         *)
(* The system starts when initPaging returns.  What a call does is split   *)
(* into one step per table or page, because it takes the frames one by     *)
(* one; `job` is what is left of the call.  Interrupts are disabled in all *)
(* of them, so that no second call starts before the first has ended.      *)
(*                                                                         *)
(* An address is the number of its page, a page entry the frame it maps: 0 *)
(* is the code's mark of an entry without a frame.                         *)
(***************************************************************************)
EXTENDS Integers, Sequences

CONSTANTS PageTable,         \* the PageTable_t objects that _kmalloc can return
          PageDir,           \* the PageDir_t objects, one per task
          kernelDir,
          NoTable,           \* the null pointer in PageDir_t.tables
          NoHeap,            \* a heap that died with the directory it belongs to
          TABLES_IN_DIR, PAGES_IN_TABLE,
          nframes,
          KernelPages,       \* the pages below that are mirrored by initPaging
          KHEAP_START, KHeapMin, KHeapMax,   \* pages of the kernel's heap
          HEAP_START, HeapMin, HeapMax,      \* pages of a task's heap
          Stack, Sections,   \* the other pages of a task, in the order in which
                             \* makeTaskFromELF maps them
          Touched            \* pages of physical memory that kernel_main reads

Page  == 0 .. TABLES_IN_DIR * PAGES_IN_TABLE - 1
Frame == 0 .. nframes - 1

TableIndex == 0 .. TABLES_IN_DIR - 1
PageOffset == 0 .. PAGES_IN_TABLE - 1

IndexOf(page)  == page \div PAGES_IN_TABLE
OffsetOf(page) == page % PAGES_IN_TABLE

KernelHeapPages == KHEAP_START .. KHEAP_START + KHeapMin - 1

ASSUME PagingConstants ==
    /\ kernelDir \in PageDir /\ NoTable \notin PageTable /\ NoHeap \notin PageDir
    /\ TABLES_IN_DIR \in Nat \ {0} /\ PAGES_IN_TABLE \in Nat \ {0} /\ nframes \in Nat
    /\ KernelPages \in Nat \ {0} /\ KernelPages + KHeapMin <= nframes
    /\ KernelPages <= KHEAP_START /\ nframes <= KHEAP_START
    /\ {KHEAP_START, KHeapMin, KHeapMax, HEAP_START, HeapMin, HeapMax} \subseteq Nat
    /\ KHeapMin <= KHeapMax /\ KHEAP_START + KHeapMax - 1 \in Page
    /\ HeapMin <= HeapMax /\ HEAP_START + HeapMax - 1 \in Page
    /\ Stack \in Seq(Page) /\ Sections \in Seq(Page)
    /\ Touched \subseteq {p \in Page : p + 1 \in Page /\ p + 1 \in Frame}

\* The tables that initPaging makes, for the image and for the kernel's heap.
BootIndex == {IndexOf(p) : p \in 0 .. KernelPages - 1} \cup {IndexOf(p) : p \in KernelHeapPages}

\* The pages that a page fault can mirror.
TouchedPages == Touched \cup {p + 1 : p \in Touched}

\* The tables that kernelDir can have.
KernelIndex == BootIndex \cup {IndexOf(p) : p \in KHEAP_START .. KHEAP_START + KHeapMax - 1}
                         \cup {IndexOf(p) : p \in TouchedPages}

TaskHeap == HEAP_START .. HEAP_START + HeapMax - 1

\* No address that kernel_main reads, and no page of the kernel's heap, lies in
\* the tables of a task's heap; the stack and the image of a task are apart
\* from its heap and in tables that are the task's own or made by initPaging.
ASSUME AddressSpace ==
    /\ \A p \in TaskHeap : IndexOf(p) \notin KernelIndex
    /\ \A p \in {Stack[k] : k \in DOMAIN Stack} \cup {Sections[k] : k \in DOMAIN Sections} :
          p \notin TaskHeap /\ (IndexOf(p) \in KernelIndex => IndexOf(p) \in BootIndex)

VARIABLES used,          \* frames: the frames whose bit is set
          pages,         \* PageTable_t.pages: the frame of every entry
          allocated,     \* the page tables that are allocated
          live,          \* the directories that are allocated
          tables,        \* PageDir_t.tables
          heap,          \* whose heap a task uses: its own, or its parent's
          heapSize,      \* pages of a heap
          currentDir,
          cr3,           \* the directory the processor uses
          job,           \* what is left of the call that is under way
          exhausted      \* history: firstFrame was called with no free frame

taskVars == <<heap, heapSize, currentDir, cr3>>
vars == <<used, pages, allocated, live, tables, taskVars, job, exhausted>>

Idle == [op |-> "none"]

TableOf(dir, page) == tables[dir][IndexOf(page)]

FrameAt(dir, page) == IF TableOf(dir, page) = NoTable THEN 0
                      ELSE pages[TableOf(dir, page)][OffsetOf(page)]

EmptyTable == [o \in PageOffset |-> 0]

\* The image is mirrored; the heap gets the first frames after it.
BootFrame(page) == IF page \in KernelHeapPages THEN KernelPages + (page - KHEAP_START)
                   ELSE IF page < KernelPages THEN page
                   ELSE 0

Init == /\ used = 0 .. KernelPages + KHeapMin - 1
        /\ \E table \in [BootIndex -> PageTable] :
             /\ \A i, j \in BootIndex : table[i] = table[j] => i = j
             /\ allocated = {table[i] : i \in BootIndex}
             /\ tables = [d \in PageDir |-> [i \in TableIndex |->
                            IF d = kernelDir /\ i \in BootIndex THEN table[i] ELSE NoTable]]
             /\ pages = [t \in PageTable |-> [o \in PageOffset |->
                            IF \E i \in BootIndex : table[i] = t
                            THEN BootFrame((CHOOSE i \in BootIndex : table[i] = t) * PAGES_IN_TABLE + o)
                            ELSE 0]]
        /\ live = {kernelDir}
        /\ heap = [d \in PageDir |-> IF d = kernelDir THEN d ELSE NoHeap]
        /\ heapSize = [d \in PageDir |-> IF d = kernelDir THEN KHeapMin ELSE 0]
        /\ currentDir = kernelDir
        /\ cr3 = kernelDir
        /\ job = Idle
        /\ exhausted = FALSE
-----------------------------------------------------------------------------
(* Frames and pages. *)

Free == Frame \ used

\* firstFrame runs off its end when no frame is free: what it returns then is
\* whatever the register holds.
FirstFrame == IF Free = {} THEN Frame ELSE {f \in Free : \A g \in Free : f <= g}

\* getPage with make: t is the table of the page, made when there is none, and
\* entries what it holds.
GetPage(dir, page, t, entries) ==
    \/ /\ t = TableOf(dir, page) /\ t # NoTable
       /\ entries = pages[t]
       /\ UNCHANGED <<allocated, tables>>
    \/ /\ TableOf(dir, page) = NoTable
       /\ t \notin allocated
       /\ entries = EmptyTable
       /\ allocated' = allocated \cup {t}
       /\ tables' = [tables EXCEPT ![dir][IndexOf(page)] = t]

\* Mutation of AllocFrame: the bit of the frame is not set.
AllocUnmarked(t, entries, offset) ==
    IF entries[offset] # 0
    THEN /\ pages' = [pages EXCEPT ![t] = entries]
         /\ UNCHANGED <<used, exhausted>>
    ELSE \E frame \in FirstFrame :
           /\ pages' = [pages EXCEPT ![t] = [entries EXCEPT ![offset] = frame]]
           /\ exhausted' = (exhausted \/ Free = {})
           /\ UNCHANGED used

\* allocFrame: nothing, for an entry that has a frame.
AllocFrame(t, entries, offset) ==
    IF entries[offset] # 0
    THEN /\ pages' = [pages EXCEPT ![t] = entries]
         /\ UNCHANGED <<used, exhausted>>
    ELSE \E frame \in FirstFrame :
           /\ used' = used \cup {frame}
           /\ pages' = [pages EXCEPT ![t] = [entries EXCEPT ![offset] = frame]]
           /\ exhausted' = (exhausted \/ Free = {})

\* linkFrame: the frame of that number, whether its bit is set or not.
LinkFrame(t, entries, page) ==
    /\ IF entries[OffsetOf(page)] # 0
       THEN /\ pages' = [pages EXCEPT ![t] = entries]
            /\ UNCHANGED used
       ELSE /\ used' = used \cup {page}
            /\ pages' = [pages EXCEPT ![t] = [entries EXCEPT ![OffsetOf(page)] = page]]
    /\ UNCHANGED exhausted

MapPage(dir, page) ==
    \E t \in PageTable : \E entries \in {pages[t], EmptyTable} :
        GetPage(dir, page, t, entries) /\ AllocFrame(t, entries, OffsetOf(page))

MirrorPage(dir, page) ==
    \E t \in PageTable : \E entries \in {pages[t], EmptyTable} :
        GetPage(dir, page, t, entries) /\ LinkFrame(t, entries, page)

\* freeFrame.
UnmapPage(dir, page) ==
    IF FrameAt(dir, page) = 0
    THEN UNCHANGED <<used, pages>>
    ELSE /\ used' = used \ {FrameAt(dir, page)}
         /\ pages' = [pages EXCEPT ![TableOf(dir, page)][OffsetOf(page)] = 0]
-----------------------------------------------------------------------------
(* cloneDir, for a new task and for fork. *)

\* The next table of the directory that is copied.
CloneJob(source, dir, index) ==
    [op |-> "clone", source |-> source, dir |-> dir, index |-> index]

BeginClone(source, dir) ==
    /\ job = Idle
    /\ dir \notin live
    /\ live' = live \cup {dir}
    /\ tables' = [tables EXCEPT ![dir] = [i \in TableIndex |-> NoTable]]
    /\ job' = CloneJob(source, dir, 0)
    /\ UNCHANGED <<used, pages, allocated, currentDir, cr3, exhausted>>

\* makeTaskFromELF, in kernel_main.  createHeap makes the task's own heap.
MakeTask(dir) == /\ cr3 = kernelDir
                 /\ BeginClone(kernelDir, dir)
                 /\ heap' = [heap EXCEPT ![dir] = dir]
                 /\ heapSize' = [heapSize EXCEPT ![dir] = HeapMin]

\* fork, by the running task; the child gets the parent's heap.
Fork(dir) == /\ cr3 # kernelDir
             /\ BeginClone(cr3, dir)
             /\ heap' = [heap EXCEPT ![dir] = heap[cr3]]
             /\ UNCHANGED heapSize

Cloning == job.op = "clone" /\ job.index < TABLES_IN_DIR

SourceTable == tables[job.source][job.index]

NextTable == job' = CloneJob(job.source, job.dir, job.index + 1)

SkipTable == /\ Cloning
             /\ SourceTable = NoTable
             /\ NextTable
             /\ UNCHANGED <<used, pages, allocated, live, tables, taskVars, exhausted>>

\* Mutation of ShareTable: every table is shared, also with a forked task.
ShareEveryTable == /\ Cloning
                   /\ SourceTable # NoTable
                   /\ tables' = [tables EXCEPT ![job.dir][job.index] = SourceTable]
                   /\ NextTable
                   /\ UNCHANGED <<used, pages, allocated, live, taskVars, exhausted>>

ShareTable == /\ Cloning
              /\ SourceTable # NoTable
              /\ SourceTable = tables[kernelDir][job.index]
              /\ tables' = [tables EXCEPT ![job.dir][job.index] = SourceTable]
              /\ NextTable
              /\ UNCHANGED <<used, pages, allocated, live, taskVars, exhausted>>

\* Mutation of BeginTable: the tables of the kernel are copied, too.
BeginEveryTable == /\ Cloning
                   /\ SourceTable # NoTable
                   /\ \E t \in PageTable \ allocated :
                        /\ allocated' = allocated \cup {t}
                        /\ pages' = [pages EXCEPT ![t] = EmptyTable]
                        /\ job' = [op |-> "copy", source |-> job.source, dir |-> job.dir,
                                   index |-> job.index, table |-> t, offset |-> 0]
                   /\ UNCHANGED <<used, live, tables, taskVars, exhausted>>

\* cloneTable takes an empty table and a frame for every entry that has one in
\* the table it copies.
BeginTable == /\ Cloning
              /\ SourceTable \notin {NoTable, tables[kernelDir][job.index]}
              /\ \E t \in PageTable \ allocated :
                   /\ allocated' = allocated \cup {t}
                   /\ pages' = [pages EXCEPT ![t] = EmptyTable]
                   /\ job' = [op |-> "copy", source |-> job.source, dir |-> job.dir,
                              index |-> job.index, table |-> t, offset |-> 0]
              /\ UNCHANGED <<used, live, tables, taskVars, exhausted>>

Copying == job.op = "copy" /\ job.offset < PAGES_IN_TABLE

CopyPage == /\ Copying
            /\ IF pages[SourceTable][job.offset] # 0
               THEN AllocFrame(job.table, pages[job.table], job.offset)
               ELSE UNCHANGED <<used, pages, exhausted>>
            /\ job' = [job EXCEPT !.offset = @ + 1]
            /\ UNCHANGED <<allocated, live, tables, taskVars>>

EndTable == /\ job.op = "copy" /\ job.offset = PAGES_IN_TABLE
            /\ tables' = [tables EXCEPT ![job.dir][job.index] = job.table]
            /\ NextTable
            /\ UNCHANGED <<used, pages, allocated, live, taskVars, exhausted>>

\* The stack, the heap, the sections of the ELF file.
TaskPages == Stack \o [i \in 1 .. HeapMin |-> HEAP_START + i - 1] \o Sections

\* A forked task is ready; makeTaskFromELF goes on in the new directory, with
\* the pages of the image and of the heap.
EndClone == /\ job.op = "clone" /\ job.index = TABLES_IN_DIR
            /\ IF job.source = kernelDir
               THEN /\ currentDir' = job.dir
                    /\ job' = [op |-> "map",
                               todo |-> TaskPages]
               ELSE job' = Idle /\ UNCHANGED currentDir
            /\ UNCHANGED <<used, pages, allocated, live, tables, heap, heapSize, cr3, exhausted>>
-----------------------------------------------------------------------------
(* Mapping one page after another into the current directory. *)

MapNext == /\ job.op = "map" /\ job.todo # <<>>
           /\ MapPage(currentDir, Head(job.todo))
           /\ job' = [job EXCEPT !.todo = Tail(@)]
           /\ UNCHANGED <<live, taskVars>>

EndMap == /\ job.op = "map" /\ job.todo = <<>>
          /\ currentDir' = kernelDir
          /\ job' = Idle
          /\ UNCHANGED <<used, pages, allocated, live, tables, heap, heapSize, cr3, exhausted>>

\* pageFault: kernel_main reads physical memory that is not mapped; the page
\* of the address and the next one are mirrored.
PageFault(page) == /\ job = Idle
                   /\ cr3 = currentDir /\ currentDir = kernelDir
                   /\ FrameAt(kernelDir, page) = 0
                   /\ job' = [op |-> "mirror", todo |-> <<page, page + 1>>]
                   /\ UNCHANGED <<used, pages, allocated, live, tables, taskVars, exhausted>>

MirrorNext == /\ job.op = "mirror" /\ job.todo # <<>>
              /\ MirrorPage(currentDir, Head(job.todo))
              /\ job' = [job EXCEPT !.todo = Tail(@)]
              /\ UNCHANGED <<live, taskVars>>

EndMirror == /\ job.op = "mirror" /\ job.todo = <<>>
             /\ job' = Idle
             /\ UNCHANGED <<used, pages, allocated, live, tables, taskVars, exhausted>>
-----------------------------------------------------------------------------
(* The heaps: expand and contract, one page at a time.                       *)

HeapStart(dir) == IF dir = kernelDir THEN KHEAP_START ELSE HEAP_START
MinSize(dir)   == IF dir = kernelDir THEN KHeapMin ELSE HeapMin
MaxSize(dir)   == IF dir = kernelDir THEN KHeapMax ELSE HeapMax

\* A task whose parent has been destroyed has no heap.
\* user_malloc and user_free, by the running task; kmalloc and kfree between
\* two of the calls that are modelled here.
UsesHeap(dir) == job = Idle /\ dir \in {kernelDir, heap[cr3]}

\* _kmalloc within these calls: for the copy of a table, for the heap of a new
\* task, for a table that getPage makes.
AsksForMemory == \/ Cloning /\ SourceTable \notin {NoTable, tables[kernelDir][job.index]}
                 \/ job.op = "clone" /\ job.index = TABLES_IN_DIR
                 \/ /\ job.op \in {"map", "mirror"} /\ job.todo # <<>>
                    /\ TableOf(currentDir, Head(job.todo)) = NoTable

Expand(dir) == /\ \/ UsesHeap(dir)
                  \/ dir = kernelDir /\ AsksForMemory
               /\ heapSize[dir] < MaxSize(dir)
               /\ MapPage(dir, HeapStart(dir) + heapSize[dir])
               /\ heapSize' = [heapSize EXCEPT ![dir] = @ + 1]
               /\ UNCHANGED <<live, heap, currentDir, cr3, job>>

Contract(dir) == /\ \/ UsesHeap(dir)
                    \/ dir = kernelDir /\ job.op = "free"
                 /\ heapSize[dir] > MinSize(dir)
                 /\ UnmapPage(dir, HeapStart(dir) + heapSize[dir] - 1)
                 /\ heapSize' = [heapSize EXCEPT ![dir] = @ - 1]
                 /\ UNCHANGED <<allocated, live, tables, heap, currentDir, cr3, job, exhausted>>
-----------------------------------------------------------------------------
(* freeDir, for a task that has finished, while another one is running. *)

Destroy(dir) == /\ job = Idle
                /\ dir \in live \ {kernelDir, cr3}
                /\ job' = [op |-> "free", dir |-> dir, index |-> 0]
                /\ UNCHANGED <<used, pages, allocated, live, tables, taskVars, exhausted>>

Freeing == job.op = "free" /\ job.index < TABLES_IN_DIR

DyingTable == tables[job.dir][job.index]

\* Mutation of OwnTable: the tables of the kernel are freed, too.
AnyTable == DyingTable # NoTable

OwnTable == DyingTable \notin {NoTable, tables[kernelDir][job.index]}

KeepTable == /\ Freeing /\ ~OwnTable
             /\ job' = [job EXCEPT !.index = @ + 1]
             /\ UNCHANGED <<used, pages, allocated, live, tables, taskVars, exhausted>>

\* Mutation of FreeTable: the frames of the entries stay taken.
FreeTableOnly == /\ Freeing /\ OwnTable
                 /\ pages' = [pages EXCEPT ![DyingTable] = EmptyTable]
                 /\ allocated' = allocated \ {DyingTable}
                 /\ job' = [job EXCEPT !.index = @ + 1]
                 /\ UNCHANGED <<used, live, tables, taskVars, exhausted>>

\* freeTable: the frame of every entry, then the table.
FreeTable == /\ Freeing /\ OwnTable
             /\ used' = used \ ({pages[DyingTable][o] : o \in PageOffset} \ {0})
             /\ pages' = [pages EXCEPT ![DyingTable] = EmptyTable]
             /\ allocated' = allocated \ {DyingTable}
             /\ job' = [job EXCEPT !.index = @ + 1]
             /\ UNCHANGED <<live, tables, taskVars, exhausted>>

EndFree == /\ job.op = "free" /\ job.index = TABLES_IN_DIR
           /\ live' = live \ {job.dir}
           /\ heap' = [d \in PageDir |-> IF heap[d] = job.dir THEN NoHeap ELSE heap[d]]
           /\ job' = Idle
           /\ UNCHANGED <<used, pages, allocated, tables, heapSize, currentDir, cr3, exhausted>>

\* The scheduler switches to a task: interrupts load its cr3, and do not touch
\* currentDir.
Switch(dir) == /\ job = Idle
               /\ dir \in live
               /\ cr3' = dir
               /\ UNCHANGED <<used, pages, allocated, live, tables, heap, heapSize, currentDir,
                              job, exhausted>>

Next == \/ \E dir \in PageDir : \/ MakeTask(dir) \/ Fork(dir)
                                \/ Expand(dir) \/ Contract(dir)
                                \/ Destroy(dir) \/ Switch(dir)
        \/ SkipTable \/ ShareTable \/ BeginTable \/ CopyPage \/ EndTable \/ EndClone
        \/ MapNext \/ EndMap
        \/ \E page \in Touched : PageFault(page)
        \/ MirrorNext \/ EndMirror
        \/ KeepTable \/ FreeTable \/ EndFree

Spec == Init /\ [][Next]_vars
-----------------------------------------------------------------------------
\* What can be left of a call.
Job == [op : {"none"}]
       \cup [op : {"clone"}, source : PageDir, dir : PageDir, index : 0 .. TABLES_IN_DIR]
       \cup [op : {"copy"}, source : PageDir, dir : PageDir, index : TableIndex,
             table : PageTable, offset : 0 .. PAGES_IN_TABLE]
       \cup [op : {"map"}, todo : Seq(Page)]
       \cup [op : {"mirror"}, todo : Seq(TouchedPages)]
       \cup [op : {"free"}, dir : PageDir, index : 0 .. TABLES_IN_DIR]

TypeOK ==
    /\ used \subseteq Frame
    /\ pages \in [PageTable -> [PageOffset -> Frame]]
    /\ allocated \subseteq PageTable
    /\ live \subseteq PageDir /\ kernelDir \in live
    /\ tables \in [PageDir -> [TableIndex -> PageTable \cup {NoTable}]]
    /\ heap \in [PageDir -> PageDir \cup {NoHeap}]
    /\ heapSize \in [PageDir -> Nat]
    /\ currentDir \in live /\ cr3 \in live
    /\ job \in Job
    /\ exhausted \in BOOLEAN

TablesOf(dir) == {tables[dir][i] : i \in TableIndex} \ {NoTable}

Reachable == UNION {TablesOf(d) : d \in live}

Entry == Reachable \X PageOffset

FrameOf(e) == pages[e[1]][e[2]]

\* An entry of the kernel's tables that maps a page to the frame of the same
\* number: physical memory that the kernel reads where it lies.
Mirrored(e) == \E page \in Page : /\ e = <<TableOf(kernelDir, page), OffsetOf(page)>>
                                  /\ FrameOf(e) = page

SharedFrame(e1, e2) == e1 # e2 /\ FrameOf(e1) = FrameOf(e2) /\ FrameOf(e1) # 0

\* Between two calls no frame backs two pages, whatever tasks are made, forked
\* and destroyed and however the heaps grow and shrink.  The mirrored pages are
\* excepted: linkFrame takes busy frames ("Allocating busy frame!", paging.c
\* lines 55-59), and so is a pool that has run out (lines 37-46 and 76-80).
FramesExclusive ==
    (job = Idle /\ ~exhausted) =>
        \A e1, e2 \in Entry : SharedFrame(e1, e2) => Mirrored(e1) \/ Mirrored(e2)

\* Between two calls the bitmap and the page tables agree: a frame that backs a
\* page is not free, and no frame is lost when directories are freed (lines
\* 92-100, 270-278, 387-395).  Frame 0 stays taken: its page's entry reads as
\* empty.
FramesAccounted ==
    (job = Idle /\ ~exhausted) =>
        /\ \A e \in Entry : FrameOf(e) # 0 /\ ~Mirrored(e) => FrameOf(e) \in used
        /\ \A f \in used \ {0} : \E e \in Entry : FrameOf(e) = f

\* Between two calls the tables that are allocated are those of the live
\* directories: freeDir frees what cloneDir and getPage made and keeps what
\* cloneDir shared (lines 249-265, 359-395).
NoDanglingTables == job = Idle => Reachable = allocated

\* Between two calls every page of a task's own memory is mapped through a
\* table that no other directory has.  The module_info page is excepted: it
\* lies in the first table, which cloneDir shares.
TaskMemoryIsPrivate ==
    (job = Idle /\ ~exhausted) =>
        \A d \in live \ {kernelDir} :
            \A page \in {TaskPages[k] : k \in 1 .. Len(TaskPages)} :
                IndexOf(page) \notin BootIndex =>
                    /\ FrameAt(d, page) # 0
                    /\ \A other \in live \ {d} : TableOf(d, page) \notin TablesOf(other)

\* Between two calls every page of the kernel's heap, on which handlers run and
\* work whichever directory is in cr3, has a table, and no directory another one
\* in its place: not one that was made or forked before the heap grew, nor after.
\* But a directory that is older than a table lacks it, unless initPaging made it
\* (lines 198-199, 255-262, 372-374; heap.c line 154).
KernelHeapIsNeverDoubled ==
    job = Idle =>
        \A page \in KHEAP_START .. KHEAP_START + heapSize[kernelDir] - 1 :
            /\ TableOf(kernelDir, page) # NoTable
            /\ \A d \in live :
                  \/ TableOf(d, page) = TableOf(kernelDir, page)
                  \/ TableOf(d, page) = NoTable /\ IndexOf(page) \notin BootIndex
=============================================================================
