----------------------------- MODULE BootMemory -----------------------------
(***************************************************************************)
(* Memory before there is a heap: the bump allocator of kheap.c and the    *)
(* mappings that initPaging makes (memory_managment/paging.c).             *)
(*                                                                         *)
(* From 0 up the physical memory holds the first megabyte, the kernel, the *)
(* modules that GRUB loaded, and then what _kmalloc hands out.  A mirrored *)
(* page is mapped to the frame with its own number, which the bitmap then  *)
(* counts as used.                                                         *)
(***************************************************************************)
EXTENDS Integers, FiniteSets

CONSTANTS PAGE_SIZE, PAGES_IN_TABLE,
          KernelStart, KernelEnd,     \* &start and &end
          Section,                    \* the kernel's sections: [addr, size]
          BitmapSize, DirSize, HeapTSize,   \* of frames, PageDir_t and Heap_t
          HeapTables                  \* the tables of the first KHEAP pages

ASSUME BootMemoryConstants ==
    /\ {PAGE_SIZE, PAGES_IN_TABLE} \subseteq Nat \ {0}
    /\ {KernelStart, KernelEnd, BitmapSize, DirSize, HeapTSize} \subseteq Nat
    /\ HeapTables \subseteq Nat /\ IsFiniteSet(HeapTables)

\* A memory: the first free address, the tables of kernelDir, and the pages
\* that are mirrored.
Memory == [placementAddress : Nat, tables : SUBSET Nat, mirrored : SUBSET Nat]

PageOf(address) == address \div PAGE_SIZE

\* _kmalloc without a heap; an aligned allocation starts on the next page even
\* if the address is aligned already.
_kmalloc(m, size) == [m EXCEPT !.placementAddress = @ + size]

kmallocAligned(m, size) ==
    [m EXCEPT !.placementAddress = (PageOf(@) + 1) * PAGE_SIZE + size]

\* getPage for pages of all of these tables: those that are missing take a page
\* each, the first one behind the free address, the others two pages on.
MakeTables(m, indexes) ==
    LET missing == Cardinality(indexes \ m.tables)
    IN  [m EXCEPT !.tables = @ \cup indexes,
                  !.placementAddress =
                      IF missing = 0 THEN @ ELSE (PageOf(@) + 2 * missing) * PAGE_SIZE]

\* Both ends of the range are turned around in their page (^ PAGE_SIZE - 1), so
\* the page after the last one is taken as well when the start was nearer to
\* the end of its page.
PagesFrom(start, end) ==
    LET Turned(address) == PageOf(address) * PAGE_SIZE + PAGE_SIZE - 1 - (address % PAGE_SIZE)
        from == IF start = 0 THEN 0 ELSE Turned(start)
        to   == Turned(end) + PAGE_SIZE
    IN  {page \in PageOf(from) .. PageOf(to) : (from % PAGE_SIZE) + page * PAGE_SIZE < to}

allocFramesMirrored(m, start, end) ==
    LET pages == PagesFrom(start, end)
    IN  [MakeTables(m, {page \div PAGES_IN_TABLE : page \in pages})
            EXCEPT !.mirrored = @ \cup pages]

\* & -(PAGE_SIZE - 1) leaves the lowest bit.
Rounded(address) == PageOf(address) * PAGE_SIZE + (address % 2)

\* The ranges that allocKernelSection maps, for all sections.
SectionPages ==
    UNION {PagesFrom(Rounded(s.addr) - (IF s.addr % PAGE_SIZE # 0 THEN PAGE_SIZE ELSE 0),
                     Rounded(s.addr + s.size)) : s \in Section}

allocKernelSections(m) ==
    [MakeTables(m, {page \div PAGES_IN_TABLE : page \in SectionPages})
        EXCEPT !.mirrored = @ \cup SectionPages]

\* initPaging up to the mapping of the memory that it used itself: the bitmap,
\* the directory, the tables of the heap, Heap_t.
Prepared(placementAddress) ==
    _kmalloc(MakeTables(kmallocAligned(
        _kmalloc([placementAddress |-> placementAddress, tables |-> {}, mirrored |-> {}],
                 BitmapSize), DirSize), HeapTables), HeapTSize)

\* The kernel, with its section table or without.
KernelMapped(m, hasSections) ==
    IF hasSections THEN allocKernelSections(allocFramesMirrored(m, 0, KernelStart))
    ELSE allocFramesMirrored(m, 0, m.placementAddress)

\* Mutation of InitialMemory: the page after the last one is forgotten.
InitialMemoryShort(placementAddress, hasSections) ==
    LET m == KernelMapped(Prepared(placementAddress), hasSections)
    IN  allocFramesMirrored(m, KernelEnd, m.placementAddress)

\* The last mapping starts where the kernel ends and includes the page after
\* the first free address, as it is before the mapping itself needs a table.
InitialMemory(placementAddress, hasSections) ==
    LET m == KernelMapped(Prepared(placementAddress), hasSections)
    IN  allocFramesMirrored(m, KernelEnd, m.placementAddress + PAGE_SIZE)
=============================================================================
