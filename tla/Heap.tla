-------------------------------- MODULE Heap --------------------------------
(***************************************************************************)
(* The allocator of kernel/src/memory_managment/heap.c, which serves the   *)
(* kernel's heap and the heap of every task: chunks with their headers,    *)
(* the list of free chunks, expand and contract.                           *)
(*                                                                         *)
(* Addresses, sizes and headers are those of the code, on a heap of a few  *)
(* small pages.  What a chunk holds beside its header is not modelled; the *)
(* two places where the code uses a word that no call has written are      *)
(* parameters of the call: the flags of a chunk that palignedAlloc cuts    *)
(* out of a block, and the memory past the end of the heap.                *)
(*                                                                         *)
(* A call is one step: it runs with the interrupts disabled, or before     *)
(* the heap has a second user (Boot.tla).                                  *)
(***************************************************************************)
EXTENDS Integers, SequencesExt, FiniteSetsExt

CONSTANTS startAddr, maxAddr, PAGE_SIZE, HEAP_MIN_SIZE,
          Requests,         \* the sizes that malloc is called with
          AlignedRequests,  \* the sizes that are asked for at a page boundary
          StalePinuse,      \* the PINUSE_BIT that palignedAlloc can find
          BeyondEnd,        \* what can lie past the end of the heap
          MaxBlocks         \* bound: no more blocks are held at a time

MIN_CHUNK_SIZE == 16

ASSUME HeapConstants ==
    /\ {PAGE_SIZE, HEAP_MIN_SIZE, startAddr, maxAddr, MaxBlocks} \subseteq Nat
    /\ PAGE_SIZE > MIN_CHUNK_SIZE /\ PAGE_SIZE % 8 = 0
    /\ startAddr % PAGE_SIZE = 0 /\ maxAddr % PAGE_SIZE = 0
    /\ HEAP_MIN_SIZE % PAGE_SIZE = 0 /\ HEAP_MIN_SIZE > 0
    /\ startAddr + HEAP_MIN_SIZE <= maxAddr
    /\ Requests \cup AlignedRequests \subseteq Nat
    /\ StalePinuse \subseteq BOOLEAN
    /\ BeyondEnd \subseteq {"unmapped", "zeros", "ones", "ram"}

VARIABLES heap,    \* Heap_t, the headers of its chunks, and how it came to a stop
          blocks   \* history: the chunks that callers hold, and the size they asked for

vars == <<heap, blocks>>
-----------------------------------------------------------------------------
(* Sizes, headers and the list of free chunks. *)

\* Mutation of request2size: without the word of overhead.
RequestRounded(req) ==
    IF req < MIN_CHUNK_SIZE - 4 - 1 THEN MIN_CHUNK_SIZE ELSE ((req + 7) \div 8) * 8

request2size(req) ==
    IF req < MIN_CHUNK_SIZE - 4 - 1 THEN MIN_CHUNK_SIZE ELSE ((req + 4 + 7) \div 8) * 8

RoundedToPage(size) == ((size + PAGE_SIZE - 1) \div PAGE_SIZE) * PAGE_SIZE

chunk2mem(p) == p + 8

ok_address(h, p) == startAddr <= p /\ p < h.endAddr

chunksize(h, p) == h.chunk[p].size

Stop(h, why) == [h EXCEPT !.state = why]

Running(h) == h.state = "running"

With(h, p, chunk) ==
    [h EXCEPT !.chunk = [q \in DOMAIN @ \cup {p} |-> IF q = p THEN chunk ELSE @[q]]]

\* PINUSE_BIT set and CINUSE_BIT clear: what set_size_and_pinuse makes.
FreeChunk(size) == [size |-> size, pinuse |-> TRUE, cinuse |-> FALSE, prevFoot |-> 0]

\* Mutation of set_inuse: the next chunk is not told.
SetInuseAlone(h, p, size, pinuse, foot, beyond) ==
    With(h, p, [size |-> size, pinuse |-> pinuse, cinuse |-> TRUE, prevFoot |-> foot])

\* set_inuse of a chunk whose PINUSE_BIT and foot are given: it marks the next
\* chunk, too, or the memory past the end of the heap.
set_inuse(h, p, size, pinuse, foot, beyond) ==
    LET g == With(h, p, [size |-> size, pinuse |-> pinuse, cinuse |-> TRUE, prevFoot |-> foot])
    IN  IF p + size < h.endAddr THEN [g EXCEPT !.chunk[p + size].pinuse = TRUE]
        ELSE IF beyond = "unmapped" THEN Stop(g, "page fault")
        ELSE g

\* The first chunk of the list that is large enough; 0 if there is none.
findSmallestChunk(h, size) == SelectInSeq(h.free, LAMBDA p : chunksize(h, p) >= size)

insertChunk(h, p) ==
    LET i == findSmallestChunk(h, chunksize(h, p))
    IN  [h EXCEPT !.free = IF i = 0 THEN Append(@, p) ELSE InsertAt(@, i, p)]

removeChunk(h, p) == [h EXCEPT !.free = RemoveFirst(@, p)]
-----------------------------------------------------------------------------
(* The end of the heap moves by pages. *)

HeapSize(h) == h.endAddr - startAddr

\* A heap that has reached maxAddr ends the system in an assertion.
expand(h, newSize) ==
    IF startAddr + RoundedToPage(newSize) <= maxAddr
    THEN [h EXCEPT !.endAddr = startAddr + RoundedToPage(newSize)]
    ELSE Stop(h, "assertion")

\* What lies past the new end is no chunk any more.
Truncated(h, newSize) ==
    [h EXCEPT !.endAddr = startAddr + newSize,
              !.chunk = [p \in {q \in DOMAIN @ : q < startAddr + newSize} |-> @[p]]]

contract(h, newSize) ==
    IF newSize < HeapSize(h)
    THEN Truncated(h, Max({RoundedToPage(newSize), HEAP_MIN_SIZE}))
    ELSE Stop(h, "assertion")

\* The new pages join the free chunk of the highest address if that is where
\* the heap ended, and are a chunk of their own otherwise.
Topped(h, oldEndAddr) ==
    LET top == Max(ToSet(h.free))
        joined == h.free # <<>> /\ top + chunksize(h, top) = oldEndAddr
        at == IF joined THEN top ELSE oldEndAddr
    IN  IF joined /\ ~h.chunk[top].pinuse /\ h.chunk[top].cinuse
        THEN Stop(h, "(alloc) Memory Corrupt")
        ELSE insertChunk(With(IF joined THEN removeChunk(h, top) ELSE h,
                              at, FreeChunk(h.endAddr - at)), at)
-----------------------------------------------------------------------------
(* alloc, free and palignedAlloc.  A call yields the heap it leaves and, in  *)
(* `at`, the chunk it returns.                                              *)

\* alloc, once there is a chunk that is large enough.  One that leaves less
\* than a chunk is handed out whole.
Carve(h, nb, beyond) ==
    LET hole == h.free[findSmallestChunk(h, nb)]
        rest == chunksize(h, hole) - nb
        cut  == insertChunk(With(removeChunk(h, hole), hole + nb,
                                 [FreeChunk(rest) EXCEPT !.pinuse = FALSE]), hole + nb)
    IN  [at |-> hole,
         heap |-> IF rest >= MIN_CHUNK_SIZE
                  THEN set_inuse(cut, hole, nb, h.chunk[hole].pinuse,
                                 h.chunk[hole].prevFoot, beyond)
                  ELSE set_inuse(removeChunk(h, hole), hole, chunksize(h, hole),
                                 h.chunk[hole].pinuse, h.chunk[hole].prevFoot, beyond)]

Alloc(h, nb, beyond) ==
    LET grown == expand(h, HeapSize(h) + nb)
        ready == IF findSmallestChunk(h, nb) # 0 THEN h
                 ELSE IF Running(grown) THEN Topped(grown, h.endAddr)
                 ELSE grown
    IN  IF Running(ready) THEN Carve(ready, nb, beyond) ELSE [at |-> 0, heap |-> ready]

\* The chunk before the block joins it if the PINUSE_BIT says that it is free;
\* its address is taken from the foot.  If no free chunk of that size is there
\* any more, removeChunk writes through whatever lies there instead of the
\* pointers of the list: the heap ends.
JoinPrevious(h, p) ==
    LET foot == h.chunk[p].prevFoot
        prev == p - foot
    IN  IF ~ok_address(h, prev) THEN Stop(h, "(free) Memory Corrupt")
        ELSE IF ~(prev \in ToSet(h.free) /\ chunksize(h, prev) = foot) THEN Stop(h, "stale foot")
        ELSE With(removeChunk([h EXCEPT !.chunk = [q \in DOMAIN @ \ {p} |-> @[q]]], prev),
                  prev, FreeChunk(foot + chunksize(h, p)))

\* The test whether the next chunk is free is made only when there is none: on
\* the word past the end of the heap.
AfterNext(h, p, beyond) ==
    IF p + chunksize(h, p) < h.endAddr THEN h
    ELSE CASE beyond = "unmapped" -> Stop(h, "page fault")
           [] beyond = "zeros"    -> Stop(h, "(free) Memory Corrupt")
           [] beyond = "ones"     -> h
           [] beyond = "ram"      -> Stop(h, "no chunk")

\* Mutation of GiveBack: the chunk is put in the list as large as it was.
GiveBackWhole(h, p, size) ==
    LET newSize == p - startAddr
        g == contract(h, IF newSize % PAGE_SIZE = 0 THEN newSize ELSE newSize + MIN_CHUNK_SIZE)
    IN  IF ~Running(g) THEN g
        ELSE IF p < g.endAddr THEN insertChunk(With(g, p, FreeChunk(size)), p)
        ELSE g

\* A free chunk at the end of the heap: pages that hold nothing else are
\* unmapped, and what is left of the chunk goes to the list.
GiveBack(h, p, size) ==
    LET newSize == p - startAddr
        g == contract(h, IF newSize % PAGE_SIZE = 0 THEN newSize ELSE newSize + MIN_CHUNK_SIZE)
        left == size - (h.endAddr - g.endAddr)
    IN  IF ~Running(g) THEN g
        ELSE IF left > 0 THEN insertChunk(With(g, p, FreeChunk(left)), p)
        ELSE g

\* set_foot.
WithFoot(h, p, size) == [h EXCEPT !.chunk[p + size].prevFoot = size]

Free(h, block, beyond) ==
    LET size  == chunksize(h, block)
        alone == h.chunk[block].pinuse
        p     == IF alone THEN block ELSE block - h.chunk[block].prevFoot
        g     == IF alone THEN h ELSE JoinPrevious(h, block)
        n     == AfterNext(g, p, beyond)
    IN  IF alone /\ ~h.chunk[block].cinuse THEN Stop(h, "(free) Memory Corrupt")
        ELSE IF ~Running(g) THEN g
        ELSE IF ~Running(n) THEN n
        ELSE IF p + chunksize(g, p) = h.endAddr THEN GiveBack(g, p, chunksize(g, p))
        ELSE insertChunk(WithFoot(With(g, p, FreeChunk(chunksize(g, p))), p, chunksize(g, p)), p)

\* A block that does not start a page is cut: its lead goes to the list.  The
\* new chunk's PINUSE_BIT is whatever bit the memory held there.
CutLead(r, pinuse, beyond) ==
    LET h    == r.heap
        br   == (chunk2mem(r.at) \div PAGE_SIZE + 1) * PAGE_SIZE - 8
        pos  == IF br - r.at >= MIN_CHUNK_SIZE THEN br ELSE br + PAGE_SIZE
        lead == pos - r.at
        g    == set_inuse(h, pos, chunksize(h, r.at) - lead, pinuse, lead, beyond)
    IN  IF ~Running(h) \/ chunk2mem(r.at) % PAGE_SIZE = 0 THEN r
        ELSE IF ~Running(g) THEN [r EXCEPT !.heap = g]
        ELSE [at |-> pos, heap |-> insertChunk(With(g, r.at, FreeChunk(lead)), r.at)]

\* What is left behind the block is freed.
CutRemainder(r, nb, beyond) ==
    LET h    == r.heap
        rest == chunksize(h, r.at) - nb
        tail == [size |-> rest, pinuse |-> TRUE, cinuse |-> TRUE, prevFoot |-> 0]
        g    == set_inuse([With(h, r.at + nb, tail) EXCEPT !.chunk[r.at].size = nb],
                          r.at + nb, rest, TRUE, 0, beyond)
    IN  IF ~Running(h) \/ rest <= MIN_CHUNK_SIZE THEN r
        ELSE [r EXCEPT !.heap = IF Running(g) THEN Free(g, r.at + nb, beyond) ELSE g]

PalignedAlloc(h, nb, pinuse, beyond) ==
    CutRemainder(CutLead(Alloc(h, request2size(nb + PAGE_SIZE + MIN_CHUNK_SIZE - 4), beyond),
                         pinuse, beyond),
                 nb, beyond)
-----------------------------------------------------------------------------
\* createHeap: one free chunk.
Init == /\ heap = [chunk |-> [p \in {startAddr} |-> FreeChunk(HEAP_MIN_SIZE)], free |-> <<startAddr>>,
                   endAddr |-> startAddr + HEAP_MIN_SIZE, state |-> "running"]
        /\ blocks = <<>>

HandsOut(r, req) ==
    /\ heap' = r.heap
    /\ blocks' = IF Running(r.heap)
                 THEN [p \in DOMAIN blocks \cup {r.at} |-> IF p = r.at THEN req ELSE blocks[p]]
                 ELSE blocks

\* kmalloc, user_malloc: heap_malloc without align.
Malloc(req) ==
    /\ Running(heap) /\ Cardinality(DOMAIN blocks) < MaxBlocks
    /\ \E beyond \in BeyondEnd : HandsOut(Alloc(heap, request2size(req), beyond), req)

\* _kmalloc with align: page tables and directories.
MallocAligned(req) ==
    /\ Running(heap) /\ Cardinality(DOMAIN blocks) < MaxBlocks
    /\ \E beyond \in BeyondEnd, pinuse \in StalePinuse :
          HandsOut(PalignedAlloc(heap, request2size(req), pinuse, beyond), req)

\* kfree, user_free: heap_free of a block that its caller holds.
HeapFree(p) ==
    /\ Running(heap)
    /\ \E beyond \in BeyondEnd : heap' = Free(heap, p, beyond)
    /\ blocks' = [q \in DOMAIN blocks \ {p} |-> blocks[q]]

Next == \/ \E req \in Requests : Malloc(req)
        \/ \E req \in AlignedRequests : MallocAligned(req)
        \/ \E p \in DOMAIN blocks : HeapFree(p)

Spec == Init /\ [][Next]_vars
-----------------------------------------------------------------------------
Chunk == [size : Nat, pinuse : BOOLEAN, cinuse : BOOLEAN, prevFoot : Nat]

TypeOK ==
    /\ heap.endAddr \in startAddr + HEAP_MIN_SIZE .. maxAddr
    /\ heap.endAddr % PAGE_SIZE = 0
    /\ \A p \in DOMAIN heap.chunk : ok_address(heap, p) /\ heap.chunk[p] \in Chunk
    /\ ToSet(heap.free) \subseteq DOMAIN heap.chunk
    /\ heap.state \in {"running", "page fault", "assertion", "stale foot", "no chunk",
                       "(alloc) Memory Corrupt", "(free) Memory Corrupt"}
    /\ DOMAIN blocks \subseteq Nat

\* After any sequence of calls the chunks tile the heap: each ends where the
\* next one, or the heap, begins (alloc's split, palignedAlloc's two cuts,
\* free's join, expand and contract).
ChunksTileTheHeap ==
    Running(heap) =>
        /\ startAddr \in DOMAIN heap.chunk
        /\ \A p \in DOMAIN heap.chunk :
              /\ chunksize(heap, p) >= MIN_CHUNK_SIZE
              /\ p + chunksize(heap, p) \in DOMAIN heap.chunk \cup {heap.endAddr}
              /\ \A q \in DOMAIN heap.chunk : q > p => q >= p + chunksize(heap, p)

\* Every chunk is either in the list, once, or held by one caller, who gets as
\* much as he asked for: no memory is lost and none handed out twice.
ChunksAreFreeOrHeld ==
    Running(heap) =>
        /\ IsInjective(heap.free)
        /\ ToSet(heap.free) = {p \in DOMAIN heap.chunk : ~heap.chunk[p].cinuse}
        /\ DOMAIN blocks = {p \in DOMAIN heap.chunk : heap.chunk[p].cinuse}
        /\ \A p \in DOMAIN blocks : chunksize(heap, p) >= blocks[p] + 4

\* A chunk without the PINUSE_BIT comes after a free one: the block before it,
\* whose last word is the foot, is not in anybody's hands.
PinuseTellsTheTruth ==
    Running(heap) =>
        \A p, q \in DOMAIN heap.chunk :
            q + chunksize(heap, q) = p /\ heap.chunk[q].cinuse => heap.chunk[p].pinuse

\* free neither reports that the memory is corrupt ("(free) Memory Corrupt", line
\* 323) nor corrupts it when every block came from the heap and is freed once.
LegalFreesSucceed ==
    heap.state \notin {"(free) Memory Corrupt", "stale foot"}
=============================================================================
