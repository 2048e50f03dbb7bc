SPECIFICATION Spec
CONSTANTS
    PageTable = {t1, t2, t3, t4, t5, t6}
    PageDir = {kernelDir, d1, d2}
    kernelDir = kernelDir
    NoTable = NoTable
    NoHeap = NoHeap
    TABLES_IN_DIR = 4
    PAGES_IN_TABLE = 4
    nframes = 11
    KernelPages = 1
    KHEAP_START = 11
    KHeapMin = 1
    KHeapMax = 2
    HEAP_START = 5
    HeapMin = 1
    HeapMax = 1
    Stack <- TaskStack
    Sections <- TaskSections
    Touched = {}
SYMMETRY Objects
INVARIANTS
    KernelHeapIsNeverDoubled
