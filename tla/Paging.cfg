SPECIFICATION Spec
CONSTANTS
    PageTable = {t1, t2, t3, t4}
    PageDir = {kernelDir, d1, d2}
    kernelDir = kernelDir
    NoTable = NoTable
    NoHeap = NoHeap
    TABLES_IN_DIR = 4
    PAGES_IN_TABLE = 4
    nframes = 14
    KernelPages = 1
    KHEAP_START = 14
    KHeapMin = 1
    KHeapMax = 2
    HEAP_START = 5
    HeapMin = 1
    HeapMax = 2
    Stack <- TaskStack
    Sections <- TaskSections
    Touched = {1}
SYMMETRY Objects
INVARIANTS
    FramesExclusive FramesAccounted NoDanglingTables
    TaskMemoryIsPrivate
