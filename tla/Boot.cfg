SPECIFICATION BootSpec
SYMMETRY Symmetry
CONSTANTS
    Task = {k, t, u}
    kernelTask = k
    Irq = {32, 33}
    Exception = {13, 14}
    MaxDepth = 2
    MaxSections = 2
    SCREEN_WIDTH = 1
    SCREEN_HEIGHT = 1
    Text <- MCText
    AddressSpace = 256
    LowSymbols <- MCLowSymbols
    PAGE_SIZE = 8
    PAGES_IN_TABLE = 8
    KernelStart = 16
    KernelEnd = 32
    Section <- MCSection
    BitmapSize = 3
    DirSize = 17
    HeapTSize = 3
    HeapTables = {24}
    BIOS32Area <- MCBIOS32Area
    ACPIArea <- MCACPIArea
    ModuleList <- MCModuleList
    ModuleFile <- MCModuleFile
    ModuleEnd = {37, 56, 63, 90}
    KernelFile <- MCKernelFile
    TraceAddress = {17, 24, 39, 70, 200}
INVARIANTS
    EnabledOutside ContextIsMine DirectoryFollowsTask
    HandlersFindTheirState ProgramsComeLater
    BootMemoryIsReserved TablesAreFound TraceNamesTheFunction
PROPERTIES
    StopIsFinal
CHECK_DEADLOCK FALSE
