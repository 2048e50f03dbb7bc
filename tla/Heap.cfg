SPECIFICATION Spec
CONSTANTS
    startAddr = 64
    maxAddr = 320
    PAGE_SIZE = 64
    HEAP_MIN_SIZE = 128
    Requests = {30, 84, 92}
    AlignedRequests = {8}
    StalePinuse = {TRUE, FALSE}
    BeyondEnd = {"unmapped", "zeros", "ones", "ram"}
    MaxBlocks = 3
INVARIANTS
    ChunksTileTheHeap ChunksAreFreeOrHeld PinuseTellsTheTruth
CHECK_DEADLOCK FALSE
