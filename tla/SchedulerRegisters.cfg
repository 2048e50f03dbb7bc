CONSTANTS
    kernelTask = k
    Task = {k, a, b}
    Semaphore = {s}
    mainQueue = mainQueue
    semaphoreQueue = semaphoreQueue
    InitialValue = {1}
    StackGarbage = {0, 1, 2}
    MaxPID = 4
    MaxSemaphoreID = 2
    MaxCount = 2
SPECIFICATION Spec
PROPERTIES
    ResumesWithItsRegisters
