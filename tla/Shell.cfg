CONSTANTS
    kernelTask = k
    Task = {k, a, b}
    Semaphore = {s}
    mainQueue = mainQueue
    semaphoreQueue = semaphoreQueue
    InitialValue = {1}
    StackGarbage = {1, 2}
    MaxPID = 4
    MaxSemaphoreID = 1
    MaxCount = 2
    Delay = 1
SPECIFICATION ShellSpec
INVARIANTS
    MutualExclusion
    OneShellReads
PROPERTIES
    MutexIsHandedOn
