CONSTANTS
    kernelTask = k
    Task = {k, a, b}
    Semaphore = {s}
    mainQueue = mainQueue
    semaphoreQueue = semaphoreQueue
    InitialValue = {1}
    StackGarbage = {0, 1}
    MaxPID = 4
    MaxSemaphoreID = 1
    MaxCount = 1
SPECIFICATION Spec

INVARIANTS
    TypeOK
    QueuesPartitionTasks
    CurrentTaskIsReady
    BlockedTaskIsNotResumed
PROPERTIES
    EveryTaskRuns
    EveryDeadTaskIsDestroyed
    WaitersAreWoken
