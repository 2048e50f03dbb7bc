----------------------------- MODULE Scheduler -----------------------------
(***************************************************************************)
(* The multitasking core: the round-robin scheduler of                     *)
(* kernel/src/multitasking/task.c, the semaphores of semaphore.c, the      *)
(* system calls that reach them (syscall.c) and the timer interrupt        *)
(* (systimer.c).                                                           *)
(*                                                                         *)
(* One processor runs either a task (phase = "task") or a handler, with    *)
(* the interrupts disabled, on the interrupt frame of that task.  A        *)
(* handler that switches tasks takes several steps: one per semaphore that *)
(* semctl_process visits, one per task that the walk of switchTask visits. *)
(* The system starts when initTasking returns, in kernel_main.             *)
(***************************************************************************)
EXTENDS LinkedListOps

CONSTANTS Task,             \* the Task_t objects that kmalloc can return
          kernelTask,       \* the task that runs kernel_main
          Semaphore,        \* the semaphore_t objects that kmalloc can return
          mainQueue,        \* the list head in mainQueue
          semaphoreQueue,   \* the list head in semaphoreQueue
          InitialValue,     \* the values the programs give SEMAPHORE_INIT
          StackGarbage,     \* what the uninitialised initial_value can hold
          MaxPID,           \* bound: no more tasks are started than that
          MaxSemaphoreID,   \* bound: no more semaphores are made than that
          MaxCount          \* bound: no signal raises a count above that

ASSUME NodesDiffer ==
    /\ kernelTask \in Task
    /\ Task \cap Semaphore = {}
    /\ mainQueue \notin Task \cup Semaphore
    /\ semaphoreQueue \notin Task \cup Semaphore

ASSUME NumbersAssumption ==
    /\ InitialValue \subseteq Nat /\ StackGarbage \subseteq Nat
    /\ MaxPID \in Nat \ {0} /\ MaxSemaphoreID \in Nat /\ MaxCount \in Nat

\* TS_STOPPED and TS_FINISHED are never assigned.  "FREE" is memory that
\* holds no task.
Status == {"FREE", "CREATED", "IDLE", "RUNNING", "YIELD", "ZOMBIE"}

\* Of CPURegisters_t: eax, by what it holds (what the program put there or was
\* returned; the number of the system call the task is in; the 0 that fork
\* returns in a child and yield everywhere; the positive pid that fork returns
\* in a parent, or the id that a call of SEMAPHORE_WAIT returns), and whether
\* ecx holds 0xFE11DEAD, which start puts there when main returns.
Registers == [eax : {"program", "number", "zero", "positive"}, dead : BOOLEAN]

FreshRegisters == [eax |-> "program", dead |-> FALSE]

VARIABLES status,        \* Task_t.status
          id,            \* Task_t.id
          regs,          \* Task_t.regs, saved when the task was switched from
          currentTask,
          nextPID,
          taskLinks,     \* Task_t.list, mainQueue.head and, under the name of
                         \* the semaphore, semaphore_t.queue.head
          semLinks,      \* semaphore_t.list and semaphoreQueue.head
          semaphore,     \* the other fields of semaphore_t; id 0: not allocated
          nextSemaphoreID,
          frame,         \* the processor's registers, or the interrupt frame
          phase,         \* what runs: "task", "semaphores", "walk", "resume"
          iter,          \* the loop variable of the handler
          caller         \* who called switchTask: the timer, yield, or semctl

taskVars == <<status, id, regs, nextPID, taskLinks>>
semVars  == <<semLinks, semaphore, nextSemaphoreID>>
handlerVars == <<phase, iter, caller>>
vars == <<taskVars, semVars, handlerVars, currentTask, frame>>

TaskNode == Task \cup Semaphore \cup {mainQueue}
SemNode  == Semaphore \cup {semaphoreQueue}

Caller == [op : {"timer", "yield"}]
            \cup [op : {"wait"}, task : Task, semaphore : Semaphore]

Init == /\ status = [t \in Task |-> IF t = kernelTask THEN "IDLE" ELSE "FREE"]
        /\ id = [t \in Task |-> 0]
        /\ regs = [t \in Task |-> FreshRegisters]
        /\ currentTask = kernelTask
        /\ nextPID = 1
        /\ taskLinks = list_add_tail(InitialLinks(TaskNode), kernelTask, mainQueue)
        /\ semLinks = InitialLinks(SemNode)
        /\ semaphore = [s \in Semaphore |-> [id |-> 0, initial_value |-> 0, count |-> 0]]
        /\ nextSemaphoreID = 1
        /\ frame = FreshRegisters
        /\ phase = "task"
        /\ iter = semaphoreQueue
        /\ caller = [op |-> "timer"]
-----------------------------------------------------------------------------
(* Tasks are made by kernel_main and by fork. *)

\* runTask: the tail of the main queue and the next process id.
Start(t) == /\ nextPID < MaxPID
            /\ status' = [status EXCEPT ![t] = "IDLE"]
            /\ id' = [id EXCEPT ![t] = nextPID]
            /\ nextPID' = nextPID + 1
            /\ taskLinks' = list_add_tail(taskLinks, t, mainQueue)

RunsKernel == phase = "task" /\ currentTask = kernelTask

\* makeTaskFromELF, from kernel_main.
MakeTask(t) == /\ RunsKernel
               /\ status[t] = "FREE"
               /\ status' = [status EXCEPT ![t] = "CREATED"]
               /\ id' = [id EXCEPT ![t] = 0]
               /\ regs' = [regs EXCEPT ![t] = FreshRegisters]
               /\ UNCHANGED <<nextPID, taskLinks, currentTask, frame, semVars, handlerVars>>

RunTask(t) == /\ RunsKernel
              /\ status[t] = "CREATED"
              /\ Start(t)
              /\ UNCHANGED <<regs, currentTask, frame, semVars, handlerVars>>
-----------------------------------------------------------------------------
(* Programs and system calls. *)

RunsProgram == phase = "task" /\ ~frame.dead

\* kernel_main makes no system call.
RunsUser == RunsProgram /\ currentTask # kernelTask

InCall == [frame EXCEPT !.eax = "number"]

\* SysCallHandler stores what the call returned in the interrupt frame.
Returns == frame' = [frame EXCEPT !.eax = "program"]

\* The program computes something in eax.
Compute == /\ RunsProgram
           /\ frame' = [frame EXCEPT !.eax = "program"]
           /\ UNCHANGED <<taskVars, currentTask, semVars, handlerVars>>

\* main has returned: its value is in eax, start puts the magic number in ecx
\* and spins.
Exit == /\ RunsUser
        /\ frame' = [eax |-> "program", dead |-> TRUE]
        /\ UNCHANGED <<taskVars, currentTask, semVars, handlerVars>>

\* getPID and the other calls that change no task and no semaphore, and the
\* error returns of semctl: no such semaphore, no args, no such command.
SimpleCall == /\ RunsUser
              /\ Returns
              /\ UNCHANGED <<taskVars, currentTask, semVars, handlerVars>>

Fork(t) == /\ RunsUser
           /\ status[t] = "FREE"
           /\ Start(t)
           /\ regs' = [regs EXCEPT ![t] = [frame EXCEPT !.eax = "zero"]]
           /\ frame' = [frame EXCEPT !.eax = "positive"]
           /\ UNCHANGED <<currentTask, semVars, handlerVars>>

\* Mutation of BeginSwitch: no semctl_process.
SwitchWithoutWaking(c, saved) ==
    /\ regs' = [regs EXCEPT ![currentTask] = saved]
    /\ frame' = saved
    /\ phase' = "semaphores"
    /\ iter' = semaphoreQueue
    /\ caller' = c

\* switchTask, up to the loop of semctl_process.
BeginSwitch(c, saved) ==
    /\ regs' = [regs EXCEPT ![currentTask] = saved]
    /\ frame' = saved
    /\ phase' = "semaphores"
    /\ iter' = semLinks.next[semaphoreQueue]
    /\ caller' = c

Timer == /\ phase = "task"
         /\ BeginSwitch([op |-> "timer"], frame)
         /\ UNCHANGED <<status, id, nextPID, taskLinks, currentTask, semVars>>

Yield == /\ RunsUser
         /\ status' = [status EXCEPT ![currentTask] = "YIELD"]
         /\ BeginSwitch([op |-> "yield"], InCall)
         /\ UNCHANGED <<id, nextPID, taskLinks, currentTask, semVars>>

SemInit(s, n) ==
    /\ RunsUser
    /\ semaphore[s].id = 0
    /\ nextSemaphoreID <= MaxSemaphoreID
    /\ semaphore' = [semaphore EXCEPT
                        ![s] = [id |-> nextSemaphoreID, initial_value |-> n, count |-> n]]
    /\ nextSemaphoreID' = nextSemaphoreID + 1
    /\ semLinks' = list_add_tail(semLinks, s, semaphoreQueue)
    /\ taskLinks' = INIT_LIST_HEAD(taskLinks, s)
    /\ Returns
    /\ UNCHANGED <<status, id, regs, nextPID, currentTask, handlerVars>>

\* The calls below found the semaphore of the id they were given.
OnSemaphore(s) == RunsUser /\ semaphore[s].id # 0

\* Mutation of SemSignal: the comparison is the wrong way round.
SemSignalAbove(s) ==
    /\ OnSemaphore(s)
    /\ \E initial_value \in StackGarbage :
          semaphore' = IF semaphore[s].count > initial_value
                       THEN [semaphore EXCEPT ![s].count = @ + 1]
                       ELSE semaphore
    /\ semaphore'[s].count <= MaxCount
    /\ Returns
    /\ UNCHANGED <<taskVars, semLinks, nextSemaphoreID, currentTask, handlerVars>>

\* The count is compared with initial_value, a local variable that only
\* SEMAPHORE_INIT assigns.
SemSignal(s) ==
    /\ OnSemaphore(s)
    /\ \E initial_value \in StackGarbage :
          semaphore' = IF semaphore[s].count < initial_value
                       THEN [semaphore EXCEPT ![s].count = @ + 1]
                       ELSE semaphore
    /\ semaphore'[s].count <= MaxCount
    /\ Returns
    /\ UNCHANGED <<taskVars, semLinks, nextSemaphoreID, currentTask, handlerVars>>

\* Mutation of SemPass: the count is not tested first.
SemPassAnyway(s) ==
    /\ OnSemaphore(s)
    /\ semaphore' = [semaphore EXCEPT ![s].count = @ - 1]
    /\ Returns
    /\ UNCHANGED <<taskVars, semLinks, nextSemaphoreID, currentTask, handlerVars>>

SemPass(s) ==
    /\ OnSemaphore(s)
    /\ semaphore[s].count > 0
    /\ semaphore' = [semaphore EXCEPT ![s].count = @ - 1]
    /\ Returns
    /\ UNCHANGED <<taskVars, semLinks, nextSemaphoreID, currentTask, handlerVars>>

\* Mutation of SemBlock: the task gives up the processor before it switches.
SemBlockIdle(s) ==
    /\ OnSemaphore(s)
    /\ semaphore[s].count = 0
    /\ status' = [status EXCEPT ![currentTask] = "IDLE"]
    /\ BeginSwitch([op |-> "wait", task |-> currentTask, semaphore |-> s], InCall)
    /\ UNCHANGED <<id, nextPID, taskLinks, currentTask, semVars>>

\* The task is moved to the semaphore's queue when switchTask returns.
SemBlock(s) ==
    /\ OnSemaphore(s)
    /\ semaphore[s].count = 0
    /\ BeginSwitch([op |-> "wait", task |-> currentTask, semaphore |-> s], InCall)
    /\ UNCHANGED <<status, id, nextPID, taskLinks, currentTask, semVars>>

SemFree(s) ==
    /\ OnSemaphore(s)
    /\ semaphore[s].count = semaphore[s].initial_value
    /\ list_empty(taskLinks, s)
    /\ semLinks' = list_del_entry(semLinks, s)
    /\ semaphore' = [semaphore EXCEPT ![s] = [id |-> 0, initial_value |-> 0, count |-> 0]]
    /\ Returns
    /\ UNCHANGED <<taskVars, nextSemaphoreID, currentTask, handlerVars>>
-----------------------------------------------------------------------------
(* The rest of switchTask, one visit at a time. *)

AtSemaphore == phase = "semaphores" /\ iter # semaphoreQueue

\* Mutation of CanWake: the count is not looked at.
HasWaiter(s) == ~list_empty(taskLinks, s)

CanWake(s) == semaphore[s].count > 0 /\ ~list_empty(taskLinks, s)

\* semctl_process takes one task off the queue of each semaphore.
Wake == /\ AtSemaphore
        /\ CanWake(iter)
        /\ semaphore' = [semaphore EXCEPT ![iter].count = @ - 1]
        /\ taskLinks' = list_move_tail(taskLinks, taskLinks.next[iter], mainQueue)
        /\ iter' = semLinks.next[iter]
        /\ UNCHANGED <<status, id, regs, nextPID, currentTask, frame, semLinks,
                       nextSemaphoreID, phase, caller>>

SkipSemaphore == /\ AtSemaphore
                 /\ ~CanWake(iter)
                 /\ iter' = semLinks.next[iter]
                 /\ UNCHANGED <<taskVars, semVars, currentTask, frame, phase, caller>>

\* list_pass_entry: the next task of the main queue, past its head.
Following(L, n) == IF L.next[n] = mainQueue THEN L.next[mainQueue] ELSE L.next[n]

BeginWalk == /\ phase = "semaphores"
             /\ iter = semaphoreQueue
             /\ phase' = "walk"
             /\ iter' = Following(taskLinks, currentTask)
             /\ UNCHANGED <<taskVars, semVars, currentTask, frame, caller>>

\* The main queue always holds kernelTask, so list_for_each_forever never
\* ends by its own condition.
Visits(st) == phase = "walk" /\ status[iter] = st

\* Mutation of Preempt: the task stays as it was.
PassRunning == /\ Visits("RUNNING") \/ Visits("YIELD")
               /\ ~regs[iter].dead
               /\ iter' = Following(taskLinks, iter)
               /\ UNCHANGED <<taskVars, semVars, currentTask, frame, phase, caller>>

\* A task that was running is only made idle, so that others come first.
Preempt == /\ Visits("RUNNING") \/ Visits("YIELD")
           /\ ~regs[iter].dead
           /\ status' = [status EXCEPT ![iter] = "IDLE"]
           /\ iter' = Following(taskLinks, iter)
           /\ UNCHANGED <<id, regs, nextPID, taskLinks, semVars, currentTask, frame, phase, caller>>

\* Mutation of Bury: the dead task is made idle like any other.
Forget == /\ Visits("RUNNING") \/ Visits("YIELD")
          /\ regs[iter].dead
          /\ status' = [status EXCEPT ![iter] = "IDLE"]
          /\ regs' = [regs EXCEPT ![iter].dead = FALSE]
          /\ iter' = Following(taskLinks, iter)
          /\ UNCHANGED <<id, nextPID, taskLinks, semVars, currentTask, frame, phase, caller>>

\* The task has returned from main: ecx holds the magic number.
Bury == /\ Visits("RUNNING") \/ Visits("YIELD")
        /\ regs[iter].dead
        /\ status' = [status EXCEPT ![iter] = "ZOMBIE"]
        /\ regs' = [regs EXCEPT ![iter].dead = FALSE]
        /\ iter' = Following(taskLinks, iter)
        /\ UNCHANGED <<id, nextPID, taskLinks, semVars, currentTask, frame, phase, caller>>

\* destroyTask; the walk then reads the list pointers of the freed task.
Destroy == /\ Visits("ZOMBIE")
           /\ iter # kernelTask
           /\ status' = [status EXCEPT ![iter] = "FREE"]
           /\ taskLinks' = list_del_entry(taskLinks, iter)
           /\ iter' = Following(taskLinks', iter)
           /\ UNCHANGED <<id, regs, nextPID, semVars, currentTask, frame, phase, caller>>

Choose == /\ Visits("IDLE")
          /\ status' = [status EXCEPT ![iter] = "RUNNING"]
          /\ currentTask' = iter
          /\ phase' = "resume"
          /\ UNCHANGED <<id, regs, nextPID, taskLinks, semVars, frame, iter, caller>>

ToTask == /\ phase' = "task"
          /\ iter' = semaphoreQueue
          /\ caller' = [op |-> "timer"]

\* switchTask copies the registers of the task it chose over the frame ...
ResumeFromTimer == /\ phase = "resume"
                   /\ caller.op = "timer"
                   /\ frame' = regs[currentTask]
                   /\ ToTask
                   /\ UNCHANGED <<taskVars, semVars, currentTask>>

\* ... and a system call then stores its own return value in that frame: yield,
\* which is void, the 0 that is in eax by then ...
ResumeFromYield == /\ phase = "resume"
                   /\ caller.op = "yield"
                   /\ frame' = [regs[currentTask] EXCEPT !.eax = "zero"]
                   /\ ToTask
                   /\ UNCHANGED <<taskVars, semVars, currentTask>>

\* Mutation of ResumeFromWait: semctl moves the task that is current by then.
MoveTheWrongTask ==
    /\ phase = "resume"
    /\ caller.op = "wait"
    /\ taskLinks' = list_move(taskLinks, currentTask, caller.semaphore)
    /\ frame' = [regs[currentTask] EXCEPT !.eax = "positive"]
    /\ ToTask
    /\ UNCHANGED <<status, id, regs, nextPID, semVars, currentTask>>

\* ... and semctl the id of the semaphore.
ResumeFromWait == /\ phase = "resume"
                  /\ caller.op = "wait"
                  /\ taskLinks' = list_move(taskLinks, caller.task, caller.semaphore)
                  /\ frame' = [regs[currentTask] EXCEPT !.eax = "positive"]
                  /\ ToTask
                  /\ UNCHANGED <<status, id, regs, nextPID, semVars, currentTask>>
-----------------------------------------------------------------------------
Program == \/ Compute \/ Exit \/ SimpleCall \/ Yield
           \/ \E t \in Task : MakeTask(t) \/ RunTask(t) \/ Fork(t)
           \/ \E s \in Semaphore :
                 \/ \E n \in InitialValue : SemInit(s, n)
                 \/ SemSignal(s) \/ SemPass(s) \/ SemBlock(s) \/ SemFree(s)

Walk == Preempt \/ Bury \/ Destroy \/ Choose

Handler == \/ Wake \/ SkipSemaphore \/ BeginWalk
           \/ Walk
           \/ ResumeFromTimer \/ ResumeFromYield \/ ResumeFromWait

Next == Program \/ Timer \/ Handler

\* The processor always goes on with a handler, and the timer never stops: a
\* task runs with the interrupts enabled.  Nothing makes a program do anything.
Fairness == WF_vars(Handler) /\ WF_vars(Timer)

Spec == Init /\ [][Next]_vars /\ Fairness
-----------------------------------------------------------------------------
TypeOK == /\ status \in [Task -> Status]
          /\ id \in [Task -> 0 .. MaxPID]
          /\ regs \in [Task -> Registers]
          /\ currentTask \in Task
          /\ nextPID \in 1 .. MaxPID
          /\ taskLinks \in Links(TaskNode)
          /\ semLinks \in Links(SemNode)
          /\ semaphore \in [Semaphore -> [id : Nat, initial_value : Nat, count : Nat]]
          /\ nextSemaphoreID \in 1 .. MaxSemaphoreID + 1
          /\ frame \in Registers
          /\ phase \in {"task", "semaphores", "walk", "resume"}
          /\ iter \in Task \cup SemNode
          /\ caller \in Caller

Allocated == {s \in Semaphore : semaphore[s].id # 0}
Live      == {t \in Task : status[t] \notin {"FREE", "CREATED"}}

\* Neither a timer tick, nor a call, nor the visits of a handler lose a task
\* or put it in two queues: every started task that was not destroyed is in
\* the main queue or waits for exactly one semaphore, which still exists
\* (task.c lines 210, 227; semaphore.c lines 27, 95).
QueuesPartitionTasks ==
    LET queues == {mainQueue} \cup Allocated
    IN  /\ Consistent(taskLinks, queues \cup Live)
        /\ \A t \in Live : \E q \in queues :
              \A r \in queues : InList(taskLinks, r, t) <=> r = q
        /\ \A t \in Task \ Live, q \in queues : ~InList(taskLinks, q, t)

\* The task whose registers, stack and page directory the processor uses is
\* never destroyed under it, although the walk destroys tasks while it looks
\* for the next one, and it is never one that waits for a semaphore or that
\* has been found dead (task.c lines 60-107).
CurrentTaskIsReady ==
    /\ InList(taskLinks, mainQueue, currentTask)
    /\ phase \in {"task", "resume"} =>
          \/ status[currentTask] = "RUNNING"
          \/ currentTask = kernelTask /\ status[currentTask] = "IDLE"

\* semctl moves a blocked task to the semaphore's queue only after switchTask
\* has returned (semaphore.c lines 93-95): until then it is still in the main
\* queue, yet the walk does not destroy it and never chooses it again.
BlockedTaskIsNotResumed ==
    caller.op = "wait" =>
        /\ InList(taskLinks, mainQueue, caller.task)
        /\ phase = "resume" => currentTask # caller.task

\* Switching tasks leaves the task that gets the processor with the registers
\* it was interrupted with.
ResumesWithItsRegisters ==
    [][phase = "resume" => frame' = regs[currentTask]]_vars

\* A task in the main queue gets the processor, whatever the other tasks do,
\* unless it has returned from main (task.c lines 65-104).
EveryTaskRuns ==
    \A t \in Task :
        (phase = "task" /\ InList(taskLinks, mainQueue, t))
            ~> (phase = "task" /\ currentTask = t) \/ status[t] = "FREE"

\* A task that returned from main is destroyed (README.md line 57).
EveryDeadTaskIsDestroyed ==
    \A t \in Task : (phase = "task" /\ currentTask = t /\ frame.dead) ~> (status[t] = "FREE")

\* A semaphore that can be taken does not keep its waiters: no wakeup is lost
\* (semaphore.c lines 12-30).
WaitersAreWoken ==
    \A s \in Semaphore : CanWake(s) ~> ~CanWake(s)
=============================================================================
