-------------------------- MODULE SchedulerProofs --------------------------
(***************************************************************************)
(* The scheduler and the semaphores keep every task in exactly one queue   *)
(* and never destroy or resume the wrong one, for any number of tasks and  *)
(* semaphores.  The inductive invariant says, besides what the properties  *)
(* say, where the walk of switchTask may be: kernelTask is in the main     *)
(* queue and is made idle when the walk passes it, so that the walk ends   *)
(* there at the latest, before it comes to the interrupted task again.     *)
(* The shells are programs of this scheduler, and the second part is about *)
(* the mutex they share: who holds it, and who reads the keyboard.         *)
(***************************************************************************)
EXTENDS Shell, LinkedListLemmas, FiniteSetTheorems

Heads == {mainQueue} \cup Allocated

Ready(t) == InList(taskLinks, mainQueue, t)

\* Every started task is in one queue; the ids of semaphoreQueue are those of
\* the semaphores that exist.
QueuesInv == /\ Partitioned(taskLinks, Heads, Live)
             /\ Consistent(semLinks, {semaphoreQueue} \cup Allocated)

\* kernel_main never blocks, yields or returns.
KernelInv == /\ Ready(kernelTask)
             /\ status[kernelTask] \in {"IDLE", "RUNNING"}
             /\ ~regs[kernelTask].dead
             /\ phase = "task" /\ currentTask = kernelTask => ~frame.dead

CurrentInv == /\ Ready(currentTask)
              /\ phase \in {"task", "resume"} =>
                    status[currentTask] = "RUNNING" \/ currentTask = kernelTask
              /\ phase = "semaphores" =>
                    status[currentTask] \in {"RUNNING", "YIELD"} \/ currentTask = kernelTask

IterInv == /\ phase = "semaphores" => iter \in {semaphoreQueue} \cup Allocated
           /\ phase = "walk" => iter \in Task /\ Ready(iter)

\* The task that calls SEMAPHORE_WAIT stays in the main queue until switchTask
\* has returned.
CallerInv == caller.op = "wait" =>
                 /\ phase # "task"
                 /\ caller.semaphore \in Allocated
                 /\ caller.task # kernelTask
                 /\ Ready(caller.task)
                 /\ phase \in {"semaphores", "walk"} => caller.task = currentTask
                 /\ phase = "resume" => caller.task # currentTask

\* The interrupted task was not passed yet, or else the walk comes to
\* kernelTask before it comes back to it; and kernelTask is idle by then.
WalkInv == phase = "walk" /\ currentTask # kernelTask =>
               /\ \/ status[kernelTask] = "IDLE"
                  \/ status[currentTask] \in {"RUNNING", "YIELD"}
               /\ \/ /\ status[kernelTask] = "IDLE"
                     /\ status[currentTask] \in {"RUNNING", "YIELD"}
                  \/ Before(taskLinks, iter, kernelTask, currentTask)

IInv == TypeOK /\ QueuesInv /\ KernelInv /\ CurrentInv /\ IterInv /\ CallerInv /\ WalkInv
-----------------------------------------------------------------------------
(* Type correctness. *)

\* The heads of queues and the tasks in them are nodes, and differ.
LEMMA NodesFacts ==
    ASSUME TypeOK
    PROVE  /\ taskLinks \in Links(TaskNode) /\ semLinks \in Links(SemNode)
           /\ Heads \in SUBSET TaskNode /\ Live \in SUBSET TaskNode
           /\ Heads \cap Task = {} /\ Live \subseteq Task
           /\ mainQueue \in Heads /\ Allocated \subseteq Semaphore
           /\ kernelTask \in Task
  BY NodesDiffer DEF TypeOK, Heads, Live, Allocated, TaskNode

\* In a main queue that holds kernelTask, the walk goes from task to task.
LEMMA FollowingReaches ==
    ASSUME NEW Node, NEW H \in SUBSET Node, NEW E \in SUBSET Node, NEW L \in Links(Node),
           Partitioned(L, H, E), mainQueue \in H,
           NEW k \in E \ H, Reaches(L, mainQueue, k)
    PROVE  /\ L.next[mainQueue] \in E /\ Reaches(L, mainQueue, L.next[mainQueue])
           /\ \A n \in Node : Reaches(L, mainQueue, n) /\ L.next[n] # mainQueue
                 => L.next[n] \in E /\ Reaches(L, mainQueue, L.next[n])
  <1>1. \A n \in Node : Reaches(L, mainQueue, n) => Reaches(L, mainQueue, L.next[n])
    BY ReachesFacts
  <1>2. \A n : Reaches(L, mainQueue, n) => n = mainQueue \/ n \in E
    BY OneListEach
  <1>3. L.next[mainQueue] # mainQueue
    <2> SUFFICES ASSUME L.next[mainQueue] = mainQueue
                 PROVE  FALSE
      OBVIOUS
    <2>1. Closed(L, {mainQueue}) /\ {mainQueue} \in SUBSET Node /\ k # mainQueue
      BY DEF Closed
    <2> QED
      BY <2>1, ReachesFacts
  <1>4. Reaches(L, mainQueue, mainQueue)
    BY ReachesFacts
  <1> QED
    BY <1>1, <1>2, <1>3, <1>4

\* The task that the walk visits next is a started task of the main queue.
LEMMA FollowingReady ==
    ASSUME TypeOK, QueuesInv, Ready(kernelTask), NEW t \in Task, Ready(t)
    PROVE  /\ Following(taskLinks, t) \in Task
           /\ Ready(Following(taskLinks, t))
  <1>1. kernelTask \in Live
    BY NodesFacts, OneListEach DEF Ready, InList, QueuesInv
  <1>2. Partitioned(taskLinks, Heads, Live)
    BY DEF QueuesInv
  <1>3. /\ taskLinks.next[mainQueue] \in Live
        /\ Reaches(taskLinks, mainQueue, taskLinks.next[mainQueue])
        /\ taskLinks.next[t] # mainQueue
              => taskLinks.next[t] \in Live /\ Reaches(taskLinks, mainQueue, taskLinks.next[t])
    <2>1. kernelTask \in Live \ Heads /\ t \in TaskNode
      BY <1>1, NodesFacts DEF TaskNode
    <2> QED
      BY <1>2, <2>1, NodesFacts, FollowingReaches DEF Ready, InList
  <1> QED
    BY <1>3, NodesFacts DEF Following, Ready, InList

\* The operations on links keep their type, whatever list the nodes are in.
LEMMA LinksType ==
    ASSUME NEW Node, NEW L \in Links(Node), NEW e \in Node, NEW h \in Node
    PROVE  /\ list_add_tail(L, e, h) \in Links(Node)
           /\ list_del_entry(L, e) \in Links(Node)
           /\ list_move(L, e, h) \in Links(Node)
           /\ list_move_tail(L, e, h) \in Links(Node)
           /\ INIT_LIST_HEAD(L, e) \in Links(Node)
  <1>1. \A M \in Links(Node) : /\ list_add_tail(M, e, h) \in Links(Node)
                               /\ list_add(M, e, h) \in Links(Node)
    BY DEF Links, list_add_tail, list_add, InsertBetween
  <1>2. list_del_entry(L, e) \in Links(Node) /\ INIT_LIST_HEAD(L, e) \in Links(Node)
    BY DEF Links, list_del_entry, Join, INIT_LIST_HEAD
  <1> QED
    BY <1>1, <1>2 DEF list_move, list_move_tail

LEMMA InitType == Init => TypeOK
  <1> SUFFICES ASSUME Init
               PROVE  TypeOK
    OBVIOUS
  <1>1. kernelTask \in TaskNode /\ mainQueue \in TaskNode
    BY NodesDiffer DEF TaskNode
  <1>2. InitialLinks(TaskNode) \in Links(TaskNode) /\ InitialLinks(SemNode) \in Links(SemNode)
    BY DEF InitialLinks, Links
  <1>3. taskLinks \in Links(TaskNode) /\ semLinks \in Links(SemNode)
    BY <1>1, <1>2, LinksType DEF Init
  <1>4. /\ FreshRegisters \in Registers
        /\ status \in [Task -> Status] /\ id \in [Task -> 0 .. MaxPID]
    BY NumbersAssumption DEF Init, FreshRegisters, Registers, Status
  <1>5. /\ regs \in [Task -> Registers] /\ currentTask \in Task
        /\ nextPID \in 1 .. MaxPID /\ nextSemaphoreID \in 1 .. MaxSemaphoreID + 1
        /\ semaphore \in [Semaphore -> [id : Nat, initial_value : Nat, count : Nat]]
    BY <1>4, NodesDiffer, NumbersAssumption DEF Init
  <1>6. iter \in Task \cup SemNode /\ caller \in Caller /\ frame \in Registers
    BY <1>4 DEF Init, SemNode, Caller
  <1>7. phase \in {"task", "semaphores", "walk", "resume"}
    BY DEF Init
  <1> QED
    BY <1>3, <1>4, <1>5, <1>6, <1>7 DEF TypeOK

\* What the programs and the system calls do keeps the types.
LEMMA ProgramType ==
    ASSUME TypeOK, Program \/ Timer
    PROVE  TypeOK'
  <1> USE DEF TypeOK, taskVars, semVars, handlerVars
  <1>1. CASE Compute
    BY <1>1 DEF Compute, Registers
  <1>2. CASE Exit
    BY <1>2 DEF Exit, Registers
  <1>3. CASE SimpleCall
    BY <1>3 DEF SimpleCall, Returns, Registers
  <1>4. ASSUME NEW c \in Caller, NEW saved \in Registers, BeginSwitch(c, saved)
        PROVE  /\ regs' \in [Task -> Registers] /\ frame' \in Registers
               /\ phase' \in {"task", "semaphores", "walk", "resume"}
               /\ iter' \in Task \cup SemNode /\ caller' \in Caller
    BY <1>4 DEF BeginSwitch, Links, SemNode
  <1>5. InCall \in Registers
    BY DEF InCall, Registers
  <1>6. CASE Yield
    <2>1. [op |-> "yield"] \in Caller
      BY DEF Caller
    <2>2. BeginSwitch([op |-> "yield"], InCall)
      BY <1>6 DEF Yield
    <2>3. status' \in [Task -> Status]
      BY <1>6 DEF Yield, Status
    <2> QED
      BY <1>4, <1>5, <1>6, <2>1, <2>2, <2>3 DEF Yield
  <1>7. CASE Timer
    <2>1. [op |-> "timer"] \in Caller
      BY DEF Caller
    <2>2. BeginSwitch([op |-> "timer"], frame)
      BY <1>7 DEF Timer
    <2> QED
      BY <1>4, <1>7, <2>1, <2>2 DEF Timer
  <1>8. ASSUME NEW t \in Task, Start(t)
        PROVE  /\ status' \in [Task -> Status] /\ id' \in [Task -> 0 .. MaxPID]
               /\ nextPID' \in 1 .. MaxPID /\ taskLinks' \in Links(TaskNode)
    <2>1. t \in TaskNode /\ mainQueue \in TaskNode
      BY DEF TaskNode
    <2>2. taskLinks' \in Links(TaskNode)
      BY <1>8, <2>1, LinksType DEF Start
    <2> QED
      BY <1>8, <2>2, NumbersAssumption DEF Start, Status
  <1>9. ASSUME NEW t \in Task, MakeTask(t)
        PROVE  TypeOK'
    BY <1>9, NumbersAssumption DEF MakeTask, Status, FreshRegisters, Registers
  <1>10. ASSUME NEW t \in Task, RunTask(t)
         PROVE  TypeOK'
    BY <1>8, <1>10 DEF RunTask
  <1>11. ASSUME NEW t \in Task, Fork(t)
         PROVE  TypeOK'
    <2>1. [frame EXCEPT !.eax = "zero"] \in Registers
      BY DEF Registers
    <2>2. [frame EXCEPT !.eax = "positive"] \in Registers
      BY DEF Registers
    <2> QED
      BY <1>8, <1>11, <2>1, <2>2 DEF Fork
  <1>12. ASSUME NEW s \in Semaphore, NEW n \in InitialValue, SemInit(s, n)
         PROVE  TypeOK'
    <2>1. s \in TaskNode /\ s \in SemNode /\ semaphoreQueue \in SemNode
      BY DEF TaskNode, SemNode
    <2>2. taskLinks' \in Links(TaskNode) /\ semLinks' \in Links(SemNode)
      BY <1>12, <2>1, LinksType DEF SemInit
    <2>3. frame' \in Registers
      BY <1>12 DEF SemInit, Returns, Registers
    <2>4. semaphore' \in [Semaphore -> [id : Nat, initial_value : Nat, count : Nat]]
      <3>1. [id |-> nextSemaphoreID, initial_value |-> n, count |-> n]
               \in [id : Nat, initial_value : Nat, count : Nat]
        BY NumbersAssumption
      <3> QED
        BY <1>12, <3>1 DEF SemInit
    <2>5. nextSemaphoreID' \in 1 .. MaxSemaphoreID + 1
      BY <1>12, NumbersAssumption DEF SemInit
    <2> QED
      BY <1>12, <2>2, <2>3, <2>4, <2>5 DEF SemInit
  <1>13. ASSUME NEW s \in Semaphore, SemSignal(s)
         PROVE  TypeOK'
    <2>1. frame' \in Registers
      BY <1>13 DEF SemSignal, Returns, Registers
    <2>2. semaphore' \in [Semaphore -> [id : Nat, initial_value : Nat, count : Nat]]
      BY <1>13 DEF SemSignal
    <2> QED
      BY <1>13, <2>1, <2>2 DEF SemSignal
  <1>14. ASSUME NEW s \in Semaphore, SemPass(s)
         PROVE  TypeOK'
    <2>1. frame' \in Registers
      BY <1>14 DEF SemPass, Returns, Registers
    <2>2. semaphore' \in [Semaphore -> [id : Nat, initial_value : Nat, count : Nat]]
      BY <1>14 DEF SemPass
    <2> QED
      BY <1>14, <2>1, <2>2 DEF SemPass
  <1>15. ASSUME NEW s \in Semaphore, SemBlock(s)
         PROVE  TypeOK'
    <2>1. [op |-> "wait", task |-> currentTask, semaphore |-> s] \in Caller
      BY DEF Caller
    <2>2. BeginSwitch([op |-> "wait", task |-> currentTask, semaphore |-> s], InCall)
      BY <1>15 DEF SemBlock
    <2> QED
      BY <1>4, <1>5, <1>15, <2>1, <2>2 DEF SemBlock
  <1>16. ASSUME NEW s \in Semaphore, SemFree(s)
         PROVE  TypeOK'
    <2>1. s \in SemNode
      BY DEF SemNode
    <2>2. semLinks' \in Links(SemNode)
      BY <1>16, <2>1, LinksType DEF SemFree
    <2>3. frame' \in Registers
      BY <1>16 DEF SemFree, Returns, Registers
    <2>4. semaphore' \in [Semaphore -> [id : Nat, initial_value : Nat, count : Nat]]
      BY <1>16 DEF SemFree
    <2> QED
      BY <1>16, <2>2, <2>3, <2>4 DEF SemFree
  <1> HIDE DEF TypeOK, taskVars, semVars, handlerVars
  <1> QED
    BY <1>1, <1>2, <1>3, <1>6, <1>7, <1>9, <1>10, <1>11, <1>12, <1>13, <1>14, <1>15, <1>16
       DEF Program

\* destroyTask takes a task out of the main queue, and the pointer that the walk
\* reads of it afterwards still leads to a started task (task.c line 95).
LEMMA DestroyFacts ==
    ASSUME TypeOK, QueuesInv, KernelInv, IterInv, Destroy
    PROVE  /\ iter \in Live
           /\ taskLinks' \in Links(TaskNode)
           /\ Partitioned(taskLinks', Heads, Live \ {iter})
           /\ \A q \in Heads, n \in TaskNode :
                 Reaches(taskLinks', q, n) <=> Reaches(taskLinks, q, n) /\ n # iter
           /\ iter' \in Task /\ Reaches(taskLinks', mainQueue, iter') /\ iter' # iter
           /\ iter' = Following(taskLinks', iter)
           /\ taskLinks'.next[iter] = taskLinks.next[iter]
  <1>1. iter \in Task /\ iter \in TaskNode /\ Reaches(taskLinks, mainQueue, iter)
    BY DEF Destroy, Visits, TaskNode, IterInv, Ready, InList
  <1>2. Partitioned(taskLinks, Heads, Live) /\ taskLinks' = list_del_entry(taskLinks, iter)
    BY DEF QueuesInv, Destroy
  <1>3. kernelTask \in Live \ Heads /\ iter \in Live \ Heads /\ iter # kernelTask
    <2>1. Reaches(taskLinks, mainQueue, kernelTask) /\ iter # kernelTask
      BY DEF Destroy, KernelInv, Ready, InList
    <2> QED
      BY <1>1, <1>2, <2>1, NodesFacts, OneListEach
  <1>4. taskLinks' \in Links(TaskNode)
    BY <1>1, <1>2, NodesFacts, LinksType
  <1>5. Partitioned(taskLinks', Heads, Live \ {iter})
    BY <1>2, <1>3, NodesFacts, PartitionedDelete
  <1>6. \A q \in Heads, n \in TaskNode :
            Reaches(taskLinks', q, n) <=> Reaches(taskLinks, q, n) /\ n # iter
    BY <1>2, <1>3, NodesFacts, PartitionedDelete
  <1>7. taskLinks'.next[iter] = taskLinks.next[iter]
    <2>1. taskLinks.next \in [TaskNode -> TaskNode]
      BY NodesFacts DEF Links
    <2>2. taskLinks'.next = [taskLinks.next EXCEPT ![taskLinks.prev[iter]] = taskLinks.next[iter]]
      BY <1>2 DEF list_del_entry, Join
    <2> QED
      BY <1>1, <2>1, <2>2
  <1>8. /\ taskLinks'.next[mainQueue] \in Live \ {iter}
        /\ Reaches(taskLinks', mainQueue, taskLinks'.next[mainQueue])
    <2>1. Reaches(taskLinks', mainQueue, kernelTask)
      BY <1>3, <1>6, NodesFacts DEF KernelInv, Ready, InList
    <2>2. kernelTask \in (Live \ {iter}) \ Heads /\ Live \ {iter} \in SUBSET TaskNode
      BY <1>3, NodesFacts
    <2> QED
      BY <1>4, <1>5, <2>1, <2>2, NodesFacts, FollowingReaches
  <1>9. CASE taskLinks.next[iter] = mainQueue
    BY <1>1, <1>3, <1>4, <1>5, <1>6, <1>7, <1>8, <1>9, NodesFacts DEF Destroy, Following
  <1>10. CASE taskLinks.next[iter] # mainQueue
    <2>1. Reaches(taskLinks, mainQueue, kernelTask)
      BY DEF KernelInv, Ready, InList
    <2>2. /\ taskLinks.next[iter] \in Live
          /\ Reaches(taskLinks, mainQueue, taskLinks.next[iter])
      BY <1>1, <1>2, <1>3, <1>10, <2>1, NodesFacts, FollowingReaches
    <2>3. taskLinks.next[iter] # iter
      <3> SUFFICES ASSUME taskLinks.next[iter] = iter
                   PROVE  FALSE
        OBVIOUS
      <3> DEFINE R == (Heads \cup Live) \ {iter}
      <3>1. Closed(taskLinks, R)
        BY <1>2, <1>3 DEF Closed, Partitioned, Consistent
      <3>2. R \in SUBSET TaskNode /\ mainQueue \in R
        BY <1>3, NodesFacts
      <3> HIDE DEF R
      <3>3. iter \in R
        BY <1>1, <3>1, <3>2, NodesFacts, ReachesFacts
      <3> QED
        BY <3>3 DEF R
    <2> QED
      BY <1>1, <1>3, <1>4, <1>5, <1>6, <1>7, <1>10, <2>2, <2>3, NodesFacts DEF Destroy, Following
  <1> QED
    BY <1>1, <1>3, <1>4, <1>5, <1>6, <1>7, <1>9, <1>10 DEF Destroy

\* What a handler does keeps the types: the walk visits tasks only.
LEMMA HandlerType ==
    ASSUME TypeOK, IterInv, QueuesInv, KernelInv, CurrentInv, Handler
    PROVE  TypeOK'
  <1> USE DEF TypeOK, taskVars, semVars, handlerVars
  <1>1. ASSUME NEW s \in SemNode
        PROVE  semLinks.next[s] \in SemNode
    BY DEF Links
  <1>2. CASE Wake
    <2>1. /\ iter \in SemNode /\ iter \in Semaphore /\ iter \in TaskNode
          /\ mainQueue \in TaskNode
      BY <1>2 DEF Wake, AtSemaphore, IterInv, Allocated, SemNode, TaskNode
    <2>2. taskLinks.next[iter] \in TaskNode
      BY <2>1 DEF Links
    <2>3. taskLinks' \in Links(TaskNode)
      BY <1>2, <2>1, <2>2, LinksType DEF Wake
    <2>4. semaphore' \in [Semaphore -> [id : Nat, initial_value : Nat, count : Nat]]
      BY <1>2, <2>1 DEF Wake, CanWake
    <2>5. iter' \in Task \cup SemNode
      BY <1>1, <1>2, <2>1 DEF Wake
    <2> QED
      BY <1>2, <2>3, <2>4, <2>5 DEF Wake
  <1>3. CASE SkipSemaphore
    <2>1. iter \in SemNode
      BY <1>3 DEF SkipSemaphore, AtSemaphore, IterInv, Allocated, SemNode
    <2> QED
      BY <1>1, <1>3, <2>1 DEF SkipSemaphore
  <1>4. CASE BeginWalk
    <2>1. Following(taskLinks, currentTask) \in Task
      BY FollowingReady DEF CurrentInv, KernelInv
    <2> QED
      BY <1>4, <2>1 DEF BeginWalk
  <1>5. ASSUME phase = "walk"
        PROVE  iter \in Task /\ Following(taskLinks, iter) \in Task
    BY <1>5, FollowingReady DEF KernelInv, IterInv
  <1>6. CASE Preempt
    BY <1>5, <1>6 DEF Preempt, Visits, Status
  <1>7. CASE Bury
    BY <1>5, <1>7 DEF Bury, Visits, Status, Registers
  <1>8. CASE Destroy
    <2>1. status' \in [Task -> Status]
      BY <1>8 DEF Destroy, Status
    <2>2. taskLinks' \in Links(TaskNode) /\ iter' \in Task
      BY <1>8, DestroyFacts
    <2> QED
      BY <1>8, <2>1, <2>2 DEF Destroy
  <1>9. CASE Choose
    BY <1>5, <1>9 DEF Choose, Visits, Status
  <1>10. CASE ResumeFromTimer \/ ResumeFromYield
    BY <1>10 DEF ResumeFromTimer, ResumeFromYield, ToTask, Registers, Caller, SemNode
  <1>11. CASE ResumeFromWait
    <2>1. caller.task \in Task /\ caller.semaphore \in Semaphore
      BY <1>11 DEF ResumeFromWait, Caller
    <2>2. caller.task \in TaskNode /\ caller.semaphore \in TaskNode
      BY <2>1 DEF TaskNode
    <2>3. taskLinks' \in Links(TaskNode)
      BY <1>11, <2>2, LinksType DEF ResumeFromWait
    <2> QED
      BY <1>11, <2>3 DEF ResumeFromWait, ToTask, Registers, Caller, SemNode
  <1> HIDE DEF TypeOK, taskVars, semVars, handlerVars
  <1> QED
    BY <1>2, <1>3, <1>4, <1>6, <1>7, <1>8, <1>9, <1>10, <1>11 DEF Handler, Walk
-----------------------------------------------------------------------------
(* The queues and the walk: the initial state and the steps of programs. *)

LEMMA InitInductive == Init => IInv
  <1> SUFFICES ASSUME Init
               PROVE  IInv
    OBVIOUS
  <1> DEFINE L == InitialLinks(TaskNode)
  <1>1. TypeOK
    BY InitType
  <1>2. Heads = {mainQueue} /\ Live = {kernelTask} /\ Allocated = {}
    BY NodesDiffer DEF Init, Heads, Live, Allocated
  <1>3. L \in Links(TaskNode) /\ Consistent(L, {mainQueue}) /\ L.prev[mainQueue] = mainQueue
    BY InitialConsistent DEF InitialLinks, TaskNode, Links, Consistent
  <1>4. Partitioned(L, {mainQueue}, {})
    <2>1. mainQueue \in TaskNode
      BY DEF TaskNode
    <2> QED
      BY <1>3, <2>1, ReachesFacts DEF Partitioned, RoundTrip
  <1>5. /\ Partitioned(taskLinks, {mainQueue}, {kernelTask})
        /\ Reaches(taskLinks, mainQueue, kernelTask)
    <2>1. kernelTask \in TaskNode \ ({mainQueue} \cup {}) /\ {mainQueue} \in SUBSET TaskNode
      BY NodesDiffer DEF TaskNode
    <2>2. taskLinks = list_add_tail(L, kernelTask, mainQueue)
      BY DEF Init
    <2> HIDE DEF L
    <2>3. Partitioned(taskLinks, {mainQueue}, {} \cup {kernelTask})
      BY <1>3, <1>4, <2>1, <2>2, PartitionedAdd
    <2>4. Reaches(taskLinks, mainQueue, kernelTask)
      BY <1>3, <1>4, <2>1, <2>2, PartitionedAdd
    <2> QED
      BY <2>3, <2>4
  <1>6. Consistent(semLinks, {semaphoreQueue} \cup Allocated)
    BY <1>2, InitialConsistent DEF Init, SemNode
  <1>7. Ready(kernelTask)
    BY <1>5, NodesDiffer DEF Ready, InList
  <1>8. /\ phase = "task" /\ currentTask = kernelTask /\ caller.op = "timer"
        /\ status[kernelTask] = "IDLE" /\ ~frame.dead /\ ~regs[kernelTask].dead
    BY NodesDiffer DEF Init, FreshRegisters
  <1> QED
    BY <1>1, <1>2, <1>5, <1>6, <1>7, <1>8
       DEF IInv, QueuesInv, KernelInv, CurrentInv, IterInv, CallerInv, WalkInv

\* The calls that change no queue.
LEMMA NoQueueStep ==
    ASSUME IInv, TypeOK',
           UNCHANGED <<status, regs, taskLinks, semLinks, currentTask, phase, iter, caller>>,
           UNCHANGED Allocated, UNCHANGED Live,
           phase = "task",
           currentTask = kernelTask => ~frame'.dead
    PROVE  IInv'
  <1>1. UNCHANGED Heads
    BY DEF Heads
  <1>2. QueuesInv'
    BY <1>1 DEF IInv, QueuesInv
  <1>3. KernelInv' /\ CurrentInv'
    BY DEF IInv, KernelInv, CurrentInv, Ready
  <1>4. IterInv' /\ CallerInv' /\ WalkInv'
    BY DEF IInv, IterInv, CallerInv, WalkInv
  <1> QED
    BY <1>2, <1>3, <1>4 DEF IInv

\* runTask and fork put a new task in the main queue.
LEMMA StartStep ==
    ASSUME IInv, TypeOK', NEW t \in Task, Start(t), t \notin Live,
           UNCHANGED <<semLinks, semaphore, currentTask, phase, iter, caller>>,
           phase = "task",
           \A u \in Live : regs'[u].dead = regs[u].dead,
           currentTask = kernelTask => ~frame'.dead
    PROVE  IInv'
  <1>1. /\ UNCHANGED Heads /\ UNCHANGED Allocated /\ Live' = Live \cup {t}
        /\ \A u \in Live : status'[u] = status[u]
    BY DEF Heads, Allocated, Live, Start, IInv, TypeOK
  <1>2. /\ Partitioned(taskLinks', Heads, Live \cup {t})
        /\ \A q \in Heads, n \in TaskNode :
              Reaches(taskLinks', q, n) <=> Reaches(taskLinks, q, n) \/ (n = t /\ q = mainQueue)
    <2>1. t \in TaskNode \ (Heads \cup Live)
      BY NodesFacts DEF IInv, TaskNode
    <2>2. Partitioned(taskLinks, Heads, Live) /\ taskLinks' = list_add_tail(taskLinks, t, mainQueue)
      BY DEF IInv, QueuesInv, Start
    <2>3. Partitioned(taskLinks', Heads, Live \cup {t})
      BY <2>1, <2>2, NodesFacts, PartitionedAdd DEF IInv
    <2>4. \A q \in Heads, n \in TaskNode :
              Reaches(taskLinks', q, n) <=> Reaches(taskLinks, q, n) \/ (n = t /\ q = mainQueue)
      BY <2>1, <2>2, NodesFacts, PartitionedAdd DEF IInv
    <2> QED
      BY <2>3, <2>4
  <1>3. kernelTask \in Live /\ currentTask \in Live
    BY NodesFacts, OneListEach DEF IInv, QueuesInv, KernelInv, CurrentInv, Ready, InList
  <1>4. Ready(kernelTask)' /\ Ready(currentTask)'
    BY <1>2, <1>3, NodesFacts DEF IInv, KernelInv, CurrentInv, Ready, InList
  <1>5. QueuesInv'
    BY <1>1, <1>2 DEF IInv, QueuesInv
  <1>6. KernelInv' /\ CurrentInv'
    BY <1>1, <1>3, <1>4 DEF IInv, KernelInv, CurrentInv
  <1>7. IterInv' /\ CallerInv' /\ WalkInv'
    BY DEF IInv, IterInv, CallerInv, WalkInv
  <1> QED
    BY <1>5, <1>6, <1>7 DEF IInv

\* The timer, yield and SEMAPHORE_WAIT enter switchTask.
LEMMA BeginStep ==
    ASSUME IInv, TypeOK', NEW c, NEW saved, BeginSwitch(c, saved),
           phase = "task",
           UNCHANGED <<taskLinks, semLinks, semaphore, currentTask>>,
           \/ UNCHANGED status
           \/ currentTask # kernelTask /\ status' = [status EXCEPT ![currentTask] = "YIELD"],
           currentTask = kernelTask => ~saved.dead,
           c.op = "wait" => /\ c.semaphore \in Allocated
                            /\ c.task = currentTask /\ currentTask # kernelTask
    PROVE  IInv'
  <1>1. UNCHANGED Heads /\ UNCHANGED Allocated /\ UNCHANGED Live
    <2>1. currentTask \in Live
      BY NodesFacts, OneListEach DEF IInv, QueuesInv, CurrentInv, Ready, InList
    <2> QED
      BY <2>1 DEF Heads, Allocated, Live, IInv, TypeOK
  <1>2. QueuesInv'
    BY <1>1 DEF IInv, QueuesInv
  <1>3. \A t : Ready(t)' <=> Ready(t)
    BY DEF Ready
  <1>4. KernelInv'
    BY <1>3, NodesFacts DEF IInv, KernelInv, BeginSwitch, TypeOK
  <1>5. CurrentInv'
    BY <1>3 DEF IInv, CurrentInv, BeginSwitch, TypeOK
  <1>6. IterInv'
    BY <1>1 DEF IInv, IterInv, BeginSwitch, QueuesInv, Consistent
  <1>7. CallerInv'
    BY <1>1, <1>3 DEF IInv, CallerInv, CurrentInv, BeginSwitch
  <1>8. WalkInv'
    BY DEF WalkInv, BeginSwitch
  <1> QED
    BY <1>2, <1>4, <1>5, <1>6, <1>7, <1>8 DEF IInv

\* SEMAPHORE_INIT adds an empty queue.
LEMMA SemInitStep ==
    ASSUME IInv, TypeOK', NEW s \in Semaphore, NEW n \in InitialValue, SemInit(s, n)
    PROVE  IInv'
  <1>1. s \in Semaphore \ Allocated
    BY DEF SemInit, Allocated
  <1>2. Allocated' = Allocated \cup {s} /\ UNCHANGED Live
    BY DEF SemInit, Allocated, Live, IInv, TypeOK
  <1>3. Heads' = Heads \cup {s} /\ s \in TaskNode \ (Heads \cup Live) /\ s \notin Task
    BY <1>1, <1>2, NodesFacts, NodesDiffer DEF Heads, TaskNode, IInv
  <1>4. taskLinks' = INIT_LIST_HEAD(taskLinks, s) /\ Partitioned(taskLinks, Heads, Live)
    BY DEF SemInit, IInv, QueuesInv
  <1>5. Partitioned(taskLinks', Heads \cup {s}, Live)
    BY <1>3, <1>4, NodesFacts, PartitionedNewHead DEF IInv
  <1>6. \A g \in Heads, m \in TaskNode : Reaches(taskLinks', g, m) <=> Reaches(taskLinks, g, m)
    BY <1>3, <1>4, NodesFacts, PartitionedNewHead DEF IInv
  <1>7. Consistent(semLinks', {semaphoreQueue} \cup Allocated')
    <2> DEFINE S == {semaphoreQueue} \cup Allocated
    <2>1. S \in SUBSET SemNode /\ s \in SemNode \ S /\ semaphoreQueue \in S
      BY <1>1, NodesFacts, NodesDiffer DEF SemNode, IInv
    <2>2. Consistent(semLinks, S) /\ semLinks' = list_add_tail(semLinks, s, semaphoreQueue)
      BY DEF SemInit, IInv, QueuesInv
    <2>3. S \cup {s} = {semaphoreQueue} \cup Allocated'
      BY <1>2
    <2> HIDE DEF S
    <2>4. Consistent(semLinks', S \cup {s})
      BY <2>1, <2>2, NodesFacts, AddConsistent DEF IInv
    <2> QED
      BY <2>3, <2>4
  <1>8. \A t \in Task : Ready(t)' <=> Ready(t)
    BY <1>6, NodesFacts DEF Ready, InList, TaskNode, IInv
  <1>9. QueuesInv'
    BY <1>2, <1>3, <1>5, <1>7 DEF QueuesInv
  <1>10. KernelInv' /\ CurrentInv'
    <2>1. kernelTask \in Task /\ currentTask \in Task
      BY NodesFacts DEF IInv, TypeOK
    <2>2. /\ UNCHANGED <<status, regs, currentTask, phase>>
          /\ phase = "task" /\ currentTask # kernelTask
      BY DEF SemInit, RunsUser, RunsProgram, handlerVars
    <2> QED
      BY <1>8, <2>1, <2>2 DEF IInv, KernelInv, CurrentInv
  <1>11. IterInv' /\ CallerInv' /\ WalkInv'
    BY DEF IInv, IterInv, CallerInv, WalkInv, SemInit, RunsUser, RunsProgram, handlerVars
  <1> QED
    BY <1>9, <1>10, <1>11 DEF IInv

\* SEMAPHORE_FREE gives up an empty queue.
LEMMA SemFreeStep ==
    ASSUME IInv, TypeOK', NEW s \in Semaphore, SemFree(s)
    PROVE  IInv'
  <1>1. s \in Allocated /\ s \notin Live /\ taskLinks.next[s] = s /\ UNCHANGED taskLinks
    BY NodesFacts, NodesDiffer DEF SemFree, OnSemaphore, Allocated, list_empty, taskVars, IInv
  <1>2. Allocated' = Allocated \ {s} /\ UNCHANGED Live
    BY DEF SemFree, Allocated, Live, IInv, TypeOK, taskVars
  <1>3. Heads' = Heads \ {s} /\ s \in Heads \ Live
    BY <1>1, <1>2, NodesFacts, NodesDiffer DEF Heads, IInv
  <1>4. Partitioned(taskLinks', Heads', Live')
    BY <1>1, <1>2, <1>3, NodesFacts, PartitionedDropHead DEF IInv, QueuesInv
  <1>5. Consistent(semLinks', {semaphoreQueue} \cup Allocated')
    <2> DEFINE S == {semaphoreQueue} \cup Allocated
    <2>1. S \in SUBSET SemNode /\ s \in S
      BY <1>1, NodesFacts DEF SemNode, IInv
    <2>2. Consistent(semLinks, S) /\ semLinks' = list_del_entry(semLinks, s)
      BY DEF SemFree, IInv, QueuesInv
    <2>3. S \ {s} = {semaphoreQueue} \cup Allocated'
      BY <1>2, NodesDiffer
    <2> HIDE DEF S
    <2>4. Consistent(semLinks', S \ {s})
      BY <2>1, <2>2, NodesFacts, DeleteConsistent DEF IInv
    <2> QED
      BY <2>3, <2>4
  <1>6. QueuesInv'
    BY <1>4, <1>5 DEF QueuesInv
  <1>7. /\ UNCHANGED <<status, regs, currentTask, phase, caller, taskLinks>>
        /\ phase = "task" /\ currentTask # kernelTask
    BY DEF SemFree, OnSemaphore, RunsUser, RunsProgram, handlerVars, taskVars
  <1>8. KernelInv' /\ CurrentInv' /\ IterInv' /\ CallerInv' /\ WalkInv'
    BY <1>7 DEF IInv, KernelInv, CurrentInv, IterInv, CallerInv, WalkInv, Ready
  <1> QED
    BY <1>6, <1>8 DEF IInv

LEMMA ProgramInductive ==
    ASSUME IInv, Program \/ Timer
    PROVE  IInv'
  <1>1. TypeOK'
    BY ProgramType DEF IInv
  <1> USE DEF RunsUser, RunsKernel, RunsProgram, taskVars, semVars, handlerVars
  <1>2. CASE Compute
    <2>1. UNCHANGED Allocated /\ UNCHANGED Live /\ (currentTask = kernelTask => ~frame'.dead)
      BY <1>2 DEF Compute, Allocated, Live, IInv, TypeOK, Registers
    <2> QED
      BY <1>1, <1>2, <2>1, NoQueueStep DEF Compute
  <1>3. CASE Exit
    <2>1. UNCHANGED Allocated /\ UNCHANGED Live
      BY <1>3 DEF Exit, Allocated, Live
    <2> QED
      BY <1>1, <1>3, <2>1, NoQueueStep DEF Exit
  <1>4. CASE SimpleCall
    <2>1. UNCHANGED Allocated /\ UNCHANGED Live
      BY <1>4 DEF SimpleCall, Allocated, Live
    <2> QED
      BY <1>1, <1>4, <2>1, NoQueueStep DEF SimpleCall
  <1>5. ASSUME NEW t \in Task, MakeTask(t)
        PROVE  IInv'
    <2>1. status' = [status EXCEPT ![t] = "CREATED"] /\ t \in Task \ Live
      BY <1>5 DEF MakeTask, Live
    <2>2. UNCHANGED Allocated /\ UNCHANGED Live
      BY <1>5, <2>1 DEF MakeTask, Allocated, Live, IInv, TypeOK
    <2>3. kernelTask # t /\ regs'[kernelTask] = regs[kernelTask]
      BY <1>5, NodesFacts DEF MakeTask, IInv, KernelInv, TypeOK
    <2>4. Partitioned(taskLinks', Heads', Live') /\ QueuesInv'
      BY <1>5, <2>2 DEF IInv, QueuesInv, Heads, MakeTask
    <2>5. KernelInv' /\ CurrentInv'
      BY <1>5, <2>1, <2>3, NodesFacts DEF IInv, KernelInv, CurrentInv, MakeTask, Ready, TypeOK
    <2>6. IterInv' /\ CallerInv' /\ WalkInv'
      BY <1>5 DEF IInv, IterInv, CallerInv, WalkInv, MakeTask
    <2> QED
      BY <1>1, <2>4, <2>5, <2>6 DEF IInv
  <1>6. ASSUME NEW t \in Task, RunTask(t)
        PROVE  IInv'
    <2>1. t \notin Live /\ ~frame'.dead
      BY <1>6 DEF RunTask, Live, IInv, KernelInv
    <2> QED
      BY <1>1, <1>6, <2>1, StartStep DEF RunTask
  <1>7. ASSUME NEW t \in Task, Fork(t)
        PROVE  IInv'
    <2>1. t \notin Live /\ \A u \in Live : regs'[u].dead = regs[u].dead
      BY <1>7 DEF Fork, Live, IInv, TypeOK
    <2> QED
      BY <1>1, <1>7, <2>1, StartStep DEF Fork
  <1>8. CASE Timer
    <2>1. BeginSwitch([op |-> "timer"], frame)
      BY <1>8 DEF Timer
    <2> QED
      BY <1>1, <1>8, <2>1, BeginStep DEF Timer, IInv, KernelInv
  <1>9. CASE Yield
    <2>1. BeginSwitch([op |-> "yield"], InCall)
      BY <1>9 DEF Yield
    <2> QED
      BY <1>1, <1>9, <2>1, BeginStep DEF Yield
  <1>10. ASSUME NEW s \in Semaphore, SemBlock(s)
         PROVE  IInv'
    <2>1. BeginSwitch([op |-> "wait", task |-> currentTask, semaphore |-> s], InCall)
      BY <1>10 DEF SemBlock
    <2>2. s \in Allocated /\ currentTask # kernelTask
      BY <1>10 DEF SemBlock, OnSemaphore, Allocated
    <2> QED
      BY <1>1, <1>10, <2>1, <2>2, BeginStep DEF SemBlock, OnSemaphore
  <1>11. ASSUME NEW s \in Semaphore, SemSignal(s) \/ SemPass(s)
         PROVE  IInv'
    <2>1. \A r \in Semaphore : semaphore'[r].id = semaphore[r].id
      BY <1>11 DEF SemSignal, SemPass, IInv, TypeOK
    <2>2. UNCHANGED Allocated /\ UNCHANGED Live
      BY <1>11, <2>1 DEF Allocated, Live, SemSignal, SemPass
    <2> QED
      BY <1>1, <1>11, <2>2, NoQueueStep DEF SemSignal, SemPass, OnSemaphore
  <1> HIDE DEF RunsUser, RunsKernel, RunsProgram, taskVars, semVars, handlerVars
  <1> QED
    BY <1>1, <1>2, <1>3, <1>4, <1>5, <1>6, <1>7, <1>8, <1>9, <1>10, <1>11,
       SemInitStep, SemFreeStep DEF Program
-----------------------------------------------------------------------------
(* The queues and the walk: the steps of handlers. *)

\* semctl_process moves a waiting task to the main queue.
LEMMA WakeStep ==
    ASSUME IInv, TypeOK', Wake
    PROVE  IInv'
  <1> DEFINE w == taskLinks.next[iter]
  <1>1. iter \in Allocated /\ iter \in Heads /\ iter # mainQueue
    BY NodesFacts, NodesDiffer DEF Wake, AtSemaphore, IInv, IterInv, Heads
  <1>2. Partitioned(taskLinks, Heads, Live)
    BY DEF IInv, QueuesInv
  <1>3. w \in Live /\ w \notin Heads /\ Reaches(taskLinks, iter, w)
    <2>1. Reaches(taskLinks, iter, w) /\ w # iter
      BY <1>1, NodesFacts, ReachesFacts DEF Wake, CanWake, list_empty, IInv
    <2> HIDE DEF w
    <2>2. w \in Live
      BY <1>1, <1>2, <2>1, NodesFacts, OneListEach DEF IInv
    <2> QED
      BY <2>1, <2>2, NodesFacts DEF IInv
  <1>4. taskLinks' = list_move_tail(taskLinks, w, mainQueue)
    BY DEF Wake
  <1> HIDE DEF w
  <1>5. Partitioned(taskLinks', Heads, Live)
    BY <1>2, <1>3, <1>4, NodesFacts, PartitionedMoveTail DEF IInv
  <1>6. \A g \in Heads, n \in TaskNode : Reaches(taskLinks', g, n)
                       <=> (Reaches(taskLinks, g, n) /\ n # w) \/ (n = w /\ g = mainQueue)
    <2>1. /\ taskLinks \in Links(TaskNode) /\ w \in Live \ Heads
          /\ Heads \in SUBSET TaskNode /\ Live \in SUBSET TaskNode /\ mainQueue \in Heads
      BY <1>3, NodesFacts DEF IInv
    <2>2. /\ Partitioned(list_move_tail(taskLinks, w, mainQueue), Heads, Live)
          /\ \A g \in Heads, n \in TaskNode :
                Reaches(list_move_tail(taskLinks, w, mainQueue), g, n)
                   <=> (Reaches(taskLinks, g, n) /\ n # w) \/ (n = w /\ g = mainQueue)
      BY <1>2, <2>1, PartitionedMoveTail
    <2> QED
      BY <1>4, <2>2
  <1>7. \A t \in Task : Ready(t) => Ready(t)'
    BY <1>6, NodesFacts DEF Ready, InList, TaskNode, IInv
  <1>8. UNCHANGED Allocated /\ UNCHANGED Live /\ UNCHANGED Heads
    <2>1. \A r \in Semaphore : semaphore'[r].id = semaphore[r].id
      BY DEF Wake, IInv, TypeOK
    <2> QED
      BY <2>1 DEF Allocated, Live, Heads, Wake
  <1>9. QueuesInv'
    BY <1>5, <1>8 DEF IInv, QueuesInv, Wake
  <1>10. KernelInv' /\ CurrentInv'
    <2>1. kernelTask \in Task /\ currentTask \in Task
      BY NodesFacts DEF IInv, TypeOK
    <2> QED
      BY <1>7, <2>1 DEF IInv, KernelInv, CurrentInv, Wake
  <1>11. IterInv'
    BY <1>1, <1>8 DEF IInv, IterInv, QueuesInv, Consistent, Wake, AtSemaphore
  <1>12. CallerInv' /\ WalkInv'
    <2>1. caller.op = "wait" => caller.task \in Task
      BY DEF IInv, TypeOK, Caller
    <2> QED
      BY <1>7, <1>8, <2>1 DEF IInv, CallerInv, WalkInv, Wake, AtSemaphore
  <1> QED
    BY <1>9, <1>10, <1>11, <1>12 DEF IInv

\* Behind the interrupted task the walk comes to kernelTask first.
LEMMA BeforeCurrent ==
    ASSUME TypeOK, QueuesInv, Ready(currentTask), Ready(kernelTask), currentTask # kernelTask
    PROVE  Before(taskLinks, Following(taskLinks, currentTask), kernelTask, currentTask)
  <1>1. Partitioned(taskLinks, Heads, Live)
    BY DEF QueuesInv
  <1>2. Reaches(taskLinks, mainQueue, currentTask) /\ Reaches(taskLinks, mainQueue, kernelTask)
    BY DEF Ready, InList
  <1>3. Before(taskLinks, taskLinks.next[currentTask], kernelTask, currentTask)
    <2> DEFINE S == Heads \cup Live
    <2>1. /\ S \in SUBSET TaskNode /\ Consistent(taskLinks, S) /\ mainQueue \in S
          /\ RoundTrip(taskLinks, mainQueue)
      BY <1>1, NodesFacts DEF Partitioned
    <2> HIDE DEF S
    <2> QED
      BY <1>2, <2>1, NodesFacts, NextBefore
  <1>4. PICK R \in SUBSET DOMAIN taskLinks.next :
           /\ taskLinks.next[currentTask] \in R /\ currentTask \notin R
           /\ \A m \in R \ {kernelTask} : taskLinks.next[m] \in R
    BY <1>3 DEF Before
  <1>5. Following(taskLinks, currentTask) \in R
    BY <1>4, NodesDiffer DEF Following
  <1> QED
    BY <1>4, <1>5 DEF Before

\* The walk starts behind the interrupted task.
LEMMA BeginWalkStep ==
    ASSUME IInv, TypeOK', BeginWalk
    PROVE  IInv'
  <1>1. UNCHANGED <<status, regs, taskLinks, semLinks, semaphore, currentTask, caller>>
    BY DEF BeginWalk, taskVars, semVars
  <1>2. QueuesInv' /\ KernelInv' /\ CurrentInv' /\ CallerInv'
    BY <1>1 DEF BeginWalk, IInv, QueuesInv, KernelInv, CurrentInv, CallerInv,
                Allocated, Live, Heads, Ready
  <1>3. IterInv'
    <2>1. currentTask \in Task
      BY DEF IInv, TypeOK
    <2>2. iter' \in Task /\ Ready(iter')
      BY <2>1, FollowingReady DEF BeginWalk, IInv, KernelInv, CurrentInv
    <2> QED
      BY <1>1, <2>2 DEF BeginWalk, IterInv, Ready
  <1>4. ASSUME currentTask # kernelTask
        PROVE  Before(taskLinks, iter', kernelTask, currentTask)
    BY <1>4, BeforeCurrent DEF BeginWalk, IInv, KernelInv, CurrentInv
  <1>5. WalkInv'
    BY <1>1, <1>4 DEF IInv, BeginWalk, WalkInv, CurrentInv
  <1> QED
    BY <1>2, <1>3, <1>5 DEF IInv

\* The walk does not come back to the interrupted task once it has passed it,
\* unless the interrupted task is kernelTask.
LEMMA NotAgain ==
    ASSUME IInv, phase = "walk", currentTask # kernelTask, iter = currentTask
    PROVE  status[kernelTask] = "IDLE" /\ status[currentTask] \in {"RUNNING", "YIELD"}
  BY DEF IInv, WalkInv, Before

\* Going on keeps the order of the walk.
LEMMA BeforeFollowing ==
    ASSUME NEW L, NEW n, NEW c, Before(L, n, kernelTask, c), n # kernelTask
    PROVE  Before(L, Following(L, n), kernelTask, c)
  <1>1. PICK R \in SUBSET DOMAIN L.next :
           n \in R /\ c \notin R /\ \A m \in R \ {kernelTask} : L.next[m] \in R
    BY DEF Before
  <1>2. Following(L, n) \in R
    BY <1>1, NodesDiffer DEF Following
  <1> QED
    BY <1>1, <1>2 DEF Before

\* The walk passes a task that was running: it is idle or dead afterwards.
LEMMA PassStep ==
    ASSUME IInv, TypeOK', Preempt \/ Bury
    PROVE  IInv'
  <1>1. /\ phase = "walk" /\ iter \in Task /\ Ready(iter)
        /\ status[iter] \in {"RUNNING", "YIELD"}
        /\ iter' = Following(taskLinks, iter)
        /\ UNCHANGED <<taskLinks, semLinks, semaphore, currentTask, phase, caller>>
    BY DEF Preempt, Bury, Visits, semVars, IInv, IterInv
  <1>2. /\ \E st \in {"IDLE", "ZOMBIE"} : status' = [status EXCEPT ![iter] = st]
        /\ iter = kernelTask => status' = [status EXCEPT ![iter] = "IDLE"]
        /\ ~regs'[kernelTask].dead
    BY NodesFacts DEF Preempt, Bury, IInv, KernelInv, TypeOK, Registers
  <1>3. UNCHANGED Allocated /\ UNCHANGED Live /\ UNCHANGED Heads
    <2>1. UNCHANGED Live
      BY <1>1, <1>2 DEF Live, IInv, TypeOK
    <2> QED
      BY <1>1, <2>1 DEF Allocated, Heads
  <1>4. QueuesInv' /\ CallerInv'
    BY <1>1, <1>3 DEF IInv, QueuesInv, CallerInv, Ready
  <1>5. KernelInv' /\ CurrentInv'
    BY <1>1, <1>2, NodesFacts DEF IInv, KernelInv, CurrentInv, Ready, TypeOK
  <1>6. IterInv'
    BY <1>1, FollowingReady DEF IInv, KernelInv, IterInv, Ready
  <1>7. WalkInv'
    <2> SUFFICES ASSUME currentTask # kernelTask
                 PROVE  /\ \/ status'[kernelTask] = "IDLE"
                           \/ status'[currentTask] \in {"RUNNING", "YIELD"}
                        /\ \/ /\ status'[kernelTask] = "IDLE"
                              /\ status'[currentTask] \in {"RUNNING", "YIELD"}
                           \/ Before(taskLinks, iter', kernelTask, currentTask)
      BY <1>1 DEF WalkInv
    <2>1. kernelTask \in Task /\ currentTask \in Task /\ status \in [Task -> Status]
      BY NodesFacts DEF IInv, TypeOK
    <2>2. CASE iter = currentTask
      <3>1. status[kernelTask] = "IDLE"
        BY <1>1, <2>2, NotAgain
      <3>2. status'[kernelTask] = "IDLE"
        BY <1>2, <2>1, <2>2, <3>1
      <3>3. Before(taskLinks, iter', kernelTask, currentTask)
        BY <1>1, <2>2, BeforeCurrent DEF IInv, KernelInv, CurrentInv
      <3> QED
        BY <3>2, <3>3
    <2>3. CASE iter = kernelTask
      <3>1. status'[kernelTask] = "IDLE" /\ status'[currentTask] = status[currentTask]
        BY <1>2, <2>1, <2>3
      <3>2. status[currentTask] \in {"RUNNING", "YIELD"}
        BY <1>1, <2>3 DEF IInv, WalkInv
      <3> QED
        BY <3>1, <3>2
    <2>4. CASE iter # currentTask /\ iter # kernelTask
      <3>1. /\ status'[kernelTask] = status[kernelTask]
            /\ status'[currentTask] = status[currentTask]
        BY <1>2, <2>1, <2>4
      <3> QED
        BY <1>1, <2>4, <3>1, BeforeFollowing DEF IInv, WalkInv
    <2> QED
      BY <2>2, <2>3, <2>4
  <1> QED
    BY <1>4, <1>5, <1>6, <1>7 DEF IInv

\* The walk destroys a dead task, which is not the interrupted one.
LEMMA DestroyStep ==
    ASSUME IInv, TypeOK', Destroy
    PROVE  IInv'
  <1>1. /\ phase = "walk" /\ iter \in Task /\ status[iter] = "ZOMBIE" /\ iter # kernelTask
        /\ status' = [status EXCEPT ![iter] = "FREE"]
        /\ UNCHANGED <<regs, semLinks, semaphore, currentTask, frame, phase, caller>>
    BY DEF Destroy, Visits, semVars, IInv, IterInv
  <1>2. /\ iter \in Live
        /\ taskLinks' \in Links(TaskNode)
        /\ Partitioned(taskLinks', Heads, Live \ {iter})
        /\ \A q \in Heads, n \in TaskNode :
              Reaches(taskLinks', q, n) <=> Reaches(taskLinks, q, n) /\ n # iter
        /\ iter' \in Task /\ Reaches(taskLinks', mainQueue, iter') /\ iter' # iter
        /\ iter' = Following(taskLinks', iter)
        /\ taskLinks'.next[iter] = taskLinks.next[iter]
    BY DestroyFacts DEF IInv
  <1>3. iter # currentTask
    BY <1>1, NotAgain
  <1>4. UNCHANGED Allocated /\ UNCHANGED Heads /\ Live' = Live \ {iter}
    BY <1>1 DEF Allocated, Heads, Live, IInv, TypeOK
  <1>5. QueuesInv'
    BY <1>1, <1>2, <1>4 DEF IInv, QueuesInv
  <1>6. \A t \in Task : Ready(t) /\ t # iter => Ready(t)'
    BY <1>2, NodesFacts DEF Ready, InList, TaskNode, IInv
  <1>7. /\ kernelTask \in Task /\ currentTask \in Task /\ status \in [Task -> Status]
        /\ status'[kernelTask] = status[kernelTask]
        /\ status'[currentTask] = status[currentTask]
    BY <1>1, <1>3, NodesFacts DEF IInv, TypeOK
  <1>8. KernelInv' /\ CurrentInv'
    BY <1>1, <1>3, <1>6, <1>7 DEF IInv, KernelInv, CurrentInv
  <1>9. IterInv'
    BY <1>1, <1>2, NodesFacts, NodesDiffer DEF IterInv, Ready, InList
  <1>10. CallerInv'
    BY <1>1, <1>3, <1>4, <1>6, <1>7 DEF IInv, CallerInv
  <1>11. WalkInv'
    <2> SUFFICES ASSUME currentTask # kernelTask,
                        Before(taskLinks, iter, kernelTask, currentTask)
                 PROVE  Before(taskLinks', iter', kernelTask, currentTask)
      BY <1>1, <1>7 DEF IInv, WalkInv
    <2>1. PICK R \in SUBSET TaskNode :
             iter \in R /\ currentTask \notin R /\ \A m \in R \ {kernelTask} : taskLinks.next[m] \in R
      BY NodesFacts DEF Before, IInv, Links
    <2>2. DOMAIN taskLinks'.next = TaskNode
      BY <1>2 DEF Links
    <2>3. \A m \in R : taskLinks'.next[m] \in {taskLinks.next[m], taskLinks.next[iter]}
      <3>1. taskLinks.next \in [TaskNode -> TaskNode]
        BY NodesFacts DEF Links, IInv
      <3>2. taskLinks'.next = [taskLinks.next EXCEPT ![taskLinks.prev[iter]] = taskLinks.next[iter]]
        BY DEF Destroy, list_del_entry, Join
      <3> QED
        BY <3>1, <3>2
    <2>4. \A m \in R \ {kernelTask} : taskLinks'.next[m] \in R
      BY <1>1, <2>1, <2>3
    <2>5. iter' \in R
      BY <1>1, <1>2, <2>1, <2>4, NodesDiffer DEF Following
    <2> QED
      BY <2>1, <2>2, <2>4, <2>5 DEF Before
  <1> QED
    BY <1>5, <1>8, <1>9, <1>10, <1>11 DEF IInv

\* The walk ends at an idle task: not at the one that is about to wait.
LEMMA ChooseStep ==
    ASSUME IInv, TypeOK', Choose
    PROVE  IInv'
  <1>1. /\ phase = "walk" /\ phase' = "resume" /\ currentTask' = iter /\ iter \in Task
        /\ Ready(iter) /\ status[iter] = "IDLE" /\ status' = [status EXCEPT ![iter] = "RUNNING"]
        /\ UNCHANGED <<regs, taskLinks, semLinks, semaphore, frame, iter, caller>>
    BY DEF Choose, Visits, semVars, IInv, IterInv
  <1>2. UNCHANGED Allocated /\ UNCHANGED Heads /\ UNCHANGED Live
    <2>1. UNCHANGED Live
      BY <1>1 DEF Live, IInv, TypeOK
    <2> QED
      BY <1>1, <2>1 DEF Allocated, Heads
  <1>3. QueuesInv'
    BY <1>1, <1>2 DEF IInv, QueuesInv
  <1>4. KernelInv' /\ CurrentInv'
    BY <1>1, NodesFacts DEF IInv, KernelInv, CurrentInv, Ready, TypeOK
  <1>5. IterInv' /\ WalkInv'
    BY <1>1 DEF IterInv, WalkInv
  <1>6. CallerInv'
    <2> SUFFICES ASSUME caller.op = "wait"
                 PROVE  caller.task # iter
      BY <1>1, <1>2 DEF IInv, CallerInv, Ready
    <2>1. caller.task = currentTask /\ currentTask # kernelTask
      BY <1>1 DEF IInv, CallerInv
    <2> QED
      BY <1>1, <2>1, NotAgain
  <1> QED
    BY <1>3, <1>4, <1>5, <1>6 DEF IInv

\* Back in the timer's or in yield's handler.
LEMMA ResumeStep ==
    ASSUME IInv, TypeOK', ResumeFromTimer \/ ResumeFromYield
    PROVE  IInv'
  <1>1. /\ phase = "resume" /\ phase' = "task" /\ caller'.op = "timer"
        /\ frame'.dead = regs[currentTask].dead
        /\ UNCHANGED <<status, regs, taskLinks, semLinks, semaphore, currentTask>>
    BY DEF ResumeFromTimer, ResumeFromYield, ToTask, taskVars, semVars, IInv, TypeOK, Registers
  <1>2. QueuesInv'
    BY <1>1 DEF IInv, QueuesInv, Heads, Allocated, Live
  <1> QED
    BY <1>1, <1>2 DEF IInv, KernelInv, CurrentInv, IterInv, CallerInv, WalkInv, Ready

\* Back in semctl, which puts the task that waits in the semaphore's queue.
LEMMA ResumeFromWaitStep ==
    ASSUME IInv, TypeOK', ResumeFromWait
    PROVE  IInv'
  <1>1. /\ phase = "resume" /\ phase' = "task" /\ caller.op = "wait" /\ caller'.op = "timer"
        /\ frame'.dead = regs[currentTask].dead
        /\ taskLinks' = list_move(taskLinks, caller.task, caller.semaphore)
        /\ UNCHANGED <<status, regs, semLinks, semaphore, currentTask>>
    BY DEF ResumeFromWait, ToTask, semVars, IInv, TypeOK, Registers
  <1>2. /\ caller.semaphore \in Heads /\ caller.task # currentTask /\ caller.task # kernelTask
        /\ Reaches(taskLinks, mainQueue, caller.task)
    BY <1>1 DEF IInv, CallerInv, Heads, Ready, InList
  <1>3. Partitioned(taskLinks, Heads, Live)
    BY DEF IInv, QueuesInv
  <1>4. caller.task \in Live \ Heads
    <2>1. caller.task \in Task
      BY <1>1 DEF IInv, TypeOK, Caller
    <2> QED
      BY <1>2, <1>3, <2>1, NodesFacts, OneListEach DEF IInv
  <1> DEFINE t == caller.task
             s == caller.semaphore
  <1>5. /\ taskLinks \in Links(TaskNode) /\ t \in Live \ Heads /\ s \in Heads
        /\ Heads \in SUBSET TaskNode /\ Live \in SUBSET TaskNode /\ mainQueue \in Heads
    BY <1>2, <1>4, NodesFacts DEF IInv
  <1>6. taskLinks' = list_move(taskLinks, t, s)
    BY <1>1
  <1> HIDE DEF t, s
  <1>7. /\ Partitioned(list_move(taskLinks, t, s), Heads, Live)
        /\ \A g \in Heads, n \in TaskNode :
              Reaches(list_move(taskLinks, t, s), g, n)
                 <=> (Reaches(taskLinks, g, n) /\ n # t) \/ (n = t /\ g = s)
    BY <1>3, <1>5, PartitionedMove
  <1>8. QueuesInv'
    <2>1. UNCHANGED Allocated /\ UNCHANGED Heads /\ UNCHANGED Live
      BY <1>1 DEF Allocated, Heads, Live
    <2> QED
      BY <1>1, <1>6, <1>7, <2>1 DEF IInv, QueuesInv
  <1>9. \A u \in Task : Ready(u) /\ u # t => Ready(u)'
    BY <1>5, <1>6, <1>7, NodesFacts DEF Ready, InList, TaskNode
  <1>10. KernelInv' /\ CurrentInv'
    <2>1. kernelTask \in Task /\ currentTask \in Task
      BY NodesFacts DEF IInv, TypeOK
    <2>2. Ready(kernelTask)' /\ Ready(currentTask)'
      BY <1>1, <1>2, <1>9, <2>1 DEF IInv, KernelInv, CurrentInv, t
    <2> QED
      BY <1>1, <2>2 DEF IInv, KernelInv, CurrentInv
  <1>11. IterInv' /\ CallerInv' /\ WalkInv'
    BY <1>1 DEF IterInv, CallerInv, WalkInv
  <1> QED
    BY <1>8, <1>10, <1>11 DEF IInv

LEMMA HandlerInductive ==
    ASSUME IInv, Handler
    PROVE  IInv'
  <1>1. TypeOK'
    BY HandlerType DEF IInv
  <1>2. CASE SkipSemaphore
    <2>1. UNCHANGED <<status, regs, taskLinks, semLinks, semaphore, currentTask, frame, phase, caller>>
      BY <1>2 DEF SkipSemaphore, taskVars, semVars
    <2>2. QueuesInv' /\ KernelInv' /\ CurrentInv' /\ CallerInv'
      BY <2>1 DEF IInv, QueuesInv, KernelInv, CurrentInv, CallerInv, Heads, Allocated, Live, Ready
    <2>3. IterInv' /\ WalkInv'
      BY <1>2, <2>1 DEF IInv, IterInv, WalkInv, QueuesInv, Consistent, SkipSemaphore,
                        AtSemaphore, Allocated
    <2> QED
      BY <1>1, <2>2, <2>3 DEF IInv
  <1> QED
    BY <1>1, <1>2, WakeStep, BeginWalkStep, PassStep, DestroyStep, ChooseStep, ResumeStep,
       ResumeFromWaitStep DEF Handler, Walk

LEMMA NextInductive == IInv /\ [Next]_vars => IInv'
  <1> SUFFICES ASSUME IInv, [Next]_vars
               PROVE  IInv'
    OBVIOUS
  <1>1. CASE Next
    BY <1>1, ProgramInductive, HandlerInductive DEF Next
  <1>2. CASE UNCHANGED vars
    BY <1>2 DEF vars, taskVars, semVars, handlerVars, IInv, TypeOK, QueuesInv, KernelInv,
                CurrentInv, IterInv, CallerInv, WalkInv, Heads, Allocated, Live, Ready
  <1> QED
    BY <1>1, <1>2
-----------------------------------------------------------------------------
(* What follows of the properties of Scheduler.tla. *)

LEMMA InductiveImplies ==
    IInv => TypeOK /\ QueuesPartitionTasks /\ CurrentTaskIsReady /\ BlockedTaskIsNotResumed
  <1> SUFFICES ASSUME IInv
               PROVE  TypeOK /\ QueuesPartitionTasks /\ CurrentTaskIsReady /\ BlockedTaskIsNotResumed
    OBVIOUS
  <1>1. TypeOK
    BY DEF IInv
  <1>2. QueuesPartitionTasks
    <2>1. Partitioned(taskLinks, Heads, Live)
      BY DEF IInv, QueuesInv
    <2>2. Consistent(taskLinks, Heads \cup Live)
      BY <2>1 DEF Partitioned
    <2>3. ASSUME NEW t \in Live
          PROVE  \E q \in Heads : \A r \in Heads : InList(taskLinks, r, t) <=> r = q
      <3>1. PICK q \in Heads : Reaches(taskLinks, q, t)
        BY <2>1 DEF Partitioned
      <3>2. \A r \in Heads : Reaches(taskLinks, r, t) => r = q
        BY <1>1, <2>1, <3>1, NodesFacts, OneListEach
      <3> QED
        BY <1>1, <3>1, <3>2, NodesFacts DEF InList
    <2>4. ASSUME NEW t \in Task \ Live, NEW q \in Heads
          PROVE  ~InList(taskLinks, q, t)
      BY <1>1, <2>1, NodesFacts, OneListEach DEF InList
    <2> QED
      BY <2>2, <2>3, <2>4 DEF QueuesPartitionTasks, Heads
  <1>3. CurrentTaskIsReady
    BY DEF IInv, CurrentInv, KernelInv, CurrentTaskIsReady, Ready
  <1>4. BlockedTaskIsNotResumed
    BY DEF IInv, CallerInv, BlockedTaskIsNotResumed, Ready
  <1> QED
    BY <1>1, <1>2, <1>3, <1>4

\* Every task and semaphore keeps its type, for any number of them.
THEOREM TypeCorrect == Spec => []TypeOK
  BY InitInductive, NextInductive, InductiveImplies, PTL DEF Spec

\* No order of ticks, calls and exits loses a task or puts it in two queues
\* (task.c lines 210, 227; semaphore.c lines 27, 95).
THEOREM TasksInOneQueue == Spec => []QueuesPartitionTasks
  BY InitInductive, NextInductive, InductiveImplies, PTL DEF Spec

\* The walk of switchTask never destroys the task on whose stack and page
\* directory it runs, and always ends at one that may run (task.c lines 60-107).
THEOREM CurrentTaskSurvives == Spec => []CurrentTaskIsReady
  BY InitInductive, NextInductive, InductiveImplies, PTL DEF Spec

\* SEMAPHORE_WAIT may leave the caller in the main queue until switchTask has
\* returned: it is neither destroyed nor chosen again meanwhile (semaphore.c
\* lines 93-95).
THEOREM BlockedTaskSurvives == Spec => []BlockedTaskIsNotResumed
  BY InitInductive, NextInductive, InductiveImplies, PTL DEF Spec
-----------------------------------------------------------------------------
(* The shells: each is a program of the scheduler, and gives the keyboard  *)
(* to its child with the mutex.  The inductive invariant says who was told *)
(* that it has the mutex: a shell that has called mutex_lock and does not  *)
(* wait for it, as long as the shell that kernel_main started has not left *)
(* and no shell has strayed.                                               *)

ShellTypeOK == /\ holders \subseteq Task
               /\ pc \in [Task -> Places]
               /\ creator \in [Task -> Nat] /\ mutex \in [Task -> Nat]

\* A task that is in the queue of a semaphore, or will be moved there when
\* switchTask returns.
Waits(t) == ~Ready(t) \/ (caller.op = "wait" /\ caller.task = t)

\* The shell that kernel_main started, while it is in the loop of main.
Leads(t) == t \in Live /\ id[t] = 1 /\ pc[t] \in {"read", "forked", "delay", "unlock"}

\* Of the mutex, a shell has called mutex_lock last.
Locking(t) == pc[t] = "unlock" \/ (pc[t] = "read" /\ id[t] # 1)

\* A shell that was forked and has not left.
Child(t) == id[t] # 1 /\ pc[t] \notin {"none", "return"}

\* kernel_main starts one shell, with process id 1, and only it forks: it is
\* the creator of all.
ProcessInv ==
    /\ \A t, u \in Task : status[t] = "CREATED" /\ status[u] = "CREATED" => t = u
    /\ \A t \in Task : status[t] = "CREATED" => nextPID = 1
    /\ nextPID = 1 => Allocated = {} /\ holders = {} /\ \A t \in Task : pc[t] = "none"
    /\ \A t \in Task : pc[t] # "none" => id[t] \in 1 .. nextPID - 1
    /\ \A t, u \in Task : pc[t] # "none" /\ pc[u] # "none" /\ id[t] = id[u] => t = u
    /\ \A t \in Task : pc[t] \notin {"none", "main"} => creator[t] = 1
    /\ \A t \in Task : pc[t] \in {"delay", "unlock", "free"} => id[t] = 1
    /\ \A t \in Task : pc[t] = "child" => id[t] # 1
    /\ \A t \in Task : pc[t] = "main" =>
           id[t] = 1 /\ Allocated = {} /\ holders = {} /\ \A u \in Task \ {t} : pc[u] = "none"

\* A task waits only in mutex_lock.
WaiterInv == \A t \in Live : Waits(t) => Locking(t)

\* All shells have the id of semaphore s; it was taken by a holder, and who has
\* called mutex_lock holds it or waits for it.
TheMutex(s) ==
    /\ Allocated = {s}
    /\ \A t \in Task : pc[t] \notin {"none", "main"} => mutex[t] = semaphore[s].id
    /\ semaphore[s].count <= 1
    /\ holders = {} \/ semaphore[s].count = 0
    /\ \A t, u \in holders : t = u
    /\ \A t \in Task : Locking(t) => t \in holders \/ Waits(t)

MutexInv == (\E c \in Task : Leads(c)) => \E s \in Semaphore : TheMutex(s)

\* The parent comes to its loop only when its child has left; and a child that
\* waits for the mutex waits for ever, as nobody has it.
TheReader(c) ==
    /\ pc[c] = "read" => holders = {} /\ \A t \in Task : ~Child(t)
    /\ \A t, u \in Task : Child(t) /\ Child(u) => t = u
    /\ pc[c] \in {"forked", "delay"} => c \notin holders
    /\ \A t \in Task : Child(t) => pc[t] \in {"forked", "child", "read"}
    /\ \A t \in Task : Child(t) /\ pc[t] \in {"forked", "child"} =>
           pc[c] \in {"forked", "delay"} /\ holders = {}
    /\ \A t \in Task : Child(t) /\ pc[t] = "read" /\ t \notin holders =>
           holders = {} /\ \A s \in Allocated : semaphore[s].count = 0

ReaderInv == ~late => \A c \in Task : Leads(c) => TheReader(c)

ProgramsInv == ShellTypeOK /\ ProcessInv /\ WaiterInv /\ MutexInv /\ ReaderInv

ShellInv == IInv /\ ProgramsInv

\* A shell that acts on another one's return value may do anything with the mutex.
StrayInv == IInv /\ (strayed \/ ProgramsInv)
-----------------------------------------------------------------------------
(* Shells are programs of the scheduler. *)

LEMMA ShellStepIsNext == [ShellNext]_shellVars => [Next]_vars
  <1> SUFFICES ASSUME [ShellNext]_shellVars
               PROVE  [Next]_vars
    OBVIOUS
  <1>1. ASSUME Lock \/ Unlock
        PROVE  Program
    BY <1>1 DEF Lock, Unlock, Found, mutex_lock, mutex_unlock, NoSemaphore, Program
  <1>9. ASSUME WrongCall
        PROVE  Program
    BY <1>9 DEF WrongCall, Program
  <1>2. CASE \E t \in Task : MakeShell(t) \/ RunShell(t) \/ ForkShell(t)
    BY <1>2 DEF MakeShell, RunShell, ForkShell, Program, Next
  <1>3. CASE Start_main
    BY <1>3, MutexValue DEF Start_main, mutex_init, Program, Next
  <1>4. CASE ChildLocks \/ ParentLocks \/ ParentUnlocks \/ ExitUnlocks
    BY <1>1, <1>4, <1>9 DEF ChildLocks, ParentLocks, ParentUnlocks, ExitUnlocks, Makes, Next
  <1>5. CASE CreatorFrees
    BY <1>5, <1>9 DEF CreatorFrees, Makes, Found, mutex_free, Refused, Program, Next
  <1>6. CASE Read \/ ForkIsLost \/ Branch \/ DelayOnce \/ ReturnFromMain
    BY <1>6, <1>9 DEF Read, ForkIsLost, Branch, DelayOnce, Makes, ReturnFromMain, Program, Next
  <1>7. CASE KernelStep
    BY <1>7 DEF KernelStep, LockAfterWait, HandlerStep, Handler, Next
  <1>8. CASE UNCHANGED shellVars
    BY <1>8 DEF shellVars, mutexVars
  <1> QED
    BY <1>2, <1>3, <1>4, <1>5, <1>6, <1>7, <1>8 DEF ShellNext, ShellStep

\* Whatever is true of the scheduler and its programs is true of the shells.
THEOREM ShellsAreScheduled == ShellSpec => Spec
  <1>1. ShellInit => Init
    BY DEF ShellInit, MutexInit
  <1> QED
    BY <1>1, ShellStepIsNext, PTL DEF ShellSpec, Spec
-----------------------------------------------------------------------------
(* Who comes to the main queue, and who leaves it. *)

LEMMA StartReady ==
    ASSUME IInv, NEW t \in Task, t \notin Live, Start(t)
    PROVE  \A u \in Task : Ready(u)' <=> Ready(u) \/ u = t
  <1>1. t \in TaskNode \ (Heads \cup Live)
    BY NodesFacts DEF IInv, TaskNode
  <1>2. Partitioned(taskLinks, Heads, Live) /\ taskLinks' = list_add_tail(taskLinks, t, mainQueue)
    BY DEF IInv, QueuesInv, Start
  <1>3. \A q \in Heads, n \in TaskNode :
            Reaches(taskLinks', q, n) <=> Reaches(taskLinks, q, n) \/ (n = t /\ q = mainQueue)
    BY <1>1, <1>2, NodesFacts, PartitionedAdd DEF IInv
  <1> QED
    BY <1>3, NodesFacts DEF Ready, InList, TaskNode, IInv

LEMMA SemInitReady ==
    ASSUME IInv, NEW s \in Semaphore, SemInit(s, 1)
    PROVE  \A u \in Task : Ready(u)' <=> Ready(u)
  <1>1. s \in TaskNode \ (Heads \cup Live)
    BY NodesFacts, NodesDiffer DEF SemInit, Allocated, Heads, TaskNode, IInv
  <1>2. Partitioned(taskLinks, Heads, Live) /\ taskLinks' = INIT_LIST_HEAD(taskLinks, s)
    BY DEF IInv, QueuesInv, SemInit
  <1>3. \A g \in Heads, m \in TaskNode : Reaches(taskLinks', g, m) <=> Reaches(taskLinks, g, m)
    BY <1>1, <1>2, NodesFacts, PartitionedNewHead DEF IInv
  <1> QED
    BY <1>3, NodesFacts DEF Ready, InList, TaskNode, IInv

\* semctl_process wakes a task that was in the queue.
LEMMA WakeReady ==
    ASSUME IInv, Wake
    PROVE  /\ iter \in Allocated
           /\ taskLinks.next[iter] \in Live /\ ~Ready(taskLinks.next[iter])
           /\ \A u \in Task : Ready(u)' <=> Ready(u) \/ u = taskLinks.next[iter]
  <1> DEFINE w == taskLinks.next[iter]
  <1>1. iter \in Allocated /\ iter \in Heads /\ iter # mainQueue
    BY NodesFacts, NodesDiffer DEF Wake, AtSemaphore, IInv, IterInv, Heads
  <1>2. Partitioned(taskLinks, Heads, Live)
    BY DEF IInv, QueuesInv
  <1>3. Reaches(taskLinks, iter, w) /\ w # iter
    BY <1>1, NodesFacts, ReachesFacts DEF Wake, CanWake, list_empty, IInv
  <1>4. taskLinks' = list_move_tail(taskLinks, w, mainQueue)
    BY DEF Wake
  <1> HIDE DEF w
  <1>5. w \in Live /\ w \notin Heads /\ ~Reaches(taskLinks, mainQueue, w)
    BY <1>1, <1>2, <1>3, NodesFacts, OneListEach DEF IInv
  <1>6. /\ Partitioned(list_move_tail(taskLinks, w, mainQueue), Heads, Live)
        /\ \A g \in Heads, n \in TaskNode :
              Reaches(list_move_tail(taskLinks, w, mainQueue), g, n)
                 <=> (Reaches(taskLinks, g, n) /\ n # w) \/ (n = w /\ g = mainQueue)
    <2>1. /\ taskLinks \in Links(TaskNode) /\ w \in Live \ Heads
          /\ Heads \in SUBSET TaskNode /\ Live \in SUBSET TaskNode /\ mainQueue \in Heads
      BY <1>5, NodesFacts DEF IInv
    <2> QED
      BY <1>2, <2>1, PartitionedMoveTail
  <1>7. ~Ready(w) /\ \A u \in Task : Ready(u)' <=> Ready(u) \/ u = w
    BY <1>4, <1>5, <1>6, NodesFacts DEF Ready, InList, TaskNode, IInv
  <1> QED
    BY <1>1, <1>5, <1>7 DEF w

\* semctl moves the task that waits out of the main queue.
LEMMA WaitReady ==
    ASSUME IInv, ResumeFromWait
    PROVE  \A u \in Task : Ready(u)' <=> Ready(u) /\ u # caller.task
  <1>1. /\ caller.op = "wait" /\ caller.semaphore \in Heads /\ caller.semaphore # mainQueue
        /\ Reaches(taskLinks, mainQueue, caller.task) /\ caller.task \in Task
        /\ taskLinks' = list_move(taskLinks, caller.task, caller.semaphore)
    BY NodesFacts, NodesDiffer
       DEF ResumeFromWait, IInv, CallerInv, Heads, Ready, InList, TypeOK, Caller
  <1>2. Partitioned(taskLinks, Heads, Live)
    BY DEF IInv, QueuesInv
  <1>3. caller.task \in Live \ Heads
    BY <1>1, <1>2, NodesFacts, OneListEach DEF IInv
  <1> DEFINE t == caller.task
             s == caller.semaphore
  <1>4. /\ taskLinks \in Links(TaskNode) /\ t \in Live \ Heads /\ s \in Heads /\ s # mainQueue
        /\ Heads \in SUBSET TaskNode /\ Live \in SUBSET TaskNode /\ mainQueue \in Heads
        /\ taskLinks' = list_move(taskLinks, t, s)
    BY <1>1, <1>3, NodesFacts DEF IInv
  <1> HIDE DEF t, s
  <1>5. /\ Partitioned(list_move(taskLinks, t, s), Heads, Live)
        /\ \A g \in Heads, n \in TaskNode :
              Reaches(list_move(taskLinks, t, s), g, n)
                 <=> (Reaches(taskLinks, g, n) /\ n # t) \/ (n = t /\ g = s)
    BY <1>2, <1>4, PartitionedMove
  <1>6. \A u \in Task : Ready(u)' <=> Ready(u) /\ u # t
    BY <1>4, <1>5, NodesFacts DEF Ready, InList, TaskNode, IInv
  <1> QED
    BY <1>6 DEF t

LEMMA DestroyReady ==
    ASSUME IInv, Destroy
    PROVE  iter \in Live /\ \A u \in Task : Ready(u)' <=> Ready(u) /\ u # iter
  <1>1. /\ iter \in Live
        /\ \A q \in Heads, n \in TaskNode :
              Reaches(taskLinks', q, n) <=> Reaches(taskLinks, q, n) /\ n # iter
    BY DestroyFacts DEF IInv
  <1> QED
    BY <1>1, NodesFacts DEF Ready, InList, TaskNode, IInv
-----------------------------------------------------------------------------
(* What the calls of a shell do. *)

\* A task that runs waits for nothing.
LEMMA RunningFacts ==
    ASSUME ShellInv, RunsUser
    PROVE  /\ currentTask \in Task /\ currentTask \in Live /\ currentTask # kernelTask
           /\ phase = "task" /\ caller.op # "wait"
           /\ Ready(currentTask) /\ ~Waits(currentTask)
           /\ \A t : Waits(t) <=> ~Ready(t)
  <1>1. phase = "task" /\ currentTask # kernelTask /\ Ready(currentTask) /\ caller.op # "wait"
    BY DEF ShellInv, IInv, CallerInv, CurrentInv, RunsUser, RunsProgram
  <1>2. currentTask \in Task /\ currentTask \in Live
    BY <1>1, NodesFacts, OneListEach DEF ShellInv, IInv, TypeOK, QueuesInv, Ready, InList
  <1> QED
    BY <1>1, <1>2 DEF Waits

\* While the first shell leads, every call of the mutex finds its semaphore.
LEMMA MutexIsFound ==
    ASSUME ShellInv, NEW s \in Semaphore, TheMutex(s), currentTask \in Task, ~At("none"), ~At("main")
    PROVE  Found = {s} /\ s \in Allocated /\ semaphore[s].count \in {0, 1}
  <1>1. semaphore[s].count \in Nat /\ s \in Allocated /\ semaphore[s].count <= 1
    BY DEF ShellInv, IInv, TypeOK, TheMutex
  <1>2. mutex[currentTask] = semaphore[s].id
    BY DEF TheMutex, At
  <1>3. \A r \in Semaphore : semaphore[r].id # 0 => r = s
    BY DEF TheMutex, Allocated
  <1> QED
    BY <1>1, <1>2, <1>3 DEF Found, Allocated

LEMMA LockEffect ==
    ASSUME ShellInv, Lock
    PROVE  /\ RunsUser
           /\ UNCHANGED <<status, id, nextPID, taskLinks, currentTask, Live, Allocated>>
           /\ \/ /\ Found = {}
                 /\ UNCHANGED <<semaphore, holders, caller>>
              \/ \E s \in Found :
                    /\ semaphore[s].count > 0
                    /\ semaphore' = [semaphore EXCEPT ![s].count = @ - 1]
                    /\ holders' = holders \cup {currentTask}
                    /\ UNCHANGED caller
              \/ \E s \in Found :
                    /\ semaphore[s].count = 0
                    /\ caller'.op = "wait" /\ caller'.task = currentTask
                    /\ UNCHANGED <<semaphore, holders>>
  <1> USE DEF taskVars, semVars, handlerVars
  <1>1. CASE NoSemaphore
    BY <1>1 DEF NoSemaphore, SimpleCall, Live, Allocated
  <1>2. ASSUME NEW s \in Found, SemPass(s), holders' = holders \cup {currentTask}
        PROVE  /\ RunsUser
               /\ UNCHANGED <<status, id, nextPID, taskLinks, currentTask, Live, Allocated, caller>>
               /\ semaphore[s].count > 0
               /\ semaphore' = [semaphore EXCEPT ![s].count = @ - 1]
    <2>1. semaphore' = [semaphore EXCEPT ![s].count = @ - 1]
      BY <1>2 DEF SemPass
    <2>2. UNCHANGED Allocated
      <3>1. \A r \in Semaphore : semaphore'[r].id = semaphore[r].id
        BY <2>1 DEF ShellInv, IInv, TypeOK
      <3> QED
        BY <3>1 DEF Allocated
    <2> QED
      BY <1>2, <2>1, <2>2 DEF SemPass, OnSemaphore, Live
  <1>3. ASSUME NEW s \in Found, SemBlock(s), UNCHANGED holders
        PROVE  /\ RunsUser
               /\ UNCHANGED <<status, id, nextPID, taskLinks, currentTask, Live, Allocated, semaphore>>
               /\ semaphore[s].count = 0
               /\ caller'.op = "wait" /\ caller'.task = currentTask
    BY <1>3 DEF SemBlock, OnSemaphore, BeginSwitch, Live, Allocated
  <1> QED
    BY <1>1, <1>2, <1>3 DEF Lock, mutex_lock

LEMMA UnlockEffect ==
    ASSUME ShellInv, Unlock
    PROVE  /\ RunsUser
           /\ UNCHANGED <<status, id, nextPID, taskLinks, currentTask, Live, Allocated, caller>>
           /\ \A s \in Semaphore : semaphore'[s].id = semaphore[s].id
           /\ \/ /\ Found = {}
                 /\ UNCHANGED <<semaphore, holders>>
              \/ \E s \in Found :
                    /\ semaphore'[s].count \in {semaphore[s].count, semaphore[s].count + 1}
                    /\ holders' = holders \ {currentTask}
  <1> USE DEF taskVars, semVars, handlerVars
  <1>1. CASE NoSemaphore
    BY <1>1 DEF NoSemaphore, SimpleCall, Live, Allocated
  <1>2. ASSUME NEW s \in Found, mutex_unlock(s)
        PROVE  /\ RunsUser
               /\ UNCHANGED <<status, id, nextPID, taskLinks, currentTask, Live, Allocated, caller>>
               /\ \A r \in Semaphore : semaphore'[r].id = semaphore[r].id
               /\ semaphore'[s].count \in {semaphore[s].count, semaphore[s].count + 1}
               /\ holders' = holders \ {currentTask}
    <2>1. semaphore' \in {semaphore, [semaphore EXCEPT ![s].count = @ + 1]}
      BY <1>2 DEF mutex_unlock, SemSignal
    <2>2. \A r \in Semaphore : semaphore'[r].id = semaphore[r].id
      BY <2>1 DEF ShellInv, IInv, TypeOK
    <2>3. semaphore'[s].count \in {semaphore[s].count, semaphore[s].count + 1}
      BY <2>1 DEF ShellInv, IInv, TypeOK, Found
    <2>4. UNCHANGED Allocated
      BY <2>2 DEF Allocated
    <2> QED
      BY <1>2, <2>2, <2>3, <2>4 DEF mutex_unlock, SemSignal, OnSemaphore, Live
  <1> QED
    BY <1>1, <1>2 DEF Unlock

\* The shell that runs comes to another place of its program.
LEMMA GoStep ==
    ASSUME ShellInv, RunsUser, NEW p \in Places, Go(p), ~At("none"), ~At("main"),
           p # "main",
           UNCHANGED <<status, id, nextPID, creator, mutex, taskLinks, currentTask>>,
           p \in {"delay", "unlock", "free"} => id[currentTask] = 1,
           p = "child" => id[currentTask] # 1,
           holders' \subseteq Task,
           \/ caller'.op # "wait"
           \/ /\ caller'.task = currentTask
              /\ p = "unlock" \/ (p = "read" /\ id[currentTask] # 1)
    PROVE  /\ ShellTypeOK' /\ ProcessInv' /\ WaiterInv'
           /\ pc'[currentTask] = p
           /\ \A t \in Task \ {currentTask} : /\ pc'[t] = pc[t]
                                              /\ Waits(t)' <=> Waits(t)
                                              /\ Locking(t)' <=> Locking(t)
                                              /\ Child(t)' <=> Child(t)
           /\ \A t \in Task : id[t] = 1 /\ id[currentTask] = 1 /\ pc[t] # "none" => t = currentTask
  <1>1. /\ currentTask \in Task /\ pc \in [Task -> Places]
        /\ pc' = [pc EXCEPT ![currentTask] = p]
        /\ pc[currentTask] # "none" /\ pc[currentTask] # "main"
    BY RunningFacts DEF Go, ShellInv, ProgramsInv, ShellTypeOK, At
  <1>2. pc'[currentTask] = p /\ \A t \in Task \ {currentTask} : pc'[t] = pc[t]
    BY <1>1
  <1>3. ShellTypeOK'
    BY <1>1 DEF ShellInv, ProgramsInv, ShellTypeOK
  <1>4. nextPID # 1
    BY <1>1 DEF ShellInv, ProgramsInv, ProcessInv
  <1>5. ProcessInv'
    <2>1. /\ \A t, u \in Task : status'[t] = "CREATED" /\ status'[u] = "CREATED" => t = u
          /\ \A t \in Task : status'[t] = "CREATED" => nextPID' = 1
      BY DEF ShellInv, ProgramsInv, ProcessInv
    <2>2. \A t \in Task : pc'[t] # "none" => pc[t] # "none"
      BY <1>1, <1>2
    <2>3. /\ \A t \in Task : pc'[t] # "none" => id'[t] \in 1 .. nextPID' - 1
          /\ \A t, u \in Task : pc'[t] # "none" /\ pc'[u] # "none" /\ id'[t] = id'[u] => t = u
      BY <2>2 DEF ShellInv, ProgramsInv, ProcessInv
    <2>4. \A t \in Task : pc'[t] \notin {"none", "main"} => creator'[t] = 1
      BY <1>1, <1>2 DEF ShellInv, ProgramsInv, ProcessInv
    <2>5. /\ \A t \in Task : pc'[t] \in {"delay", "unlock", "free"} => id'[t] = 1
          /\ \A t \in Task : pc'[t] = "child" => id'[t] # 1
      BY <1>1, <1>2 DEF ShellInv, ProgramsInv, ProcessInv
    <2>6. \A t \in Task : pc'[t] # "main"
      BY <1>1, <1>2 DEF ShellInv, ProgramsInv, ProcessInv
    <2> QED
      BY <1>4, <2>1, <2>3, <2>4, <2>5, <2>6 DEF ProcessInv
  <1>6. \A t \in Task \ {currentTask} : /\ Waits(t)' <=> Waits(t)
                                        /\ Locking(t)' <=> Locking(t)
                                        /\ Child(t)' <=> Child(t)
    BY <1>2, RunningFacts DEF Waits, Locking, Child, Ready
  <1>7. WaiterInv'
    <2>1. UNCHANGED Live
      BY DEF Live
    <2>2. Waits(currentTask)' => Locking(currentTask)'
      BY <1>2, RunningFacts DEF Waits, Locking, Ready
    <2>3. Live \subseteq Task
      BY DEF Live
    <2> QED
      BY <1>6, <2>1, <2>2, <2>3 DEF ShellInv, ProgramsInv, WaiterInv
  <1>8. \A t \in Task : id[t] = 1 /\ id[currentTask] = 1 /\ pc[t] # "none" => t = currentTask
    BY <1>1 DEF ShellInv, ProgramsInv, ProcessInv
  <1> QED
    BY <1>2, <1>3, <1>5, <1>6, <1>7, <1>8
-----------------------------------------------------------------------------
(* The steps that change nothing of the programs. *)

LEMMA QuietStep ==
    ASSUME ShellInv, UNCHANGED <<id, nextPID, semaphore, pc, creator, mutex, late, holders>>,
           Live' \subseteq Live,
           \A t \in Task : status'[t] = "CREATED" <=> status[t] = "CREATED",
           \A t \in Task : Waits(t) => Waits(t)',
           \A t \in Live' : Waits(t)' => Waits(t)
    PROVE  ProgramsInv'
  <1>1. UNCHANGED Allocated
    BY DEF Allocated
  <1>2. ShellTypeOK' /\ ProcessInv'
    BY <1>1 DEF ShellInv, ProgramsInv, ShellTypeOK, ProcessInv
  <1>3. \A t : (Locking(t)' <=> Locking(t)) /\ (Child(t)' <=> Child(t)) /\ (Leads(t)' => Leads(t))
    BY DEF Locking, Child, Leads
  <1>4. WaiterInv'
    BY <1>3 DEF ShellInv, ProgramsInv, WaiterInv
  <1>5. \A s : TheMutex(s) => TheMutex(s)'
    BY <1>1, <1>3 DEF TheMutex
  <1>6. MutexInv'
    BY <1>3, <1>5 DEF ShellInv, ProgramsInv, MutexInv
  <1>7. \A c : TheReader(c) => TheReader(c)'
    BY <1>1, <1>3 DEF TheReader
  <1>8. ReaderInv'
    BY <1>3, <1>7 DEF ShellInv, ProgramsInv, ReaderInv
  <1> QED
    BY <1>2, <1>4, <1>6, <1>8 DEF ProgramsInv

LEMMA CallsAreQuiet ==
    ASSUME ShellInv, Read \/ DelayOnce \/ (Timer /\ UNCHANGED <<holders, programVars>>), ~strayed'
    PROVE  ProgramsInv'
  <1>1. /\ phase = "task"
        /\ UNCHANGED <<id, nextPID, semaphore, pc, creator, mutex, late, holders, taskLinks>>
        /\ caller'.op # "wait"
    BY RunningFacts
       DEF Read, DelayOnce, Makes, WrongCall, SimpleCall, Timer, Yield, BeginSwitch, RunsUser, RunsProgram,
           taskVars, semVars, handlerVars, programVars
  <1>2. status' \in {status, [status EXCEPT ![currentTask] = "YIELD"]}
    BY DEF Read, DelayOnce, Makes, WrongCall, SimpleCall, Timer, Yield, taskVars
  <1>3. currentTask \in Live
    BY NodesFacts, OneListEach DEF ShellInv, IInv, QueuesInv, CurrentInv, Ready, InList
  <1>4. Live' = Live /\ \A t \in Task : status'[t] = "CREATED" <=> status[t] = "CREATED"
    BY <1>2, <1>3 DEF Live, ShellInv, IInv, TypeOK
  <1>5. \A t : Waits(t)' <=> Waits(t)
    <2>1. caller.op # "wait"
      BY <1>1 DEF ShellInv, IInv, CallerInv
    <2> QED
      BY <1>1, <2>1 DEF Waits, Ready
  <1> QED
    BY <1>1, <1>4, <1>5, QuietStep

\* Handlers that wake no task.
LEMMA HandlersAreQuiet ==
    ASSUME ShellInv, HandlerStep, UNCHANGED programVars
    PROVE  ProgramsInv'
  <1>1. UNCHANGED <<id, nextPID, semaphore, pc, creator, mutex, late, holders>>
    BY DEF HandlerStep, SkipSemaphore, BeginWalk, Walk, Preempt, Bury, Destroy, Choose,
           ResumeFromTimer, ResumeFromYield, ResumeFromWait, taskVars, semVars, programVars
  <1>2. Live \subseteq Task /\ Live' \subseteq Task
    BY DEF Live
  <1>3. CASE Destroy
    <2>1. UNCHANGED caller /\ status' = [status EXCEPT ![iter] = "FREE"]
      BY <1>3 DEF Destroy
    <2>2. status[iter] = "ZOMBIE" /\ iter \in Task
      BY <1>3 DEF Destroy, Visits, ShellInv, IInv, IterInv
    <2>3. Live' = Live \ {iter} /\ \A t \in Task : status'[t] = "CREATED" <=> status[t] = "CREATED"
      BY <2>1, <2>2 DEF Live, ShellInv, IInv, TypeOK
    <2>4. \A u \in Task : Ready(u)' <=> Ready(u) /\ u # iter
      BY <1>3, DestroyReady DEF ShellInv
    <2>5. /\ \A t \in Task : Waits(t) => Waits(t)'
          /\ \A t \in Live' : Waits(t)' => Waits(t)
      BY <1>2, <2>1, <2>3, <2>4 DEF Waits
    <2> QED
      BY <1>1, <2>3, <2>5, QuietStep
  <1>4. CASE ResumeFromWait
    <2>1. caller.op = "wait" /\ caller'.op # "wait" /\ UNCHANGED status
      BY <1>4 DEF ResumeFromWait, ToTask
    <2>2. \A t \in Task : Waits(t)' <=> Waits(t)
      BY <1>4, <2>1, WaitReady DEF Waits, ShellInv
    <2>3. UNCHANGED Live
      BY <2>1 DEF Live
    <2> QED
      BY <1>1, <1>2, <2>1, <2>2, <2>3, QuietStep
  <1>5. CASE SkipSemaphore \/ BeginWalk \/ Preempt \/ Bury \/ Choose
             \/ ResumeFromTimer \/ ResumeFromYield
    <2>1. UNCHANGED taskLinks
      BY <1>5 DEF SkipSemaphore, BeginWalk, Preempt, Bury, Choose, ResumeFromTimer,
                  ResumeFromYield, taskVars
    <2>2. UNCHANGED caller \/ (caller.op # "wait" /\ caller'.op # "wait")
      BY <1>5 DEF SkipSemaphore, BeginWalk, Preempt, Bury, Choose, ResumeFromTimer,
                  ResumeFromYield, ToTask
    <2>3. \A t : Waits(t)' <=> Waits(t)
      BY <2>1, <2>2 DEF Waits, Ready
    <2>4. UNCHANGED status \/ /\ iter \in Task /\ status[iter] \in {"RUNNING", "YIELD", "IDLE"}
                              /\ \E st \in {"IDLE", "ZOMBIE", "RUNNING"} :
                                    status' = [status EXCEPT ![iter] = st]
      BY <1>5 DEF SkipSemaphore, BeginWalk, Preempt, Bury, Choose, ResumeFromTimer,
                  ResumeFromYield, Visits, taskVars, ShellInv, IInv, IterInv
    <2>5. Live' = Live /\ \A t \in Task : status'[t] = "CREATED" <=> status[t] = "CREATED"
      BY <2>4 DEF Live, ShellInv, IInv, TypeOK
    <2> QED
      BY <1>1, <2>3, <2>5, QuietStep
  <1> QED
    BY <1>3, <1>4, <1>5 DEF HandlerStep, Walk
-----------------------------------------------------------------------------
(* The steps of kernel_main and of the shells. *)

LEMMA ChildLocksStep ==
    ASSUME ShellInv, ChildLocks, ~strayed'
    PROVE  ProgramsInv'
  <1>1. /\ At("child") /\ Lock /\ Go("read")
        /\ UNCHANGED <<creator, mutex, late>>
    BY DEF ChildLocks, Makes, WrongCall
  <1>2. /\ RunsUser
        /\ UNCHANGED <<status, id, nextPID, taskLinks, currentTask, Live, Allocated>>
        /\ \/ /\ Found = {}
              /\ UNCHANGED <<semaphore, holders, caller>>
           \/ \E s \in Found :
                 /\ semaphore[s].count > 0
                 /\ semaphore' = [semaphore EXCEPT ![s].count = @ - 1]
                 /\ holders' = holders \cup {currentTask}
                 /\ UNCHANGED caller
           \/ \E s \in Found :
                 /\ semaphore[s].count = 0
                 /\ caller'.op = "wait" /\ caller'.task = currentTask
                 /\ UNCHANGED <<semaphore, holders>>
    BY <1>1, LockEffect
  <1>3. /\ currentTask \in Task /\ caller.op # "wait" /\ id[currentTask] # 1
        /\ currentTask \in Live /\ pc[currentTask] = "child" /\ UNCHANGED currentTask
    BY <1>1, <1>2, RunningFacts DEF At, ShellInv, ProgramsInv, ProcessInv
  <1>4. holders' \subseteq Task
    BY <1>2, <1>3 DEF ShellInv, ProgramsInv, ShellTypeOK
  <1>5. /\ ShellTypeOK' /\ ProcessInv' /\ WaiterInv'
        /\ pc'[currentTask] = "read"
        /\ \A t \in Task \ {currentTask} : /\ pc'[t] = pc[t]
                                           /\ Waits(t)' <=> Waits(t)
                                           /\ Locking(t)' <=> Locking(t)
                                           /\ Child(t)' <=> Child(t)
    BY <1>1, <1>2, <1>3, <1>4, GoStep DEF At, Places
  <1>6. ASSUME NEW c \in Task, Leads(c)'
        PROVE  c # currentTask /\ Leads(c)
    BY <1>2, <1>3, <1>5, <1>6 DEF Leads
  <1>7. ASSUME NEW c \in Task, Leads(c), NEW s \in Semaphore, TheMutex(s)
        PROVE  TheMutex(s)' /\ (~late /\ c # currentTask => TheReader(c)')
    <2>1. Found = {s} /\ s \in Allocated /\ semaphore[s].count \in {0, 1}
      BY <1>1, <1>3, <1>7, MutexIsFound DEF At
    <2>2. /\ semaphore'[s].id = semaphore[s].id
          /\ \/ /\ semaphore[s].count = 1 /\ semaphore'[s].count = 0 /\ UNCHANGED caller
                /\ holders = {} /\ holders' = {currentTask}
             \/ /\ semaphore[s].count = 0 /\ semaphore'[s].count = 0
                /\ caller'.op = "wait" /\ caller'.task = currentTask /\ UNCHANGED holders
      BY <1>2, <1>7, <2>1 DEF ShellInv, IInv, TypeOK, TheMutex
    <2>3. Allocated' = {s} /\ Allocated = {s}
      BY <1>2, <1>7 DEF TheMutex
    <2>4. \A t \in Task : pc'[t] \notin {"none", "main"} => mutex'[t] = semaphore'[s].id
      BY <1>1, <1>3, <1>5, <1>7, <2>2 DEF TheMutex
    <2>5. \A t \in Task : t = currentTask => t \in holders' \/ Waits(t)'
      BY <1>3, <2>2 DEF Waits
    <2>6. \A t \in Task : Locking(t)' => t \in holders' \/ Waits(t)'
      BY <1>5, <1>7, <2>2, <2>5 DEF TheMutex
    <2>7. TheMutex(s)'
      BY <1>7, <2>2, <2>3, <2>4, <2>6 DEF TheMutex
    <2>8. ASSUME ~late, c # currentTask
          PROVE  TheReader(c)'
      <3>1. TheReader(c)
        BY <1>7, <2>8 DEF ShellInv, ProgramsInv, ReaderInv
      <3>2. Child(currentTask)
        BY <1>2, <1>3, <1>5 DEF Child
      <3>3. pc[c] \in {"forked", "delay"} /\ pc'[c] = pc[c] /\ holders = {}
        BY <1>3, <1>5, <2>8, <3>1, <3>2 DEF TheReader
      <3>4. \A t \in Task : Child(t)' => t = currentTask
        BY <1>3, <1>5, <3>1, <3>2 DEF TheReader
      <3>5. currentTask \notin holders' => semaphore'[s].count = 0 /\ holders' = {}
        BY <2>2, <3>3
      <3> QED
        BY <1>5, <2>2, <2>3, <2>8, <3>3, <3>4, <3>5 DEF TheReader
    <2> QED
      BY <2>7, <2>8
  <1>8. MutexInv' /\ ReaderInv'
    <2> SUFFICES ASSUME NEW c \in Task, Leads(c)'
                 PROVE  /\ \E s \in Semaphore : TheMutex(s)'
                        /\ ~late' => TheReader(c)'
      BY DEF MutexInv, ReaderInv
    <2>1. PICK s \in Semaphore : TheMutex(s)
      BY <1>6 DEF ShellInv, ProgramsInv, MutexInv
    <2> QED
      BY <1>1, <1>6, <1>7, <2>1
  <1> QED
    BY <1>5, <1>8 DEF ProgramsInv

LEMMA ParentLocksStep ==
    ASSUME ShellInv, ParentLocks, ~strayed'
    PROVE  ProgramsInv'
  <1>1. /\ At("delay") /\ Lock /\ Go("unlock")
        /\ UNCHANGED <<creator, mutex>>
        /\ late' = (late \/ \E t \in Task : pc[t] \in {"forked", "child"})
    BY DEF ParentLocks, Makes, WrongCall
  <1>2. /\ RunsUser
        /\ UNCHANGED <<status, id, nextPID, taskLinks, currentTask, Live, Allocated>>
        /\ \/ /\ Found = {}
              /\ UNCHANGED <<semaphore, holders, caller>>
           \/ \E s \in Found :
                 /\ semaphore[s].count > 0
                 /\ semaphore' = [semaphore EXCEPT ![s].count = @ - 1]
                 /\ holders' = holders \cup {currentTask}
                 /\ UNCHANGED caller
           \/ \E s \in Found :
                 /\ semaphore[s].count = 0
                 /\ caller'.op = "wait" /\ caller'.task = currentTask
                 /\ UNCHANGED <<semaphore, holders>>
    BY <1>1, LockEffect
  <1>3. /\ currentTask \in Task /\ caller.op # "wait" /\ id[currentTask] = 1
        /\ currentTask \in Live /\ pc[currentTask] = "delay" /\ UNCHANGED currentTask
    BY <1>1, <1>2, RunningFacts DEF At, ShellInv, ProgramsInv, ProcessInv
  <1>4. holders' \subseteq Task
    BY <1>2, <1>3 DEF ShellInv, ProgramsInv, ShellTypeOK
  <1>5. /\ ShellTypeOK' /\ ProcessInv' /\ WaiterInv'
        /\ pc'[currentTask] = "unlock"
        /\ \A t \in Task \ {currentTask} : /\ pc'[t] = pc[t]
                                           /\ Waits(t)' <=> Waits(t)
                                           /\ Locking(t)' <=> Locking(t)
                                           /\ Child(t)' <=> Child(t)
        /\ \A t \in Task : id[t] = 1 /\ id[currentTask] = 1 /\ pc[t] # "none" => t = currentTask
    BY <1>1, <1>2, <1>3, <1>4, GoStep DEF At, Places
  <1>6. Leads(currentTask) /\ \A c \in Task : Leads(c)' => c = currentTask
    BY <1>2, <1>3, <1>5 DEF Leads
  <1>7. PICK s \in Semaphore : TheMutex(s)
    BY <1>3, <1>6 DEF ShellInv, ProgramsInv, MutexInv
  <1>8. Found = {s} /\ s \in Allocated /\ semaphore[s].count \in {0, 1}
    BY <1>1, <1>3, <1>7, MutexIsFound DEF At
  <1>9. /\ semaphore'[s].id = semaphore[s].id
        /\ \/ /\ semaphore[s].count = 1 /\ semaphore'[s].count = 0 /\ UNCHANGED caller
              /\ holders = {} /\ holders' = {currentTask}
           \/ /\ semaphore[s].count = 0 /\ semaphore'[s].count = 0
              /\ caller'.op = "wait" /\ caller'.task = currentTask /\ UNCHANGED holders
    BY <1>2, <1>7, <1>8 DEF ShellInv, IInv, TypeOK, TheMutex
  <1>10. Allocated' = {s} /\ Allocated = {s}
    BY <1>2, <1>7 DEF TheMutex
  <1>11. \A t \in Task : pc'[t] \notin {"none", "main"} => mutex'[t] = semaphore'[s].id
    BY <1>1, <1>3, <1>5, <1>7, <1>9 DEF TheMutex
  <1>12. \A t \in Task : t = currentTask => t \in holders' \/ Waits(t)'
    BY <1>3, <1>9 DEF Waits
  <1>13. \A t \in Task : Locking(t)' => t \in holders' \/ Waits(t)'
    BY <1>5, <1>7, <1>9, <1>12 DEF TheMutex
  <1>14. MutexInv'
    BY <1>7, <1>9, <1>10, <1>11, <1>13 DEF TheMutex, MutexInv
  <1>15. ASSUME ~late'
         PROVE  TheReader(currentTask)'
    <2>1. TheReader(currentTask) /\ ~\E t \in Task : pc[t] \in {"forked", "child"}
      BY <1>1, <1>3, <1>6, <1>15 DEF ShellInv, ProgramsInv, ReaderInv
    <2>2. ~Child(currentTask) /\ \A t \in Task : t = currentTask => ~Child(t)'
      BY <1>2, <1>3 DEF Child
    <2>3. \A t \in Task : Child(t) => pc[t] = "read"
      BY <2>1 DEF TheReader
    <2>4. semaphore[s].count = 1 => \A t \in Task : ~Child(t)
      BY <1>9, <1>10, <2>1, <2>3 DEF TheReader
    <2>5. \A t, u \in Task : Child(t)' /\ Child(u)' => t = u
      BY <1>5, <2>1, <2>2 DEF TheReader
    <2>6. \A t \in Task : Child(t)' => pc'[t] = "read"
      BY <1>5, <2>2, <2>3
    <2>7. \A t \in Task : Child(t)' /\ t \notin holders' =>
              holders' = {} /\ \A r \in Allocated' : semaphore'[r].count = 0
      BY <1>5, <1>9, <1>10, <2>1, <2>2, <2>3, <2>4 DEF TheReader
    <2> QED
      BY <1>3, <1>5, <2>5, <2>6, <2>7 DEF TheReader
  <1>16. ReaderInv'
    BY <1>3, <1>6, <1>15 DEF ReaderInv
  <1> QED
    BY <1>5, <1>14, <1>16 DEF ProgramsInv

\* Who unlocks the mutex, while the first shell leads, has it.
LEMMA ParentUnlocksStep ==
    ASSUME ShellInv, ParentUnlocks, ~strayed'
    PROVE  ProgramsInv'
  <1>1. /\ At("unlock") /\ Unlock /\ Go("read")
        /\ UNCHANGED <<creator, mutex, late>>
    BY DEF ParentUnlocks, Makes, WrongCall
  <1>2. /\ RunsUser
        /\ UNCHANGED <<status, id, nextPID, taskLinks, currentTask, Live, Allocated, caller>>
        /\ \A s \in Semaphore : semaphore'[s].id = semaphore[s].id
        /\ \/ /\ Found = {}
              /\ UNCHANGED <<semaphore, holders>>
           \/ \E s \in Found :
                 /\ semaphore'[s].count \in {semaphore[s].count, semaphore[s].count + 1}
                 /\ holders' = holders \ {currentTask}
    BY <1>1, UnlockEffect
  <1>3. /\ currentTask \in Task /\ caller.op # "wait" /\ id[currentTask] = 1
        /\ currentTask \in Live /\ pc[currentTask] = "unlock" /\ UNCHANGED currentTask
        /\ ~Waits(currentTask)
    BY <1>1, <1>2, RunningFacts DEF At, ShellInv, ProgramsInv, ProcessInv
  <1>4. holders' \subseteq Task /\ caller'.op # "wait"
    BY <1>2, <1>3 DEF ShellInv, ProgramsInv, ShellTypeOK
  <1>5. /\ ShellTypeOK' /\ ProcessInv' /\ WaiterInv'
        /\ pc'[currentTask] = "read"
        /\ \A t \in Task \ {currentTask} : /\ pc'[t] = pc[t]
                                           /\ Waits(t)' <=> Waits(t)
                                           /\ Locking(t)' <=> Locking(t)
                                           /\ Child(t)' <=> Child(t)
        /\ \A t \in Task : id[t] = 1 /\ id[currentTask] = 1 /\ pc[t] # "none" => t = currentTask
    BY <1>1, <1>2, <1>3, <1>4, GoStep DEF At, Places
  <1>6. Leads(currentTask) /\ \A c \in Task : Leads(c)' => c = currentTask
    BY <1>2, <1>3, <1>5 DEF Leads
  <1>7. PICK s \in Semaphore : TheMutex(s)
    BY <1>3, <1>6 DEF ShellInv, ProgramsInv, MutexInv
  <1>8. Found = {s} /\ s \in Allocated /\ semaphore[s].count \in {0, 1}
    BY <1>1, <1>3, <1>7, MutexIsFound DEF At
  <1>9. currentTask \in holders
    BY <1>3, <1>7 DEF TheMutex, Locking
  <1>10. holders = {currentTask} /\ holders' = {} /\ semaphore'[s].count <= 1
    BY <1>2, <1>3, <1>7, <1>8, <1>9 DEF TheMutex
  <1>11. Allocated' = {s} /\ Allocated = {s} /\ semaphore'[s].id = semaphore[s].id
    BY <1>2, <1>7 DEF TheMutex
  <1>12. \A t \in Task : pc'[t] \notin {"none", "main"} => mutex'[t] = semaphore'[s].id
    BY <1>1, <1>3, <1>5, <1>7, <1>11 DEF TheMutex
  <1>13. \A t \in Task : t = currentTask => ~Locking(t)'
    BY <1>2, <1>3, <1>5 DEF Locking
  <1>14. \A t \in Task : Locking(t)' => Waits(t)'
    BY <1>5, <1>7, <1>10, <1>13 DEF TheMutex
  <1>15. MutexInv'
    BY <1>10, <1>11, <1>12, <1>14 DEF TheMutex, MutexInv
  <1>16. ASSUME ~late'
         PROVE  TheReader(currentTask)'
    <2>1. TheReader(currentTask)
      BY <1>1, <1>3, <1>6, <1>16 DEF ShellInv, ProgramsInv, ReaderInv
    <2>2. ~Child(currentTask) /\ \A t \in Task : t = currentTask => ~Child(t)'
      BY <1>2, <1>3 DEF Child
    <2>3. \A t \in Task : ~Child(t)
      BY <1>3, <1>10, <2>1, <2>2 DEF TheReader
    <2>4. \A t \in Task : ~Child(t)'
      BY <1>5, <2>2, <2>3
    <2> QED
      BY <1>3, <1>5, <1>10, <2>4 DEF TheReader
  <1>17. ReaderInv'
    BY <1>3, <1>6, <1>16 DEF ReaderInv
  <1> QED
    BY <1>5, <1>15, <1>17 DEF ProgramsInv

\* The first shell leads no more.
LEMMA NobodyLeads ==
    ASSUME ShellTypeOK', ProcessInv', WaiterInv', \A c \in Task : ~Leads(c)'
    PROVE  ProgramsInv'
  BY DEF ProgramsInv, MutexInv, ReaderInv

LEMMA ExitUnlocksStep ==
    ASSUME ShellInv, ExitUnlocks, ~strayed'
    PROVE  ProgramsInv'
  <1> DEFINE p == IF IsCreator THEN "free" ELSE "return"
  <1>1. /\ At("read") /\ Unlock /\ Go(p)
        /\ UNCHANGED <<creator, mutex, late>>
    BY DEF ExitUnlocks, Tests, WrongCall
  <1>2. /\ RunsUser
        /\ UNCHANGED <<status, id, nextPID, taskLinks, currentTask, Live, Allocated, caller>>
        /\ \A s \in Semaphore : semaphore'[s].id = semaphore[s].id
        /\ \/ /\ Found = {}
              /\ UNCHANGED <<semaphore, holders>>
           \/ \E s \in Found :
                 /\ semaphore'[s].count \in {semaphore[s].count, semaphore[s].count + 1}
                 /\ holders' = holders \ {currentTask}
    BY <1>1, UnlockEffect
  <1>3. /\ currentTask \in Task /\ caller.op # "wait"
        /\ currentTask \in Live /\ pc[currentTask] = "read" /\ UNCHANGED currentTask
        /\ ~Waits(currentTask) /\ creator[currentTask] = 1
    BY <1>1, <1>2, RunningFacts DEF At, ShellInv, ProgramsInv, ProcessInv
  <1>4. holders' \subseteq Task /\ caller'.op # "wait"
    BY <1>2, <1>3 DEF ShellInv, ProgramsInv, ShellTypeOK
  <1>5. p \in {"free", "return"} /\ (p = "free" <=> id[currentTask] = 1)
    BY <1>3 DEF IsCreator
  <1> HIDE DEF p
  <1>6. /\ ShellTypeOK' /\ ProcessInv' /\ WaiterInv'
        /\ pc'[currentTask] = p
        /\ \A t \in Task \ {currentTask} : /\ pc'[t] = pc[t]
                                           /\ Waits(t)' <=> Waits(t)
                                           /\ Locking(t)' <=> Locking(t)
                                           /\ Child(t)' <=> Child(t)
        /\ \A t \in Task : id[t] = 1 /\ id[currentTask] = 1 /\ pc[t] # "none" => t = currentTask
    BY <1>1, <1>2, <1>3, <1>4, <1>5, GoStep DEF At, Places
  <1>7. CASE id[currentTask] = 1
    <2>1. \A c \in Task : ~Leads(c)'
      BY <1>2, <1>3, <1>5, <1>6, <1>7 DEF Leads
    <2> QED
      BY <1>6, <2>1, NobodyLeads
  <1>8. ASSUME id[currentTask] # 1, NEW c \in Task, Leads(c)'
        PROVE  (\E s \in Semaphore : TheMutex(s)') /\ (~late => TheReader(c)')
    <2>1. Leads(c) /\ c # currentTask
      BY <1>2, <1>3, <1>6, <1>8 DEF Leads
    <2>2. PICK s \in Semaphore : TheMutex(s)
      BY <2>1 DEF ShellInv, ProgramsInv, MutexInv
    <2>3. Found = {s} /\ s \in Allocated /\ semaphore[s].count \in {0, 1}
      BY <1>1, <1>3, <2>2, MutexIsFound DEF At
    <2>4. currentTask \in holders
      BY <1>3, <1>8, <2>2 DEF TheMutex, Locking
    <2>5. holders = {currentTask} /\ holders' = {} /\ semaphore'[s].count <= 1
      BY <1>2, <1>3, <2>2, <2>3, <2>4 DEF TheMutex
    <2>6. Allocated' = {s} /\ Allocated = {s} /\ semaphore'[s].id = semaphore[s].id
      BY <1>2, <2>2 DEF TheMutex
    <2>7. \A t \in Task : pc'[t] \notin {"none", "main"} => mutex'[t] = semaphore'[s].id
      BY <1>1, <1>3, <1>6, <2>2, <2>6 DEF TheMutex
    <2>8. \A t \in Task : t = currentTask => ~Locking(t)' /\ ~Child(t)'
      BY <1>2, <1>3, <1>5, <1>6, <1>8 DEF Locking, Child
    <2>9. \A t \in Task : Locking(t)' => Waits(t)'
      BY <1>6, <2>2, <2>5, <2>8 DEF TheMutex
    <2>10. TheMutex(s)'
      BY <2>5, <2>6, <2>7, <2>9 DEF TheMutex
    <2>11. ASSUME ~late
           PROVE  TheReader(c)'
      <3>1. TheReader(c) /\ Child(currentTask)
        BY <1>3, <1>8, <2>1, <2>11 DEF ShellInv, ProgramsInv, ReaderInv, Child
      <3>2. \A t \in Task : ~Child(t)'
        BY <1>3, <1>6, <2>8, <3>1 DEF TheReader
      <3> QED
        BY <2>5, <3>2 DEF TheReader
    <2> QED
      BY <2>10, <2>11
  <1>9. CASE id[currentTask] # 1
    BY <1>1, <1>6, <1>8, <1>9 DEF ProgramsInv, MutexInv, ReaderInv
  <1> QED
    BY <1>7, <1>9

LEMMA CreatorFreesStep ==
    ASSUME ShellInv, CreatorFrees, ~strayed'
    PROVE  ProgramsInv'
  <1>1. /\ At("free") /\ Go("return") /\ UNCHANGED <<creator, mutex, late>>
        /\ RunsUser
        /\ UNCHANGED <<status, id, nextPID, taskLinks, currentTask, holders, caller>>
    BY DEF CreatorFrees, Makes, WrongCall, mutex_free, SemFree, OnSemaphore, Refused, SimpleCall, taskVars, handlerVars
  <1>2. /\ currentTask \in Task /\ caller.op # "wait" /\ id[currentTask] = 1
    BY <1>1, RunningFacts DEF At, ShellInv, ProgramsInv, ProcessInv
  <1>3. holders' \subseteq Task /\ caller'.op # "wait"
    BY <1>1, <1>2 DEF ShellInv, ProgramsInv, ShellTypeOK
  <1>4. /\ ShellTypeOK' /\ ProcessInv' /\ WaiterInv'
        /\ pc'[currentTask] = "return"
        /\ \A t \in Task \ {currentTask} : pc'[t] = pc[t]
        /\ \A t \in Task : id[t] = 1 /\ id[currentTask] = 1 /\ pc[t] # "none" => t = currentTask
    BY <1>1, <1>2, <1>3, GoStep DEF At, Places
  <1>5. \A c \in Task : ~Leads(c)'
    BY <1>1, <1>2, <1>4 DEF Leads
  <1> QED
    BY <1>4, <1>5, NobodyLeads

LEMMA ReturnFromMainStep ==
    ASSUME ShellInv, ReturnFromMain
    PROVE  ProgramsInv'
  <1>1. /\ At("return") /\ Go("none") /\ UNCHANGED <<creator, mutex, late>>
        /\ RunsUser
        /\ UNCHANGED <<status, id, nextPID, taskLinks, currentTask, holders, caller, semaphore>>
        /\ UNCHANGED <<Live, Allocated>>
    BY DEF ReturnFromMain, Exit, taskVars, semVars, handlerVars, Live, Allocated
  <1>2. /\ currentTask \in Task /\ caller.op # "wait"
    BY <1>1, RunningFacts
  <1>3. holders' \subseteq Task /\ caller'.op # "wait"
    BY <1>1, <1>2 DEF ShellInv, ProgramsInv, ShellTypeOK
  <1>4. /\ ShellTypeOK' /\ ProcessInv' /\ WaiterInv'
        /\ pc'[currentTask] = "none"
        /\ \A t \in Task \ {currentTask} : /\ pc'[t] = pc[t]
                                           /\ Waits(t)' <=> Waits(t)
                                           /\ Locking(t)' <=> Locking(t)
                                           /\ Child(t)' <=> Child(t)
    BY <1>1, <1>2, <1>3, GoStep DEF At, Places
  <1>5. \A t \in Task : t = currentTask => ~Leads(t)' /\ ~Locking(t)' /\ ~Child(t)'
    BY <1>1, <1>4 DEF Leads, Locking, Child
  <1>6. ASSUME NEW c \in Task, Leads(c)'
        PROVE  c # currentTask /\ Leads(c) /\ pc'[c] = pc[c]
    BY <1>1, <1>4, <1>5, <1>6 DEF Leads
  <1>7. ASSUME NEW s \in Semaphore, TheMutex(s)
        PROVE  TheMutex(s)'
    <2>1. \A t \in Task : Locking(t)' => t \in holders' \/ Waits(t)'
      BY <1>1, <1>4, <1>5, <1>7 DEF TheMutex
    <2>2. \A t \in Task : pc'[t] \notin {"none", "main"} => mutex'[t] = semaphore'[s].id
      BY <1>1, <1>4, <1>7 DEF TheMutex
    <2> QED
      BY <1>1, <1>7, <2>1, <2>2 DEF TheMutex
  <1>8. ASSUME NEW c \in Task, c # currentTask, TheReader(c)
        PROVE  TheReader(c)'
    <2>1. \A t \in Task : Child(t)' => Child(t) /\ pc'[t] = pc[t]
      BY <1>4, <1>5
    <2> QED
      BY <1>1, <1>4, <1>8, <2>1 DEF TheReader
  <1> QED
    BY <1>1, <1>4, <1>6, <1>7, <1>8 DEF ShellInv, ProgramsInv, MutexInv, ReaderInv

\* The task that semctl_process takes off the queue is the first shell: a child
\* that waits does so for ever.
LEMMA LockAfterWaitStep ==
    ASSUME ShellInv, LockAfterWait, UNCHANGED programVars
    PROVE  ProgramsInv'
  <1> DEFINE w == taskLinks.next[iter]
  <1>1. /\ UNCHANGED <<pc, creator, mutex, late, status, id, nextPID, caller, Live>>
        /\ holders' = holders \cup {w}
        /\ CanWake(iter) /\ semaphore' = [semaphore EXCEPT ![iter].count = @ - 1]
    BY DEF LockAfterWait, Wake, programVars, Live
  <1>2. /\ iter \in Allocated /\ w \in Live /\ ~Ready(w)
        /\ \A u \in Task : Ready(u)' <=> Ready(u) \/ u = w
    BY WakeReady DEF LockAfterWait, ShellInv
  <1> HIDE DEF w
  <1>3. Live \subseteq Task /\ w \in Task
    BY <1>2 DEF Live
  <1>4. Waits(w) /\ \A u \in Task \ {w} : Waits(u)' <=> Waits(u)
    BY <1>1, <1>2 DEF Waits
  <1>5. \A t : (Locking(t)' <=> Locking(t)) /\ (Child(t)' <=> Child(t)) /\ (Leads(t)' <=> Leads(t))
    BY <1>1 DEF Locking, Child, Leads
  <1>6. Locking(w)
    BY <1>2, <1>4 DEF ShellInv, ProgramsInv, WaiterInv
  <1>7. ShellTypeOK'
    BY <1>1, <1>3 DEF ShellInv, ProgramsInv, ShellTypeOK
  <1>8. \A r \in Semaphore : semaphore'[r].id = semaphore[r].id
    BY <1>1 DEF ShellInv, IInv, TypeOK
  <1>9. UNCHANGED Allocated
    BY <1>8 DEF Allocated
  <1>10. ProcessInv'
    <2>1. nextPID # 1 /\ \A t \in Task : pc[t] # "main"
      BY <1>2 DEF ShellInv, ProgramsInv, ProcessInv
    <2> QED
      BY <1>1, <2>1 DEF ShellInv, ProgramsInv, ProcessInv
  <1>11. WaiterInv'
    BY <1>1, <1>3, <1>4, <1>5, <1>6 DEF ShellInv, ProgramsInv, WaiterInv
  <1>12. ASSUME NEW c \in Task, Leads(c)
         PROVE  (\E s \in Semaphore : TheMutex(s)') /\ (~late => TheReader(c)')
    <2>1. PICK s \in Semaphore : TheMutex(s)
      BY <1>12 DEF ShellInv, ProgramsInv, MutexInv
    <2>2. iter = s /\ Allocated = {s} /\ semaphore[s].count \in Nat
      BY <1>2, <2>1 DEF TheMutex, ShellInv, IInv, TypeOK
    <2>3. /\ semaphore[s].count = 1 /\ semaphore'[s].count = 0
          /\ holders = {} /\ holders' = {w}
      BY <1>1, <2>1, <2>2 DEF TheMutex, CanWake, ShellInv, IInv, TypeOK
    <2>4. \A t \in Task : Locking(t)' => t \in holders' \/ Waits(t)'
      BY <1>4, <1>5, <2>1, <2>3 DEF TheMutex
    <2>5. TheMutex(s)'
      BY <1>1, <1>8, <1>9, <2>1, <2>3, <2>4 DEF TheMutex
    <2>6. ASSUME ~late
          PROVE  TheReader(c)'
      <3>1. TheReader(c)
        BY <1>12, <2>6 DEF ShellInv, ProgramsInv, ReaderInv
      <3>2. \A t \in Task : Child(t) => pc[t] \in {"forked", "child"}
        BY <2>2, <2>3, <3>1 DEF TheReader
      <3>3. pc[w] = "unlock" /\ id[w] = 1
        BY <1>3, <1>6, <3>2 DEF Locking, Child, ShellInv, ProgramsInv, ProcessInv
      <3>4. w = c
        BY <1>3, <1>12, <3>3 DEF Leads, ShellInv, ProgramsInv, ProcessInv
      <3>5. \A t \in Task : ~Child(t)
        BY <3>1, <3>2, <3>3, <3>4 DEF TheReader
      <3> QED
        BY <1>1, <1>5, <3>3, <3>4, <3>5 DEF TheReader
    <2> QED
      BY <2>5, <2>6
  <1>13. MutexInv' /\ ReaderInv'
    BY <1>1, <1>5, <1>12 DEF MutexInv, ReaderInv
  <1> QED
    BY <1>7, <1>10, <1>11, <1>13 DEF ProgramsInv

\* kernel_main makes the first shell.
LEMMA MakeShellStep ==
    ASSUME ShellInv, NEW t \in Task, MakeShell(t)
    PROVE  ProgramsInv'
  <1>1. /\ nextPID = 1 /\ \A u \in Task : status[u] # "CREATED"
        /\ status[t] = "FREE" /\ status' = [status EXCEPT ![t] = "CREATED"]
        /\ UNCHANGED <<holders, pc, creator, mutex, yields, late, nextPID, taskLinks, semaphore, caller>>
    BY DEF MakeShell, MakeTask, programVars, semVars, handlerVars
  <1>2. UNCHANGED Allocated /\ UNCHANGED Live
    BY <1>1 DEF Allocated, Live, ShellInv, IInv, TypeOK
  <1>3. \A u \in Task : pc[u] = "none" /\ pc'[u] = "none"
    BY <1>1 DEF ShellInv, ProgramsInv, ProcessInv
  <1>4. ShellTypeOK'
    BY <1>1 DEF ShellInv, ProgramsInv, ShellTypeOK
  <1>5. \A u \in Task : status'[u] = "CREATED" => u = t
    BY <1>1 DEF ShellInv, IInv, TypeOK
  <1>6. ProcessInv'
    BY <1>1, <1>2, <1>3, <1>5 DEF ShellInv, ProgramsInv, ProcessInv
  <1>7. WaiterInv'
    <2>1. \A u \in Live : ~Waits(u)
      BY <1>3 DEF ShellInv, ProgramsInv, WaiterInv, Locking, Live
    <2>2. \A u : Waits(u)' <=> Waits(u)
      BY <1>1 DEF Waits, Ready
    <2> QED
      BY <1>2, <2>1, <2>2 DEF WaiterInv
  <1>8. \A c \in Task : ~Leads(c)'
    BY <1>3 DEF Leads
  <1> QED
    BY <1>4, <1>6, <1>7, <1>8, NobodyLeads

LEMMA RunShellStep ==
    ASSUME ShellInv, NEW t \in Task, RunShell(t)
    PROVE  ProgramsInv'
  <1>1. /\ status[t] = "CREATED" /\ Start(t)
        /\ pc' = [pc EXCEPT ![t] = "main"]
        /\ UNCHANGED <<holders, creator, mutex, late, semaphore, caller>>
    BY DEF RunShell, RunTask, semVars, handlerVars
  <1>2. /\ nextPID = 1 /\ Allocated = {} /\ holders = {}
        /\ \A u \in Task : pc[u] = "none" /\ (status[u] = "CREATED" => u = t)
    BY <1>1 DEF ShellInv, ProgramsInv, ProcessInv
  <1>3. /\ nextPID' = 2 /\ status' = [status EXCEPT ![t] = "IDLE"] /\ id' = [id EXCEPT ![t] = 1]
    BY <1>1, <1>2 DEF Start
  <1>4. /\ Allocated' = {} /\ Live' = Live \cup {t} /\ t \notin Live
        /\ id'[t] = 1 /\ \A u \in Task : status'[u] # "CREATED"
    BY <1>1, <1>2, <1>3 DEF Allocated, Live, ShellInv, IInv, TypeOK
  <1>5. pc'[t] = "main" /\ \A u \in Task \ {t} : pc'[u] = "none"
    BY <1>1, <1>2 DEF ShellInv, ProgramsInv, ShellTypeOK
  <1>6. ShellTypeOK'
    BY <1>1 DEF ShellInv, ProgramsInv, ShellTypeOK, Places
  <1>7. ProcessInv'
    BY <1>1, <1>2, <1>3, <1>4, <1>5 DEF ProcessInv
  <1>8. WaiterInv'
    <2>1. \A u \in Live : ~Waits(u)
      BY <1>2 DEF ShellInv, ProgramsInv, WaiterInv, Locking, Live
    <2>2. \A u \in Task : Ready(u)' <=> Ready(u) \/ u = t
      BY <1>1, <1>4, StartReady DEF ShellInv
    <2>3. phase = "task" /\ caller.op # "wait" /\ UNCHANGED caller
      BY <1>1 DEF RunShell, RunTask, RunsKernel, ShellInv, IInv, CallerInv
    <2>4. \A u \in Live' : ~Waits(u)'
      BY <1>4, <2>1, <2>2, <2>3 DEF Waits, Live
    <2> QED
      BY <2>4 DEF WaiterInv
  <1>9. \A c \in Task : ~Leads(c)'
    BY <1>5 DEF Leads
  <1> QED
    BY <1>6, <1>7, <1>8, <1>9, NobodyLeads

LEMMA StartMainStep ==
    ASSUME ShellInv, Start_main
    PROVE  ProgramsInv'
  <1>1. PICK s \in Semaphore : /\ At("main") /\ SemInit(s, 1)
                               /\ creator' = [creator EXCEPT ![currentTask] = id[currentTask]]
                               /\ mutex' = [mutex EXCEPT ![currentTask] = semaphore'[s].id]
                               /\ Go("read") /\ UNCHANGED <<late, holders>>
    BY DEF Start_main, mutex_init
  <1>2. /\ RunsUser
        /\ semaphore' = [semaphore EXCEPT
              ![s] = [id |-> nextSemaphoreID, initial_value |-> 1, count |-> 1]]
        /\ UNCHANGED <<status, id, nextPID, currentTask, caller, Live>>
    BY <1>1 DEF SemInit, handlerVars, Live
  <1>3. /\ currentTask \in Task /\ caller.op # "wait" /\ ~Waits(currentTask)
        /\ pc[currentTask] = "main" /\ id[currentTask] = 1
        /\ Allocated = {} /\ holders = {} /\ \A u \in Task \ {currentTask} : pc[u] = "none"
    BY <1>1, <1>2, RunningFacts DEF At, ShellInv, ProgramsInv, ProcessInv
  <1>4. semaphore'[s].id = nextSemaphoreID /\ semaphore'[s].count = 1
    BY <1>2 DEF ShellInv, IInv, TypeOK
  <1>5. nextSemaphoreID \in Nat /\ nextSemaphoreID # 0
    BY DEF ShellInv, IInv, TypeOK
  <1>6. Allocated' = {s}
    BY <1>2, <1>3, <1>5 DEF Allocated, ShellInv, IInv, TypeOK
  <1>7. /\ pc'[currentTask] = "read" /\ \A u \in Task \ {currentTask} : pc'[u] = "none"
        /\ creator'[currentTask] = 1 /\ mutex'[currentTask] = semaphore'[s].id
    BY <1>1, <1>3 DEF Go, ShellInv, ProgramsInv, ShellTypeOK
  <1>8. ShellTypeOK'
    <2>1. creator' \in [Task -> Nat] /\ mutex' \in [Task -> Nat]
      BY <1>1, <1>3, <1>4, <1>5 DEF ShellInv, ProgramsInv, ShellTypeOK
    <2>2. pc' \in [Task -> Places] /\ holders' \subseteq Task
      BY <1>1 DEF Go, Places, ShellInv, ProgramsInv, ShellTypeOK
    <2> QED
      BY <2>1, <2>2 DEF ShellTypeOK
  <1>9. ProcessInv'
    <2>1. nextPID # 1 /\ 1 \in 1 .. nextPID - 1
      BY <1>3 DEF ShellInv, ProgramsInv, ProcessInv
    <2> QED
      BY <1>2, <1>3, <1>7, <2>1 DEF ShellInv, ProgramsInv, ProcessInv
  <1>10. WaiterInv'
    <2>1. \A u \in Live : ~Waits(u)
      BY <1>3 DEF ShellInv, ProgramsInv, WaiterInv, Locking, Live
    <2>2. \A u \in Live' : ~Waits(u)'
      BY <1>1, <1>2, <2>1, SemInitReady DEF Waits, Live, ShellInv
    <2> QED
      BY <2>2 DEF WaiterInv
  <1>11. TheMutex(s)'
    <2>1. \A u \in Task : ~Locking(u)'
      BY <1>2, <1>3, <1>7 DEF Locking
    <2> QED
      BY <1>1, <1>3, <1>4, <1>6, <1>7, <2>1 DEF TheMutex
  <1>12. ASSUME NEW c \in Task, Leads(c)'
         PROVE  TheReader(c)'
    <2>1. \A u \in Task : ~Child(u)'
      BY <1>2, <1>3, <1>7 DEF Child
    <2> QED
      BY <1>1, <1>3, <2>1 DEF TheReader
  <1> QED
    BY <1>8, <1>9, <1>10, <1>11, <1>12 DEF ProgramsInv, MutexInv, ReaderInv

\* The child has a copy of its parent's memory: of creator and of mutex.
LEMMA ForkShellStep ==
    ASSUME ShellInv, NEW t \in Task, ForkShell(t), ~strayed'
    PROVE  ProgramsInv'
  <1>1. /\ pc[currentTask] = "read" /\ id[currentTask] = creator[currentTask]
        /\ RunsUser /\ status[t] = "FREE" /\ Start(t)
        /\ pc' = [pc EXCEPT ![currentTask] = "forked", ![t] = "forked"]
        /\ creator' = [creator EXCEPT ![t] = creator[currentTask]]
        /\ mutex' = [mutex EXCEPT ![t] = mutex[currentTask]]
        /\ UNCHANGED <<holders, late, currentTask, semaphore, caller>>
    BY DEF ForkShell, At, Tests, IsCreator, Fork, semVars, handlerVars
  <1>2. /\ currentTask \in Live /\ currentTask \in Task /\ caller.op # "wait"
        /\ ~Waits(currentTask) /\ t # currentTask /\ t \notin Live
    BY <1>1, RunningFacts DEF Live
  <1>3. creator[currentTask] = 1 /\ id[currentTask] = 1 /\ nextPID \in Nat /\ nextPID > 1
    BY <1>1, <1>2 DEF ShellInv, ProgramsInv, ProcessInv, IInv, TypeOK
  <1>4. /\ nextPID' = nextPID + 1 /\ status' = [status EXCEPT ![t] = "IDLE"]
        /\ id' = [id EXCEPT ![t] = nextPID]
    BY <1>1 DEF Start
  <1>5. /\ UNCHANGED Allocated /\ Live' = Live \cup {t}
        /\ id'[t] = nextPID /\ \A u \in Task \ {t} : id'[u] = id[u]
    BY <1>1, <1>4 DEF Allocated, Live, ShellInv, IInv, TypeOK
  <1>6. /\ pc'[t] = "forked" /\ pc'[currentTask] = "forked"
        /\ \A u \in Task \ {t, currentTask} : pc'[u] = pc[u]
        /\ creator'[t] = 1 /\ \A u \in Task \ {t} : creator'[u] = creator[u]
        /\ mutex'[t] = mutex[currentTask] /\ \A u \in Task \ {t} : mutex'[u] = mutex[u]
    BY <1>1, <1>2, <1>3 DEF ShellInv, ProgramsInv, ShellTypeOK
  <1>7. ShellTypeOK'
    <2>1. creator' \in [Task -> Nat] /\ mutex' \in [Task -> Nat]
      BY <1>1, <1>2 DEF ShellInv, ProgramsInv, ShellTypeOK
    <2>2. pc' \in [Task -> Places] /\ holders' \subseteq Task
      BY <1>1 DEF Places, ShellInv, ProgramsInv, ShellTypeOK
    <2> QED
      BY <2>1, <2>2 DEF ShellTypeOK
  <1>8. \A u \in Task : pc[u] # "none" => id[u] \in 1 .. nextPID - 1 /\ pc[u] # "main"
    BY <1>1, <1>2 DEF ShellInv, ProgramsInv, ProcessInv
  <1>9. ProcessInv'
    <2>1. \A u \in Task : status'[u] # "CREATED"
      <3>1. \A u \in Task : status[u] # "CREATED"
        BY <1>3 DEF ShellInv, ProgramsInv, ProcessInv
      <3> QED
        BY <1>4, <3>1 DEF ShellInv, IInv, TypeOK
    <2>2. nextPID' # 1
      BY <1>3, <1>4
    <2>3. \A u \in Task : pc'[u] # "none" => id'[u] \in 1 .. nextPID' - 1
      BY <1>1, <1>2, <1>3, <1>4, <1>5, <1>6, <1>8
    <2>4. \A u, v \in Task : pc'[u] # "none" /\ pc'[v] # "none" /\ id'[u] = id'[v] => u = v
      <3>1. \A u \in Task \ {t} : pc'[u] # "none" => id'[u] # nextPID /\ pc[u] # "none"
        BY <1>1, <1>2, <1>3, <1>5, <1>6, <1>8
      <3>2. \A u, v \in Task : pc[u] # "none" /\ pc[v] # "none" /\ id[u] = id[v] => u = v
        BY DEF ShellInv, ProgramsInv, ProcessInv
      <3> QED
        BY <1>5, <3>1, <3>2
    <2>5. \A u \in Task : pc'[u] \notin {"none", "main"} => creator'[u] = 1
      BY <1>1, <1>2, <1>3, <1>6 DEF ShellInv, ProgramsInv, ProcessInv
    <2>6. /\ \A u \in Task : pc'[u] \in {"delay", "unlock", "free"} => id'[u] = 1
          /\ \A u \in Task : pc'[u] = "child" => id'[u] # 1
      BY <1>2, <1>3, <1>5, <1>6 DEF ShellInv, ProgramsInv, ProcessInv
    <2>7. \A u \in Task : pc'[u] # "main"
      BY <1>6, <1>8
    <2> QED
      BY <2>1, <2>2, <2>3, <2>4, <2>5, <2>6, <2>7 DEF ProcessInv
  <1>10. \A u \in Task : Waits(u)' <=> Waits(u) /\ u # t
    <2>1. \A u \in Task : Ready(u)' <=> Ready(u) \/ u = t
      BY <1>1, <1>2, StartReady DEF ShellInv
    <2> QED
      BY <1>1, <1>2, <2>1 DEF Waits
  <1>11. \A u \in Task : /\ Locking(u)' => Locking(u) /\ u # t
                         /\ u # t /\ u # currentTask => (Locking(u)' <=> Locking(u))
    BY <1>2, <1>3, <1>5, <1>6 DEF Locking
  <1>12. WaiterInv'
    <2>1. Live \subseteq Task
      BY DEF Live
    <2> QED
      BY <1>2, <1>5, <1>10, <1>11, <2>1 DEF ShellInv, ProgramsInv, WaiterInv
  <1>13. Leads(currentTask)
    BY <1>1, <1>2, <1>3 DEF Leads
  <1>14. \A c \in Task : Leads(c)' => c = currentTask
    BY <1>1, <1>2, <1>3, <1>5, <1>6 DEF Leads, ShellInv, ProgramsInv, ProcessInv
  <1>15. MutexInv'
    <2>1. PICK s \in Semaphore : TheMutex(s)
      BY <1>2, <1>13 DEF ShellInv, ProgramsInv, MutexInv
    <2>2. \A u \in Task : pc'[u] \notin {"none", "main"} => mutex'[u] = semaphore'[s].id
      BY <1>1, <1>2, <1>6, <2>1 DEF TheMutex
    <2>3. \A u \in Task : Locking(u)' => u \in holders' \/ Waits(u)'
      BY <1>1, <1>10, <1>11, <2>1 DEF TheMutex
    <2>4. TheMutex(s)'
      BY <1>1, <1>5, <2>1, <2>2, <2>3 DEF TheMutex
    <2> QED
      BY <2>4 DEF MutexInv
  <1>16. ASSUME ~late'
         PROVE  TheReader(currentTask)'
    <2>1. holders = {} /\ \A u \in Task : ~Child(u)
      BY <1>1, <1>2, <1>13, <1>16 DEF ShellInv, ProgramsInv, ReaderInv, TheReader
    <2>2. \A u \in Task : Child(u)' => u = t
      BY <1>2, <1>3, <1>5, <1>6, <2>1 DEF Child
    <2> QED
      BY <1>1, <1>6, <2>1, <2>2 DEF TheReader
  <1>17. ReaderInv'
    BY <1>1, <1>14, <1>16 DEF ReaderInv
  <1> QED
    BY <1>7, <1>9, <1>12, <1>15, <1>17 DEF ProgramsInv

\* A shell that finds in eax what fork returned knows who it is.
LEMMA BranchStep ==
    ASSUME ShellInv, Branch, ~strayed'
    PROVE  ProgramsInv'
  <1> DEFINE p == IF IsCreator THEN "delay" ELSE "child"
  <1>1. /\ At("forked") /\ RunsUser /\ Go(p)
        /\ UNCHANGED <<status, id, nextPID, taskLinks, currentTask, creator, mutex, late, holders,
                       semaphore, caller, Live, Allocated>>
    <2>1. At("forked") /\ RunsUser /\ Compute /\ (frame.eax = "zero" <=> ~IsCreator)
      BY DEF Branch, IsCreator
    <2> QED
      BY <2>1 DEF Branch, Compute, taskVars, semVars, handlerVars, Live, Allocated
  <1>2. /\ currentTask \in Task /\ caller.op # "wait"
        /\ currentTask \in Live /\ pc[currentTask] = "forked" /\ creator[currentTask] = 1
    BY <1>1, RunningFacts DEF At, ShellInv, ProgramsInv, ProcessInv
  <1>3. holders' \subseteq Task /\ caller'.op # "wait"
    BY <1>1, <1>2 DEF ShellInv, ProgramsInv, ShellTypeOK
  <1>4. p \in {"delay", "child"} /\ (p = "delay" <=> id[currentTask] = 1)
    BY <1>2 DEF IsCreator
  <1> HIDE DEF p
  <1>5. /\ ShellTypeOK' /\ ProcessInv' /\ WaiterInv'
        /\ pc'[currentTask] = p
        /\ \A t \in Task \ {currentTask} : /\ pc'[t] = pc[t]
                                           /\ Waits(t)' <=> Waits(t)
                                           /\ Locking(t)' <=> Locking(t)
                                           /\ Child(t)' <=> Child(t)
    BY <1>1, <1>2, <1>3, <1>4, GoStep DEF At, Places
  <1>6. \A t \in Task : t = currentTask =>
            /\ ~Locking(t)'
            /\ Child(t)' <=> Child(t)
            /\ Leads(t)' <=> Leads(t)
    BY <1>1, <1>2, <1>4, <1>5 DEF Locking, Child, Leads
  <1>7. \A t \in Task : /\ Locking(t)' => Locking(t)
                        /\ Waits(t)' <=> Waits(t)
                        /\ Child(t)' <=> Child(t)
                        /\ Leads(t)' <=> Leads(t)
    BY <1>1, <1>2, <1>5, <1>6 DEF Leads, Waits, Ready
  <1>8. ASSUME NEW s \in Semaphore, TheMutex(s)
        PROVE  TheMutex(s)'
    <2>1. \A t \in Task : Locking(t)' => t \in holders' \/ Waits(t)'
      BY <1>1, <1>7, <1>8 DEF TheMutex
    <2>2. \A t \in Task : pc'[t] \notin {"none", "main"} => mutex'[t] = semaphore'[s].id
      BY <1>1, <1>2, <1>5, <1>8 DEF TheMutex
    <2> QED
      BY <1>1, <1>8, <2>1, <2>2 DEF TheMutex
  <1>9. ASSUME NEW c \in Task, Leads(c), TheReader(c)
        PROVE  TheReader(c)'
    <2>1. \A t \in Task : Child(t) => t # c
      BY <1>9 DEF Child, Leads
    <2>2. pc[c] = pc'[c] \/ (pc[c] = "forked" /\ pc'[c] = "delay")
      BY <1>2, <1>4, <1>5, <1>9 DEF Leads
    <2>3. \A t \in Task : Child(t) => pc[t] = pc'[t] \/ (pc[t] = "forked" /\ pc'[t] = "child")
      BY <1>2, <1>4, <1>5 DEF Child
    <2> QED
      BY <1>1, <1>7, <1>9, <2>1, <2>2, <2>3 DEF TheReader
  <1> QED
    BY <1>1, <1>5, <1>7, <1>8, <1>9 DEF ShellInv, ProgramsInv, MutexInv, ReaderInv
-----------------------------------------------------------------------------
LEMMA ShellInitInductive == ShellInit => ShellInv
  <1> SUFFICES ASSUME ShellInit
               PROVE  ShellInv
    OBVIOUS
  <1>1. Init /\ holders = {} /\ \A t \in Task : pc[t] = "none"
    BY DEF ShellInit, MutexInit
  <1>2. IInv
    BY <1>1, InitInductive
  <1>3. ShellTypeOK
    BY DEF ShellInit, MutexInit, ShellTypeOK, Places
  <1>4. Allocated = {} /\ nextPID = 1 /\ caller.op # "wait"
        /\ Live = {kernelTask} /\ \A t \in Task : status[t] # "CREATED"
    BY <1>1, NodesDiffer DEF Init, Allocated, Live
  <1>5. ProcessInv
    BY <1>1, <1>4 DEF ProcessInv
  <1>6. WaiterInv
    BY <1>2, <1>4 DEF WaiterInv, Waits, IInv, KernelInv
  <1>7. \A c \in Task : ~Leads(c)
    BY <1>1 DEF Leads
  <1> QED
    BY <1>2, <1>3, <1>5, <1>6, <1>7 DEF ShellInv, ProgramsInv, MutexInv, ReaderInv

\* As long as no shell strays.
LEMMA ShellInductive ==
    ASSUME ShellInv, [ShellNext]_shellVars, ~strayed'
    PROVE  ProgramsInv'
  <1>1. CASE \E t \in Task : MakeShell(t) \/ RunShell(t) \/ ForkShell(t)
    BY <1>1, MakeShellStep, RunShellStep, ForkShellStep
  <1>2. CASE Start_main \/ ChildLocks \/ ParentLocks \/ ParentUnlocks
    BY <1>2, StartMainStep, ChildLocksStep, ParentLocksStep, ParentUnlocksStep
  <1>3. CASE ExitUnlocks \/ CreatorFrees \/ ReturnFromMain
    BY <1>3, ExitUnlocksStep, CreatorFreesStep, ReturnFromMainStep
  <1>4. CASE Read \/ DelayOnce
    BY <1>4, CallsAreQuiet
  <1>5. CASE ForkIsLost \/ Branch
    BY <1>5, BranchStep DEF ForkIsLost, WrongCall
  <1>6. CASE KernelStep
    BY <1>6, CallsAreQuiet, HandlersAreQuiet, LockAfterWaitStep DEF KernelStep
  <1>7. CASE UNCHANGED shellVars
    <2>1. UNCHANGED <<id, nextPID, semaphore, pc, creator, mutex, late, holders, status, taskLinks, caller>>
      BY <1>7 DEF shellVars, mutexVars, programVars, vars, taskVars, semVars, handlerVars
    <2> QED
      BY <2>1, QuietStep DEF Live, Waits, Ready
  <1> QED
    BY <1>1, <1>2, <1>3, <1>4, <1>5, <1>6, <1>7 DEF ShellNext, ShellStep

\* Who has strayed stays so.
LEMMA StrayStep == [ShellNext]_shellVars => (strayed => strayed')
  <1> SUFFICES ASSUME [ShellNext]_shellVars, strayed
               PROVE  strayed'
    OBVIOUS
  <1>1. CASE ShellStep
    BY <1>1 DEF ShellStep, MakeShell, RunShell, ForkShell, Start_main, Read, ForkIsLost, Branch,
                ChildLocks, DelayOnce, ParentLocks, ParentUnlocks, ExitUnlocks, CreatorFrees,
                ReturnFromMain, Makes, WrongCall, Tests, programVars
  <1>2. CASE KernelStep \/ UNCHANGED shellVars
    BY <1>2 DEF KernelStep, shellVars, programVars
  <1> QED
    BY <1>1, <1>2 DEF ShellNext

LEMMA StrayInductive == StrayInv /\ [ShellNext]_shellVars => StrayInv'
  <1> SUFFICES ASSUME StrayInv, [ShellNext]_shellVars
               PROVE  StrayInv'
    OBVIOUS
  <1>1. IInv'
    BY ShellStepIsNext, NextInductive DEF StrayInv
  <1>2. ASSUME ~strayed'
        PROVE  ProgramsInv'
    BY <1>2, StrayStep, ShellInductive DEF StrayInv, ShellInv
  <1> QED
    BY <1>1, <1>2 DEF StrayInv

\* A set whose elements are all equal.
LEMMA AtMostOne ==
    ASSUME NEW S, \A x, y \in S : x = y
    PROVE  Cardinality(S) <= 1
  <1>1. CASE S = {}
    BY <1>1, FS_EmptySet
  <1>2. CASE S # {}
    <2>1. PICK x : S = {x}
      BY <1>2
    <2> QED
      BY <2>1, FS_Singleton
  <1> QED
    BY <1>1, <1>2

LEMMA CreatorLeads == ShellInv /\ CreatorIsThere => \E c \in Task : Leads(c)
  <1> SUFFICES ASSUME ShellInv, NEW t \in Live, id[t] = creator[t],
                      pc[t] \notin {"none", "main", "free", "return"}
               PROVE  \E c \in Task : Leads(c)
    BY DEF CreatorIsThere
  <1>1. t \in Task /\ id[t] = 1
    BY DEF Live, ShellInv, ProgramsInv, ProcessInv
  <1>2. pc[t] \in {"read", "forked", "delay", "unlock"}
    BY <1>1 DEF ShellInv, ProgramsInv, ShellTypeOK, Places, ProcessInv
  <1> QED
    BY <1>1, <1>2 DEF Leads

\* The mutex has one holder, whatever the scheduler does between the test of
\* the count and the move to the queue and whatever SEMAPHORE_SIGNAL finds in
\* initial_value, until the first shell leaves and unlocks what it did not lock,
\* or a shell goes on with another one's return value in eax
\* (semaphore.c lines 70-96, modules/shell/src/main.c line 175, syscall.c line 74).
THEOREM OneHolder == ShellSpec => []MutualExclusion
  <1>1. StrayInv => MutualExclusion
    <2> SUFFICES ASSUME ShellInv, CreatorIsThere
                 PROVE  Cardinality(holders) <= 1
      BY DEF MutualExclusion, StrayInv, ShellInv
    <2>1. PICK s \in Semaphore : TheMutex(s)
      BY CreatorLeads DEF ShellInv, ProgramsInv, MutexInv
    <2> QED
      BY <2>1, AtMostOne DEF TheMutex
  <1>2. ShellInit => StrayInv
    BY ShellInitInductive DEF ShellInv, StrayInv
  <1> QED
    BY <1>1, <1>2, StrayInductive, PTL DEF ShellSpec

\* One shell reads the keyboard: the parent comes back to its loop after its
\* child has left, if the child came to its mutex_lock in time and neither took
\* another one's return value for the one of fork
\* (modules/shell/src/main.c lines 102-114, syscall.c line 74).
THEOREM OneReader == ShellSpec => []OneShellReads
  <1>1. StrayInv => OneShellReads
    <2> SUFFICES ASSUME ShellInv, CreatorIsThere, ~late
                 PROVE  \A t, u \in Readers : t = u
      BY AtMostOne DEF OneShellReads, StrayInv, ShellInv
    <2>1. PICK c \in Task : Leads(c)
      BY CreatorLeads
    <2>2. TheReader(c)
      BY <2>1 DEF ShellInv, ProgramsInv, ReaderInv
    <2>3. \A t \in Readers : t \in Task /\ pc[t] = "read" /\ (t = c \/ Child(t))
      BY <2>1 DEF Readers, Live, Leads, Child, ShellInv, ProgramsInv, ProcessInv
    <2>4. \A t \in Readers : t # c => pc[c] # "read" \/ ~Child(t)
      BY <2>2, <2>3 DEF TheReader
    <2>5. ~Child(c)
      BY <2>1 DEF Leads, Child
    <2> QED
      BY <2>2, <2>3, <2>4, <2>5 DEF TheReader
  <1>2. ShellInit => StrayInv
    BY ShellInitInductive DEF ShellInv, StrayInv
  <1> QED
    BY <1>1, <1>2, StrayInductive, PTL DEF ShellSpec
=============================================================================
