------------------------------- MODULE Shell -------------------------------
(***************************************************************************)
(* The shells (modules/shell/src/main.c) on the scheduler: kernel_main     *)
(* starts one, which can start others with the command `shell`.  It gives  *)
(* the keyboard to its child with a mutex: the child locks it and reads;   *)
(* the parent waits a little, so that the child is first, and locks it in  *)
(* its turn.  What a shell reads, and its other commands, are in           *)
(* CommandLine.tla; here only the commands `shell` and `exit` are told     *)
(* apart.  A shell that the timer interrupted loses its eax when the call of  *)
(* another one resumes it (SysCallHandler): what fork or getPID returned,  *)
(* or the number of the call it is about to make.                          *)
(***************************************************************************)
EXTENDS Mutex

CONSTANT Delay      \* bound: the yields of the parent (15 in the code)

ASSUME DelayAssumption == Delay \in Nat

VARIABLES pc,        \* where a shell is in its program
          creator,   \* the global creator, in the address space of each shell
          mutex,     \* the semaphore id in the global mutex, likewise
          yields,    \* the loop variable of the delay
          late,      \* history: a child had not locked when its parent did
          strayed    \* history: a lost eax has led a shell astray

programVars == <<pc, creator, mutex, yields, late, strayed>>
shellVars == <<mutexVars, programVars>>

\* "none": no program, or one that has returned from main.
Places == {"none", "main", "read", "forked", "child", "delay", "unlock", "free", "return"}

ShellInit == /\ MutexInit
             /\ pc = [t \in Task |-> "none"]
             /\ creator = [t \in Task |-> 0]
             /\ mutex = [t \in Task |-> 0]
             /\ yields = [t \in Task |-> 0]
             /\ late = FALSE
             /\ strayed = FALSE

At(place) == pc[currentTask] = place

Go(place) == pc' = [pc EXCEPT ![currentTask] = place]
-----------------------------------------------------------------------------
(* kernel_main makes and runs one shell. *)

MakeShell(t) == /\ nextPID = 1
                /\ \A u \in Task : status[u] # "CREATED"
                /\ MakeTask(t)
                /\ UNCHANGED <<holders, programVars>>

RunShell(t) == /\ RunTask(t)
               /\ pc' = [pc EXCEPT ![t] = "main"]
               /\ UNCHANGED <<holders, creator, mutex, yields, late, strayed>>
-----------------------------------------------------------------------------
(* Calls of the mutex: when its semaphore is gone, semctl returns -1. *)

Found == {s \in Semaphore : semaphore[s].id # 0 /\ semaphore[s].id = mutex[currentTask]}

NoSemaphore == Found = {} /\ SimpleCall /\ UNCHANGED holders

Lock   == (\E s \in Found : mutex_lock(s)) \/ NoSemaphore
Unlock == (\E s \in Found : mutex_unlock(s)) \/ NoSemaphore

\* At the places of the program, eax holds one of these values only if another
\* shell's yield (0) or lock (1, the id of the only semaphore) has resumed this
\* one, or when a call of its own that returns nothing has ended.
Overwritten == frame.eax \in {"zero", "positive"}

\* The number of a call, overwritten before int 0x80: 0 is getPID, 1 is yield.
WrongCall == /\ Overwritten
             /\ \/ frame.eax = "zero" /\ SimpleCall
                \/ frame.eax = "positive" /\ Yield
             /\ strayed' = TRUE
             /\ UNCHANGED holders

Makes(Call) == (Call /\ UNCHANGED strayed) \/ WrongCall

\* main, up to the loop: there is one shell, so no other one's call resumes it.
Start_main == \E s \in Semaphore :
    /\ At("main")
    /\ mutex_init(s)
    /\ creator' = [creator EXCEPT ![currentTask] = id[currentTask]]
    /\ mutex' = [mutex EXCEPT ![currentTask] = semaphore'[s].id]
    /\ Go("read")
    /\ UNCHANGED <<yields, late, strayed>>

\* getch, which yields between its two calls; the commands that are system
\* calls; and `shell` in a child.
Read == At("read") /\ (SimpleCall \/ Yield) /\ UNCHANGED <<holders, programVars>>

IsCreator == id[currentTask] = creator[currentTask]

\* The test of getPID() against creator: an answer of 1 is the creator's.
Tests(result) ==
    \/ result = IsCreator /\ UNCHANGED strayed
    \/ Overwritten /\ result # IsCreator /\ result = (frame.eax = "positive") /\ strayed' = TRUE

\* The child has a copy of its parent's memory and returns from fork as it does.
ForkShell(t) ==
    /\ At("read")
    /\ Tests(TRUE)
    /\ Fork(t)
    /\ pc' = [pc EXCEPT ![currentTask] = "forked", ![t] = "forked"]
    /\ creator' = [creator EXCEPT ![t] = creator[currentTask]]
    /\ mutex' = [mutex EXCEPT ![t] = mutex[currentTask]]
    /\ UNCHANGED <<holders, yields, late>>

\* Instead of fork another call is made, and its answer is taken for fork's.
ForkIsLost == /\ At("read")
              /\ WrongCall
              /\ Go("forked")
              /\ UNCHANGED <<creator, mutex, yields, late>>

\* What fork returned, or what is in eax instead, tells child and parent apart.
Branch ==
    /\ At("forked")
    /\ RunsUser
    /\ Compute
    /\ Go(IF frame.eax = "zero" THEN "child" ELSE "delay")
    /\ strayed' = (strayed \/ (frame.eax = "zero" <=> IsCreator))
    /\ yields' = [yields EXCEPT ![currentTask] = Delay]
    /\ UNCHANGED <<holders, creator, mutex, late>>

\* Mutation of ChildLocks: the child reads without the mutex.
ChildReads ==
    /\ At("child")
    /\ SimpleCall
    /\ Go("read")
    /\ UNCHANGED <<holders, creator, mutex, yields, late, strayed>>

ChildLocks ==
    /\ At("child")
    /\ Makes(Lock)
    /\ Go("read")
    /\ UNCHANGED <<creator, mutex, yields, late>>

DelayOnce ==
    /\ At("delay")
    /\ yields[currentTask] > 0
    /\ Makes(Yield /\ UNCHANGED holders)
    /\ yields' = [yields EXCEPT ![currentTask] = @ - 1]
    /\ UNCHANGED <<pc, creator, mutex, late>>

ParentLocks ==
    /\ At("delay")
    /\ yields[currentTask] = 0
    /\ Makes(Lock)
    /\ Go("unlock")
    /\ late' = (late \/ \E t \in Task : pc[t] \in {"forked", "child"})
    /\ UNCHANGED <<creator, mutex, yields>>

ParentUnlocks ==
    /\ At("unlock")
    /\ Makes(Unlock)
    /\ Go("read")
    /\ UNCHANGED <<creator, mutex, yields, late>>

\* The command `exit` ends the loop; every shell then unlocks the mutex.
ExitUnlocks ==
    /\ At("read")
    /\ \E first \in BOOLEAN :
          /\ (Unlock /\ Tests(first)) \/ (WrongCall /\ first = IsCreator)
          /\ Go(IF first THEN "free" ELSE "return")
    /\ UNCHANGED <<creator, mutex, yields, late>>

\* semctl refuses to free a semaphore with another count or with waiters.
Refused == /\ \A s \in Found : \/ semaphore[s].count # semaphore[s].initial_value
                               \/ ~list_empty(taskLinks, s)
           /\ SimpleCall
           /\ UNCHANGED holders

CreatorFrees ==
    /\ At("free")
    /\ Makes((\E s \in Found : mutex_free(s)) \/ Refused)
    /\ Go("return")
    /\ UNCHANGED <<creator, mutex, yields, late>>

ReturnFromMain ==
    /\ At("return")
    /\ Exit
    /\ Go("none")
    /\ UNCHANGED <<holders, creator, mutex, yields, late, strayed>>
-----------------------------------------------------------------------------
ShellStep == \/ \E t \in Task : MakeShell(t) \/ RunShell(t) \/ ForkShell(t)
             \/ Start_main \/ Read \/ ForkIsLost \/ Branch
             \/ ChildLocks \/ DelayOnce \/ ParentLocks \/ ParentUnlocks
             \/ ExitUnlocks \/ CreatorFrees \/ ReturnFromMain

KernelStep == /\ LockAfterWait \/ HandlerStep \/ (Timer /\ UNCHANGED holders)
              /\ UNCHANGED programVars

ShellNext == ShellStep \/ KernelStep

ShellSpec == ShellInit /\ [][ShellNext]_shellVars /\ Fairness
-----------------------------------------------------------------------------
\* The shell that made the mutex has not asked to leave.
CreatorIsThere ==
    \E t \in Live : id[t] = creator[t] /\ pc[t] \notin {"none", "main", "free", "return"}

\* Never two tasks between lock and unlock, whatever the scheduler does
\* between the test of the count and the move to the queue, and whatever
\* SEMAPHORE_SIGNAL finds in initial_value (semaphore.c lines 70-96), as long as
\* no shell unlocks the mutex without having locked it.  The creator does, when
\* it leaves (main.c line 175), and so may a shell that took another one's
\* return value for its own (syscall.c line 74).
MutualExclusion == (CreatorIsThere /\ ~strayed) => Cardinality(holders) <= 1

\* A shell is reading commands when it is in the loop of main and not waiting.
Readers == {t \in Live : /\ pc[t] = "read"
                         /\ InList(taskLinks, mainQueue, t)
                         /\ ~(caller.op = "wait" /\ caller.task = t)}

\* The keyboard has one reader: the parent waits for its child to leave, unless
\* the child had not come to its mutex_lock when the delay of the parent was
\* over (main.c lines 107-117), or one of them took another one's return value
\* for its own, as the return of fork (line 107; syscall.c line 74).
OneShellReads == (CreatorIsThere /\ ~late /\ ~strayed) => Cardinality(Readers) <= 1

\* As long as a task waits for it, a mutex that is not held is locked again by
\* some task: neither the wakeup nor the unlock is lost, provided initial_value
\* holds no 0, and even when a shell has strayed.  (By some task: the queue is
\* a stack, and mutex_lock overtakes it.)
MutexIsHandedOn ==
    \A s \in Semaphore : (~list_empty(taskLinks, s) /\ holders = {})
                            ~> (holders # {} \/ list_empty(taskLinks, s))
=============================================================================
