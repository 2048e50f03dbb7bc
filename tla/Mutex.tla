------------------------------- MODULE Mutex -------------------------------
(***************************************************************************)
(* The mutexes of modules/shared (mutex.c) on the semaphores of the        *)
(* kernel.  A program has locked the mutex when its call of mutex_lock has *)
(* returned, at once or after the wait.  Nothing keeps a program from      *)
(* unlocking a mutex that it has not locked.                               *)
(***************************************************************************)
EXTENDS Scheduler

VARIABLE holders       \* the tasks between mutex_lock and mutex_unlock

\* mutex_init gives SEMAPHORE_INIT the value 1.
ASSUME MutexValue == 1 \in InitialValue

mutexVars == <<vars, holders>>

MutexInit == Init /\ holders = {}

mutex_init(s) == SemInit(s, 1) /\ UNCHANGED holders

mutex_lock(s) == \/ SemPass(s) /\ holders' = holders \cup {currentTask}
                 \/ SemBlock(s) /\ UNCHANGED holders

mutex_unlock(s) == SemSignal(s) /\ holders' = holders \ {currentTask}

mutex_free(s) == SemFree(s) /\ UNCHANGED holders

\* The task that semctl_process takes off the queue returns from mutex_lock.
LockAfterWait == /\ Wake
                 /\ holders' = holders \cup {taskLinks.next[iter]}

\* The handlers that change no mutex.
HandlerStep == /\ SkipSemaphore \/ BeginWalk \/ Walk
                  \/ ResumeFromTimer \/ ResumeFromYield \/ ResumeFromWait
               /\ UNCHANGED holders
=============================================================================
