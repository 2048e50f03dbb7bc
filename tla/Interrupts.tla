----------------------------- MODULE Interrupts -----------------------------
(***************************************************************************)
(* The way into a handler and out of it (kernel/src/interrupts/            *)
(* interrupts.s and isr.c), the nesting of sections without interrupts     *)
(* (utils/utils.s) and the end of the system in a panic (utils/common.c).  *)
(*                                                                         *)
(* The processor runs the code of currentTask, or a handler that           *)
(* interrupted it, or a handler that interrupted a handler: `stack` holds  *)
(* one frame for each.  The system starts in initDescriptorTables, with    *)
(* the tables loaded and the interrupts disabled.  What a handler does     *)
(* between its entry and its return is left to the modules of its          *)
(* component; here it may open and close sections, switch tasks, stop the  *)
(* system, and be interrupted by an exception.  kernel_main may load       *)
(* another directory in a section if it loads its own before the end:      *)
(* Boot.tla shows that it does.                                            *)
(***************************************************************************)
EXTENDS Integers, Sequences

CONSTANTS Task,          \* the tasks, kernelTask among them
          kernelTask,    \* runs kernel_main, in ring 0; the others are in ring 3
          Irq,           \* the hardware interrupts that occur
          Exception,     \* the exceptions that occur
          MaxDepth,      \* bound: no more handlers interrupt one another
          MaxSections    \* bound: no more sections are open in one handler

IRQ0 == 32
IRQ1 == 33
GeneralProtection == 13
PageFault  == 14
SystemCall == 128

ASSUME InterruptConstants ==
    /\ kernelTask \in Task
    /\ Irq \subseteq 32 .. 47 /\ Exception \subseteq 0 .. 18
    /\ MaxDepth \in Nat /\ MaxSections \in Nat

Vector == Irq \cup Exception \cup {SystemCall}

VARIABLES interruptHandlers,    \* the vectors that have a handler
          enabled,              \* the interrupt flag of the processor
          __interruptsDisable,  \* the nesting counter
          stack,                \* the frames of the handlers that run
          interruptContext,     \* the frame it points to; 0: null
          sections,             \* history: the open sections of the code that runs
          currentTask,
          cr3,                  \* the task whose page directory is loaded
          regs,                 \* Task_t.regs of the tasks that do not run
          started,              \* the tasks in the main queue
          panicCounter,
          stopped               \* the handler that loops for ever; -1: none

maskVars == <<enabled, __interruptsDisable, sections>>
taskVars == <<currentTask, cr3, regs, started>>
stopVars == <<panicCounter, stopped>>
interruptVars == <<maskVars, taskVars, stopVars, interruptHandlers, stack, interruptContext>>

\* Of CPURegisters_t: the interrupt flag and the page directory.  `sections`
\* and `counter` are history: the sections that were open, and the counter at
\* the entry.
Registers == [flag : BOOLEAN, cr3 : Task, sections : Nat, counter : Int]

\* makeTaskFromELF sets eflags.IF and loads the program in its own directory.
FreshRegisters(t) == [flag |-> TRUE, cr3 |-> t, sections |-> 0, counter |-> 0]

Frame == [int_no : Vector, regs : Registers]

Top == stack[Len(stack)]

InterruptInit == /\ interruptHandlers = {}
                 /\ enabled = FALSE
                 /\ __interruptsDisable = 1
                 /\ stack = <<>>
                 /\ interruptContext = 0
                 /\ sections = 1
                 /\ currentTask = kernelTask
                 /\ cr3 = kernelTask
                 /\ regs = [t \in Task |-> FreshRegisters(t)]
                 /\ started = {}
                 /\ panicCounter = 0
                 /\ stopped = -1
-----------------------------------------------------------------------------
(* Entry, sections and return. *)

Runs == stopped < Len(stack)

\* Code of ring 0: a handler, or kernel_main.
RunsKernel == Runs /\ (stack # <<>> \/ currentTask = kernelTask)

\* ASMInterruptPreHandler up to the call, and the start of MainInterruptHandler.
Enter(n) ==
    /\ Len(stack) < MaxDepth
    /\ stack' = Append(stack, [int_no |-> n,
                               regs |-> [flag |-> enabled, cr3 |-> cr3,
                                         sections |-> sections,
                                         counter |-> __interruptsDisable]])
    /\ enabled' = FALSE
    /\ __interruptsDisable' = __interruptsDisable + 1
    /\ sections' = 0
    /\ interruptContext' = Len(stack) + 1
    /\ UNCHANGED <<taskVars, interruptHandlers, stopVars>>

Interrupt(n) == n \in Irq /\ enabled /\ Enter(n)

CallSystem == Runs /\ ~RunsKernel /\ Enter(SystemCall)

\* Also in a section, in a handler, and while the system reports a panic.
RaiseException(n) == n \in Exception /\ Enter(n)

\* Mutation of OpenSection: the counter is not raised when it is positive.
OpenSectionOnce == /\ sections' = sections + 1
                   /\ enabled' = FALSE
                   /\ __interruptsDisable' = IF __interruptsDisable = 0 THEN 1 ELSE __interruptsDisable

\* __disableInterrupts: a counter that comes to 0 is put back.
OpenSection ==
    /\ sections' = sections + 1
    /\ enabled' = (__interruptsDisable + 1 = 0)
    /\ __interruptsDisable' = IF __interruptsDisable + 1 = 0 THEN __interruptsDisable
                              ELSE __interruptsDisable + 1

Disable == /\ RunsKernel /\ sections < MaxSections
           /\ OpenSection
           /\ UNCHANGED <<taskVars, stopVars, interruptHandlers, stack, interruptContext>>

\* __enableInterrupts.
Enable == /\ RunsKernel /\ sections > 0
          /\ sections' = sections - 1
          /\ enabled' = (__interruptsDisable - 1 = 0)
          /\ __interruptsDisable' = __interruptsDisable - 1
          /\ UNCHANGED <<taskVars, interruptHandlers, stack, interruptContext, stopVars>>

\* switchPageDir, by kernel_main: makeTaskFromELF, in its section, loads the
\* directory of the task that it makes, and then the one it found.
switchPageDir(t) ==
    /\ RunsKernel /\ stack = <<>> /\ sections > 0
    /\ cr3' = t
    /\ UNCHANGED <<maskVars, currentTask, regs, started, stopVars, interruptHandlers, stack,
                   interruptContext>>

\* Who closes the last section of kernel_main has loaded its directory again.
DirectoryIsBack == stack = <<>> /\ sections = 1 => cr3 = currentTask

\* Mutation of Returns: a page fault is resolved in any directory.
ReturnsAnywhere(n) == n \notin 0 .. 18 \/ n \in interruptHandlers \ {GeneralProtection}

\* The handler of this vector comes back: that of a page fault does when the
\* kernel's directory was loaded, that of a general protection fault never
\* does, and an exception without a handler is a panic.
Returns(n) == \/ n \in interruptHandlers /\ n \notin {PageFault, GeneralProtection}
              \/ n \in interruptHandlers /\ n = PageFault /\ cr3 = kernelTask
              \/ n \notin interruptHandlers /\ n \notin 0 .. 18

\* The end of MainInterruptHandler and of ASMInterruptPreHandler: no interrupt
\* comes between sti and iret; the flag and the directory are the frame's.
Return == /\ stack # <<>> /\ Runs /\ sections = 0
          /\ Returns(Top.int_no)
          /\ stack' = SubSeq(stack, 1, Len(stack) - 1)
          /\ enabled' = Top.regs.flag
          /\ sections' = Top.regs.sections
          /\ __interruptsDisable' = __interruptsDisable - 1
          /\ interruptContext' = 0
          /\ cr3' = Top.regs.cr3
          /\ UNCHANGED <<currentTask, regs, started, interruptHandlers, stopVars>>
-----------------------------------------------------------------------------
(* Handlers and tasks. *)

registerInterruptHandler(n) ==
    /\ RunsKernel /\ stack = <<>>
    /\ interruptHandlers' = interruptHandlers \cup {n}
    /\ UNCHANGED <<maskVars, taskVars, stack, interruptContext, stopVars>>

\* initTasking and runTask, in a section of kernel_main.
Start(t) ==
    /\ RunsKernel /\ stack = <<>> /\ sections > 0
    /\ t \notin started
    /\ started = {} => t = kernelTask
    /\ started' = started \cup {t}
    /\ regs' = [regs EXCEPT ![t] = FreshRegisters(t)]
    /\ UNCHANGED <<maskVars, currentTask, cr3, stopVars, interruptHandlers, stack, interruptContext>>

\* fork copies the interrupted context of the parent, but for the directory.
Fork(t) ==
    /\ Runs /\ Len(stack) = 1 /\ Top.int_no = SystemCall /\ SystemCall \in interruptHandlers
    /\ t \notin started
    /\ interruptContext \in DOMAIN stack
    /\ started' = started \cup {t}
    /\ regs' = [regs EXCEPT ![t] = [stack[interruptContext].regs EXCEPT !.cr3 = t]]
    /\ UNCHANGED <<maskVars, currentTask, cr3, stopVars, interruptHandlers, stack, interruptContext>>

\* switchTask, called by the timer with its own frame and by yield and wait
\* with that of getInterruptedContext: the frame is exchanged.
Switch(t) ==
    /\ Runs /\ Len(stack) = 1 /\ sections = 0
    /\ Top.int_no \in interruptHandlers
    /\ \/ Top.int_no = IRQ0
       \/ Top.int_no = SystemCall /\ interruptContext = 1
    /\ started # {} /\ t \in started
    /\ currentTask' = t
    /\ regs' = [regs EXCEPT ![currentTask] = Top.regs]
    /\ stack' = [stack EXCEPT ![1].regs = regs'[t]]
    /\ UNCHANGED <<maskVars, cr3, started, interruptHandlers, interruptContext, stopVars>>

\* The walk of switchTask frees a task that has ended.
Destroy(t) ==
    /\ Runs /\ Len(stack) = 1 /\ Top.int_no \in {IRQ0, SystemCall} \cap interruptHandlers
    /\ t \in started \ {kernelTask, currentTask}
    /\ started' = started \ {t}
    /\ UNCHANGED <<maskVars, currentTask, cr3, regs, interruptHandlers, stack, interruptContext,
                   stopVars>>

\* Mutation of kernel_panic: the interrupts stay as they are.
PanicUnmasked == /\ RunsKernel /\ panicCounter = 0
                 /\ panicCounter' = 1
                 /\ stopped' = Len(stack)
                 /\ UNCHANGED <<maskVars, taskVars, interruptHandlers, stack, interruptContext>>

\* kernel_panic: a section that is never closed.
kernel_panic == /\ RunsKernel /\ panicCounter = 0
                /\ panicCounter' = 1
                /\ stopped' = Len(stack)
                /\ OpenSection
                /\ UNCHANGED <<taskVars, interruptHandlers, stack, interruptContext>>

\* A second panic loops with the interrupts as they are ...
PanicAgain == /\ RunsKernel
              /\ panicCounter = 1
              /\ stopped' = Len(stack)
              /\ UNCHANGED <<maskVars, taskVars, panicCounter, interruptHandlers, stack, interruptContext>>

\* ... and so does the handler of the general protection fault.
GPFHandler == /\ Runs /\ stack # <<>>
              /\ Top.int_no = GeneralProtection /\ GeneralProtection \in interruptHandlers
              /\ stopped' = Len(stack)
              /\ UNCHANGED <<maskVars, taskVars, panicCounter, interruptHandlers, stack, interruptContext>>

\* kernel_assert does not count as a panic.
kernel_assert == /\ RunsKernel
                 /\ stopped' = Len(stack)
                 /\ OpenSection
                 /\ UNCHANGED <<taskVars, panicCounter, interruptHandlers, stack, interruptContext>>

InterruptNext ==
    \/ \E n \in Irq : Interrupt(n)
    \/ \E n \in Exception : RaiseException(n)
    \/ \E n \in Vector : registerInterruptHandler(n)
    \/ CallSystem \/ Disable \/ (DirectoryIsBack /\ Enable) \/ Return
    \/ kernel_panic \/ PanicAgain \/ GPFHandler \/ kernel_assert
    \/ \E t \in Task : switchPageDir(t) \/ Start(t) \/ Fork(t) \/ Switch(t) \/ Destroy(t)

InterruptSpec == InterruptInit /\ [][InterruptNext]_interruptVars
-----------------------------------------------------------------------------
InterruptTypeOK ==
    /\ interruptHandlers \subseteq Vector
    /\ enabled \in BOOLEAN
    /\ __interruptsDisable \in Int
    /\ stack \in Seq(Frame)
    /\ interruptContext \in Nat
    /\ sections \in Nat
    /\ currentTask \in Task /\ cr3 \in Task
    /\ regs \in [Task -> Registers]
    /\ started \subseteq Task
    /\ panicCounter \in {0, 1}
    /\ stopped \in Nat \cup {-1}

\* Whatever handlers, sections, switches and exceptions follow each other, the
\* interrupts are enabled exactly when neither a handler runs nor a section is
\* open: a handler that closes its sections, or returns into one, does not
\* enable them, and none leaves them disabled (utils.s lines 5-40,
\* interrupts.s lines 139-193).
EnabledOutside == enabled <=> stack = <<>> /\ sections = 0

\* A system call that asks for the interrupted context gets its own frame:
\* fork copies it, yield and wait hand it to switchTask (isr.c lines 39-65).
ContextIsMine ==
    Runs /\ stack # <<>> /\ Top.int_no = SystemCall => interruptContext = Len(stack)

\* When a panic or an assertion has stopped the system, no interrupt is
\* accepted and no task is switched to any more (common.c lines 69-88).
StopIsFinal == [][stopped # -1 => UNCHANGED <<currentTask, started>> /\ ~enabled']_interruptVars

\* Outside of handlers and sections the page directory is that of the running
\* task, whatever switches, forks and nested exceptions the frames went through,
\* and though kernel_main has copied a program into another directory
\* (interrupts.s lines 156-186, task.c lines 93-103, 160-196 and 330-333).
DirectoryFollowsTask == stack = <<>> /\ sections = 0 => cr3 = currentTask
=============================================================================
