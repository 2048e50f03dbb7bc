----------------------------- MODULE BootProofs -----------------------------
(***************************************************************************)
(* The interrupts, the screen, and the start of the system.                *)
(*                                                                         *)
(* For every set of tasks, of hardware interrupts and of exceptions: the   *)
(* interrupts are enabled exactly outside handlers and sections, code      *)
(* outside them runs in the directory of its task, and a stop is final.    *)
(*                                                                         *)
(* For a screen of any size and any text: however the programs' characters *)
(* come between the accesses of kernel_main, the cursor stays on the       *)
(* screen, and unless they come between those that move the shown one, it  *)
(* is shown where it is.                                                   *)
(*                                                                         *)
(* The start of the system implements Interrupts and Screen: what is       *)
(* proved there holds whatever main, kernel_main, the programs and the     *)
(* panics do.  The order of its calls is right: a handler finds the state  *)
(* that it uses, programs come after what they use, the memory that is     *)
(* taken before there is a heap stays mapped, the tables of the firmware   *)
(* are found where they are, and a stack trace names the right functions.  *)
(***************************************************************************)
EXTENDS Boot, SequenceTheorems, FiniteSetTheorems, TLAPS

-----------------------------------------------------------------------------
(* Handlers, sections and panics: whatever the bounds MaxDepth and MaxSections. *)

\* What the counter is before the sections of the code that runs.
Base == IF stack = <<>> THEN 0 ELSE Top.regs.counter + 1

\* A frame has the flag, the counter and the directory of the code it
\* interrupted: that of the current task, unless kernel_main had loaded another
\* one in a section, and that of the frame below it.
FrameIsRight(i) ==
    /\ stack[i].regs.counter =
           (IF i = 1 THEN 0 ELSE stack[i - 1].regs.counter + 1) + stack[i].regs.sections
    /\ stack[i].regs.flag <=> i = 1 /\ stack[i].regs.sections = 0
    /\ stack[i].regs.cr3 =
           IF i = 1 /\ stack[i].regs.sections = 0 THEN currentTask ELSE cr3

\* What the first frame tells of the task it interrupted: only kernel_main has
\* sections, and only an exception comes into one.
FirstFrame ==
    stack # <<>> =>
        /\ stack[1].int_no \notin Exception => stack[1].regs.sections = 0
        /\ currentTask # kernelTask => stack[1].regs.sections = 0
        /\ stack[1].int_no = SystemCall => cr3 # kernelTask
        /\ stopped = 0 => stack[1].regs.sections > 0

\* A task that does not run was interrupted with the interrupts enabled, and in
\* its own directory.
SavedRegisters ==
    \A t \in Task : regs[t] = FreshRegisters(t)

Counted ==
    /\ __interruptsDisable = Base + sections
    /\ stack = <<>> /\ currentTask # kernelTask => sections = 0

\* The system has stopped in a handler that is still there, or with a section
\* of kernel_main open.
Stopping ==
    /\ stopped # -1 => stack # <<>> \/ sections > 0
    /\ stopped <= Len(stack)
    /\ panicCounter = 1 => stopped # -1

\* The inductive invariant.
IInv ==
    /\ InterruptTypeOK
    /\ \A i \in DOMAIN stack : stack[i].regs.counter \in Nat /\ FrameIsRight(i)
    /\ FirstFrame /\ SavedRegisters /\ Counted /\ Stopping
    /\ EnabledOutside /\ DirectoryFollowsTask
-----------------------------------------------------------------------------
\* Vectors: a system call is neither a hardware interrupt nor an exception.
LEMMA VectorsDiffer ==
    /\ \A n \in Irq : n \notin Exception /\ n # SystemCall
    /\ IRQ0 \notin Exception /\ SystemCall \notin Exception
    /\ SystemCall \in Vector /\ kernelTask \in Task
  BY InterruptConstants DEF IRQ0, SystemCall, Vector

\* What the type of the stack says of its frames.
LEMMA StackFrames ==
    ASSUME InterruptTypeOK
    PROVE  /\ Len(stack) \in Nat /\ DOMAIN stack = 1 .. Len(stack)
           /\ stack = <<>> <=> Len(stack) = 0
           /\ \A i \in 1 .. Len(stack) :
                 /\ stack[i] \in Frame
                 /\ stack[i].int_no \in Vector /\ stack[i].regs \in Registers
                 /\ stack[i].regs.flag \in BOOLEAN /\ stack[i].regs.cr3 \in Task
                 /\ stack[i].regs.sections \in Nat /\ stack[i].regs.counter \in Int
  <1>1. stack \in Seq(Frame)
    BY DEF InterruptTypeOK
  <1>2. \A i \in 1 .. Len(stack) : stack[i] \in Frame
    BY <1>1
  <1> QED
    BY <1>1, <1>2 DEF Frame, Registers

LEMMA FreshRegistersType ==
    ASSUME NEW t \in Task
    PROVE  FreshRegisters(t) \in Registers
  BY DEF FreshRegisters, Registers

\* The system starts with one section open.
LEMMA InitInvariant == InterruptInit => IInv
  <1> SUFFICES ASSUME InterruptInit PROVE IInv
    OBVIOUS
  <1>1. InterruptTypeOK
    <2>1. regs \in [Task -> Registers]
      BY FreshRegistersType DEF InterruptInit
    <2>2. stack \in Seq(Frame)
      BY DEF InterruptInit
    <2>3. currentTask \in Task /\ cr3 \in Task
      BY VectorsDiffer DEF InterruptInit
    <2>4. enabled \in BOOLEAN
      BY DEF InterruptInit
    <2>5. interruptHandlers \subseteq Vector /\ started \subseteq Task
      BY DEF InterruptInit
    <2>6. /\ __interruptsDisable \in Int /\ interruptContext \in Nat /\ sections \in Nat
          /\ panicCounter \in {0, 1} /\ stopped \in Nat \cup {-1}
      BY DEF InterruptInit
    <2> QED
      BY <2>1, <2>2, <2>3, <2>4, <2>5, <2>6 DEF InterruptTypeOK
  <1>2. stack = <<>> /\ Len(stack) = 0
    BY DEF InterruptInit
  <1>3. DOMAIN stack = {}
    BY <1>1, <1>2, StackFrames
  <1>4. SavedRegisters
    BY DEF InterruptInit, SavedRegisters
  <1>5. FirstFrame /\ Counted /\ Stopping
    BY <1>2 DEF InterruptInit, FirstFrame, Counted, Stopping, Base
  <1>6. EnabledOutside /\ DirectoryFollowsTask
    BY DEF InterruptInit, EnabledOutside, DirectoryFollowsTask
  <1> QED
    BY <1>1, <1>3, <1>4, <1>5, <1>6 DEF IInv

\* A handler is entered: the new frame is that of the code it interrupts.
\* Outside of handlers and sections only an exception comes into a section,
\* and only a program calls the system.
LEMMA EnterInvariant ==
    ASSUME IInv, NEW n \in Vector, Enter(n),
           stack = <<>> /\ sections # 0 => n \in Exception,
           stack = <<>> /\ n = SystemCall => currentTask # kernelTask
    PROVE  IInv'
  <1> DEFINE f == [int_no |-> n, regs |-> [flag |-> enabled, cr3 |-> cr3, sections |-> sections,
                                           counter |-> __interruptsDisable]]
             L == Len(stack)
  <1>1. /\ L \in Nat /\ (stack = <<>> <=> L = 0)
        /\ \A i \in 1 .. L : stack[i].regs.counter \in Nat /\ FrameIsRight(i) /\ stack[i] \in Frame
    BY StackFrames DEF IInv
  <1>2. /\ stack \in Seq(Frame) /\ sections \in Nat /\ enabled \in BOOLEAN /\ cr3 \in Task
        /\ __interruptsDisable \in Int /\ stopped \in Nat \cup {-1}
    BY DEF IInv, InterruptTypeOK
  <1>3. f \in Frame
    BY <1>2 DEF Frame, Registers
  <1>4. /\ stack' = Append(stack, f) /\ stack' \in Seq(Frame)
        /\ Len(stack') = L + 1 /\ stack' # <<>>
        /\ \A i \in 1 .. L : stack'[i] = stack[i]
        /\ stack'[L + 1] = f
    BY <1>2, <1>3 DEF Enter
  <1>5. /\ enabled' = FALSE /\ __interruptsDisable' = __interruptsDisable + 1 /\ sections' = 0
        /\ interruptContext' = L + 1
        /\ UNCHANGED <<currentTask, cr3, regs, started, interruptHandlers, panicCounter, stopped>>
    BY DEF Enter, taskVars, stopVars
  <1> HIDE DEF f, L
  <1>6. __interruptsDisable \in Nat /\ __interruptsDisable = (IF L = 0 THEN 0 ELSE stack[L].regs.counter + 1) + sections
    <2>1. __interruptsDisable = (IF stack = <<>> THEN 0 ELSE stack[L].regs.counter + 1) + sections
      BY DEF IInv, Counted, Base, Top, L
    <2>2. L # 0 => stack[L].regs.counter \in Nat
      BY <1>1
    <2> QED
      BY <1>1, <1>2, <2>1, <2>2
  <1>7. InterruptTypeOK'
    <2>1. stack' \in Seq(Frame) /\ interruptContext' \in Nat
      BY <1>1, <1>4, <1>5
    <2>2. __interruptsDisable' \in Int /\ sections' \in Nat
      BY <1>2, <1>5
    <2>3. enabled' \in BOOLEAN
      BY <1>5
    <2>4. UNCHANGED <<currentTask, cr3, regs, started, interruptHandlers, panicCounter, stopped>>
      BY <1>5
    <2> QED
      BY <2>1, <2>2, <2>3, <2>4 DEF IInv, InterruptTypeOK
  <1>8. ASSUME NEW i \in 1 .. L + 1
        PROVE  stack'[i].regs.counter \in Nat /\ FrameIsRight(i)'
    <2>1. CASE i = L + 1
      <3>1. stack'[i] = f
        BY <1>4, <2>1
      <3>2. L # 0 => stack'[i - 1] = stack[L] /\ i # 1
        BY <1>1, <1>4, <2>1
      <3>3. enabled <=> (L = 0 /\ sections = 0)
        BY <1>1 DEF IInv, EnabledOutside
      <3>4. L = 0 /\ sections = 0 => cr3 = currentTask
        BY <1>1 DEF IInv, DirectoryFollowsTask
      <3>5. /\ f.regs.flag = enabled /\ f.regs.cr3 = cr3 /\ f.regs.sections = sections
            /\ f.regs.counter = __interruptsDisable
        BY DEF f
      <3>6. i = 1 <=> L = 0
        BY <1>1, <2>1
      <3>7. f.regs.cr3 = IF i = 1 /\ f.regs.sections = 0 THEN currentTask ELSE cr3
        BY <3>4, <3>5, <3>6
      <3>8. f.regs.counter = (IF i = 1 THEN 0 ELSE stack'[i - 1].regs.counter + 1) + f.regs.sections
        BY <1>6, <3>2, <3>5, <3>6
      <3>9. f.regs.flag <=> i = 1 /\ f.regs.sections = 0
        BY <3>3, <3>5, <3>6
      <3>10. f.regs.counter \in Nat
        BY <1>6, <3>5
      <3>11. currentTask' = currentTask /\ cr3' = cr3
        BY <1>5
      <3>12. FrameIsRight(i)'
        <4>1. stack'[i].regs.counter =
                (IF i = 1 THEN 0 ELSE stack'[i - 1].regs.counter + 1) + stack'[i].regs.sections
          BY <3>1, <3>8
        <4>2. stack'[i].regs.flag <=> i = 1 /\ stack'[i].regs.sections = 0
          BY <3>1, <3>9, Zenon
        <4>3. stack'[i].regs.cr3 =
                IF i = 1 /\ stack'[i].regs.sections = 0 THEN currentTask' ELSE cr3'
          BY <3>1, <3>7, <3>11, Zenon
        <4> QED
          BY <4>1, <4>2, <4>3, Zenon DEF FrameIsRight
      <3> QED
        BY <3>1, <3>10, <3>12
    <2>2. CASE i \in 1 .. L
      <3>1. stack'[i] = stack[i] /\ (i # 1 => stack'[i - 1] = stack[i - 1])
        BY <1>1, <1>4, <2>2
      <3>2. FrameIsRight(i) /\ stack[i].regs.counter \in Nat
        BY <1>1, <2>2
      <3>3. currentTask' = currentTask /\ cr3' = cr3
        BY <1>5
      <3> QED
        BY <3>1, <3>2, <3>3, Zenon DEF FrameIsRight
    <2> QED
      BY <1>1, <2>1, <2>2
  <1>9. FirstFrame'
    <2>1. CASE L = 0
      <3>1. stack'[1] = f /\ stack = <<>>
        BY <1>1, <1>4, <2>1
      <3>2. sections = 0 => cr3 = currentTask
        BY <3>1 DEF IInv, DirectoryFollowsTask
      <3>3. stopped = 0 => sections > 0
        BY <3>1 DEF IInv, Stopping
      <3>4. currentTask # kernelTask => sections = 0
        BY <3>1 DEF IInv, Counted
      <3> QED
        BY <1>2, <1>5, <3>1, <3>2, <3>3, <3>4 DEF FirstFrame, f
    <2>2. CASE L # 0
      <3>1. stack'[1] = stack[1] /\ stack # <<>>
        BY <1>1, <1>4, <2>2
      <3> QED
        BY <1>5, <3>1 DEF IInv, FirstFrame
    <2> QED
      BY <2>1, <2>2
  <1>10. SavedRegisters'
    BY <1>5 DEF IInv, SavedRegisters, FreshRegisters
  <1>11. Counted'
    BY <1>1, <1>4, <1>5, <1>6 DEF Counted, Base, Top, f
  <1>12. Stopping'
    BY <1>1, <1>2, <1>4, <1>5 DEF IInv, Stopping, L
  <1>13. EnabledOutside' /\ DirectoryFollowsTask'
    BY <1>4, <1>5 DEF EnabledOutside, DirectoryFollowsTask
  <1>14. DOMAIN stack' = 1 .. L + 1
    BY <1>4
  <1> QED
    BY <1>7, <1>8, <1>9, <1>10, <1>11, <1>12, <1>13, <1>14 DEF IInv

\* A sequence without its last element.
LEMMA WithoutLast ==
    ASSUME NEW S, NEW s, NEW n \in Nat, n # 0, \A i \in 1 .. n : s[i] \in S
    PROVE  /\ SubSeq(s, 1, n - 1) \in Seq(S)
           /\ Len(SubSeq(s, 1, n - 1)) = n - 1
           /\ \A i \in 1 .. n - 1 : SubSeq(s, 1, n - 1)[i] = s[i]
  <1>1. n - 1 \in Int /\ \A i \in 1 .. n - 1 : s[i] \in S
    OBVIOUS
  <1>2. /\ SubSeq(s, 1, n - 1) \in Seq(S)
        /\ Len(SubSeq(s, 1, n - 1)) = IF 1 <= n - 1 THEN n - 1 - 1 + 1 ELSE 0
        /\ \A i \in 1 .. n - 1 - 1 + 1 : SubSeq(s, 1, n - 1)[i] = s[1 + i - 1]
    BY <1>1, SubSeqProperties
  <1> QED
    BY <1>2

\* A handler returns: the code below it gets its flag and its directory back.
LEMMA ReturnInvariant == IInv /\ Return => IInv'
  <1> SUFFICES ASSUME IInv, Return PROVE IInv'
    OBVIOUS
  <1> DEFINE L == Len(stack)
  <1>1. /\ L \in Nat /\ L # 0 /\ (stack = <<>> <=> L = 0)
        /\ \A i \in 1 .. L : /\ stack[i].regs.counter \in Nat /\ FrameIsRight(i)
                             /\ stack[i] \in Frame /\ stack[i].regs.sections \in Nat
                             /\ stack[i].regs.flag \in BOOLEAN /\ stack[i].regs.cr3 \in Task
    BY StackFrames DEF IInv, Return
  <1>2. /\ stack \in Seq(Frame) /\ __interruptsDisable \in Int
        /\ stopped \in Nat \cup {-1} /\ stopped < L
    BY DEF IInv, InterruptTypeOK, Return, Runs
  <1>3. /\ stack' = SubSeq(stack, 1, L - 1) /\ stack' \in Seq(Frame)
        /\ Len(stack') = L - 1 /\ DOMAIN stack' = 1 .. L - 1
        /\ (stack' = <<>> <=> L = 1)
        /\ \A i \in 1 .. L - 1 : stack'[i] = stack[i]
    <2>1. stack' = SubSeq(stack, 1, L - 1)
      BY DEF Return
    <2>2. /\ stack' \in Seq(Frame) /\ Len(stack') = L - 1
          /\ \A i \in 1 .. L - 1 : stack'[i] = stack[i]
      <3> HIDE DEF L
      <3> QED
        BY <1>1, <2>1, WithoutLast
    <2>3. DOMAIN stack' = 1 .. L - 1 /\ (stack' = <<>> <=> L - 1 = 0)
      BY <1>1, <2>2
    <2> QED
      BY <1>1, <2>1, <2>2, <2>3
  <1>4. /\ enabled' = stack[L].regs.flag /\ sections' = stack[L].regs.sections
        /\ __interruptsDisable' = __interruptsDisable - 1
        /\ interruptContext' = 0 /\ cr3' = stack[L].regs.cr3
        /\ UNCHANGED <<currentTask, regs, started, interruptHandlers, panicCounter, stopped>>
        /\ sections = 0
    BY DEF Return, Top, stopVars
  <1> HIDE DEF L
  <1>5. FrameIsRight(L) /\ stack[L].regs.counter \in Nat
    BY <1>1
  <1>6. __interruptsDisable = stack[L].regs.counter + 1
    BY <1>1, <1>4, <1>5 DEF IInv, Counted, Base, Top, L
  <1>7. L # 1 => cr3' = cr3
    BY <1>1, <1>4, <1>5 DEF FrameIsRight
  <1>8. InterruptTypeOK'
    <2>1. stack' \in Seq(Frame) /\ interruptContext' \in Nat
      BY <1>3, <1>4
    <2>2. sections' \in Nat /\ cr3' \in Task
      BY <1>1, <1>4
    <2>3. __interruptsDisable' \in Int
      BY <1>2, <1>4
    <2>4. enabled' \in BOOLEAN
      BY <1>1, <1>4
    <2>5. UNCHANGED <<currentTask, regs, started, interruptHandlers, panicCounter, stopped>>
      BY <1>4
    <2> QED
      BY <2>1, <2>2, <2>3, <2>4, <2>5 DEF IInv, InterruptTypeOK
  <1>9. ASSUME NEW i \in 1 .. L - 1
        PROVE  stack'[i].regs.counter \in Nat /\ FrameIsRight(i)'
    <2>1. stack'[i] = stack[i] /\ (i # 1 => stack'[i - 1] = stack[i - 1])
      BY <1>1, <1>3
    <2>2. i \in 1 .. L /\ L # 1
      BY <1>1
    <2> QED
      BY <1>1, <1>4, <1>7, <2>1, <2>2 DEF FrameIsRight
  <1>10. FirstFrame'
    <2>1. CASE L = 1
      BY <1>3, <2>1 DEF FirstFrame
    <2>2. CASE L # 1
      <3>1. stack'[1] = stack[1] /\ stack # <<>>
        BY <1>1, <1>3, <2>2
      <3> QED
        BY <1>4, <1>7, <2>2, <3>1 DEF IInv, FirstFrame
    <2> QED
      BY <2>1, <2>2
  <1>11. SavedRegisters'
    BY <1>4 DEF IInv, SavedRegisters, FreshRegisters
  <1>12. Counted'
    <2>1. CASE L = 1
      <3>1. currentTask # kernelTask => sections' = 0
        BY <1>1, <1>4, <2>1 DEF IInv, FirstFrame
      <3> QED
        BY <1>1, <1>3, <1>4, <1>5, <1>6, <2>1, <3>1 DEF Counted, Base, FrameIsRight
    <2>2. CASE L # 1
      <3>1. stack' # <<>> /\ Top' = stack[L - 1]
        BY <1>1, <1>3, <2>2 DEF Top
      <3>2. stack[L].regs.counter = stack[L - 1].regs.counter + 1 + stack[L].regs.sections
        BY <1>5, <2>2 DEF FrameIsRight
      <3>3. stack[L - 1].regs.counter \in Nat /\ stack[L].regs.sections \in Nat
        BY <1>1, <2>2
      <3> QED
        BY <1>4, <1>6, <3>1, <3>2, <3>3 DEF Counted, Base
    <2> QED
      BY <2>1, <2>2
  <1>13. Stopping'
    <2>1. L = 1 /\ stopped = 0 => sections' > 0
      BY <1>1, <1>4 DEF IInv, FirstFrame
    <2>2. stopped <= L - 1
      BY <1>1, <1>2
    <2>3. L = 1 => stopped \in {-1, 0}
      BY <1>2
    <2> QED
      BY <1>1, <1>3, <1>4, <2>1, <2>2, <2>3 DEF IInv, Stopping
  <1>14. EnabledOutside'
    BY <1>1, <1>3, <1>4, <1>5 DEF EnabledOutside, FrameIsRight
  <1>15. DirectoryFollowsTask'
    BY <1>1, <1>3, <1>4, <1>5 DEF DirectoryFollowsTask, FrameIsRight
  <1> QED
    BY <1>3, <1>8, <1>9, <1>10, <1>11, <1>12, <1>13, <1>14, <1>15 DEF IInv

\* While a handler that no exception interrupted runs alone, the system has not
\* stopped and the interrupted code had no section open.
LEMMA AloneInHandler ==
    ASSUME IInv, Runs, Len(stack) = 1, Top.int_no \notin Exception
    PROVE  /\ stopped = -1
           /\ stack[1].regs = FreshRegisters(currentTask)
           /\ stack[1] \in Frame /\ stack # <<>>
  <1>1. /\ Top = stack[1] /\ stack # <<>> /\ stack[1] \in Frame
        /\ stack[1].regs \in Registers
        /\ FrameIsRight(1)
    BY StackFrames DEF IInv, Top
  <1>2. stack[1].regs.sections = 0 /\ stopped # 0
    BY <1>1 DEF IInv, FirstFrame
  <1>3. stopped = -1
    <2>1. stopped \in Nat \cup {-1} /\ stopped < 1
      BY DEF IInv, InterruptTypeOK, Runs
    <2> QED
      BY <1>2, <2>1
  <1>4. /\ stack[1].regs.counter = 0 /\ stack[1].regs.cr3 = currentTask
        /\ stack[1].regs.sections = 0
    BY <1>1, <1>2 DEF FrameIsRight
  <1>5. stack[1].regs.flag = TRUE
    BY <1>1, <1>2 DEF FrameIsRight, Registers
  <1>6. stack[1].regs = [flag |-> stack[1].regs.flag, cr3 |-> stack[1].regs.cr3,
                         sections |-> stack[1].regs.sections, counter |-> stack[1].regs.counter]
    BY <1>1 DEF Registers
  <1> QED
    BY <1>1, <1>3, <1>4, <1>5, <1>6 DEF FreshRegisters

\* The frame of the handler gets the registers of the next task.
LEMMA SwitchInvariant == ASSUME IInv, NEW t \in Task, Switch(t) PROVE IInv'
  <1>1. /\ stack # <<>> /\ stopped = -1 /\ stack[1] \in Frame
        /\ stack[1].regs = FreshRegisters(currentTask)
        /\ Len(stack) = 1 /\ DOMAIN stack = {1} /\ Top = stack[1]
    BY AloneInHandler, VectorsDiffer, StackFrames DEF IInv, Switch, Top
  <1>2. /\ regs \in [Task -> Registers] /\ currentTask \in Task /\ stack \in Seq(Frame)
        /\ sections = 0 /\ regs[t] = FreshRegisters(t)
        /\ __interruptsDisable \in Int
    BY DEF IInv, InterruptTypeOK, SavedRegisters, Switch
  <1>3. /\ currentTask' = t
        /\ regs' = [regs EXCEPT ![currentTask] = FreshRegisters(currentTask)]
        /\ stack' = [stack EXCEPT ![1].regs = regs'[t]]
        /\ UNCHANGED <<enabled, __interruptsDisable, sections, cr3, started, interruptHandlers,
                       interruptContext, panicCounter, stopped>>
    BY <1>1 DEF Switch, maskVars, stopVars
  <1>4. SavedRegisters'
    BY <1>2, <1>3 DEF IInv, SavedRegisters, FreshRegisters
  <1>5. regs'[t] = FreshRegisters(t) /\ FreshRegisters(t) \in Registers
    BY <1>4, FreshRegistersType DEF SavedRegisters, FreshRegisters
  <1>6. /\ stack'[1] = [stack[1] EXCEPT !.regs = FreshRegisters(t)]
        /\ Len(stack') = 1 /\ DOMAIN stack' = {1} /\ stack' # <<>>
    BY <1>1, <1>2, <1>3, <1>5
  <1>7. /\ stack'[1].regs = FreshRegisters(t) /\ stack'[1].int_no = stack[1].int_no
        /\ stack'[1] \in Frame
    BY <1>1, <1>5, <1>6 DEF Frame
  <1>8. stack' \in Seq(Frame)
    BY <1>2, <1>3, <1>1, <1>6, <1>7
  <1>9. InterruptTypeOK'
    <2>1. regs' \in [Task -> Registers]
      BY <1>2, <1>3, FreshRegistersType
    <2> QED
      BY <1>3, <1>8, <2>1 DEF IInv, InterruptTypeOK
  <1>10. stack'[1].regs.counter \in Nat /\ FrameIsRight(1)'
    BY <1>3, <1>7 DEF FrameIsRight, FreshRegisters
  <1>11. FirstFrame'
    BY <1>1, <1>3, <1>7 DEF IInv, FirstFrame, FreshRegisters
  <1>12. Counted'
    <2>1. Top' = stack'[1]
      BY <1>6 DEF Top
    <2>2. __interruptsDisable = 1
      BY <1>1, <1>2 DEF IInv, Counted, Base, FreshRegisters
    <2> QED
      BY <1>2, <1>3, <1>6, <1>7, <2>1, <2>2 DEF Counted, Base, FreshRegisters
  <1>13. Stopping'
    BY <1>1, <1>3, <1>6 DEF IInv, Stopping
  <1>14. EnabledOutside' /\ DirectoryFollowsTask'
    BY <1>1, <1>3, <1>6 DEF IInv, EnabledOutside, DirectoryFollowsTask
  <1> QED
    BY <1>4, <1>6, <1>9, <1>10, <1>11, <1>12, <1>13, <1>14 DEF IInv

\* A step that leaves the frames, the current task and the directory alone.
LEMMA FramesStay ==
    ASSUME IInv, UNCHANGED <<stack, currentTask, cr3>>
    PROVE  /\ \A i \in DOMAIN stack' : stack'[i].regs.counter \in Nat /\ FrameIsRight(i)'
           /\ stopped' # 0 \/ stopped' = stopped \/ stack = <<>> => FirstFrame'
           /\ sections' = sections \/ sections' # 0 => DirectoryFollowsTask'
           /\ Base' = Base /\ Base \in Nat
  <1>1. \A i \in DOMAIN stack' : stack'[i].regs.counter \in Nat /\ FrameIsRight(i)'
    BY DEF IInv, FrameIsRight
  <1>2. stopped' # 0 \/ stopped' = stopped \/ stack = <<>> => FirstFrame'
    BY DEF IInv, FirstFrame
  <1>3. sections' = sections \/ sections' # 0 => DirectoryFollowsTask'
    BY DEF IInv, DirectoryFollowsTask
  <1>4. Base' = Base
    BY DEF Base, Top
  <1>5. Base \in Nat
    <2>1. stack # <<>> => Top.regs.counter \in Nat
      BY StackFrames DEF IInv, Top
    <2> QED
      BY <2>1 DEF Base
  <1> QED
    BY <1>1, <1>2, <1>3, <1>4, <1>5

\* Opening a section disables the interrupts, however many are open already.
LEMMA OpenSectionInvariant ==
    ASSUME IInv, RunsKernel, OpenSection,
           UNCHANGED <<stack, currentTask, cr3, regs, started, interruptHandlers, interruptContext>>,
           panicCounter' \in {0, 1}, panicCounter' = panicCounter \/ stopped' # -1,
           stopped' = stopped \/ stopped' = Len(stack)
    PROVE  IInv'
  <1>1. /\ Len(stack) \in Nat /\ (stack = <<>> <=> Len(stack) = 0)
        /\ sections \in Nat /\ stopped \in Nat \cup {-1} /\ stopped < Len(stack)
        /\ Base \in Nat /\ __interruptsDisable = Base + sections
    BY StackFrames, FramesStay DEF IInv, InterruptTypeOK, RunsKernel, Runs, Counted
  <1>2. /\ sections' = sections + 1 /\ sections' > 0 /\ sections' \in Nat
        /\ __interruptsDisable' = Base + sections' /\ __interruptsDisable' \in Int
    BY <1>1 DEF OpenSection
  <1>3. enabled' = FALSE
    <2>1. __interruptsDisable + 1 # 0
      BY <1>1
    <2> QED
      BY <2>1 DEF OpenSection
  <1>4. stopped' \in Nat \cup {-1} /\ stopped' <= Len(stack)
    BY <1>1
  <1>5. InterruptTypeOK'
    <2>1. enabled' \in BOOLEAN
      BY <1>3
    <2> QED
      BY <1>2, <1>4, <2>1 DEF IInv, InterruptTypeOK
  <1>6. FirstFrame'
    BY <1>1, FramesStay
  <1>7. SavedRegisters'
    BY DEF IInv, SavedRegisters, FreshRegisters
  <1>8. Counted'
    <2>1. stack' = <<>> => currentTask' = kernelTask
      BY DEF RunsKernel
    <2>2. Base' = Base
      BY FramesStay
    <2> QED
      BY <1>2, <2>1, <2>2 DEF Counted
  <1>9. Stopping'
    <2>1. panicCounter' = 1 => stopped' # -1
      BY <1>1 DEF IInv, Stopping
    <2> QED
      BY <1>2, <1>4, <2>1 DEF Stopping
  <1>10. EnabledOutside' /\ DirectoryFollowsTask'
    BY <1>2, <1>3 DEF EnabledOutside, DirectoryFollowsTask
  <1> QED
    BY <1>5, <1>6, <1>7, <1>8, <1>9, <1>10, FramesStay DEF IInv

\* Closing a section enables the interrupts only where the last one of
\* kernel_main is closed.
LEMMA EnableInvariant == IInv /\ DirectoryIsBack /\ Enable => IInv'
  <1> SUFFICES ASSUME IInv, DirectoryIsBack, Enable PROVE IInv'
    OBVIOUS
  <1>1. UNCHANGED <<stack, currentTask, cr3, regs, started, interruptHandlers, interruptContext,
                    panicCounter, stopped>>
    BY DEF Enable, taskVars, stopVars
  <1>2. /\ sections \in Nat /\ sections > 0 /\ sections' = sections - 1
        /\ Base \in Nat /\ __interruptsDisable = Base + sections
        /\ __interruptsDisable' = __interruptsDisable - 1
    BY <1>1, FramesStay DEF IInv, InterruptTypeOK, Counted, Enable
  <1>3. enabled' <=> Base = 0 /\ sections' = 0
    <2>1. enabled' <=> __interruptsDisable - 1 = 0
      BY DEF Enable
    <2>2. __interruptsDisable - 1 = 0 <=> Base = 0 /\ sections' = 0
      BY <1>2
    <2> QED
      BY <2>1, <2>2
  <1>4. Base = 0 <=> stack = <<>>
    <2>1. stack # <<>> => Top.regs.counter \in Nat
      BY StackFrames DEF IInv, Top
    <2> QED
      BY <2>1 DEF Base
  <1>5. InterruptTypeOK'
    <2>1. enabled' \in BOOLEAN
      BY DEF Enable
    <2>2. sections' \in Nat /\ __interruptsDisable' \in Int
      BY <1>2
    <2> QED
      BY <1>1, <2>1, <2>2 DEF IInv, InterruptTypeOK
  <1>6. SavedRegisters'
    BY <1>1 DEF IInv, SavedRegisters, FreshRegisters
  <1>7. Counted'
    <2>1. Base' = Base /\ (stack' = <<>> => currentTask' = kernelTask)
      BY <1>1, FramesStay DEF Enable, RunsKernel
    <2> QED
      BY <1>2, <2>1 DEF Counted
  <1>8. Stopping'
    <2>1. stopped # -1 => stack # <<>>
      <3>1. Runs /\ stopped \in Nat \cup {-1}
        BY DEF Enable, RunsKernel, IInv, InterruptTypeOK
      <3> QED
        BY <3>1, StackFrames DEF Runs, IInv
    <2> QED
      BY <1>1, <2>1 DEF IInv, Stopping
  <1>9. EnabledOutside'
    BY <1>1, <1>3, <1>4 DEF EnabledOutside
  <1>10. DirectoryFollowsTask'
    BY <1>1, <1>2 DEF DirectoryFollowsTask, DirectoryIsBack
  <1> QED
    BY <1>1, <1>5, <1>6, <1>7, <1>8, <1>9, <1>10, FramesStay DEF IInv

\* A second panic, or a general protection fault, in a handler that runs.
LEMMA LoopInvariant == IInv /\ (PanicAgain \/ GPFHandler) => IInv'
  <1> SUFFICES ASSUME IInv, PanicAgain \/ GPFHandler PROVE IInv'
    OBVIOUS
  <1>1. /\ UNCHANGED <<stack, currentTask, cr3, regs, started, interruptHandlers, interruptContext,
                       panicCounter, enabled, __interruptsDisable, sections>>
        /\ stopped' = Len(stack) /\ Runs
    BY DEF PanicAgain, GPFHandler, RunsKernel, maskVars, taskVars
  <1>2. Len(stack) \in Nat /\ (stack = <<>> <=> Len(stack) = 0)
    BY StackFrames DEF IInv
  <1>3. stack # <<>>
    <2>1. CASE PanicAgain
      <3>1. panicCounter = 1 /\ stopped # -1 /\ stopped \in Nat \cup {-1} /\ stopped < Len(stack)
        BY <1>1, <2>1 DEF IInv, InterruptTypeOK, Stopping, PanicAgain, Runs
      <3> QED
        BY <1>2, <3>1
    <2>2. CASE GPFHandler
      BY <2>2 DEF GPFHandler
    <2> QED
      BY <2>1, <2>2
  <1>4. InterruptTypeOK'
    BY <1>1, <1>2 DEF IInv, InterruptTypeOK
  <1>5. FirstFrame'
    BY <1>1, <1>2, <1>3, FramesStay
  <1>6. SavedRegisters' /\ EnabledOutside'
    BY <1>1 DEF IInv, SavedRegisters, FreshRegisters, EnabledOutside
  <1>7. Counted'
    BY <1>1, FramesStay DEF IInv, Counted
  <1>8. Stopping'
    BY <1>1, <1>2, <1>3 DEF Stopping
  <1> QED
    BY <1>1, <1>4, <1>5, <1>6, <1>7, <1>8, FramesStay DEF IInv

\* A new handler, a new task or the end of one, or no step at all.
LEMMA TasksInvariant ==
    ASSUME IInv,
           UNCHANGED <<stack, currentTask, cr3, enabled, __interruptsDisable, sections,
                       interruptContext, panicCounter, stopped>>,
           interruptHandlers' \subseteq Vector, started' \subseteq Task,
           regs' = regs \/ \E t \in Task : regs' = [regs EXCEPT ![t] = FreshRegisters(t)]
    PROVE  IInv'
  <1>1. regs' \in [Task -> Registers]
    BY FreshRegistersType DEF IInv, InterruptTypeOK
  <1>2. InterruptTypeOK'
    BY <1>1 DEF IInv, InterruptTypeOK
  <1>3. SavedRegisters'
    BY DEF IInv, InterruptTypeOK, SavedRegisters, FreshRegisters
  <1>4. Counted' /\ Stopping' /\ EnabledOutside' /\ FirstFrame'
    BY FramesStay DEF IInv, Counted, Stopping, EnabledOutside
  <1> QED
    BY <1>2, <1>3, <1>4, FramesStay DEF IInv

\* A forked task gets registers it can be switched to with.
LEMMA ForkInvariant == ASSUME IInv, NEW t \in Task, Fork(t) PROVE IInv' /\ stopped = -1
  <1>1. /\ stack[1].regs = FreshRegisters(currentTask) /\ stopped = -1
        /\ interruptContext = 1
    BY AloneInHandler, VectorsDiffer, StackFrames DEF IInv, Fork
  <1>2. [FreshRegisters(currentTask) EXCEPT !.cr3 = t] = FreshRegisters(t)
    <2> DEFINE r == FreshRegisters(currentTask)
               q == [r EXCEPT !.cr3 = t]
    <2>1. r \in Registers /\ r.flag = TRUE /\ r.sections = 0 /\ r.counter = 0
      BY FreshRegistersType DEF IInv, InterruptTypeOK, FreshRegisters
    <2> HIDE DEF r
    <2>2. /\ q \in Registers
          /\ q.flag = r.flag /\ q.cr3 = t /\ q.sections = r.sections /\ q.counter = r.counter
      BY <2>1 DEF Registers
    <2> HIDE DEF q
    <2>3. q = [flag |-> q.flag, cr3 |-> q.cr3, sections |-> q.sections, counter |-> q.counter]
      BY <2>2 DEF Registers
    <2>4. q = FreshRegisters(t)
      BY <2>1, <2>2, <2>3 DEF FreshRegisters
    <2> QED
      BY <2>4 DEF q, r
  <1>3. /\ regs' = [regs EXCEPT ![t] = FreshRegisters(t)] /\ started' = started \cup {t}
        /\ UNCHANGED <<stack, currentTask, cr3, enabled, __interruptsDisable, sections,
                       interruptHandlers, interruptContext, panicCounter, stopped>>
    BY <1>1, <1>2 DEF Fork, maskVars, stopVars
  <1>4. interruptHandlers' \subseteq Vector /\ started' \subseteq Task
    BY <1>3 DEF IInv, InterruptTypeOK
  <1> QED
    BY <1>1, <1>3, <1>4, TasksInvariant

\* The task that ends is another one than the system has stopped in.
LEMMA DestroyInvariant == ASSUME IInv, NEW t \in Task, Destroy(t) PROVE IInv' /\ stopped = -1
  <1>1. stopped = -1
    BY AloneInHandler, VectorsDiffer DEF Destroy
  <1>2. /\ UNCHANGED <<regs, stack, currentTask, cr3, enabled, __interruptsDisable, sections,
                       interruptHandlers, interruptContext, panicCounter, stopped>>
        /\ started' \subseteq started
    BY DEF Destroy, maskVars, stopVars
  <1>3. interruptHandlers' \subseteq Vector /\ started' \subseteq Task
    BY <1>2 DEF IInv, InterruptTypeOK
  <1> QED
    BY <1>1, <1>2, <1>3, TasksInvariant

LEMMA StartInvariant == ASSUME IInv, NEW t \in Task, Start(t) PROVE IInv' /\ stopped = -1
  <1>1. stopped = -1
    BY StackFrames DEF IInv, InterruptTypeOK, Start, RunsKernel, Runs
  <1>2. /\ UNCHANGED <<stack, currentTask, cr3, enabled, __interruptsDisable, sections,
                       interruptHandlers, interruptContext, panicCounter, stopped>>
        /\ started' = started \cup {t} /\ regs' = [regs EXCEPT ![t] = FreshRegisters(t)]
    BY DEF Start, maskVars, stopVars
  <1>3. interruptHandlers' \subseteq Vector /\ started' \subseteq Task
    BY <1>2 DEF IInv, InterruptTypeOK
  <1> QED
    BY <1>1, <1>2, <1>3, TasksInvariant

\* Another directory is loaded in a section: nothing comes into it but an
\* exception.
LEMMA LoadInvariant ==
    ASSUME IInv, NEW t \in Task, switchPageDir(t) PROVE IInv' /\ started' = started
  <1>1. /\ UNCHANGED <<stack, currentTask, enabled, __interruptsDisable, sections, regs, started,
                       interruptHandlers, interruptContext, panicCounter, stopped>>
        /\ cr3' = t /\ stack = <<>> /\ sections > 0
    BY DEF switchPageDir, maskVars, stopVars
  <1>2. InterruptTypeOK'
    BY <1>1 DEF IInv, InterruptTypeOK
  <1>3. DOMAIN stack' = {}
    BY <1>1, <1>2
  <1>4. SavedRegisters' /\ FirstFrame'
    BY <1>1 DEF IInv, SavedRegisters, FreshRegisters, FirstFrame
  <1>5. Counted' /\ Stopping'
    BY <1>1 DEF IInv, Counted, Base, Stopping
  <1>6. EnabledOutside' /\ DirectoryFollowsTask'
    BY <1>1 DEF IInv, EnabledOutside, DirectoryFollowsTask
  <1> QED
    BY <1>1, <1>2, <1>3, <1>4, <1>5, <1>6 DEF IInv

LEMMA RegisterInvariant ==
    ASSUME IInv, NEW n \in Vector, registerInterruptHandler(n) PROVE IInv'
  <1>1. /\ UNCHANGED <<regs, started, stack, currentTask, cr3, enabled, __interruptsDisable,
                       sections, interruptContext, panicCounter, stopped>>
        /\ interruptHandlers' = interruptHandlers \cup {n}
    BY DEF registerInterruptHandler, maskVars, stopVars, taskVars
  <1>2. interruptHandlers' \subseteq Vector /\ started' \subseteq Task
    BY <1>1 DEF IInv, InterruptTypeOK
  <1> QED
    BY <1>1, <1>2, TasksInvariant

\* The three ways into a handler.
LEMMA InterruptInvariant == ASSUME IInv, NEW n \in Irq, Interrupt(n) PROVE IInv'
  <1>1. stack = <<>> /\ sections = 0 /\ Enter(n) /\ n \in Vector /\ n # SystemCall
    BY VectorsDiffer DEF IInv, EnabledOutside, Interrupt, Vector
  <1> QED
    BY <1>1, EnterInvariant

LEMMA CallSystemInvariant == ASSUME IInv, CallSystem PROVE IInv'
  <1>1. stack = <<>> /\ currentTask # kernelTask /\ Enter(SystemCall)
    BY DEF CallSystem, RunsKernel
  <1>2. sections = 0
    BY <1>1 DEF IInv, Counted
  <1> QED
    BY <1>1, <1>2, VectorsDiffer, EnterInvariant

LEMMA RaiseInvariant == ASSUME IInv, NEW n \in Exception, RaiseException(n) PROVE IInv'
  <1>1. Enter(n) /\ n \in Vector /\ n # SystemCall
    BY VectorsDiffer DEF RaiseException, Vector
  <1> QED
    BY <1>1, EnterInvariant

\* A section, a panic or an assertion: what opens a section.
LEMMA OpenInvariant == IInv /\ (Disable \/ kernel_panic \/ kernel_assert) => IInv'
  <1> SUFFICES ASSUME IInv, Disable \/ kernel_panic \/ kernel_assert PROVE IInv'
    OBVIOUS
  <1>1. /\ RunsKernel /\ OpenSection
        /\ UNCHANGED <<stack, currentTask, cr3, regs, started, interruptHandlers, interruptContext>>
    BY DEF Disable, kernel_panic, kernel_assert, taskVars
  <1>2. panicCounter \in {0, 1} /\ Len(stack) \in Nat
    BY StackFrames DEF IInv, InterruptTypeOK
  <1>3. stopped' = stopped \/ stopped' = Len(stack)
    BY DEF Disable, kernel_panic, kernel_assert, stopVars
  <1>4. panicCounter' \in {0, 1} /\ (panicCounter' = panicCounter \/ stopped' # -1)
    BY <1>2 DEF Disable, kernel_panic, kernel_assert, stopVars
  <1> QED
    BY <1>1, <1>3, <1>4, OpenSectionInvariant

LEMMA NextInvariant == IInv /\ [InterruptNext]_interruptVars => IInv'
  <1> SUFFICES ASSUME IInv, [InterruptNext]_interruptVars PROVE IInv'
    OBVIOUS
  <1>1. CASE \E n \in Irq : Interrupt(n)
    BY <1>1, InterruptInvariant
  <1>2. CASE \E n \in Exception : RaiseException(n)
    BY <1>2, RaiseInvariant
  <1>3. CASE \E n \in Vector : registerInterruptHandler(n)
    BY <1>3, RegisterInvariant
  <1>4. CASE CallSystem \/ (DirectoryIsBack /\ Enable) \/ Return
    BY <1>4, CallSystemInvariant, EnableInvariant, ReturnInvariant
  <1>5. CASE Disable \/ kernel_panic \/ kernel_assert
    BY <1>5, OpenInvariant
  <1>6. CASE PanicAgain \/ GPFHandler
    BY <1>6, LoopInvariant
  <1>7. CASE \E t \in Task : switchPageDir(t) \/ Start(t) \/ Fork(t) \/ Switch(t) \/ Destroy(t)
    BY <1>7, LoadInvariant, StartInvariant, ForkInvariant, SwitchInvariant, DestroyInvariant
  <1>8. CASE UNCHANGED interruptVars
    <2>1. UNCHANGED <<stack, currentTask, cr3, enabled, __interruptsDisable, sections, regs, started,
                      interruptHandlers, interruptContext, panicCounter, stopped>>
      BY <1>8 DEF interruptVars, maskVars, taskVars, stopVars
    <2>2. interruptHandlers' \subseteq Vector /\ started' \subseteq Task
      BY <2>1 DEF IInv, InterruptTypeOK
    <2> QED
      BY <2>1, <2>2, TasksInvariant
  <1> QED
    BY <1>1, <1>2, <1>3, <1>4, <1>5, <1>6, <1>7, <1>8 DEF InterruptNext

THEOREM InvariantHolds == InterruptSpec => []IInv
  <1>1. InterruptInit => IInv
    BY InitInvariant
  <1>2. IInv /\ [InterruptNext]_interruptVars => IInv'
    BY NextInvariant
  <1> QED
    BY <1>1, <1>2, PTL DEF InterruptSpec

\* Every variable keeps its type, however deep handlers interrupt one another.
THEOREM InterruptsTypeCorrect == InterruptSpec => []InterruptTypeOK
  <1>1. IInv => InterruptTypeOK
    BY DEF IInv
  <1> QED
    BY <1>1, InvariantHolds, PTL

\* The interrupts are enabled exactly outside of handlers and sections
\* (__disableInterrupts, __enableInterrupts, ASMInterruptPreHandler).
THEOREM EnabledExactlyOutside == InterruptSpec => []EnabledOutside
  <1>1. IInv => EnabledOutside
    BY DEF IInv
  <1> QED
    BY <1>1, InvariantHolds, PTL

\* Code that no handler interrupted runs, outside of sections, in the page
\* directory of its task, if kernel_main leaves no section with another one
\* loaded: BootImplementsInterrupts shows that it does not
\* (ASMInterruptPreHandler, switchTask, fork, makeTaskFromELF).
THEOREM DirectoryIsTheTasks == InterruptSpec => []DirectoryFollowsTask
  <1>1. IInv => DirectoryFollowsTask
    BY DEF IInv
  <1> QED
    BY <1>1, InvariantHolds, PTL
-----------------------------------------------------------------------------
\* A system that has stopped stays so: neither task nor flag changes.
LEMMA StopStep ==
    ASSUME IInv, IInv', [InterruptNext]_interruptVars
    PROVE  [stopped # -1 => UNCHANGED <<currentTask, started>> /\ ~enabled']_interruptVars
  <1> SUFFICES ASSUME InterruptNext, stopped # -1
               PROVE  UNCHANGED <<currentTask, started>> /\ ~enabled'
    OBVIOUS
  <1>1. \A t \in Task : ~Start(t) /\ ~Fork(t) /\ ~Destroy(t)
    BY StartInvariant, ForkInvariant, DestroyInvariant
  <1>2. \A t \in Task : ~Switch(t)
    <2> SUFFICES ASSUME NEW t \in Task, Switch(t) PROVE FALSE
      OBVIOUS
    <2>1. Runs /\ Len(stack) = 1 /\ Top.int_no \in {IRQ0, SystemCall}
      BY DEF Switch
    <2> QED
      BY <2>1, AloneInHandler, VectorsDiffer
  <1>3. UNCHANGED <<currentTask, started>>
    BY <1>1, <1>2 DEF InterruptNext, Interrupt, RaiseException, registerInterruptHandler, CallSystem,
       Enter, Disable, Enable, Return, kernel_panic, PanicAgain, GPFHandler, kernel_assert, taskVars,
       switchPageDir
  <1>4. stopped' # -1
    <2>1. stopped' = stopped \/ stopped' = Len(stack)
      BY <1>1, <1>2 DEF InterruptNext, Interrupt, RaiseException, registerInterruptHandler,
         CallSystem, Enter, Disable, Enable, Return, kernel_panic, PanicAgain, GPFHandler,
         kernel_assert, stopVars, switchPageDir
    <2>2. Len(stack) \in Nat
      BY StackFrames DEF IInv
    <2> QED
      BY <2>1, <2>2
  <1>5. ~enabled'
    <2>1. stack' # <<>> \/ sections' > 0
      BY <1>4 DEF IInv, Stopping
    <2>2. sections' \in Nat
      BY DEF IInv, InterruptTypeOK
    <2>3. enabled' <=> stack' = <<>> /\ sections' = 0
      BY DEF IInv, EnabledOutside
    <2> QED
      BY <2>1, <2>2, <2>3
  <1> QED
    BY <1>3, <1>5

\* After a panic or an assertion no interrupt comes and no task is switched to
\* (kernel_panic, kernel_assert, GPFHandler).
THEOREM StoppedForEver == InterruptSpec => StopIsFinal
  <1>1. IInv /\ IInv' /\ [InterruptNext]_interruptVars
            => [stopped # -1 => UNCHANGED <<currentTask, started>> /\ ~enabled']_interruptVars
    BY StopStep
  <1> QED
    BY <1>1, InvariantHolds, PTL DEF InterruptSpec, StopIsFinal
-----------------------------------------------------------------------------
\* Only exceptions come into a handler, and a system call that none has
\* interrupted has its own frame in interruptContext.
CInv ==
    /\ \A i \in 2 .. Len(stack) : stack[i].int_no \in Exception
    /\ Len(stack) = 1 /\ stack[1].int_no = SystemCall => interruptContext = 1

LEMMA EnterContext ==
    ASSUME IInv, CInv, NEW n \in Vector, Enter(n), stack = <<>> \/ n \in Exception
    PROVE  CInv'
  <1>1. /\ Len(stack) \in Nat /\ (stack = <<>> <=> Len(stack) = 0)
    BY StackFrames DEF IInv
  <1> DEFINE f == [int_no |-> n, regs |-> [flag |-> enabled, cr3 |-> cr3, sections |-> sections,
                                           counter |-> __interruptsDisable]]
  <1>2. stack' = Append(stack, f) /\ interruptContext' = Len(stack) + 1 /\ f.int_no = n
    BY DEF Enter
  <1>3. stack \in Seq(Frame) /\ f \in Frame
    BY DEF IInv, InterruptTypeOK, Frame, Registers
  <1> HIDE DEF f
  <1>4. /\ Len(stack') = Len(stack) + 1 /\ stack'[Len(stack) + 1] = f
        /\ \A i \in 1 .. Len(stack) : stack'[i] = stack[i]
    BY <1>2, <1>3
  <1> QED
    BY <1>1, <1>2, <1>4 DEF CInv

\* No exception that interrupts a system call returns to it: a page fault is
\* resolved in the directory of the kernel only.
LEMMA ReturnContext ==
    ASSUME Exception \subseteq {GeneralProtection, PageFault}, IInv, CInv, Return
    PROVE  CInv'
  <1>1. /\ Len(stack) \in Nat /\ Len(stack) # 0 /\ stack # <<>>
        /\ \A i \in 1 .. Len(stack) : stack[i] \in Frame
    BY StackFrames DEF IInv, Return
  <1>2. /\ Len(stack') = Len(stack) - 1
        /\ \A i \in 1 .. Len(stack) - 1 : stack'[i] = stack[i]
    <2> DEFINE L == Len(stack)
    <2>1. stack' = SubSeq(stack, 1, L - 1)
      BY DEF Return
    <2>2. L \in Nat /\ L # 0 /\ \A i \in 1 .. L : stack[i] \in Frame
      BY <1>1
    <2> HIDE DEF L
    <2>3. Len(stack') = L - 1 /\ \A i \in 1 .. L - 1 : stack'[i] = stack[i]
      BY <2>1, <2>2, WithoutLast
    <2> QED
      BY <2>3 DEF L
  <1>3. ~(Len(stack) = 2 /\ stack[1].int_no = SystemCall)
    <2> SUFFICES ASSUME Len(stack) = 2, stack[1].int_no = SystemCall PROVE FALSE
      OBVIOUS
    <2>1. Top.int_no \in {GeneralProtection, PageFault} /\ Returns(Top.int_no)
      BY DEF CInv, Top, Return
    <2>2. cr3 = kernelTask
      BY <2>1 DEF Returns, GeneralProtection, PageFault
    <2> QED
      BY <1>1, <2>2 DEF IInv, FirstFrame
  <1> QED
    BY <1>1, <1>2, <1>3 DEF CInv

LEMMA ContextStep ==
    ASSUME Exception \subseteq {GeneralProtection, PageFault},
           IInv, CInv, [InterruptNext]_interruptVars
    PROVE  CInv'
  <1>1. CASE \E n \in Irq : Interrupt(n)
    BY <1>1, EnterContext DEF Interrupt, IInv, EnabledOutside, Vector
  <1>2. CASE \E n \in Exception : RaiseException(n)
    BY <1>2, EnterContext DEF RaiseException, Vector
  <1>3. CASE CallSystem
    BY <1>3, EnterContext, VectorsDiffer DEF CallSystem, RunsKernel
  <1>4. CASE Return
    BY <1>4, ReturnContext
  <1>5. CASE \E t \in Task : Switch(t)
    <2>1. PICK t \in Task : Switch(t)
      BY <1>5
    <2>2. /\ Len(stack) = 1 /\ stack \in Seq(Frame) /\ interruptContext' = interruptContext
          /\ stack' = [stack EXCEPT ![1].regs = regs'[t]]
      BY <2>1 DEF Switch, IInv, InterruptTypeOK
    <2>3. stack'[1] = [stack[1] EXCEPT !.regs = regs'[t]] /\ Len(stack') = 1 /\ stack[1] \in Frame
      BY <2>2
    <2>4. stack'[1].int_no = stack[1].int_no
      BY <2>3 DEF Frame
    <2>5. Len(stack) = 1 /\ Len(stack') = 1 /\ interruptContext' = interruptContext
      BY <2>2, <2>3
    <2>6. stack'[1].int_no = SystemCall => interruptContext' = 1
      BY <2>4, <2>5 DEF CInv
    <2> QED
      BY <2>5, <2>6 DEF CInv
  <1>6. CASE UNCHANGED <<stack, interruptContext>>
    BY <1>6 DEF CInv
  <1> QED
    BY <1>1, <1>2, <1>3, <1>4, <1>5, <1>6
       DEF InterruptNext, interruptVars, registerInterruptHandler, Disable, Enable, kernel_panic,
           PanicAgain, GPFHandler, kernel_assert, switchPageDir, Start, Fork, Destroy

\* With the exceptions that the kernel has handlers for, a system call finds
\* its own frame in interruptContext (getInterruptedContext; fork, yield, wait).
THEOREM SystemCallsFindTheirContext ==
    ASSUME Exception \subseteq {GeneralProtection, PageFault}
    PROVE  InterruptSpec => []ContextIsMine
  <1>1. InterruptInit => CInv
    BY DEF InterruptInit, CInv
  <1>2. IInv /\ CInv /\ [InterruptNext]_interruptVars => CInv'
    BY ContextStep
  <1>3. IInv /\ CInv => ContextIsMine
    <2> SUFFICES ASSUME IInv, CInv, stack # <<>>, Top.int_no = SystemCall
                 PROVE  interruptContext = Len(stack)
      BY DEF ContextIsMine
    <2>1. Len(stack) \in Nat /\ Len(stack) # 0
      BY StackFrames DEF IInv
    <2>2. stack[Len(stack)].int_no \notin Exception
      BY VectorsDiffer DEF Top
    <2>3. Len(stack) = 1
      <3> DEFINE L == Len(stack)
      <3>1. L \in 2 .. L => stack[L].int_no \in Exception
        BY DEF CInv
      <3>2. L \in Nat /\ L # 0 /\ stack[L].int_no \notin Exception
        BY <2>1, <2>2
      <3> HIDE DEF L
      <3>3. L = 1
        BY <3>1, <3>2
      <3> QED
        BY <3>3 DEF L
    <2> QED
      BY <2>3 DEF CInv, Top
  <1> QED
    BY <1>1, <1>2, <1>3, InvariantHolds, PTL DEF InterruptSpec

-----------------------------------------------------------------------------
(* The screen. *)

\* Where the cursor is, and what was read of it, between two accesses: the
\* column passes the edge until the wrap, the line until the scrolling.
InBounds(x, y, at, read) ==
    /\ x \in Nat /\ y \in Nat /\ read \in Nat
    /\ x < SCREEN_WIDTH + 4 /\ y <= SCREEN_HEIGHT
    /\ at \notin {"wrap", "storeWrap"} \/ y = SCREEN_HEIGHT => x < SCREEN_WIDTH
    /\ at \notin {"return", "wrap", "scroll", "storeScroll"} => y < SCREEN_HEIGHT
    /\ at = "loadX" => read <= 4
    /\ at = "storeX" => read < SCREEN_WIDTH + 4
    /\ at \in {"storeY", "storeCarry"} => read < SCREEN_HEIGHT

Bounded == /\ cursor \in [x : Nat, y : Nat]
           /\ InBounds(cursor.x, cursor.y, printing.at, printing.read)

\* What the controller has been told so far of the location that kernel_main
\* computed, as long as no program came in between.
Told ==
    /\ printing.at = "locationX" /\ ~torn => printing.read = cursor.y
    /\ printing.at \in MoveWindow \ {"locationX"} /\ ~torn => printing.read = Location(cursor)
    /\ printing.at = "data14" /\ ~torn => crtc.index = 14
    /\ printing.at \in {"index15", "data15"} /\ ~torn => crtc.high = printing.read
    /\ printing.at = "data15" /\ ~torn => crtc.index = 15

\* The registers that are updated are there.
Fields == crtc = [index |-> crtc.index, high |-> crtc.high, low |-> crtc.low]

SInv == Fields /\ Bounded /\ Told /\ CursorIsShown

LEMMA Sizes == /\ SCREEN_WIDTH \in Nat /\ SCREEN_WIDTH > 0
               /\ SCREEN_HEIGHT \in Nat /\ SCREEN_HEIGHT > 0
  <1>1. SCREEN_WIDTH \in Nat \ {0} /\ SCREEN_HEIGHT \in Nat \ {0}
    BY ScreenConstants, Zenon
  <1> QED
    BY <1>1

LEMMA LocationType ==
    ASSUME NEW c, c.x \in Nat, c.y \in Nat
    PROVE  Location(c) \in Nat
  BY Sizes DEF Location

LEMMA ScreenInitInvariant == ScreenInit => SInv
  <1> SUFFICES ASSUME ScreenInit PROVE SInv
    OBVIOUS
  <1>1. Fields
    BY DEF ScreenInit, Fields
  <1>2. Bounded
    BY Sizes DEF ScreenInit, Bounded, InBounds
  <1>3. Told
    BY DEF ScreenInit, Told, MoveWindow
  <1>4. CursorIsShown
    BY Sizes DEF ScreenInit, CursorIsShown, Location
  <1> QED
    BY <1>1, <1>2, <1>3, <1>4 DEF SInv

\* A character moves the cursor at most four columns to the right, to the next
\* tab, or to the start of the next line.
LEMMA StepMoves ==
    ASSUME NEW c \in [x : Nat, y : Nat], NEW char
    PROVE  /\ Step(c, char) \in [x : Nat, y : Nat]
           /\ Step(c, char).x <= c.x + 4
           /\ Step(c, char).y = c.y \/ (Step(c, char).y = c.y + 1 /\ Step(c, char).x = 0)
  <1>1. c = [x |-> c.x, y |-> c.y] /\ c.x \in Nat /\ c.y \in Nat
    OBVIOUS
  <1>2. c.x + (4 - (c.x % 4)) \in Nat /\ c.x + (4 - (c.x % 4)) <= c.x + 4
    BY <1>1
  <1>3. Step(c, char) \in {[x |-> IF c.x > 0 THEN c.x - 1 ELSE 0, y |-> c.y],
                           [x |-> c.x + (4 - (c.x % 4)), y |-> c.y],
                           [x |-> 0, y |-> c.y + 1], [x |-> 0, y |-> c.y],
                           [x |-> c.x + 1, y |-> c.y], c}
    BY <1>1 DEF Step
  <1> QED
    BY <1>1, <1>2, <1>3

\* Wherever the cursor was, it is on the screen after it is wrapped and
\* scrolled.
LEMMA ScrolledOnScreen ==
    ASSUME NEW c \in [x : Nat, y : Nat]
    PROVE  /\ Wrapped(c) \in [x : Nat, y : Nat] /\ Wrapped(c).x < SCREEN_WIDTH
           /\ Scrolled(c) \in [x : Nat, y : Nat] /\ Scrolled(c).y < SCREEN_HEIGHT
           /\ Scrolled(c).x = c.x
  BY Sizes DEF Wrapped, Scrolled

\* A program shows the cursor on the screen: the whole of it is consistent.
LEMMA ShowsInvariant ==
    ASSUME SInv, NEW c \in [x : Nat, y : Nat], c.x < SCREEN_WIDTH, c.y < SCREEN_HEIGHT, ShowsAt(c)
    PROVE  SInv'
  <1>1. /\ cursor' = c /\ printing' = printing /\ torn' = (printing.at \in MoveWindow)
        /\ crtc' = [index |-> 15, high |-> Location(c), low |-> Location(c)]
    BY DEF ShowsAt
  <1>2. Bounded'
    <2>1. printing.read \in Nat
               /\ (printing.at = "loadX" => printing.read <= 4)
               /\ (printing.at = "storeX" => printing.read < SCREEN_WIDTH + 4)
               /\ (printing.at \in {"storeY", "storeCarry"} => printing.read < SCREEN_HEIGHT)
      BY DEF SInv, Bounded, InBounds
    <2>2. cursor' = c /\ printing' = printing /\ c.x \in Nat /\ c.y \in Nat
      BY <1>1
    <2>3. c.x < SCREEN_WIDTH + 4 /\ c.y <= SCREEN_HEIGHT
      BY <2>2, Sizes
    <2> QED
      BY <2>1, <2>2, <2>3 DEF Bounded, InBounds
  <1>3. Told'
    BY <1>1 DEF Told, MoveWindow
  <1>4. CursorIsShown'
    BY <1>1 DEF CursorIsShown, Location
  <1>5. Fields'
    BY <1>1 DEF SInv, Fields
  <1> QED
    BY <1>2, <1>3, <1>4, <1>5 DEF SInv

LEMMA ProgramInvariant ==
    SInv /\ (screenClear \/ PrintsText \/ (\E char \in Character : screenPutChar(char))
                \/ \E n \in Nat : PrintsLines(n)) => SInv'
  <1> SUFFICES ASSUME SInv PROVE (screenClear \/ PrintsText \/ (\E char \in Character : screenPutChar(char))
                \/ \E n \in Nat : PrintsLines(n)) => SInv'
    OBVIOUS
  <1>1. cursor \in [x : Nat, y : Nat] /\ cursor.y \in Nat
    BY DEF SInv, Bounded, InBounds
  <1>2. screenClear => SInv'
    BY Sizes, ShowsInvariant DEF screenClear
  <1>3. ASSUME NEW char \in Character, screenPutChar(char) PROVE SInv'
    <2> DEFINE s == Step(cursor, char)
               w == Wrapped(s)
    <2>1. s \in [x : Nat, y : Nat]
      BY <1>1, StepMoves
    <2> HIDE DEF s
    <2>2. w \in [x : Nat, y : Nat] /\ w.x < SCREEN_WIDTH
      BY <2>1, ScrolledOnScreen
    <2> HIDE DEF w
    <2>3. Scrolled(w) \in [x : Nat, y : Nat] /\ Scrolled(w).x < SCREEN_WIDTH
          /\ Scrolled(w).y < SCREEN_HEIGHT
      BY <2>2, ScrolledOnScreen
    <2>4. ShowsAt(Scrolled(w))
      BY <1>3 DEF screenPutChar, s, w
    <2> QED
      BY <2>3, <2>4, ShowsInvariant
  <1>4. ASSUME NEW n \in Nat, NEW x \in 0 .. SCREEN_WIDTH - 1,
               ShowsAt(Scrolled([x |-> x, y |-> cursor.y + n]))
        PROVE  SInv'
    <2> DEFINE c == [x |-> x, y |-> cursor.y + n]
    <2>1. c \in [x : Nat, y : Nat] /\ c.x < SCREEN_WIDTH
      BY <1>1, Sizes
    <2>2. ShowsAt(Scrolled(c))
      BY <1>4
    <2> HIDE DEF c
    <2>3. Scrolled(c) \in [x : Nat, y : Nat] /\ Scrolled(c).x < SCREEN_WIDTH
          /\ Scrolled(c).y < SCREEN_HEIGHT
      BY <2>1, ScrolledOnScreen
    <2> QED
      BY <2>2, <2>3, ShowsInvariant
  <1>5. 0 \in 0 .. SCREEN_WIDTH - 1 /\ 0 .. 1 \subseteq Nat
    BY Sizes
  <1> QED
    BY <1>2, <1>3, <1>4, <1>5 DEF PrintsText, PrintsLines

\* kernel_main's accesses to the cursor, one at a time.
LEMMA CursorAccess ==
    ASSUME SInv, KernelPrints
    PROVE  Bounded'
  <1>1. /\ cursor = [x |-> cursor.x, y |-> cursor.y]
        /\ cursor.x \in Nat /\ cursor.y \in Nat /\ printing.read \in Nat
    BY DEF SInv, Bounded, InBounds
  <1>2. InBounds(cursor.x, cursor.y, printing.at, printing.read)
    BY DEF SInv, Bounded
  <1>3. CASE Draw
    <2>1. /\ cursor' = cursor /\ printing.at = "draw" /\ printing'.read \in {0, 1}
          /\ printing'.at \in {"loadX", "loadTab", "loadY", "return", "wrap"}
      BY <1>3 DEF Draw, Then, At
    <2>2. \A at \in {"loadX", "loadTab", "loadY", "return", "wrap"}, read \in {0, 1} :
             InBounds(cursor.x, cursor.y, at, read)
      BY <1>2, <2>1 DEF InBounds
    <2> QED
      BY <1>1, <2>1, <2>2 DEF Bounded
  <1>4. CASE Load("loadTab", 4 - (cursor.x % 4), "loadX")
    <2>1. /\ cursor' = cursor /\ printing.at = "loadTab"
          /\ printing'.at = "loadX" /\ printing'.read = 4 - (cursor.x % 4)
      BY <1>4 DEF Load, Then, At
    <2>2. 4 - (cursor.x % 4) \in Nat /\ 4 - (cursor.x % 4) <= 4
      BY <1>1
    <2>3. \A read \in Nat : read <= 4 => InBounds(cursor.x, cursor.y, "loadX", read)
      BY <1>1, <1>2, <2>1 DEF InBounds
    <2> QED
      BY <1>1, <2>1, <2>2, <2>3 DEF Bounded
  <1>5. CASE Load("loadX", cursor.x + printing.read, "storeX")
    <2>1. /\ cursor' = cursor /\ printing.at = "loadX"
          /\ printing'.at = "storeX" /\ printing'.read = cursor.x + printing.read
      BY <1>5 DEF Load, Then, At
    <2>2. InBounds(cursor.x, cursor.y, "storeX", cursor.x + printing.read)
      BY <1>1, <1>2, <2>1, Sizes DEF InBounds
    <2> QED
      BY <1>1, <2>1, <2>2 DEF Bounded
  <1>6. CASE Store("storeX", [cursor EXCEPT !.x = printing.read], "wrap")
    <2>1. /\ cursor' = [x |-> printing.read, y |-> cursor.y] /\ printing.at = "storeX"
          /\ printing'.at = "wrap" /\ printing'.read = 0
      BY <1>1, <1>6 DEF Store, Then, At
    <2>2. InBounds(printing.read, cursor.y, "wrap", 0)
      BY <1>1, <1>2, <2>1, Sizes DEF InBounds
    <2> QED
      BY <1>1, <2>1, <2>2, Sizes DEF Bounded
  <1>7. CASE Load("loadY", cursor.y, "storeY")
    <2>1. /\ cursor' = cursor /\ printing.at = "loadY"
          /\ printing'.at = "storeY" /\ printing'.read = cursor.y
      BY <1>7 DEF Load, Then, At
    <2>2. InBounds(cursor.x, cursor.y, "storeY", cursor.y)
      BY <1>1, <1>2, <2>1 DEF InBounds
    <2> QED
      BY <1>1, <2>1, <2>2 DEF Bounded
  <1>8. CASE Store("storeY", [cursor EXCEPT !.y = printing.read + 1], "return")
    <2>1. /\ cursor' = [x |-> cursor.x, y |-> printing.read + 1] /\ printing.at = "storeY"
          /\ printing'.at = "return" /\ printing'.read = 0
      BY <1>1, <1>8 DEF Store, Then, At
    <2>2. InBounds(cursor.x, printing.read + 1, "return", 0)
      BY <1>1, <1>2, <2>1, Sizes DEF InBounds
    <2> QED
      BY <1>1, <2>1, <2>2, Sizes DEF Bounded
  <1>9. CASE Store("return", [cursor EXCEPT !.x = 0], "wrap")
    <2>1. /\ cursor' = [x |-> 0, y |-> cursor.y] /\ printing.at = "return"
          /\ printing'.at = "wrap" /\ printing'.read = 0
      BY <1>1, <1>9 DEF Store, Then, At
    <2>2. InBounds(0, cursor.y, "wrap", 0)
      BY <1>1, <1>2, <2>1, Sizes DEF InBounds
    <2> QED
      BY <1>1, <2>1, <2>2, Sizes DEF Bounded
  <1>10. CASE Test("wrap", cursor.x >= SCREEN_WIDTH, "storeWrap", "scroll")
    <2>1. /\ cursor' = cursor /\ printing.at = "wrap" /\ printing'.read = 0
          /\ printing'.at = IF cursor.x >= SCREEN_WIDTH THEN "storeWrap" ELSE "scroll"
      BY <1>10 DEF Test, Then, At
    <2>2. InBounds(cursor.x, cursor.y, IF cursor.x >= SCREEN_WIDTH THEN "storeWrap" ELSE "scroll", 0)
      BY <1>1, <1>2, <2>1, Sizes DEF InBounds
    <2> QED
      BY <1>1, <2>1, <2>2 DEF Bounded
  <1>11. CASE Store("storeWrap", [cursor EXCEPT !.x = 0], "loadCarry")
    <2>1. /\ cursor' = [x |-> 0, y |-> cursor.y] /\ printing.at = "storeWrap"
          /\ printing'.at = "loadCarry" /\ printing'.read = 0
      BY <1>1, <1>11 DEF Store, Then, At
    <2>2. InBounds(0, cursor.y, "loadCarry", 0)
      BY <1>1, <1>2, <2>1, Sizes DEF InBounds
    <2> QED
      BY <1>1, <2>1, <2>2, Sizes DEF Bounded
  <1>12. CASE Load("loadCarry", cursor.y, "storeCarry")
    <2>1. /\ cursor' = cursor /\ printing.at = "loadCarry"
          /\ printing'.at = "storeCarry" /\ printing'.read = cursor.y
      BY <1>12 DEF Load, Then, At
    <2>2. InBounds(cursor.x, cursor.y, "storeCarry", cursor.y)
      BY <1>1, <1>2, <2>1 DEF InBounds
    <2> QED
      BY <1>1, <2>1, <2>2 DEF Bounded
  <1>13. CASE Store("storeCarry", [cursor EXCEPT !.y = printing.read + 1], "scroll")
    <2>1. /\ cursor' = [x |-> cursor.x, y |-> printing.read + 1] /\ printing.at = "storeCarry"
          /\ printing'.at = "scroll" /\ printing'.read = 0
      BY <1>1, <1>13 DEF Store, Then, At
    <2>2. InBounds(cursor.x, printing.read + 1, "scroll", 0)
      BY <1>1, <1>2, <2>1, Sizes DEF InBounds
    <2> QED
      BY <1>1, <2>1, <2>2, Sizes DEF Bounded
  <1>14. CASE Test("scroll", cursor.y >= SCREEN_HEIGHT, "storeScroll", "locationY")
    <2>1. /\ cursor' = cursor /\ printing.at = "scroll" /\ printing'.read = 0
          /\ printing'.at = IF cursor.y >= SCREEN_HEIGHT THEN "storeScroll" ELSE "locationY"
      BY <1>14 DEF Test, Then, At
    <2>2. InBounds(cursor.x, cursor.y, IF cursor.y >= SCREEN_HEIGHT THEN "storeScroll" ELSE "locationY", 0)
      BY <1>1, <1>2, <2>1, Sizes DEF InBounds
    <2> QED
      BY <1>1, <2>1, <2>2 DEF Bounded
  <1>15. CASE Store("storeScroll", [cursor EXCEPT !.y = SCREEN_HEIGHT - 1], "locationY")
    <2>1. /\ cursor' = [x |-> cursor.x, y |-> SCREEN_HEIGHT - 1] /\ printing.at = "storeScroll"
          /\ printing'.at = "locationY" /\ printing'.read = 0
      BY <1>1, <1>15 DEF Store, Then, At
    <2>2. InBounds(cursor.x, SCREEN_HEIGHT - 1, "locationY", 0)
      BY <1>1, <1>2, <2>1, Sizes DEF InBounds
    <2> QED
      BY <1>1, <2>1, <2>2, Sizes DEF Bounded
  <1>16. CASE StartMove
    <2>1. /\ cursor' = cursor /\ printing.at = "locationY"
          /\ printing'.at = "locationX" /\ printing'.read = cursor.y
      BY <1>16 DEF StartMove, Then, At
    <2>2. InBounds(cursor.x, cursor.y, "locationX", cursor.y)
      BY <1>1, <1>2, <2>1 DEF InBounds
    <2> QED
      BY <1>1, <2>1, <2>2 DEF Bounded
  <1>17. CASE Load("locationX", printing.read * SCREEN_WIDTH + cursor.x, "index14")
    <2>1. /\ cursor' = cursor /\ printing.at = "locationX"
          /\ printing'.at = "index14" /\ printing'.read = printing.read * SCREEN_WIDTH + cursor.x
      BY <1>17 DEF Load, Then, At
    <2>2. printing.read * SCREEN_WIDTH + cursor.x \in Nat
      BY <1>1, Sizes
    <2>3. \A read \in Nat : InBounds(cursor.x, cursor.y, "index14", read)
      BY <1>1, <1>2, <2>1 DEF InBounds
    <2> QED
      BY <1>1, <2>1, <2>2, <2>3 DEF Bounded
  <1>18. CASE Out("index14", [crtc EXCEPT !.index = 14], "data14")
    <2>1. /\ cursor' = cursor /\ printing.at = "index14"
          /\ printing'.at = "data14" /\ printing'.read = printing.read
      BY <1>18 DEF Out, Then, At
    <2>2. InBounds(cursor.x, cursor.y, "data14", printing.read)
      BY <1>2, <2>1 DEF InBounds
    <2> QED
      BY <1>1, <2>1, <2>2 DEF Bounded
  <1>19. CASE Out("data14", Data(printing.read), "index15")
    <2>1. /\ cursor' = cursor /\ printing.at = "data14"
          /\ printing'.at = "index15" /\ printing'.read = printing.read
      BY <1>19 DEF Out, Then, At
    <2>2. InBounds(cursor.x, cursor.y, "index15", printing.read)
      BY <1>2, <2>1 DEF InBounds
    <2> QED
      BY <1>1, <2>1, <2>2 DEF Bounded
  <1>20. CASE Out("index15", [crtc EXCEPT !.index = 15], "data15")
    <2>1. /\ cursor' = cursor /\ printing.at = "index15"
          /\ printing'.at = "data15" /\ printing'.read = printing.read
      BY <1>20 DEF Out, Then, At
    <2>2. InBounds(cursor.x, cursor.y, "data15", printing.read)
      BY <1>2, <2>1 DEF InBounds
    <2> QED
      BY <1>1, <2>1, <2>2 DEF Bounded
  <1>21. CASE EndOfChar
    <2>1. /\ cursor' = cursor /\ printing.at = "data15"
          /\ printing'.at = "draw" /\ printing'.read = 0
      BY <1>21 DEF EndOfChar, At
    <2>2. InBounds(cursor.x, cursor.y, "draw", 0)
      BY <1>2, <2>1 DEF InBounds
    <2> QED
      BY <1>1, <2>1, <2>2 DEF Bounded
  <1> QED
    BY <1>3, <1>4, <1>5, <1>6, <1>7, <1>8, <1>9, <1>10, <1>11, <1>12,
       <1>13, <1>14, <1>15, <1>16, <1>17, <1>18, <1>19, <1>20, <1>21
    DEF KernelPrints

\* kernel_main's accesses to the display controller.
LEMMA ControllerAccess ==
    ASSUME SInv, KernelPrints
    PROVE  Fields' /\ Told' /\ CursorIsShown'
  <1>1. CASE \/ Draw
             \/ Load("loadTab", 4 - (cursor.x % 4), "loadX")
             \/ Load("loadX", cursor.x + printing.read, "storeX")
             \/ Load("loadY", cursor.y, "storeY")
             \/ Load("loadCarry", cursor.y, "storeCarry")
             \/ Store("storeX", [cursor EXCEPT !.x = printing.read], "wrap")
             \/ Store("storeY", [cursor EXCEPT !.y = printing.read + 1], "return")
             \/ Store("return", [cursor EXCEPT !.x = 0], "wrap")
             \/ Test("wrap", cursor.x >= SCREEN_WIDTH, "storeWrap", "scroll")
             \/ Store("storeWrap", [cursor EXCEPT !.x = 0], "loadCarry")
             \/ Store("storeCarry", [cursor EXCEPT !.y = printing.read + 1], "scroll")
             \/ Test("scroll", cursor.y >= SCREEN_HEIGHT, "storeScroll", "locationY")
             \/ Store("storeScroll", [cursor EXCEPT !.y = SCREEN_HEIGHT - 1], "locationY")
    <2>1. /\ crtc' = crtc /\ printing'.at \notin MoveWindow \cup {"draw"}
      BY <1>1 DEF Draw, Test, Load, Store, Then, MoveWindow
    <2>2. Fields'
      BY <2>1 DEF SInv, Fields
    <2>3. Told'
      BY <2>1 DEF SInv, Told, MoveWindow
    <2>4. CursorIsShown'
      BY <2>1 DEF CursorIsShown
    <2> QED
      BY <2>2, <2>3, <2>4
  <1>2. CASE StartMove
    <2>1. /\ crtc' = crtc /\ cursor' = cursor
          /\ printing' = [text |-> printing.text, at |-> "locationX", read |-> cursor.y]
      BY <1>2 DEF StartMove, Then
    <2>2. Fields'
      BY <2>1 DEF SInv, Fields
    <2>3. Told'
      BY <2>1 DEF SInv, Told, MoveWindow
    <2>4. CursorIsShown'
      BY <2>1 DEF CursorIsShown
    <2> QED
      BY <2>2, <2>3, <2>4
  <1>7. CASE Load("locationX", printing.read * SCREEN_WIDTH + cursor.x, "index14")
    <2>1. /\ crtc' = crtc /\ cursor' = cursor /\ torn' = torn /\ printing.at = "locationX"
          /\ printing' = [text |-> printing.text, at |-> "index14",
                          read |-> printing.read * SCREEN_WIDTH + cursor.x]
      BY <1>7 DEF Load, Then, At
    <2>2. ~torn => printing.read = cursor.y
      BY <2>1 DEF SInv, Told
    <2>3. Fields'
      BY <2>1 DEF SInv, Fields
    <2>4. Told'
      BY <2>1, <2>2 DEF Told, MoveWindow, Location
    <2>5. CursorIsShown'
      BY <2>1 DEF CursorIsShown
    <2> QED
      BY <2>3, <2>4, <2>5
  <1>3. CASE Out("index14", [crtc EXCEPT !.index = 14], "data14")
    <2>1. /\ crtc' = [index |-> 14, high |-> crtc.high, low |-> crtc.low]
          /\ cursor' = cursor /\ torn' = torn /\ printing.at = "index14"
          /\ printing' = [text |-> printing.text, at |-> "data14", read |-> printing.read]
      BY <1>3 DEF Out, Then, At, SInv, Fields
    <2>2. Fields'
      BY <2>1 DEF SInv, Fields
    <2>3. Told'
      BY <2>1 DEF SInv, Told, MoveWindow
    <2>4. CursorIsShown'
      BY <2>1 DEF CursorIsShown
    <2> QED
      BY <2>2, <2>3, <2>4
  <1>4. CASE Out("data14", Data(printing.read), "index15")
    <2>1. /\ \/ crtc' = [index |-> crtc.index, high |-> printing.read, low |-> crtc.low]
             \/ /\ crtc.index # 14
                /\ crtc' = [index |-> crtc.index, high |-> crtc.high, low |-> printing.read]
          /\ cursor' = cursor /\ torn' = torn /\ printing.at = "data14"
          /\ printing' = [text |-> printing.text, at |-> "index15", read |-> printing.read]
      BY <1>4 DEF Out, Then, At, SInv, Fields, Data
    <2>2. Fields'
      BY <2>1 DEF SInv, Fields
    <2>3. Told'
      BY <2>1 DEF SInv, Told, MoveWindow
    <2>4. CursorIsShown'
      BY <2>1 DEF CursorIsShown
    <2> QED
      BY <2>2, <2>3, <2>4
  <1>5. CASE Out("index15", [crtc EXCEPT !.index = 15], "data15")
    <2>1. /\ crtc' = [index |-> 15, high |-> crtc.high, low |-> crtc.low]
          /\ cursor' = cursor /\ torn' = torn /\ printing.at = "index15"
          /\ printing' = [text |-> printing.text, at |-> "data15", read |-> printing.read]
      BY <1>5 DEF Out, Then, At, SInv, Fields
    <2>2. Fields'
      BY <2>1 DEF SInv, Fields
    <2>3. Told'
      BY <2>1 DEF SInv, Told, MoveWindow
    <2>4. CursorIsShown'
      BY <2>1 DEF CursorIsShown
    <2> QED
      BY <2>2, <2>3, <2>4
  <1>6. CASE EndOfChar
    <2>1. /\ \/ /\ crtc.index = 14
                /\ crtc' = [index |-> crtc.index, high |-> printing.read, low |-> crtc.low]
             \/ /\ crtc.index # 14
                /\ crtc' = [index |-> crtc.index, high |-> crtc.high, low |-> printing.read]
          /\ cursor' = cursor /\ torn' = torn /\ printing.at = "data15"
          /\ printing' = [text |-> Tail(printing.text), at |-> "draw", read |-> 0]
      BY <1>6 DEF EndOfChar, At, SInv, Fields, Data
    <2>2. ~torn => crtc.index = 15 /\ crtc.high = printing.read /\ printing.read = Location(cursor)
      BY <2>1 DEF SInv, Told, MoveWindow
    <2>3. Fields'
      BY <2>1 DEF Fields
    <2> QED
      BY <2>1, <2>2, <2>3 DEF Told, CursorIsShown, MoveWindow, Location
  <1> QED
    BY <1>1, <1>2, <1>3, <1>4, <1>5, <1>6, <1>7 DEF KernelPrints

LEMMA ScreenInvariant == ScreenSpec => []SInv
  <1>1. SInv /\ [ScreenNext]_screenVars => SInv'
    <2>1. SInv /\ KernelPrints => SInv'
      BY CursorAccess, ControllerAccess DEF SInv
    <2>2. SInv /\ UNCHANGED screenVars => SInv'
      <3> SUFFICES ASSUME SInv, UNCHANGED screenVars PROVE SInv'
        OBVIOUS
      <3>1. cursor' = cursor /\ crtc' = crtc /\ printing' = printing /\ torn' = torn
        BY DEF screenVars
      <3>2. Fields'
        BY <3>1 DEF SInv, Fields
      <3>3. Bounded'
        BY <3>1 DEF SInv, Bounded, InBounds
      <3>4. Told'
        BY <3>1 DEF SInv, Told, Location
      <3>5. CursorIsShown'
        BY <3>1 DEF SInv, CursorIsShown, Location
      <3> QED
        BY <3>2, <3>3, <3>4, <3>5 DEF SInv
    <2> QED
      BY <2>1, <2>2, ProgramInvariant DEF ScreenNext
  <1> QED
    BY <1>1, ScreenInitInvariant, PTL DEF ScreenSpec

\* A program that prints between a load and a store of kernel_main, and the
\* store that undoes what it did, leave the cursor on the screen, and never
\* more than a line below it in between (screenPutChar).
THEOREM CursorStaysInScreen == ScreenSpec => []CursorInScreen
  <1>1. SInv => CursorInScreen
    BY DEF SInv, Bounded, InBounds, CursorInScreen
  <1> QED
    BY <1>1, ScreenInvariant, PTL

\* When kernel_main has printed a character, the display controller shows the
\* cursor where it is, unless a program printed after kernel_main had read the
\* first half of the location (moveCursor).
THEOREM CursorIsShownRight == ScreenSpec => []CursorIsShown
  <1>1. SInv => CursorIsShown
    BY DEF SInv
  <1> QED
    BY <1>1, ScreenInvariant, PTL

-----------------------------------------------------------------------------
(* The steps of the start. *)

\* The vectors that kernel_main registers handlers for do occur.
VectorsOccur == {IRQ0, IRQ1} \subseteq Irq /\ {GeneralProtection, PageFault} \subseteq Exception

\* An operation of kernel_main: only vectors get handlers.
OtherName == {"disable", "enable", "unless", "tables", "paging", "heap", "load", "start",
              "farcall", "kmalloc", "ports", "bios32", "rsdp", "rsdt", "sdt", "buffers", "commands", "module",
              "modules", "message"}
Operation == [op : {"register"}, arg : Vector] \cup [op : OtherName, arg : Int]

LEMMA Registrations ==
    ASSUME VectorsOccur, NEW n \in {IRQ0, IRQ1, GeneralProtection, PageFault, SystemCall}
    PROVE  Op("register", n) \in Operation
  <1>1. n \in Vector
    BY DEF VectorsOccur, Vector
  <1> QED
    BY <1>1 DEF Op, Operation

LEMMA OtherOperations ==
    /\ \A n \in Int : Op("unless", n) \in Operation /\ Op("start", n) \in Operation
    /\ Op("load", 0) \in Operation /\ Op("load", 1) \in Operation
    /\ Op("disable", 0) \in Operation /\ Op("enable", 0) \in Operation
    /\ Op("tables", 0) \in Operation /\ Op("paging", 0) \in Operation
    /\ Op("heap", 0) \in Operation /\ Op("farcall", 0) \in Operation
    /\ Op("kmalloc", 0) \in Operation /\ Op("ports", 0) \in Operation
    /\ Op("bios32", 0) \in Operation /\ Op("rsdp", 0) \in Operation
    /\ Op("rsdt", 0) \in Operation /\ Op("sdt", 0) \in Operation
    /\ Op("buffers", 0) \in Operation /\ Op("commands", 0) \in Operation
    /\ Op("module", 0) \in Operation /\ Op("modules", 0) \in Operation
    /\ Op("message", 0) \in Operation
  BY DEF Op, Operation, OtherName

LEMMA SequencesOf ==
    /\ \A o \in Operation : <<o>> \in Seq(Operation)
    /\ \A o, p \in Operation : <<o, p>> \in Seq(Operation)
    /\ \A o, p, q \in Operation : <<o, p, q>> \in Seq(Operation)
    /\ \A s, t \in Seq(Operation) : s \o t \in Seq(Operation)
  OBVIOUS

LEMMA SectionOf == \A ops \in Seq(Operation) : Section_(ops) \in Seq(Operation)
  BY OtherOperations, SequencesOf, Zenon DEF Section_

LEMMA IfOf == \A call, ops \in Seq(Operation) : If(call, ops) \in Seq(Operation)
  <1> SUFFICES ASSUME NEW call \in Seq(Operation), NEW ops \in Seq(Operation)
               PROVE  If(call, ops) \in Seq(Operation)
    OBVIOUS
  <1>1. Len(ops) \in Int
    OBVIOUS
  <1>2. <<Op("unless", Len(ops))>> \in Seq(Operation)
    BY <1>1, OtherOperations, SequencesOf, Zenon
  <1> QED
    BY <1>2, SequencesOf, Zenon DEF If

\* main and kernel_main are made of such operations.
LEMMA KernelMainOperations == ASSUME VectorsOccur PROVE kernel_main \in Seq(Operation)
  <1>1. initDescriptorTables \in Seq(Operation)
    BY OtherOperations, SequencesOf, Zenon DEF initDescriptorTables
  <1>2. /\ Op("register", IRQ0) \in Operation /\ Op("register", IRQ1) \in Operation
        /\ Op("register", PageFault) \in Operation /\ Op("register", SystemCall) \in Operation
        /\ Op("register", GeneralProtection) \in Operation
    BY Registrations, Zenon
  <1>3. initSysTimer \in Seq(Operation) /\ initSysCalls \in Seq(Operation)
    BY <1>2, SequencesOf, Zenon DEF initSysTimer, initSysCalls
  <1>4. initPaging \in Seq(Operation)
    BY <1>2, OtherOperations, SequencesOf, Zenon DEF initPaging
  <1>5. runTask(0) \in Seq(Operation) /\ runTask(1) \in Seq(Operation)
    <2>1. 0 \in Int /\ 1 \in Int
      OBVIOUS
    <2>2. <<Op("start", 0)>> \in Seq(Operation) /\ <<Op("start", 1)>> \in Seq(Operation)
      BY <2>1, OtherOperations, SequencesOf, Zenon
    <2> QED
      BY <2>2, SectionOf, Zenon DEF runTask
  <1>6. initTasking \in Seq(Operation)
    BY <1>5, SectionOf, Zenon DEF initTasking
  <1>7. FarCall \in Seq(Operation) /\ PCIDevices \in Seq(Operation)
    BY OtherOperations, SequencesOf, SectionOf, Zenon DEF FarCall, PCIDevices
  <1>8. PCI \in Seq(Operation) /\ ACPI \in Seq(Operation)
    BY <1>7, OtherOperations, SequencesOf, IfOf, Zenon DEF PCI, ACPI
  <1>9. initKeyboard \in Seq(Operation)
    BY <1>2, OtherOperations, SequencesOf, Zenon DEF initKeyboard
  <1>10. makeTaskFromELF \in Seq(Operation)
    BY OtherOperations, SequencesOf, SectionOf, Zenon DEF makeTaskFromELF
  <1>11. Shell \in Seq(Operation)
    BY <1>5, <1>10, OtherOperations, SequencesOf, IfOf, Zenon DEF Shell
  <1>12. main \in Seq(Operation)
    BY <1>1, <1>2, OtherOperations, SequencesOf, Zenon DEF main
  <1>13. <<Op("message", 0)>> \in Seq(Operation)
    BY OtherOperations, SequencesOf, Zenon
  <1> QED
    BY <1>3, <1>4, <1>6, <1>8, <1>9, <1>11, <1>12, <1>13, SequencesOf, Zenon DEF kernel_main

LEMMA RegistersVectors ==
    ASSUME VectorsOccur, Does("register")
    PROVE  Arg \in Vector
  <1>1. kernel_main[pc] \in Operation
    BY KernelMainOperations DEF Does, AtOp
  <1> QED
    BY <1>1 DEF Does, AtOp, Arg, Operation, OtherName
-----------------------------------------------------------------------------
\* The operations of kernel_main, one by one.
LEMMA ThePlaces ==
  /\ DOMAIN kernel_main = 1 .. 45
  /\ kernel_main[1] = Op("tables", 0) /\ kernel_main[2] = Op("enable", 0)
  /\ kernel_main[3] = Op("register", GeneralProtection)
  /\ kernel_main[4] = Op("modules", 0) /\ kernel_main[5] = Op("register", IRQ0)
  /\ kernel_main[6] = Op("paging", 0) /\ kernel_main[7] = Op("register", PageFault)
  /\ kernel_main[8] = Op("heap", 0) /\ kernel_main[9] = Op("register", SystemCall)
  /\ kernel_main[10] = Op("disable", 0) /\ kernel_main[11] = Op("disable", 0)
  /\ kernel_main[12] = Op("start", 0) /\ kernel_main[13] = Op("enable", 0)
  /\ kernel_main[14] = Op("enable", 0) /\ kernel_main[15] = Op("bios32", 0)
  /\ kernel_main[16] = Op("unless", 10) /\ kernel_main[17] = Op("disable", 0)
  /\ kernel_main[18] = Op("farcall", 0) /\ kernel_main[19] = Op("enable", 0)
  /\ kernel_main[20] = Op("unless", 6) /\ kernel_main[21] = Op("disable", 0)
  /\ kernel_main[22] = Op("farcall", 0) /\ kernel_main[23] = Op("enable", 0)
  /\ kernel_main[24] = Op("unless", 2) /\ kernel_main[25] = Op("kmalloc", 0)
  /\ kernel_main[26] = Op("ports", 0) /\ kernel_main[27] = Op("rsdp", 0)
  /\ kernel_main[28] = Op("unless", 3) /\ kernel_main[29] = Op("rsdt", 0)
  /\ kernel_main[30] = Op("unless", 1) /\ kernel_main[31] = Op("sdt", 0)
  /\ kernel_main[32] = Op("buffers", 0) /\ kernel_main[33] = Op("register", IRQ1)
  /\ kernel_main[34] = Op("commands", 0) /\ kernel_main[35] = Op("module", 0)
  /\ kernel_main[36] = Op("unless", 8) /\ kernel_main[37] = Op("disable", 0)
  /\ kernel_main[38] = Op("kmalloc", 0) /\ kernel_main[39] = Op("load", 1)
  /\ kernel_main[40] = Op("load", 0) /\ kernel_main[41] = Op("enable", 0)
  /\ kernel_main[42] = Op("disable", 0) /\ kernel_main[43] = Op("start", 1)
  /\ kernel_main[44] = Op("enable", 0) /\ kernel_main[45] = Op("message", 0)
  BY DEF kernel_main, main, initDescriptorTables, initSysTimer, initPaging, initSysCalls, initTasking,
         runTask, Section_, If, PCI, FarCall, PCIDevices, ACPI, initKeyboard, Shell, makeTaskFromELF

\* Where kernel_main is when it does this operation.
LEMMA PlaceOf ==
    ASSUME pc \in Nat
    PROVE  /\ pc \in DOMAIN kernel_main <=> pc \in 1 .. 45
           /\ AtOp("tables") => pc = 1
           /\ AtOp("register") =>
                 \/ pc = 3 /\ Arg = GeneralProtection
                 \/ pc = 5 /\ Arg = IRQ0
                 \/ pc = 7 /\ Arg = PageFault
                 \/ pc = 9 /\ Arg = SystemCall
                 \/ pc = 33 /\ Arg = IRQ1
           /\ AtOp("modules") => pc = 4
           /\ AtOp("paging") => pc = 6
           /\ AtOp("heap") => pc = 8
           /\ AtOp("start") => (pc = 12 /\ Arg = 0) \/ (pc = 43 /\ Arg = 1)
           /\ AtOp("load") => (pc = 39 /\ Arg = 1) \/ (pc = 40 /\ Arg = 0)
           /\ AtOp("kmalloc") => pc = 25 \/ pc = 38
           /\ AtOp("ports") => pc = 26
           /\ AtOp("buffers") => pc = 32
           /\ AtOp("commands") => pc = 34
           /\ AtOp("unless") =>
                 \/ pc = 16 /\ Arg = 10
                 \/ pc = 20 /\ Arg = 6
                 \/ pc = 24 /\ Arg = 2
                 \/ pc = 28 /\ Arg = 3
                 \/ pc = 30 /\ Arg = 1
                 \/ pc = 36 /\ Arg = 8
           /\ AtOp("rsdp") => pc = 27
           /\ AtOp("rsdt") => pc = 29
           /\ AtOp("sdt") => pc = 31
           /\ AtOp("bios32") => pc = 15
           /\ AtOp("module") => pc = 35
  <1>1. pc \in DOMAIN kernel_main <=> pc \in 1 .. 45
    BY ThePlaces DEF AtOp, Op, Arg
  <1>2. AtOp("tables") => pc = 1
    BY ThePlaces DEF AtOp, Op, Arg
  <1>3. AtOp("register") =>
        \/ pc = 3 /\ Arg = GeneralProtection
        \/ pc = 5 /\ Arg = IRQ0
        \/ pc = 7 /\ Arg = PageFault
        \/ pc = 9 /\ Arg = SystemCall
        \/ pc = 33 /\ Arg = IRQ1
    <2>1. AtOp("register") => pc \in {3, 5, 7, 9, 33}
      BY ThePlaces DEF AtOp, Op
    <2>2. /\ kernel_main[3].arg = GeneralProtection
          /\ kernel_main[5].arg = IRQ0
          /\ kernel_main[7].arg = PageFault
          /\ kernel_main[9].arg = SystemCall
          /\ kernel_main[33].arg = IRQ1
      BY ThePlaces DEF Op
    <2> QED
      BY <2>1, <2>2 DEF Arg
  <1>4. AtOp("paging") => pc = 6
    BY ThePlaces DEF AtOp, Op, Arg
  <1>5. AtOp("heap") => pc = 8
    BY ThePlaces DEF AtOp, Op, Arg
  <1>6. AtOp("start") => (pc = 12 /\ Arg = 0) \/ (pc = 43 /\ Arg = 1)
    <2>1. AtOp("start") => pc \in {12, 43}
      BY ThePlaces DEF AtOp, Op
    <2>2. /\ kernel_main[12].arg = 0
          /\ kernel_main[43].arg = 1
      BY ThePlaces DEF Op
    <2> QED
      BY <2>1, <2>2 DEF Arg
  <1>7. AtOp("kmalloc") => pc = 25 \/ pc = 38
    BY ThePlaces DEF AtOp, Op, Arg
  <1>8. AtOp("ports") => pc = 26
    BY ThePlaces DEF AtOp, Op, Arg
  <1>9. AtOp("buffers") => pc = 32
    BY ThePlaces DEF AtOp, Op, Arg
  <1>10. AtOp("commands") => pc = 34
    BY ThePlaces DEF AtOp, Op, Arg
  <1>11. AtOp("unless") =>
        \/ pc = 16 /\ Arg = 10
        \/ pc = 20 /\ Arg = 6
        \/ pc = 24 /\ Arg = 2
        \/ pc = 28 /\ Arg = 3
        \/ pc = 30 /\ Arg = 1
        \/ pc = 36 /\ Arg = 8
    <2>1. AtOp("unless") => pc \in {16, 20, 24, 28, 30, 36}
      BY ThePlaces DEF AtOp, Op
    <2>2. /\ kernel_main[16].arg = 10
          /\ kernel_main[20].arg = 6
          /\ kernel_main[24].arg = 2
          /\ kernel_main[28].arg = 3
          /\ kernel_main[30].arg = 1
          /\ kernel_main[36].arg = 8
      BY ThePlaces DEF Op
    <2> QED
      BY <2>1, <2>2 DEF Arg
  <1>12. AtOp("sdt") => pc = 31
    BY ThePlaces DEF AtOp, Op, Arg
  <1>13. AtOp("modules") => pc = 4
    BY ThePlaces DEF AtOp, Op
  <1>14. /\ AtOp("rsdp") => pc = 27
         /\ AtOp("rsdt") => pc = 29
         /\ AtOp("bios32") => pc = 15
         /\ AtOp("module") => pc = 35
    BY ThePlaces DEF AtOp, Op
  <1>15. AtOp("load") => (pc = 39 /\ Arg = 1) \/ (pc = 40 /\ Arg = 0)
    <2>1. AtOp("load") => pc \in {39, 40}
      BY ThePlaces DEF AtOp, Op
    <2>2. /\ kernel_main[39].arg = 1
          /\ kernel_main[40].arg = 0
      BY ThePlaces DEF Op
    <2> QED
      BY <2>1, <2>2 DEF Arg
  <1> QED
    BY <1>15, <1>14, <1>13, <1>1, <1>2, <1>3, <1>4, <1>5, <1>6, <1>7, <1>8, <1>9, <1>10, <1>11, <1>12
-----------------------------------------------------------------------------
\* The directory that kernel_main has when its code runs again.
MainDirectory == IF stack = <<>> THEN cr3 ELSE stack[1].regs.cr3

\* Only between the two loads of makeTaskFromELF is it not the kernel's.
LoadInv ==
    /\ newTask \in Task
    /\ pc # 40 /\ currentTask = kernelTask => MainDirectory = kernelTask

LEMMA NotLoading == \A name : AtOp(name) /\ name # "load" => pc # 40
  BY ThePlaces DEF AtOp, Op

\* Every step of main and kernel_main is one of Interrupts, or none.
LEMMA KernelMainStep ==
    ASSUME VectorsOccur, LoadInv, KernelMain
    PROVE  [InterruptNext]_interruptVars
  <1>1. CASE MainDisable
    BY <1>1 DEF MainDisable, InterruptNext
  <1>2. CASE MainEnable
    <2>1. AtOp("enable") /\ stack = <<>> /\ currentTask = kernelTask /\ Enable
      BY <1>2 DEF MainEnable, Does, RunsMain, RunsKernel
    <2>2. pc # 40
      BY <2>1, NotLoading, Zenon
    <2>3. DirectoryIsBack
      BY <2>1, <2>2 DEF LoadInv, MainDirectory, DirectoryIsBack
    <2> QED
      BY <2>1, <2>3 DEF InterruptNext
  <1>3. CASE MainRegister
    BY <1>3, RegistersVectors DEF MainRegister, InterruptNext
  <1>4. CASE MainLoad
    <2>1. \E t \in Task : switchPageDir(t)
      BY <1>4, InterruptConstants DEF MainLoad
    <2> QED
      BY <2>1 DEF InterruptNext
  <1>5. CASE MainStart
    <2>1. \E t \in Task : Start(t)
      BY <1>5, InterruptConstants DEF MainStart, LoadInv
    <2> QED
      BY <2>1 DEF InterruptNext
  <1>6. CASE Unless \/ Tables \/ Modules \/ Paging \/ CreateHeap \/ PrintMessage
    BY <1>6 DEF Unless, Tables, Modules, Paging, CreateHeap, PrintMessage
  <1>7. CASE FindBIOS32 \/ CallFirmware \/ FindRSDP \/ FindRSDT \/ FindTables
    BY <1>7 DEF FindBIOS32, CallFirmware, FindRSDP, FindRSDT, FindTables, Gives
  <1>8. CASE MakeBuffers \/ FindModule
    BY <1>8 DEF MakeBuffers, FindModule, Gives
  <1>9. CASE \E name \in {"kmalloc", "ports", "commands"} : UsesShared(name)
    BY <1>9 DEF UsesShared, Gives
  <1> QED
    BY <1>1, <1>2, <1>3, <1>4, <1>5, <1>6, <1>7, <1>8, <1>9 DEF KernelMain

\* So is every step of handlers and programs.
LEMMA OthersStep == Others \/ Prints_ \/ Stops => [InterruptNext]_interruptVars
  <1>1. Raise => InterruptNext
    BY DEF Raise, InterruptNext
  <1>2. Tasks => InterruptNext
    BY DEF Tasks, InterruptNext
  <1>3. HandlerSection \/ Return => InterruptNext
    BY DEF HandlerSection, DirectoryIsBack, InterruptNext
  <1>4. Prints_ => UNCHANGED interruptVars
    BY DEF Prints_
  <1>5. Stops => InterruptNext
    BY DEF Stops, InterruptNext
  <1> QED
    BY <1>1, <1>2, <1>3, <1>4, <1>5 DEF Others

\* A step of kernel_main that loads no directory, or the kernel's.
LEMMA MainKeepsDirectory == ASSUME LoadInv, KernelMain PROVE LoadInv'
  <1>1. ASSUME pc # 40, UNCHANGED <<newTask, stack, cr3, currentTask>>
        PROVE  LoadInv'
    BY <1>1 DEF LoadInv, MainDirectory
  <1>2. \A name : Does(name) /\ name # "load" => pc # 40
    BY NotLoading DEF Does
  <1>3. CASE MainDisable \/ MainEnable \/ MainRegister \/ MainStart
    <2>1. pc # 40
      BY <1>2, <1>3 DEF MainDisable, MainEnable, MainRegister, MainStart
    <2>2. UNCHANGED <<newTask, stack, cr3, currentTask>>
      BY <1>3 DEF MainDisable, MainEnable, MainRegister, MainStart, Disable, Enable, Start,
                  registerInterruptHandler, taskVars, Goes
    <2> QED
      BY <1>1, <2>1, <2>2
  <1>4. CASE MainLoad
    <2>1. AtOp("load") /\ stack = <<>> /\ pc' = pc + 1
      BY <1>4 DEF MainLoad, Does, RunsMain
    <2>2. (pc = 39 /\ Arg = 1) \/ (pc = 40 /\ Arg = 0)
      <3>1. AtOp("load")
        BY <2>1
      <3>2. pc \in Nat
        BY <3>1, ThePlaces DEF AtOp
      <3> QED
        BY <3>1, <3>2, PlaceOf, Zenon
    <2>3. CASE pc = 39 /\ Arg = 1
      <3>1. newTask' \in Task /\ pc' = 40
        BY <1>4, <2>1, <2>3 DEF MainLoad
      <3> QED
        BY <3>1 DEF LoadInv
    <2>4. CASE pc = 40 /\ Arg = 0
      <3>1. switchPageDir(kernelTask) /\ UNCHANGED newTask
        BY <1>4, <2>4 DEF MainLoad
      <3>2. cr3' = kernelTask /\ UNCHANGED <<newTask, stack>>
        BY <3>1 DEF switchPageDir
      <3> QED
        BY <2>1, <3>2 DEF LoadInv, MainDirectory
    <2> QED
      BY <2>2, <2>3, <2>4
  <1>5. CASE Unless \/ Tables \/ Modules \/ Paging \/ CreateHeap \/ PrintMessage \/ FindModule
    <2>1. pc # 40
      BY <1>2, <1>5 DEF Unless, Tables, Modules, Paging, CreateHeap, PrintMessage, FindModule
    <2>2. UNCHANGED <<newTask, stack, cr3, currentTask>>
      BY <1>5 DEF Unless, Tables, Modules, Paging, CreateHeap, PrintMessage, FindModule, Goes, Gives,
                  interruptVars, taskVars
    <2> QED
      BY <1>1, <2>1, <2>2
  <1>6. CASE FindBIOS32 \/ CallFirmware \/ FindRSDP \/ FindRSDT \/ FindTables \/ MakeBuffers
             \/ \E name \in {"kmalloc", "ports", "commands"} : UsesShared(name)
    <2>1. pc # 40
      BY <1>2, <1>6 DEF FindBIOS32, CallFirmware, FindRSDP, FindRSDT, FindTables, MakeBuffers, UsesShared
    <2>2. UNCHANGED <<newTask, stack, cr3, currentTask>>
      BY <1>6 DEF FindBIOS32, CallFirmware, FindRSDP, FindRSDT, FindTables, MakeBuffers, UsesShared, Gives,
                  interruptVars, taskVars
    <2> QED
      BY <1>1, <2>1, <2>2
  <1> QED
    BY <1>3, <1>4, <1>5, <1>6 DEF KernelMain

\* Handlers and switches leave kernel_main's directory in the first frame, or
\* take it from there.
LEMMA OthersKeepDirectory ==
    ASSUME IInv, LoadInv, Others \/ Prints_ \/ Stops
    PROVE  LoadInv'
  <1>1. newTask' = newTask /\ pc' = pc
    BY DEF Others, Prints_, Stops, mainVars
  <1>2. ASSUME currentTask' = currentTask, MainDirectory' = MainDirectory
        PROVE  LoadInv'
    BY <1>1, <1>2 DEF LoadInv
  <1>3. /\ stack \in Seq(Frame) /\ Len(stack) \in Nat /\ (stack = <<>> <=> Len(stack) = 0)
        /\ DOMAIN stack = 1 .. Len(stack)
    BY StackFrames DEF IInv, InterruptTypeOK
  <1>4. ASSUME NEW n \in Vector, Enter(n) PROVE LoadInv'
    <2>1. currentTask' = currentTask
      BY <1>4 DEF Enter, taskVars
    <2>2. DEFINE frame == [int_no |-> n,
                           regs |-> [flag |-> enabled, cr3 |-> cr3, sections |-> sections,
                                     counter |-> __interruptsDisable]]
    <2>3. stack' = Append(stack, frame) /\ frame.regs.cr3 = cr3
      BY <1>4 DEF Enter
    <2> HIDE DEF frame
    <2>4. stack' # <<>> /\ stack'[1] = IF stack = <<>> THEN frame ELSE stack[1]
      BY <1>3, <2>3
    <2> QED
      BY <1>2, <2>1, <2>3, <2>4 DEF MainDirectory
  <1>5. CASE Raise
    BY <1>4, <1>5 DEF Raise, Interrupt, RaiseException, CallSystem, Vector
  <1>6. CASE Return
    <2>1. /\ stack # <<>> /\ stack' = SubSeq(stack, 1, Len(stack) - 1)
          /\ cr3' = Top.regs.cr3 /\ currentTask' = currentTask
      BY <1>6 DEF Return
    <2>2. CASE Len(stack) = 1
      <3>1. stack' = <<>> /\ Top = stack[1]
        BY <1>3, <2>1, <2>2 DEF Top
      <3>2. MainDirectory' = cr3' /\ MainDirectory = Top.regs.cr3
        BY <2>1, <3>1, Zenon DEF MainDirectory
      <3> QED
        BY <1>2, <2>1, <3>2
    <2>3. CASE Len(stack) > 1
      <3>1. stack' # <<>> /\ stack'[1] = stack[1]
        <4>1. Len(stack) # 0 /\ \A i \in 1 .. Len(stack) : stack[i] \in Frame
          BY <1>3, <2>3
        <4>2. Len(stack') = Len(stack) - 1 /\ \A i \in 1 .. Len(stack) - 1 : stack'[i] = stack[i]
          BY <1>3, <2>1, <4>1, WithoutLast
        <4>3. Len(stack') # 0 /\ stack'[1] = stack[1]
          BY <1>3, <2>3, <4>2
        <4>4. Len(<<>>) = 0
          OBVIOUS
        <4> QED
          BY <4>3, <4>4
      <3>2. MainDirectory' = stack[1].regs.cr3 /\ MainDirectory = stack[1].regs.cr3
        BY <2>1, <3>1, Zenon DEF MainDirectory
      <3> QED
        BY <1>2, <2>1, <3>2
    <2> QED
      BY <1>3, <2>1, <2>2, <2>3
  <1>7. CASE HandlerSection \/ Prints_ \/ Stops
    <2>1. UNCHANGED <<stack, cr3, currentTask>>
      BY <1>7 DEF HandlerSection, Disable, Enable, Prints_, Stops, kernel_panic, GPFHandler, PanicAgain,
                  kernel_assert, taskVars, interruptVars
    <2> QED
      BY <1>2, <2>1 DEF MainDirectory
  <1>8. CASE Tasks
    <2>1. PICK t \in Task : Fork(t) \/ Switch(t) \/ Destroy(t)
      BY <1>8 DEF Tasks
    <2>2. CASE Fork(t) \/ Destroy(t)
      <3>1. UNCHANGED <<stack, cr3, currentTask>>
        BY <2>2 DEF Fork, Destroy
      <3> QED
        BY <1>2, <3>1 DEF MainDirectory
    <2>3. CASE Switch(t)
      <3>1. /\ Len(stack) = 1 /\ currentTask' = t
            /\ regs' = [regs EXCEPT ![currentTask] = Top.regs]
            /\ stack' = [stack EXCEPT ![1].regs = regs'[t]]
        BY <2>3 DEF Switch
      <3>2. stack # <<>> /\ Top = stack[1] /\ stack[1] \in Frame
        BY <1>3, <3>1 DEF Top
      <3>3. stack' # <<>> /\ stack'[1].regs = regs'[t]
        BY <1>3, <3>1, <3>2 DEF Frame
      <3>4. regs'[t] = IF t = currentTask THEN Top.regs ELSE FreshRegisters(t)
        BY <3>1 DEF IInv, SavedRegisters, InterruptTypeOK
      <3>5. FreshRegisters(t).cr3 = t
        BY DEF FreshRegisters
      <3> QED
        BY <1>1, <3>1, <3>2, <3>3, <3>4, <3>5 DEF LoadInv, MainDirectory
    <2> QED
      BY <2>1, <2>2, <2>3
  <1> QED
    BY <1>5, <1>6, <1>7, <1>8 DEF Others

\* The two invariants hold together: the section of makeTaskFromELF ends with
\* the directory of kernel_main because its place says so.
LEMMA DirectoryIsLoaded == ASSUME VectorsOccur PROVE BootSpec => [](IInv /\ LoadInv)
  <1>1. BootInit => IInv /\ LoadInv
    <2>1. BootInit => IInv
      BY InitInvariant DEF BootInit
    <2>2. BootInit => LoadInv
      BY InterruptConstants DEF BootInit, InterruptInit, LoadInv, MainDirectory
    <2> QED
      BY <2>1, <2>2
  <1>2. IInv /\ LoadInv /\ [BootNext]_bootVars => (IInv /\ LoadInv)'
    <2> SUFFICES ASSUME IInv, LoadInv, [BootNext]_bootVars
                 PROVE  (IInv /\ LoadInv)'
      OBVIOUS
    <2>1. CASE KernelMain
      BY <2>1, KernelMainStep, NextInvariant, MainKeepsDirectory
    <2>2. CASE Others \/ Prints_ \/ Stops
      BY <2>2, OthersStep, NextInvariant, OthersKeepDirectory
    <2>3. CASE UNCHANGED bootVars
      <3>1. UNCHANGED interruptVars /\ UNCHANGED mainVars
        BY <2>3 DEF bootVars
      <3>2. LoadInv'
        BY <3>1 DEF LoadInv, MainDirectory, interruptVars, taskVars, mainVars
      <3> QED
        BY <3>1, <3>2, NextInvariant
    <2> QED
      BY <2>1, <2>2, <2>3 DEF BootNext
  <1> QED
    BY <1>1, <1>2, PTL DEF BootSpec

\* The start of the system implements the interrupt layer (main.c lines 25-74,
\* kernel.c lines 14-95, task.c lines 160-196): no step of it masks, unmasks,
\* enters, returns, switches or loads a directory in a way of its own.
THEOREM BootImplementsInterrupts == ASSUME VectorsOccur PROVE BootSpec => InterruptSpec
  <1>1. BootInit => InterruptInit
    BY DEF BootInit
  <1>2. LoadInv /\ [BootNext]_bootVars => [InterruptNext]_interruptVars
    BY KernelMainStep, OthersStep DEF BootNext, bootVars
  <1> QED
    BY <1>1, <1>2, DirectoryIsLoaded, PTL DEF BootSpec, InterruptSpec

\* A step of kernel_main leaves the screen alone, clears it, or is an access of
\* its screenPutChar.
LEMMA KernelMainScreen == KernelMain => [ScreenNext]_screenVars
  <1>1. MainDisable \/ MainEnable \/ MainRegister \/ MainLoad \/ MainStart \/ Unless
            => UNCHANGED screenVars
    BY DEF MainDisable, MainEnable, MainRegister, MainLoad, MainStart, Unless, Goes
  <1>2. Tables \/ Paging \/ CreateHeap => UNCHANGED screenVars
    BY DEF Tables, Paging, CreateHeap, Goes
  <1>3. FindBIOS32 \/ CallFirmware \/ FindRSDP \/ FindRSDT \/ FindTables => UNCHANGED screenVars
    BY DEF FindBIOS32, CallFirmware, FindRSDP, FindRSDT, FindTables, Gives
  <1>4. MakeBuffers \/ FindModule \/ (\E name \in {"kmalloc", "ports", "commands"} : UsesShared(name))
            => UNCHANGED screenVars
    BY DEF MakeBuffers, FindModule, UsesShared, Gives
  <1>5. Modules \/ PrintMessage => ScreenNext
    BY DEF Modules, PrintMessage, ScreenNext
  <1> QED
    BY <1>1, <1>2, <1>3, <1>4, <1>5 DEF KernelMain

\* A program prints whole characters, and so does what stops the system.
LEMMA OthersScreen ==
    ASSUME Cardinality(TraceAddress) \in Nat
    PROVE  Others \/ Prints_ \/ Stops => [ScreenNext]_screenVars
  <1>1. Others => UNCHANGED screenVars
    BY DEF Others
  <1>2. Prints_ => ScreenNext
    BY DEF Prints_, ScreenNext
  <1>3. TraceLines \in Nat
    BY DEF TraceLines
  <1>4. 1 + TraceLines \in Nat /\ 1 \in Nat /\ \A n \in 0 .. 1 : n + TraceLines \in Nat
    BY <1>3
  <1>5. Stops => PrintsText \/ \E n \in Nat : PrintsLines(n)
    BY <1>4 DEF Stops
  <1> QED
    BY <1>1, <1>2, <1>5 DEF ScreenNext

\* The start of the system implements the screen (main.c line 39, kernel.c line
\* 81, panic.c): everything is printed with screenClear and screenPutChar.
THEOREM BootImplementsScreen ==
    ASSUME Cardinality(TraceAddress) \in Nat PROVE BootSpec => ScreenSpec
  <1>1. BootInit => ScreenInit
    BY DEF BootInit
  <1>2. [BootNext]_bootVars => [ScreenNext]_screenVars
    BY KernelMainScreen, OthersScreen DEF BootNext, bootVars
  <1> QED
    BY <1>1, <1>2, PTL DEF BootSpec, ScreenSpec

-----------------------------------------------------------------------------
(* The memory before the heap. *)

\* Division with an arbitrary divisor.
LEMMA DivisionFacts ==
    ASSUME NEW n \in Nat \ {0}, NEW a \in Int
    PROVE  /\ a \div n \in Int /\ a % n \in 0 .. n - 1 /\ a = n * (a \div n) + (a % n)
           /\ a >= 0 => a \div n \in Nat
           /\ \A b \in Int : a <= b => (a \div n) <= (b \div n)
  OBVIOUS

LEMMA DivisionOf ==
    ASSUME NEW n \in Nat \ {0}, NEW i \in Int, NEW r \in 0 .. n - 1
    PROVE  (n * i + r) \div n = i /\ (n * i + r) % n = r
  OBVIOUS

LEMMA Products ==
    ASSUME NEW n \in Nat, NEW i \in Int, NEW j \in Int, i < j
    PROVE  n * i + n <= n * j
  OBVIOUS

LEMMA PagesOfInts ==
    /\ \A a \in Int : PageOf(a) \in Int
    /\ \A a \in Nat : PageOf(a) \in Nat
    /\ \A a, b \in Int : a <= b => PageOf(a) <= PageOf(b)
  <1>1. PAGE_SIZE \in Nat \ {0}
    BY BootMemoryConstants
  <1> QED
    BY <1>1, DivisionFacts DEF PageOf

LEMMA InItsPage ==
    ASSUME NEW a \in Nat
    PROVE  /\ PageOf(a) \in Nat /\ a % PAGE_SIZE \in 0 .. PAGE_SIZE - 1
           /\ a = PAGE_SIZE * PageOf(a) + (a % PAGE_SIZE)
  <1>1. PAGE_SIZE \in Nat \ {0} /\ a \in Int /\ a >= 0
    BY BootMemoryConstants
  <1>2. a \div PAGE_SIZE \in Int /\ (a >= 0 => a \div PAGE_SIZE \in Nat)
    BY <1>1, DivisionFacts
  <1>3. a % PAGE_SIZE \in 0 .. PAGE_SIZE - 1 /\ a = PAGE_SIZE * (a \div PAGE_SIZE) + (a % PAGE_SIZE)
    BY <1>1, DivisionFacts
  <1> QED
    BY <1>1, <1>2, <1>3 DEF PageOf

\* A range of pages that is mapped: every page from that of the start to that
\* of the end, and at most one more.
LEMMA PagesFromFacts ==
    ASSUME NEW start \in Int, NEW end \in Int, start = 0 => end >= 0
    PROVE  /\ PageOf(start) .. PageOf(end) \subseteq PagesFrom(start, end)
           /\ PagesFrom(start, end) \subseteq PageOf(start) .. PageOf(end) + 1
  <1> DEFINE n == PAGE_SIZE
             s == PageOf(start)
             e == PageOf(end)
             p == start % n
             q == end % n
             from == IF start = 0 THEN 0 ELSE s * n + n - 1 - p
             to == e * n + n - 1 - q + n
  <1>1. n \in Nat \ {0}
    BY BootMemoryConstants
  <1>2. /\ s \in Int /\ e \in Int /\ p \in 0 .. n - 1 /\ q \in 0 .. n - 1
    BY <1>1, DivisionFacts DEF PageOf
  <1>3. PagesFrom(start, end) =
            {page \in PageOf(from) .. PageOf(to) : (from % n) + page * n < to}
    BY DEF PagesFrom
  <1>4. start = 0 => s = 0
    BY <1>1, DivisionOf DEF PageOf
  <1> HIDE DEF n, p, q, s, e
  <1>5. \E r \in 0 .. n - 1 : from = n * s + r
    <2>1. CASE start = 0
      BY <1>1, <1>4, <2>1
    <2>2. CASE start # 0
      <3>1. from = n * s + (n - 1 - p) /\ n - 1 - p \in 0 .. n - 1
        BY <1>1, <1>2, <2>2
      <3> QED
        BY <3>1
    <2> QED
      BY <2>1, <2>2
  <1>6. PICK r \in 0 .. n - 1 : from = n * s + r
    BY <1>5
  <1>7. from \div n = s /\ from % n = r
    BY <1>1, <1>2, <1>6, DivisionOf
  <1>8. PICK t \in 0 .. n - 1 : to = n * (e + 1) + t
    <2>1. to = n * (e + 1) + (n - 1 - q) /\ n - 1 - q \in 0 .. n - 1
      BY <1>1, <1>2
    <2> QED
      BY <2>1
  <1>9. to \div n = e + 1 /\ to % n = t
    <2> DEFINE f == e + 1
    <2>1. f \in Int /\ to = n * f + t
      BY <1>2, <1>8
    <2> HIDE DEF f, to
    <2>2. to \div n = f /\ to % n = t
      BY <1>1, <2>1, DivisionOf
    <2> QED
      BY <2>2 DEF f
  <1> HIDE DEF from, to
  <1>10. PagesFrom(start, end) = {page \in s .. e + 1 : r + page * n < to}
    BY <1>3, <1>7, <1>9 DEF PageOf, n
  <1>11. ASSUME NEW page \in s .. e
         PROVE  r + page * n < to
    <2>1. page \in Int /\ page < e + 1 /\ page * n = n * page
      BY <1>1, <1>2, <1>11
    <2>2. n * page + n <= n * (e + 1)
      BY <1>1, <1>2, <2>1, Products
    <2>3. n * page \in Int /\ n * (e + 1) \in Int
      BY <1>1, <1>2, <2>1
    <2> QED
      BY <1>1, <1>6, <1>8, <2>1, <2>2, <2>3
  <1>12. s .. e \subseteq s .. e + 1
    BY <1>2
  <1> QED
    BY <1>10, <1>11, <1>12 DEF s, e

\* A memory before the heap.
IsMemory(m) == /\ m = [placementAddress |-> m.placementAddress, tables |-> m.tables,
                       mirrored |-> m.mirrored]
               /\ m.placementAddress \in Nat

Missing(m, indexes) == Cardinality(indexes \ m.tables)

\* The tables that are made: two pages each.
LEMMA MakeTablesFacts ==
    ASSUME NEW m, IsMemory(m), NEW indexes, IsFiniteSet(indexes)
    PROVE  /\ IsMemory(MakeTables(m, indexes))
           /\ MakeTables(m, indexes).tables = m.tables \cup indexes
           /\ MakeTables(m, indexes).mirrored = m.mirrored
           /\ Missing(m, indexes) \in Nat
           /\ Missing(m, indexes) = 0 <=> indexes \subseteq m.tables
           /\ MakeTables(m, indexes).placementAddress =
                  IF Missing(m, indexes) = 0 THEN m.placementAddress
                  ELSE (PageOf(m.placementAddress) + 2 * Missing(m, indexes)) * PAGE_SIZE
  <1> DEFINE k == Missing(m, indexes)
             a == m.placementAddress
  <1>1. /\ IsFiniteSet(indexes \ m.tables)
        /\ k \in Nat /\ (k = 0 <=> indexes \ m.tables = {})
    <2> DEFINE D == indexes \ m.tables
    <2>1. D \in SUBSET indexes
      OBVIOUS
    <2> HIDE DEF D
    <2>2. IsFiniteSet(D)
      BY <2>1, FS_Subset
    <2>3. Cardinality(D) \in Nat /\ (Cardinality(D) = 0 <=> D = {})
      BY <2>2, FS_CardinalityType, FS_EmptySet
    <2> QED
      BY <2>2, <2>3 DEF Missing, D
  <1>2. /\ PageOf(a) \in Nat /\ PAGE_SIZE \in Nat /\ a \in Nat
    BY BootMemoryConstants, DivisionFacts DEF PageOf, IsMemory
  <1>3. (PageOf(a) + 2 * k) * PAGE_SIZE \in Nat
    BY <1>1, <1>2
  <1>4. MakeTables(m, indexes) =
            [placementAddress |-> IF k = 0 THEN a ELSE (PageOf(a) + 2 * k) * PAGE_SIZE,
             tables |-> m.tables \cup indexes, mirrored |-> m.mirrored]
    <2> DEFINE T == m.tables
               M == m.mirrored
               c == Cardinality(indexes \ T)
    <2>1. m = [placementAddress |-> a, tables |-> T, mirrored |-> M]
      BY DEF IsMemory
    <2>2. MakeTables(m, indexes) = [m EXCEPT !.tables = T \cup indexes, !.placementAddress =
                      IF c = 0 THEN a ELSE (PageOf(a) + 2 * c) * PAGE_SIZE]
      BY DEF MakeTables
    <2>3. k = c
      BY DEF Missing
    <2> HIDE DEF a, T, M, c, k
    <2> QED
      BY <2>1, <2>2, <2>3
  <1> HIDE DEF k
  <1>5. (IF k = 0 THEN a ELSE (PageOf(a) + 2 * k) * PAGE_SIZE) \in Nat
    BY <1>2, <1>3
  <1> QED
    BY <1>1, <1>4, <1>5 DEF IsMemory, k

IndexesOf(pages) == {page \div PAGES_IN_TABLE : page \in pages}

\* A finite number of pages lies in a finite number of tables.
LEMMA IndexesFinite ==
    ASSUME NEW low \in Int, NEW high \in Int, NEW pages \in SUBSET (low .. high)
    PROVE  /\ IsFiniteSet(IndexesOf(pages))
           /\ \A i \in IndexesOf(pages) :
                 i \in Int /\ (low \div PAGES_IN_TABLE) <= i /\ i <= (high \div PAGES_IN_TABLE)
  <1>1. PAGES_IN_TABLE \in Nat \ {0}
    BY BootMemoryConstants
  <1>2. \A i \in IndexesOf(pages) :
            i \in Int /\ (low \div PAGES_IN_TABLE) <= i /\ i <= (high \div PAGES_IN_TABLE)
    <2> SUFFICES ASSUME NEW page \in pages
                 PROVE  /\ page \div PAGES_IN_TABLE \in Int
                        /\ (low \div PAGES_IN_TABLE) <= (page \div PAGES_IN_TABLE)
                        /\ (page \div PAGES_IN_TABLE) <= (high \div PAGES_IN_TABLE)
      BY DEF IndexesOf
    <2>1. page \in Int /\ low <= page /\ page <= high
      OBVIOUS
    <2> QED
      BY <1>1, <2>1, DivisionFacts
  <1>3. low \div PAGES_IN_TABLE \in Int /\ high \div PAGES_IN_TABLE \in Int
    BY <1>1, DivisionFacts
  <1>4. IndexesOf(pages) \subseteq (low \div PAGES_IN_TABLE) .. (high \div PAGES_IN_TABLE)
    BY <1>2, <1>3
  <1> DEFINE all == (low \div PAGES_IN_TABLE) .. (high \div PAGES_IN_TABLE)
  <1>5. IsFiniteSet(all)
    BY <1>3, FS_Interval
  <1> HIDE DEF all
  <1>6. IndexesOf(pages) \in SUBSET all
    BY <1>4 DEF all
  <1>7. \A i \in IndexesOf(pages) : i \in Int
    BY <1>2
  <1> QED
    BY <1>2, <1>5, <1>6, <1>7, FS_Subset

\* Pages that are mapped to themselves.
Mapped(m, pages) ==
    [MakeTables(m, IndexesOf(pages)) EXCEPT !.mirrored = @ \cup pages]

LEMMA MappedFacts ==
    ASSUME NEW m, IsMemory(m), NEW pages, IsFiniteSet(IndexesOf(pages))
    PROVE  /\ IsMemory(Mapped(m, pages))
           /\ Mapped(m, pages).tables = m.tables \cup IndexesOf(pages)
           /\ Mapped(m, pages).mirrored = m.mirrored \cup pages
           /\ Mapped(m, pages).placementAddress = MakeTables(m, IndexesOf(pages)).placementAddress
  <1> DEFINE indexes == IndexesOf(pages)
             made == MakeTables(m, indexes)
  <1>1. Mapped(m, pages) = [made EXCEPT !.mirrored = made.mirrored \cup pages]
    BY DEF Mapped
  <1> HIDE DEF indexes
  <1>2. IsMemory(made) /\ made.tables = m.tables \cup indexes /\ made.mirrored = m.mirrored
    BY MakeTablesFacts DEF indexes
  <1> HIDE DEF made
  <1>3. Mapped(m, pages) =
            [placementAddress |-> made.placementAddress, tables |-> m.tables \cup indexes,
             mirrored |-> m.mirrored \cup pages]
    BY <1>1, <1>2 DEF IsMemory
  <1> QED
    BY <1>2, <1>3 DEF IsMemory, indexes, made

LEMMA RangeMapped ==
    ASSUME NEW start \in Int, NEW end \in Int, start = 0 => end >= 0
    PROVE  /\ \A m : allocFramesMirrored(m, start, end) = Mapped(m, PagesFrom(start, end))
           /\ IsFiniteSet(IndexesOf(PagesFrom(start, end)))
  <1>1. \A m : allocFramesMirrored(m, start, end) = Mapped(m, PagesFrom(start, end))
    BY DEF allocFramesMirrored, IndexesOf, Mapped
  <1> DEFINE pages == PagesFrom(start, end)
  <1>2. pages \in SUBSET (PageOf(start) .. PageOf(end) + 1)
    BY PagesFromFacts
  <1>3. PageOf(start) \in Int /\ PageOf(end) + 1 \in Int
    BY PagesOfInts
  <1>4. IsFiniteSet(IndexesOf(pages))
    <2> HIDE DEF pages
    <2> QED
      BY <1>2, <1>3, IndexesFinite
  <1> QED
    BY <1>1, <1>4

\* Where the free memory starts when tables were made: behind them.
LEMMA TablesMove ==
    ASSUME NEW m, IsMemory(m), NEW indexes, IsFiniteSet(indexes)
    PROVE  LET k == Missing(m, indexes)
               a == m.placementAddress
               b == MakeTables(m, indexes).placementAddress
           IN  /\ a <= b /\ b \in Nat
               /\ k = 0 => b = a
               /\ PageOf(b) = PageOf(a) + 2 * k
               /\ PageOf(b - 1) <= IF k = 0 THEN PageOf(a) ELSE PageOf(a) + 2 * k - 1
  <1> DEFINE n == PAGE_SIZE
             k == Missing(m, indexes)
             a == m.placementAddress
             b == MakeTables(m, indexes).placementAddress
             p == PageOf(a)
             r == a % n
  <1>1. n \in Nat \ {0} /\ k \in Nat /\ a \in Nat /\ b \in Nat
    BY MakeTablesFacts, BootMemoryConstants DEF IsMemory
  <1>2. p \in Nat /\ r \in 0 .. n - 1 /\ a = n * p + r
    BY <1>1, InItsPage
  <1>3. b = IF k = 0 THEN a ELSE (p + 2 * k) * n
    BY MakeTablesFacts
  <1> HIDE DEF n, k, a, b, p, r
  <1>4. CASE k = 0
    <2>1. b = a /\ a - 1 \in Int /\ a - 1 <= a /\ a \in Int
      BY <1>1, <1>3, <1>4
    <2>2. PageOf(a - 1) <= PageOf(a)
      BY <2>1, PagesOfInts
    <2> QED
      BY <1>1, <1>2, <1>4, <2>1, <2>2 DEF p, a, b, k
  <1>5. CASE k # 0
    <2> DEFINE q == p + 2 * k
               o == q - 1
    <2>1. q \in Nat /\ o \in Nat /\ p < q /\ p + 2 <= q
      BY <1>1, <1>2, <1>5
    <2>2. b = n * q + 0 /\ b - 1 = n * o + (n - 1) /\ 0 \in 0 .. n - 1 /\ n - 1 \in 0 .. n - 1
      BY <1>1, <1>3, <1>5, <2>1
    <2>3. n * p + n <= n * q
      BY <1>1, <1>2, <2>1, Products
    <2>4. a <= b
      <3>1. n * p \in Int /\ n * q \in Int
        BY <1>1, <1>2, <2>1
      <3> HIDE DEF q
      <3> QED
        BY <1>1, <1>2, <2>2, <2>3, <3>1
    <2> HIDE DEF q, o
    <2>5. PageOf(b) = q /\ PageOf(b - 1) = o
      BY <1>1, <2>1, <2>2, DivisionOf DEF PageOf, n
    <2>6. q = p + 2 * k /\ o = p + 2 * k - 1
      BY <1>1, <1>2 DEF q, o
    <2> QED
      BY <1>1, <1>5, <2>4, <2>5, <2>6 DEF p, a, b, k
  <1> QED
    BY <1>4, <1>5

\* initPaging up to the first mapping.
LEMMA PreparedFacts ==
    ASSUME NEW a \in Nat
    PROVE  /\ IsMemory(Prepared(a)) /\ Prepared(a).tables = HeapTables /\ Prepared(a).mirrored = {}
           /\ a <= Prepared(a).placementAddress
  <1> DEFINE first == [placementAddress |-> a + BitmapSize, tables |-> {}, mirrored |-> {}]
             b == (PageOf(a + BitmapSize) + 1) * PAGE_SIZE + DirSize
             second == [placementAddress |-> b, tables |-> {}, mirrored |-> {}]
             third == MakeTables(second, HeapTables)
  <1>1. /\ PAGE_SIZE \in Nat \ {0} /\ BitmapSize \in Nat /\ DirSize \in Nat /\ HeapTSize \in Nat
        /\ IsFiniteSet(HeapTables)
    BY BootMemoryConstants
  <1>2. b \in Nat /\ a <= b
    <2> DEFINE c == a + BitmapSize
               p == PageOf(c)
               r == c % PAGE_SIZE
    <2>1. c \in Nat /\ a <= c
      BY <1>1
    <2> HIDE DEF c
    <2>2. p \in Nat /\ r \in 0 .. PAGE_SIZE - 1 /\ c = PAGE_SIZE * p + r
      BY <2>1, InItsPage
    <2> HIDE DEF p, r
    <2>3. (p + 1) * PAGE_SIZE = PAGE_SIZE * p + PAGE_SIZE /\ PAGE_SIZE * p \in Nat
      BY <1>1, <2>2
    <2>4. b = (p + 1) * PAGE_SIZE + DirSize
      BY DEF p, c
    <2> HIDE DEF b
    <2> QED
      BY <1>1, <2>1, <2>2, <2>3, <2>4
  <1>3. kmallocAligned(_kmalloc([placementAddress |-> a, tables |-> {}, mirrored |-> {}], BitmapSize),
                       DirSize) = second
    <2>1. _kmalloc([placementAddress |-> a, tables |-> {}, mirrored |-> {}], BitmapSize) = first
      BY DEF _kmalloc
    <2>2. first.placementAddress = a + BitmapSize /\ first.tables = {} /\ first.mirrored = {}
          /\ first = [placementAddress |-> first.placementAddress, tables |-> {}, mirrored |-> {}]
      OBVIOUS
    <2>3. kmallocAligned(first, DirSize) =
              [placementAddress |-> (PageOf(first.placementAddress) + 1) * PAGE_SIZE + DirSize,
               tables |-> {}, mirrored |-> {}]
      <3> HIDE DEF first
      <3> QED
        BY <2>2 DEF kmallocAligned
    <2> QED
      BY <2>1, <2>2, <2>3
  <1>4. Prepared(a) = [third EXCEPT !.placementAddress = third.placementAddress + HeapTSize]
    BY <1>3 DEF Prepared, _kmalloc
  <1> HIDE DEF b
  <1>5. IsMemory(second) /\ second.tables = {} /\ second.mirrored = {} /\ second.placementAddress = b
    BY <1>2 DEF IsMemory
  <1> HIDE DEF second
  <1>6. IsMemory(third) /\ third.tables = HeapTables /\ third.mirrored = {} /\ b <= third.placementAddress
    <2>1. /\ IsMemory(third) /\ third.tables = second.tables \cup HeapTables
          /\ third.mirrored = second.mirrored
      BY <1>1, <1>5, MakeTablesFacts
    <2>2. second.placementAddress <= third.placementAddress
      BY <1>1, <1>5, TablesMove
    <2>3. third.tables = HeapTables /\ third.mirrored = {}
      BY <1>5, <2>1
    <2> HIDE DEF third
    <2>4. b <= third.placementAddress
      BY <1>5, <2>2
    <2> QED
      BY <2>1, <2>3, <2>4
  <1> HIDE DEF third
  <1>7. Prepared(a) = [placementAddress |-> third.placementAddress + HeapTSize,
                       tables |-> HeapTables, mirrored |-> {}]
    BY <1>4, <1>6 DEF IsMemory
  <1>8. third.placementAddress \in Nat
    BY <1>6 DEF IsMemory
  <1> QED
    BY <1>1, <1>2, <1>6, <1>7, <1>8 DEF IsMemory

\* The last mapping of initPaging, and the tables it makes.
Last(m) == allocFramesMirrored(m, KernelEnd, m.placementAddress + PAGE_SIZE)

NewTables(m) == IndexesOf(PagesFrom(KernelEnd, m.placementAddress + PAGE_SIZE)) \ m.tables

LEMMA LastFacts ==
    ASSUME NEW m, IsMemory(m), KernelEnd <= m.placementAddress
    PROVE  LET a == m.placementAddress
           IN  /\ a \in Nat /\ PageOf(a) \in Nat /\ PageOf(KernelEnd) \in Nat /\ PageOf(KernelEnd) <= PageOf(a)
               /\ Last(m).placementAddress \in Nat
               /\ Last(m).tables # {}
               /\ m.mirrored \subseteq Last(m).mirrored
               /\ PageOf(KernelEnd) .. PageOf(a) + 1 \subseteq Last(m).mirrored
               /\ IsFiniteSet(NewTables(m)) /\ Cardinality(NewTables(m)) \in Nat
               /\ \A i \in NewTables(m) : \E page \in PageOf(KernelEnd) .. PageOf(a) + 2 :
                     i = page \div PAGES_IN_TABLE
               /\ PageOf(Last(m).placementAddress) = PageOf(a) + 2 * Cardinality(NewTables(m))
               /\ Cardinality(NewTables(m)) <= 1 => PageOf(Last(m).placementAddress - 1) <= PageOf(a) + 1
  <1> DEFINE a == m.placementAddress
             end == a + PAGE_SIZE
             pages == PagesFrom(KernelEnd, end)
             indexes == IndexesOf(pages)
             b == MakeTables(m, indexes).placementAddress
             k == Missing(m, indexes)
  <1>1. PAGE_SIZE \in Nat \ {0} /\ a \in Nat /\ KernelEnd \in Nat /\ end \in Nat /\ KernelEnd <= a
    BY BootMemoryConstants DEF IsMemory
  <1>2. PageOf(end) = PageOf(a) + 1 /\ PageOf(a) \in Nat
    <2> DEFINE p == PageOf(a)
               q == p + 1
               r == a % PAGE_SIZE
    <2>1. p \in Nat /\ r \in 0 .. PAGE_SIZE - 1 /\ a = PAGE_SIZE * p + r
      BY <1>1, InItsPage
    <2> HIDE DEF p, r
    <2>2. q \in Int /\ end = PAGE_SIZE * q + r
      BY <1>1, <2>1
    <2> HIDE DEF q, end
    <2>3. PageOf(end) = q
      BY <1>1, <2>1, <2>2, DivisionOf DEF PageOf
    <2> QED
      BY <2>1, <2>3 DEF p, q
  <1>3. PageOf(KernelEnd) \in Nat /\ PageOf(KernelEnd) <= PageOf(a)
    <2> HIDE DEF a
    <2> QED
      BY <1>1, PagesOfInts
  <1> HIDE DEF a, end
  <1>4. /\ PageOf(KernelEnd) .. PageOf(a) + 1 \subseteq pages
        /\ pages \subseteq PageOf(KernelEnd) .. PageOf(a) + 2
    <2>1. /\ PageOf(KernelEnd) .. PageOf(end) \subseteq pages
          /\ pages \subseteq PageOf(KernelEnd) .. PageOf(end) + 1
      BY <1>1, PagesFromFacts
    <2>2. PageOf(end) + 1 = PageOf(a) + 2
      BY <1>2
    <2> QED
      BY <1>2, <2>1, <2>2
  <1>5. IsFiniteSet(indexes) /\ Last(m) = Mapped(m, pages)
    BY <1>1, RangeMapped DEF Last, end, a
  <1> HIDE DEF pages
  <1>6. /\ Last(m).tables = m.tables \cup indexes /\ Last(m).mirrored = m.mirrored \cup pages
        /\ Last(m).placementAddress = b
    BY <1>5, MappedFacts
  <1>7. PageOf(KernelEnd) \div PAGES_IN_TABLE \in indexes
    <2>1. PageOf(KernelEnd) \in pages
      BY <1>2, <1>3, <1>4
    <2> QED
      BY <2>1 DEF IndexesOf
  <1>8. \A i \in indexes : \E page \in PageOf(KernelEnd) .. PageOf(a) + 2 : i = page \div PAGES_IN_TABLE
    BY <1>4 DEF IndexesOf
  <1>9. NewTables(m) = indexes \ m.tables /\ Cardinality(NewTables(m)) = k
    BY DEF NewTables, Missing, pages, end, a
  <1> HIDE DEF indexes
  <1>10. IsFiniteSet(NewTables(m)) /\ k \in Nat
    <2> DEFINE new == NewTables(m)
    <2>1. new \in SUBSET indexes
      BY <1>9
    <2> HIDE DEF new
    <2>2. IsFiniteSet(new)
      BY <1>5, <2>1, FS_Subset
    <2>3. k \in Nat
      BY <1>5, MakeTablesFacts
    <2> QED
      BY <2>2, <2>3 DEF new
  <1>11. /\ b \in Nat /\ PageOf(b) = PageOf(a) + 2 * k
         /\ PageOf(b - 1) <= IF k = 0 THEN PageOf(a) ELSE PageOf(a) + 2 * k - 1
    BY <1>5, TablesMove DEF a
  <1>12. k <= 1 => PageOf(b - 1) <= PageOf(a) + 1
    <2>1. PageOf(b - 1) \in Int
      BY <1>11, PagesOfInts
    <2>2. k <= 1 => k = 0 \/ k = 1
      BY <1>10
    <2> HIDE DEF k, b
    <2> QED
      BY <1>2, <1>11, <2>1, <2>2
  <1> HIDE DEF b, k
  <1> QED
    BY <1>1, <1>2, <1>3, <1>4, <1>6, <1>7, <1>8, <1>9, <1>10, <1>11, <1>12 DEF a

\* The last mapping, when it needs one table at most: what was mapped up to the
\* end of the kernel goes on up to the end of the memory that is used.
LEMMA LastMapping ==
    ASSUME NEW m, IsMemory(m), KernelEnd <= m.placementAddress, Cardinality(NewTables(m)) <= 1,
           0 .. PageOf(KernelEnd) \subseteq m.mirrored
    PROVE  PageOf(0) .. PageOf(Last(m).placementAddress - 1) \subseteq Last(m).mirrored
  <1> DEFINE p == PageOf(m.placementAddress)
             q == PageOf(Last(m).placementAddress - 1)
             e == PageOf(KernelEnd)
  <1>1. /\ p \in Nat /\ e \in Nat /\ q <= p + 1 /\ Last(m).placementAddress \in Nat
        /\ m.mirrored \subseteq Last(m).mirrored /\ e .. p + 1 \subseteq Last(m).mirrored
    BY LastFacts
  <1>2. PageOf(0) = 0
    <2>1. PAGE_SIZE \in Nat \ {0}
      BY BootMemoryConstants
    <2>2. 0 = PAGE_SIZE * 0 + 0 /\ 0 \in 0 .. PAGE_SIZE - 1
      BY <2>1
    <2> QED
      BY <2>1, <2>2, DivisionOf DEF PageOf
  <1>3. q \in Int
    BY <1>1, PagesOfInts
  <1> HIDE DEF p, q, e
  <1>4. \A page \in 0 .. q : page \in 0 .. e \/ page \in e .. p + 1
    BY <1>1, <1>3
  <1> QED
    BY <1>1, <1>2, <1>4 DEF e, q

LEMMA AtMostOne ==
    ASSUME NEW x, NEW S, S \subseteq {x}
    PROVE  IsFiniteSet(S) /\ Cardinality(S) <= 1
  <1> DEFINE one == {x}
  <1>1. IsFiniteSet(one) /\ Cardinality(one) = 1
    BY FS_Singleton
  <1>2. S \in SUBSET one
    OBVIOUS
  <1> HIDE DEF one
  <1> QED
    BY <1>1, <1>2, FS_Subset

\* Without a section table: the tables that map the memory up to its first free
\* address are so few that what they take themselves ends in the next one.
TablesFit(placementAddress) ==
    2 * ((PageOf(Prepared(placementAddress).placementAddress) + 1) \div PAGES_IN_TABLE) + 4 <= PAGES_IN_TABLE

LEMMA ReservedWithoutSections ==
    ASSUME NEW placementAddress \in Nat, KernelEnd <= placementAddress, TablesFit(placementAddress)
    PROVE  LET after == InitialMemory(placementAddress, FALSE)
           IN  /\ after.tables # {}
               /\ PageOf(0) .. PageOf(after.placementAddress - 1) \subseteq after.mirrored
  <1> DEFINE first == Prepared(placementAddress)
             a == first.placementAddress
             p == PageOf(a)
             n == PAGES_IN_TABLE
             pages == PagesFrom(0, a)
             indexes == IndexesOf(pages)
             m == Mapped(first, pages)
             k == Missing(first, indexes)
             new == NewTables(m)
             last == (p + 1) \div n
  <1>1. IsMemory(first) /\ placementAddress <= a /\ first.mirrored = {}
    BY PreparedFacts
  <1>2. /\ KernelEnd \in Nat /\ n \in Nat \ {0} /\ a \in Nat /\ 0 \in Int /\ a \in Int
        /\ KernelEnd <= a /\ p \in Nat
    <2>1. a \in Nat
      BY <1>1 DEF IsMemory
    <2>2. p \in Nat
      BY <2>1, InItsPage
    <2> HIDE DEF a
    <2> QED
      BY <1>1, <2>1, <2>2, BootMemoryConstants
  <1> HIDE DEF a, p
  <1>3. /\ 0 .. p \subseteq pages /\ pages \subseteq 0 .. p + 1
        /\ IsFiniteSet(indexes) /\ allocFramesMirrored(first, 0, a) = m
    <2>1. PageOf(0) = 0
      <3>1. PAGE_SIZE \in Nat \ {0}
        BY BootMemoryConstants
      <3>2. 0 = PAGE_SIZE * 0 + 0 /\ 0 \in 0 .. PAGE_SIZE - 1
        BY <3>1
      <3> QED
        BY <3>1, <3>2, DivisionOf DEF PageOf
    <2>2. 0 = 0 => a >= 0
      BY <1>2
    <2> QED
      BY <1>2, <2>1, <2>2, PagesFromFacts, RangeMapped DEF p
  <1>4. InitialMemory(placementAddress, FALSE) = Last(m)
    BY <1>3 DEF InitialMemory, KernelMapped, Last, a
  <1> HIDE DEF first, pages
  <1>5. /\ IsMemory(m) /\ m.tables = first.tables \cup indexes /\ m.mirrored = first.mirrored \cup pages
        /\ m.placementAddress = MakeTables(first, indexes).placementAddress
    BY <1>1, <1>3, MappedFacts
  <1> HIDE DEF m
  <1>6. /\ a <= m.placementAddress /\ k \in Nat
        /\ PageOf(m.placementAddress) = p + 2 * k
    BY <1>1, <1>3, <1>5, TablesMove, MakeTablesFacts DEF a, p
  <1>7. k <= last + 1 /\ last \in Nat /\ 2 * last + 4 <= n
    <2>1. /\ p + 1 \in Int /\ 0 <= p + 1 /\ pages \in SUBSET (0 .. p + 1)
      BY <1>2, <1>3
    <2>2. last \in Nat /\ 0 \div n = 0
      <3>1. 0 = n * 0 + 0 /\ 0 \in 0 .. n - 1
        BY <1>2
      <3>2. p + 1 >= 0 => last \in Nat
        BY <1>2, <2>1, DivisionFacts
      <3> QED
        BY <1>2, <2>1, <3>1, <3>2, DivisionOf
    <2>3. \A i \in indexes : i \in Int /\ 0 <= i /\ i <= last
      <3>1. \A i \in IndexesOf(pages) :
                i \in Int /\ (0 \div PAGES_IN_TABLE) <= i /\ i <= ((p + 1) \div PAGES_IN_TABLE)
        <4> DEFINE end == p + 1
                   set == pages
        <4>1. 0 \in Int /\ end \in Int /\ set \in SUBSET (0 .. end)
          BY <2>1
        <4> HIDE DEF end, set
        <4>2. \A i \in IndexesOf(set) :
                  i \in Int /\ (0 \div PAGES_IN_TABLE) <= i /\ i <= (end \div PAGES_IN_TABLE)
          BY <4>1, IndexesFinite
        <4> QED
          BY <4>2 DEF end, set
      <3> QED
        BY <2>2, <3>1
    <2> HIDE DEF indexes, last
    <2>4. indexes \ first.tables \subseteq 0 .. last
      BY <2>2, <2>3
    <2> DEFINE missing == indexes \ first.tables
               all == 0 .. last
    <2>5. IsFiniteSet(all) /\ Cardinality(all) = last + 1
      <3>1. 0 \in Int /\ last \in Int /\ ~(0 > last)
        BY <2>2
      <3>2. IsFiniteSet(all) /\ Cardinality(all) = IF 0 > last THEN 0 ELSE last - 0 + 1
        BY <3>1, FS_Interval
      <3> QED
        BY <2>2, <3>1, <3>2
    <2>6. missing \in SUBSET all /\ k = Cardinality(missing)
      BY <2>4 DEF Missing
    <2> HIDE DEF missing, all
    <2>7. Cardinality(missing) <= Cardinality(all)
      BY <2>5, <2>6, FS_Subset
    <2>8. 2 * last + 4 <= n
      BY DEF TablesFit, last, p, a, first
    <2> QED
      BY <2>2, <2>5, <2>6, <2>7, <2>8
  <1> HIDE DEF k, last
  <1>8. KernelEnd <= m.placementAddress
    <2>1. m.placementAddress \in Nat
      BY <1>5 DEF IsMemory
    <2> QED
      BY <1>2, <1>6, <2>1
  <1>9. new \subseteq {(p \div n) + 1}
    <2> SUFFICES ASSUME NEW i \in new PROVE i = (p \div n) + 1
      OBVIOUS
    <2> DEFINE q == p \div n
               r == p % n
    <2>1. q \in Nat /\ r \in 0 .. n - 1 /\ p = n * q + r
      <3>1. p \in Int /\ p >= 0
        BY <1>2
      <3> QED
        BY <1>2, <3>1, DivisionFacts
    <2>2. PICK page \in PageOf(KernelEnd) .. PageOf(m.placementAddress) + 2 : i = page \div n
      BY <1>5, <1>8, LastFacts
    <2>3. PageOf(KernelEnd) \in Nat
      BY <1>2, InItsPage
    <2>4. page \in Nat /\ page <= p + 2 * k + 2
      BY <1>2, <1>6, <2>2, <2>3
    <2>5. i \notin indexes
      BY <1>5 DEF NewTables
    <2>6. ~(page <= p)
      <3>1. page <= p => page \in pages
        BY <1>2, <1>3, <2>4
      <3> QED
        BY <2>2, <2>5, <3>1 DEF IndexesOf
    <2> DEFINE s == page % n
    <2>7. i \in Nat /\ s \in 0 .. n - 1 /\ page = n * i + s
      <3>1. page \in Int /\ page >= 0
        BY <2>4
      <3>2. page \div n \in Nat /\ page % n \in 0 .. n - 1 /\ page = n * (page \div n) + (page % n)
        BY <1>2, <3>1, DivisionFacts
      <3> QED
        BY <2>2, <3>2
    <2>8. q <= i
      <3>1. p \in Int /\ page \in Int /\ p <= page
        BY <1>2, <2>4, <2>6
      <3>2. (p \div n) <= (page \div n)
        BY <1>2, <3>1, DivisionFacts
      <3> QED
        BY <2>2, <3>2
    <2>9. i # q
      <3>1. CASE i = q
        <4>1. i \in indexes
          <5>1. p \in pages /\ p \div n = i
            BY <1>2, <1>3, <3>1
          <5> QED
            BY <5>1 DEF IndexesOf
        <4> QED
          BY <2>5, <4>1
      <3> QED
        BY <3>1
    <2>10. ~(q + 1 < i)
      <3> DEFINE o == q + 1
      <3>1. o \in Int /\ o = q + 1
        BY <2>1
      <3>2. n * o = n * q + n /\ n * q \in Int
        BY <1>2, <2>1
      <3>3. o < i => n * o + n <= n * i
        BY <1>2, <2>7, <3>1, Products
      <3>4. page <= p + n
        BY <1>2, <1>6, <1>7, <2>4
      <3>5. n * o \in Int /\ n * i \in Int
        BY <1>2, <2>7, <3>1
      <3> HIDE DEF o, q, r, s
      <3>6. o < i => FALSE
        BY <1>2, <2>1, <2>7, <3>2, <3>3, <3>4, <3>5
      <3> QED
        BY <3>1, <3>6
    <2> HIDE DEF q
    <2>11. i = q + 1
      BY <2>1, <2>7, <2>8, <2>9, <2>10
    <2> QED
      BY <2>11 DEF q
  <1>10. Cardinality(new) <= 1
    BY <1>9, AtMostOne
  <1>11. 0 .. PageOf(KernelEnd) \subseteq m.mirrored
    <2>1. PageOf(KernelEnd) \in Nat /\ PageOf(KernelEnd) <= p
      BY <1>2, PagesOfInts DEF p
    <2> QED
      BY <1>2, <1>3, <1>5, <2>1
  <1>12. Last(m).tables # {}
    BY <1>5, <1>8, LastFacts
  <1> QED
    BY <1>4, <1>5, <1>8, <1>10, <1>11, <1>12, LastMapping

\* With a section table: the sections lie in the address space and leave out no
\* page of the kernel.
SectionsFill(limit) ==
    /\ PAGE_SIZE > 1 /\ limit \in Nat
    /\ Section \subseteq [addr : Nat, size : Nat]
    /\ \A s \in Section : s.addr + s.size <= limit
    /\ \A page \in PageOf(KernelStart) .. PageOf(KernelEnd) :
          \E s \in Section : page \in PageOf(s.addr) .. PageOf(s.addr + s.size)

LEMMA RoundedFacts ==
    ASSUME NEW a \in Nat, PAGE_SIZE > 1
    PROVE  Rounded(a) \in Nat /\ PageOf(Rounded(a)) = PageOf(a)
  <1> DEFINE p == PageOf(a)
             r == a % 2
             n == PAGE_SIZE
  <1>1. n \in Nat \ {0} /\ n > 1 /\ p \in Nat
    BY BootMemoryConstants, InItsPage
  <1>2. r \in 0 .. n - 1
    <2>1. r \in 0 .. 1
      OBVIOUS
    <2> HIDE DEF r
    <2> QED
      BY <1>1, <2>1
  <1>3. Rounded(a) = p * n + r
    BY DEF Rounded
  <1> HIDE DEF p, r, n
  <1>4. Rounded(a) = n * p + r /\ Rounded(a) \in Nat
    BY <1>1, <1>2, <1>3
  <1>5. Rounded(a) \div n = p
    BY <1>1, <1>2, <1>4, DivisionOf
  <1> QED
    BY <1>4, <1>5 DEF PageOf, p, n

LEMMA SectionPagesFacts ==
    ASSUME NEW limit, SectionsFill(limit)
    PROVE  /\ PageOf(KernelStart) .. PageOf(KernelEnd) \subseteq SectionPages
           /\ IsFiniteSet(IndexesOf(SectionPages))
  <1> DEFINE low == PageOf(-PAGE_SIZE)
             high == PageOf(limit) + 1
             From(s) == Rounded(s.addr) - (IF s.addr % PAGE_SIZE # 0 THEN PAGE_SIZE ELSE 0)
             To(s) == Rounded(s.addr + s.size)
  <1>1. PAGE_SIZE \in Nat \ {0} /\ -PAGE_SIZE \in Int /\ low \in Int /\ high \in Int
    BY BootMemoryConstants, PagesOfInts DEF SectionsFill
  <1>2. ASSUME NEW s \in Section
        PROVE  /\ PageOf(s.addr) .. PageOf(s.addr + s.size) \subseteq PagesFrom(From(s), To(s))
               /\ PagesFrom(From(s), To(s)) \subseteq low .. high
    <2> DEFINE x == s.addr
               y == s.addr + s.size
    <2>1. x \in Nat /\ y \in Nat /\ y <= limit /\ limit \in Nat /\ PAGE_SIZE > 1
      BY DEF SectionsFill
    <2> DEFINE g == Rounded(x)
               f == From(s)
               t == To(s)
    <2>2. g \in Nat /\ PageOf(g) = PageOf(x) /\ t \in Nat /\ PageOf(t) = PageOf(y)
      BY <2>1, RoundedFacts
    <2>3. f = g \/ f = g - PAGE_SIZE
      BY <2>2
    <2> HIDE DEF f, g, t
    <2>4. f \in Int /\ f <= g /\ -PAGE_SIZE <= f /\ (f = 0 => t >= 0)
      BY <1>1, <2>2, <2>3
    <2>5. /\ PageOf(f) .. PageOf(t) \subseteq PagesFrom(f, t)
          /\ PagesFrom(f, t) \subseteq PageOf(f) .. PageOf(t) + 1
      BY <2>2, <2>4, PagesFromFacts
    <2> HIDE DEF x, y, low, high
    <2>6. /\ PageOf(f) \in Int /\ PageOf(x) \in Int /\ PageOf(y) \in Int /\ PageOf(limit) \in Int
          /\ PageOf(f) <= PageOf(x) /\ low <= PageOf(f) /\ PageOf(y) <= PageOf(limit)
      BY <1>1, <2>1, <2>2, <2>4, PagesOfInts DEF low
    <2>7. PageOf(y) + 1 <= high
      BY <2>6 DEF high
    <2> QED
      BY <1>1, <2>2, <2>5, <2>6, <2>7 DEF x, y, f, t
  <1>3. SectionPages = UNION {PagesFrom(From(s), To(s)) : s \in Section}
    BY DEF SectionPages
  <1> HIDE DEF low, high, From, To
  <1>4. PageOf(KernelStart) .. PageOf(KernelEnd) \subseteq SectionPages
    <2> SUFFICES ASSUME NEW page \in PageOf(KernelStart) .. PageOf(KernelEnd)
                 PROVE  page \in SectionPages
      OBVIOUS
    <2>1. PICK s \in Section : page \in PageOf(s.addr) .. PageOf(s.addr + s.size)
      BY DEF SectionsFill
    <2> QED
      BY <1>2, <1>3, <2>1
  <1>5. SectionPages \in SUBSET (low .. high)
    BY <1>2, <1>3
  <1> QED
    BY <1>1, <1>4, <1>5, IndexesFinite

LEMMA ReservedWithSections ==
    ASSUME NEW placementAddress \in Nat, KernelEnd <= placementAddress, NEW limit, SectionsFill(limit)
    PROVE  LET after == InitialMemory(placementAddress, TRUE)
           IN  /\ after.tables # {}
               /\ after.placementAddress <= 2 * PAGES_IN_TABLE * PAGE_SIZE =>
                     PageOf(0) .. PageOf(after.placementAddress - 1) \subseteq after.mirrored
  <1> DEFINE first == Prepared(placementAddress)
             a == first.placementAddress
             n == PAGES_IN_TABLE
             bottom == PagesFrom(0, KernelStart)
             second == Mapped(first, bottom)
             m == Mapped(second, SectionPages)
             new == NewTables(m)
             k == Cardinality(new)
             p == PageOf(m.placementAddress)
  <1>1. IsMemory(first) /\ placementAddress <= a /\ first.mirrored = {}
    BY PreparedFacts
  <1>2. n \in Nat \ {0} /\ PAGE_SIZE \in Nat \ {0} /\ KernelStart \in Nat /\ KernelEnd \in Nat
    BY BootMemoryConstants
  <1>3. /\ 0 .. PageOf(KernelStart) \subseteq bottom /\ IsFiniteSet(IndexesOf(bottom))
        /\ allocFramesMirrored(first, 0, KernelStart) = second
        /\ PageOf(KernelStart) \in Nat
    <2>1. PageOf(0) = 0
      <3>1. 0 = PAGE_SIZE * 0 + 0 /\ 0 \in 0 .. PAGE_SIZE - 1
        BY <1>2
      <3> QED
        BY <1>2, <3>1, DivisionOf DEF PageOf
    <2>2. (0 = 0 => KernelStart >= 0) /\ 0 \in Int /\ KernelStart \in Int
      BY <1>2
    <2> QED
      BY <1>2, <2>1, <2>2, PagesFromFacts, RangeMapped, InItsPage
  <1>4. InitialMemory(placementAddress, TRUE) = Last(m)
    <2>1. allocKernelSections(second) = m
      <3> HIDE DEF second
      <3> QED
        BY DEF allocKernelSections, Mapped, IndexesOf
    <2> QED
      BY <1>3, <2>1 DEF InitialMemory, KernelMapped, Last
  <1> HIDE DEF first, bottom, a
  <1>5. /\ IsMemory(second) /\ second.tables = first.tables \cup IndexesOf(bottom)
        /\ second.mirrored = first.mirrored \cup bottom /\ a <= second.placementAddress
    <2>1. /\ IsMemory(second) /\ second.tables = first.tables \cup IndexesOf(bottom)
          /\ second.mirrored = first.mirrored \cup bottom
          /\ second.placementAddress = MakeTables(first, IndexesOf(bottom)).placementAddress
      BY <1>1, <1>3, MappedFacts
    <2>2. first.placementAddress <= MakeTables(first, IndexesOf(bottom)).placementAddress
      BY <1>1, <1>3, TablesMove
    <2> HIDE DEF second
    <2> QED
      BY <2>1, <2>2 DEF a
  <1> HIDE DEF second
  <1>6. /\ IsMemory(m) /\ m.tables = second.tables \cup IndexesOf(SectionPages)
        /\ m.mirrored = second.mirrored \cup SectionPages
        /\ second.placementAddress <= m.placementAddress
    BY <1>5, SectionPagesFacts, MappedFacts, TablesMove
  <1>7. KernelEnd <= m.placementAddress
    <2>1. a \in Nat /\ second.placementAddress \in Nat /\ m.placementAddress \in Nat
      BY <1>1, <1>5, <1>6 DEF IsMemory, a
    <2> HIDE DEF m
    <2> QED
      BY <1>1, <1>2, <1>5, <1>6, <2>1
  <1> HIDE DEF m
  <1>8. /\ p \in Nat /\ PageOf(KernelEnd) \in Nat /\ IsFiniteSet(new) /\ k \in Nat
        /\ Last(m).tables # {} /\ Last(m).placementAddress \in Nat
        /\ PageOf(Last(m).placementAddress) = p + 2 * k
        /\ \A i \in new : \E page \in PageOf(KernelEnd) .. p + 2 : i = page \div n
    BY <1>6, <1>7, LastFacts
  <1>9. 0 .. PageOf(KernelEnd) \subseteq m.mirrored
    <2>1. PageOf(KernelStart) .. PageOf(KernelEnd) \subseteq SectionPages
      BY SectionPagesFacts
    <2>2. \A page \in 0 .. PageOf(KernelEnd) :
              page \in 0 .. PageOf(KernelStart) \/ page \in PageOf(KernelStart) .. PageOf(KernelEnd)
      BY <1>3, <1>8
    <2> QED
      BY <1>3, <1>5, <1>6, <2>1, <2>2
  <1>10. 0 \notin new
    <2>1. 0 \in bottom
      BY <1>3
    <2>2. 0 \div n = 0
      <3>1. 0 = n * 0 + 0 /\ 0 \in 0 .. n - 1
        BY <1>2
      <3> QED
        BY <1>2, <3>1, DivisionOf
    <2>3. 0 \in IndexesOf(bottom)
      BY <2>1, <2>2 DEF IndexesOf
    <2> QED
      BY <1>5, <1>6, <2>3 DEF NewTables
  <1>11. ASSUME k > 1
         PROVE  ~(Last(m).placementAddress <= 2 * PAGES_IN_TABLE * PAGE_SIZE)
    <2>1. PICK i \in new : i # 1
      <3>1. new \subseteq {1} => k <= 1
        <4> HIDE DEF new
        <4> QED
          BY AtMostOne
      <3>2. ~(new \subseteq {1})
        BY <1>8, <1>11, <3>1
      <3> QED
        BY <3>2
    <2>2. PICK page \in PageOf(KernelEnd) .. p + 2 : i = page \div n
      BY <1>8
    <2>3. page \in Nat /\ page <= p + 2
      BY <1>8
    <2> DEFINE r == page % n
    <2>4. i \in Nat /\ r \in 0 .. n - 1 /\ page = n * i + r
      <3>1. page \in Int /\ page >= 0
        BY <2>3
      <3>2. page \div n \in Nat /\ page % n \in 0 .. n - 1 /\ page = n * (page \div n) + (page % n)
        BY <1>2, <3>1, DivisionFacts
      <3> QED
        BY <2>2, <3>2
    <2>5. 2 * n <= page
      <3>1. 1 < i /\ 1 \in Int
        BY <1>10, <2>1, <2>4
      <3>2. n * 1 + n <= n * i
        BY <1>2, <2>4, <3>1, Products
      <3>3. n * i \in Int
        BY <1>2, <2>4
      <3> HIDE DEF r
      <3> QED
        BY <1>2, <2>3, <2>4, <3>2, <3>3
    <2> DEFINE b == Last(m).placementAddress
               top == 2 * PAGES_IN_TABLE * PAGE_SIZE
               q == 2 * n
    <2>6. PageOf(top) = q /\ top \in Int
      <3>1. q \in Nat /\ top = PAGE_SIZE * q + 0 /\ 0 \in 0 .. PAGE_SIZE - 1 /\ top \in Int
        BY <1>2
      <3> HIDE DEF q, top
      <3> QED
        BY <1>2, <3>1, DivisionOf DEF PageOf
    <2> HIDE DEF top
    <2>7. b <= top => PageOf(b) <= q
      BY <1>8, <2>6, PagesOfInts
    <2> HIDE DEF b, k, p, n
    <2>8. ~(p + 2 * k <= q)
      BY <1>2, <1>8, <1>11, <2>3, <2>5
    <2> QED
      BY <1>8, <2>7, <2>8 DEF b, top
  <1>12. k <= 1 => PageOf(0) .. PageOf(Last(m).placementAddress - 1) \subseteq Last(m).mirrored
    BY <1>6, <1>7, <1>9, LastMapping
  <1>13. k > 1 \/ k <= 1
    BY <1>8
  <1> QED
    BY <1>4, <1>8, <1>11, <1>12, <1>13

\* What initPaging leaves, wherever the modules end.
LEMMA PagingReserves ==
    ASSUME NEW address \in {KernelEnd} \cup ModuleEnd, NEW hasSections \in BOOLEAN
    PROVE  LET after == InitialMemory(address, hasSections)
           IN  /\ after.tables # {}
               /\ ~hasSections \/ after.placementAddress <= 2 * PAGES_IN_TABLE * PAGE_SIZE =>
                     PageOf(0) .. PageOf(after.placementAddress - 1) \subseteq after.mirrored
  <1>1. address \in Nat /\ KernelEnd <= address
    BY MemoryLayout, BootMemoryConstants
  <1>2. CASE ~hasSections
    <2>1. TablesFit(address)
      BY MemoryLayout DEF TablesFit
    <2>2. hasSections = FALSE
      BY <1>2
    <2> QED
      BY <1>1, <2>1, <2>2, ReservedWithoutSections
  <1>3. CASE hasSections
    <2>1. SectionsFill(AddressSpace)
      BY MemoryLayout, AddressSpaceAssumption DEF SectionsFill
    <2>2. hasSections = TRUE
      BY <1>3
    <2> QED
      BY <1>1, <2>1, <2>2, ReservedWithSections
  <1> QED
    BY <1>2, <1>3
-----------------------------------------------------------------------------
(* The order of the start. *)

\* Where the operations are that the order is about.
PagingAt == 6
HeapAt == 8
TaskingAt == 12
BuffersAt == 32
ShellAt == 43

\* What kernel_main has made when it is at this place: the tables, the heap,
\* the keyboard's queues.
MadeInv ==
    /\ pc \in 1 .. 46
    /\ idt <=> pc > 1
    /\ pc = 1 => stack = <<>> /\ sections > 0
    /\ pc > HeapAt => heap
    /\ pc > BuffersAt => buffers
    /\ IRQ1 \in interruptHandlers => pc > BuffersAt
    /\ PageFault \in interruptHandlers => pc > PagingAt

\* The memory before there is a heap.
MemoryInv ==
    /\ sectionTable \in BOOLEAN
    /\ pc <= PagingAt =>
          memory.tables = {} /\ memory.placementAddress \in {KernelEnd} \cup ModuleEnd
    /\ pc \in PagingAt + 1 .. HeapAt =>
          \E address \in {KernelEnd} \cup ModuleEnd : memory = InitialMemory(address, sectionTable)
    /\ pc > HeapAt => memory.tables = {}

\* Who is there: kernel_main's own task from initTasking on, programs only
\* after the shell was started, and the task that runs.
ProgramsInv ==
    /\ pc <= TaskingAt => started = {}
    /\ pc > TaskingAt => kernelTask \in started
    /\ pc <= ShellAt => started \subseteq {kernelTask}
    /\ currentTask = kernelTask \/ currentTask \in started
    /\ \A i \in DOMAIN stack : stack[i].int_no = SystemCall => pc > ShellAt

OrderInv == MadeInv /\ MemoryInv /\ ProgramsInv

\* A step of kernel_main that makes none of these.
LEMMA PassingStep ==
    ASSUME OrderInv, pc \in 1 .. 45, pc \notin {1, PagingAt, HeapAt, TaskingAt, BuffersAt},
           pc' \in pc .. 46,
           \A place \in {PagingAt, HeapAt, TaskingAt, BuffersAt} : pc < place => pc' <= place,
           UNCHANGED <<idt, sectionTable, memory, heap, buffers, stack, started, currentTask,
                       interruptHandlers>>
    PROVE  OrderInv'
  <1>1. MadeInv'
    BY DEF OrderInv, MadeInv, PagingAt, HeapAt, TaskingAt, BuffersAt
  <1>2. ProgramsInv'
    BY DEF OrderInv, ProgramsInv, PagingAt, HeapAt, TaskingAt, BuffersAt, ShellAt
  <1>3. MemoryInv'
    <2>1. /\ pc <= PagingAt <=> pc' <= PagingAt
          /\ pc > HeapAt <=> pc' > HeapAt
          /\ pc' \in PagingAt + 1 .. HeapAt => pc \in PagingAt + 1 .. HeapAt
      BY DEF PagingAt, HeapAt
    <2> QED
      BY <2>1 DEF OrderInv, MemoryInv
  <1> QED
    BY <1>1, <1>2, <1>3 DEF OrderInv

\* An operation that makes something is where it makes it.
LEMMA MakingPlaces ==
    ASSUME NEW name, AtOp(name),
           name \notin {"tables", "paging", "heap", "start", "buffers"}
    PROVE  pc \notin {1, PagingAt, HeapAt, TaskingAt, BuffersAt}
  BY ThePlaces DEF AtOp, Op, PagingAt, HeapAt, TaskingAt, BuffersAt

\* The steps of main and kernel_main.
LEMMA MainKeepsOrder ==
    ASSUME IInv, LoadInv, OrderInv, KernelMain
    PROVE  OrderInv'
  <1>1. pc \in 1 .. 46 /\ pc \in Nat
    BY DEF OrderInv, MadeInv
  <1>2. \A name : Does(name) => AtOp(name) /\ pc \in 1 .. 45 /\ stack = <<>> /\ currentTask = kernelTask
    BY <1>1, PlaceOf DEF Does, RunsMain, RunsKernel, AtOp
  <1> DEFINE Plain == {"disable", "enable", "load", "modules", "bios32", "farcall", "kmalloc", "ports", "commands",
                       "rsdp", "rsdt", "sdt", "module", "message"}
             Making == {"tables", "paging", "heap", "start", "buffers"}
  <1>3. ASSUME NEW name \in Plain, Does(name), pc' \in {pc, pc + 1},
               UNCHANGED <<idt, sectionTable, memory, heap, buffers, stack, started, currentTask,
                       interruptHandlers>>
        PROVE  OrderInv'
    <2>1. pc \in 1 .. 45 /\ pc \notin {1, PagingAt, HeapAt, TaskingAt, BuffersAt}
      BY <1>2, <1>3, MakingPlaces
    <2>2. pc' \in pc .. 46
      BY <1>3, <2>1
    <2>3. \A place \in {PagingAt, HeapAt, TaskingAt, BuffersAt} : pc < place => pc' <= place
      BY <1>3, <2>1 DEF PagingAt, HeapAt, TaskingAt, BuffersAt
    <2> QED
      BY <1>3, <2>1, <2>2, <2>3, PassingStep
  <1>4. CASE MainDisable \/ MainEnable \/ MainLoad
    <2>1. \E name \in {"disable", "enable", "load"} : Does(name)
      BY <1>4 DEF MainDisable, MainEnable, MainLoad
    <2>2. /\ pc' = pc + 1
          /\ UNCHANGED <<idt, sectionTable, memory, heap, buffers, stack, started, currentTask,
                       interruptHandlers>>
      BY <1>4 DEF MainDisable, MainEnable, MainLoad, Goes, Disable, Enable, switchPageDir, stateVars, taskVars
    <2> QED
      BY <1>3, <2>1, <2>2
  <1>5. CASE FindBIOS32 \/ CallFirmware \/ FindRSDP \/ FindRSDT \/ FindTables \/ FindModule \/ PrintMessage
             \/ \E name \in {"kmalloc", "ports", "commands"} : UsesShared(name)
    <2>1. \E name \in Plain : Does(name)
      BY <1>5 DEF FindBIOS32, CallFirmware, FindRSDP, FindRSDT, FindTables, FindModule, PrintMessage, UsesShared
    <2>2. pc' \in {pc, pc + 1}
      BY <1>5 DEF FindBIOS32, CallFirmware, FindRSDP, FindRSDT, FindTables, FindModule, PrintMessage, UsesShared, Gives
    <2>3. UNCHANGED <<idt, sectionTable, memory, heap, buffers, interruptVars>>
      BY <1>5 DEF FindBIOS32, CallFirmware, FindRSDP, FindRSDT, FindTables, FindModule, PrintMessage, UsesShared, Gives,
                  stateVars
    <2> QED
      BY <1>3, <2>1, <2>2, <2>3 DEF interruptVars, taskVars
  <1>6. CASE Unless
    <2>1. /\ AtOp("unless") /\ pc \in 1 .. 45
          /\ pc' = pc + 1 \/ pc' = pc + 1 + Arg
          /\ UNCHANGED <<idt, sectionTable, memory, heap, buffers, interruptVars>>
      BY <1>2, <1>6 DEF Unless, stateVars
    <2>2. pc \notin {1, PagingAt, HeapAt, TaskingAt, BuffersAt}
      BY <2>1, MakingPlaces
    <2>3. pc' \in pc .. 46
          /\ \A place \in {PagingAt, HeapAt, TaskingAt, BuffersAt} : pc < place => pc' <= place
      BY <1>1, <2>1, PlaceOf DEF PagingAt, HeapAt, TaskingAt, BuffersAt
    <2> QED
      BY <2>1, <2>2, <2>3, PassingStep DEF interruptVars, taskVars
  <1>7. CASE MainRegister
    <2>1. /\ AtOp("register") /\ pc \in 1 .. 45 /\ pc' = pc + 1
          /\ interruptHandlers' = interruptHandlers \cup {Arg}
          /\ UNCHANGED <<idt, sectionTable, memory, heap, buffers, stack, started, currentTask>>
      BY <1>2, <1>7 DEF MainRegister, registerInterruptHandler, Goes, stateVars, taskVars
    <2>2. /\ pc \in {3, 5, 7, 9, 33}
          /\ Arg = IRQ1 => pc = 33
          /\ Arg = PageFault => pc = 7
      BY <1>1, <2>1, PlaceOf DEF IRQ0, IRQ1, PageFault, GeneralProtection, SystemCall
    <2>3. MadeInv'
      BY <2>1, <2>2 DEF OrderInv, MadeInv, PagingAt, HeapAt, BuffersAt
    <2>4. ProgramsInv'
      BY <2>1, <2>2 DEF OrderInv, ProgramsInv, TaskingAt, ShellAt
    <2>5. MemoryInv'
      BY <2>1, <2>2 DEF OrderInv, MemoryInv, PagingAt, HeapAt
    <2> QED
      BY <2>3, <2>4, <2>5 DEF OrderInv
  <1>8. CASE MainStart
    <2>1. PICK t \in Task : (Arg = 0 => t = kernelTask) /\ Start(t)
      BY <1>8, InterruptConstants DEF MainStart, LoadInv
    <2>2. /\ AtOp("start") /\ pc \in 1 .. 45 /\ pc' = pc + 1
          /\ started' = started \cup {t}
          /\ UNCHANGED <<idt, sectionTable, memory, heap, buffers, stack, currentTask, interruptHandlers>>
      BY <1>2, <1>8, <2>1 DEF MainStart, Start, Goes, stateVars
    <2>3. (pc = TaskingAt /\ t = kernelTask) \/ pc = ShellAt
      BY <1>1, <2>1, <2>2, PlaceOf DEF TaskingAt, ShellAt
    <2>4. MadeInv'
      BY <2>2, <2>3 DEF OrderInv, MadeInv, PagingAt, HeapAt, BuffersAt, TaskingAt, ShellAt
    <2>5. ProgramsInv'
      BY <2>2, <2>3 DEF OrderInv, ProgramsInv, TaskingAt, ShellAt
    <2>6. MemoryInv'
      BY <2>2, <2>3 DEF OrderInv, MemoryInv, PagingAt, HeapAt, TaskingAt, ShellAt
    <2> QED
      BY <2>4, <2>5, <2>6 DEF OrderInv
  <1>9. CASE Tables \/ Modules \/ Paging \/ CreateHeap \/ MakeBuffers
    <2>1. /\ pc' = pc + 1 /\ pc \in 1 .. 45
          /\ UNCHANGED interruptVars
          /\ \/ AtOp("tables") /\ idt' = TRUE /\ UNCHANGED <<sectionTable, memory, heap, buffers>>
             \/ AtOp("modules") /\ Modules /\ UNCHANGED <<idt, heap, buffers>>
             \/ AtOp("paging") /\ memory' = InitialMemory(memory.placementAddress, sectionTable)
                /\ UNCHANGED <<idt, sectionTable, heap, buffers>>
             \/ AtOp("heap") /\ heap' = TRUE /\ memory' = NoMemory /\ UNCHANGED <<idt, sectionTable, buffers>>
             \/ AtOp("buffers") /\ buffers' = TRUE /\ UNCHANGED <<idt, sectionTable, memory, heap>>
      BY <1>2, <1>9 DEF Tables, Modules, Paging, CreateHeap, MakeBuffers, Goes, Gives
    <2>2. \/ pc = 1 /\ idt' = TRUE /\ UNCHANGED <<sectionTable, memory, heap, buffers>>
          \/ pc = 4 /\ Modules /\ UNCHANGED <<idt, heap, buffers>>
          \/ pc = PagingAt /\ memory' = InitialMemory(memory.placementAddress, sectionTable)
             /\ UNCHANGED <<idt, sectionTable, heap, buffers>>
          \/ pc = HeapAt /\ heap' = TRUE /\ memory' = NoMemory /\ UNCHANGED <<idt, sectionTable, buffers>>
          \/ pc = BuffersAt /\ buffers' = TRUE /\ UNCHANGED <<idt, sectionTable, memory, heap>>
      BY <1>1, <2>1, PlaceOf DEF PagingAt, HeapAt, BuffersAt
    <2>3. UNCHANGED <<stack, started, currentTask, interruptHandlers>>
      BY <2>1 DEF interruptVars, taskVars
    <2>4. MadeInv'
      BY <2>1, <2>2, <2>3 DEF OrderInv, MadeInv, PagingAt, HeapAt, BuffersAt
    <2>5. ProgramsInv'
      BY <2>1, <2>2, <2>3 DEF OrderInv, ProgramsInv, PagingAt, HeapAt, BuffersAt, TaskingAt, ShellAt
    <2>6. MemoryInv'
      <3>1. Modules => /\ sectionTable' \in BOOLEAN /\ memory'.tables = {}
                       /\ memory'.placementAddress \in {KernelEnd} \cup ModuleEnd
        <4> SUFFICES ASSUME Modules
                     PROVE  /\ sectionTable' \in BOOLEAN /\ memory'.tables = {}
                            /\ memory'.placementAddress \in {KernelEnd} \cup ModuleEnd
          OBVIOUS
        <4>1. PICK list \in ModuleList, end \in ModuleEnd :
                  memory' = [NoMemory EXCEPT !.placementAddress =
                                 IF list = <<>> THEN NoMemory.placementAddress ELSE end]
          BY DEF Modules
        <4>2. memory' = [placementAddress |-> IF list = <<>> THEN KernelEnd ELSE end,
                         tables |-> {}, mirrored |-> {}]
          BY <4>1 DEF NoMemory
        <4> QED
          BY <4>2 DEF Modules
      <3>2. NoMemory.tables = {}
        BY DEF NoMemory
      <3> QED
        BY <2>1, <2>2, <3>1, <3>2 DEF OrderInv, MemoryInv, PagingAt, HeapAt, BuffersAt
    <2> QED
      BY <2>4, <2>5, <2>6 DEF OrderInv
  <1> QED
    BY <1>4, <1>5, <1>6, <1>7, <1>8, <1>9 DEF KernelMain

\* The steps of handlers, programs and panics: none comes before the tables,
\* and no program calls the system before there is one.
LEMMA OthersKeepOrder ==
    ASSUME IInv, OrderInv, Others \/ Prints_ \/ Stops
    PROVE  OrderInv'
  <1>1. UNCHANGED <<pc, idt, sectionTable, memory, heap, buffers>>
    BY DEF Others, Prints_, Stops, mainVars, stateVars
  <1>2. UNCHANGED interruptHandlers
    <2>1. Raise => UNCHANGED interruptHandlers
      BY DEF Raise, Interrupt, RaiseException, CallSystem, Enter
    <2>2. Return \/ HandlerSection \/ Prints_ => UNCHANGED interruptHandlers
      BY DEF Return, HandlerSection, Disable, Enable, Prints_, interruptVars
    <2>3. Tasks => UNCHANGED interruptHandlers
      BY DEF Tasks, Fork, Switch, Destroy
    <2>4. Stops => UNCHANGED interruptHandlers
      BY DEF Stops, kernel_panic, GPFHandler, PanicAgain, kernel_assert
    <2> QED
      BY <2>1, <2>2, <2>3, <2>4 DEF Others
  <1>3. /\ stack \in Seq(Frame) /\ Len(stack) \in Nat /\ (stack = <<>> <=> Len(stack) = 0)
        /\ DOMAIN stack = 1 .. Len(stack) /\ sections \in Nat
    BY StackFrames DEF IInv, InterruptTypeOK
  <1>4. \A n \in Vector : Enter(n) =>
            /\ UNCHANGED <<started, currentTask>>
            /\ n = SystemCall \/ \A i \in DOMAIN stack' : stack'[i].int_no = SystemCall =>
                                      i \in DOMAIN stack /\ stack[i].int_no = SystemCall
    BY <1>3 DEF Enter, taskVars
  <1>5. ProgramsInv'
    <2>1. ASSUME UNCHANGED <<started, currentTask>>,
                 \A i \in DOMAIN stack' : stack'[i].int_no = SystemCall =>
                     i \in DOMAIN stack /\ stack[i].int_no = SystemCall
          PROVE  ProgramsInv'
      BY <1>1, <2>1 DEF OrderInv, ProgramsInv
    <2>2. CASE Raise
      <3>1. CASE \E n \in Irq \cap Gates : Interrupt(n)
        BY <1>4, <2>1, <3>1, VectorsDiffer DEF Interrupt, Vector
      <3>2. CASE \E n \in Exception \cap Gates : RaiseException(n)
        BY <1>4, <2>1, <3>2, VectorsDiffer DEF RaiseException, Vector
      <3>3. CASE CallSystem
        <4>1. currentTask # kernelTask /\ UNCHANGED <<started, currentTask>>
          BY <3>3 DEF CallSystem, RunsKernel, Enter, taskVars
        <4>2. pc > ShellAt
          BY <4>1 DEF OrderInv, ProgramsInv, MadeInv, ShellAt
        <4> QED
          BY <1>1, <4>1, <4>2 DEF OrderInv, ProgramsInv, MadeInv
      <3> QED
        BY <2>2, <3>1, <3>2, <3>3 DEF Raise
    <2>3. CASE Return
      <3>1. stack' = SubSeq(stack, 1, Len(stack) - 1) /\ stack # <<>> /\ UNCHANGED <<started, currentTask>>
        BY <2>3 DEF Return
      <3>2. \A i \in DOMAIN stack' : i \in DOMAIN stack /\ stack'[i] = stack[i]
        BY <1>3, <3>1
      <3> QED
        BY <2>1, <3>1, <3>2
    <2>4. CASE HandlerSection \/ Prints_ \/ Stops
      <3>1. UNCHANGED <<stack, started, currentTask>>
        BY <2>4 DEF HandlerSection, Disable, Enable, Prints_, Stops, kernel_panic, GPFHandler, PanicAgain,
                    kernel_assert, taskVars, interruptVars
      <3> QED
        BY <2>1, <3>1
    <2>5. CASE Tasks
      <3>1. PICK t \in Task : Fork(t) \/ Switch(t) \/ Destroy(t)
        BY <2>5 DEF Tasks
      <3>2. CASE Fork(t)
        <4>1. Top.int_no = SystemCall /\ Len(stack) = 1 /\ started' = started \cup {t}
              /\ UNCHANGED <<stack, currentTask>>
          BY <3>2 DEF Fork
        <4>2. pc > ShellAt
          <5>1. Top = stack[1] /\ DOMAIN stack = 1 .. 1
            BY <1>3, <4>1, Zenon DEF Top
          <5>2. 1 \in DOMAIN stack /\ stack[1].int_no = SystemCall
            BY <4>1, <5>1
          <5> QED
            BY <5>2 DEF OrderInv, ProgramsInv
        <4>3. started' = started \cup {t} /\ UNCHANGED <<stack, currentTask>>
          BY <4>1
        <4> QED
          BY <1>1, <4>2, <4>3 DEF OrderInv, ProgramsInv, MadeInv, TaskingAt, ShellAt
      <3>3. CASE Switch(t)
        <4>1. t \in started /\ currentTask' = t /\ stack' = [stack EXCEPT ![1].regs = regs'[t]]
              /\ Len(stack) = 1 /\ UNCHANGED started
          BY <3>3 DEF Switch
        <4>2. stack[1] \in Frame
          BY <1>3, <4>1
        <4>3. \A i \in DOMAIN stack' : i \in DOMAIN stack /\ stack'[i].int_no = stack[i].int_no
          BY <1>3, <4>1, <4>2 DEF Frame
        <4> QED
          BY <1>1, <4>1, <4>3 DEF OrderInv, ProgramsInv, MadeInv
      <3>4. CASE Destroy(t)
        <4>1. t \in started \ {kernelTask, currentTask} /\ started' = started \ {t}
              /\ UNCHANGED <<stack, currentTask>>
          BY <3>4 DEF Destroy
        <4> QED
          BY <1>1, <4>1 DEF OrderInv, ProgramsInv, MadeInv
      <3> QED
        BY <3>1, <3>2, <3>3, <3>4
    <2> QED
      BY <2>2, <2>3, <2>4, <2>5 DEF Others
  <1>6. ASSUME pc = 1
        PROVE  stack' = <<>> /\ sections' > 0
    <2>1. /\ stack = <<>> /\ sections > 0 /\ Gates = {} /\ currentTask = kernelTask
          /\ Len(stack) = 0
      BY <1>3, <1>6 DEF OrderInv, MadeInv, ProgramsInv, Gates, GatesOf, TaskingAt
    <2>2. ~Raise
      BY <2>1 DEF Raise, CallSystem, RunsKernel
    <2>3. ~(Return \/ HandlerSection \/ Tasks)
      BY <2>1 DEF Return, HandlerSection, Tasks, Fork, Switch, Destroy
    <2>4. Prints_ => UNCHANGED <<stack, sections>>
      BY DEF Prints_, interruptVars, maskVars
    <2>5. Stops => UNCHANGED stack /\ sections' \in {sections, sections + 1}
      BY DEF Stops, kernel_panic, GPFHandler, PanicAgain, kernel_assert, OpenSection, maskVars
    <2> QED
      BY <1>3, <2>1, <2>2, <2>3, <2>4, <2>5 DEF Others
  <1>7. MadeInv'
    BY <1>1, <1>2, <1>6 DEF OrderInv, MadeInv
  <1>8. MemoryInv'
    BY <1>1 DEF OrderInv, MemoryInv
  <1> QED
    BY <1>5, <1>7, <1>8 DEF OrderInv

LEMMA OrderHolds == ASSUME VectorsOccur PROVE BootSpec => [](IInv /\ LoadInv /\ OrderInv)
  <1>1. BootInit => OrderInv
    <2>1. NoMemory.tables = {} /\ NoMemory.placementAddress = KernelEnd
      BY DEF NoMemory
    <2>2. BootInit => MadeInv
      BY DEF BootInit, InterruptInit, MadeInv, PagingAt, HeapAt, BuffersAt
    <2>3. BootInit => MemoryInv
      <3> SUFFICES ASSUME BootInit PROVE MemoryInv
        OBVIOUS
      <3>1. pc = 1 /\ sectionTable \in BOOLEAN /\ memory = NoMemory
        BY DEF BootInit
      <3>2. memory.tables = {} /\ memory.placementAddress = KernelEnd
        BY <2>1, <3>1
      <3>3. pc \notin PagingAt + 1 .. HeapAt /\ ~(pc > HeapAt)
        BY <3>1 DEF PagingAt, HeapAt
      <3> QED
        BY <3>1, <3>2, <3>3 DEF MemoryInv
    <2>4. BootInit => ProgramsInv
      BY DEF BootInit, InterruptInit, ProgramsInv, TaskingAt, ShellAt
    <2> QED
      BY <2>2, <2>3, <2>4 DEF OrderInv
  <1>2. IInv /\ LoadInv /\ OrderInv /\ [BootNext]_bootVars => OrderInv'
    <2>1. IInv /\ LoadInv /\ OrderInv /\ BootNext => OrderInv'
      BY MainKeepsOrder, OthersKeepOrder DEF BootNext
    <2>2. OrderInv /\ UNCHANGED bootVars => OrderInv'
      BY DEF OrderInv, MadeInv, MemoryInv, ProgramsInv, bootVars, interruptVars, maskVars, taskVars, mainVars, stateVars
    <2> QED
      BY <2>1, <2>2
  <1> QED
    BY <1>1, <1>2, DirectoryIsLoaded, PTL DEF BootSpec

\* From initPaging on there is a directory with tables, and then a heap.
LEMMA DirectoryOrHeap ==
    ASSUME OrderInv, pc > PagingAt
    PROVE  memory.tables # {} \/ heap
  <1>1. CASE pc > HeapAt
    BY <1>1 DEF OrderInv, MadeInv
  <1>2. CASE pc \in PagingAt + 1 .. HeapAt
    BY <1>2, PagingReserves DEF OrderInv, MemoryInv
  <1> QED
    BY <1>1, <1>2 DEF OrderInv, MadeInv, PagingAt, HeapAt

\* Nothing comes before what it needs: for any interrupts, exceptions, modules
\* and firmware, an interrupt finds its gate and a handler the state it uses
\* (kernel.c lines 17-81).
THEOREM HandlersAreServed == ASSUME VectorsOccur PROVE BootSpec => []HandlersFindTheirState
  <1>1. IInv /\ OrderInv => HandlersFindTheirState
    <2> SUFFICES ASSUME IInv, OrderInv PROVE HandlersFindTheirState
      OBVIOUS
    <2>1. enabled => Irq \cup {SystemCall} \subseteq Gates
      <3>1. enabled => pc > 1
        BY DEF IInv, EnabledOutside, OrderInv, MadeInv
      <3> QED
        BY <3>1, InterruptConstants DEF OrderInv, MadeInv, Gates, GatesOf
    <2>2. ASSUME NEW i \in DOMAIN stack, stack[i].int_no \in interruptHandlers
          PROVE  CASE stack[i].int_no = IRQ1       -> buffers
                   [] stack[i].int_no = PageFault  -> memory.tables # {} \/ heap
                   [] stack[i].int_no = SystemCall -> heap /\ currentTask \in started
                   [] OTHER -> TRUE
      <3>1. stack[i].int_no = IRQ1 => buffers
        BY <2>2 DEF OrderInv, MadeInv
      <3>2. stack[i].int_no = PageFault => memory.tables # {} \/ heap
        BY <2>2, DirectoryOrHeap DEF OrderInv, MadeInv, PagingAt, HeapAt
      <3>3. stack[i].int_no = SystemCall => heap /\ currentTask \in started
        BY <2>2 DEF OrderInv, MadeInv, ProgramsInv, HeapAt, TaskingAt, ShellAt
      <3> QED
        BY <3>1, <3>2, <3>3 DEF IRQ1, PageFault, SystemCall
    <2> QED
      BY <2>1, <2>2 DEF HandlersFindTheirState
  <1> QED
    BY <1>1, OrderHolds, PTL

\* No program is in a system call while kernel_main uses the heap, the PCI ports
\* or the keyboard's queues without a lock (kernel.c lines 30-79).
THEOREM ProgramsAreLater == ASSUME VectorsOccur PROVE BootSpec => []ProgramsComeLater
  <1>1. OrderInv => ProgramsComeLater
    <2>1. OrderInv => pc \in Nat
      BY DEF OrderInv, MadeInv
    <2>2. pc \in Nat => (AtOp("kmalloc") \/ AtOp("ports") \/ AtOp("buffers") \/ AtOp("commands") => pc <= 38)
      BY PlaceOf
    <2> QED
      BY <2>1, <2>2 DEF OrderInv, ProgramsInv, ProgramsComeLater, ShellAt
  <1> QED
    BY <1>1, OrderHolds, PTL

\* When the paging is switched on, all memory up to the first free address is
\* mapped and its frames are counted as used, the tables that the last mapping
\* itself took included, if the kernel has no section table or the modules end
\* below twice what a table maps (paging.c lines 175-220).
THEOREM BootMemoryIsMapped == ASSUME VectorsOccur PROVE BootSpec => []BootMemoryIsReserved
  <1>1. OrderInv => BootMemoryIsReserved
    <2> SUFFICES ASSUME OrderInv PROVE BootMemoryIsReserved
      OBVIOUS
    <2>1. memory.tables # {} => pc \in PagingAt + 1 .. HeapAt
      BY DEF OrderInv, MadeInv, MemoryInv, PagingAt, HeapAt
    <2> QED
      BY <2>1, PagingReserves DEF OrderInv, MemoryInv, BootMemoryIsReserved
  <1> QED
    BY <1>1, OrderHolds, PTL
-----------------------------------------------------------------------------
(* What is looked for. *)

LEMMA LeastNatural ==
    ASSUME NEW S \in SUBSET Nat, S # {}
    PROVE  \E n \in S : \A m \in S : n <= m
  <1> DEFINE Less == {pair \in Nat \X Nat : pair[1] < pair[2]}
  <1>1. Less = OpToRel(<, Nat)
    BY DEF OpToRel
  <1>2. IsWellFoundedOn(Less, Nat)
    BY <1>1, NatLessThanWellFounded, Zenon
  <1>3. \A x, y \in Nat : x < y <=> <<x, y>> \in Less
    OBVIOUS
  <1> HIDE DEF Less
  <1>4. PICK n \in S : \A m \in S : <<m, n>> \notin Less
    BY <1>2, WFMin
  <1>5. \A m \in S : ~(m < n)
    BY <1>3, <1>4
  <1> QED
    BY <1>5

LEMMA LeastIsMember ==
    ASSUME NEW S \in SUBSET Nat, S # {}
    PROVE  /\ FirmwareSequences!Min(S) \in S /\ ElfSequences!Min(S) \in S
           /\ \A m \in S : FirmwareSequences!Min(S) <= m
  BY LeastNatural DEF FirmwareSequences!Min, ElfSequences!Min

\* A root pointer of ACPI is one that the memory holds.
LEMMA RootPointerIsThere ==
    ASSUME NEW area
    PROVE  LET rsdp == findRSDP(area)
           IN  rsdp = Nothing \/ \E i \in 1 .. Len(area) : rsdp = area[i] /\ rsdp.signature = RSDP_SIGNATURE
  <1> DEFINE places == {i \in 1 .. Len(area) : area[i].signature = RSDP_SIGNATURE}
  <1>1. FirmwareSequences!SelectInSeq(area, LAMBDA s : s.signature = RSDP_SIGNATURE) =
            IF places # {} THEN FirmwareSequences!Min(places) ELSE 0
    BY DEF FirmwareSequences!SelectInSeq
  <1>2. places # {} => FirmwareSequences!Min(places) \in places
    <2>1. places \in SUBSET Nat
      OBVIOUS
    <2> HIDE DEF places
    <2> QED
      BY <2>1, LeastIsMember
  <1>3. FirstSigned(area, RSDP_SIGNATURE) = Nothing
            \/ \E i \in places : FirstSigned(area, RSDP_SIGNATURE) = area[i]
    BY <1>1, <1>2 DEF FirstSigned
  <1> QED
    BY <1>3 DEF findRSDP

Listed == [signature : STRING, sum : Nat]

HasTables(rsdt) == rsdt.entries \in Seq(Listed) /\ rsdt.behind \in Seq(Listed)

\* The places of the right tables in the list.
ValidIn(rsdt) == {i \in DOMAIN rsdt.entries : /\ rsdt.entries[i].signature = "FACP"
                                              /\ rsdt.entries[i].sum = 0}

\* What the search finds is never a damaged table, and the first right one of
\* the list if it has one.
LEMMA TableIsFound ==
    ASSUME NEW rsdt, HasTables(rsdt)
    PROVE  /\ findInSDT("FACP", rsdt) # Nothing =>
                 findInSDT("FACP", rsdt).signature = "FACP" /\ findInSDT("FACP", rsdt).sum = 0
           /\ ValidIn(rsdt) # {} =>
                 \E i \in ValidIn(rsdt) : /\ findInSDT("FACP", rsdt) = rsdt.entries[i]
                                         /\ \A j \in ValidIn(rsdt) : i <= j
  <1> DEFINE all == Visited(rsdt)
             e == rsdt.entries
             b == rsdt.behind
             places == {i \in 1 .. Len(all) : Matches(all[i], "FACP")}
  <1>1. e \in Seq(Listed) /\ b \in Seq(Listed) /\ all = e \o b
    BY DEF HasTables, Visited
  <1> HIDE DEF all, e, b
  <1>2. /\ all \in Seq(Listed) /\ Len(all) = Len(e) + Len(b)
        /\ Len(e) \in Nat /\ Len(b) \in Nat
        /\ \A i \in 1 .. Len(e) : all[i] = e[i]
        /\ DOMAIN e = 1 .. Len(e)
    BY <1>1
  <1>3. \A i \in places : /\ i \in Nat /\ all[i].signature = "FACP" /\ all[i].sum = 0
                          /\ i \in 1 .. Len(e) => i \in ValidIn(rsdt)
    <2> SUFFICES ASSUME NEW i \in places
                 PROVE  /\ i \in Nat /\ all[i].signature = "FACP" /\ all[i].sum = 0
                        /\ i \in 1 .. Len(e) => i \in ValidIn(rsdt)
      OBVIOUS
    <2>1. i \in Nat /\ all[i].signature = "FACP" /\ all[i].sum = 0
      BY DEF Matches, doChecksum
    <2>2. i \in 1 .. Len(e) => i \in DOMAIN e /\ e[i] = all[i]
      BY <1>2
    <2> QED
      BY <2>1, <2>2 DEF ValidIn, e
  <1>4. \A i \in ValidIn(rsdt) : i \in places /\ i \in 1 .. Len(e)
    <2> SUFFICES ASSUME NEW i \in ValidIn(rsdt) PROVE i \in places /\ i \in 1 .. Len(e)
      OBVIOUS
    <2>1. i \in DOMAIN e /\ e[i].signature = "FACP" /\ e[i].sum = 0
      BY DEF ValidIn, e
    <2>2. i \in 1 .. Len(all) /\ i \in 1 .. Len(e) /\ all[i] = e[i]
      BY <1>2, <2>1
    <2> QED
      BY <2>1, <2>2 DEF Matches, doChecksum
  <1>5. findInSDT("FACP", rsdt) = IF places # {} THEN all[FirmwareSequences!Min(places)] ELSE Nothing
    <2>1. FirmwareSequences!SelectInSeq(all, LAMBDA table : Matches(table, "FACP")) =
              IF places # {} THEN FirmwareSequences!Min(places) ELSE 0
      BY DEF FirmwareSequences!SelectInSeq
    <2>2. places # {} => FirmwareSequences!Min(places) # 0
      <3>1. places \in SUBSET Nat /\ 0 \notin places
        OBVIOUS
      <3> HIDE DEF places
      <3> QED
        BY <3>1, LeastIsMember
    <2> HIDE DEF places
    <2> QED
      BY <2>1, <2>2 DEF findInSDT, all
  <1>6. places # {} => /\ FirmwareSequences!Min(places) \in places
                       /\ \A m \in places : FirmwareSequences!Min(places) <= m
    <2>1. places \in SUBSET Nat
      OBVIOUS
    <2> HIDE DEF places
    <2> QED
      BY <2>1, LeastIsMember
  <1> HIDE DEF places
  <1>7. findInSDT("FACP", rsdt) # Nothing =>
            findInSDT("FACP", rsdt).signature = "FACP" /\ findInSDT("FACP", rsdt).sum = 0
    BY <1>3, <1>5, <1>6
  <1>8. ASSUME ValidIn(rsdt) # {}
        PROVE  \E i \in ValidIn(rsdt) : /\ findInSDT("FACP", rsdt) = rsdt.entries[i]
                                        /\ \A j \in ValidIn(rsdt) : i <= j
    <2> DEFINE least == FirmwareSequences!Min(places)
    <2>1. least \in places /\ (\A m \in places : least <= m) /\ findInSDT("FACP", rsdt) = all[least]
      BY <1>4, <1>5, <1>6, <1>8
    <2> HIDE DEF least
    <2>2. PICK i \in ValidIn(rsdt) : TRUE
      BY <1>8
    <2>3. least <= i /\ i \in 1 .. Len(e)
      BY <1>4, <2>1, <2>2
    <2>4. least \in 1 .. Len(all)
      BY <2>1 DEF places
    <2>5. least \in 1 .. Len(e)
      BY <1>2, <2>3, <2>4
    <2>6. least \in ValidIn(rsdt) /\ all[least] = e[least]
      BY <1>2, <1>3, <2>1, <2>5
    <2>7. \A j \in ValidIn(rsdt) : least <= j
      BY <1>4, <2>1
    <2> QED
      BY <2>1, <2>6, <2>7 DEF e
  <1> QED
    BY <1>7, <1>8

\* What kernel_main has found of ACPI when it is at this place.
FoundInv ==
    /\ DOMAIN found = {"bios32", "rsdp", "rsdt", "fadt"}
    /\ pc \notin 28 .. 32 => found.rsdp = Nothing
    /\ pc \notin 30 .. 32 => found.rsdt = Nothing
    /\ found.rsdp # Nothing =>
          \E area \in ACPIArea : \E i \in 1 .. Len(area) :
              found.rsdp = area[i] /\ area[i].signature = RSDP_SIGNATURE
    /\ pc = 28 /\ ok => found.rsdp # Nothing
    /\ pc = 29 => found.rsdp # Nothing
    /\ pc = 30 => (ok <=> found.rsdt # Nothing)
    /\ found.rsdt # Nothing => HasTables(found.rsdt)
    /\ pc = 32 /\ found.rsdt # Nothing => found.fadt = findInSDT("FACP", found.rsdt)

LEMMA MainFinds ==
    ASSUME OrderInv, FoundInv, KernelMain
    PROVE  FoundInv'
  <1>1. pc \in 1 .. 46 /\ pc \in Nat
    BY DEF OrderInv, MadeInv
  <1>2. \A name : Does(name) => AtOp(name) /\ pc \in 1 .. 45
    BY <1>1, PlaceOf DEF Does, AtOp
  <1> DEFINE Plain == {"disable", "enable", "register", "load", "start", "tables", "modules", "paging", "heap",
                       "farcall", "kmalloc", "ports", "commands", "module", "message"}
  <1>3. ASSUME NEW name \in Plain, AtOp(name)
        PROVE  pc \notin 27 .. 32
    BY <1>1, <1>3, ThePlaces DEF AtOp, Op
  <1>4. ASSUME NEW name \in Plain, Does(name), pc' \in {pc, pc + 1}, UNCHANGED found
        PROVE  FoundInv'
    <2>1. pc \notin 27 .. 32 /\ pc' \notin 28 .. 32 /\ pc' \in Nat
      BY <1>1, <1>2, <1>3, <1>4
    <2> QED
      BY <1>4, <2>1 DEF FoundInv
  <1>5. CASE \/ MainDisable \/ MainEnable \/ MainRegister \/ MainLoad \/ MainStart
             \/ Tables \/ Modules \/ Paging \/ CreateHeap
    <2>1. \E name \in Plain : Does(name)
      BY <1>5 DEF MainDisable, MainEnable, MainRegister, MainLoad, MainStart, Tables, Modules,
                  Paging, CreateHeap
    <2>2. pc' = pc + 1 /\ UNCHANGED found
      BY <1>5 DEF MainDisable, MainEnable, MainRegister, MainLoad, MainStart, Tables, Modules,
                  Paging, CreateHeap, Goes, stateVars
    <2> QED
      BY <1>4, <2>1, <2>2
  <1>6. CASE \/ CallFirmware \/ FindModule \/ PrintMessage
             \/ \E name \in {"kmalloc", "ports", "commands"} : UsesShared(name)
    <2>1. \E name \in Plain : Does(name)
      BY <1>6 DEF CallFirmware, FindModule, PrintMessage, UsesShared
    <2>2. pc' \in {pc, pc + 1} /\ UNCHANGED found
      BY <1>6 DEF CallFirmware, FindModule, PrintMessage, UsesShared, Gives, stateVars
    <2> QED
      BY <1>4, <2>1, <2>2
  <1>7. CASE FindBIOS32
    <2>1. pc = 15 /\ pc' = pc + 1
      BY <1>1, <1>2, <1>7, PlaceOf DEF FindBIOS32, Gives
    <2>2. PICK area \in BIOS32Area : found' = [found EXCEPT !.bios32 = BIOS32Find(area)]
      BY <1>7 DEF FindBIOS32
    <2>3. DOMAIN found' = DOMAIN found /\ found'.rsdp = found.rsdp /\ found'.rsdt = found.rsdt
      BY <2>2
    <2>4. found'.rsdp = Nothing /\ found'.rsdt = Nothing /\ pc' = 16
      BY <2>1, <2>3 DEF FoundInv
    <2> QED
      BY <2>3, <2>4 DEF FoundInv
  <1>8. CASE Unless
    <2>1. AtOp("unless") /\ pc' = (IF ok THEN pc + 1 ELSE pc + 1 + Arg) /\ ok' = TRUE /\ UNCHANGED found
      BY <1>2, <1>8 DEF Unless, stateVars
    <2>2. \/ (pc = 16 /\ Arg = 10) \/ (pc = 20 /\ Arg = 6) \/ (pc = 24 /\ Arg = 2)
          \/ (pc = 28 /\ Arg = 3) \/ (pc = 30 /\ Arg = 1) \/ (pc = 36 /\ Arg = 8)
      BY <1>1, <2>1, PlaceOf
    <2>3. CASE pc = 28
      <3>1. Arg = 3 /\ found.rsdt = Nothing
        BY <2>2, <2>3 DEF FoundInv
      <3>2. (ok /\ pc' = 29 /\ found.rsdp # Nothing) \/ pc' = 32
        BY <2>1, <2>3, <3>1 DEF FoundInv
      <3> QED
        BY <2>1, <3>1, <3>2 DEF FoundInv
    <2>4. CASE pc = 30
      <3>1. Arg = 1
        BY <2>2, <2>4
      <3>2. pc' = 31 \/ (pc' = 32 /\ found.rsdt = Nothing)
        BY <2>1, <2>4, <3>1 DEF FoundInv
      <3> QED
        BY <2>1, <3>2 DEF FoundInv
    <2>5. CASE pc \notin {28, 30}
      <3>1. pc \notin 28 .. 32 /\ pc' \notin 28 .. 32
        BY <2>1, <2>2, <2>5
      <3> QED
        BY <2>1, <3>1 DEF FoundInv
    <2> QED
      BY <2>3, <2>4, <2>5
  <1>9. CASE FindRSDP
    <2>1. ok' = (found'.rsdp # Nothing) /\ pc' = pc + 1
      BY <1>9 DEF FindRSDP, Gives
    <2>2. pc = 27 /\ pc' = 28
      BY <1>1, <1>2, <1>9, <2>1, PlaceOf DEF FindRSDP
    <2>3. ok' => found'.rsdp # Nothing
      BY <2>1
    <2>4. PICK area \in ACPIArea : found' = [NotFound EXCEPT !.rsdp = findRSDP(area)]
      BY <1>9 DEF FindRSDP
    <2>5. found' = [bios32 |-> Nothing, rsdp |-> findRSDP(area), rsdt |-> Nothing, fadt |-> Nothing]
      BY <2>4 DEF NotFound
    <2>6. /\ DOMAIN found' = {"bios32", "rsdp", "rsdt", "fadt"}
          /\ found'.rsdp = findRSDP(area) /\ found'.rsdt = Nothing
      BY <2>5
    <2>7. found'.rsdp # Nothing => \E area2 \in ACPIArea : \E i \in 1 .. Len(area2) :
              found'.rsdp = area2[i] /\ area2[i].signature = RSDP_SIGNATURE
      <3>1. found'.rsdp # Nothing => \E i \in 1 .. Len(area) :
                found'.rsdp = area[i] /\ area[i].signature = RSDP_SIGNATURE
        BY <2>6, RootPointerIsThere
      <3> QED
        BY <3>1
    <2>8. pc' \in 28 .. 32 /\ pc' \notin 30 .. 32 /\ pc' # 29 /\ pc' # 30 /\ pc' # 32
      BY <2>2
    <2>9. pc' = 28 /\ ok' => found'.rsdp # Nothing
      BY <2>3
    <2> QED
      <3>1. (pc \notin 28 .. 32)' => (found.rsdp = Nothing)'
        BY <2>8
      <3>2. (pc \notin 30 .. 32)' => (found.rsdt = Nothing)'
        BY <2>6
      <3>3. (pc = 29)' => (found.rsdp # Nothing)'
        BY <2>8
      <3>4. (pc = 30)' => (ok <=> found.rsdt # Nothing)'
        BY <2>8
      <3>5. (found.rsdt # Nothing)' => HasTables(found.rsdt)'
        BY <2>6
      <3>6. (pc = 32 /\ found.rsdt # Nothing)' => (found.fadt = findInSDT("FACP", found.rsdt))'
        BY <2>8
      <3>7. (pc = 28 /\ ok)' => (found.rsdp # Nothing)'
        BY <2>9
      <3>8. (DOMAIN found = {"bios32", "rsdp", "rsdt", "fadt"})'
        BY <2>6
      <3>9. (found.rsdp # Nothing =>
               \E area2 \in ACPIArea : \E i \in 1 .. Len(area2) :
                   found.rsdp = area2[i] /\ area2[i].signature = RSDP_SIGNATURE)'
        BY <2>7
      <3> QED
        BY <3>1, <3>2, <3>3, <3>4, <3>5, <3>6, <3>7, <3>8, <3>9 DEF FoundInv
  <1>10. CASE FindRSDT
    <2> DEFINE rsdt == findRSDT(found.rsdp)
    <2>0. ok' = (found'.rsdt # Nothing) /\ pc' = pc + 1 /\ found' = [found EXCEPT !.rsdt = rsdt]
      BY <1>10 DEF FindRSDT, Gives
    <2>6. pc = 29 /\ pc' = 30
      BY <1>1, <1>2, <1>10, <2>0, PlaceOf DEF FindRSDT
    <2>1. pc = 29 /\ pc' = 30 /\ (ok' <=> found'.rsdt # Nothing) /\ found' = [found EXCEPT !.rsdt = rsdt]
      BY <2>0, <2>6
    <2>2. DOMAIN found' = DOMAIN found /\ found'.rsdp = found.rsdp /\ found'.rsdt = rsdt
      BY <2>1 DEF FoundInv
    <2>3. PICK area \in ACPIArea : \E i \in 1 .. Len(area) :
              found.rsdp = area[i] /\ area[i].signature = RSDP_SIGNATURE
      BY <2>1 DEF FoundInv
    <2>5. PICK i \in 1 .. Len(area) : found.rsdp = area[i] /\ area[i].signature = RSDP_SIGNATURE
      BY <2>3
    <2>4. rsdt # Nothing => HasTables(rsdt)
      <3>1. rsdt # Nothing => rsdt = area[i].rsdt /\ area[i].rsdt.signature = "RSDT"
        BY <2>5 DEF findRSDT
      <3>2. area[i].rsdt.signature = "RSDT" => HasTables(area[i].rsdt)
        BY <2>5, ACPITables DEF HasTables, Listed
      <3> QED
        BY <3>1, <3>2
    <2> HIDE DEF rsdt
    <2> QED
      BY <2>1, <2>2, <2>4 DEF FoundInv
  <1>11. CASE FindTables
    <2> DEFINE fadt == findInSDT("FACP", found.rsdt)
    <2>1. pc = 31 /\ pc' = 32 /\ found' = [found EXCEPT !.fadt = fadt]
      BY <1>1, <1>2, <1>11, PlaceOf DEF FindTables, Gives
    <2>2. /\ DOMAIN found' = DOMAIN found /\ found'.rsdp = found.rsdp /\ found'.rsdt = found.rsdt
          /\ found'.fadt = fadt
      BY <2>1 DEF FoundInv
    <2> QED
      BY <2>1, <2>2 DEF FoundInv
  <1>12. CASE MakeBuffers
    <2>1. pc = 32 /\ pc' = 33 /\ found' = NotFound
      BY <1>1, <1>2, <1>12, PlaceOf DEF MakeBuffers, Gives
    <2>2. /\ DOMAIN NotFound = {"bios32", "rsdp", "rsdt", "fadt"}
          /\ NotFound.rsdp = Nothing /\ NotFound.rsdt = Nothing
      BY DEF NotFound
    <2> QED
      BY <2>1, <2>2 DEF FoundInv
  <1> QED
    BY <1>5, <1>6, <1>7, <1>8, <1>9, <1>10, <1>11, <1>12 DEF KernelMain

LEMMA FoundHolds == ASSUME VectorsOccur PROVE BootSpec => [](OrderInv /\ FoundInv)
  <1>1. BootInit => FoundInv
    <2>1. /\ DOMAIN NotFound = {"bios32", "rsdp", "rsdt", "fadt"}
          /\ NotFound.rsdp = Nothing /\ NotFound.rsdt = Nothing
      BY DEF NotFound
    <2>2. BootInit => pc = 1 /\ found = NotFound
      BY DEF BootInit
    <2> QED
      BY <2>1, <2>2 DEF FoundInv
  <1>2. OrderInv /\ FoundInv /\ [BootNext]_bootVars => FoundInv'
    <2>1. Others \/ Prints_ \/ Stops \/ UNCHANGED bootVars => UNCHANGED <<pc, ok, found>>
      BY DEF Others, Prints_, Stops, bootVars, mainVars, stateVars
    <2>2. FoundInv /\ UNCHANGED <<pc, ok, found>> => FoundInv'
      BY DEF FoundInv
    <2> QED
      BY <2>1, <2>2, MainFinds DEF BootNext
  <1> QED
    BY <1>1, <1>2, OrderHolds, PTL DEF BootSpec

\* Whatever tables the root table lists, and whatever tables the words behind
\* its list lead to: the table that powers the machine off is the first right one
\* of the list, if it has one, and a damaged one is never used (acpi.c lines
\* 68-97).
THEOREM PowerTableIsFound == ASSUME VectorsOccur PROVE BootSpec => []TablesAreFound
  <1>1. OrderInv /\ FoundInv => TablesAreFound
    <2> SUFFICES ASSUME OrderInv, FoundInv, found.rsdt # Nothing, ~AtOp("unless"), ~AtOp("sdt")
                 PROVE  /\ found.fadt # Nothing =>
                              found.fadt.signature = "FACP" /\ found.fadt.sum = 0
                        /\ ValidIn(found.rsdt) # {} =>
                              \E i \in ValidIn(found.rsdt) : /\ found.fadt = found.rsdt.entries[i]
                                                            /\ \A j \in ValidIn(found.rsdt) : i <= j
      BY DEF TablesAreFound, ValidIn
    <2>1. pc \in 30 .. 32
      BY DEF FoundInv
    <2>2. AtOp("unless") <=> pc \in {16, 20, 24, 28, 30, 36}
      BY <2>1, ThePlaces DEF AtOp, Op
    <2>3. AtOp("sdt") <=> pc = 31
      BY <2>1, ThePlaces DEF AtOp, Op
    <2>4. pc = 32
      BY <2>1, <2>2, <2>3
    <2> QED
      <3>1. HasTables(found.rsdt) /\ found.fadt = findInSDT("FACP", found.rsdt)
        BY <2>4 DEF FoundInv
      <3> QED
        BY <3>1, TableIsFound
  <1> QED
    BY <1>1, FoundHolds, PTL

-----------------------------------------------------------------------------
(* The names in a stack trace. *)

\* A symbol above the address is further away than any below it.
LEMMA Distances ==
    ASSUME NEW a \in 0 .. AddressSpace - 1, NEW v \in 0 .. AddressSpace - 1
    PROVE  Distance(a, v) = IF v <= a THEN a - v ELSE a - v + AddressSpace
  <1> DEFINE n == AddressSpace
             k == a - v
  <1>1. n \in Nat \ {0}
    BY AddressSpaceAssumption
  <1>2. k \in -(n - 1) .. n - 1
    BY <1>1
  <1> HIDE DEF n, k
  <1>3. k \in 0 .. n - 1 => k % n = k
    BY <1>1
  <1>4. k \in -(n - 1) .. -1 => k % n = k + n
    BY <1>1
  <1>5. k % n = IF 0 <= k THEN k ELSE k + n
    BY <1>1, <1>2, <1>3, <1>4
  <1> QED
    BY <1>5 DEF n, k, Distance

\* The symbols of a table lie in the address space, and there are none without
\* sections.
IsTable(obj) == /\ obj.symbols \in Seq(Symbol)
                /\ \A i \in DOMAIN obj.symbols : obj.symbols[i].value < AddressSpace
                /\ obj.symbols # <<>> => obj.sections # <<>>
                /\ obj.start \in Nat /\ obj.end \in Nat

\* The nearest function is the last one that begins at or below the address, if
\* the address is in the range of the table and there is such a function; outside
\* the range there is none.
LEMMA NearestFunction ==
    ASSUME NEW obj, IsTable(obj), NEW address \in 0 .. AddressSpace - 1
    PROVE  LET nearest == ELFFindNearestSymbolByAddress(obj, "FUNC", address)
               below   == FunctionsBelow(obj, address)
           IN  /\ InRange(obj, address) /\ below # {} =>
                     /\ nearest # None /\ nearest.value \in below
                     /\ \A value \in below : value <= nearest.value
               /\ ~InRange(obj, address) => nearest = None
  <1> DEFINE syms == obj.symbols
             Far(i) == Distance(address, syms[i].value)
             Functions == {i \in DOMAIN syms : syms[i].type = "FUNC"}
             Nearest(symbol) ==
                 /\ symbol.type = "FUNC"
                 /\ \A i \in DOMAIN syms : syms[i].type = "FUNC" =>
                       ~Nearer(address, syms[i].value, symbol.value)
             places == {i \in 1 .. Len(syms) : Nearest(syms[i])}
             nearest == ELFFindNearestSymbolByAddress(obj, "FUNC", address)
             below == FunctionsBelow(obj, address)
  <1>1. /\ syms \in Seq(Symbol) /\ DOMAIN syms = 1 .. Len(syms) /\ Len(syms) \in Nat
        /\ \A i \in DOMAIN syms : syms[i] \in Symbol /\ syms[i].value \in 0 .. AddressSpace - 1
        /\ obj.start \in Nat /\ obj.end \in Nat
    <2>1. syms \in Seq(Symbol) /\ obj.start \in Nat /\ obj.end \in Nat
      BY DEF IsTable
    <2>2. \A i \in DOMAIN syms : syms[i].value < AddressSpace
      BY DEF IsTable
    <2> HIDE DEF syms
    <2>3. \A i \in DOMAIN syms : syms[i] \in Symbol /\ syms[i].value \in Nat
      <3>1. \A i \in DOMAIN syms : syms[i] \in Symbol
        BY <2>1
      <3> QED
        BY <3>1 DEF Symbol
    <2>4. DOMAIN syms = 1 .. Len(syms) /\ Len(syms) \in Nat
      BY <2>1
    <2>5. \A i \in DOMAIN syms : syms[i].value \in 0 .. AddressSpace - 1
      <3> SUFFICES ASSUME NEW i \in DOMAIN syms, NEW v, v = syms[i].value
                   PROVE  v \in 0 .. AddressSpace - 1
        BY Zenon
      <3>1. v \in Nat /\ v < AddressSpace
        BY <2>2, <2>3, Zenon
      <3> QED
        BY <3>1, AddressSpaceAssumption
    <2> QED
      BY <2>1, <2>3, <2>4, <2>5, Zenon
  <1>2. ~InRange(obj, address) => nearest = None
    <2>1. nearest = IF obj.sections = <<>> \/ address < obj.start \/ address > obj.end THEN None
                    ELSE Get(syms, ElfSequences!SelectInSeq(syms, Nearest))
      BY Zenon DEF ELFFindNearestSymbolByAddress
    <2>2. ~InRange(obj, address) => address < obj.start \/ address > obj.end
      BY <1>1 DEF InRange
    <2> HIDE DEF nearest
    <2> QED
      BY <2>1, <2>2
  <1>3. SUFFICES ASSUME InRange(obj, address), below # {}
                 PROVE  /\ nearest # None /\ nearest.value \in below
                        /\ \A value \in below : value <= nearest.value
    BY <1>2, Zenon
  <1>4. PICK j \in Functions : syms[j].value <= address
    BY <1>3 DEF FunctionsBelow
  <1>5. obj.start <= address /\ address <= obj.end /\ obj.sections # <<>>
    <2>1. syms # <<>>
      BY <1>1, <1>4
    <2> QED
      BY <1>3, <2>1 DEF InRange, IsTable
  <1>6. \A i \in Functions : Far(i) \in Nat
                  /\ Far(i) = IF syms[i].value <= address THEN address - syms[i].value
                              ELSE address - syms[i].value + AddressSpace
    <2> SUFFICES ASSUME NEW v \in 0 .. AddressSpace - 1
                 PROVE  /\ Distance(address, v) \in Nat
                        /\ Distance(address, v) = IF v <= address THEN address - v
                                                  ELSE address - v + AddressSpace
      BY <1>1, Zenon
    <2>1. Distance(address, v) = IF v <= address THEN address - v ELSE address - v + AddressSpace
      BY Distances, Zenon
    <2> QED
      BY <2>1, AddressSpaceAssumption
  <1>7. places # {}
    <2> DEFINE far == {Far(i) : i \in Functions}
    <2>1. far \in SUBSET Nat /\ far # {}
      BY <1>4, <1>6
    <2> HIDE DEF far
    <2>2. PICK d \in far : \A e \in far : d <= e
      BY <2>1, LeastNatural
    <2>3. PICK i \in Functions : d = Far(i)
      BY DEF far
    <2>4. \A k \in Functions : Far(i) <= Far(k)
      BY <2>2, <2>3 DEF far
    <2>5. \A k \in Functions : ~Nearer(address, syms[k].value, syms[i].value)
      BY <1>6, <2>4 DEF Nearer
    <2> QED
      BY <1>1, <2>5
  <1> DEFINE first == ElfSequences!Min(places)
  <1>8. first \in places
    <2>1. places \in SUBSET Nat
      BY <1>1
    <2> HIDE DEF places
    <2> QED
      BY <1>7, <2>1, LeastIsMember
  <1>9. nearest = syms[first]
    <2>1. ElfSequences!SelectInSeq(syms, Nearest) = IF places # {} THEN first ELSE 0
      BY DEF ElfSequences!SelectInSeq
    <2>2. ElfSequences!SelectInSeq(syms, Nearest) = first /\ first # 0
      BY <1>7, <1>8, <2>1
    <2>3. nearest = Get(syms, ElfSequences!SelectInSeq(syms, Nearest))
      BY <1>1, <1>5 DEF ELFFindNearestSymbolByAddress
    <2> QED
      BY <2>2, <2>3 DEF Get
  <1>10. first \in Functions /\ \A k \in Functions : Far(first) <= Far(k)
    <2>1. first \in Functions /\ \A k \in Functions : ~Nearer(address, syms[k].value, syms[first].value)
      <3> HIDE DEF first
      <3> QED
        BY <1>1, <1>8
    <2> HIDE DEF first
    <2> QED
      <3> SUFFICES ASSUME NEW k \in Functions PROVE Far(first) <= Far(k)
        BY <2>1
      <3>1. ~(Far(k) < Far(first))
        BY <2>1, Zenon DEF Nearer
      <3>2. Far(k) \in Nat /\ Far(first) \in Nat
        BY <1>6, <2>1
      <3> DEFINE a == Far(k)
                 b == Far(first)
      <3>3. a \in Nat /\ b \in Nat /\ ~(a < b)
        BY <3>1, <3>2, Zenon
      <3> HIDE DEF a, b
      <3>4. b <= a
        BY <3>3
      <3> QED
        BY <3>4, Zenon DEF a, b
  <1>11. /\ syms[first].value <= address
         /\ \A k \in Functions : syms[k].value <= address => syms[k].value <= syms[first].value
    <2>1. \A i \in Functions : syms[i].value \in 0 .. AddressSpace - 1
      BY <1>1
    <2> HIDE DEF first, Far, syms, Functions
    <2>2. first \in Functions /\ j \in Functions
      BY <1>4, <1>10
    <2>3. syms[first].value <= address
      <3>1. Far(first) <= Far(j)
        BY <1>10, <2>2
      <3>2. Far(j) = address - syms[j].value
        BY <1>4, <1>6, <2>2
      <3>3. syms[first].value > address => Far(first) = address - syms[first].value + AddressSpace
        <4>1. syms[first].value \in Int
          BY <2>1, <2>2
        <4> QED
          BY <1>6, <2>2, <4>1
      <3>4. /\ syms[first].value \in Nat /\ syms[first].value < AddressSpace
            /\ syms[j].value \in Nat
        BY <2>1, <2>2, AddressSpaceAssumption
      <3> QED
        BY <3>1, <3>2, <3>3, <3>4, AddressSpaceAssumption
    <2>4. ASSUME NEW k \in Functions, syms[k].value <= address
          PROVE  syms[k].value <= syms[first].value
      <3>1. Far(first) <= Far(k)
        BY <1>10
      <3>2. Far(first) = address - syms[first].value /\ Far(k) = address - syms[k].value
        BY <1>6, <2>2, <2>3, <2>4
      <3>3. syms[first].value \in Int /\ syms[k].value \in Int
        BY <2>1, <2>2
      <3> QED
        BY <3>1, <3>2, <3>3
    <2> QED
      BY <2>3, <2>4
  <1>12. nearest # None
    <2>1. DOMAIN syms[first] = {"name", "type", "value"}
      BY <1>1, <1>10 DEF Symbol
    <2>2. DOMAIN None = {"name"}
      BY DEF None
    <2> QED
      BY <1>9, <2>1, <2>2
  <1>13. nearest.value \in below
    BY <1>5, <1>9, <1>10, <1>11 DEF FunctionsBelow
  <1>14. \A value \in below : value <= nearest.value
    BY <1>9, <1>10, <1>11 DEF FunctionsBelow
  <1> QED
    BY <1>12, <1>13, <1>14

LEMMA LabelValues ==
    ASSUME NEW obj, obj.symbols \in Seq(Symbol), NEW name
    PROVE  ValueOf(ELFLookupSymbolByName(obj, "NOTYPE", name)) \in Nat
  <1> DEFINE syms == obj.symbols
             Fits(symbol) == symbol.type = "NOTYPE" /\ symbol.name = name
             places == {i \in 1 .. Len(syms) : Fits(syms[i])}
             first == ElfSequences!Min(places)
             symbol == ELFLookupSymbolByName(obj, "NOTYPE", name)
  <1>1. symbol = IF obj.sections = <<>> THEN None ELSE Get(syms, ElfSequences!SelectInSeq(syms, Fits))
    BY Zenon DEF ELFLookupSymbolByName
  <1>2. ElfSequences!SelectInSeq(syms, Fits) = IF places # {} THEN first ELSE 0
    BY DEF ElfSequences!SelectInSeq
  <1>3. places # {} => first \in places
    <2>1. places \in SUBSET Nat
      OBVIOUS
    <2> HIDE DEF places
    <2> QED
      BY <2>1, LeastIsMember
  <1>4. symbol = None \/ \E i \in 1 .. Len(syms) : symbol = syms[i]
    <2> HIDE DEF symbol, first
    <2> QED
      BY <1>1, <1>2, <1>3 DEF Get
  <1>5. \A i \in 1 .. Len(syms) : syms[i] \in Symbol
    BY DEF syms
  <1>6. symbol = None \/ symbol \in Symbol
    BY <1>4, <1>5, Zenon
  <1>7. \A s : s = None \/ s \in Symbol => ValueOf(s) \in Nat
    BY DEF ValueOf, Symbol
  <1> QED
    BY <1>6, <1>7, Zenon

\* Sections and symbols make a table.
LEMMA ObjectIsTable ==
    ASSUME NEW secs, NEW syms \in Seq(Symbol), \A i \in DOMAIN syms : syms[i].value < AddressSpace,
           syms # <<>> => secs # <<>>
    PROVE  IsTable(Object(secs, syms))
  <1> DEFINE obj == [sections |-> secs, symbols |-> syms]
             code == ValueOf(ELFLookupSymbolByName(obj, "NOTYPE", "__code"))
             end == ValueOf(ELFLookupSymbolByName(obj, "NOTYPE", "__end"))
  <1>1. Object(secs, syms) = [sections |-> secs, symbols |-> syms, start |-> code, end |-> end]
    BY Zenon DEF Object
  <1>2. obj.symbols = syms
    OBVIOUS
  <1> HIDE DEF obj
  <1>3. code \in Nat /\ end \in Nat
    BY <1>2, LabelValues
  <1> HIDE DEF code, end
  <1> QED
    BY <1>1, <1>3 DEF IsTable

\* What a lookup finds was among the sections.
LEMMA NoSections ==
    ASSUME NEW file, file.sections = <<>>
    PROVE  ~HasSymbolTable(file) /\ getModuleName(file) = "NULL"
  <1> DEFINE OfType(section) == section.type = "SYMTAB"
             OfName(section) == section.name = ".module_info"
  <1>1. /\ ElfSequences!SelectInSeq(<<>>, OfType) = 0
        /\ ElfSequences!SelectInSeq(<<>>, OfName) = 0
    BY DEF ElfSequences!SelectInSeq
  <1>2. ELFLookupSectionByType(file, "SYMTAB") = Get(<<>>, ElfSequences!SelectInSeq(<<>>, OfType))
    BY Zenon DEF ELFLookupSectionByType
  <1>3. ELFLookupSectionByName(file, ".module_info") = Get(<<>>, ElfSequences!SelectInSeq(<<>>, OfName))
    BY Zenon DEF ELFLookupSectionByName
  <1>4. Get(<<>>, 0) = None
    BY DEF Get
  <1> QED
    BY <1>1, <1>2, <1>3, <1>4, Zenon DEF HasSymbolTable, getModuleName

\* A frame in the range of the kernel is named after the kernel's function, and
\* any other after the program's.
LEMMA FrameIsNamed ==
    ASSUME NEW kernel, IsTable(kernel), NEW program, IsTable(program),
           NEW address \in 0 .. AddressSpace - 1
    PROVE  LET name  == ValueOf(SymbolOfFrame(kernel, program, address))
               obj   == IF InRange(kernel, address) THEN kernel ELSE program
               below == FunctionsBelow(obj, address)
           IN  InRange(obj, address) /\ below # {} =>
                   name \in below /\ \A value \in below : value <= name
  <1> DEFINE inKernel == ELFFindNearestSymbolByAddress(kernel, "FUNC", address)
             inProgram == ELFFindNearestSymbolByAddress(program, "FUNC", address)
             ofKernel == FunctionsBelow(kernel, address)
             ofProgram == FunctionsBelow(program, address)
             name == ValueOf(SymbolOfFrame(kernel, program, address))
  <1>1. /\ InRange(kernel, address) /\ ofKernel # {} =>
              /\ inKernel # None /\ inKernel.value \in ofKernel
              /\ \A value \in ofKernel : value <= inKernel.value
        /\ ~InRange(kernel, address) => inKernel = None
    BY NearestFunction, Zenon
  <1>2. InRange(program, address) /\ ofProgram # {} =>
            /\ inProgram # None /\ inProgram.value \in ofProgram
            /\ \A value \in ofProgram : value <= inProgram.value
    BY NearestFunction, Zenon
  <1>3. name = IF inKernel # None THEN inKernel.value
               ELSE IF inProgram # None THEN inProgram.value ELSE 0
    BY DEF SymbolOfFrame, ValueOf
  <1> HIDE DEF inKernel, inProgram, ofKernel, ofProgram, name
  <1>4. CASE InRange(kernel, address)
    BY <1>1, <1>3, <1>4 DEF ofKernel, name
  <1>5. CASE ~InRange(kernel, address)
    BY <1>1, <1>2, <1>3, <1>5 DEF ofProgram, name
  <1> QED
    BY <1>4, <1>5

\* The kernel's symbols are a table, empty if GRUB does not give one.
LEMMA KernelIsTable ==
    ASSUME sectionTable \in BOOLEAN
    PROVE  IsTable(KernelTable)
  <1> DEFINE without == [KernelFile EXCEPT !.sections = <<>>]
             file == IF sectionTable THEN KernelFile ELSE without
             syms == IF HasSymbolTable(file) THEN file.symbols ELSE <<>>
  <1>1. KernelFile \in File /\ KernelFile.symbols \in Seq(Symbol)
    BY Files DEF File
  <1>2. without.symbols = KernelFile.symbols /\ without.sections = <<>>
    BY <1>1 DEF File
  <1> HIDE DEF without
  <1>3. file.symbols = KernelFile.symbols
    BY <1>2
  <1>4. KernelTable = initKernelTable(file)
    BY DEF KernelTable, KernelTables, without
  <1> HIDE DEF file
  <1>5. \A i \in DOMAIN KernelFile.symbols : KernelFile.symbols[i].value < AddressSpace
    BY Files
  <1>6. <<>> \in Seq(Symbol) /\ DOMAIN <<>> = {}
    OBVIOUS
  <1>7. syms \in Seq(Symbol) /\ \A i \in DOMAIN syms : syms[i].value < AddressSpace
    BY <1>1, <1>3, <1>5, <1>6
  <1>8. syms # <<>> => file.sections # <<>>
    BY NoSections
  <1>9. KernelTable = Object(file.sections, syms)
    BY <1>4 DEF initKernelTable
  <1> HIDE DEF syms
  <1> QED
    BY <1>7, <1>8, <1>9, ObjectIsTable

\* The shell's symbols are a table, even if they are not its own.
LEMMA ShellIsTable ==
    ASSUME __modules \in ModuleList, ShellIn(__modules) # 0
    PROVE  IsTable(ProgramTables[__modules])
  <1> DEFINE list == __modules
             files == [i \in DOMAIN list |-> ModuleFile[list[i]]]
             Fits(file) == ELF32CheckMagic(file) /\ getModuleName(file) = "shell"
             places == {i \in 1 .. Len(files) : Fits(files[i])}
             shell == ShellIn(list)
             file == ModuleFile[list[shell]]
             syms == IF HasSymbolTable(file) THEN file.symbols ELSE LowSymbols
  <1>1. list \in Seq(DOMAIN ModuleFile)
    BY Files
  <1>2. Len(files) = Len(list) /\ \A i \in 1 .. Len(list) : files[i] = ModuleFile[list[i]]
    BY <1>1
  <1>3. shell \in 1 .. Len(list) /\ Fits(files[shell])
    <2>1. shell = ElfSequences!SelectInSeq(files, Fits)
      BY Zenon DEF ShellIn, getModuleByName
    <2>2. ElfSequences!SelectInSeq(files, Fits) = IF places # {} THEN ElfSequences!Min(places) ELSE 0
      BY DEF ElfSequences!SelectInSeq
    <2>3. places # {} => ElfSequences!Min(places) \in places
      <3>1. places \in SUBSET Nat
        OBVIOUS
      <3> HIDE DEF places
      <3> QED
        BY <3>1, LeastIsMember
    <2>4. shell \in places
      <3> HIDE DEF shell, files, places
      <3> QED
        BY <2>1, <2>2, <2>3 DEF shell
    <2> HIDE DEF shell, files
    <2> QED
      BY <1>2, <2>4
  <1> HIDE DEF shell
  <1>4. files[shell] = file /\ list[shell] \in DOMAIN ModuleFile
    BY <1>1, <1>2, <1>3
  <1>5. getModuleName(file) = "shell"
    <2> HIDE DEF file, files
    <2> QED
      BY <1>3, <1>4
  <1>6. /\ file.symbols \in Seq(Symbol) /\ LowSymbols \in Seq(Symbol)
        /\ \A i \in DOMAIN file.symbols : file.symbols[i].value < AddressSpace
        /\ \A i \in DOMAIN LowSymbols : LowSymbols[i].value < AddressSpace
    BY <1>4, Files
  <1>7. ProgramTables[list] = ELFLoad(file)
    BY DEF ProgramTables, shell
  <1> HIDE DEF file, list
  <1>8. file.sections # <<>>
    BY <1>5, NoSections
  <1>9. syms \in Seq(Symbol) /\ \A i \in DOMAIN syms : syms[i].value < AddressSpace
    BY <1>6
  <1>10. ELFLoad(file) = Object(file.sections, syms)
    BY DEF ELFLoad
  <1> HIDE DEF syms
  <1>11. IsTable(ELFLoad(file))
    BY <1>8, <1>9, <1>10, ObjectIsTable
  <1> QED
    BY <1>7, <1>11 DEF list

\* There are programs, or there were.
Programs == \/ ~(started \subseteq {kernelTask})
            \/ currentTask # kernelTask
            \/ \E i \in DOMAIN stack : stack[i].int_no = SystemCall

\* The modules do not change once they are there, and programs come from the shell.
ShellInv ==
    /\ pc > 4 => __modules \in ModuleList
    /\ pc = 36 /\ ok => ShellIn(__modules) # 0
    /\ pc \in 37 .. 44 => ShellIn(__modules) # 0
    /\ Programs => ShellIn(__modules) # 0

\* What was traced when the system stopped is right.
TraceInv == traced = <<>> \/ (stopped # -1 /\ TraceNamesTheFunction)

LEMMA MainKeepsShell ==
    ASSUME IInv, LoadInv, OrderInv, ShellInv, KernelMain
    PROVE  ShellInv'
  <1>1. pc \in 1 .. 46 /\ pc \in Nat
    BY DEF OrderInv, MadeInv
  <1>2. \A name : Does(name) => AtOp(name) /\ pc \in 1 .. 45
    BY <1>1, PlaceOf DEF Does, AtOp
  <1>3. /\ stack' = stack /\ currentTask' = currentTask
        /\ \/ started' = started
           \/ started' = started \cup {kernelTask}
           \/ pc = 43
    <2>1. CASE MainStart
      <3>1. PICK t \in Task : (Arg = 0 => t = kernelTask) /\ Start(t)
        BY <2>1, InterruptConstants DEF MainStart, LoadInv
      <3>2. UNCHANGED <<stack, currentTask>> /\ started' = started \cup {t}
        BY <3>1 DEF Start
      <3>3. (pc = 12 /\ Arg = 0) \/ pc = 43
        BY <1>1, <1>2, <2>1, PlaceOf DEF MainStart
      <3> QED
        BY <3>1, <3>2, <3>3
    <2>2. CASE MainDisable \/ MainEnable \/ MainRegister \/ MainLoad
      BY <2>2 DEF MainDisable, MainEnable, MainRegister, MainLoad, Disable, Enable, registerInterruptHandler,
                  switchPageDir, taskVars
    <2>3. CASE ~(MainStart \/ MainDisable \/ MainEnable \/ MainRegister \/ MainLoad)
      <3>1. UNCHANGED interruptVars
        BY <2>3 DEF KernelMain, Unless, Tables, Modules, Paging, CreateHeap, FindBIOS32, CallFirmware, UsesShared,
                    FindRSDP, FindRSDT, FindTables, MakeBuffers, FindModule, PrintMessage, Gives
      <3> QED
        BY <3>1 DEF interruptVars, taskVars
    <2> QED
      BY <2>1, <2>2, <2>3
  <1>4. Programs' => Programs \/ pc = 43
    BY <1>3 DEF Programs
  <1>5. CASE Modules
    <2>1. pc = 4 /\ pc' = 5 /\ __modules' \in ModuleList
      BY <1>1, <1>2, <1>5, PlaceOf DEF Modules
    <2>2. ~Programs
      BY <2>1 DEF OrderInv, ProgramsInv, MadeInv, Programs, TaskingAt, ShellAt
    <2> QED
      BY <1>4, <2>1, <2>2 DEF ShellInv
  <1>6. CASE FindModule
    <2>1. ok' = (ShellIn(__modules) # 0) /\ pc' = pc + 1 /\ UNCHANGED __modules
      BY <1>6 DEF FindModule, Gives, stateVars
    <2>2. pc = 35 /\ pc' = 36
      BY <1>1, <1>2, <1>6, <2>1, PlaceOf DEF FindModule
    <2>3. ok' => ShellIn(__modules) # 0
      BY <2>1
    <2>4. __modules' \in ModuleList
      BY <2>1, <2>2 DEF ShellInv
    <2>5. Programs' => ShellIn(__modules) # 0
      BY <1>4, <2>2 DEF ShellInv
    <2> QED
      BY <2>1, <2>2, <2>3, <2>4, <2>5 DEF ShellInv
  <1>7. CASE Unless
    <2>1. AtOp("unless") /\ pc' = (IF ok THEN pc + 1 ELSE pc + 1 + Arg) /\ UNCHANGED __modules
      BY <1>2, <1>7 DEF Unless, stateVars
    <2>2. \/ (pc = 16 /\ Arg = 10) \/ (pc = 20 /\ Arg = 6) \/ (pc = 24 /\ Arg = 2)
          \/ (pc = 28 /\ Arg = 3) \/ (pc = 30 /\ Arg = 1) \/ (pc = 36 /\ Arg = 8)
      BY <1>1, <2>1, PlaceOf
    <2>3. \/ pc > 4 /\ pc' \in 5 .. 35
          \/ pc = 36 /\ ok /\ pc' = 37
          \/ pc = 36 /\ pc' = 45
      BY <2>1, <2>2
    <2>4. Programs' => ShellIn(__modules) # 0
      BY <1>4, <2>3 DEF ShellInv
    <2> QED
      BY <2>1, <2>3, <2>4 DEF ShellInv
  <1>8. CASE ~(Modules \/ FindModule \/ Unless)
    <2>0. \/ MainDisable \/ MainEnable \/ MainRegister \/ MainLoad \/ MainStart
          \/ Tables \/ Paging \/ CreateHeap
          \/ FindBIOS32 \/ CallFirmware \/ FindRSDP \/ FindRSDT \/ FindTables \/ MakeBuffers \/ PrintMessage
          \/ \E name \in {"kmalloc", "ports", "commands"} : UsesShared(name)
      BY <1>8 DEF KernelMain
    <2>1. UNCHANGED __modules /\ pc' \in {pc, pc + 1}
      <3>1. CASE MainDisable \/ MainEnable \/ MainRegister \/ MainLoad \/ MainStart
                 \/ Tables \/ Paging \/ CreateHeap
        BY <3>1 DEF MainDisable, MainEnable, MainRegister, MainLoad, MainStart, Tables, Paging, CreateHeap,
                    Goes, stateVars
      <3>2. CASE FindBIOS32 \/ CallFirmware \/ FindRSDP \/ FindRSDT \/ FindTables \/ MakeBuffers \/ PrintMessage
                 \/ \E name \in {"kmalloc", "ports", "commands"} : UsesShared(name)
        BY <3>2 DEF FindBIOS32, CallFirmware, FindRSDP, FindRSDT, FindTables, MakeBuffers, PrintMessage, UsesShared,
                    Gives, stateVars
      <3> QED
        BY <2>0, <3>1, <3>2
    <2>2. pc \notin {4, 35, 36}
      <3> DEFINE Names == {"disable", "enable", "register", "load", "start", "tables", "paging", "heap", "bios32",
                           "farcall", "kmalloc", "ports", "commands", "rsdp", "rsdt", "sdt", "buffers", "message"}
      <3>1. PICK name \in Names : Does(name)
        BY <2>0 DEF MainDisable, MainEnable, MainRegister, MainLoad, MainStart, Tables, Paging, CreateHeap,
                    FindBIOS32, CallFirmware, UsesShared, FindRSDP, FindRSDT, FindTables, MakeBuffers, PrintMessage
      <3>2. AtOp(name)
        BY <1>2, <3>1
      <3> QED
        BY <3>1, <3>2, ThePlaces DEF AtOp, Op
    <2>3. Programs' => ShellIn(__modules) # 0
      BY <1>4 DEF ShellInv
    <2> QED
      BY <1>1, <2>1, <2>2, <2>3 DEF ShellInv
  <1> QED
    BY <1>5, <1>6, <1>7, <1>8

LEMMA OthersKeepShell ==
    ASSUME IInv, OrderInv, ShellInv, Others \/ Prints_ \/ Stops
    PROVE  ShellInv'
  <1>1. UNCHANGED <<pc, ok, __modules>>
    BY DEF Others, Prints_, Stops, mainVars, stateVars
  <1>2. /\ stack \in Seq(Frame) /\ Len(stack) \in Nat /\ (stack = <<>> <=> Len(stack) = 0)
        /\ DOMAIN stack = 1 .. Len(stack)
    BY StackFrames DEF IInv, InterruptTypeOK
  <1>3. \A n \in Vector : Enter(n) =>
            /\ UNCHANGED <<started, currentTask>>
            /\ n = SystemCall \/ \A i \in DOMAIN stack' : stack'[i].int_no = SystemCall =>
                                      i \in DOMAIN stack /\ stack[i].int_no = SystemCall
    BY <1>2 DEF Enter, taskVars
  <1>4. Programs' => Programs
    <2>1. ASSUME UNCHANGED <<started, currentTask>>,
                 \A i \in DOMAIN stack' : stack'[i].int_no = SystemCall =>
                     i \in DOMAIN stack /\ stack[i].int_no = SystemCall
          PROVE  Programs' => Programs
      BY <2>1 DEF Programs
    <2>2. CASE Raise
      <3>1. CASE \E n \in Irq \cap Gates : Interrupt(n)
        BY <1>3, <2>1, <3>1, VectorsDiffer DEF Interrupt, Vector
      <3>2. CASE \E n \in Exception \cap Gates : RaiseException(n)
        BY <1>3, <2>1, <3>2, VectorsDiffer DEF RaiseException, Vector
      <3>3. CASE CallSystem
        BY <3>3 DEF CallSystem, RunsKernel, Programs
      <3> QED
        BY <2>2, <3>1, <3>2, <3>3 DEF Raise
    <2>3. CASE Return
      <3>1. stack' = SubSeq(stack, 1, Len(stack) - 1) /\ stack # <<>> /\ UNCHANGED <<started, currentTask>>
        BY <2>3 DEF Return
      <3>2. \A i \in DOMAIN stack' : i \in DOMAIN stack /\ stack'[i] = stack[i]
        BY <1>2, <3>1
      <3> QED
        BY <2>1, <3>1, <3>2
    <2>4. CASE HandlerSection \/ Prints_ \/ Stops
      <3>1. UNCHANGED <<stack, started, currentTask>>
        BY <2>4 DEF HandlerSection, Disable, Enable, Prints_, Stops, kernel_panic, GPFHandler, PanicAgain,
                    kernel_assert, taskVars, interruptVars
      <3> QED
        BY <2>1, <3>1
    <2>5. CASE Tasks
      <3>1. PICK t \in Task : Fork(t) \/ Switch(t) \/ Destroy(t)
        BY <2>5 DEF Tasks
      <3>2. CASE Fork(t)
        <4>1. Len(stack) = 1 /\ Top.int_no = SystemCall
          BY <3>2 DEF Fork
        <4>2. Top = stack[1] /\ 1 \in DOMAIN stack
          <5>1. Top = stack[1] /\ DOMAIN stack = 1 .. 1
            BY <1>2, <4>1, Zenon DEF Top
          <5> QED
            BY <5>1
        <4>3. stack[1].int_no = SystemCall
          BY <4>1, <4>2, Zenon
        <4> QED
          BY <4>2, <4>3, Zenon DEF Programs
      <3>3. CASE Switch(t)
        <4>1. t \in started /\ currentTask' = t /\ stack' = [stack EXCEPT ![1].regs = regs'[t]]
              /\ Len(stack) = 1 /\ UNCHANGED started
          BY <3>3 DEF Switch
        <4>2. stack[1] \in Frame
          BY <1>2, <4>1
        <4>3. \A i \in DOMAIN stack' : i \in DOMAIN stack /\ stack'[i].int_no = stack[i].int_no
          BY <1>2, <4>1, <4>2 DEF Frame
        <4> QED
          BY <4>1, <4>3 DEF Programs
      <3>4. CASE Destroy(t)
        BY <3>4 DEF Destroy, Programs
      <3> QED
        BY <3>1, <3>2, <3>3, <3>4
    <2> QED
      BY <2>2, <2>3, <2>4, <2>5 DEF Others
  <1> QED
    BY <1>1, <1>4 DEF ShellInv

\* What stackTrace writes down is right.
LEMMA TraceIsRight ==
    ASSUME OrderInv, ShellInv, stackTrace,
           UNCHANGED <<sectionTable, __modules, currentTask>>
    PROVE  TraceNamesTheFunction'
  <1>1. sectionTable \in BOOLEAN
    BY DEF OrderInv, MemoryInv
  <1>2. IsTable(KernelTable)
    BY <1>1, KernelIsTable
  <1>3. IsTable(ProgramTable)
    <2>1. CASE currentTask = kernelTask
      BY <1>2, <2>1 DEF ProgramTable
    <2>2. CASE currentTask # kernelTask
      <3>1. ShellIn(__modules) # 0 /\ pc > 43
        BY <2>2 DEF ShellInv, Programs, OrderInv, MadeInv, ProgramsInv, ShellAt
      <3>2. __modules \in ModuleList
        BY <3>1 DEF ShellInv, OrderInv, MadeInv
      <3> QED
        BY <2>2, <3>1, <3>2, ShellIsTable DEF ProgramTable
    <2> QED
      BY <2>1, <2>2
  <1>4. \A address \in TraceAddress : address \in 0 .. AddressSpace - 1
    BY Files
  <1>5. KernelTable' = KernelTable /\ ProgramTable' = ProgramTable
    BY DEF KernelTable, ProgramTable
  <1>6. traced' = [address \in TraceAddress |-> ValueOf(SymbolOfFrame(KernelTable, ProgramTable, address))]
    BY DEF stackTrace
  <1> DEFINE kernel == KernelTable
             program == ProgramTable
             Obj(address) == IF InRange(kernel, address) THEN kernel ELSE program
             Right(address) ==
                 InRange(Obj(address), address) /\ FunctionsBelow(Obj(address), address) # {} =>
                     /\ traced'[address] \in FunctionsBelow(Obj(address), address)
                     /\ \A value \in FunctionsBelow(Obj(address), address) : value <= traced'[address]
  <1>7. \A address \in DOMAIN traced' : Right(address)
    <2> SUFFICES ASSUME NEW address \in TraceAddress PROVE Right(address)
      BY <1>6
    <2>1. traced'[address] = ValueOf(SymbolOfFrame(kernel, program, address))
      BY <1>6
    <2> HIDE DEF kernel, program
    <2> QED
      BY <1>2, <1>3, <1>4, <2>1, FrameIsNamed DEF kernel, program
  <1> QED
    BY <1>5, <1>7, Zenon DEF TraceNamesTheFunction

LEMMA StepsKeepTrace ==
    ASSUME IInv, IInv', OrderInv, ShellInv, TraceInv, [BootNext]_bootVars, VectorsOccur
    PROVE  TraceInv'
  <1>1. CASE KernelMain
    <2>1. stopped = -1
      <3>1. \E name : Does(name)
        BY <1>1 DEF KernelMain, MainDisable, MainEnable, MainRegister, MainLoad, MainStart, Unless, Tables,
                    Modules, Paging, CreateHeap, FindBIOS32, CallFirmware, UsesShared, FindRSDP, FindRSDT, FindTables, MakeBuffers,
                    FindModule, PrintMessage
      <3>2. stack = <<>> /\ stopped < Len(stack)
        BY <3>1 DEF Does, RunsMain, RunsKernel, Runs
      <3> QED
        BY <3>2 DEF IInv, InterruptTypeOK
    <2>2. UNCHANGED traced
      BY <1>1 DEF KernelMain, MainDisable, MainEnable, MainRegister, MainLoad, MainStart, Unless, Tables,
                  Modules, Paging, CreateHeap, FindBIOS32, CallFirmware, UsesShared, FindRSDP, FindRSDT, FindTables, MakeBuffers,
                  FindModule, PrintMessage, Goes, Gives
    <2> QED
      BY <2>1, <2>2 DEF TraceInv
  <1>2. CASE Others \/ Prints_ \/ Stops \/ UNCHANGED bootVars
    <2>1. UNCHANGED <<sectionTable, __modules>>
      BY <1>2 DEF Others, Prints_, Stops, stateVars, bootVars
    <2>2. Len(stack) \in Nat
      BY StackFrames DEF IInv
    <2>3. stopped' = stopped \/ stopped' # -1
      <3>1. Others \/ Prints_ \/ UNCHANGED bootVars => stopped' = stopped
        BY DEF Others, Prints_, bootVars, interruptVars, stopVars, Raise, Interrupt, RaiseException, CallSystem,
               Enter, Return, HandlerSection, Disable, Enable, Tasks, Fork, Switch, Destroy
      <3>2. Stops => stopped' = Len(stack)
        BY DEF Stops, kernel_panic, GPFHandler, PanicAgain, kernel_assert
      <3> QED
        BY <1>2, <2>2, <3>1, <3>2
    <2>4. CASE UNCHANGED traced
      <3>1. stopped # -1 => UNCHANGED currentTask
        <4>1. [InterruptNext]_interruptVars
          BY <1>2, OthersStep DEF bootVars
        <4>2. [stopped # -1 => UNCHANGED <<currentTask, started>> /\ ~enabled']_interruptVars
          BY <4>1, StopStep
        <4> QED
          <5>1. UNCHANGED interruptVars => UNCHANGED currentTask
            BY DEF interruptVars, taskVars
          <5> QED
            BY <4>2, <5>1
      <3>2. UNCHANGED currentTask => KernelTable' = KernelTable /\ ProgramTable' = ProgramTable
        BY <2>1 DEF KernelTable, ProgramTable
      <3>3. UNCHANGED currentTask /\ TraceNamesTheFunction => TraceNamesTheFunction'
        BY <2>4, <3>2, Zenon DEF TraceNamesTheFunction
      <3> QED
        BY <2>3, <2>4, <3>1, <3>3 DEF TraceInv
    <2>5. CASE ~(UNCHANGED traced)
      <3>1. Stops /\ stackTrace /\ (kernel_panic \/ GPFHandler)
        BY <1>2, <2>5 DEF Others, Prints_, Stops, bootVars
      <3>2. UNCHANGED currentTask /\ stopped' = Len(stack)
        BY <3>1 DEF kernel_panic, GPFHandler, taskVars
      <3> QED
        BY <2>1, <2>2, <3>1, <3>2, TraceIsRight DEF TraceInv
    <2> QED
      BY <2>4, <2>5
  <1> QED
    BY <1>1, <1>2 DEF BootNext

\* The function that a stack trace names is the last one that begins at or below
\* the return address, for any files and modules and whatever task had been
\* running (elf.c lines 76-99, stackTrace.c lines 45-54).
THEOREM TraceIsNamed == ASSUME VectorsOccur PROVE BootSpec => []TraceNamesTheFunction
  <1>1. BootInit => ShellInv /\ TraceInv
    <2>1. BootInit => ~Programs /\ pc = 1
      BY DEF BootInit, InterruptInit, Programs
    <2> QED
      BY <2>1 DEF BootInit, ShellInv, TraceInv
  <1>2. IInv /\ LoadInv /\ OrderInv /\ ShellInv /\ [BootNext]_bootVars => ShellInv'
    <2>1. ShellInv /\ UNCHANGED bootVars => ShellInv'
      BY DEF ShellInv, Programs, bootVars, interruptVars, taskVars, mainVars, stateVars
    <2> QED
      BY <2>1, MainKeepsShell, OthersKeepShell DEF BootNext
  <1>3. IInv /\ IInv' /\ OrderInv /\ ShellInv /\ TraceInv /\ [BootNext]_bootVars => TraceInv'
    BY StepsKeepTrace
  <1>4. TraceInv => TraceNamesTheFunction
    BY DEF TraceInv, TraceNamesTheFunction
  <1> QED
    BY <1>1, <1>2, <1>3, <1>4, OrderHolds, PTL DEF BootSpec
-----------------------------------------------------------------------------
\* From the first instruction of main on, the interrupts are enabled exactly
\* outside of handlers and sections, code outside them runs in the directory of
\* its task, a system call finds its context, the cursor is on the screen, and is
\* shown where it is unless a program printed between the accesses that move the
\* shown one, and a system that has stopped stays so.
THEOREM BootIsSafe ==
    ASSUME VectorsOccur, Exception \subseteq {GeneralProtection, PageFault},
           Cardinality(TraceAddress) \in Nat
    PROVE  BootSpec => /\ [](EnabledOutside /\ DirectoryFollowsTask /\ ContextIsMine)
                       /\ [](CursorInScreen /\ CursorIsShown)
                       /\ StopIsFinal
  BY BootImplementsInterrupts, EnabledExactlyOutside, DirectoryIsTheTasks,
     SystemCallsFindTheirContext, StoppedForEver,
     BootImplementsScreen, CursorStaysInScreen, CursorIsShownRight, PTL
=============================================================================
