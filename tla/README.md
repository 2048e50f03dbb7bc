# DeadKernel in TLA+

DeadKernel is a 32-bit x86 kernel: it boots from GRUB, pages its memory, runs
tasks from ELF modules under a round-robin scheduler with semaphores, and has
drivers for the timer, the keyboard, the screen and PCI; a shell runs on it.
This directory holds models of it, the TLC runs that check them on small
instances, and proofs, checked by TLAPS, of what holds for every size.

    tlc -workers 2 -config Scheduler.cfg Scheduler   # one run; PROJECT.json lists all
    tlapm SchedulerProofs.tla                        # the proofs of a module

Paths below are relative to `src/`; `kernel/src/` is left out of kernel files.

## The system

There is one processor.  Kernel code runs either in **kernel_main**, with the
interrupts enabled except between DISABLE_INTERRUPTS and ENABLE_INTERRUPTS, or
in an **interrupt handler**, with the interrupts disabled from the interrupt
gate to `iret`.  A system call is interrupt 128.  All concurrency therefore is:
a handler between any two instructions of a task or of kernel_main; an
exception inside a handler; one task after another, switched by the timer or by
a call that gives the processor up; and devices that answer in their own time.

| Component | State | Operations | Used by |
| --- | --- | --- | --- |
| Linked lists, `shared/include/llist.h` | next and prev of every node | add, delete, move, traversals | scheduler, semaphores, heap |
| Cyclic buffers, `utils/cyclic_buffer.c` | data, size, front, rear, count | init, enqueue, dequeue, read, clear | keyboard |
| Scheduler, `multitasking/task.c`, `systimer.c` | mainQueue, currentTask, Task_t (status, id, regs, page directory, heap) | makeTaskFromELF, runTask, fork, yield, switchTask, destroyTask | timer, system calls, kernel_main |
| Semaphores, `multitasking/semaphore.c` | semaphoreQueue, semaphore_t (id, count, initial value, queue of tasks) | semctl (INIT, SIGNAL, WAIT, FREE), semctl_process at every switch | mutexes |
| Mutexes, `shared/src/multitasking/mutex.c` | a semaphore id | init, lock, unlock, free | shell |
| System calls, `multitasking/syscall.c` | the table of calls | SysCallHandler | programs |
| Paging, `memory_managment/paging.c` | bitmap of frames, page tables and directories, currentDir, cr3 | initPaging, allocFrame, linkFrame, freeFrame, getPage, cloneDir, freeDir, pageFault | heaps, tasks |
| Heaps, `heap.c`, `kheap.c`, `user_heap.c` | chunks with boundary tags, list of free chunks, end of the heap; placementAddress before | alloc, palignedAlloc, free, expand, contract | everyone |
| Keyboard, `io/keyboard.c` | queue of commands, queue of characters, LEDs, resend counter | keyboardHandler, keyboardGetChar, keyboardReadReady, initKeyboard | getch |
| Interrupts, `interrupts/`, `utils/utils.s` | nesting counter, interrupt flag, interruptContext, handler table | entry and exit, DISABLE/ENABLE_INTERRUPTS, registerInterruptHandler | everyone |
| Panics, `utils/common.c`, `utils/stackTrace.c` | panicCounter | kernel_panic, kernel_assert, GPFHandler, stackTrace | everyone |
| Screen, `io/screen.c` | framebuffer, cursor, color, the display controller | screenPutChar, scroll, screenClear, moveCursor, printf | programs, kernel_main |
| ELF and modules, `fs/elf/`, `modules.c` | the list of modules, the kernel's sections | ELFLoad, lookups by name, type and address, getModuleByName | kernel_main, stack traces |
| BIOS32 and ACPI, `drivers/` | pointers to what was found | BIOS32Find, findRSDP, findRSDT, findInSDT | kernel_main |
| PCI, `drivers/pci/`, `shared/src/drivers/pci/` | none | PCIDirectRead, the scan, the names | kernel_main, shell |
| Library, `shared/src/stdlib.c` | strtok's pointer | strlen, strcmp, itoa, atoi, strtoi, strtok; printf | programs, kernel |
| Shell, `modules/shell/src/main.c` | the line, creator, mutex | getch loop, handle_command, fork and hand-over | the user |
| Boot, `boot.s`, `main.c`, `kernel.c` | where it is | main, kernel_main | |

What makes each part correct:

* lists: next and prev stay inverse; a list is the sequence its users take it for;
* buffers: front, rear and count agree; the ring is a bounded FIFO queue;
* scheduler: each task is in exactly one queue; the task whose stack and cr3 the
  processor uses is not destroyed; a switch ends; every ready task gets its turn;
  a task resumes with its own registers (it does not, see below);
* semaphores: a task that waits is not resumed before it is woken; no wakeup is
  lost;
* mutexes and shell: one holder; one shell reads the keyboard; the mutex is handed
  on; the first two as long as every shell acts on its own return values;
* paging: no frame backs two pages by accident; none is lost; no table is freed
  while a directory has it; a task's memory is its own; no directory has a table
  of its own for the kernel's heap; what is allocated before there is a heap is
  mapped and counted as used;
* heaps: chunks tile the heap, each is free or held by one caller; a block that
  was allocated can be freed;
* keyboard: a command keeps its argument; the LEDs follow the lock keys; the queue
  of commands does not stall; no task spins in the kernel;
* interrupts: the interrupts are enabled exactly outside of handlers and sections;
  outside of both the page directory is that of the current task (inside, it need
  not be: kernel_main copies a program in the new task's directory);
* panics: a stop is final, and a stack trace names the right functions;
* screen: the cursor stays on the screen, and is shown where it is unless somebody
  prints in the middle of moveCursor;
* boot: no handler runs before its state is there, and kernel_main is alone with
  what it uses without a lock;
* library and shell: the words, numbers and devices are those of the line, the
  digits and the bus.

The hard behaviour is listed, line by line, as `hazards` in `PROJECT.json`.

## Modules

| Module | Models | Runs | Proofs |
| --- | --- | --- | --- |
| `LinkedListOps` | the list operations, as functions on `[next, prev]` | | `LinkedListLemmas` |
| `LinkedList` | lists under any order of operations; implements `TaskLists` | `parts` | `LinkedListProofs` |
| `TaskLists` | what the lists promise: each list is a sequence | | |
| `CyclicBufferOps` | the buffer operations | | |
| `CyclicBuffer` | a buffer under any order of calls; implements `BoundedQueue` | `parts` | `KeyboardProofs` |
| `BoundedQueue` | what the buffer promises: a bounded FIFO queue | | |
| `Scheduler` | task.c, semaphore.c, syscall.c, systimer.c | `scheduler`, `scheduler_registers` | `SchedulerProofs` |
| `Mutex` | mutex.c, on `Scheduler` | | `SchedulerProofs` |
| `Shell` | the shell, its children and their hand-over, on `Mutex` | `shell` | `SchedulerProofs` |
| `Keyboard` | keyboard.c, getch, and the keyboard itself, on `CyclicBufferOps` | `keyboard`, `keyboard_race` | `KeyboardProofs` |
| `Paging` | paging.c, the mapping part of heap.c, the address space of a task | `paging`, `kernel_heap` | `PagingProofs` |
| `Heap` | heap.c: chunks, boundary tags, the free list | `heap`, `heap_free` | `HeapProofs` |
| `Interrupts` | entry, return, nesting, sections, panics, page directories, the frames that a switch exchanges | | `BootProofs` |
| `Screen` | the cursor and the display controller | `parts` | `BootProofs` |
| `BootMemory` | the allocator before the heap, and initPaging's mappings | | |
| `Firmware` | the searches for BIOS32 and ACPI tables | | |
| `Elf` | ELF lookups, modules, the names in a stack trace | | |
| `Boot` | main and kernel_main; composes the six above | `boot` | `BootProofs` |
| `Stdlib` | stdlib.c and the printf of the programs | | |
| `Pci` | the PCI configuration space, scan and names, on `Stdlib` | | |
| `CommandLine` | the shell's line and commands, on `Pci` | `command_line` | `CommandLineProofs` |

`MCParts`, `MCPaging`, `MCBoot` and `MCCommandLine` add symmetry, a bound, and
the values that a `.cfg` cannot write.  A definition whose comment begins with
"Mutation of X" is X with a plausible mistake; TLC finds a property violated
when X is replaced by it.  No other definition uses it.  The state machines have
a type invariant; where no run lists it, it documents the types (and
`InterruptTypeOK` is proved).

### Scheduler

`status`, `id`, `regs`, `currentTask` and `nextPID` are the code's variables of
those names; `taskLinks` holds the list pointers of the tasks, of mainQueue and
of the queues of the semaphores, so that the lists are those of
`LinkedListOps`, pointer by pointer; `frame` is the interrupt frame, or the
registers of the running program.  A handler that switches tasks is split at
every task that the walk of `switchTask` visits and at every semaphore that
`semctl_process` visits (`phase`, `iter`): the interrupts are disabled and no
other actor runs in between, but the split makes "the walk ends" a property
that can fail.  The walk reads the next pointer of a task that `destroyTask` has
just freed; nothing writes to the freed memory before, and the model keeps the
pointer.  `SEMAPHORE_WAIT` on a taken semaphore calls `switchTask` *before* it
moves the caller to the semaphore's queue: the action `ResumeFromWait` runs with
another `currentTask` than `SemBlock` did, as in the code.  SIGNAL compares the
count with a variable that the call did not assign: `StackGarbage` is what it
can hold.

Of the registers the model keeps `eax`, by what a program can tell of it — 0, a
number above 0, the value the program itself left there — and the mark of a task
that has returned from main.  SysCallHandler stores the result in the frame that
is there when the call ends: after a switch it is the frame of the task switched
to.  fork returns 0 to the child and a number above 0 to the parent, yield leaves
0 (the build does not optimise and the call returns nothing), SEMAPHORE_WAIT
the id of the semaphore.

### Mutex and Shell

`Mutex` adds `holders`, a history variable, to the calls of a mutex;
`LockAfterWait` is the wakeup of `Scheduler`, extended by what it means for the
program.  `Shell` adds the program: `pc` is the place of each shell in main.c,
`creator` and `mutex` its globals, which fork copies.  Each shell unlocks the
mutex when it exits, whether it holds it or not, and the creator frees it; a
parent gives its child a number of yields (`Delay`, 15 in the code) to lock
first.  `late` marks that a child did not.  After fork a task takes the branch
of the parent or of the child by what it finds in eax (`Branch`), and gives up
where it finds -1 (`ForkIsLost`).  A task that the timer interrupted next to a
system call, and that another one's yield or wait resumed, has the result of that
call in eax (`Overwritten`): it takes it for the number of the call it is about
to make (`WrongCall`), or for the result of the one it made (`Tests`).  `strayed`
marks that a shell went another way through the program for it.  What a shell
reads is in `CommandLine`.

### Keyboard

The driver, the wire and the keyboard's own controller, which the source does
not contain: it is modelled from the commands the driver sends and the bytes it
expects (ACK 0xFA, RESEND 0xFE), and marked external in the map.  A step of the
handler is atomic.  `getch` is a loop around keyboardReadReady, which it calls in
its test and again in its body, and keyboardGetChar; a task may be preempted
between any two.  A reader whose eax was overwritten meanwhile (see Scheduler)
may leave the loop or stay in it whatever keyboardReadReady answered: `Misled`, and
`faults` marks it.  The fairness of the readers is for `Getch`, never for
`Misled`.  `noise` counts the damaged bytes.

### Paging

An address is the number of its page.  Directories and tables are objects;
`pages` gives the frame of each entry, 0 meaning none, as in the code — page 0
of the kernel, mirrored to frame 0, reads as empty and is mapped anew by the
first task that has a section there.  `job` is what is left of the call under
way: cloning table by table and page by page, mapping page by page, freeing
table by table; the kernel's heap may grow wherever these calls ask for memory.
`currentDir` and `cr3` are two variables, since an interrupt changes the second
only.  Left out: the present, rw and user bits, the TLB, and what a forked task
does with its parent's heap once that is gone (`NoHeap`).

### Heap

One heap of a few small pages, with the code's own addresses, sizes and flag
bits: `alloc`, `palignedAlloc` and `free` are computed with the helpers of
heap.c, chunk by chunk.  Where the code uses a word that no call has written,
the word is an input: the PINUSE bit of the chunk that palignedAlloc cuts out
of a block (`StalePinuse`), and what lies past the end of the heap
(`BeyondEnd`).  A call that ends in a panic, or reads unmapped memory, leaves
its reason in `heap.state`.

### Interrupts

`stack` has a frame for each handler that runs; a frame has the interrupt
number and what was interrupted: the flag and the page directory, which the
return loads, and for the properties the counter and the open sections.
Sections nest, in handlers too: destroyTask has one open when it calls stopTask,
which opens its own.  `cr3` is loaded by a return and by `switchPageDir`, which
makeTaskFromELF calls twice, in a section of kernel_main: `DirectoryIsBack` is
the condition under which that section is closed.
`__interruptsDisable`, `interruptContext`, `panicCounter` and `currentTask` are
the code's.  A switch exchanges the frame with the registers of a task, as
switchTask does.  What a handler does besides is left to the other modules.

### Screen

A program prints in a system call: one step.  kernel_main prints with the
interrupts enabled, and `printing.at` is the access of screenPutChar or
moveCursor — load, store or port — that comes next, since a program's
characters may come between any two (the build does not optimise: each `cursor.x++`
is a load and a store; the tests of the wrap and of scroll are loads of their own,
and so are the two halves of the location in moveCursor).  `crtc` is the display
controller: the index register, and the cursor location of which each data
register has a byte.  `torn` marks that a program moved the displayed cursor since
kernel_main loaded the first half of the location that it then showed.

### Boot, BootMemory, Firmware, Elf

`kernel_main` is a sequence of operations, put together from those of the
functions it calls, and `pc` a place in it; an interrupt, an exception or a
program's step of `Interrupts` and `Screen` may come between any two.
`BootMemory` has the bump allocator and the loops that mirror pages, with the
address arithmetic of the code, before the heap is there.  `Firmware` reads an
area as the sequence of the structures in it, and a root table as its entries and
the tables that the eight words behind it lead to, whatever those are; `Elf` takes
a file as its list of sections and symbols, and a file without a symbol table as
one whose symbols are what lies at address 0 (`LowSymbols`), since ELFLoad reads
the size and the offset of the table through a null pointer.  makeTaskFromELF is
its three allocations in a section, the change to the new directory, the copying
there, and the change back.  `traced` is what the last stack trace printed.

### Stdlib, Pci, CommandLine

Pure functions, and the one program that uses them: the user types the lines of
`Line` with corrections, `handle_command` splits the buffer with strtok — whose
static pointer is a variable — `shown` is what the screen has of the line, and
`did` what the command did.  A character is
a string of length one; capital letters as digits, and the blanks that no one
types (\r, \v and \f), are left out.  Integers have `IntBits` bits and wrap:
8 in the run, 32 on the machine.  A register of the PCI bus is its four bytes.
readmem reads each byte that it shows: `Readable` are the addresses that a program
may read, and any other ends the program, as a page fault outside of kernel_main
is a panic.  An unknown vendor has some text for a name (`Garbage`), or ends the
program when the name is read.  More devices than `devices[]` holds end it, too
(`Overruns`).
The loops of itoa, atoi, strtoi, printf and of argv are recursive functions, with
the state after n rounds at n; no operator is declared RECURSIVE.

## Runs

| Run | Question | Bounds |
| --- | --- | --- |
| `parts` | three parts that call nothing, each by itself: are the lists what their users think; is the ring a queue; is the cursor on the screen, and shown where it is, when programs print in the middle of a character? | 2 heads, 3 entries: an entry can be first, last, alone, and between two others; 3 slots, 2 values: empty, partly full and full, both indexes wrap; 3 lines of 5 characters, a character of kernel_main of each kind, a program's characters and traces up to 3 lines between any two accesses |
| `scheduler` | are queues, current task and waiters right at every step; do switches end, tasks run, dead ones go and waiters wake? | the kernel task, 2 user tasks, 1 semaphore, both outcomes of the uninitialised word; MaxPID 4: a task is destroyed and its memory used again |
| `scheduler_registers` | does a task resume with its registers? **No** | the same tasks |
| `shell` | is there one holder and one reader, and is a free mutex locked again? | kernel_main and two shells, the place of the child used again for a second child, 1 yield; the values of the uninitialised word that do not lose a signal; 1.2 million states |
| `keyboard` | are commands sent whole and all, do the LEDs follow, is a single reader never caught? | 2 lock keys and a letter, 2 presses, 3 damaged bytes: the third drops a command; a queue of characters with 1 slot, which overflows; 1 reader |
| `keyboard_race` | can one of two readers be caught? **Yes** | 2 readers, one letter |
| `paging` | are frames and tables right under every order of make, fork, destroy, growth and fault? | 2 tasks besides the kernel, 4 tables of 4 pages; 14 frames: never exhausted; the kernel's heap stays in its table |
| `kernel_heap` | have all directories one table for a page of the kernel's heap? | `kernelDir` and 2 more, a heap of 1 page that grows by a second one in the next table, before, during and after every clone |
| `heap` | are the chunks right, whatever the unwritten words hold? | a heap of 1 to 4 pages of 64 bytes, 3 sizes and an aligned one, 3 blocks: chunks between two others, splits, joins with the chunk before, growth and shrinking |
| `heap_free` | can what was allocated be freed? **No** | the same |
| `boot` | is everything there when something comes in between, from main to the message of kernel_main? | kernel_main and 2 tasks, 2 nested handlers, 2 nested sections, both exceptions; a screen of one character; 4 ends of the modules; 4 contents of the BIOS area, 6 of ACPI's, with a valid table behind each list; a shell with symbols and one without; 1.1 million states |
| `command_line` | are words, numbers and devices those of the line, the digits and the bus? | 8-bit integers, lines up to 11 characters, 2 arguments, 2 characters taken back; 5 buses, one with more functions than `devices[]` and one with an unknown vendor; the last 64 of 256 addresses unreadable; two texts for a name that is none |

Two user tasks are enough for the scheduler's properties that relate a task that
switches, one it switches to and one that dies or waits (kernelTask is the
third); every interleaving of theirs occurs.  The proofs lift the bound for the
safety properties.  In the shell run the first shell is the only one that can
fork, and it waits for its child: a second child is made when the first is gone.
A second nested handler is an exception in a handler; an exception in that one
finds the system as the second did.  The three models of `parts` have no state
in common: one moves, and the others rest where they began.  A screen of 5 by 3
wraps and scrolls with the characters that are printed, has a tab stop in the
middle of a line and one behind its end, and a program's characters reach every
corner; in `boot` the screen is small since only the order of the calls matters
there.  8-bit integers end, as 32-bit ones do, in the digit that atoi compares
with.  The runs that violate show a disagreement between the code and what it
says of itself; `findings` in `PROJECT.json` quotes both.

**Bounds in guards.** `MaxPID`, `MaxSemaphoreID` and `MaxCount` (Scheduler) stop
runTask, SEMAPHORE_INIT and SEMAPHORE_SIGNAL at a number; `Delay` (Shell) stands
for the 15 yields; `MaxPresses` and `MaxNoise` (Keyboard) bound the user and the
wire; `KHeapMax` and `HeapMax` (Paging) are the code's maxAddr; `MaxBlocks`
(Heap) bounds the blocks held at a time; `MaxDepth` and `MaxSections`
(Interrupts) the nesting; `MaxLines` (MCParts) the lines of a stack trace;
`MaxBackspaces` (CommandLine) the corrections.  In the shell run `MaxCount` is
above what the properties allow, so that it hides no violation.

**Deadlock** is checked in `parts`, `scheduler`, `shell`, `paging` and
`kernel_heap`.  It is off where the system may stop: the user may stop typing
(keyboard, command_line), a heap stops at a fault, and the system after a panic
(boot).

**Fairness.** Scheduler and Shell: weak fairness of the handler's next step —
interrupts are disabled, the processor has nothing else to run — and of the
timer tick, which the PIT raises for ever while the interrupts are enabled;
none of the programs.  So no liveness property relies on a program to do
something.  Keyboard: the keyboard answers the byte it was sent, the handler
reads what arrived, and a task in getch is scheduled.  What damages bytes is
bounded, not fair.

**Symmetry** is used in safety runs only: over the user tasks in `boot`, over
the objects `_kmalloc` returns in `paging` and `kernel_heap`.  `kernelTask` and
`kernelDir` are not permuted.

## What the checks show

Right as written:

* the lists and the ring;
* the queues of the scheduler under every order of ticks, calls and exits, the
  late move of a blocked task, and the end of the walk;
* mutual exclusion of the shells, although each of them unlocks when it exits, as
  long as none of them goes astray by the lost eax below and the first has not left;
* the commands of the keyboard, as long as its queue does not overflow and no lock
  key overlaps a byte under way;
* the frames and tables of tasks as long as frames last;
* the tables of the kernel's heap, which no directory has twice (but some may lack);
* the chunks of a heap, up to the first call that ends in a panic;
* masking, nesting and contexts through every nested exception and panic, and the
  directory of the code that runs outside of handlers and sections;
* the cursor's place, although kernel_main and programs write it at once, and what
  is shown of it unless a program prints in the middle of moveCursor;
* the order of main and kernel_main, which keeps kernel_main alone with its unlocked
  state and makes what each handler needs before it is registered;
* the search for the table that powers the machine off, among the tables that are
  listed, and that for the names of functions;
* strtok, the numbers and the columns of the shell's commands, up to the first byte
  that a program may not read and the first vendor without a name.

Not right (see `findings`): a system call that switches tasks stores its result
in the frame of another task; two tasks in getch hang the system; `free` of a
heap's last block panics, and no block is ever joined with the free one behind
it.

## What the models show besides

Some behaviour is in the models without a property that fails, since nothing in
the repository says otherwise or since it is a condition of use:

* **Exhausted frames.**  `firstFrame` returns nothing when no frame is free, so
  that allocFrame maps the first frame, which is in use, instead of a panic.
  `Paging` has this, and with `nframes = 6` TLC reaches it; `exhausted` marks it,
  and the properties about frames say nothing of what follows.
* **Physical addresses by addition.**  cloneDir and fork compute the physical
  address of the second page of a directory from that of the first.  In
  `Paging` the heap grows by frames that need not follow each other; the
  computation is right only while they do.
* **The kernel's heap beyond its first tables.**  getPage enters a new table of the
  heap in kernelDir only (heap.c line 154).  A directory that is older lacks it;
  `KernelHeapIsNeverDoubled` says that it never gets one of its own instead.  A
  handler that works on such a page while an older directory is in cr3 faults, and
  that fault is the panic of paging.c line 325.  The models do not have what
  follows: they let the call go on.
* **Large modules.**  `BootMemoryIsReserved` needs the modules of GRUB to end
  below 8 MB if the kernel has a section table: the end of the last mapping is
  computed before the page tables that it needs, and the second of them is
  neither mapped nor counted as used.
* **Keyboard.**  `CommandsKeepTheirArguments` excepts a lock key that is handled
  while a byte is on its way: the byte is then sent twice.
  `LEDsFollowTheLocks` and `CommandsAreSent` say "unless a command was given
  up": after three damaged bytes the driver drops it and sends nothing until
  the next lock key.
* **One reader of the keyboard.**  `GetCharReturns` holds with one reader only,
  and excepts one whose eax another task's call has overwritten between the
  return of keyboardReadReady and the test of it (`faults.misled`): it may take
  a character from an empty queue and spin, the deadlock that keyboard.c line 84
  tells of.
* **Mutex.**  `MutexIsHandedOn` needs an uninitialised stack slot not to hold 0;
  if it does, SIGNAL is ignored.  `OneShellReads` needs a child that locks
  within the 15 yields of its parent.  `MutualExclusion` and `OneShellReads` fail
  when a shell goes astray (`strayed`), as the parent in the branch of its child;
  `MutexIsHandedOn` holds even then.
* **Paging.**  `FramesExclusive` excepts mirrored pages: linkFrame takes frames
  that are in use, as its comment admits.  `TaskMemoryIsPrivate` excepts the
  module_info page, which lies in the kernel's first table and is shared by all
  tasks.
* **Heap.**  The chunk that palignedAlloc cuts out of a block keeps whatever
  PINUSE bit the memory had, and the size behind the chunk before it is stale;
  with either value the three invariants hold up to the first fault.
* **ACPI.**  findInSDT takes 4 bytes off a table's length for its header, which
  has 36, and so reads eight words behind the list (acpi.c line 85).
  `TablesAreFound` says that a right table in the list is found before them; if
  there is none, what lies behind may be taken.
* **Screen.**  The displayed cursor may be wrong for one character after a
  program came between the first load of the location in moveCursor and the last
  port (`torn`).
* **Command line.**  A line of readmem with a byte that a program may not read,
  and an unknown vendor, can end the program (a page fault outside of
  kernel_main is a panic); more than 256 functions overflow `devices[]`, and
  nothing is said of what follows.
* **Contexts.**  `ContextIsMine` holds because no exception taken inside a
  system call returns: an exception's return sets interruptContext to null, not
  to what it was.  copyToUser and copyFromUser (task.c lines 113-132) leave the
  kernel's directory loaded until the handler returns.  This is not modelled:
  nothing faults after it, and the return loads the directory that was interrupted.

## Proofs

All proofs are for every value of the constants that satisfies the ASSUMEs of
the module and of the theorem, and use no other assumption.

* **Buffers** (`KeyboardProofs`, second part).  `IndexesCorrect`: the invariant
  "rear is front + count - 1 modulo size" with the types is inductive; the
  modular arithmetic is in `RingArithmetic` and `WrapOnce`.  `BufferIsFifo`: the
  refinement maps the ring to the sequence of its `count` elements from `front`;
  enqueue appends (`EnqueueAppends`), dequeue takes the head, every step is a
  step of `BoundedQueue` or a stutter.
* **Lists** (`LinkedListLemmas`, `LinkedListProofs`).  `ListsNeverDangle`.  The
  lemmas say what deletion, insertion and moving do to `Consistent` and to what
  a head reaches, without induction: "in the list of h" is being in every set
  that holds h's successor and is closed under next.
  `ListsAreSequences`: `LinkedList` implements `TaskLists`.  The invariant
  `SequencesInv` is that the pointers stand for sequences (`Shape`): next leads
  from each head through the entries of its sequence, all different, and back
  (`Represents`), and the listed entries are those of exactly one sequence each.
  A deletion removes the k-th of a sequence (`DeleteShape`), an insertion behind
  the k-th node adds one (`InsertShape`), and a move is one after the other.
  That a traversal visits the sequence (`ElementsAre`) needs to know the function
  that follows next i times: it is the ring taken modulo its length
  (`NodeAfterIs`), compared at the least i where they could differ, which takes
  the place of an induction.  There are finitely many nodes (`NodesAreFinite`).
* **Scheduler** (`SchedulerProofs`).  `TypeCorrect`, `TasksInOneQueue`,
  `CurrentTaskSurvives`, `BlockedTaskSurvives` follow from one inductive
  invariant, `IInv`.  The properties are not inductive by themselves: that the
  walk never comes round to the interrupted task and destroys it holds because
  kernelTask never blocks, yields or dies (`KernelInv`), is made idle when the
  walk passes it, and so stops the walk before a second round; `WalkInv` states
  where the walk is relative to the two (`Before`).  `CallerInv` says that a
  task in SEMAPHORE_WAIT is still in the main queue and, when switchTask
  returns, not current.  `QueuesInv` is `Partitioned`, from the list lemmas.
* **Mutex and Shell** (`SchedulerProofs`, second part), for any number of shells,
  any delay and any content of the uninitialised word; the one assumption,
  `MutexValue`, is that 1, which mutex_init passes, is among the values given to
  SEMAPHORE_INIT.  `ShellsAreScheduled`: a step of `Shell` is one of `Scheduler`,
  so that `IInv` holds of it.  `OneHolder` and `OneReader` follow from `ShellInv`.
  `ProcessInv`: kernel_main starts one shell, with id 1, and only that one forks,
  so that `creator` is 1 in each.  All of this is lost once a shell has gone astray,
  so the inductive invariant is `StrayInv`: `IInv`, and `ShellInv`'s parts or
  `strayed`; and both theorems are about shells that act on their own return values.
  `WaiterInv`: a task waits only in mutex_lock.
  `TheMutex`, while the first shell has not left (`Leads`): there is one
  semaphore, its count is 0 as long as somebody holds the mutex, and a shell that
  called mutex_lock last has the mutex or waits; so a shell that runs and unlocks
  had it, and the only unlock without a lock is that of the first shell when it
  leaves.  `TheReader`: while the first shell reads there is no child; it comes
  back to its loop only through a mutex that its child has unlocked on leaving.
  It adds that a child that has to wait waits for ever, because then nobody
  holds the mutex and its count is 0: without it, the wakeup could not be told
  from one that makes a second reader.
* **Keyboard** (`KeyboardProofs`).  `KeyboardTypeCorrect` for every size of the
  queues; `OneReaderNeverWaits`: with one reader, which was never misled by a
  lost eax, a character that was found is still there when it is taken
  (`ReadyInv`); the run `keyboard_race` shows that
  the assumption of one reader is needed.
  `CommandsArriveWithArguments`: the invariant `CommandInv` says that every
  second byte of the queue, counted from the newest, is an argument
  (`Alternates`, which enqueues of two and dequeues of one keep by the ring
  lemmas), and that at most one byte is under way or unanswered; the parity of
  the queue then tells what the keyboard expects (`Idle`, `Under`, `Accepted`).
  `LEDsShowTheLocks`: `LEDInv` says that the last command for the LEDs that is
  queued is followed by `led_state` (`LEDsQueued`), and where that byte is once
  its command has left the queue.  There are two arguments for this, as the
  property excepts only the two faults together.  If no keys overlapped, one
  byte at a time, it is the oldest of the queue or shows (`LEDsOneByOne`).  If
  no byte was damaged, each byte is accepted in the order it was sent in, and
  resending the oldest repeats a byte at the end of what is under way
  (`LastSent`), so that what is under way ends with it (`LEDsUnderWay`).
* **Interrupts** (`BootProofs`, first part), for any tasks, vectors and depth.  The
  inductive invariant `IInv` says what the counter is at every depth: that of
  the frame below, one for the handler, and one for each open section
  (`Counted`, `FrameIsRight`); that a frame has the flag, the counter and the
  directory of the code it interrupted; that a task that does not run has fresh
  registers (`SavedRegisters`), which holds since only kernel_main has sections
  and a switch comes from outside of them (`FirstFrame`); that outside of
  sections the directory is that of the task, as a section that loads another one is
  not closed before its own is back (`DirectoryIsBack`); and that a stopped
  system has the handler or section that stops it (`Stopping`).  From it follow
  `InterruptsTypeCorrect`, `EnabledExactlyOutside`, `DirectoryIsTheTasks` and
  `StoppedForEver`.  `SystemCallsFindTheirContext` assumes that the only
  exceptions are the page fault and the general protection fault, which the
  kernel handles and does not return from in a system call.
* **Screen** (`BootProofs`, second part), for any size and text.
  `CursorStaysInScreen` and `CursorIsShownRight`: `SInv` bounds the cursor, and
  the value that was read of it, at each access (`InBounds`), and says what the
  controller has been told so far, if no program came in between since the first
  load of the location (`Told`).
* **Paging** (`PagingProofs`), for any number of frames, tables, directories and
  pages.  The properties speak of the time between two calls, so the inductive
  invariant has to say how far a call has come; it has four layers.
  `JobInv`: which directories the call works on, and that they live.
  `TableInv`: every table of a live directory is allocated and its own
  (`TablesHaveOneOwner`), except where a clone shares the tables of kernelDir
  (`CloneInv`) and where freeDir has already let go of one (`Holds`, `Freed`);
  the tables nobody has are empty.  This gives `TablesAreAccounted`.
  `FrameInv`: a frame behind a page that is not mirrored is behind no other
  (`ExclusiveInv`), its bit is set (`InUseInv`), and a bit that is set has a page
  (`NoneLostInv`): `FramesBackOnePage`, `BitmapMatchesTables`.  It holds through
  `contract` only because no page of a heap is mirrored.
  `PageInv`: every finished directory of a task maps each of its own pages, and
  one in the making those that the copy or the mapping has passed; with one
  owner for each table, `TasksAreApart`.
  The theorems assume `AddressSpace`: kernel_main reads physical memory, and a
  page fault mirrors it, in no table of a task's heap (0x90000000 to
  0xA0000000), and the stack and the image of a task are apart from its heap.
  The addresses are constants of the code; a machine whose ACPI tables lie in
  that range would break it, and so would more than 3 GB (`nframes <=
  KHEAP_START`), where the mirrored pages reach the kernel's heap.
  `KernelHeapIsShared`, for any place and size of the kernel's heap: `HeapInv` says
  that no directory has a table of its own where the kernel has one or can get one
  (`SharedTables`, whichever directory asks for a page, since a task maps only its
  own pages: `TodoInv`) and that the kernel has a table for each page of its heap
  (`HeapTables`).  A directory may lack such a table; it does not say more.
* **Heap** (`HeapProofs`), for any page size that is a multiple of 8 and above
  16, any limit of the heap, any requests and any content of the two unwritten
  words.  `HeapIsTiled`, `NoChunkLostOrShared` and `PinuseIsTrue` follow from
  `HeapInv`, which is their conjunction written for any heap (`HeapOK`: `Tiled`,
  `Truthful`, `Lists`), with the types of the headers and of the list.  None of
  the three is inductive alone: the tiling after a join needs the chunk before
  to be the free one that PINUSE_BIT and the foot tell of, and that this chunk
  can be taken from the list, exactly once, needs the list to be that of the free
  chunks.  A call is a composition of operators, so the proof goes by operator:
  what a split, an extension, a join and a cut at the end do to a tiling
  (`SplitTiles`, `ExtendTiles`, `JoinTiles`, `ShrinkTiles`), what the list's
  operations return (`InsertChunkIs`, `RemoveChunkIs`, `FindSmallestChunkIs`),
  then the stages of alloc (`ToppedKeeps`, `CarveKeeps`), of free
  (`PreviousPulled`, `ListedAgain`, `GivenBack`) and of palignedAlloc
  (`CutLeadKeeps`, `CutRemainderKeeps`), each with the block it works on taken out
  of the list.  What is left of a block when the heap contracts has to have
  room for a header: the new end is the block itself or at least 16 bytes
  behind it, because the size of the heap is rounded to pages (`RoundedUp`,
  `WholePages`, `PagesApart`).  All three hold until the
  first fault (`heap.state`); that a legal free can end in one is the finding
  of `heap_free`.
* **Boot** (`BootProofs`, third part).  `BootImplementsInterrupts` and
  `BootImplementsScreen`: every step of main, kernel_main, the programs and the
  panics is a step of `Interrupts` and of `Screen`, or none.  The one thing to
  show is that kernel_main registers handlers for vectors only, which needs the
  operations it is made of (`KernelMainOperations`), and that the section in
  which makeTaskFromELF loads the new task's directory ends with its own loaded
  (`LoadInv`).  `BootIsSafe` carries the
  invariants over.

  The order of the start is in `OrderInv`, which says for each place of
  kernel_main (`ThePlaces` lists its 45 operations) what is there: the gates,
  the heap, the keyboard's queues and the handlers (`MadeInv`), the memory
  before the heap (`MemoryInv`), and who may run (`ProgramsInv`: no program
  before the shell).  `HandlersAreServed` and `ProgramsAreLater` follow.
  `BootMemoryIsMapped` needs no state beyond that, but what initPaging maps:
  each mapping may take tables, which raise placementAddress while it runs, and
  the last one has to reach them all (`PagingReserves`).  It reaches one table,
  so the theorem leaves out a kernel with a section table and modules that end
  beyond 8 MB. `PowerTableIsFound`: what kernel_main holds of ACPI is a pointer
  that it found and a root table with entries (`FoundInv`), and a search finds
  an entry if there is one, whatever lies behind the list (`TableIsFound`).
  `TraceIsNamed`: by modular arithmetic a symbol above the address is further
  away than each below it (`Distances`), so that the nearest is the last below
  (`NearestFunction`); the kernel's table does not answer for a program's
  address (`FrameIsNamed`); a task other than the kernel's means that there is a
  shell (`ShellInv`); and the trace stays right because what it was taken of
  does not change in a system that has stopped (`TraceInv`, with the step of
  `StoppedForEver`). Four assumptions are about its surroundings.
  `MemoryLayout`: the modules lie behind the kernel, as GRUB puts them, the
  kernel's sections cover it, and all that is used fits the first gigabyte with
  room for its page tables (`memEndPage`, paging.c line 178).  `ACPITables`:
  entries of a list, and the words behind it, lead to tables with a signature
  and a sum.  `Files`: GRUB's modules are ELF files or fail the test of the
  magic number, symbols are 32-bit addresses, and programs lie behind the kernel
  (16 MB and 1 MB in the two link.ld).  `VectorsOccur`: the interrupts that get
  handlers are among those that occur.

* **Command line** (`CommandLineProofs`), for lines, names of commands and buses
  of any number, any sizes of the line and of argv, and an int of 8, 16 or 32
  bits. A recursive function is what its definition says only once it is known
  that there is a function which satisfies it: each is built up round by round
  (`LoopRuns`, `PrintfIs`, `TokensIs`), and what holds after n rounds is shown
  at the first round where it could fail (`LeastOf`, `UpTo`), which takes the
  place of an induction.

  `TheLineOnTheScreenIsExecuted`: the invariant `LineInv` says that the buffer up to
  `ptr` is what the screen shows (`Held`), whatever lies behind of characters that
  were taken back.  strtok returns the next word of the text and leaves the rest as
  it was (`StrtokTakesTheNextWord`); `TokensRead` says how far the calls so far have
  come: the n-th call has found the n-th start of a word (`NextWordIs`,
  `NthOfNumbers`), or there are no more.  Nothing is assumed of backup_string: the
  first call gets the line.  strcmp is equality (`StrcmpIsEquality`).

  `TheNumbersAreRead`, up to the first line with a byte that the program may not
  read: strtoi and atoi are compared with the positional value of the digits.
  strtoi wraps at each digit, which is the value modulo the width of a word at
  the end (`SameInAWord`, `HexIsRead`).  atoi stops at the first digit that does
  not fit; until then its value is the value of the digits so far, and from then
  on that is above INT_MAX (`Sums`, `AddDigitIs`), by `OverflowsIs`: the digit
  that atoi compares with is the last one of INT_MAX, and so -INT_MIN does not
  fit either.  itoa prints what successive divisions leave (`Shifted`,
  `ItoaIs`); padded with zeros to IntBits / 4 places these are all digits of the
  word (`ShiftedOut`, `PaddedIs`), so that the printed address reads back as the
  same (`HeaderReadsBack`).

  `TheDevicesAreListed`, for buses that fit `devices[]`, with any text or none
  for the name of an unknown vendor: the three loops of the scan go through the
  functions in the order of their numbers (`LoopsCountUp`), each function that
  there is has a place of its own in that order (`PlacesAreTaken`), and the two
  registers are those of the function (`RegistersAreRead`).  A line is followed
  item by item through printf (`Stands`): a byte fills two or three places
  (`PlacesOfAByte`), and a name after it gets no blanks although `num` is -1
  then (`NameIsPrinted`), which is where an unsigned comparison would go wrong.
  The names themselves are those of the tables in pci_ids.c on both sides; the
  theorem is about which function they are given for and where they stand.

Model-checked only, on the instances of the table above: the liveness properties
`EveryTaskRuns`, `EveryDeadTaskIsDestroyed`, `WaitersAreWoken`,
`MutexIsHandedOn` and `CommandsAreSent`, which rest on fairness and are out of
the prover's reach.  Every invariant and every safety action property of a
passing run is a theorem.

## Not modelled

* **Serial port** (`io/serial.c`): polled output without state.  printf exists
  three times, line by line the same; `Stdlib` has that of the programs.  An
  unknown conversion makes it loop for ever in all three; no caller has one.
* **VESA** (nothing calls it), **RSDP2 and XSDT** (kernel_main does not use
  them), **math.c**, `jmpUser`,
  `unregisterInterruptHandler`, `PCIDirectWrite` (which writes to the low byte
  whatever the register) and `PCIDirectFindClass` (whose loop never ends):
  nothing calls them.  `ELFFindNearestSectionByAddress`: pageFault only prints what
  it returns (paging.c line 293), before a panic.
* **The words of a frame.**  An interrupt of ring 0 pushes three words for
  `iret` and one of ring 3 five, while switchTask copies the whole frame: a
  switch between rings overwrites two words of the kernel's stack, and esp
  sinks by 8 bytes for each round trip.  A frame is one record in the models;
  what lies above it on kernel_main's stack decides what the words do.
  Likewise exception 17, which pushes an error code and has the stub of one
  that does not.
* **The contents of memory before the heap.**  The bitmap of frames takes a
  quarter of the memory it is used with; with 1 GB it overlaps the page
  directory for frames beyond 256 MB.  `BootMemory` has sizes only.
* **A lost eax elsewhere.**  Its effects are modelled where the shells branch on
  fork, lock and unlock, and where getch tests keyboardReadReady.  A timer
  interrupt can come wherever eax is live, in kernel_main too, and what the rest
  of a program does with another number is not modelled.
* **What follows some faults**: the panic for a table of the kernel's heap that a
  directory lacks, and writes behind `devices[]`.
* **The TLB, and the present, rw and user bits.**  freeFrame and contract leave
  translations in the TLB.
* **Segments, the TSS, and the bits of the descriptors**: constants after
  start. So are the screen's colours and characters: no property looks at them.
* **Tick counters and sleep**: they count; getUptime wraps after 49 days.
* **A key before initKeyboard ends**: a byte that comes in the few instructions
  between registering the handler and the start commands is not modelled; the
  order of the two is (`HandlersFindTheirState`).
* **The layout of ELF files**, `testModule`, and the **build files**.
* **A typed line that does not fit** its buffer: the models' lines fit.
