-------------------------------- MODULE Boot --------------------------------
(***************************************************************************)
(* The start of the system: main and kernel_main, with every interrupt and *)
(* exception that can come between two of their steps, up to the message   *)
(* that kernel_main prints beside the shell and the loop in which it       *)
(* sleeps.  It composes Interrupts.tla (handlers, sections, tasks),        *)
(* Screen.tla, BootMemory.tla, Firmware.tla and Elf.tla.                   *)
(*                                                                         *)
(* kernel_main is a sequence of operations, built from those of the        *)
(* functions it calls.  The system starts in initDescriptorTables, with    *)
(* its section opened.                                                     *)
(***************************************************************************)
EXTENDS Interrupts, Screen, Elf, BootMemory, Firmware

CONSTANTS BIOS32Area, ACPIArea,   \* what the memory of the BIOS can hold
          ModuleList,             \* the modules that GRUB can have loaded ...
          ModuleFile,             \* ... and what is in their files
          ModuleEnd,              \* where the last of them can end
          KernelFile,             \* the kernel's own sections and symbols
          TraceAddress            \* the return addresses on the stack

\* The modules lie behind the kernel; the sections lie in the address space and
\* leave out no page of the kernel; and what is used before there is a heap, in
\* the first gigabyte (paging.c line 178), is so little that the tables which map
\* it, with those that map these, take no second one more.
ASSUME MemoryLayout ==
    /\ \A end \in ModuleEnd : end \in Nat /\ KernelEnd <= end
    /\ PAGE_SIZE > 1
    /\ Section \subseteq [addr : Nat, size : Nat]
    /\ \A s \in Section : s.addr + s.size <= AddressSpace
    /\ \A page \in PageOf(KernelStart) .. PageOf(KernelEnd) :
          \E s \in Section : page \in PageOf(s.addr) .. PageOf(s.addr + s.size)
    /\ \A address \in {KernelEnd} \cup ModuleEnd :
          LET used == PageOf(Prepared(address).placementAddress) + 1
          IN  2 * (used \div PAGES_IN_TABLE) + 4 <= PAGES_IN_TABLE

VARIABLES pc,                \* the next operation of kernel_main
          ok,                \* what the last call of kernel_main returned
          newTask,           \* the task that makeTaskFromELF makes
          idt,               \* the interrupt descriptor table is filled and loaded
          __modules,
          sectionTable,      \* isKernelSectionTableLoaded
          memory,            \* before there is a heap; then not used
          heap,              \* kernelHeap is set
          found,             \* what was found of BIOS32 and ACPI, while in use
          buffers,           \* the keyboard's two queues are there
          traced             \* the last stack trace: the function named for an address

mainVars == <<pc, ok, newTask>>
stateVars == <<idt, __modules, sectionTable, memory, heap, found, buffers>>
bootVars == <<interruptVars, screenVars, mainVars, stateVars, traced>>

NoMemory == [placementAddress |-> KernelEnd, tables |-> {}, mirrored |-> {}]
NotFound == [bios32 |-> Nothing, rsdp |-> Nothing, rsdt |-> Nothing, fadt |-> Nothing]

BootInit == /\ InterruptInit /\ ScreenInit
            /\ pc = 1 /\ ok = TRUE /\ newTask = kernelTask
            /\ idt = FALSE
            /\ __modules = <<>>
            /\ sectionTable = FALSE
            /\ memory = NoMemory
            /\ heap = FALSE
            /\ found = NotFound
            /\ buffers = FALSE
            /\ traced = <<>>
-----------------------------------------------------------------------------
(* The operations of kernel_main. *)

Op(name, arg) == [op |-> name, arg |-> arg]

Section_(ops) == <<Op("disable", 0)>> \o ops \o <<Op("enable", 0)>>

\* An `if` without else: the operations are skipped when the call failed.
If(call, ops) == call \o <<Op("unless", Len(ops))>> \o ops

initDescriptorTables == <<Op("tables", 0), Op("enable", 0)>>

initSysTimer == <<Op("register", IRQ0)>>
initPaging   == <<Op("paging", 0), Op("register", PageFault), Op("heap", 0)>>
initSysCalls == <<Op("register", SystemCall)>>

\* 0: the kernel's task; 1: the one that was made.
runTask(n) == Section_(<<Op("start", n)>>)

initTasking == Section_(runTask(0))

\* BIOS32GetService and PCICheckSupport.
FarCall == Section_(<<Op("farcall", 0)>>)

PCIDevices == <<Op("kmalloc", 0), Op("ports", 0)>>
PCI  == If(<<Op("bios32", 0)>>, If(FarCall, If(FarCall, PCIDevices)))
ACPI == If(<<Op("rsdp", 0)>>, If(<<Op("rsdt", 0)>>, <<Op("sdt", 0)>>))

\* Mutation of initKeyboard: the handler comes before its queues.
initKeyboardRegistersFirst ==
    <<Op("register", IRQ1), Op("buffers", 0), Op("commands", 0)>>

initKeyboard == <<Op("buffers", 0), Op("register", IRQ1), Op("commands", 0)>>

\* Mutation of makeTaskFromELF: the saved directory is not loaded again.
makeTaskFromELFStays == Section_(<<Op("kmalloc", 0), Op("load", 1)>>)

\* The task's stack, heap and sections are made in its own directory.
makeTaskFromELF == Section_(<<Op("kmalloc", 0), Op("load", 1), Op("load", 0)>>)

Shell == If(<<Op("module", 0)>>, makeTaskFromELF \o runTask(1))

main == initDescriptorTables \o <<Op("register", GeneralProtection), Op("modules", 0)>>

\* Mutation of kernel_main: the shell runs before the devices are looked for.
kernel_mainShellEarly ==
    main \o initSysTimer \o initPaging \o initSysCalls \o initTasking
         \o Shell \o PCI \o ACPI \o initKeyboard \o <<Op("message", 0)>>

kernel_main ==
    main \o initSysTimer \o initPaging \o initSysCalls \o initTasking
         \o PCI \o ACPI \o initKeyboard \o Shell \o <<Op("message", 0)>>

RunsMain == RunsKernel /\ stack = <<>>

AtOp(name) == pc \in DOMAIN kernel_main /\ kernel_main[pc].op = name

Does(name) == RunsMain /\ AtOp(name)

Arg == kernel_main[pc].arg

Goes == pc' = pc + 1 /\ UNCHANGED <<ok, newTask, screenVars, traced>>

Gives(result) ==
    pc' = pc + 1 /\ ok' = result /\ UNCHANGED <<interruptVars, newTask, screenVars, traced>>
-----------------------------------------------------------------------------
MainDisable == Does("disable") /\ Disable /\ Goes /\ UNCHANGED stateVars
MainEnable  == Does("enable") /\ Enable /\ Goes /\ UNCHANGED stateVars

MainRegister == Does("register") /\ registerInterruptHandler(Arg) /\ Goes /\ UNCHANGED stateVars

\* savedDir is the kernel's: no handler leaves another one in currentDir.
MainLoad == /\ Does("load")
            /\ \/ Arg = 1 /\ (\E t \in Task \ started : newTask' = t /\ switchPageDir(t))
               \/ Arg = 0 /\ switchPageDir(kernelTask) /\ UNCHANGED newTask
            /\ pc' = pc + 1
            /\ UNCHANGED <<ok, screenVars, stateVars, traced>>

MainStart == /\ Does("start")
             /\ Start(IF Arg = 0 THEN kernelTask ELSE newTask)
             /\ Goes /\ UNCHANGED stateVars

Unless == /\ Does("unless")
          /\ pc' = IF ok THEN pc + 1 ELSE pc + 1 + Arg
          /\ ok' = TRUE
          /\ UNCHANGED <<interruptVars, newTask, screenVars, stateVars, traced>>

\* The vectors that InitIDT makes a gate for: the exceptions, the system call,
\* and the 16 hardware interrupts that it moves the controllers to.
GatesOf(loaded) == IF loaded THEN (0 .. 31) \cup {SystemCall} \cup (32 .. 47) ELSE {}

Gates == GatesOf(idt)

Tables == /\ Does("tables")
          /\ idt' = TRUE
          /\ Goes
          /\ UNCHANGED <<interruptVars, __modules, sectionTable, memory, heap, found, buffers>>

\* The rest of main: the screen, initModules, placementAddress, the kernel's
\* section table, if GRUB has one.
Modules == /\ Does("modules")
           /\ \E list \in ModuleList, end \in ModuleEnd :
                 /\ __modules' = list
                 /\ memory' = [NoMemory EXCEPT !.placementAddress = IF list = <<>> THEN @ ELSE end]
           /\ sectionTable' \in BOOLEAN
           /\ pc' = pc + 1
           /\ screenClear
           /\ UNCHANGED <<interruptVars, ok, newTask, idt, heap, found, buffers, traced>>

Paging == /\ Does("paging")
          /\ memory' = InitialMemory(memory.placementAddress, sectionTable)
          /\ Goes
          /\ UNCHANGED <<interruptVars, idt, __modules, sectionTable, heap, found, buffers>>

\* createHeap: from here _kmalloc does not look at placementAddress.
CreateHeap == /\ Does("heap")
              /\ heap' = TRUE
              /\ memory' = NoMemory
              /\ Goes
              /\ UNCHANGED <<interruptVars, idt, __modules, sectionTable, found, buffers>>

FindBIOS32 == /\ Does("bios32")
              /\ \E area \in BIOS32Area : found' = [found EXCEPT !.bios32 = BIOS32Find(area)]
              /\ Gives(found'.bios32 # Nothing)
              /\ UNCHANGED <<idt, __modules, sectionTable, memory, heap, buffers>>

\* The firmware says whether it has the service.
CallFirmware == Does("farcall") /\ (\E answer \in BOOLEAN : Gives(answer)) /\ UNCHANGED stateVars

\* kmalloc and what is written to the memory; the two ports of the PCI bus; the
\* queue of commands.
UsesShared(name) == Does(name) /\ Gives(TRUE) /\ UNCHANGED stateVars

FindRSDP == /\ Does("rsdp")
            /\ \E area \in ACPIArea :
                  found' = [NotFound EXCEPT !.rsdp = findRSDP(area)]
            /\ Gives(found'.rsdp # Nothing)
            /\ UNCHANGED <<idt, __modules, sectionTable, memory, heap, buffers>>

\* The tables that a root table of ACPI lists, and those that the words behind
\* the list lead to.
ASSUME ACPITables ==
    \A area \in ACPIArea : \A i \in 1 .. Len(area) :
        LET rsdt == area[i].rsdt
        IN  area[i].signature = RSDP_SIGNATURE /\ rsdt.signature = "RSDT" =>
                /\ rsdt.entries \in Seq([signature : STRING, sum : Nat])
                /\ rsdt.behind \in Seq([signature : STRING, sum : Nat])

FindRSDT == /\ Does("rsdt")
            /\ found' = [found EXCEPT !.rsdt = findRSDT(found.rsdp)]
            /\ Gives(found'.rsdt # Nothing)
            /\ UNCHANGED <<idt, __modules, sectionTable, memory, heap, buffers>>

FindTables == /\ Does("sdt")
              /\ found' = [found EXCEPT !.fadt = findInSDT("FACP", found.rsdt)]
              /\ Gives(TRUE)
              /\ UNCHANGED <<idt, __modules, sectionTable, memory, heap, buffers>>

MakeBuffers == /\ Does("buffers")
               /\ buffers' = TRUE
               /\ found' = NotFound
               /\ Gives(TRUE)
               /\ UNCHANGED <<idt, __modules, sectionTable, memory, heap>>

\* The place of the shell's module; 0: there is none.
ShellIn(list) == getModuleByName([i \in DOMAIN list |-> ModuleFile[list[i]]], "shell")

\* What GRUB loads are ELF files, or something else without the magic number.
ASSUME Files ==
    /\ {KernelFile} \cup {ModuleFile[m] : m \in DOMAIN ModuleFile} \subseteq File
    /\ \A symbols \in {KernelFile.symbols, LowSymbols}
                          \cup {ModuleFile[m].symbols : m \in DOMAIN ModuleFile} :
          /\ symbols \in Seq(Symbol)
          /\ \A i \in DOMAIN symbols : symbols[i].value < AddressSpace
    /\ ModuleList \subseteq Seq(DOMAIN ModuleFile)
    /\ TraceAddress \subseteq 0 .. AddressSpace - 1

FindModule == /\ Does("module")
              /\ Gives(ShellIn(__modules) # 0)
              /\ UNCHANGED stateVars

PrintMessage == /\ Does("message")
                /\ KernelPrints
                /\ pc' = IF printing'.text = <<>> THEN pc + 1 ELSE pc
                /\ UNCHANGED <<interruptVars, ok, newTask, stateVars, traced>>

KernelMain == \/ MainDisable \/ MainEnable \/ MainRegister \/ MainLoad \/ MainStart \/ Unless
              \/ Tables \/ Modules \/ Paging \/ CreateHeap
              \/ FindBIOS32 \/ CallFirmware
              \/ \E name \in {"kmalloc", "ports", "commands"} : UsesShared(name)
              \/ FindRSDP \/ FindRSDT \/ FindTables
              \/ MakeBuffers \/ FindModule \/ PrintMessage
-----------------------------------------------------------------------------
(* Interrupts, exceptions, handlers and programs. *)

\* copyFromUser, runTask, stopTask: a handler opens a section, or two, as
\* destroyTask and the stopTask that it calls do.
HandlerSection == stack # <<>> /\ (Disable \/ Enable)

Raise == \/ \E n \in Irq \cap Gates : Interrupt(n)
         \/ \E n \in Exception \cap Gates : RaiseException(n)
         \/ CallSystem

Tasks == \E t \in Task : Fork(t) \/ Switch(t) \/ Destroy(t)

Others == /\ Raise \/ Return \/ HandlerSection \/ Tasks
          /\ UNCHANGED <<screenVars, mainVars, stateVars, traced>>

\* A program prints.
Prints_ == /\ Runs /\ Len(stack) = 1
           /\ Top.int_no = SystemCall /\ SystemCall \in interruptHandlers
           /\ screenClear \/ \E char \in Character : screenPutChar(char)
           /\ UNCHANGED <<interruptVars, mainVars, stateVars, traced>>

\* The tables that printStackFrame looks in: the kernel's, and that of the
\* program of currentTask.
KernelTables ==
    [loaded \in BOOLEAN |->
        initKernelTable(IF loaded THEN KernelFile ELSE [KernelFile EXCEPT !.sections = <<>>])]

ProgramTables == [list \in {l \in ModuleList : ShellIn(l) # 0} |->
                     ELFLoad(ModuleFile[list[ShellIn(list)]])]

KernelTable == KernelTables[sectionTable]

ProgramTable == IF currentTask = kernelTask THEN KernelTable ELSE ProgramTables[__modules]

\* One line for each frame on the stack, and one before and behind these.
stackTrace ==
    traced' = [address \in TraceAddress |->
                  ValueOf(SymbolOfFrame(KernelTable, ProgramTable, address))]

TraceLines == Cardinality(TraceAddress) + 2

\* What stops the system prints first; GPFHandler starts with a line of its own
\* if there is an error code.
Stops == /\ \/ kernel_panic /\ stackTrace /\ PrintsLines(1 + TraceLines)
            \/ GPFHandler /\ stackTrace /\ \E n \in 0 .. 1 : PrintsLines(n + TraceLines)
            \/ PanicAgain /\ PrintsLines(1) /\ UNCHANGED traced
            \/ kernel_assert /\ PrintsText /\ UNCHANGED traced
         /\ UNCHANGED <<mainVars, stateVars>>

BootNext == KernelMain \/ Others \/ Prints_ \/ Stops

BootSpec == BootInit /\ [][BootNext]_bootVars
-----------------------------------------------------------------------------
\* No interrupt comes before its gate is there, and no handler runs before what
\* it uses: that of the keyboard its queues, that of a page fault the bitmap
\* and the directory, a system call a task and the heap (kernel.c lines 17-81).
HandlersFindTheirState ==
    /\ enabled => Irq \cup {SystemCall} \subseteq Gates
    /\ \A i \in DOMAIN stack : stack[i].int_no \in interruptHandlers =>
          CASE stack[i].int_no = IRQ1       -> buffers
            [] stack[i].int_no = PageFault  -> memory.tables # {} \/ heap
            [] stack[i].int_no = SystemCall -> heap /\ currentTask \in started
            [] OTHER -> TRUE

\* kernel_main uses the kernel's heap, the ports of the PCI bus and the queue of
\* keyboard commands with the interrupts enabled, and none of these has a lock:
\* no program can be in a system call meanwhile (kernel.c lines 30-79).
ProgramsComeLater ==
    (AtOp("kmalloc") \/ AtOp("ports") \/ AtOp("buffers") \/ AtOp("commands")) =>
        \A i \in DOMAIN stack : stack[i].int_no # SystemCall

\* When the paging is switched on every page below placementAddress, the page
\* tables included that the mappings themselves needed, is mapped and its
\* frame counted as used, as long as the last mapping needs one table at most
\* (paging.c lines 198-220): up to twice what a table maps, or without sections.
BootMemoryIsReserved ==
    (memory.tables # {} /\
        (~sectionTable \/ memory.placementAddress <= 2 * PAGES_IN_TABLE * PAGE_SIZE)) =>
            PageOf(0) .. PageOf(memory.placementAddress - 1) \subseteq memory.mirrored

\* The power management table is the first one listed that has its signature and
\* a correct sum, though damaged ones may come before it and findInSDT looks
\* behind the list; and no damaged one is ever used (acpi.c lines 68-97).  When
\* none is listed a table that lies behind may be taken.
TablesAreFound ==
    (found.rsdt # Nothing /\ ~AtOp("unless") /\ ~AtOp("sdt")) =>
        LET valid == {i \in DOMAIN found.rsdt.entries :
                          /\ found.rsdt.entries[i].signature = "FACP"
                          /\ found.rsdt.entries[i].sum = 0}
        IN  /\ found.fadt # Nothing =>
                   found.fadt.signature = "FACP" /\ found.fadt.sum = 0
            /\ valid # {} => \E i \in valid : /\ found.fadt = found.rsdt.entries[i]
                                            /\ \A j \in valid : i <= j

InRange(obj, address) == obj.start <= address /\ address <= obj.end

\* The functions of an object that begin at or below an address.
FunctionsBelow(obj, address) ==
    {obj.symbols[i].value : i \in {j \in DOMAIN obj.symbols :
        obj.symbols[j].type = "FUNC" /\ obj.symbols[j].value <= address}}

\* The function that a stack trace names is the last one that begins at or below
\* the address, whatever the order of the symbols, in the kernel if the address
\* is there, or else in the program (elf.c lines 76-99, stackTrace.c lines 45-54).
TraceNamesTheFunction == \A address \in DOMAIN traced :
    LET obj   == IF InRange(KernelTable, address) THEN KernelTable ELSE ProgramTable
        below == FunctionsBelow(obj, address)
    IN  InRange(obj, address) /\ below # {} =>
            /\ traced[address] \in below
            /\ \A value \in below : value <= traced[address]
=============================================================================
