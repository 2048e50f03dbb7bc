-------------------------------- MODULE Elf --------------------------------
(***************************************************************************)
(* The reader of ELF files (kernel/src/fs/elf/elf.c), the modules that     *)
(* GRUB loads (modules.c) and the names in a stack trace (stackTrace.c).   *)
(*                                                                         *)
(* An object is what the section headers and symbols of a file say: the    *)
(* offsets, string tables and sizes that lead to them are left out.  A     *)
(* lookup that fails returns None, as the code returns NULL.               *)
(***************************************************************************)
EXTENDS Integers, Sequences

ElfSequences == INSTANCE SequencesExt

CONSTANTS AddressSpace,     \* addresses are computed modulo this (2^32)
          LowSymbols        \* what the memory from address 0 on is when it is
                            \* read as a symbol table

ASSUME AddressSpaceAssumption == AddressSpace \in Nat \ {0}

\* Files as GRUB leaves them in memory: whether the file starts with the magic
\* number, its sections and symbols, and what its .module_info section says.
Symbol == [name : STRING, type : STRING, value : Nat]

File == [magic : BOOLEAN,
         sections : Seq([name : STRING, type : STRING, addr : Nat]),
         symbols : Seq(Symbol),
         moduleName : STRING]

None == [name |-> "NULL"]

Get(seq, i) == IF i = 0 THEN None ELSE seq[i]

\* The whole 32 bits have to be set, not to be equal.
ELF32CheckMagic(file) == file.magic

ELFLookupSectionByName(obj, name) ==
    LET Matches(section) == section.name = name
    IN  Get(obj.sections, ElfSequences!SelectInSeq(obj.sections, Matches))

ELFLookupSectionByType(obj, type) ==
    LET Matches(section) == section.type = type
    IN  Get(obj.sections, ElfSequences!SelectInSeq(obj.sections, Matches))

ELFLookupSymbolByName(obj, type, name) ==
    LET Matches(symbol) == symbol.type = type /\ symbol.name = name
    IN  IF obj.sections = <<>> THEN None
        ELSE Get(obj.symbols, ElfSequences!SelectInSeq(obj.symbols, Matches))

\* The value of a symbol that may not be there.
ValueOf(symbol) == IF symbol = None THEN 0 ELSE symbol.value

HasSymbolTable(file) == ELFLookupSectionByType(file, "SYMTAB") # None

\* The range of an object is that of two of its symbols.
Object(sections, symbols) ==
    LET obj == [sections |-> sections, symbols |-> symbols]
    IN  [sections |-> sections, symbols |-> symbols,
         start |-> ValueOf(ELFLookupSymbolByName(obj, "NOTYPE", "__code")),
         end   |-> ValueOf(ELFLookupSymbolByName(obj, "NOTYPE", "__end"))]

initKernelTable(file) ==
    Object(file.sections, IF HasSymbolTable(file) THEN file.symbols ELSE <<>>)

\* Without a symbol table the size is read through a null pointer, and that many
\* symbols are taken to begin at address 0.
ELFLoad(file) ==
    Object(file.sections, IF HasSymbolTable(file) THEN file.symbols ELSE LowSymbols)

\* Unsigned, modulo 2^32: a symbol above the address is very far away.
Distance(address, value) == (address - value) % AddressSpace

\* Mutation of Nearer: the difference is signed.
NearerSigned(address, v, w) == address - v < address - w

Nearer(address, v, w) == Distance(address, v) < Distance(address, w)

\* The first of the nearest, among the symbols of the type.
ELFFindNearestSymbolByAddress(obj, type, address) ==
    LET Nearest(symbol) ==
            /\ symbol.type = type
            /\ \A i \in DOMAIN obj.symbols : obj.symbols[i].type = type =>
                  ~Nearer(address, obj.symbols[i].value, symbol.value)
    IN  IF obj.sections = <<>> \/ address < obj.start \/ address > obj.end THEN None
        ELSE Get(obj.symbols, ElfSequences!SelectInSeq(obj.symbols, Nearest))

\* printStackFrame looks in the kernel, and then in the program of the task.
SymbolOfFrame(kernel, program, address) ==
    LET inKernel == ELFFindNearestSymbolByAddress(kernel, "FUNC", address)
    IN  IF inKernel # None THEN inKernel
        ELSE ELFFindNearestSymbolByAddress(program, "FUNC", address)
-----------------------------------------------------------------------------
(* modules.c *)

getModuleName(file) ==
    IF ELFLookupSectionByName(file, ".module_info") = None THEN "NULL" ELSE file.moduleName

\* The place of the first module with the name, among those that are ELF files
\* and have a name; 0 when there is none.
getModuleByName(modules, name) ==
    LET Matches(file) == ELF32CheckMagic(file) /\ getModuleName(file) = name
    IN  ElfSequences!SelectInSeq(modules, Matches)
=============================================================================
