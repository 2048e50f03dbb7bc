------------------------------ MODULE MCBoot ------------------------------
(***************************************************************************)
(* The instance of Boot.tla that TLC checks.                               *)
(***************************************************************************)
EXTENDS Boot, TLC

Symmetry == Permutations(Task \ {kernelTask})

MCText == <<"letter">>

Bios(entry, revision, sum) ==
    [signature |-> "_32_", entry |-> entry, revision |-> revision, length |-> 1, sum |-> sum]
MCBIOS32Area == {<<>>, <<Nothing, Bios(\hF0000, 0, 0)>>,
                 <<Bios(\hF0000, 0, 1), Bios(\hF0000, 0, 0)>>, <<Bios(\h100000, 0, 0)>>}

Table(signature, sum) == [signature |-> signature, sum |-> sum]
Rsdt(sum, entries) == [signature |-> "RSDT", sum |-> sum, entries |-> entries,
                       behind |-> <<Table("junk", 0), Table("FACP", 0)>>]
Rsdp(sum, rsdt) == [signature |-> "RSD PTR ", sum |-> sum, rsdt |-> rsdt]
MCACPIArea == {<<>>, <<Rsdp(1, Nothing)>>, <<Rsdp(0, Rsdt(1, <<>>))>>}
    \cup {<<Nothing, Rsdp(0, Rsdt(0, entries))>> : entries \in
            {<<>>, <<Table("FACP", 1), Table("HPET", 0), Table("FACP", 0)>>, <<Table("FACP", 1)>>}}

MCSection == {[addr |-> 16, size |-> 8], [addr |-> 24, size |-> 8], [addr |-> 34, size |-> 3]}

Info == [name |-> ".module_info", type |-> "PROGBITS", addr |-> 0]
Symtab == [name |-> ".symtab", type |-> "SYMTAB", addr |-> 0]
Label(name, value) == [name |-> name, type |-> "NOTYPE", value |-> value]
Function(name, value) == [name |-> name, type |-> "FUNC", value |-> value]

MCKernelFile ==
    [magic |-> TRUE, sections |-> <<Symtab>>, moduleName |-> "NULL",
     symbols |-> <<Label("__code", 16), Function("main", 24), Function("start", 16),
                   Label("__end", 40), Function("fork", 32)>>]

MCShell == [magic |-> TRUE, sections |-> <<Info, Symtab>>, moduleName |-> "shell",
            symbols |-> <<Function("printf", 72), Label("__code", 64), Label("__end", 80),
                          Function("handle_command", 66)>>]

\* A module that is not an ELF file, one with another name, the shell, and the
\* shell without its symbols.
MCModuleFile == [text  |-> [MCShell EXCEPT !.magic = FALSE],
                 other |-> [MCShell EXCEPT !.moduleName = "other"],
                 shell |-> MCShell,
                 stripped |-> [MCShell EXCEPT !.sections = <<Info>>]]

MCLowSymbols == <<Label("__code", 0), Function("junk", 68), Label("__end", 255)>>
MCModuleList == {<<>>, <<"text", "other", "shell">>, <<"stripped">>}
===========================================================================
