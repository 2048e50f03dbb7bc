--------------------------------- MODULE Pci ---------------------------------
(***************************************************************************)
(* The PCI bus: the configuration registers (kernel/src/drivers/pci/       *)
(* pci.c), the scan, and the names of what it finds (shared/src/drivers/   *)
(* pci/pci_ids.c).  A 32-bit register is the sequence of its four bytes,   *)
(* the low one first; a name is the sequence of the labels of its case.    *)
(***************************************************************************)
EXTENDS Stdlib, FiniteSets

CONSTANTS Bus,            \* the buses there are, of 0 .. 255
          KnownVendor,    \* the identifiers, as two bytes, that have a name
          MaxDevices      \* the size of devices[], in the kernel and in main

ASSUME PciConstants == Bus \subseteq 0 .. 255 /\ Bus # {} /\ MaxDevices \in Nat

Byte == 0 .. 255
Functions == Bus \X (0 .. 31) \X (0 .. 7)

\* PCI_CONF1_ADDRESS: the two low bits of the register number are cut off.
PCI_CONF1_ADDRESS(f, reg) == [function |-> f, reg |-> reg - (reg % 4)]

\* The configuration: for each function that there is, its registers by number.
Inl(config, address) ==
    IF address.function \in DOMAIN config THEN config[address.function][address.reg]
    ELSE <<255, 255, 255, 255>>

\* The bytes of the register from `reg` on; a half is at an even byte.  A
\* function that cannot exist is not read, and the caller's value stays 0.
PCIDirectRead(config, f, reg, len) ==
    LET shift == IF len = 1 THEN reg % 4 ELSE IF len = 2 THEN 2 * ((reg \div 2) % 2) ELSE 0
        data == Inl(config, PCI_CONF1_ADDRESS(f, reg))
    IN  IF f[2] > 31 \/ f[3] > 7 THEN [i \in 1 .. len |-> 0]
        ELSE SubSeq(data, shift + 1, shift + len)

PCIGetVendorID(config, f) == PCIDirectRead(config, f, 0, 2)
PCIGetDeviceID(config, f) == PCIDirectRead(config, f, 2, 2)

\* Mutation of PCIGetClassCode: the revision is not shifted out.
PCIGetClassAndRevision(config, f) == SubSeq(PCIDirectRead(config, f, 8, 4), 1, 3)

\* classCode >> 8: the interface, the subclass and the base class.
PCIGetClassCode(config, f) == SubSeq(PCIDirectRead(config, f, 8, 4), 2, 4)

Present(config, f) == PCIGetVendorID(config, f) # <<255, 255>>

\* What the scan writes into devices[]; the order is that of the three loops.
Precedes(f, g) == \E i \in 1 .. 3 : f[i] < g[i] /\ \A j \in 1 .. i - 1 : f[j] = g[j]
NthScanned(found, n) == CHOOSE f \in found : Cardinality({g \in found : Precedes(g, f)}) = n - 1

PCIDirectScan(config) ==
    LET found == {f \in Functions : Present(config, f)}
        Scanned(f) == [vendor |-> PCIGetVendorID(config, f),
                       device |-> PCIGetDeviceID(config, f),
                       class  |-> PCIGetClassCode(config, f),
                       bus |-> f[1], dev |-> f[2], fn |-> f[3]]
    IN  [i \in 1 .. Cardinality(found) |-> Scanned(NthScanned(found, i))]

\* Nothing compares the count with the size of an array: the scan writes behind
\* the kernel's devices[], on its stack, and the copy behind the program's.
Overruns(config) == Len(PCIDirectScan(config)) > MaxDevices
-----------------------------------------------------------------------------
(* Names. *)

\* The subclasses that have a name, by base class.
CommonClasses ==
    << {0, 1, 5}, 0 .. 8 \cup {128}, 0 .. 8 \cup {128}, 0 .. 3 \cup {128}, 0 .. 3 \cup {128},
       {0, 1, 128}, 0 .. 10 \cup {128}, 0 .. 5 \cup {128}, 0 .. 6 \cup {128, 144},
       0 .. 4 \cup {128} >>

OtherClasses ==
    << {0, 128}, {0, 1, 2, 16, 32, 48, 64}, 0 .. 9, {0, 1, 16, 17, 18, 32, 33, 128}, {0},
       1 .. 4, {0, 16, 128}, {0, 1, 16, 32, 128}, {0, 1} >>

\* The base classes with one name for all subclasses.
WholeClasses == {19, 64, 255}

Name(base, sub) == itoa(16, base) \o <<"/">> \o itoa(16, sub)
Unclassified == <<"u", "n", "c">>

\* A display controller gets the names of the multimedia controllers.
PCIGetClassName(class) ==
    LET base == class[3]
        sub == class[2]
        named == CommonClasses \o OtherClasses
    IN  IF base \in WholeClasses THEN itoa(16, base)
        ELSE IF base < Len(named) /\ sub \in named[base + 1]
        THEN Name(IF base = 3 THEN 4 ELSE base, sub)
        ELSE Unclassified

\* Without a default and a return, an unknown vendor gives whatever is in the
\* register that a pointer is returned in: `text` is what lies at that address,
\* for a caller that may read there.
PCIGetVendorName(vendor, text) ==
    IF vendor \in KnownVendor THEN Name(vendor[2], vendor[1]) ELSE text
=============================================================================
