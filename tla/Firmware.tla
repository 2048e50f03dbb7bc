------------------------------ MODULE Firmware ------------------------------
(***************************************************************************)
(* What kernel_main looks for in the memory of the BIOS: the BIOS32        *)
(* directory (drivers/bios32) and the tables of ACPI (drivers/acpi).       *)
(*                                                                         *)
(* The memory from 0xE0000 to 0xFFFFF is the sequence of what is found at  *)
(* its addresses, four bytes apart; a structure is the record of what the  *)
(* code reads of it.  `sum` is the sum of its bytes modulo 256.            *)
(***************************************************************************)
EXTENDS Integers, Sequences

FirmwareSequences == INSTANCE SequencesExt

Nothing == [signature |-> "none"]

FirstSigned(area, signature) ==
    LET i == FirmwareSequences!SelectInSeq(area, LAMBDA s : s.signature = signature)
    IN  IF i = 0 THEN Nothing ELSE area[i]

\* find_bios32 and BIOS32Find: only the first structure with the signature is
\* looked at.
BIOS32Find(area) ==
    LET ptr == FirstSigned(area, "_32_")
    IN  IF ptr # Nothing /\ ptr.entry < \h100000 /\ ptr.revision = 0 /\ ptr.length = 1
           /\ ptr.sum = 0
        THEN ptr ELSE Nothing

RSDP_SIGNATURE == "RSD PTR "

\* ll_find_rsdp and findRSDP, likewise.
findRSDP(area) ==
    LET ptr == FirstSigned(area, RSDP_SIGNATURE)
    IN  IF ptr # Nothing /\ ptr.sum = 0 THEN ptr ELSE Nothing

doChecksum(table) == table.sum = 0

\* The table that the pointer leads to.
findRSDT(rsdp) ==
    IF rsdp.rsdt.signature = "RSDT" /\ doChecksum(rsdp.rsdt) THEN rsdp.rsdt ELSE Nothing

\* The loop counts the header without its signature: behind the table's entries
\* it follows eight more words, whatever they are and wherever they lead.
Visited(rsdt) == rsdt.entries \o rsdt.behind

\* Mutation of Matches: a table with a wrong sum ends the search.
MatchesUnchecked(table, signature) == table.signature = signature

Matches(table, signature) == table.signature = signature /\ doChecksum(table)

findInSDT(signature, rsdt) ==
    LET i == FirmwareSequences!SelectInSeq(Visited(rsdt), LAMBDA table : Matches(table, signature))
    IN  IF i = 0 THEN Nothing ELSE Visited(rsdt)[i]
=============================================================================
