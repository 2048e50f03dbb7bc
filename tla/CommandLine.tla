----------------------------- MODULE CommandLine -----------------------------
(***************************************************************************)
(* The command line of the shell (modules/shell/src/main.c): main's loop   *)
(* over getch, the line it edits, and handle_command.                      *)
(*                                                                         *)
(* One program: a key is handled in one step, a command when its line      *)
(* ends.  The user types the lines of Line, character by character, and    *)
(* now and then takes a character back.  What `shell` does is in           *)
(* Shell.tla.                                                              *)
(***************************************************************************)
EXTENDS Pci, SequencesExt

CONSTANTS LineSize,        \* the bytes of `command`; a line fits, with its 0
          MaxArguments,    \* the size of argv
          Line,            \* what the user types, without the newline
          Config,          \* the configurations of the PCI bus
          CommandName,     \* the names of the commands
          OUT_W,           \* the bytes in a line of memPrint
          Readable,        \* the addresses that a program may read
          Garbage,         \* what a pointer that nobody set may point to
          MaxBackspaces    \* bound: characters taken back in one line

Command == {"info", "getpid", "getring", "readmem", "echo", "lspci", "shell", "exit"}

\* A string holds no 0: main ignores the 0 that getch may return.
Text == {s \in Seq(STRING) : \A i \in 1 .. Len(s) : s[i] # "nul"}

\* The registers that lspci reads of a function that there is; its vendor is
\* not the one that an empty slot answers.
HasRegisters(registers) ==
    /\ registers[0] \in [1 .. 4 -> Byte] /\ registers[8] \in [1 .. 4 -> Byte]
    /\ SubSeq(registers[0], 1, 2) # <<255, 255>>

ASSUME CommandLineConstants ==
    /\ LineSize \in Nat \ {0}
    /\ \A l \in Line : l \in Text /\ Len(l) < LineSize
    /\ CommandName \in [Command -> Text]
    /\ \A c, d \in Command : CommandName[c] = CommandName[d] => c = d
    /\ \A config \in Config : /\ DOMAIN config \subseteq Functions
                              /\ \A f \in DOMAIN config : HasRegisters(config[f])
    /\ Readable \subseteq 0 .. Word - 1
    /\ Garbage \subseteq Text /\ Garbage # {}
    /\ MaxArguments \in Nat \ {0} /\ OUT_W \in Nat \ {0} /\ MaxBackspaces \in Nat

VARIABLES command,         \* main's buffer
          ptr,             \* where the next character goes
          backup_string,   \* strtok's
          running,         \* _running, until the kernel panics
          shown,           \* what the screen shows after the prompt
          backspaces,
          did              \* the command that was executed, until the next key

commandVars == <<command, ptr, backup_string, running, shown, backspaces, did>>

Buffer == 1 .. LineSize
Nothing == [name |-> "none", line |-> <<>>, words |-> <<>>, bus |-> <<>>, printed |-> <<>>]

Init == /\ command = [i \in Buffer |-> "nul"]
        /\ ptr = 1
        /\ backup_string = 0
        /\ running = TRUE
        /\ shown = <<>>
        /\ backspaces = 0
        /\ did = Nothing
-----------------------------------------------------------------------------
(* handle_command. *)

\* The first call of strtok, with the line, and each one that fills argv, with
\* the null pointer; the words so far are in `word`.
FirstToken(buffer) ==
    LET call == strtok(buffer, 1)
    IN  [call EXCEPT !.word = IF call.found THEN <<@>> ELSE <<>>]

NextToken(before) ==
    LET call == strtok(before.buffer, before.backup)
    IN  IF ~before.found THEN before
        ELSE [call EXCEPT !.word = IF call.found THEN Append(before.word, @) ELSE before.word]

Tokens(buffer) ==
    LET next[n \in 0 .. MaxArguments] ==
            IF n = 0 THEN FirstToken(buffer) ELSE NextToken(next[n - 1])
    IN  next[MaxArguments]

NameOf(cmd) == {c \in Command : strcmp(cmd, CommandName[c]) = 0}

\* A command prints lines and returns, or a page fault, which is a panic for a
\* program, ends it.
Quiet == [printed |-> <<>>, faults |-> FALSE]

\* memPrint: the header, and for each line its address; the bytes are left out.
memPrint(address, lines) ==
    <<printf(<<Char("@"), ZeroPadded("x", IntBits \div 4)>>, <<address>>)>> \o
    [i \in 1 .. lines |->
        printf(<<ZeroPadded("x", IntBits \div 4), Char(Blank)>>,
               <<Unsigned(address + OUT_W * (i - 1))>>)]

\* The bytes of a line, which are all read, after its address was printed.
BytesOf(address, i) == {Unsigned(address + OUT_W * (i - 1) + j) : j \in 0 .. OUT_W - 1}
IsReadable(address, i) == BytesOf(address, i) \subseteq Readable

\* All lines, or those up to the first that has a byte that cannot be read.
ReadMemory(address, asked) ==
    LET Ends(n) == /\ \A i \in 1 .. n - 1 : IsReadable(address, i)
                   /\ n < asked => n > 0 /\ ~IsReadable(address, n)
    IN  {[printed |-> memPrint(address, n), faults |-> n > 0 /\ ~IsReadable(address, n)] :
            n \in {k \in 0 .. asked : Ends(k)}}

Echo(words) ==
    <<FoldLeft(LAMBDA out, w : out \o printf(<<Plain("s"), Char(Blank)>>, <<w>>), <<>>, words)>>

\* A line of lspci, and one that ends where the name of the vendor is read.
Columns == <<ZeroPadded("x", 3), Char(":"), ZeroPadded("x", 2), Char(":"), ZeroPadded("x", 2),
             Char(Blank), Plain("s"), Char("(")>>
DeviceLine(device, text, faults) ==
    printf(IF faults THEN Columns ELSE Columns \o <<Plain("s"), Char(")")>>,
           <<device.bus, device.dev, device.fn, PCIGetClassName(device.class),
             PCIGetVendorName(device.vendor, text)>>)

\* The name of a vendor that is not known is some text, or cannot be read.
ListDevices(devices) ==
    LET Lines(n, faults) ==
            {[printed |-> [i \in 1 .. n |-> DeviceLine(devices[i], texts[i], faults /\ i = n)],
              faults |-> faults] : texts \in [1 .. n -> Garbage]}
        unknown == {n \in DOMAIN devices : devices[n].vendor \notin KnownVendor}
    IN  Lines(Len(devices), FALSE) \cup UNION {Lines(n, TRUE) : n \in unknown}

\* What follows a write behind the arrays of lspci is not modelled: it ends
\* the program like a fault.
Outcomes(name, args, config) ==
    CASE name = "readmem" ->
             IF Len(args) < 2 THEN {Quiet}
             ELSE ReadMemory(strtoi(args[1]), Unsigned(atoi(args[2])) \div OUT_W)
      [] name = "echo" -> {[Quiet EXCEPT !.printed = Echo(args)]}
      [] name = "lspci" -> IF Overruns(config) THEN {[Quiet EXCEPT !.faults = TRUE]}
                           ELSE ListDevices(PCIDirectScan(config))
      [] OTHER -> {Quiet}

\* The two early returns: an empty line, and a line of blanks.
IsEmptyLine(buffer) == buffer[1] = "nul" \/ ~strtok(buffer, 1).found

handle_command(buffer) ==
    LET tokens == Tokens(buffer)
        names == NameOf(tokens.word[1])
        name == IF names = {} THEN "not found" ELSE CHOOSE c \in names : TRUE
    IN  IF IsEmptyLine(buffer)
        THEN /\ did' = [Nothing EXCEPT !.name = "empty", !.line = shown]
             /\ UNCHANGED <<running, backup_string>>
        ELSE \E config \in IF name = "lspci" THEN Config ELSE {<<>>} :
             \E outcome \in Outcomes(name, Tail(tokens.word), config) :
             /\ backup_string' = tokens.backup
             /\ did' = [name |-> name, line |-> shown, words |-> tokens.word, bus |-> config,
                        printed |-> outcome.printed]
             /\ running' = (name # "exit" /\ ~outcome.faults)
-----------------------------------------------------------------------------
(* main's loop. *)

Newline == /\ running
           /\ shown \in Line
           /\ handle_command([command EXCEPT ![ptr] = "nul"])
           /\ command' = [i \in Buffer |-> "nul"]
           /\ ptr' = 1
           /\ shown' = <<>> /\ backspaces' = 0

CanErase == ptr > 1

\* The character is left in the buffer; on the screen it is gone.
Backspace == /\ running /\ backspaces < MaxBackspaces
             /\ CanErase
             /\ shown' = SubSeq(shown, 1, Len(shown) - 1)
             /\ ptr' = ptr - 1
             /\ backspaces' = backspaces + 1
             /\ did' = Nothing
             /\ UNCHANGED <<command, backup_string, running>>

Prefix == UNION {Prefixes(l) : l \in Line}

Type(ch) == /\ running
            /\ Append(shown, ch) \in Prefix
            /\ shown' = Append(shown, ch)
            /\ command' = [command EXCEPT ![ptr] = ch]
            /\ ptr' = ptr + 1
            /\ did' = Nothing
            /\ UNCHANGED <<backup_string, running, backspaces>>

Character == UNION {ToSet(l) : l \in Line}

Next == Newline \/ Backspace \/ \E ch \in Character : Type(ch)

Spec == Init /\ [][Next]_commandVars
-----------------------------------------------------------------------------
TypeOK ==
    /\ command \in [Buffer -> STRING]
    /\ ptr \in Buffer
    /\ backup_string \in 0 .. LineSize
    /\ running \in BOOLEAN
    /\ shown \in Prefix /\ backspaces \in 0 .. MaxBackspaces
    /\ did.name \in Command \cup {"none", "empty", "not found"}

\* The words of a line, by their definition: what lies between blanks.
Starts(line) == {i \in 1 .. Len(line) : line[i] # Blank /\ (i = 1 \/ line[i - 1] = Blank)}
WordAt(line, i) ==
    SubSeq(line, i, CHOOSE j \in i .. Len(line) : /\ j = Len(line) \/ line[j + 1] = Blank
                                                  /\ \A k \in i .. j : line[k] # Blank)
Nth(S, n) == CHOOSE i \in S : Cardinality({j \in S : j < i}) = n - 1
WordsOf(line) == [n \in 1 .. Cardinality(Starts(line)) |-> WordAt(line, Nth(Starts(line), n))]

\* The command that is executed, and its arguments, are those of the line that
\* is on the screen: nothing of a character that was taken back, of an earlier
\* line, or of what strtok remembers of it (main.c lines 38-57 and 141-171,
\* stdlib.c lines 205-239).
TheLineIsExecuted ==
    did # Nothing =>
        LET words == WordsOf(did.line) IN
        /\ did.words = [i \in DOMAIN words \cap 1 .. MaxArguments + 1 |-> words[i]]
        /\ did.name \in Command => words[1] = CommandName[did.name]
        /\ did.name = "not found" => \A c \in Command : words[1] # CommandName[c]

\* The value of a number, by its definition; "nul" where there is none.
Sign(w) == IF At(w, 1) = "-" THEN -1 ELSE 1
Positional(base, digits) ==
    LET value[k \in 0 .. Len(digits)] ==
            IF k = 0 THEN 0 ELSE base * value[k - 1] + DigitValue(digits[k])
    IN  value[Len(digits)]

Unsign(w) == IF At(w, 1) = "-" THEN Tail(w) ELSE w
IsDecimal(w) == Unsign(w) # <<>> /\ \A i \in 1 .. Len(Unsign(w)) : isdigit(Unsign(w)[i])
IsHex(w) == Unsign(w) # <<>> /\ \A i \in 1 .. Len(Unsign(w)) : Unsign(w)[i] \in HexDigit

Clamp(n) == IF n > INT_MAX THEN INT_MAX ELSE IF n < INT_MIN THEN INT_MIN ELSE n

\* readmem starts at the address that was typed, modulo the width of a word,
\* and shows as many whole lines as the number that was typed or the nearest
\* that an int holds asks for; the address it prints reads back as the same.
\* It stops early, and the program with it, only in a line that has a byte that
\* the program may not read, and never gets past one (main.c lines 13-32 and
\* 73-80, stdlib.c lines 69-113 and 137-192, paging.c lines 315-325).
NumbersAreRead ==
    did.name = "readmem" /\ Len(did.words) > 2 =>
        LET typed == did.words[2]
            address == Sign(typed) * Positional(16, Unsign(typed))
            count == did.words[3]
            asked == Unsigned(Clamp(Sign(count) * Positional(10, Unsign(count)))) \div OUT_W
            lines == Len(did.printed) - 1
        IN  /\ IsHex(typed) =>
                   /\ Unsigned(strtoi(Tail(did.printed[1]))) = Unsigned(address)
                   /\ \A i \in 1 .. lines :
                         (running \/ i < lines) <=> \A j \in 0 .. OUT_W - 1 :
                             Unsigned(address + OUT_W * (i - 1) + j) \in Readable
            /\ IsDecimal(count) => IF running THEN lines = asked ELSE lines \in 1 .. asked

\* A number in at most three places of base 16.
InPlaces(n, places) ==
    [i \in 1 .. places |-> DigitChar((n \div <<1, 16, 256>>[places - i + 1]) % 16)]

Number(f) == 256 * f[1] + 8 * f[2] + f[3]
NthNumber(S, n) == CHOOSE f \in S : Cardinality({g \in S : Number(g) < Number(f)}) = n - 1
ColumnsOf(registers, f) ==
    InPlaces(f[1], 3) \o <<":">> \o InPlaces(f[2], 2) \o <<":">> \o InPlaces(f[3], 2) \o <<Blank>>
      \o PCIGetClassName(Tail(registers[8])) \o <<"(">>

\* lspci lists each function that there is once, by bus, device and function,
\* its columns under each other whatever was printed before, with the names of
\* the classes and vendors in its registers, when they fit in devices[].  Where
\* a vendor has no name something may stand in its place, or the list ends
\* there and the program with it; nowhere else (pci.c lines 65-162, main.c lines
\* 88-96, pci_ids.c lines 202-2472, modules/shared/src/io/screen.c lines 3-81).
DevicesAreListed ==
    did.name = "lspci" /\ Cardinality(DOMAIN did.bus) <= MaxDevices =>
        LET there == DOMAIN did.bus
            listed == Len(did.printed)
            Vendor(f) == SubSeq(did.bus[f][0], 1, 2)
        IN  /\ IF running THEN listed = Cardinality(there) ELSE listed \in 1 .. Cardinality(there)
            /\ \A i \in 1 .. listed :
                  LET f == NthNumber(there, i)
                      columns == ColumnsOf(did.bus[f], f)
                  IN  IF running \/ i < listed
                      THEN \E text \in Garbage : did.printed[i]
                               = columns \o PCIGetVendorName(Vendor(f), text) \o <<")">>
                      ELSE Vendor(f) \notin KnownVendor /\ did.printed[i] = columns
=============================================================================
