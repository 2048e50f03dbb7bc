-------------------------------- MODULE Screen --------------------------------
(***************************************************************************)
(* The text screen of kernel/src/io/screen.c: the cursor, the scrolling,   *)
(* and the cursor that the display controller shows.                       *)
(*                                                                         *)
(* A program prints in a system call, with the interrupts disabled: one    *)
(* step.  kernel_main prints with the interrupts enabled, and a program    *)
(* may print between any two accesses of screenPutChar to the cursor:      *)
(* `printing` is what is left of its text and of the character it prints.  *)
(* Of a character only the kind is modelled, of the screen nothing but     *)
(* where the next character goes.                                          *)
(***************************************************************************)
EXTENDS Integers, Sequences

CONSTANTS SCREEN_WIDTH, SCREEN_HEIGHT,
          Text        \* the characters that kernel_main prints

ASSUME ScreenConstants ==
    /\ SCREEN_WIDTH \in Nat \ {0} /\ SCREEN_HEIGHT \in Nat \ {0}
    /\ Text \in Seq({"tab", "newline", "carriageReturn", "letter", "control"})

Character == {"backspace", "tab", "newline", "carriageReturn", "letter", "control"}

VARIABLES cursor,     \* where the next character goes
          crtc,       \* the display controller: its index register, and the
                      \* locations whose bytes registers 14 and 15 hold
          printing,   \* kernel_main's screenPutChar
          torn        \* history: a program has printed since kernel_main
                      \* began to move the displayed cursor, and nobody since

screenVars == <<cursor, crtc, printing, torn>>

\* The accesses of screenPutChar: kernel_main is before one of them.
Access == {"draw", "loadTab", "loadX", "storeX", "loadY", "storeY", "return",
           "wrap", "storeWrap", "loadCarry", "storeCarry", "scroll", "storeScroll",
           "locationY", "locationX", "index14", "data14", "index15", "data15"}

\* In moveCursor, after its first load of the cursor.
MoveWindow == {"locationX", "index14", "data14", "index15", "data15"}

Location(c) == c.y * SCREEN_WIDTH + c.x

ScreenInit == /\ cursor = [x |-> 0, y |-> 0]
              /\ crtc = [index |-> 15, high |-> 0, low |-> 0]
              /\ printing = [text |-> Text, at |-> "draw", read |-> 0]
              /\ torn = FALSE
-----------------------------------------------------------------------------
(* A whole screenPutChar, in a system call. *)

Step(c, char) ==
    CASE char = "backspace" -> [c EXCEPT !.x = IF @ > 0 THEN @ - 1 ELSE 0]
      [] char = "tab" -> [c EXCEPT !.x = @ + (4 - (@ % 4))]
      [] char = "newline" -> [x |-> 0, y |-> c.y + 1]
      [] char = "carriageReturn" -> [c EXCEPT !.x = 0]
      [] char = "letter"  -> [c EXCEPT !.x = @ + 1]
      [] OTHER       -> c

Wrapped(c) == IF c.x >= SCREEN_WIDTH THEN [x |-> 0, y |-> c.y + 1] ELSE c

\* Mutation of Scrolled: off by one.
ScrolledLate(c) == IF c.y > SCREEN_HEIGHT THEN [c EXCEPT !.y = SCREEN_HEIGHT - 1] ELSE c

Scrolled(c) == IF c.y >= SCREEN_HEIGHT THEN [c EXCEPT !.y = SCREEN_HEIGHT - 1] ELSE c

\* moveCursor, called by screenPutChar and screenClear.
ShowsAt(c) == /\ cursor' = c
              /\ crtc' = [index |-> 15, high |-> Location(c), low |-> Location(c)]
              /\ torn' = (printing.at \in MoveWindow)
              /\ UNCHANGED printing

screenPutChar(char) == ShowsAt(Scrolled(Wrapped(Step(cursor, char))))

screenClear == ShowsAt([x |-> 0, y |-> 0])

\* printf of n lines, and of a text that ends in this line or in the next one.
PrintsLines(n) == ShowsAt(Scrolled([x |-> 0, y |-> cursor.y + n]))

PrintsText == \E n \in 0 .. 1, x \in 0 .. SCREEN_WIDTH - 1 :
                  ShowsAt(Scrolled([x |-> x, y |-> cursor.y + n]))
-----------------------------------------------------------------------------
(* kernel_main's screenPutChar, one access at a time. *)

Prints(char) == printing.text # <<>> /\ Head(printing.text) = char

At(access) == printing.text # <<>> /\ printing.at = access

Then(access, read) == printing' = [text |-> printing.text, at |-> access, read |-> read]

Draw == /\ At("draw")
        /\ Then(CASE Prints("letter") -> "loadX"
                  [] Prints("tab") -> "loadTab"
                  [] Prints("newline") -> "loadY"
                  [] Prints("carriageReturn") -> "return"
                  [] OTHER -> "wrap",
                IF Prints("letter") THEN 1 ELSE 0)
        /\ UNCHANGED <<cursor, crtc, torn>>

Load(access, value, next) == At(access) /\ Then(next, value) /\ UNCHANGED <<cursor, crtc, torn>>

Store(access, c, next) == At(access) /\ cursor' = c /\ Then(next, 0) /\ UNCHANGED <<crtc, torn>>

Test(access, holds, yes, no) == /\ At(access) /\ Then(IF holds THEN yes ELSE no, 0)
                                /\ UNCHANGED <<cursor, crtc, torn>>

Out(access, registers, next) ==
    At(access) /\ crtc' = registers /\ Then(next, printing.read) /\ UNCHANGED <<cursor, torn>>

\* Mutation of Data: the port of the data is always that of register 15.
DataLow(location) == [crtc EXCEPT !.low = location]

\* The port of the data is that of whatever register was selected last.
Data(location) == IF crtc.index = 14 THEN [crtc EXCEPT !.high = location]
                  ELSE [crtc EXCEPT !.low = location]

EndOfChar == /\ At("data15")
             /\ crtc' = Data(printing.read)
             /\ printing' = [text |-> Tail(printing.text), at |-> "draw", read |-> 0]
             /\ UNCHANGED <<cursor, torn>>

\* From here kernel_main's own location is the newer one.
StartMove == /\ At("locationY")
             /\ Then("locationX", cursor.y)
             /\ torn' = FALSE
             /\ UNCHANGED <<cursor, crtc>>

\* The column is read once for a letter, and twice for a tab: how far it is to
\* the stop, and from where.
KernelPrints ==
    \/ Draw
    \/ Load("loadTab", 4 - (cursor.x % 4), "loadX")
    \/ Load("loadX", cursor.x + printing.read, "storeX")
    \/ Store("storeX", [cursor EXCEPT !.x = printing.read], "wrap")
    \/ Load("loadY", cursor.y, "storeY")
    \/ Store("storeY", [cursor EXCEPT !.y = printing.read + 1], "return")
    \/ Store("return", [cursor EXCEPT !.x = 0], "wrap")
    \/ Test("wrap", cursor.x >= SCREEN_WIDTH, "storeWrap", "scroll")
    \/ Store("storeWrap", [cursor EXCEPT !.x = 0], "loadCarry")
    \/ Load("loadCarry", cursor.y, "storeCarry")
    \/ Store("storeCarry", [cursor EXCEPT !.y = printing.read + 1], "scroll")
    \/ Test("scroll", cursor.y >= SCREEN_HEIGHT, "storeScroll", "locationY")
    \/ Store("storeScroll", [cursor EXCEPT !.y = SCREEN_HEIGHT - 1], "locationY")
    \/ StartMove
    \/ Load("locationX", printing.read * SCREEN_WIDTH + cursor.x, "index14")
    \/ Out("index14", [crtc EXCEPT !.index = 14], "data14")
    \/ Out("data14", Data(printing.read), "index15")
    \/ Out("index15", [crtc EXCEPT !.index = 15], "data15")
    \/ EndOfChar

\* The screen by itself, whoever prints.
ScreenNext == \/ KernelPrints
              \/ screenClear \/ \E char \in Character : screenPutChar(char)
              \/ PrintsText \/ \E n \in Nat : PrintsLines(n)

ScreenSpec == ScreenInit /\ [][ScreenNext]_screenVars
-----------------------------------------------------------------------------
\* Between two characters of kernel_main the cursor is on the screen, and in
\* the middle of one a program that prints writes at most one line below it:
\* whatever programs printed between a load and a store of kernel_main, its
\* own wrap and scroll come after the store (screen.c lines 39-74).
CursorInScreen ==
    /\ printing.at = "draw" => cursor.x < SCREEN_WIDTH /\ cursor.y < SCREEN_HEIGHT
    /\ cursor.y <= SCREEN_HEIGHT /\ cursor.x < SCREEN_WIDTH + 4

\* The cursor on display is where the next character goes, unless a program
\* printed after kernel_main had read the first half of the location that it
\* then showed (screen.c lines 17-23); the next character repairs it.
CursorIsShown ==
    printing.at = "draw" /\ ~torn => crtc.high = Location(cursor) /\ crtc.low = Location(cursor)
=============================================================================
