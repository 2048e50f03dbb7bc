------------------------------- MODULE Stdlib -------------------------------
(***************************************************************************)
(* The library that the kernel and the programs share (shared/src/         *)
(* stdlib.c) and the printf of the programs (modules/shared/src/io/        *)
(* screen.c), which the kernel has twice more, for the screen and for a    *)
(* serial port, line by line the same.                                     *)
(*                                                                         *)
(* A character is a string of length one; a char* is the sequence of the   *)
(* characters before the 0.  Capital letters as digits, and the blanks \r,  *)
(* \v and \f, are left out.                                                *)
(*                                                                         *)
(* An int has IntBits bits: with 8 or 16, which TLC can count with, as     *)
(* with 32, the largest one ends in the 7 that atoi compares with.         *)
(***************************************************************************)
EXTENDS Integers, Sequences

CONSTANT IntBits

ASSUME IntAssumption == IntBits \in {8, 16, 32}

Word == IF IntBits = 8 THEN 256 ELSE IF IntBits = 16 THEN 256 * 256 ELSE 256 * 256 * 256 * 256
INT_MAX == Word \div 2 - 1
INT_MIN == -(Word \div 2)

\* A value as a uint32_t and as an int32_t.
Unsigned(v) == v % Word
Signed(v) == IF v % Word > INT_MAX THEN (v % Word) - Word ELSE v % Word

Digit == <<"0", "1", "2", "3", "4", "5", "6", "7", "8", "9", "a", "b", "c", "d", "e", "f">>
DigitChar(d) == Digit[d + 1]
DigitValue(c) == CHOOSE d \in 0 .. 15 : DigitChar(d) = c
Decimal == {Digit[i] : i \in 1 .. 10}
isdigit(c) == c \in Decimal
Blank == " "
isspace(c) == c \in {Blank, "tab", "newline"}
HexDigit == {Digit[i] : i \in 1 .. 16}

At(s, i) == IF i <= Len(s) THEN s[i] ELSE "nul"

\* The place of the first character of s, from i on, that is not one of C.
SkipAll(s, i, C) == CHOOSE j \in i .. Len(s) + 1 :
                        /\ At(s, j) \notin C
                        /\ \A k \in i .. j - 1 : s[k] \in C
-----------------------------------------------------------------------------
strlen(s) == Len(s)

\* The sign of the difference is left out.
strcmp(s1, s2) ==
    LET i == CHOOSE j \in 1 .. Len(s1) + 1 :
                 /\ j = Len(s1) + 1 \/ At(s2, j) # s1[j]
                 /\ \A k \in 1 .. j - 1 : At(s2, k) = s1[k]
    IN  IF At(s1, i) = At(s2, i) THEN 0 ELSE 1

\* Not 0 when both end before n characters, equal or not.
strncmp(s1, s2, n) ==
    IF n <= Len(s1) /\ \A k \in 1 .. n : At(s2, k) = s1[k] THEN 0 ELSE 1

\* `rest` is what the loop has left of the value after n digits.  The division
\* is one of unsigned numbers: no number gets a sign.
itoa(base, value) ==
    LET rest[n \in 0 .. IntBits] ==
            IF n = 0 THEN Unsigned(value) ELSE rest[n - 1] \div base
        len == CHOOSE n \in 1 .. IntBits : rest[n] = 0 /\ \A k \in 1 .. n - 1 : rest[k] # 0
    IN  [i \in 1 .. len |-> DigitChar(rest[len - i] % base)]

\* Mutation of Overflows: the last digit is not compared.
OverflowsLate(value, digit) == value > INT_MAX \div 10

Overflows(value, digit) == \/ value > INT_MAX \div 10
                           \/ value = INT_MAX \div 10 /\ digit > 7

\* What a digit of the loop adds; one that does not fit ends it.
AddDigit(base, digit) ==
    IF base.over \/ Overflows(base.value, digit) THEN [base EXCEPT !.over = TRUE]
    ELSE [base EXCEPT !.value = 10 * @ + digit]

ReadDecimal(digits) ==
    LET base[k \in 0 .. Len(digits)] ==
            IF k = 0 THEN [value |-> 0, over |-> FALSE]
            ELSE AddDigit(base[k - 1], DigitValue(digits[k]))
    IN  base[Len(digits)]

\* Blanks, a sign, digits; a number that does not fit is the nearest that does.
atoi(s) ==
    LET i == SkipAll(s, 1, {Blank})
        sign == IF At(s, i) = "-" THEN -1 ELSE 1
        first == IF At(s, i) \in {"-", "+"} THEN i + 1 ELSE i
        base == ReadDecimal(SubSeq(s, first, SkipAll(s, first, Decimal) - 1))
    IN  IF base.over THEN IF sign = 1 THEN INT_MAX ELSE INT_MIN
        ELSE base.value * sign

ReadHex(digits) ==
    LET result[k \in 0 .. Len(digits)] ==
            IF k = 0 THEN 0 ELSE Signed(16 * result[k - 1] + DigitValue(digits[k]))
    IN  result[Len(digits)]

\* Base 16: with or without 0x; a number that does not fit wraps.  No caller
\* gives another base, a null pointer or an endptr.
strtoi(s) ==
    LET i == SkipAll(s, 1, {Blank, "tab", "newline"})
        sign == IF At(s, i) = "-" THEN -1 ELSE 1
        start == IF At(s, i) \in {"-", "+"} THEN i + 1 ELSE i
        first == IF At(s, start) = "0" /\ At(s, start + 1) = "x" THEN start + 2 ELSE start
    IN  Signed(sign * ReadHex(SubSeq(s, first, SkipAll(s, first, HexDigit) - 1)))
-----------------------------------------------------------------------------
(* strtok: a word of a buffer, and the buffer and backup_string after it.   *)
(* A place is an index of the buffer; 0 is the null pointer.                *)

IsDelim(buffer, i) == buffer[i] = Blank

\* Mutation of NextPlace: the next call starts at the 0 that ends this word.
NextPlaceStays(buffer, end) == end

NextPlace(buffer, end) == IF buffer[end] = "nul" THEN end ELSE end + 1

\* When there is no word left, backup_string stays what it was: the parameter
\* `place` is srcString, or backup_string when srcString is null.
strtok(buffer, place) ==
    LET first == CHOOSE j \in place .. Len(buffer) :
                     ~IsDelim(buffer, j) /\ \A k \in place .. j - 1 : IsDelim(buffer, k)
        end == CHOOSE j \in first .. Len(buffer) :
                   /\ buffer[j] = "nul" \/ IsDelim(buffer, j)
                   /\ \A k \in first .. j - 1 : buffer[k] # "nul" /\ ~IsDelim(buffer, k)
    IN  IF place = 0 \/ buffer[first] = "nul"
        THEN [word |-> <<>>, buffer |-> buffer, backup |-> place, found |-> FALSE]
        ELSE [word |-> SubSeq(buffer, first, end - 1), found |-> TRUE,
              buffer |-> [buffer EXCEPT ![end] = "nul"],
              backup |-> NextPlace(buffer, end)]
-----------------------------------------------------------------------------
(* printf.  A format is a sequence of characters to copy and of             *)
(* conversions; a conversion has flags and a width of its own, or takes     *)
(* what the one before it has left in `num`.                                *)

Char(c) == [kind |-> "char", char |-> c]
Plain(conv) == [kind |-> conv, own |-> FALSE, sym |-> Blank, padRight |-> FALSE, width |-> 0]
ZeroPadded(conv, w) == [kind |-> conv, own |-> TRUE, sym |-> "0", padRight |-> FALSE, width |-> w]
PaddedRight(conv, w) == [kind |-> conv, own |-> TRUE, sym |-> Blank, padRight |-> TRUE, width |-> w]
Chars(s) == [i \in 1 .. Len(s) |-> Char(s[i])]

\* while (num--), with a char that wraps.
Times(num, sym) == [i \in 1 .. num % 256 |-> sym]

\* Mutation of Reduced: strlen returns an unsigned number, and so compares num.
ReducedUnsigned(num, length) == num - IF num >= 0 /\ length > num THEN num ELSE length

\* num -= strlen(p) > num ? num : strlen(p)
Reduced(num, length) == num - IF length > num THEN num ELSE length

\* What one item prints, and num and the arguments after it.
PrintItem(state, item) ==
    IF item.kind = "char" THEN [state EXCEPT !.out = Append(@, item.char)]
    ELSE
    LET num == IF item.own THEN item.width ELSE state.num
        p == IF item.kind = "x" THEN itoa(16, Head(state.args))
             ELSE IF item.kind = "d" THEN itoa(10, Head(state.args))
             ELSE Head(state.args)
        reduced == IF num # 0 THEN Reduced(num, strlen(p)) ELSE 0
        left == num # 0 /\ ~item.padRight
        right == reduced # 0 /\ item.padRight
    IN  IF item.kind = "c"
        THEN [state EXCEPT !.out = Append(@, Head(state.args)), !.args = Tail(@), !.num = num]
        ELSE [out |-> state.out \o (IF left THEN Times(reduced, item.sym) ELSE <<>>) \o p
                                \o (IF right THEN Times(reduced, item.sym) ELSE <<>>),
              num |-> IF left \/ right THEN -1 ELSE reduced,
              args |-> Tail(state.args)]

printf(format, args) ==
    LET state[n \in 0 .. Len(format)] ==
            IF n = 0 THEN [out |-> <<>>, num |-> 0, args |-> args]
            ELSE PrintItem(state[n - 1], format[n])
    IN  state[Len(format)].out
=============================================================================
