------------------------------ MODULE DecimalText ------------------------------
(***************************************************************************)
(* The text of an int, as 11.c stores it in data.txt: what asprintf("%d")  *)
(* writes, what fscanf("%d") makes of the bytes it finds, and what         *)
(* pwrite(fd, text, strlen(text), 0) leaves in a file that was longer or   *)
(* shorter than the text.                                                  *)
(*                                                                         *)
(* Characters are small integers: a digit is itself, and three further     *)
(* codes stand for the sign, for white space and for any other byte.       *)
(* Nothing here is recursive: an int has at most ten digits, so digits are *)
(* read off with a table of the powers of ten.                             *)
(***************************************************************************)
EXTENDS Integers, Sequences, SequencesExt

CONSTANT IntMax      \* INT_MAX: the width of a C int, smaller in a model run

ASSUME IntMaxAssumption == IntMax \in Nat /\ IntMax >= 9 /\ IntMax <= 2147483647

CInt == (-IntMax - 1) .. IntMax

Digit  == 0 .. 9
Minus  == 10
Blank  == 11         \* a space or a newline
Letter == 12         \* a byte that no int can contain
Char   == Digit \cup {Minus, Blank, Letter}

MaxDigits == 10
Pow10 == <<1, 10, 100, 1000, 10000, 100000, 1000000, 10000000, 100000000,
           1000000000>>

\* The k low decimal digits of n, the most significant first.
DigitsAt(n, k) == [i \in 1 .. k |-> (n \div Pow10[k - i + 1]) % 10]

\* How many digits the text of n has.
Width(n) == CHOOSE k \in 1 .. MaxDigits :
                /\ k = 1 \/ n >= Pow10[k]
                /\ k = MaxDigits \/ n < Pow10[k + 1]

\* asprintf(&newcnt, "%d", n).
FormatInt(n) == IF n < 0 THEN <<Minus>> \o DigitsAt(-n, Width(-n))
                         ELSE DigitsAt(n, Width(n))

\* Mutant: the file was opened with O_APPEND.
OverwriteAppend(file, text) == file \o text

\* pwrite(fd, text, strlen(text), 0): the file is not truncated.
Overwrite(file, text) ==
    [i \in 1 .. (IF Len(text) > Len(file) THEN Len(text) ELSE Len(file)) |->
        IF i <= Len(text) THEN text[i] ELSE file[i]]

-----------------------------------------------------------------------------
\* fscanf("%d") skips white space, takes a sign and the longest run of digits.

SkipBlanks(s) == LET start == SelectInSeq(s, LAMBDA c : c # Blank)
                 IN IF start = 0 THEN << >> ELSE SubSeq(s, start, Len(s))

DigitRun(s) == LET stop == SelectInSeq(s, LAMBDA c : c \notin Digit)
               IN IF stop = 0 THEN s ELSE SubSeq(s, 1, stop - 1)

Signed(s) == Len(s) > 0 /\ s[1] = Minus

NumberText(s) == DigitRun(IF Signed(s) THEN Tail(s) ELSE s)

\* The number that at most ten digits denote.
DigitsValue(run) ==
    LET d(j) == IF j <= Len(run) THEN run[Len(run) + 1 - j] * Pow10[j] ELSE 0
    IN d(1) + d(2) + d(3) + d(4) + d(5) + d(6) + d(7) + d(8) + d(9) + d(10)

\* What fscanf stores, one of these values: the number the text denotes, or
\* any int when it does not fit one (C leaves that undefined); at the end of
\* the file nothing, so the variable keeps its old value.  No value at all:
\* fscanf returned 0, the text is not a number.
ScanInt(s, old) ==
    LET text  == SkipBlanks(s)
        run   == NumberText(text)
        value == (IF Signed(text) THEN -1 ELSE 1) * DigitsValue(run)
    IN IF text = << >> THEN {old}
       ELSE IF run = << >> THEN {}
       ELSE IF Len(run) <= MaxDigits /\ value \in CInt THEN {value} ELSE CInt
=============================================================================
