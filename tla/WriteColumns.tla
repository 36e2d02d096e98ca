---------------------------- MODULE WriteColumns ------------------------------
(***************************************************************************)
(* src/WriteColumns.c: a string buffer with a cursor, and the ways to      *)
(* write a number or a text at the cursor.  The buffer and its cursor are  *)
(* a record, a writer, that each operator takes to the writer after it.    *)
(*                                                                         *)
(* Characters are strings of length one.  A failed assert is halted; from  *)
(* then on nothing is written.                                             *)
(***************************************************************************)
EXTENDS Integers, Sequences, FiniteSetsExt

CONSTANT Size           \* BDB_dbaseDefT.maxStringBufferSize

(* No number has more than seven characters.  In a larger buffer the sum   *)
(* of the cursor and the number of digits may pass 255.                    *)
ASSUME WriteColumnsAssumption == Size \in 1..248

Digit(n) == <<"0", "1", "2", "3", "4", "5", "6", "7",
              "8", "9", "A", "B", "C", "D", "E", "F">>[n + 1]

(* What other text, or the caller, may have left in the buffer.            *)
Writer(char) ==
  [text |-> [i \in 1..Size |-> char], cursor |-> 0, overrun |-> FALSE, halted |-> FALSE]

(* mu_getNumDigits(), and what wc_writeHex() counts.                       *)
NumDigits(value)    == Min({n \in 1..5 : value < 10 ^ n \/ n = 5})
NumHexDigits(value) == Min({n \in 1..4 : value < 16 ^ n})

-----------------------------------------------------------------------------
(***************************************************************************)
(* The characters of a number, from the left; it is cut on the left when   *)
(* it does not fit.                                                        *)
(***************************************************************************)
IntegerText(value, numDigits, leading0) ==
  [k \in 1..numDigits |->
     LET rest == value \div 10 ^ (numDigits - k) IN
     IF rest > 0 \/ k = numDigits THEN Digit(rest % 10)
     ELSE IF leading0 THEN "0" ELSE " "]

HexText(value, maxValue) ==
  LET n == NumHexDigits(maxValue) IN
  [k \in 1..n |-> Digit((value \div 16 ^ (n - k)) % 16)]

DecimalTextShifted(value, numDigits, decimalShift, leading0) ==  \* mutant: digit under the point lost
  [k \in 1..numDigits |->
     LET i    == numDigits - k
         rest == value \div 10 ^ i
     IN IF i = decimalShift THEN "."
        ELSE IF rest > 0 THEN Digit(rest % 10)
        ELSE IF i > decimalShift + 1 /\ ~leading0 THEN " " ELSE "0"]

(* The point stands in the place of no digit; in front of it is at least   *)
(* one digit, and behind it are zeros whatever the fill character is.      *)
DecimalText(value, numDigits, decimalShift, leading0) ==
  [k \in 1..numDigits |->
     LET i    == numDigits - k
         rest == value \div 10 ^ (IF i > decimalShift THEN i - 1 ELSE i)
     IN IF i = decimalShift THEN "."
        ELSE IF rest > 0 THEN Digit(rest % 10)
        ELSE IF i > decimalShift + 1 /\ ~leading0 THEN " " ELSE "0"]

-----------------------------------------------------------------------------
Placed(w, chars, cursor) ==
  [w EXCEPT !.text = [i \in 1..Size |-> IF i \in (w.cursor + 1)..cursor
                                        THEN chars[i - w.cursor] ELSE @[i]],
            !.cursor = cursor]

(* wc_setCursorPosition(): not behind the last character.                  *)
SetCursorPosition(w, position) ==
  IF position < Size THEN [w EXCEPT !.cursor = position]
  ELSE [w EXCEPT !.halted = TRUE]

WriteNumberAnyway(w, chars) ==              \* mutant: the position is not tested
  IF w.halted THEN w ELSE Placed(w, chars, w.cursor + Len(chars))

(* A number is written once the cursor is known to fit behind it, so it    *)
(* cannot end at the end of the buffer.                                    *)
WriteNumber(w, chars) ==
  IF w.halted \/ w.cursor + Len(chars) >= Size THEN [w EXCEPT !.halted = TRUE]
  ELSE Placed(w, chars, w.cursor + Len(chars))

WriteInteger(w, value, numDigits, leading0) ==
  WriteNumber(w, IntegerText(value, numDigits, leading0))

WriteHex(w, value, maxValue) == WriteNumber(w, HexText(value, maxValue))

WriteDecimal(w, value, numDigits, decimalShift, leading0) ==
  WriteNumber(w, DecimalText(value, numDigits, decimalShift, leading0))

(* Each character is written before the cursor is tested, so a text that   *)
(* is too long writes one character behind the buffer.                     *)
WriteTxt(w, txt, maxLength) ==
  LET chars == [k \in 1..maxLength |-> IF k <= Len(txt) THEN txt[k] ELSE " "] IN
  IF w.halted THEN w
  ELSE IF w.cursor + maxLength <= Size THEN Placed(w, chars, w.cursor + maxLength)
  ELSE [Placed(w, chars, Size) EXCEPT !.overrun = TRUE, !.halted = TRUE]

WriteChar(w, charIndex, charSet) == WriteTxt(w, <<charSet[charIndex + 1]>>, 1)
=============================================================================
