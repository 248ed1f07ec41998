------------------------------- MODULE Kprintf -------------------------------
(***************************************************************************)
(* Formatted text in a buffer (kprintfa of sys/kprintf.c) and the          *)
(* conversions it shares with kprintf.  A format is a sequence of          *)
(* characters and of conversions with their arguments.                     *)
(***************************************************************************)
EXTENDS Integers, Sequences, SequencesExt

CONSTANTS
  IntBits,   \* 32: bits of an int
  Nibbles,   \* 16: hexadecimal digits of an unsigned long
  Pieces,    \* the pieces a format has: [kind, arg]
  MaxFormat, \* bound: pieces of a format
  Sizes      \* the sizes kprintfa is called with

VARIABLES
  format,  \* the format that was printed
  size,    \* and the size of the buffer; 0 before the call
  dest     \* what kprintfa wrote, a function of the index
vars == <<format, size, dest>>

End == "end"
Digits == <<"0", "1", "2", "3", "4", "5", "6", "7", "8", "9", "A", "B", "C", "D", "E", "F">>
Digit(d) == Digits[d + 1]

RECURSIVE Decimal(_)
Decimal(in) == (IF in < 10 THEN <<>> ELSE Decimal(in \div 10)) \o <<Digit(in % 10)>>

PrintNumUnsigned(input) == Decimal(input % 2 ^ IntBits)
\* print_num: ~in + 1 in the unsigned type for a negative number
PrintNum(input) ==
  LET in == input % 2 ^ IntBits
  IN  IF input < 0
      THEN <<"-">> \o Decimal((2 ^ IntBits - 1 - in + 1) % 2 ^ IntBits)
      ELSE Decimal(in)

\* print_hex and print_pointer: all digits from the highest, those before the
\* first that is not 0 left out; 00 for 0.
PrintHex(input) ==
  LET digit(k) == (input \div 16 ^ (Nibbles - k)) % 16
      set == {k \in 1 .. Nibbles : digit(k) # 0}
      first == CHOOSE k \in set : \A j \in set : k <= j
  IN  <<"0", "x">> \o IF set = {} THEN <<"0", "0">>
                      ELSE [k \in 1 .. Nibbles - first + 1 |-> Digit(digit(first + k - 1))]

Text(piece) ==
  CASE piece.kind = "c" -> <<piece.arg>>
    [] piece.kind = "s" -> piece.arg
    [] piece.kind = "d" -> PrintNum(piece.arg)
    [] piece.kind = "x" -> PrintHex(piece.arg)

\* kprintfa_print: room for a character that is not the terminator
HasRoom(written, n) == written < n - 1

RECURSIVE Printed(_, _, _)
Printed(written, text, n) ==
  IF text = <<>> THEN written
  ELSE Printed(IF HasRoom(Len(written), n) THEN Append(written, Head(text)) ELSE written,
               Tail(text), n)

\* The loop of kprintfa; an unknown conversion ends it without a terminator.
RECURSIVE Formatted(_, _, _)
Formatted(written, f, n) ==
  IF f = <<>> THEN Append(written, End)
  ELSE IF Head(f).kind = "unknown" THEN written
  ELSE Formatted(Printed(written, Text(Head(f)), n), Tail(f), n)

Init == format = <<>> /\ size = 0 /\ dest = <<>>

Kprintfa(n, f) ==
  /\ size = 0
  /\ format' = f
  /\ size' = n
  /\ dest' = Formatted(<<>>, f, n)

Formats == UNION {[1 .. n -> Pieces] : n \in 0 .. MaxFormat}
Next == \E n \in Sizes, f \in Formats : Kprintfa(n, f)

Spec == Init /\ [][Next]_vars
-----------------------------------------------------------------------------
\* A buffer of the given size is never written past its end, and it ends with
\* the terminator, unless the format has a conversion kprintfa does not know
\* (kprintfa, kprintfa_print).
StaysInBuffer ==
  size > 0 =>
    /\ Len(dest) <= size
    /\ (\A k \in DOMAIN format : format[k].kind # "unknown")
         => dest # <<>> /\ Last(dest) = End

\* A number in a text reads back as that number, at the limits of its type too
\* (print_num, print_hex).
ValueOf(text, base) ==
  LET v[n \in 0 .. Len(text)] ==
        IF n = 0 THEN 0
        ELSE base * v[n - 1] + (CHOOSE d \in 0 .. 15 : Digit(d) = text[n])
  IN  v[Len(text)]
ReadsBack ==
  (Len(format) = 1 /\ format[1].kind \in {"d", "x"}
    /\ Len(dest) < size) =>
      LET text == Front(dest)
      IN  format[1].arg =
            IF format[1].kind = "x" THEN ValueOf(SubSeq(text, 3, Len(text)), 16)
            ELSE IF text[1] = "-" THEN 0 - ValueOf(Tail(text), 10)
            ELSE ValueOf(text, 10)
=============================================================================
