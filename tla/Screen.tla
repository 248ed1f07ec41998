------------------------------ MODULE Screen ------------------------------
(***************************************************************************)
(* Terminal output: programs write to the pipe terminal_file_in, the timer *)
(* tick drains it (sys/ternimal.c), and kprintf puts the characters on the *)
(* screen (sys/kprintf.c), whose first line also shows a clock at its      *)
(* right end.  Colours, and the conversions that a % in the output starts, *)
(* are left out.                                                           *)
(*                                                                         *)
(* text and hidden are for the properties: all that was printed, and how   *)
(* much of the first line the clock has covered.                           *)
(***************************************************************************)
EXTENDS Naturals, Sequences

CONSTANTS
  Columns, Lines,   \* _SCREEN_COLOUMS, _SCREEN_LINES
  Drain,            \* bytes drained in one tick; 511 in the code
  Room,             \* bytes the pipe holds, BUFFER_SIZE - 1
  Letters,          \* characters other than newline
  Blank,            \* an empty cell
  MaxText           \* bound: characters written in all

ASSUME ScreenAssumption ==
  /\ Columns \in Nat \ {0} /\ Lines \in Nat \ {0}
  /\ Drain \in Nat /\ Room \in Nat /\ MaxText \in Nat

Newline == "newline"
Output == Letters \cup {Newline}
Cells == 0 .. Lines * Columns - 1
Written == UNION {[1 .. n -> Output] : n \in 1 .. 2}

VARIABLES
  cell,             \* the characters on the screen
  cursor,
  topright_length,  \* characters of the clock
  outPipe,          \* the bytes in terminal_file_in
  text, hidden

screenVars == <<cell, cursor, topright_length, outPipe, text, hidden>>

Clock == "clock"

ScreenTypeOK ==
  /\ cell \in [Cells -> Letters \cup {Blank, Clock}]
  /\ cursor \in Cells /\ topright_length \in 0 .. Columns
  /\ outPipe \in Seq(Output) /\ Len(outPipe) <= Room
  /\ text \in Seq(Output) /\ hidden \in topright_length .. Columns

ScreenInit ==
  /\ cell = [i \in Cells |-> Blank] /\ cursor = 0 /\ topright_length = 0
  /\ outPipe = <<>> /\ text = <<>> /\ hidden = 0
-----------------------------------------------------------------------------
(***************************************************************************)
(* print_func on a screen s == [cell, cursor, hidden].                     *)
(***************************************************************************)
\* scroll_lines_up keeps the clock in the first line.
ScrolledUncleared(c) ==
  [i \in Cells |->
    IF i \in Columns - topright_length .. Columns - 1 THEN c[i]
    ELSE IF i + Columns \in Cells THEN c[i + Columns] ELSE c[i]]
Scrolled(c) ==
  [i \in Cells |->
    IF i \in Columns - topright_length .. Columns - 1 THEN c[i]
    ELSE IF i + Columns \in Cells THEN c[i + Columns] ELSE Blank]

Printed(s, c) ==
  LET s1 == IF c = Newline
            THEN [s EXCEPT !.cursor = (@ \div Columns + 1) * Columns]
            ELSE [s EXCEPT !.cell[s.cursor] = c, !.cursor = @ + 1]
  IN  IF s1.cursor >= Lines * Columns
      THEN [cell |-> Scrolled(s1.cell), cursor |-> s1.cursor - Columns,
            hidden |-> topright_length]
      ELSE s1

\* kprintf
Prints(s, out) ==
  LET after[n \in 0 .. Len(out)] == IF n = 0 THEN s ELSE Printed(after[n - 1], out[n])
  IN  after[Len(out)]

Shows(out) ==
  LET s == Prints([cell |-> cell, cursor |-> cursor, hidden |-> hidden], out)
  IN  cell' = s.cell /\ cursor' = s.cursor /\ hidden' = s.hidden
-----------------------------------------------------------------------------
\* A program writes to its terminal; file_write drops what does not fit.
Write(s) ==
  LET n == IF Len(s) <= Room - Len(outPipe) THEN Len(s) ELSE Room - Len(outPipe) IN
  /\ Len(text) + Len(outPipe) + Len(s) <= MaxText
  /\ outPipe' = outPipe \o SubSeq(s, 1, n)
  /\ UNCHANGED <<cell, cursor, topright_length, text, hidden>>

\* update_terminal_out, called by the timer interrupt.
TerminalOut ==
  LET n == IF Len(outPipe) <= Drain THEN Len(outPipe) ELSE Drain
      out == SubSeq(outPipe, 1, n)
  IN
  /\ outPipe # <<>>
  /\ Shows(out)
  /\ outPipe' = SubSeq(outPipe, n + 1, Len(outPipe))
  /\ text' = text \o out
  /\ UNCHANGED topright_length

\* The kernel prints a message of its own.
KernelPrints(c) ==
  /\ Len(text) + Len(outPipe) < MaxText
  /\ Shows(<<c>>)
  /\ text' = Append(text, c)
  /\ UNCHANGED <<topright_length, outPipe>>

\* print_topright: a clock of n characters; what a longer one covered is
\* blanked.
PrintTopright(n) ==
  /\ topright_length' = n
  /\ cell' = [i \in Cells |->
       IF i \in Columns - n .. Columns - 1 THEN Clock
       ELSE IF i \in Columns - topright_length .. Columns - 1 THEN Blank ELSE cell[i]]
  /\ hidden' = IF n > hidden THEN n ELSE hidden
  /\ UNCHANGED <<cursor, outPipe, text>>

\* clear_screen
ClearScreen ==
  /\ text # <<>>
  /\ cell' = [i \in Cells |-> Blank] /\ cursor' = 0
  /\ text' = <<>> /\ hidden' = topright_length
  /\ UNCHANGED <<topright_length, outPipe>>

ScreenNext ==
  \/ \E s \in Written : Write(s)
  \/ TerminalOut
  \/ \E c \in Output : KernelPrints(c)
  \/ \E n \in 0 .. Columns : PrintTopright(n)
  \/ ClearScreen

ScreenSpec == ScreenInit /\ [][ScreenNext]_screenVars
-----------------------------------------------------------------------------
(***************************************************************************)
(* What a reader expects to see: the text laid out in rows of Columns, the *)
(* last of which the cursor is in, and of them as many as the screen has.  *)
(***************************************************************************)
\* A row is full with Columns characters; a character goes to the last row.
PutInRow(rows, c) == [rows EXCEPT ![Len(rows)] = Append(@, c)]
Put(rows, c) ==
  IF c = Newline THEN Append(rows, <<>>)
  ELSE IF Len(rows[Len(rows)]) + 1 = Columns THEN Append(PutInRow(rows, c), <<>>)
  ELSE PutInRow(rows, c)

Rows(t) ==
  LET laid[n \in 0 .. Len(t)] == IF n = 0 THEN << <<>> >> ELSE Put(laid[n - 1], t[n])
  IN  laid[Len(t)]

\* The rows that are no more on the screen.
Gone(rows) == IF Len(rows) <= Lines THEN 0 ELSE Len(rows) - Lines

\* The character in column c of the k-th row.
LetterAt(rows, k, c) ==
  IF k \in DOMAIN rows /\ c + 1 \in DOMAIN rows[k] THEN rows[k][c + 1] ELSE Blank

\* The screen shows the last lines of all that was printed, in whatever pieces
\* it came, with the cursor behind the last character; only what the clock has
\* covered since the last scroll is missing.
ShowsLastLines ==
  LET rows == Rows(text)
  IN
  /\ cursor = (Len(rows) - Gone(rows) - 1) * Columns + Len(rows[Len(rows)])
  /\ \A r \in 0 .. Lines - 1, c \in 0 .. Columns - 1 :
       \/ r = 0 /\ c >= Columns - hidden
       \/ cell[r * Columns + c] = LetterAt(rows, Gone(rows) + r + 1, c)

\* The screen shows the last lines of all that was printed, in whatever pieces it
\* came, except for what the clock covers, and the cursor stays on it (print_func,
\* scroll_lines_up, print_topright, update_terminal_out).
ScreenShowsText == ScreenTypeOK /\ ShowsLastLines
=============================================================================
