----------------------------- MODULE Terminal -----------------------------
(***************************************************************************)
(* Keyboard and terminal input: scan codes become characters               *)
(* (sys/keyboard.c), characters are collected to a line that goes into the *)
(* pipe terminal_file_out (sys/ternimal.c), and a process reads the pipe.  *)
(* The pipe is a queue, as module Pipe shows (InOrder).                    *)
(*                                                                         *)
(* struck, due and cut record what was typed, for the properties.          *)
(***************************************************************************)
EXTENDS Naturals, Sequences

CONSTANTS
  LineLength,   \* INPUT_BUFFER_LENGTH
  Capacity,     \* bytes the pipe holds, BUFFER_SIZE - 1
  MaxKeys       \* bound: characters entered in all

VARIABLES
  shift, ctrl,
  line,         \* terminal_buffer up to terminal_buffer_end
  pipe,         \* the bytes in terminal_file_out
  asleep,       \* a process sleeps in sys_read on it
  sigints,      \* signals sent to the foreground process
  keys,         \* characters entered so far
  struck,       \* the characters entered since the last newline
  due,          \* the lines completed, as typed, and not read yet
  cut           \* a line did not fit into the pipe, or a character not into
                \* the line

terminalVars == <<shift, ctrl, line, pipe, asleep, sigints, keys, struck, due, cut>>

\* Keys with a letter, the key of Ctrl-C, and two whose codes are special.
Keys == {"a", "c", "enter", "back"}
None == "none"
Interrupt == "intr"
Chars == {"a", "A", "c", "C", "newline", "backspace", Interrupt}

TerminalTypeOK ==
  /\ shift \in BOOLEAN /\ ctrl \in BOOLEAN /\ asleep \in BOOLEAN /\ cut \in BOOLEAN
  /\ line \in Seq(Chars) /\ Len(line) <= LineLength
  /\ pipe \in Seq(Chars) /\ Len(pipe) <= Capacity
  /\ sigints \in Nat /\ keys \in 0 .. MaxKeys
  /\ struck \in Seq(Chars) /\ due \in Seq(Chars)

TerminalInit ==
  /\ shift = FALSE /\ ctrl = FALSE /\ asleep = FALSE /\ cut = FALSE
  /\ line = <<>> /\ pipe = <<>> /\ struck = <<>> /\ due = <<>>
  /\ sigints = 0 /\ keys = 0
-----------------------------------------------------------------------------
(***************************************************************************)
(* The keyboard.  ascii_map has the character of a key at the code of its  *)
(* press, only backspace is at the code of its release.                    *)
(***************************************************************************)
AsciiMap(k, down) ==
  IF down # (k # "back") THEN None
  ELSE CASE k = "enter" -> "newline" [] k = "back" -> "backspace" [] OTHER -> k

\* Shift has no character for newline and backspace.
Shifted(c) == CASE c = "a" -> "A" [] c = "c" -> "C" [] OTHER -> None
Translate(k, down, sh) == IF sh THEN Shifted(AsciiMap(k, down)) ELSE AsciiMap(k, down)

\* The character that a code enters; with Ctrl only c has a meaning.
Entered(k, down) ==
  LET c == Translate(k, down, shift)
  IN  IF ~ ctrl THEN c ELSE IF c = "c" THEN Interrupt ELSE None
-----------------------------------------------------------------------------
(***************************************************************************)
(* terminal_input_ascii: a full line takes no more characters, newline,    *)
(* backspace and Ctrl-C included.                                          *)
(***************************************************************************)
\* terminal_buffer_end goes back by one.
Front(l) == SubSeq(l, 1, Len(l) - 1)
Backspace(l) == IF Len(l) > 1 THEN Front(Front(l)) ELSE Front(l)

StoresSilently(l) ==
  LET n == IF Len(l) <= Capacity - Len(pipe) THEN Len(l) ELSE Capacity - Len(pipe)
  IN  /\ pipe' = pipe \o SubSeq(l, 1, n)
      /\ asleep' = asleep
      /\ cut' = (cut \/ n < Len(l))

\* file_write into the pipe: what does not fit is dropped, and then the reader
\* is not woken.
Stores(l) ==
  LET n == IF Len(l) <= Capacity - Len(pipe) THEN Len(l) ELSE Capacity - Len(pipe)
  IN  /\ pipe' = pipe \o SubSeq(l, 1, n)
      /\ asleep' = (asleep /\ n < Len(l))
      /\ cut' = (cut \/ n < Len(l))

InputAscii(c) ==
  LET l == Append(line, c) IN
  IF Len(line) = LineLength
  THEN cut' = TRUE /\ UNCHANGED <<line, pipe, asleep, sigints, struck, due>>
  ELSE \/ /\ c = "newline"
          /\ line' = <<>> /\ Stores(l)
          /\ struck' = <<>> /\ due' = due \o Append(struck, c)
          /\ UNCHANGED sigints
       \/ /\ c = "backspace"
          /\ line' = Backspace(l)
          /\ struck' = IF struck = <<>> THEN <<>> ELSE Front(struck)
          /\ UNCHANGED <<pipe, asleep, sigints, due, cut>>
       \/ /\ c = Interrupt
          /\ line' = Front(l) /\ sigints' = sigints + 1
          /\ UNCHANGED <<pipe, asleep, struck, due, cut>>
       \/ /\ c \notin {"newline", "backspace", Interrupt}
          /\ line' = l /\ struck' = Append(struck, c)
          /\ UNCHANGED <<pipe, asleep, sigints, due, cut>>

\* A code of an ordinary key, pressed (or repeated) or released.
Key(k, down) ==
  LET c == Entered(k, down) IN
  /\ c # None /\ keys < MaxKeys /\ keys' = keys + 1
  /\ InputAscii(c)
  /\ UNCHANGED <<shift, ctrl>>

Modifier ==
  /\ \/ shift' = ~ shift /\ UNCHANGED ctrl
     \/ ctrl' = ~ ctrl /\ UNCHANGED shift
  /\ UNCHANGED <<line, pipe, asleep, sigints, keys, struck, due, cut>>

\* A process reads up to n bytes, or falls asleep.
Read(n) ==
  LET k == IF n <= Len(pipe) THEN n ELSE Len(pipe)
      rest(s) == SubSeq(s, k + 1, Len(s))
  IN
  /\ ~ asleep
  /\ pipe' = rest(pipe) /\ due' = rest(due)
  /\ asleep' = (k = 0)
  /\ UNCHANGED <<shift, ctrl, line, sigints, keys, struck, cut>>

TerminalNext ==
  \/ \E k \in Keys, down \in BOOLEAN : Key(k, down)
  \/ Modifier
  \/ \E n \in 1 .. Capacity : Read(n)

TerminalSpec == TerminalInit /\ [][TerminalNext]_terminalVars
-----------------------------------------------------------------------------
\* The line is what was typed since the last newline, with every backspace
\* applied and Ctrl-C left out, until a character was refused.
LineAsTyped == cut \/ line = struck

\* The pipe holds the completed lines that no process has read, unless a line
\* was cut.
LinesArrive == cut \/ pipe = due

\* Nobody sleeps while there is something to read: a line always finds room in
\* the pipe of a sleeping reader, so its last byte is stored and the reader
\* woken.
SleeperHasNothing == asleep => pipe = <<>>

\* What is typed arrives at the process that reads, whole and in order, unless
\* something was refused or cut (terminal_input_ascii, file_write, sys_read).
InputArrives == TerminalTypeOK /\ LineAsTyped /\ LinesArrive /\ SleeperHasNothing
=============================================================================
