------------------------------ MODULE Commands ------------------------------
(***************************************************************************)
(* How the shell takes a line apart: ProcessCommand of                     *)
(* bin/sbush/sbush_process.c.  A line is a sequence of characters, typed   *)
(* one by one.  The byte before a string that the code reads when the      *)
(* string is empty is neither a space nor an ampersand.                    *)
(***************************************************************************)
EXTENDS Integers, Sequences, SequencesExt, FiniteSets

CONSTANTS
  Letters,  \* the characters other than the three below
  MaxLine   \* bound: length of a line

Space == " "
Bar == "|"
Amp == "&"

VARIABLES
  line,  \* the characters of main's input
  job    \* what execute is called with; NoJob before that
vars == <<line, job>>

NoJob == [processes |-> <<>>, isBackground |-> FALSE]

EndsWith(s, c) == s # <<>> /\ Last(s) = c

\* removeSpaceOnTheEnd: the spaces at the end and then those in the front
RECURSIVE Trim(_)
Trim(s) ==
  IF EndsWith(s, Space) THEN Trim(Front(s))
  ELSE IF s # <<>> /\ Head(s) = Space THEN Trim(Tail(s))
  ELSE s

\* stripExtraSpace: a space stays only behind a character that is none.
StripExtraSpace(s) ==
  LET kept == {i \in DOMAIN s : s[i] # Space \/ (i > 1 /\ s[i - 1] # Space)}
  IN  [n \in 1 .. Cardinality(kept) |->
         s[CHOOSE i \in kept : Cardinality({j \in kept : j <= i}) = n]]

\* The loops of ParseCommand and ParseBySpace: the pieces between the separators
RECURSIVE Pieces(_, _, _)
Pieces(s, sep, piece) ==
  IF s = <<>> THEN <<piece>>
  ELSE IF Head(s) = sep THEN <<piece>> \o Pieces(Tail(s), sep, <<>>)
  ELSE Pieces(Tail(s), sep, Append(piece, Head(s)))

ParseBySpace(token) ==
  LET argv == Pieces(token, Space, <<>>)
      last == Last(argv)
  IN  IF last = <<Amp>> THEN Front(argv)
      ELSE IF EndsWith(last, Amp) THEN Append(Front(argv), Front(last))
      ELSE argv

ParsedUnstripped(token) == ParseBySpace(Trim(token))
\* A process of the job: its argv
Parsed(token) == ParseBySpace(StripExtraSpace(Trim(token)))

\* ProcessCommand up to its call of execute
ProcessCommand(command) ==
  LET tokens == Pieces(Trim(command), Bar, <<>>)
  IN  [processes |-> [j \in DOMAIN tokens |-> Parsed(tokens[j])],
       isBackground |-> EndsWith(Last(tokens), Amp)]

Init == line = <<>> /\ job = NoJob

Type(c) ==
  /\ job = NoJob
  /\ Len(line) < MaxLine
  /\ line' = Append(line, c)
  /\ UNCHANGED job

Enter ==
  /\ job = NoJob
  /\ Trim(line) # <<>>
  /\ job' = ProcessCommand(line)
  /\ UNCHANGED line

Next == (\E c \in Letters \cup {Space, Bar, Amp} : Type(c)) \/ Enter

Spec == Init /\ [][Next]_vars
-----------------------------------------------------------------------------
(***************************************************************************)
(* What a line means, from the positions of its characters.                *)
(***************************************************************************)
Maximal(s, Ends(_)) ==
  LET starts == {i \in DOMAIN s : ~ Ends(s[i]) /\ (i = 1 \/ Ends(s[i - 1]))}
      stop(i) == CHOOSE k \in i .. Len(s) :
                   /\ \A j \in i .. k : ~ Ends(s[j])
                   /\ k = Len(s) \/ Ends(s[k + 1])
  IN  [n \in 1 .. Cardinality(starts) |->
         LET i == CHOOSE i \in starts : Cardinality({j \in starts : j <= i}) = n
         IN  SubSeq(s, i, stop(i))]
Words(s) == Maximal(s, LAMBDA c : c = Space)

Meaning(s) ==
  LET ws == Words(s)
  IN  IF ws = <<>> THEN <<>>
      ELSE IF Last(ws) = <<Amp>> THEN Front(ws)
      ELSE IF EndsWith(Last(ws), Amp) THEN Append(Front(ws), Front(Last(ws)))
      ELSE ws

\* A job has one process for each part of the line between bars, with the words
\* of that part as arguments, an ampersand at its end left out; it is a
\* background job when the line's last word ends with one (ProcessCommand).  A
\* line with nothing between two bars, or before the first or behind the last,
\* is left out: such a part gives a process whose only argument is empty.
JobIsLine ==
  LET parts == Maximal(line, LAMBDA c : c = Bar)
      bars == Cardinality({i \in DOMAIN line : line[i] = Bar})
      full == Len(parts) = bars + 1 /\ \A j \in DOMAIN parts : Words(parts[j]) # <<>>
  IN  job # NoJob /\ full =>
        /\ job.processes = [j \in DOMAIN parts |-> Meaning(parts[j])]
        /\ job.isBackground = EndsWith(Last(Words(Last(parts))), Amp)
=============================================================================
