---------------------------- MODULE ConsoleProofs ----------------------------
(***************************************************************************)
(* Proofs about what a user of the console meets: the lines typed          *)
(* (Terminal), the text on the screen (Screen), and the program that is    *)
(* run for a name (Environ).  The three have no state in common; each is   *)
(* proved for every value of its constants that the assumptions in its     *)
(* module allow.  For Terminal the one relation needed between the sizes   *)
(* is Lengths: a whole line fits into an empty pipe (INPUT_BUFFER_LENGTH < *)
(* BUFFER_SIZE).                                                           *)
(***************************************************************************)
EXTENDS Terminal, Screen, Environ, SequenceTheorems, WellFoundedInduction, TLAPS

\* A set of numbers has a least member.
LEMMA MinIs ==
  ASSUME NEW S \in SUBSET Nat, S # {}
  PROVE  Min(S) \in S /\ \A k \in S : Min(S) <= k
<1>1. \E f \in S : \A g \in S : ~ (<<g, f>> \in OpToRel(<, Nat))
  BY WFMin, NatLessThanWellFounded, Zenon
<1>2. PICK f \in S : \A g \in S : ~ (<<g, f>> \in OpToRel(<, Nat))
  BY <1>1, Zenon
<1>3. ASSUME NEW g \in S PROVE f <= g
  <2>1. ~ (g < f)
    BY <1>2, Zenon DEF OpToRel
  <2> QED BY <2>1
<1> QED BY <1>3, Zenon DEF Min

\* It is the only one that is below all others.
LEMMA MinUnique ==
  ASSUME NEW S \in SUBSET Nat, NEW m \in S, \A k \in S : m <= k
  PROVE  Min(S) = m
<1>1. S # {}
  OBVIOUS
<1>2. Min(S) \in S /\ Min(S) <= m
  BY <1>1, MinIs, Zenon
<1>3. Min(S) \in Nat /\ m \in Nat /\ m <= Min(S)
  BY <1>2, Zenon
<1> QED BY <1>2, <1>3

\* Products by a common factor are in the order of what is multiplied.
LEMMA TimesLess ==
  ASSUME NEW a \in Int, NEW b \in Int, NEW m \in Nat \ {0}, a * m < b * m
  PROVE  a < b
  OBVIOUS

\* And the other way round.
LEMMA TimesLeq ==
  ASSUME NEW a \in Int, NEW b \in Int, NEW m \in Nat, a <= b
  PROVE  a * m <= b * m
  OBVIOUS
-----------------------------------------------------------------------------
Lengths ==
  LineLength \in Nat /\ Capacity \in Nat /\ MaxKeys \in Nat /\ LineLength <= Capacity

-----------------------------------------------------------------------------
(***************************************************************************)
(* Sequences of characters.                                                *)
(***************************************************************************)
LEMMA FrontIs ==
  ASSUME NEW s \in Seq(Chars), s # <<>>
  PROVE  Front(s) \in Seq(Chars) /\ Len(Front(s)) = Len(s) - 1
<1>1. Len(s) \in Nat /\ Len(s) # 0
  BY LenProperties, EmptySeq
<1> DEFINE n == Len(s) - 1
<1>2. n \in Nat /\ \A i \in 1 .. n : s[i] \in Chars
  BY <1>1, ElementOfSeq
<1>3. Front(s) = SubSeq(s, 1, n)
  BY Zenon DEF Front
<1> HIDE DEF n
<1>4. n = IF 1 <= n THEN n - 1 + 1 ELSE 0
  BY <1>2
<1>5. SubSeq(s, 1, n) \in Seq(Chars)
  BY <1>2, SubSeqProperties
<1>6. Len(SubSeq(s, 1, n)) = n
  BY <1>2, <1>4, SubSeqProperties
<1> QED
  BY <1>3, <1>5, <1>6 DEF n

\* A character added and taken away again.
LEMMA FrontOfAppend ==
  ASSUME NEW s \in Seq(Chars), NEW c \in Chars
  PROVE  /\ Append(s, c) \in Seq(Chars) /\ Append(s, c) # <<>>
         /\ Len(Append(s, c)) = Len(s) + 1 /\ Front(Append(s, c)) = s
<1> DEFINE l == Append(s, c)
<1>1. l \in Seq(Chars) /\ Len(l) = Len(s) + 1 /\ Len(s) \in Nat
      /\ \A i \in 1 .. Len(s) : l[i] = s[i]
  BY AppendProperties, LenProperties
<1>2. l # <<>>
  BY <1>1, EmptySeq
<1> HIDE DEF l
<1>3. Front(l) \in Seq(Chars) /\ Len(Front(l)) = Len(s)
  BY <1>1, <1>2, FrontIs
<1>4. ASSUME NEW i \in 1 .. Len(s) PROVE Front(l)[i] = s[i]
  BY <1>1, SubSeqProperties DEF Front
<1>5. Front(l) = s
  BY <1>3, <1>4, SeqEqual
<1> QED
  BY <1>1, <1>2, <1>5 DEF l

\* A backspace, which is in the line itself, takes the character before it.
LEMMA BackspaceIs ==
  ASSUME NEW s \in Seq(Chars), NEW c \in Chars
  PROVE  Backspace(Append(s, c)) = IF s = <<>> THEN <<>> ELSE Front(s)
<1>1. /\ Len(Append(s, c)) = Len(s) + 1 /\ Front(Append(s, c)) = s
      /\ Len(s) \in Nat
  BY FrontOfAppend, LenProperties
<1>2. Len(s) = 0 <=> s = <<>>
  BY EmptySeq
<1> QED
  BY <1>1, <1>2 DEF Backspace

\* What is left of a sequence after its first k characters.
LEMMA RestIs ==
  ASSUME NEW s \in Seq(Chars), NEW k \in Nat
  PROVE  LET r == SubSeq(s, k + 1, Len(s))
         IN  r \in Seq(Chars) /\ Len(r) <= Len(s) /\ (s = <<>> => r = <<>>)
<1>1. Len(s) \in Nat
  BY LenProperties
<1> DEFINE r == SubSeq(s, k + 1, Len(s))
<1>2. CASE Len(s) < k + 1
  <2>1. r = <<>>
    BY <1>1, <1>2, SubSeqEmpty
  <2> QED
    BY <1>1, <2>1, EmptySeq
<1>3. CASE k + 1 <= Len(s)
  <2>1. r \in Seq(Chars) /\ Len(r) = Len(s) - k
    BY <1>1, <1>3, SubSeqProperties
  <2>2. s # <<>>
    BY <1>1, <1>3, EmptySeq
  <2> QED
    BY <1>1, <2>1, <2>2
<1> QED
  BY <1>1, <1>2, <1>3

\* The keyboard enters characters of the map only.
LEMMA EnteredIs ==
  ASSUME NEW k \in Keys, NEW down \in BOOLEAN, Entered(k, down) # None
  PROVE  Entered(k, down) \in Chars
<1>1. AsciiMap(k, down) \in {"a", "c", "newline", "backspace", None}
  BY DEF AsciiMap, Keys
<1>2. Translate(k, down, shift) \in {"a", "c", "newline", "backspace", "A", "C", None}
  BY <1>1 DEF Translate, Shifted
<1> QED
  BY <1>2 DEF Entered, Chars

\* file_write into the pipe: all of the line if it fits, and always into an empty
\* pipe, where the reader may be asleep.
LEMMA StoresIs ==
  ASSUME TerminalTypeOK, Lengths, NEW l \in Seq(Chars), Stores(l)
  PROVE  /\ pipe' \in Seq(Chars) /\ Len(pipe') <= Capacity
         /\ asleep' \in BOOLEAN /\ cut' \in BOOLEAN
         /\ ~ cut' => ~ cut /\ pipe' = pipe \o l
         /\ asleep' => asleep
         /\ pipe = <<>> /\ Len(l) <= LineLength => ~ asleep'
<1> DEFINE room == Capacity - Len(pipe)
           n == IF Len(l) <= room THEN Len(l) ELSE room
           b == n < Len(l)
<1>1. /\ pipe' = pipe \o SubSeq(l, 1, n) /\ asleep' = (asleep /\ b) /\ cut' = (cut \/ b)
  BY Zenon DEF Stores
<1>2. /\ Len(l) \in Nat /\ Len(pipe) \in Nat /\ pipe \in Seq(Chars) /\ room \in Nat
      /\ asleep \in BOOLEAN /\ cut \in BOOLEAN
  BY LenProperties DEF TerminalTypeOK, Lengths
<1>3. n \in Nat /\ n <= Len(l) /\ Len(pipe) + n <= Capacity
  BY <1>2 DEF Lengths
<1>4. ~ b => n = Len(l)
  BY <1>2, <1>3
<1>5. pipe = <<>> /\ Len(l) <= LineLength => ~ b
  BY <1>2 DEF Lengths
<1> HIDE DEF n, b
<1>6. SubSeq(l, 1, n) \in Seq(Chars) /\ Len(SubSeq(l, 1, n)) = n
  <2>1. \A i \in 1 .. n : l[i] \in Chars
    BY <1>2, <1>3, ElementOfSeq
  <2>2. n = IF 1 <= n THEN n - 1 + 1 ELSE 0
    BY <1>3
  <2>3. SubSeq(l, 1, n) \in Seq(Chars)
    BY <1>3, <2>1, SubSeqProperties
  <2>4. Len(SubSeq(l, 1, n)) = n
    BY <1>3, <2>1, <2>2, SubSeqProperties
  <2> QED
    BY <2>3, <2>4
<1>7. pipe' \in Seq(Chars) /\ Len(pipe') = Len(pipe) + n
  BY <1>1, <1>2, <1>6, ConcatProperties
<1>8. n = Len(l) => SubSeq(l, 1, n) = l
  BY SubSeqFull
<1>9. Len(pipe') <= Capacity
  BY <1>3, <1>7
<1>10. asleep' \in BOOLEAN /\ cut' \in BOOLEAN
  BY <1>1, Zenon
<1> QED
  BY <1>1, <1>4, <1>5, <1>7, <1>8, <1>9, <1>10, Zenon
-----------------------------------------------------------------------------
(***************************************************************************)
(* The steps.                                                              *)
(***************************************************************************)
LEMMA InputAsciiKeeps ==
  ASSUME InputArrives, Lengths, NEW c \in Chars, InputAscii(c),
         shift' \in BOOLEAN, ctrl' \in BOOLEAN, keys' \in 0 .. MaxKeys
  PROVE  InputArrives'
<1> DEFINE l == Append(line, c)
<1>1. /\ line \in Seq(Chars) /\ Len(line) <= LineLength /\ Len(line) \in Nat
      /\ pipe \in Seq(Chars) /\ Len(pipe) <= Capacity /\ struck \in Seq(Chars)
      /\ due \in Seq(Chars) /\ sigints \in Nat
  BY LenProperties DEF InputArrives, TerminalTypeOK
<1>2. /\ asleep \in BOOLEAN /\ cut \in BOOLEAN
      /\ cut \/ (line = struck /\ pipe = due)
      /\ asleep => pipe = <<>>
  BY Zenon DEF InputArrives, TerminalTypeOK, LineAsTyped, LinesArrive, SleeperHasNothing
<1>3. /\ l \in Seq(Chars) /\ Len(l) = Len(line) + 1 /\ Front(l) = line
      /\ Append(struck, c) \in Seq(Chars)
  BY <1>1, FrontOfAppend
<1>4. CASE Len(line) = LineLength
  <2>1. cut' = TRUE /\ UNCHANGED <<line, pipe, asleep, sigints, struck, due>>
    BY <1>4, Zenon DEF InputAscii
  <2>2. TerminalTypeOK'
    BY <1>1, <1>2, <2>1, Zenon DEF TerminalTypeOK
  <2> QED
    BY <1>2, <2>1, <2>2, Zenon DEF InputArrives, LineAsTyped, LinesArrive, SleeperHasNothing
<1>5. ASSUME Len(line) # LineLength, c = "newline", line' = <<>>, Stores(l),
             struck' = <<>>, due' = due \o Append(struck, c), UNCHANGED sigints
      PROVE  InputArrives'
  <2>1. Len(l) <= LineLength
    BY <1>1, <1>3, <1>5 DEF Lengths
  <2>2. /\ pipe' \in Seq(Chars) /\ Len(pipe') <= Capacity
        /\ asleep' \in BOOLEAN /\ cut' \in BOOLEAN
        /\ ~ cut' => ~ cut /\ pipe' = pipe \o l
        /\ ~ asleep'
    <3>1. TerminalTypeOK
      BY Zenon DEF InputArrives
    <3> HIDE DEF l
    <3>2. /\ pipe' \in Seq(Chars) /\ Len(pipe') <= Capacity
          /\ asleep' \in BOOLEAN /\ cut' \in BOOLEAN
          /\ ~ cut' => ~ cut /\ pipe' = pipe \o l
          /\ asleep' => asleep
          /\ pipe = <<>> /\ Len(l) <= LineLength => ~ asleep'
      BY <1>3, <1>5, <3>1, StoresIs, Zenon
    <3> QED
      BY <1>2, <2>1, <3>2, Zenon
  <2>3. due' \in Seq(Chars)
    BY <1>1, <1>3, <1>5, ConcatProperties, Zenon
  <2>4. <<>> \in Seq(Chars) /\ Len(<<>>) <= LineLength
    BY EmptySeq DEF Lengths
  <2>5. TerminalTypeOK'
    BY <1>1, <1>5, <2>2, <2>3, <2>4, Zenon DEF TerminalTypeOK
  <2>6. LinesArrive'
    BY <1>2, <1>5, <2>2, Zenon DEF LinesArrive
  <2> QED
    BY <1>5, <2>2, <2>5, <2>6, Zenon DEF InputArrives, LineAsTyped, SleeperHasNothing
\* The characters that only change the line.
<1>6. ASSUME line' \in Seq(Chars), Len(line') <= LineLength, struck' \in Seq(Chars),
             line = struck => line' = struck', sigints' \in Nat,
             UNCHANGED <<pipe, asleep, due, cut>>
      PROVE  InputArrives'
  <2>1. TerminalTypeOK'
    BY <1>1, <1>2, <1>6, Zenon DEF TerminalTypeOK
  <2> QED
    BY <1>2, <1>6, <2>1, Zenon DEF InputArrives, LineAsTyped, LinesArrive, SleeperHasNothing
<1>7. ASSUME Len(line) # LineLength, c = "backspace", line' = Backspace(l),
             struck' = IF struck = <<>> THEN <<>> ELSE Front(struck),
             UNCHANGED <<pipe, asleep, sigints, due, cut>>
      PROVE  InputArrives'
  <2>1. line' = IF line = <<>> THEN <<>> ELSE Front(line)
    BY <1>1, <1>7, BackspaceIs, Zenon
  <2>2. line' \in Seq(Chars) /\ Len(line') <= LineLength
    <3>1. CASE line = <<>>
      BY <2>1, <3>1, EmptySeq DEF Lengths
    <3>2. CASE line # <<>>
      <4>1. Front(line) \in Seq(Chars) /\ Len(Front(line)) = Len(line) - 1
        BY <1>1, <3>2, FrontIs, Zenon
      <4> QED
        BY <1>1, <2>1, <3>2, <4>1 DEF Lengths
    <3> QED
      BY <3>1, <3>2, Zenon
  <2>3. struck' \in Seq(Chars)
    BY <1>1, <1>7, FrontIs, EmptySeq, Zenon
  <2>4. line = struck => line' = struck'
    BY <1>7, <2>1, Zenon
  <2> QED
    BY <1>1, <1>6, <1>7, <2>2, <2>3, <2>4, Zenon
<1>8. ASSUME Len(line) # LineLength, line' = Front(l), sigints' = sigints + 1,
             UNCHANGED <<pipe, asleep, struck, due, cut>>
      PROVE  InputArrives'
  <2>1. sigints' \in Nat
    BY <1>1, <1>8
  <2> QED
    BY <1>1, <1>3, <1>6, <1>8, <2>1, Zenon
<1>9. ASSUME Len(line) # LineLength, line' = l, struck' = Append(struck, c),
             UNCHANGED <<pipe, asleep, sigints, due, cut>>
      PROVE  InputArrives'
  <2>1. Len(l) <= LineLength
    BY <1>1, <1>3, <1>9 DEF Lengths
  <2> QED
    BY <1>1, <1>3, <1>6, <1>9, <2>1, Zenon
<1> HIDE DEF l
<1> QED
  BY <1>4, <1>5, <1>7, <1>8, <1>9, Zenon DEF InputAscii, l

\* A key is pressed, with or without shift.
LEMMA KeyKeeps ==
  ASSUME InputArrives, Lengths, NEW k \in Keys, NEW down \in BOOLEAN, Key(k, down)
  PROVE  InputArrives'
<1> DEFINE c == Entered(k, down)
<1>1. /\ c # None /\ keys < MaxKeys /\ keys' = keys + 1 /\ InputAscii(c)
      /\ shift' = shift /\ ctrl' = ctrl
  BY Zenon DEF Key
<1>2. c \in Chars
  BY <1>1, EnteredIs, Zenon
<1>3. keys' \in 0 .. MaxKeys
  BY <1>1 DEF InputArrives, TerminalTypeOK, Lengths
<1>4. shift' \in BOOLEAN /\ ctrl' \in BOOLEAN
  BY <1>1, Zenon DEF InputArrives, TerminalTypeOK
<1> HIDE DEF c
<1> QED
  BY <1>1, <1>2, <1>3, <1>4, InputAsciiKeeps, Zenon

\* Shift or control goes down or up.
LEMMA ModifierKeeps ==
  ASSUME InputArrives, Modifier
  PROVE  InputArrives'
<1>1. shift' \in BOOLEAN /\ ctrl' \in BOOLEAN
  BY Zenon DEF Modifier, InputArrives, TerminalTypeOK
<1>2. UNCHANGED <<line, pipe, asleep, sigints, keys, struck, due, cut>>
  BY Zenon DEF Modifier
<1>3. TerminalTypeOK'
  BY <1>1, <1>2, Zenon DEF InputArrives, TerminalTypeOK
<1> QED
  BY <1>2, <1>3, Zenon DEF InputArrives, LineAsTyped, LinesArrive, SleeperHasNothing

\* A process reads the terminal.
LEMMA ReadKeeps ==
  ASSUME InputArrives, Lengths, NEW n \in 1 .. Capacity, Read(n)
  PROVE  InputArrives'
<1> DEFINE k == IF n <= Len(pipe) THEN n ELSE Len(pipe)
<1>1. /\ pipe' = SubSeq(pipe, k + 1, Len(pipe)) /\ due' = SubSeq(due, k + 1, Len(due))
      /\ asleep' = (k = 0)
      /\ UNCHANGED <<shift, ctrl, line, sigints, keys, struck, cut>>
  BY Zenon DEF Read
<1>2. /\ pipe \in Seq(Chars) /\ Len(pipe) \in Nat /\ Len(pipe) <= Capacity
      /\ due \in Seq(Chars)
  BY LenProperties DEF InputArrives, TerminalTypeOK
<1>3. k \in Nat
  BY <1>2 DEF Lengths
<1>4. k = 0 => pipe = <<>>
  <2>1. k = 0 => Len(pipe) = 0
    BY <1>2 DEF Lengths
  <2> QED
    BY <1>2, <2>1, EmptySeq, Zenon
<1> HIDE DEF k
<1>5. pipe' \in Seq(Chars) /\ Len(pipe') <= Len(pipe) /\ (pipe = <<>> => pipe' = <<>>)
  BY <1>1, <1>2, <1>3, RestIs, Zenon
<1>6. due' \in Seq(Chars)
  BY <1>1, <1>2, <1>3, RestIs, Zenon
<1>7. Len(pipe') <= Capacity
  <2>1. Len(pipe') \in Nat
    BY <1>5, LenProperties, Zenon
  <2> QED
    BY <1>2, <1>5, <2>1 DEF Lengths
<1>8. asleep' \in BOOLEAN
  BY <1>1, Zenon
<1>9. TerminalTypeOK'
  BY <1>1, <1>5, <1>6, <1>7, <1>8, Zenon DEF InputArrives, TerminalTypeOK
<1>10. LinesArrive' /\ LineAsTyped'
  BY <1>1, Zenon DEF InputArrives, LinesArrive, LineAsTyped
<1>11. SleeperHasNothing'
  BY <1>1, <1>4, <1>5, Zenon DEF SleeperHasNothing
<1> QED
  BY <1>9, <1>10, <1>11, Zenon DEF InputArrives

\* What is typed arrives: until a character is refused or a line cut, the line is
\* what was typed since the last newline and the pipe holds the lines completed and
\* not read; and no process sleeps in sys_read while there is something to read,
\* cut or not.
THEOREM TypedLinesArrive ==
  ASSUME Lengths
  PROVE  TerminalSpec => []InputArrives
<1>1. TerminalInit => InputArrives
  <2>1. <<>> \in Seq(Chars) /\ Len(<<>>) <= LineLength /\ Len(<<>>) <= Capacity
        /\ 0 \in Nat /\ 0 \in 0 .. MaxKeys
    BY EmptySeq DEF Lengths
  <2>2. TerminalInit => TerminalTypeOK
    BY <2>1, Zenon DEF TerminalInit, TerminalTypeOK
  <2> QED
    BY <2>2, Zenon DEF TerminalInit, InputArrives, LineAsTyped, LinesArrive, SleeperHasNothing
<1>2. InputArrives /\ [TerminalNext]_terminalVars => InputArrives'
  <2> SUFFICES ASSUME InputArrives, [TerminalNext]_terminalVars PROVE InputArrives'
    OBVIOUS
  <2>1. CASE UNCHANGED terminalVars
    <3>1. UNCHANGED <<shift, ctrl, line, pipe, asleep, sigints, keys, struck, due, cut>>
      BY <2>1, Zenon DEF terminalVars
    <3>2. TerminalTypeOK'
      BY <3>1, Zenon DEF InputArrives, TerminalTypeOK
    <3> QED
      BY <3>1, <3>2, Zenon DEF InputArrives, LineAsTyped, LinesArrive, SleeperHasNothing
  <2> QED
    BY <2>1, KeyKeeps, ModifierKeeps, ReadKeeps, Zenon DEF TerminalNext
<1> QED
  BY <1>1, <1>2, PTL DEF TerminalSpec
-----------------------------------------------------------------------------
(***************************************************************************)
(* Cells of the screen.                                                    *)
(***************************************************************************)
LEMMA Sizes ==
  /\ Columns \in Nat \ {0} /\ Lines \in Nat \ {0} /\ Lines * Columns \in Nat
  BY ScreenAssumption

\* Rows of Columns cells, one behind the other.
LEMMA RowTimes ==
  ASSUME NEW r \in Int
  PROVE  r * Columns \in Int /\ (r + 1) * Columns = r * Columns + Columns
         /\ (r \in Nat => r * Columns \in Nat)
  BY Sizes

\* The cell of row r and column c.
LEMMA CellOf ==
  ASSUME NEW r \in 0 .. Lines - 1, NEW c \in 0 .. Columns - 1
  PROVE  r * Columns + c \in Cells /\ (r + 1) * Columns <= Lines * Columns
<1> DEFINE x == r * Columns
           y == Lines * Columns
<1>1. r \in Nat /\ r + 1 <= Lines /\ r + 1 \in Int /\ Lines \in Int
  BY Sizes
<1>2. (r + 1) * Columns <= Lines * Columns
  BY <1>1, Sizes, TimesLeq
<1>3. x \in Nat /\ (r + 1) * Columns = x + Columns /\ y \in Nat
  BY <1>1, RowTimes, Sizes
<1> HIDE DEF x, y
<1>4. x + c \in 0 .. y - 1
  BY <1>2, <1>3, Sizes DEF y
<1> QED BY <1>2, <1>4, Zenon DEF x, y, Cells

\* No cell is in two rows or columns.
LEMMA CellUnique ==
  ASSUME NEW r \in Nat, NEW c \in 0 .. Columns - 1, NEW q \in Nat, NEW d \in 0 .. Columns - 1,
         r * Columns + c = q * Columns + d
  PROVE  r = q /\ c = d
<1> DEFINE x == r * Columns
           y == q * Columns
<1>1. /\ x \in Nat /\ y \in Nat /\ (r + 1) * Columns = x + Columns
      /\ (q + 1) * Columns = y + Columns
  BY RowTimes
<1>2. x + c = y + d
  OBVIOUS
<1> HIDE DEF x, y
<1>3. x < y + Columns /\ y < x + Columns
  BY <1>1, <1>2, Sizes
<1>4. r < q + 1 /\ q < r + 1
  BY <1>1, <1>3, Sizes, TimesLess DEF x, y
<1>5. r = q
  BY <1>4
<1>6. x = y
  BY <1>5 DEF x, y
<1> QED BY <1>1, <1>2, <1>5, <1>6, Sizes

\* The division by which VGA.c gets the row of a cell.
LEMMA CellDiv ==
  ASSUME NEW r \in Nat, NEW c \in 0 .. Columns - 1
  PROVE  (r * Columns + c) \div Columns = r
<1> DEFINE a == r * Columns + c
           q == a \div Columns
           d == a % Columns
<1>1. r * Columns \in Nat
  BY RowTimes
<1>2. a \in Nat
  BY <1>1, Sizes
<1> HIDE DEF a
<1>3. q \in Nat /\ d \in 0 .. Columns - 1 /\ a = q * Columns + d
  BY <1>2, Sizes
<1> HIDE DEF q, d
<1>4. r = q
  BY <1>3, CellUnique DEF a
<1> QED BY <1>4 DEF a, q
-----------------------------------------------------------------------------
(***************************************************************************)
(* The text in rows, and the screen that shows rows.                       *)
(***************************************************************************)
Contents == Letters \cup {Blank, Clock}

Laid ==
  {rows \in Seq(Seq(Letters)) :
     Len(rows) >= 1 /\ \A k \in 1 .. Len(rows) : Len(rows[k]) <= Columns}

\* The row of the screen that the last row of the text is in.
LastRow(rows) == Len(rows) - Gone(rows) - 1

Pictures(c, h, rows) ==
  \A i \in 0 .. Lines - 1, j \in 0 .. Columns - 1 :
    (i = 0 /\ j >= Columns - h) \/ c[i * Columns + j] = LetterAt(rows, Gone(rows) + i + 1, j)

\* Rows that text was laid out in.
LEMMA LaidIs ==
  ASSUME NEW rows \in Laid
  PROVE  /\ rows \in Seq(Seq(Letters)) /\ Len(rows) \in Nat \ {0} /\ DOMAIN rows = 1 .. Len(rows)
         /\ \A k \in 1 .. Len(rows) :
              /\ rows[k] \in Seq(Letters) /\ Len(rows[k]) \in 0 .. Columns
              /\ DOMAIN rows[k] = 1 .. Len(rows[k])
         /\ Gone(rows) \in Nat /\ LastRow(rows) \in 0 .. Lines - 1
         /\ Gone(rows) + LastRow(rows) + 1 = Len(rows)
<1>1. rows \in Seq(Seq(Letters)) /\ Len(rows) >= 1
      /\ \A k \in 1 .. Len(rows) : Len(rows[k]) <= Columns
  BY Zenon DEF Laid
<1>2. Len(rows) \in Nat /\ DOMAIN rows = 1 .. Len(rows)
  BY <1>1, LenProperties, Zenon
<1>3. \A k \in 1 .. Len(rows) : rows[k] \in Seq(Letters)
  BY <1>1, ElementOfSeq, Zenon
<1>4. \A k \in 1 .. Len(rows) : Len(rows[k]) \in Nat /\ DOMAIN rows[k] = 1 .. Len(rows[k])
  BY <1>3, LenProperties, Zenon
<1>5. \A k \in 1 .. Len(rows) : Len(rows[k]) \in 0 .. Columns
  BY <1>1, <1>4, Sizes
<1>6. /\ Gone(rows) \in Nat /\ LastRow(rows) \in 0 .. Lines - 1
      /\ Gone(rows) + LastRow(rows) + 1 = Len(rows) /\ Len(rows) \in Nat \ {0}
  BY <1>1, <1>2, Sizes DEF Gone, LastRow
<1> QED BY <1>1, <1>2, <1>3, <1>4, <1>5, <1>6, Zenon

\* A character is written at the cursor.
LEMMA PutInRowIs ==
  ASSUME NEW rows \in Laid, NEW ch \in Letters, Len(rows[Len(rows)]) < Columns
  PROVE  /\ PutInRow(rows, ch) \in Laid /\ Len(PutInRow(rows, ch)) = Len(rows)
         /\ Gone(PutInRow(rows, ch)) = Gone(rows)
         /\ PutInRow(rows, ch)[Len(rows)] = Append(rows[Len(rows)], ch)
         /\ Len(PutInRow(rows, ch)[Len(rows)]) = Len(rows[Len(rows)]) + 1
         /\ \A k \in 1 .. Len(rows) : k # Len(rows) => PutInRow(rows, ch)[k] = rows[k]
<1> DEFINE n == Len(rows)
           old == rows[n]
           new == Append(old, ch)
           p == PutInRow(rows, ch)
<1>1. /\ rows \in Seq(Seq(Letters)) /\ n \in Nat \ {0} /\ DOMAIN rows = 1 .. n /\ n \in 1 .. n
      /\ \A k \in 1 .. n : rows[k] \in Seq(Letters) /\ Len(rows[k]) \in 0 .. Columns
  <2>1. n \in Nat \ {0} => n \in 1 .. n
    OBVIOUS
  <2> QED BY <2>1, LaidIs, Zenon
<1>2. new \in Seq(Letters) /\ Len(new) = Len(old) + 1 /\ Len(new) <= Columns
  <2>1. old \in Seq(Letters) /\ Len(old) \in 0 .. Columns /\ Len(old) < Columns
    BY <1>1, Zenon
  <2> HIDE DEF old
  <2>2. new \in Seq(Letters) /\ Len(new) = Len(old) + 1
    BY <2>1, AppendProperties
  <2> QED BY <2>1, <2>2, Sizes
<1>3. p = [rows EXCEPT ![n] = new]
  BY Zenon DEF PutInRow
<1> HIDE DEF new, old, p
<1>4. p \in Seq(Seq(Letters)) /\ Len(p) = n
  BY <1>1, <1>2, <1>3, ExceptSeq DEF n
<1> HIDE DEF n
<1>5. p[n] = new /\ \A k \in 1 .. n : k # n => p[k] = rows[k]
  BY <1>1, <1>3, Zenon
<1>6. p \in Laid
  <2>1. \A k \in 1 .. n : Len(p[k]) <= Columns
    <3> SUFFICES ASSUME NEW k \in 1 .. n PROVE Len(p[k]) <= Columns
      OBVIOUS
    <3>1. CASE k = n
      BY <1>2, <1>5, <3>1, Zenon
    <3>2. CASE k # n
      <4>1. p[k] = rows[k] /\ Len(rows[k]) \in 0 .. Columns
        BY <1>1, <1>5, <3>2, Zenon
      <4> QED BY <4>1, Sizes
    <3> QED BY <3>1, <3>2, Zenon
  <2>2. Len(p) >= 1
    BY <1>1, <1>4
  <2> QED BY <1>4, <2>1, <2>2, Zenon DEF Laid
<1>7. Gone(p) = Gone(rows)
  BY <1>4, Zenon DEF Gone, n
<1> QED BY <1>2, <1>4, <1>5, <1>6, <1>7, Zenon DEF n, p, new, old

\* A newline begins a row.
LEMMA NewRowIs ==
  ASSUME NEW rows \in Laid
  PROVE  /\ Append(rows, <<>>) \in Laid /\ Len(Append(rows, <<>>)) = Len(rows) + 1
         /\ Append(rows, <<>>)[Len(rows) + 1] = <<>>
         /\ \A k \in 1 .. Len(rows) : Append(rows, <<>>)[k] = rows[k]
<1> DEFINE n == Len(rows)
           e == <<>>
           p == Append(rows, e)
<1>1. /\ rows \in Seq(Seq(Letters)) /\ n \in Nat \ {0}
      /\ \A k \in 1 .. n : Len(rows[k]) \in 0 .. Columns
  BY LaidIs, Zenon
<1>2. e \in Seq(Letters) /\ Len(e) = 0
  BY EmptySeq
<1> HIDE DEF e
<1>3. /\ p \in Seq(Seq(Letters)) /\ Len(p) = n + 1 /\ p[n + 1] = e
      /\ \A k \in 1 .. n : p[k] = rows[k]
  BY <1>1, <1>2, AppendProperties
<1> HIDE DEF p, n
<1>4. \A k \in 1 .. n + 1 : Len(p[k]) <= Columns
  <2> SUFFICES ASSUME NEW k \in 1 .. n + 1 PROVE Len(p[k]) <= Columns
    OBVIOUS
  <2>1. k \in 1 .. n \/ k = n + 1
    BY <1>1
  <2>2. CASE k = n + 1
    <3>1. 0 <= Columns
      BY Sizes
    <3> QED BY <1>2, <1>3, <2>2, <3>1, Zenon
  <2>3. CASE k \in 1 .. n
    <3>1. p[k] = rows[k] /\ Len(rows[k]) \in 0 .. Columns
      BY <1>1, <1>3, <2>3, Zenon
    <3> QED BY <3>1, Sizes
  <2> QED BY <2>1, <2>2, <2>3, Zenon
<1>5. Len(p) >= 1
  BY <1>1, <1>3
<1> QED BY <1>3, <1>4, <1>5, Zenon DEF Laid, n, p, e
-----------------------------------------------------------------------------
(***************************************************************************)
(* print_func keeps the picture.                                           *)
(***************************************************************************)
LEMMA CursorIs ==
  ASSUME NEW rows \in Laid, Len(rows[Len(rows)]) < Columns
  PROVE  /\ LastRow(rows) \in Nat /\ Len(rows[Len(rows)]) \in 0 .. Columns - 1
         /\ LastRow(rows) * Columns + Len(rows[Len(rows)]) \in Cells
<1> DEFINE j == Len(rows[Len(rows)])
<1>1. Len(rows) \in 1 .. Len(rows)
  <2>1. Len(rows) \in Nat \ {0}
    BY LaidIs, Zenon
  <2> QED BY <2>1
<1>2. j \in 0 .. Columns /\ j < Columns /\ LastRow(rows) \in 0 .. Lines - 1
  BY <1>1, LaidIs, Zenon
<1> HIDE DEF j
<1>3. j \in 0 .. Columns - 1 /\ LastRow(rows) \in Nat
  BY <1>2, Sizes
<1>4. LastRow(rows) * Columns + j \in Cells
  BY <1>2, <1>3, CellOf, Zenon
<1> QED BY <1>3, <1>4, Zenon DEF j

\* The letter stored at the cursor is the one laid out.
LEMMA WritesCell ==
  ASSUME NEW c \in [Cells -> Contents], NEW h, NEW rows \in Laid, NEW ch \in Letters,
         Len(rows[Len(rows)]) < Columns, Pictures(c, h, rows)
  PROVE  Pictures([c EXCEPT ![LastRow(rows) * Columns + Len(rows[Len(rows)])] = ch],
                  h, PutInRow(rows, ch))
<1> DEFINE n == Len(rows)
           m == Len(rows[n])
           g == Gone(rows)
           at == LastRow(rows) * Columns + m
           new == [c EXCEPT ![at] = ch]
           p == PutInRow(rows, ch)
<1>1. /\ n \in Nat \ {0} /\ DOMAIN rows = 1 .. n /\ g \in Nat /\ g + LastRow(rows) + 1 = n
      /\ \A k \in 1 .. n : rows[k] \in Seq(Letters) /\ Len(rows[k]) \in 0 .. Columns
                            /\ DOMAIN rows[k] = 1 .. Len(rows[k])
  BY LaidIs, Zenon
<1>2. LastRow(rows) \in Nat /\ m \in 0 .. Columns - 1 /\ at \in Cells
  BY CursorIs, Zenon
<1>3. /\ p \in Laid /\ Len(p) = n /\ Gone(p) = g /\ p[n] = Append(rows[n], ch)
      /\ Len(p[n]) = m + 1
      /\ \A k \in 1 .. n : k # n => p[k] = rows[k]
  BY PutInRowIs, Zenon
<1>4. DOMAIN p = 1 .. n /\ DOMAIN p[n] = 1 .. m + 1 /\ n \in 1 .. n
  <2>1. n \in 1 .. n
    BY <1>1
  <2> QED BY <1>3, <2>1, LaidIs, Zenon
<1>5. p[n][m + 1] = ch /\ \A i \in 1 .. m : p[n][i] = rows[n][i]
  <2>1. rows[n] \in Seq(Letters)
    BY <1>1, <1>4, Zenon
  <2> DEFINE row == rows[n]
  <2>2. Append(row, ch)[Len(row) + 1] = ch /\ \A i \in 1 .. Len(row) : Append(row, ch)[i] = row[i]
    <3> HIDE DEF row
    <3> QED BY <2>1, AppendProperties DEF row
  <2> QED BY <1>3, <2>2, Zenon
<1> SUFFICES ASSUME NEW i \in 0 .. Lines - 1, NEW j \in 0 .. Columns - 1,
                    ~ (i = 0 /\ j >= Columns - h)
             PROVE  new[i * Columns + j] = LetterAt(p, g + i + 1, j)
  <2>1. Gone(p) = g
    BY <1>3, Zenon
  <2> HIDE DEF p, g, new
  <2>2. ASSUME NEW i \in 0 .. Lines - 1, NEW j \in 0 .. Columns - 1
        PROVE  (i = 0 /\ j >= Columns - h) \/ new[i * Columns + j] = LetterAt(p, Gone(p) + i + 1, j)
    BY <2>1, Zenon
  <2> QED BY <2>2, Zenon DEF Pictures, new, p
<1> DEFINE x == i * Columns + j
<1>6. x \in Cells /\ i \in Nat
  <2>1. i \in Nat
    BY Sizes
  <2> QED BY <2>1, CellOf, Zenon
<1>7. c[x] = LetterAt(rows, g + i + 1, j)
  BY Zenon DEF Pictures
<1> HIDE DEF p, g, n, m
<1>8. CASE i = LastRow(rows) /\ j = m
  <2>1. new[x] = ch
    BY <1>2, <1>6, <1>8, Zenon
  <2>2. g + i + 1 = n /\ j + 1 = m + 1 /\ m + 1 \in 1 .. m + 1
    BY <1>1, <1>2, <1>8
  <2>3. LetterAt(p, g + i + 1, j) = ch
    BY <1>4, <1>5, <2>2, Zenon DEF LetterAt
  <2> QED BY <2>1, <2>3, Zenon
<1>9. CASE ~ (i = LastRow(rows) /\ j = m)
  <2>1. x # at
    BY <1>2, <1>6, <1>9, CellUnique, Zenon
  <2>2. new[x] = c[x]
    BY <1>6, <2>1, Zenon
  <2>3. LetterAt(p, g + i + 1, j) = LetterAt(rows, g + i + 1, j)
    <3> DEFINE k == g + i + 1
    <3>1. CASE k = n
      <4>1. i = LastRow(rows)
        <5>1. n \in Nat /\ g \in Nat /\ LastRow(rows) \in Nat /\ i \in Nat
              /\ g + LastRow(rows) + 1 = n /\ g + i + 1 = n
          BY <1>1, <1>2, <1>6, <3>1, Zenon
        <5> QED BY ONLY <5>1
      <4>2. j # m
        BY <1>9, <4>1
      <4>3. j + 1 \in 1 .. m + 1 <=> j + 1 \in 1 .. m
        BY <1>2, <4>2
      <4>4. DOMAIN rows[n] = 1 .. m
        BY <1>1, <1>4, Zenon DEF m
      <4>5. k \in DOMAIN p /\ k \in DOMAIN rows
        BY <1>1, <1>4, <3>1, Zenon
      <4>6. CASE j + 1 \in 1 .. m
        <5>1. LetterAt(p, k, j) = p[n][j + 1]
          BY <1>4, <3>1, <4>3, <4>5, <4>6, Zenon DEF LetterAt
        <5>2. LetterAt(rows, k, j) = rows[n][j + 1]
          BY <3>1, <4>4, <4>5, <4>6, Zenon DEF LetterAt
        <5> QED BY <1>5, <4>6, <5>1, <5>2, Zenon
      <4>7. CASE j + 1 \notin 1 .. m
        <5>1. LetterAt(p, k, j) = Blank
          BY <1>4, <3>1, <4>3, <4>7, Zenon DEF LetterAt
        <5>2. LetterAt(rows, k, j) = Blank
          BY <3>1, <4>4, <4>7, Zenon DEF LetterAt
        <5> QED BY <5>1, <5>2, Zenon
      <4> QED BY <4>6, <4>7, Zenon
    <3>2. CASE k # n
      BY <1>1, <1>3, <1>4, <3>2, Zenon DEF LetterAt
    <3> QED BY <3>1, <3>2, Zenon
  <2> QED BY <1>7, <2>2, <2>3, Zenon
<1> QED BY <1>8, <1>9, Zenon

\* A row ends and the screen has room for one more.
LEMMA RowEnds ==
  ASSUME NEW c, NEW h, NEW rows \in Laid, Pictures(c, h, rows), LastRow(rows) + 1 < Lines
  PROVE  /\ Pictures(c, h, Append(rows, <<>>))
         /\ LastRow(Append(rows, <<>>)) = LastRow(rows) + 1
<1> DEFINE n == Len(rows)
           p == Append(rows, <<>>)
           g == Gone(rows)
<1>1. n \in Nat \ {0} /\ DOMAIN rows = 1 .. n /\ g \in Nat /\ g + LastRow(rows) + 1 = n
      /\ LastRow(rows) \in 0 .. Lines - 1
  BY LaidIs, Zenon
<1>2. p \in Laid /\ Len(p) = n + 1 /\ p[n + 1] = <<>> /\ \A k \in 1 .. n : p[k] = rows[k]
  BY NewRowIs, Zenon
<1>4. DOMAIN p = 1 .. n + 1
  BY <1>2, LaidIs, Zenon
<1> HIDE DEF p
<1>3. g = 0 /\ Gone(p) = 0
  <2>1. n \in Nat /\ Lines \in Nat
    BY <1>1, Sizes
  <2>2. g = IF n <= Lines THEN 0 ELSE n - Lines
    BY Zenon DEF Gone
  <2>3. Gone(p) = IF Len(p) <= Lines THEN 0 ELSE Len(p) - Lines
    BY Zenon DEF Gone
  <2>4. n - g - 1 + 1 < Lines
    BY Zenon DEF LastRow
  <2> HIDE DEF n, g
  <2> QED BY <1>2, <2>1, <2>2, <2>3, <2>4
<1> HIDE DEF n
<1>5. \A k \in Nat, j \in Nat : LetterAt(p, k, j) = LetterAt(rows, k, j)
  <2> SUFFICES ASSUME NEW k \in Nat, NEW j \in Nat PROVE LetterAt(p, k, j) = LetterAt(rows, k, j)
    BY Zenon
  <2>1. CASE k \in 1 .. n
    <3>1. k \in 1 .. n + 1
      BY <1>1, <2>1
    <3> QED BY <1>1, <1>2, <1>4, <2>1, <3>1, Zenon DEF LetterAt
  <2>2. CASE k = n + 1
    <3>1. n + 1 \notin 1 .. n /\ j + 1 \notin DOMAIN <<>>
      BY <1>1
    <3> QED BY <1>1, <1>2, <2>2, <3>1, Zenon DEF LetterAt
  <2>3. CASE k \notin 1 .. n /\ k # n + 1
    <3>1. k \notin 1 .. n + 1
      BY <1>1, <2>3
    <3> QED BY <1>1, <1>4, <2>3, <3>1, Zenon DEF LetterAt
  <2> QED BY <2>1, <2>2, <2>3, Zenon
<1>6. Pictures(c, h, p)
  <2> SUFFICES ASSUME NEW i \in 0 .. Lines - 1, NEW j \in 0 .. Columns - 1
               PROVE  (i = 0 /\ j >= Columns - h) \/ c[i * Columns + j] = LetterAt(p, Gone(p) + i + 1, j)
    BY Zenon DEF Pictures
  <2>1. Gone(p) + i + 1 \in Nat /\ j \in Nat
    BY <1>3, Sizes
  <2>2. Gone(p) = Gone(rows)
    BY <1>3, Zenon
  <2> QED BY <1>5, <2>1, <2>2, Zenon DEF Pictures
<1>7. LastRow(p) = LastRow(rows) + 1
  BY <1>1, <1>2, <1>3 DEF LastRow, n
<1> QED BY <1>6, <1>7, Zenon DEF p

\* A row ends and the screen scrolls.
LEMMA RowScrolls ==
  ASSUME NEW c \in [Cells -> Contents], NEW h \in 0 .. Columns, NEW rows \in Laid,
         Pictures(c, h, rows), LastRow(rows) + 1 = Lines, topright_length \in 0 .. Columns
  PROVE  /\ Pictures(Scrolled(c), topright_length, Append(rows, <<>>))
         /\ LastRow(Append(rows, <<>>)) = LastRow(rows)
<1> DEFINE n == Len(rows)
           p == Append(rows, <<>>)
           g == Gone(rows)
<1>1. n \in Nat \ {0} /\ DOMAIN rows = 1 .. n /\ g \in Nat /\ g + LastRow(rows) + 1 = n
      /\ LastRow(rows) \in 0 .. Lines - 1
  BY LaidIs, Zenon
<1>2. p \in Laid /\ Len(p) = n + 1 /\ p[n + 1] = <<>> /\ \A k \in 1 .. n : p[k] = rows[k]
  BY NewRowIs, Zenon
<1>3. DOMAIN p = 1 .. n + 1
  BY <1>2, LaidIs, Zenon
<1> HIDE DEF p
<1>4. g + Lines = n /\ Gone(p) = g + 1
  <2>1. n \in Nat /\ Lines \in Nat /\ g \in Nat
    BY <1>1, Sizes
  <2>2. Gone(p) = IF Len(p) <= Lines THEN 0 ELSE Len(p) - Lines
    BY Zenon DEF Gone
  <2>3. n - g - 1 + 1 = Lines
    BY Zenon DEF LastRow
  <2> HIDE DEF n, g
  <2> QED BY <1>2, <2>1, <2>2, <2>3
<1> HIDE DEF n, g
<1>5. Pictures(Scrolled(c), topright_length, p)
  <2> SUFFICES ASSUME NEW i \in 0 .. Lines - 1, NEW j \in 0 .. Columns - 1,
                      ~ (i = 0 /\ j >= Columns - topright_length)
               PROVE  Scrolled(c)[i * Columns + j] = LetterAt(p, Gone(p) + i + 1, j)
    BY Zenon DEF Pictures
  <2> DEFINE x == i * Columns
             k == g + i + 2
  <2>1. /\ x + j \in Cells /\ i \in Nat /\ j \in Nat /\ x \in Nat /\ (i + 1) * Columns = x + Columns
        /\ Columns \in Nat /\ (i # 0 => x >= Columns)
    <3>1. i \in Nat /\ j \in Nat /\ Columns \in Nat
      BY Sizes
    <3>2. x + j \in Cells
      BY CellOf, Zenon
    <3>3. x \in Nat /\ (i + 1) * Columns = x + Columns
      BY <3>1, RowTimes
    <3>4. ASSUME i # 0 PROVE x >= Columns
      <4>1. 1 * Columns <= i * Columns
        BY <3>1, <3>4, TimesLeq
      <4> QED BY <3>1, <4>1
    <3> QED BY <3>1, <3>2, <3>3, <3>4, Zenon
  <2>2. Gone(p) + i + 1 = k /\ k \in Nat
    BY <1>1, <1>4, <2>1
  <2>3. i = 0 => x = 0
    BY <2>1
  <2> HIDE DEF x
  <2>4. x + j \notin Columns - topright_length .. Columns - 1
    BY <2>1, <2>3
  <2>5. Scrolled(c)[x + j] = IF x + j + Columns \in Cells THEN c[x + j + Columns] ELSE Blank
    BY <2>1, <2>4, Zenon DEF Scrolled
  <2>6. CASE i + 1 \in 0 .. Lines - 1
    <3>1. (i + 1) * Columns + j \in Cells /\ x + j + Columns = (i + 1) * Columns + j
      <4>1. (i + 1) * Columns + j \in Cells
        BY <2>6, CellOf, Zenon
      <4> QED BY <2>1, <4>1
    <3>2. Scrolled(c)[x + j] = c[(i + 1) * Columns + j]
      BY <2>5, <3>1, Zenon
    <3>3. i + 1 # 0
      BY <2>1
    <3>4. c[(i + 1) * Columns + j] = LetterAt(rows, Gone(rows) + (i + 1) + 1, j)
      BY <2>6, <3>3, Zenon DEF Pictures
    <3>5. Gone(rows) + (i + 1) + 1 = k /\ k \in 1 .. n /\ k \in 1 .. n + 1
      <4>1. g \in Nat /\ n \in Nat /\ Lines \in Nat /\ i \in Nat /\ g + Lines = n /\ i + 1 <= Lines - 1
        BY <1>1, <1>4, <2>1, <2>6, Sizes
      <4>2. g + (i + 1) + 1 = k /\ k \in 1 .. n /\ k \in 1 .. n + 1
        BY ONLY <4>1
      <4> QED BY <4>2, Zenon DEF g
    <3>6. LetterAt(p, k, j) = LetterAt(rows, k, j)
      BY <1>1, <1>2, <1>3, <3>5, Zenon DEF LetterAt
    <3> QED BY <2>2, <3>2, <3>4, <3>5, <3>6, Zenon DEF x
  <2>7. CASE i + 1 \notin 0 .. Lines - 1
    <3>1. i + 1 = Lines
      BY <2>1, <2>7, Sizes
    <3>2. x + j + Columns \notin Cells
      <4> DEFINE y == Lines * Columns
      <4>1. y = x + Columns
        BY <2>1, <3>1
      <4>2. x + j + Columns \notin 0 .. y - 1
        <5> HIDE DEF y
        <5> QED BY <2>1, <4>1
      <4> QED BY <4>2, Zenon DEF Cells
    <3>3. Scrolled(c)[x + j] = Blank
      BY <2>5, <3>2, Zenon
    <3>4. k = n + 1
      BY <1>1, <1>4, <2>1, <3>1
    <3>5. j + 1 \notin DOMAIN <<>>
      BY <2>1
    <3>6. LetterAt(p, k, j) = Blank
      BY <1>2, <3>4, <3>5, Zenon DEF LetterAt
    <3> QED BY <2>2, <3>3, <3>6, Zenon DEF x
  <2> QED BY <2>6, <2>7, Zenon
<1>6. LastRow(p) = LastRow(rows)
  <2>1. LastRow(p) = Len(p) - Gone(p) - 1 /\ LastRow(rows) = n - g - 1
    BY Zenon DEF LastRow, n, g
  <2> QED BY <1>1, <1>2, <1>4, <2>1
<1> QED BY <1>5, <1>6, Zenon DEF p
-----------------------------------------------------------------------------
Screens == [cell : [Cells -> Contents], cursor : Cells, hidden : 0 .. Columns]

\* The screen s shows the text that is laid out in rows.
Depicts(s, rows) ==
  /\ s \in Screens /\ s.hidden \in topright_length .. Columns
  /\ rows \in Laid /\ Len(rows[Len(rows)]) < Columns
  /\ s.cursor = LastRow(rows) * Columns + Len(rows[Len(rows)])
  /\ Pictures(s.cell, s.hidden, rows)

WrittenCell(s, c) == IF c = Newline THEN s.cell ELSE [s.cell EXCEPT ![s.cursor] = c]
Moved(s, c) == IF c = Newline THEN (s.cursor \div Columns + 1) * Columns ELSE s.cursor + 1

\* print_func: the cell, the cursor, and the scrolling.
LEMMA PrintedIs ==
  ASSUME NEW s \in Screens, NEW c
  PROVE  Printed(s, c) =
           IF Moved(s, c) >= Lines * Columns
           THEN [cell |-> Scrolled(WrittenCell(s, c)), cursor |-> Moved(s, c) - Columns,
                 hidden |-> topright_length]
           ELSE [cell |-> WrittenCell(s, c), cursor |-> Moved(s, c), hidden |-> s.hidden]
<1> DEFINE s1 == IF c = Newline
                 THEN [s EXCEPT !.cursor = (@ \div Columns + 1) * Columns]
                 ELSE [s EXCEPT !.cell[s.cursor] = c, !.cursor = @ + 1]
<1>1. s1 = [cell |-> WrittenCell(s, c), cursor |-> Moved(s, c), hidden |-> s.hidden]
  BY DEF Screens, WrittenCell, Moved
<1>2. s1.cell = WrittenCell(s, c) /\ s1.cursor = Moved(s, c)
  BY <1>1
<1>3. Printed(s, c) = IF s1.cursor >= Lines * Columns
                      THEN [cell |-> Scrolled(s1.cell), cursor |-> s1.cursor - Columns,
                            hidden |-> topright_length]
                      ELSE s1
  BY Zenon DEF Printed
<1> HIDE DEF s1
<1> QED BY <1>1, <1>2, <1>3, Zenon

\* What scroll_lines_up makes of the cells.
LEMMA ScrolledIs ==
  ASSUME NEW c \in [Cells -> Contents]
  PROVE  Scrolled(c) \in [Cells -> Contents]
  BY Zenon DEF Scrolled, Contents

\* A character printed on a picture of the rows gives the picture of the rows with it.
LEMMA PrintedDepicts ==
  ASSUME NEW s, NEW rows, Depicts(s, rows), NEW c \in Output, topright_length \in 0 .. Columns
  PROVE  Depicts(Printed(s, c), Put(rows, c))
<1> DEFINE n == Len(rows)
           m == Len(rows[n])
           l == LastRow(rows)
           h == s.hidden
           w == WrittenCell(s, c)
           v == Moved(s, c)
           mid == IF c = Newline THEN rows ELSE PutInRow(rows, c)
           p == Append(mid, <<>>)
<1>1. /\ s \in Screens /\ h \in topright_length .. Columns /\ rows \in Laid /\ m < Columns
      /\ s.cursor = l * Columns + m /\ Pictures(s.cell, h, rows)
  BY Zenon DEF Depicts
<1>2. l \in Nat /\ m \in 0 .. Columns - 1 /\ l \in 0 .. Lines - 1 /\ s.cursor \in Cells
      /\ s.cell \in [Cells -> Contents] /\ h \in 0 .. Columns
  <2>1. l \in Nat /\ m \in 0 .. Columns - 1 /\ l \in 0 .. Lines - 1
    BY <1>1, CursorIs, LaidIs, Zenon
  <2> QED BY <1>1, <2>1 DEF Screens
<1>0. l * Columns \in Nat /\ (l + 1) * Columns = l * Columns + Columns
  <2>1. l \in Int /\ l \in Nat
    BY <1>2
  <2> HIDE DEF l
  <2> QED BY <2>1, RowTimes, Zenon
<1>3. c # Newline => c \in Letters
  BY DEF Output
<1>4. w \in [Cells -> Contents]
  BY <1>2, <1>3, Zenon DEF WrittenCell, Contents
<1>5. mid \in Laid /\ Len(mid) = n /\ Gone(mid) = Gone(rows) /\ Pictures(w, h, mid)
  <2>1. CASE c = Newline
    BY <1>1, <2>1, Zenon DEF WrittenCell
  <2>2. CASE c # Newline
    <3>1. mid = PutInRow(rows, c) /\ w = [s.cell EXCEPT ![l * Columns + m] = c]
      BY <1>1, <2>2, Zenon DEF WrittenCell
    <3>2. PutInRow(rows, c) \in Laid /\ Len(PutInRow(rows, c)) = n
          /\ Gone(PutInRow(rows, c)) = Gone(rows)
      BY <1>1, <1>3, <2>2, PutInRowIs, Zenon
    <3>3. Pictures([s.cell EXCEPT ![l * Columns + m] = c], h, PutInRow(rows, c))
      BY <1>1, <1>2, <1>3, <2>2, WritesCell, Zenon
    <3> QED BY <3>1, <3>2, <3>3, Zenon
  <2> QED BY <2>1, <2>2, Zenon
<1>6. LastRow(mid) = l
  BY <1>5, Zenon DEF LastRow
<1>7. Printed(s, c) = IF v >= Lines * Columns
                      THEN [cell |-> Scrolled(w), cursor |-> v - Columns, hidden |-> topright_length]
                      ELSE [cell |-> w, cursor |-> v, hidden |-> h]
  BY <1>1, PrintedIs, Zenon
<1>8. \A x \in Cells : ~ (x >= Lines * Columns)
  BY Sizes DEF Cells
<1>9. CASE c # Newline /\ m + 1 # Columns
  <2>1. Put(rows, c) = mid
    BY <1>9, Zenon DEF Put
  <2>2. Len(mid[n]) = m + 1
    BY <1>1, <1>3, <1>9, PutInRowIs, Zenon
  <2>3. m + 1 < Columns
    BY <1>2, <1>9, Sizes
  <2>4. v = l * Columns + (m + 1)
    <3>1. v = s.cursor + 1 /\ l * Columns \in Nat
      BY <1>2, <1>9, RowTimes DEF Moved
    <3> QED BY <1>1, <1>2, <3>1
  <2>5. v \in Cells
    BY <1>5, <1>6, <2>2, <2>3, <2>4, CursorIs, Zenon
  <2> DEFINE t == [cell |-> w, cursor |-> v, hidden |-> h]
  <2>6. Printed(s, c) = t
    BY <1>7, <1>8, <2>5, Zenon
  <2> HIDE DEF w, v, h, mid
  <2>7. t \in Screens /\ t.cell = w /\ t.cursor = v /\ t.hidden = h
    BY <1>2, <1>4, <2>5 DEF Screens
  <2> HIDE DEF t
  <2> QED BY <1>1, <1>5, <1>6, <2>1, <2>2, <2>3, <2>4, <2>6, <2>7, Zenon DEF Depicts
<1>10. CASE ~ (c # Newline /\ m + 1 # Columns)
  <2>1. Put(rows, c) = p
    BY <1>10, Zenon DEF Put
  <2>2. v = (l + 1) * Columns
    <3>1. CASE c = Newline
      <4>1. v = (s.cursor \div Columns + 1) * Columns
        BY <3>1, Zenon DEF Moved
      <4>2. s.cursor \div Columns = l
        BY <1>1, <1>2, CellDiv, Zenon
      <4> QED BY <4>1, <4>2, Zenon
    <3>2. CASE c # Newline
      <4>1. v = s.cursor + 1
        BY <3>2, Zenon DEF Moved
      <4>2. m + 1 = Columns
        BY <1>10, <3>2
      <4> QED BY <1>0, <1>1, <1>2, <4>1, <4>2
    <3> QED BY <3>1, <3>2, Zenon
  <2>3. p \in Laid /\ p[Len(p)] = <<>>
    BY <1>5, NewRowIs, Zenon
  <2>4. Len(p[Len(p)]) = 0 /\ 0 < Columns /\ 0 \in 0 .. Columns - 1
    BY <2>3, Sizes
  <2>5. CASE l + 1 < Lines
    <3>1. Pictures(w, h, p) /\ LastRow(p) = l + 1
      BY <1>5, <1>6, <2>5, RowEnds, Zenon
    <3>2. v = LastRow(p) * Columns + 0 /\ v \in Cells
      <4>1. l + 1 \in 0 .. Lines - 1 /\ l + 1 \in Int
        BY <1>2, <2>5, Sizes
      <4>2. (l + 1) * Columns + 0 \in Cells
        BY <2>4, <4>1, CellOf, Zenon
      <4>3. (l + 1) * Columns + 0 = (l + 1) * Columns
        BY <4>1, RowTimes
      <4> QED BY <2>2, <3>1, <4>2, <4>3, Zenon
    <3> DEFINE t == [cell |-> w, cursor |-> v, hidden |-> h]
    <3>3. Printed(s, c) = t
      BY <1>7, <1>8, <3>2, Zenon
    <3> HIDE DEF w, v, h, p
    <3>4. t \in Screens /\ t.cell = w /\ t.cursor = v /\ t.hidden = h
      BY <1>2, <1>4, <3>2 DEF Screens
    <3> HIDE DEF t
    <3> QED BY <1>1, <2>1, <2>3, <2>4, <3>1, <3>2, <3>3, <3>4, Zenon DEF Depicts
  <2>6. CASE ~ (l + 1 < Lines)
    <3>1. l + 1 = Lines
      BY <1>2, <2>6, Sizes
    <3>2. Pictures(Scrolled(w), topright_length, p) /\ LastRow(p) = l
      BY <1>2, <1>4, <1>5, <1>6, <3>1, RowScrolls, Zenon
    <3>3. Scrolled(w) \in [Cells -> Contents]
      BY <1>4, ScrolledIs, Zenon
    <3>4. v >= Lines * Columns
      BY <2>2, <3>1, Sizes
    <3>5. v - Columns = l * Columns + 0 /\ v - Columns \in Cells
      <4>1. l * Columns + 0 \in Cells
        BY <1>2, <2>4, CellOf, Zenon
      <4>2. v - Columns = l * Columns + 0
        BY <1>0, <2>2, Sizes
      <4> QED BY <4>1, <4>2, Zenon
    <3> DEFINE u == Scrolled(w)
               y == v - Columns
               t == [cell |-> u, cursor |-> y, hidden |-> topright_length]
    <3>6. Printed(s, c) = t
      BY <1>7, <3>4, Zenon
    <3> HIDE DEF u, y, p
    <3>7. t \in Screens /\ t.cell = u /\ t.cursor = y /\ t.hidden = topright_length
      BY <3>3, <3>5 DEF Screens, u, y
    <3>8. topright_length \in topright_length .. Columns
      OBVIOUS
    <3> HIDE DEF t
    <3> QED BY <2>1, <2>3, <2>4, <3>2, <3>5, <3>6, <3>7, <3>8, Zenon DEF Depicts, u, y
  <2> QED BY <2>5, <2>6, Zenon
<1> QED BY <1>9, <1>10, Zenon
-----------------------------------------------------------------------------
(***************************************************************************)
(* The two recursive definitions.  That the functions exist, and what they *)
(* are, follows from a least argument for which it fails.                  *)
(***************************************************************************)
LaidStep(t, f, i) == IF i = 0 THEN << <<>> >> ELSE Put(f[i - 1], t[i])
IsLaid(t, n, f) == f = [i \in 0 .. n |-> LaidStep(t, f, i)]

PrintStep(s, out, f, i) == IF i = 0 THEN s ELSE Printed(f[i - 1], out[i])
IsPrinted(s, out, n, f) == f = [i \in 0 .. n |-> PrintStep(s, out, f, i)]

\* Laying out is a recursive function: it exists up to every length, or there were a
\* least length up to which it does not.
LEMMA LaidExists ==
  ASSUME NEW t, NEW n \in Nat
  PROVE  \E f : IsLaid(t, n, f)
<1> DEFINE Bad == {k \in Nat : ~ \E f : IsLaid(t, k, f)}
<1>1. ASSUME Bad # {} PROVE FALSE
  <2>1. Bad \in SUBSET Nat
    OBVIOUS
  <2> DEFINE m == Min(Bad)
  <2>2. m \in Bad /\ \A k \in Bad : m <= k
    BY <1>1, <2>1, MinIs, Zenon
  <2>3. m \in Nat /\ ~ \E f : IsLaid(t, m, f)
    BY <2>2, Zenon
  <2> HIDE DEF m
  <2>4. CASE m = 0
    <3> DEFINE g == [i \in 0 .. 0 |-> << <<>> >>]
    <3>1. \A i \in 0 .. 0 : i = 0
      OBVIOUS
    <3>2. \A i \in 0 .. 0 : LaidStep(t, g, i) = << <<>> >>
      BY <3>1, Zenon DEF LaidStep
    <3>3. g = [i \in 0 .. 0 |-> LaidStep(t, g, i)]
      <4> QED BY <3>2, Zenon
    <3> QED BY <2>3, <2>4, <3>3, Zenon DEF IsLaid
  <2>5. CASE m # 0
    <3>1. m - 1 \in Nat /\ ~ (m <= m - 1) /\ m \notin 0 .. m - 1
      BY <2>3, <2>5
    <3>2. m - 1 \notin Bad
      BY <2>2, <3>1, Zenon
    <3>3. PICK f : IsLaid(t, m - 1, f)
      BY <3>1, <3>2, Zenon
    <3> DEFINE g == [i \in 0 .. m |-> IF i = m THEN LaidStep(t, f, m) ELSE f[i]]
    <3>4. ASSUME NEW i \in 0 .. m PROVE g[i] = LaidStep(t, g, i)
      <4>1. i # 0 => g[i - 1] = f[i - 1]
        <5>1. i # 0 => i - 1 \in 0 .. m /\ i - 1 # m
          BY <2>3
        <5> QED BY <5>1, Zenon
      <4>2. LaidStep(t, g, i) = LaidStep(t, f, i)
        <5> HIDE DEF g
        <5> QED BY <4>1, Zenon DEF LaidStep
      <4>3. CASE i = m
        BY <4>2, <4>3, Zenon
      <4>4. CASE i # m
        <5>1. i \in 0 .. m - 1
          BY <2>3, <4>4
        <5>2. f[i] = LaidStep(t, f, i)
          BY <3>3, <5>1, Zenon DEF IsLaid
        <5> QED BY <4>2, <4>4, <5>2, Zenon
      <4> QED BY <4>3, <4>4, Zenon
    <3>5. g = [i \in 0 .. m |-> g[i]]
      BY Zenon
    <3>6. IsLaid(t, m, g)
      <4> HIDE DEF g
      <4> QED BY <3>4, <3>5, Zenon DEF IsLaid
    <3> QED BY <2>3, <3>6, Zenon
  <2> QED BY <2>4, <2>5, Zenon
<1> QED BY <1>1, Zenon

\* The same for printing one character after the other.
LEMMA PrintedExists ==
  ASSUME NEW s, NEW out, NEW n \in Nat
  PROVE  \E f : IsPrinted(s, out, n, f)
<1> DEFINE Bad == {k \in Nat : ~ \E f : IsPrinted(s, out, k, f)}
<1>1. ASSUME Bad # {} PROVE FALSE
  <2>1. Bad \in SUBSET Nat
    OBVIOUS
  <2> DEFINE m == Min(Bad)
  <2>2. m \in Bad /\ \A k \in Bad : m <= k
    BY <1>1, <2>1, MinIs, Zenon
  <2>3. m \in Nat /\ ~ \E f : IsPrinted(s, out, m, f)
    BY <2>2, Zenon
  <2> HIDE DEF m
  <2>4. CASE m = 0
    <3> DEFINE g == [i \in 0 .. 0 |-> s]
    <3>1. \A i \in 0 .. 0 : i = 0
      OBVIOUS
    <3>2. \A i \in 0 .. 0 : PrintStep(s, out, g, i) = s
      BY <3>1, Zenon DEF PrintStep
    <3>3. g = [i \in 0 .. 0 |-> PrintStep(s, out, g, i)]
      BY <3>2, Zenon
    <3> QED BY <2>3, <2>4, <3>3, Zenon DEF IsPrinted
  <2>5. CASE m # 0
    <3>1. m - 1 \in Nat /\ ~ (m <= m - 1) /\ m \notin 0 .. m - 1
      BY <2>3, <2>5
    <3>2. m - 1 \notin Bad
      BY <2>2, <3>1, Zenon
    <3>3. PICK f : IsPrinted(s, out, m - 1, f)
      BY <3>1, <3>2, Zenon
    <3> DEFINE g == [i \in 0 .. m |-> IF i = m THEN PrintStep(s, out, f, m) ELSE f[i]]
    <3>4. ASSUME NEW i \in 0 .. m PROVE g[i] = PrintStep(s, out, g, i)
      <4>1. i # 0 => g[i - 1] = f[i - 1]
        <5>1. i # 0 => i - 1 \in 0 .. m /\ i - 1 # m
          BY <2>3
        <5> QED BY <5>1, Zenon
      <4>2. PrintStep(s, out, g, i) = PrintStep(s, out, f, i)
        <5> HIDE DEF g
        <5> QED BY <4>1, Zenon DEF PrintStep
      <4>3. CASE i = m
        BY <4>2, <4>3, Zenon
      <4>4. CASE i # m
        <5>1. i \in 0 .. m - 1
          BY <2>3, <4>4
        <5>2. f[i] = PrintStep(s, out, f, i)
          BY <3>3, <5>1, Zenon DEF IsPrinted
        <5> QED BY <4>2, <4>4, <5>2, Zenon
      <4> QED BY <4>3, <4>4, Zenon
    <3>5. g = [i \in 0 .. m |-> g[i]]
      BY Zenon
    <3>6. IsPrinted(s, out, m, g)
      <4> HIDE DEF g
      <4> QED BY <3>4, <3>5, Zenon DEF IsPrinted
    <3> QED BY <2>3, <3>6, Zenon
  <2> QED BY <2>4, <2>5, Zenon
<1> QED BY <1>1, Zenon

\* So Rows is that function at the end of the text.
LEMMA RowsAre ==
  ASSUME NEW t \in Seq(Output)
  PROVE  \E f : IsLaid(t, Len(t), f) /\ Rows(t) = f[Len(t)]
<1> DEFINE laid == CHOOSE f : f = [i \in 0 .. Len(t) |-> IF i = 0 THEN << <<>> >> ELSE Put(f[i - 1], t[i])]
<1>1. Rows(t) = laid[Len(t)]
  BY DEF Rows
<1>2. Len(t) \in Nat
  BY LenProperties, Zenon
<1>3. PICK f : IsLaid(t, Len(t), f)
  BY <1>2, LaidExists, Zenon
<1>4. IsLaid(t, Len(t), laid)
  BY <1>3, Zenon DEF IsLaid, LaidStep
<1> QED BY <1>1, <1>4, Zenon

\* And Prints is the other one at the end of the output.
LEMMA PrintsAre ==
  ASSUME NEW s, NEW out \in Seq(Output)
  PROVE  \E f : IsPrinted(s, out, Len(out), f) /\ Prints(s, out) = f[Len(out)]
<1> DEFINE after == CHOOSE f : f = [n \in 0 .. Len(out) |-> IF n = 0 THEN s ELSE Printed(f[n - 1], out[n])]
<1>1. Prints(s, out) = after[Len(out)]
  BY DEF Prints
<1>2. Len(out) \in Nat
  BY LenProperties, Zenon
<1>3. PICK f : IsPrinted(s, out, Len(out), f)
  BY <1>2, PrintedExists, Zenon
<1>4. IsPrinted(s, out, Len(out), after)
  BY <1>3, Zenon DEF IsPrinted, PrintStep
<1> QED BY <1>1, <1>4, Zenon

\* The layout of a text with one character more.
LEMMA RowsOfAppend ==
  ASSUME NEW t \in Seq(Output), NEW c \in Output
  PROVE  Rows(Append(t, c)) = Put(Rows(t), c)
<1> DEFINE n == Len(t)
           u == Append(t, c)
<1>1. n \in Nat /\ u \in Seq(Output) /\ Len(u) = n + 1 /\ u[n + 1] = c
      /\ \A i \in 1 .. n : u[i] = t[i]
  BY AppendProperties, LenProperties
<1>2. PICK f : IsLaid(t, n, f) /\ Rows(t) = f[n]
  BY RowsAre, Zenon
<1> HIDE DEF n, u
<1>3. PICK g : IsLaid(u, n + 1, g) /\ Rows(u) = g[n + 1]
  BY <1>1, RowsAre, Zenon
<1>4. \A i \in 0 .. n : f[i] = LaidStep(t, f, i)
  BY <1>2, Zenon DEF IsLaid
<1>5. \A i \in 0 .. n + 1 : g[i] = LaidStep(u, g, i)
  BY <1>3, Zenon DEF IsLaid
<1> DEFINE Bad == {i \in 0 .. n : f[i] # g[i]}
<1>6. ASSUME Bad # {} PROVE FALSE
  <2>1. Bad \in SUBSET Nat
    BY <1>1
  <2> DEFINE m == Min(Bad)
  <2>2. m \in Bad /\ \A k \in Bad : m <= k
    BY <1>6, <2>1, MinIs, Zenon
  <2>3. m \in 0 .. n /\ f[m] # g[m]
    BY <2>2, Zenon
  <2> HIDE DEF m
  <2>4. m \in 0 .. n + 1
    BY <1>1, <2>3
  <2>5. m # 0
    BY <1>4, <1>5, <2>3, <2>4, Zenon DEF LaidStep
  <2>6. m - 1 \in 0 .. n /\ ~ (m <= m - 1) /\ m \in 1 .. n
    BY <1>1, <2>3, <2>5
  <2>7. f[m - 1] = g[m - 1]
    BY <2>2, <2>6, Zenon
  <2>8. LaidStep(t, f, m) = LaidStep(u, g, m)
    BY <1>1, <2>6, <2>7, Zenon DEF LaidStep
  <2> QED BY <1>4, <1>5, <2>3, <2>4, <2>8, Zenon
<1>7. n \in 0 .. n /\ n + 1 \in 0 .. n + 1 /\ n + 1 # 0 /\ n + 1 - 1 = n
  BY <1>1
<1>8. f[n] = g[n]
  BY <1>6, <1>7, Zenon
<1>9. g[n + 1] = Put(g[n], c)
  <2> DEFINE k == n + 1
  <2>1. k \in 0 .. k /\ k # 0 /\ k - 1 = n /\ u[k] = c
    BY <1>1
  <2>2. \A i \in 0 .. k : g[i] = LaidStep(u, g, i)
    BY <1>5, Zenon
  <2> HIDE DEF k
  <2>3. g[k] = LaidStep(u, g, k)
    BY <2>1, <2>2, Zenon
  <2>4. LaidStep(u, g, k) = Put(g[k - 1], u[k])
    BY <2>1, Zenon DEF LaidStep
  <2> QED BY <2>1, <2>3, <2>4, Zenon DEF k
<1> QED BY <1>2, <1>3, <1>8, <1>9, Zenon DEF u

\* No text: an empty row.
LEMMA RowsOfNothing == Rows(<<>>) = << <<>> >>
<1> DEFINE t == <<>>
<1>1. t \in Seq(Output) /\ Len(t) = 0 /\ 0 \in 0 .. 0
  OBVIOUS
<1> HIDE DEF t
<1>2. PICK f : IsLaid(t, 0, f) /\ Rows(t) = f[0]
  BY <1>1, RowsAre, Zenon
<1>3. f[0] = << <<>> >>
  BY <1>1, <1>2, Zenon DEF IsLaid, LaidStep
<1> QED BY <1>2, <1>3, Zenon DEF t
-----------------------------------------------------------------------------
\* One character more of the output.
LEMMA OneMore ==
  ASSUME NEW t \in Seq(Output), NEW out \in Seq(Output), NEW i \in 1 .. Len(out)
  PROVE  /\ t \o SubSeq(out, 1, i) = Append(t \o SubSeq(out, 1, i - 1), out[i])
         /\ t \o SubSeq(out, 1, i - 1) \in Seq(Output) /\ out[i] \in Output
<1> DEFINE a == SubSeq(out, 1, i - 1)
           e == <<out[i]>>
<1>1. Len(out) \in Nat /\ out[i] \in Output /\ 1 \in 1 .. Len(out) /\ i \in 1 .. Len(out)
      /\ i - 1 \in Int /\ \A k \in 1 .. i - 1 : out[k] \in Output
  <2>1. Len(out) \in Nat /\ \A k \in 1 .. Len(out) : out[k] \in Output
    BY LenProperties, ElementOfSeq, Zenon
  <2> QED BY <2>1
<1>2. a \in Seq(Output)
  BY <1>1, SubSeqProperties
<1>3. SubSeq(out, 1, i) = a \o e
  BY <1>1, SubSeqRecursiveSecond, Zenon
<1>4. e \in Seq(Output)
  BY <1>1
<1> HIDE DEF a, e
<1>5. (t \o a) \o e = t \o (a \o e)
  BY <1>2, <1>4
<1>6. t \o a \in Seq(Output)
  BY <1>2, ConcatProperties, Zenon
<1>7. Append(t \o a, out[i]) = (t \o a) \o e
  BY <1>1, <1>6, AppendIsConcat, Zenon DEF e
<1> QED BY <1>1, <1>3, <1>5, <1>6, <1>7, Zenon DEF a

\* kprintf of any output.
LEMMA PrintsDepict ==
  ASSUME NEW s, NEW t \in Seq(Output), NEW out \in Seq(Output),
         Depicts(s, Rows(t)), topright_length \in 0 .. Columns
  PROVE  Depicts(Prints(s, out), Rows(t \o out)) /\ t \o out \in Seq(Output)
<1> DEFINE n == Len(out)
           so(i) == t \o SubSeq(out, 1, i)
<1>1. n \in Nat
  BY LenProperties, Zenon
<1>2. PICK f : IsPrinted(s, out, n, f) /\ Prints(s, out) = f[n]
  BY PrintsAre, Zenon
<1>3. \A i \in 0 .. n : f[i] = PrintStep(s, out, f, i)
  BY <1>2, Zenon DEF IsPrinted
<1> DEFINE Bad == {i \in 0 .. n : ~ Depicts(f[i], Rows(so(i)))}
<1>4. ASSUME Bad # {} PROVE FALSE
  <2> HIDE DEF so
  <2>1. Bad \in SUBSET Nat
    BY <1>1
  <2> DEFINE m == Min(Bad)
  <2>2. m \in Bad /\ \A k \in Bad : m <= k
    BY <1>4, <2>1, MinIs, Zenon
  <2>3. m \in 0 .. n /\ ~ Depicts(f[m], Rows(so(m)))
    BY <2>2, Zenon
  <2> HIDE DEF m
  <2>4. CASE m = 0
    <3>1. f[0] = s
      BY <1>3, <2>3, <2>4, Zenon DEF PrintStep
    <3>2. so(0) = t
      <4>1. SubSeq(out, 1, 0) = <<>>
        BY SubSeqEmpty
      <4> QED BY <4>1, ConcatEmptySeq, Zenon DEF so
    <3> QED BY <2>3, <2>4, <3>1, <3>2, Zenon
  <2>5. CASE m # 0
    <3>1. m - 1 \in 0 .. n /\ ~ (m <= m - 1) /\ m \in 1 .. n
      BY <1>1, <2>3, <2>5
    <3>2. Depicts(f[m - 1], Rows(so(m - 1)))
      BY <2>2, <3>1, Zenon
    <3>3. so(m) = Append(so(m - 1), out[m]) /\ so(m - 1) \in Seq(Output) /\ out[m] \in Output
      BY <3>1, OneMore, Zenon DEF so
    <3>4. Rows(so(m)) = Put(Rows(so(m - 1)), out[m])
      BY <3>3, RowsOfAppend, Zenon
    <3>5. f[m] = Printed(f[m - 1], out[m])
      BY <1>3, <2>3, <2>5, Zenon DEF PrintStep
    <3>6. Depicts(Printed(f[m - 1], out[m]), Put(Rows(so(m - 1)), out[m]))
      BY <3>2, <3>3, PrintedDepicts, Zenon
    <3> QED BY <2>3, <3>4, <3>5, <3>6, Zenon
  <2> QED BY <2>4, <2>5, Zenon
<1>5. n \in 0 .. n
  BY <1>1
<1>6. so(n) = t \o out
  BY SubSeqFull, Zenon
<1>7. t \o out \in Seq(Output)
  BY ConcatProperties, Zenon
<1> HIDE DEF so
<1>8. Depicts(f[n], Rows(so(n)))
  BY <1>4, <1>5, Zenon
<1> QED BY <1>2, <1>6, <1>7, <1>8, Zenon
-----------------------------------------------------------------------------
Picture == [cell |-> cell, cursor |-> cursor, hidden |-> hidden]

ScreenInv ==
  /\ topright_length \in 0 .. Columns
  /\ outPipe \in Seq(Output) /\ Len(outPipe) <= Room
  /\ text \in Seq(Output)
  /\ Depicts(Picture, Rows(text))

\* The fields of the picture on the screen.
LEMMA PictureIs ==
  /\ Picture.cell = cell /\ Picture.cursor = cursor /\ Picture.hidden = hidden
  /\ Picture'.cell = cell' /\ Picture'.cursor = cursor' /\ Picture'.hidden = hidden'
  BY DEF Picture

\* An empty screen.
LEMMA BlankDepicts ==
  ASSUME NEW h \in topright_length .. Columns, topright_length \in 0 .. Columns, NEW s,
         s = [cell |-> [i \in Cells |-> Blank], cursor |-> 0, hidden |-> h]
  PROVE  Depicts(s, Rows(<<>>))
<1> DEFINE rows == << <<>> >>
           b == [i \in Cells |-> Blank]
<1>1. Rows(<<>>) = rows
  BY RowsOfNothing, Zenon
<1>2. /\ rows \in Seq(Seq(Letters)) /\ Len(rows) = 1 /\ rows[1] = <<>> /\ Len(rows[1]) = 0
      /\ DOMAIN rows = 1 .. 1
  OBVIOUS
<1> HIDE DEF rows
<1>3. rows \in Laid
  <2>1. \A k \in 1 .. Len(rows) : Len(rows[k]) = 0
    BY <1>2
  <2>2. 0 <= Columns /\ Len(rows) >= 1
    BY <1>2, Sizes
  <2> QED BY <1>2, <2>1, <2>2, Zenon DEF Laid
<1>4. Gone(rows) = 0 /\ LastRow(rows) = 0
  <2>1. Len(rows) = 1 /\ 1 <= Lines
    BY <1>2, Sizes
  <2>2. Gone(rows) = 0
    BY <2>1, Zenon DEF Gone
  <2>3. LastRow(rows) = 1 - 0 - 1
    BY <2>1, <2>2, Zenon DEF LastRow
  <2> QED BY ONLY <2>2, <2>3
<1>5. 0 \in Cells /\ 0 * Columns + 0 = 0
  <2>1. 0 \in 0 .. Lines - 1 /\ 0 \in 0 .. Columns - 1 /\ 0 * Columns + 0 = 0
    BY Sizes
  <2> QED BY <2>1, CellOf, Zenon
<1>6. Pictures(b, h, rows)
  <2> SUFFICES ASSUME NEW i \in 0 .. Lines - 1, NEW j \in 0 .. Columns - 1
               PROVE  b[i * Columns + j] = LetterAt(rows, Gone(rows) + i + 1, j)
    BY Zenon DEF Pictures
  <2>1. b[i * Columns + j] = Blank
    BY CellOf, Zenon
  <2>2. j + 1 \notin DOMAIN <<>>
    BY Sizes
  <2>3. \A k \in 1 .. 1 : k = 1
    OBVIOUS
  <2>4. LetterAt(rows, Gone(rows) + i + 1, j) = Blank
    BY <1>2, <2>2, <2>3, Zenon DEF LetterAt
  <2> QED BY <2>1, <2>4, Zenon
<1>7. b \in [Cells -> Contents]
  BY Zenon DEF Contents
<1> HIDE DEF b
<1>8. s \in Screens /\ s.cell = b /\ s.cursor = 0 /\ s.hidden = h
  <2>1. s = [cell |-> b, cursor |-> 0, hidden |-> h]
    BY Zenon DEF b
  <2>2. h \in 0 .. Columns
    BY Sizes
  <2> QED BY ONLY <1>5, <1>7, <2>1, <2>2 DEF Screens
<1>9. Len(rows[Len(rows)]) = 0 /\ 0 < Columns
  BY <1>2, Sizes
<1> QED BY <1>1, <1>3, <1>4, <1>5, <1>6, <1>8, <1>9, Zenon DEF Depicts

\* The screen is cleared before it is used.
LEMMA ScreenInitially == ScreenInit => ScreenInv
<1> SUFFICES ASSUME ScreenInit PROVE ScreenInv
  OBVIOUS
<1>1. /\ cell = [i \in Cells |-> Blank] /\ cursor = 0 /\ topright_length = 0 /\ outPipe = <<>>
      /\ text = <<>> /\ hidden = 0
  BY Zenon DEF ScreenInit
<1>2. topright_length \in 0 .. Columns /\ hidden \in topright_length .. Columns
  BY <1>1, Sizes
<1>3. outPipe \in Seq(Output) /\ Len(outPipe) <= Room /\ text \in Seq(Output)
  BY <1>1, ScreenAssumption
<1>4. Picture = [cell |-> [i \in Cells |-> Blank], cursor |-> 0, hidden |-> hidden]
  BY <1>1, Zenon DEF Picture
<1>5. Depicts(Picture, Rows(<<>>))
  BY <1>2, <1>4, BlankDepicts, Zenon
<1> QED BY <1>1, <1>2, <1>3, <1>5, Zenon DEF ScreenInv

\* Output that is shown, whatever state the rest is in.
LEMMA ShowsKeeps ==
  ASSUME ScreenInv, NEW out \in Seq(Output), Shows(out), topright_length' = topright_length,
         text' = text \o out, outPipe' \in Seq(Output), Len(outPipe') <= Room
  PROVE  ScreenInv'
<1> DEFINE s == Prints(Picture, out)
<1>1. cell' = s.cell /\ cursor' = s.cursor /\ hidden' = s.hidden
  BY Zenon DEF Shows, Picture
<1>2. Depicts(s, Rows(text \o out)) /\ text \o out \in Seq(Output)
  BY PrintsDepict, Zenon DEF ScreenInv
<1> HIDE DEF s
<1>3. s = [cell |-> s.cell, cursor |-> s.cursor, hidden |-> s.hidden]
  <2>1. s \in Screens
    BY <1>2, Zenon DEF Depicts
  <2> QED BY <2>1 DEF Screens
<1>4. Picture' = s
  BY <1>1, <1>3, Zenon DEF Picture
<1>5. Depicts(Picture, Rows(text))'
  BY <1>2, <1>4, Zenon DEF Depicts
<1> QED BY <1>2, <1>5, Zenon DEF ScreenInv

\* A process writes into the output of the terminal; the screen stays.
LEMMA WriteKeeps ==
  ASSUME ScreenInv, NEW s \in Written, Write(s)
  PROVE  ScreenInv'
<1> DEFINE n == IF Len(s) <= Room - Len(outPipe) THEN Len(s) ELSE Room - Len(outPipe)
           p == SubSeq(s, 1, n)
<1>1. Len(s) \in Nat /\ \A i \in 1 .. Len(s) : s[i] \in Output
  <2>1. PICK k \in 1 .. 2 : s \in [1 .. k -> Output]
    BY Zenon DEF Written
  <2>2. s \in Seq(Output)
    BY <2>1
  <2> QED BY <2>2, LenProperties, ElementOfSeq, Zenon
<1>2. Len(outPipe) \in Nat /\ outPipe \in Seq(Output) /\ Len(outPipe) <= Room /\ Room \in Nat
  BY LenProperties, ScreenAssumption, Zenon DEF ScreenInv
<1>3. n \in Nat /\ n <= Len(s) /\ Len(outPipe) + n <= Room
  BY <1>1, <1>2
<1> HIDE DEF n
<1>4. \A i \in 1 .. n : s[i] \in Output
  BY <1>1, <1>3
<1>5. p \in Seq(Output) /\ Len(p) = n
  BY <1>3, <1>4, SubSeqProperties
<1>6. outPipe' = outPipe \o p
  BY Zenon DEF Write, n
<1> HIDE DEF p
<1>7. outPipe' \in Seq(Output) /\ Len(outPipe') <= Room
  BY <1>2, <1>3, <1>5, <1>6, ConcatProperties
<1>8. /\ topright_length' = topright_length /\ text' = text
      /\ cell' = cell /\ cursor' = cursor /\ hidden' = hidden
  BY Zenon DEF Write
<1>9. Picture' = Picture
  BY <1>8, Zenon DEF Picture
<1> QED BY <1>7, <1>8, <1>9, Zenon DEF ScreenInv, Depicts

\* The terminal prints what was written.
LEMMA TerminalOutKeeps ==
  ASSUME ScreenInv, TerminalOut
  PROVE  ScreenInv'
<1> DEFINE n == IF Len(outPipe) <= Drain THEN Len(outPipe) ELSE Drain
           out == SubSeq(outPipe, 1, n)
           rest == SubSeq(outPipe, n + 1, Len(outPipe))
<1>1. /\ Len(outPipe) \in Nat /\ Len(outPipe) <= Room /\ Room \in Nat /\ Drain \in Nat
      /\ \A i \in 1 .. Len(outPipe) : outPipe[i] \in Output
  BY LenProperties, ElementOfSeq, ScreenAssumption, Zenon DEF ScreenInv
<1>2. Shows(out) /\ outPipe' = rest /\ text' = text \o out /\ topright_length' = topright_length
  BY Zenon DEF TerminalOut
<1>3. n \in Nat /\ n <= Len(outPipe)
  BY <1>1
<1> HIDE DEF n
<1>4. /\ \A i \in 1 .. n : outPipe[i] \in Output
      /\ \A i \in n + 1 .. Len(outPipe) : outPipe[i] \in Output
  BY <1>1, <1>3
<1>5. out \in Seq(Output)
  BY <1>3, <1>4, SubSeqProperties
<1>6. rest \in Seq(Output)
      /\ Len(rest) = IF n + 1 <= Len(outPipe) THEN Len(outPipe) - (n + 1) + 1 ELSE 0
  BY <1>1, <1>3, <1>4, SubSeqProperties
<1> HIDE DEF out, rest
<1>7. Len(rest) <= Room
  BY <1>1, <1>3, <1>6
<1> QED BY <1>2, <1>5, <1>6, <1>7, ShowsKeeps, Zenon

\* The kernel prints.
LEMMA KernelPrintsKeeps ==
  ASSUME ScreenInv, NEW c \in Output, KernelPrints(c)
  PROVE  ScreenInv'
<1> DEFINE out == <<c>>
<1>1. out \in Seq(Output)
  OBVIOUS
<1>2. text \in Seq(Output) /\ outPipe \in Seq(Output) /\ Len(outPipe) <= Room
  BY Zenon DEF ScreenInv
<1>3. Append(text, c) = text \o out
  BY <1>2, AppendIsConcat, Zenon
<1>4. Shows(out) /\ text' = text \o out /\ topright_length' = topright_length /\ outPipe' = outPipe
  BY <1>3, Zenon DEF KernelPrints
<1> HIDE DEF out
<1> QED BY <1>1, <1>2, <1>4, ShowsKeeps, Zenon

\* The clock is drawn into the first row, over what is there.
LEMMA PrintToprightKeeps ==
  ASSUME ScreenInv, NEW n \in 0 .. Columns, PrintTopright(n)
  PROVE  ScreenInv'
<1> DEFINE rows == Rows(text)
           h == IF n > hidden THEN n ELSE hidden
<1>1. /\ Picture \in Screens /\ hidden \in topright_length .. Columns /\ rows \in Laid
      /\ Len(rows[Len(rows)]) < Columns
      /\ cursor = LastRow(rows) * Columns + Len(rows[Len(rows)])
      /\ Pictures(cell, hidden, rows) /\ topright_length \in 0 .. Columns
  BY PictureIs, Zenon DEF ScreenInv, Depicts
<1>2. cell \in [Cells -> Contents] /\ cursor \in Cells
  BY <1>1, PictureIs DEF Screens
<1>3. /\ topright_length' = n /\ hidden' = h /\ cursor' = cursor /\ outPipe' = outPipe /\ text' = text
      /\ cell' = [i \in Cells |->
           IF i \in Columns - n .. Columns - 1 THEN Clock
           ELSE IF i \in Columns - topright_length .. Columns - 1 THEN Blank ELSE cell[i]]
  BY Zenon DEF PrintTopright
<1>4. h \in n .. Columns /\ h \in 0 .. Columns /\ hidden \in Nat /\ hidden <= h /\ n <= h
      /\ topright_length <= h
  BY <1>1, Sizes
<1> HIDE DEF h, rows
<1>5. cell' \in [Cells -> Contents]
  BY <1>2, <1>3, Zenon DEF Contents
<1>6. Pictures(cell', h, rows)
  <2> SUFFICES ASSUME NEW i \in 0 .. Lines - 1, NEW j \in 0 .. Columns - 1,
                      ~ (i = 0 /\ j >= Columns - h)
               PROVE  cell'[i * Columns + j] = LetterAt(rows, Gone(rows) + i + 1, j)
    BY Zenon DEF Pictures
  <2> DEFINE x == i * Columns
  <2>1. x + j \in Cells
    BY CellOf, Zenon
  <2>2. i \in Nat /\ j \in Nat /\ x \in Nat /\ (i = 0 => x = 0) /\ (i # 0 => x >= Columns)
    <3>1. i \in Nat /\ j \in Nat /\ (i = 0 => x = 0)
      BY Sizes
    <3>2. x \in Nat
      BY <3>1, RowTimes
    <3>3. ASSUME i # 0 PROVE x >= Columns
      <4>1. 1 * Columns <= i * Columns
        BY <3>1, <3>3, TimesLeq, Sizes
      <4> QED BY <4>1, <3>2, Sizes
    <3> QED BY <3>1, <3>2, <3>3, Zenon
  <2>3. ~ (i = 0 /\ j >= Columns - hidden)
    BY <1>4, <2>2, Sizes
  <2>4. cell[x + j] = LetterAt(rows, Gone(rows) + i + 1, j)
    BY <1>1, <2>3, Zenon DEF Pictures
  <2> HIDE DEF x
  <2>5. x + j \notin Columns - n .. Columns - 1 /\ x + j \notin Columns - topright_length .. Columns - 1
    BY <1>1, <1>4, <2>2, Sizes
  <2>6. cell'[x + j] = cell[x + j]
    BY <1>3, <2>1, <2>5, Zenon
  <2> QED BY <2>4, <2>6, Zenon DEF x
<1>7. Picture' \in Screens
  <2>1. Picture' = [cell |-> cell', cursor |-> cursor', hidden |-> hidden']
    BY Zenon DEF Picture
  <2>2. cursor' \in Cells /\ hidden' \in 0 .. Columns
    BY <1>2, <1>3, <1>4, Zenon
  <2> QED BY ONLY <1>5, <2>1, <2>2 DEF Screens
<1>8. Rows(text)' = rows
  BY <1>3, Zenon DEF rows
<1>9. Depicts(Picture, Rows(text))'
  BY <1>1, <1>3, <1>4, <1>6, <1>7, <1>8, PictureIs, Zenon DEF Depicts
<1> QED BY <1>3, <1>9, Zenon DEF ScreenInv

\* The screen is cleared.
LEMMA ClearScreenKeeps ==
  ASSUME ScreenInv, ClearScreen
  PROVE  ScreenInv'
<1>1. /\ cell' = [i \in Cells |-> Blank] /\ cursor' = 0 /\ text' = <<>>
      /\ hidden' = topright_length /\ topright_length' = topright_length /\ outPipe' = outPipe
  BY Zenon DEF ClearScreen
<1>2. topright_length \in topright_length .. Columns /\ topright_length \in 0 .. Columns
  BY Sizes DEF ScreenInv
<1>3. Picture' = [cell |-> [i \in Cells |-> Blank], cursor |-> 0, hidden |-> topright_length]
  BY <1>1, Zenon DEF Picture
<1>4. Depicts(Picture', Rows(<<>>))
  BY <1>2, <1>3, BlankDepicts, Zenon
<1>5. Depicts(Picture, Rows(text))'
  BY <1>1, <1>4, Zenon DEF Depicts
<1>6. text' \in Seq(Output)
  BY <1>1
<1> QED BY <1>1, <1>2, <1>5, <1>6, Zenon DEF ScreenInv

\* The picture is what ScreenShowsText says.
LEMMA ScreenShows == ScreenInv => ScreenShowsText
<1> SUFFICES ASSUME ScreenInv PROVE ScreenShowsText
  OBVIOUS
<1> DEFINE rows == Rows(text)
<1>1. /\ Picture \in Screens /\ hidden \in topright_length .. Columns
      /\ cursor = LastRow(rows) * Columns + Len(rows[Len(rows)])
      /\ Pictures(cell, hidden, rows)
  BY PictureIs, Zenon DEF ScreenInv, Depicts
<1>2. cell \in [Cells -> Contents] /\ cursor \in Cells
  BY <1>1, PictureIs DEF Screens
<1>3. ScreenTypeOK
  BY <1>1, <1>2, Zenon DEF ScreenTypeOK, ScreenInv, Contents
<1>4. ShowsLastLines
  BY <1>1, Zenon DEF ShowsLastLines, Pictures, LastRow
<1> QED BY <1>3, <1>4, Zenon DEF ScreenShowsText

\* The screen shows the last lines of all that was printed, for screens and pipes of
\* every size and any text, in whatever pieces it is drained and whatever the clock
\* covers in between (print_func, scroll_lines_up, print_topright,
\* update_terminal_out).
THEOREM ScreenCorrect == ScreenSpec => []ScreenShowsText
<1>1. ASSUME ScreenInv, [ScreenNext]_screenVars PROVE ScreenInv'
  <2>1. CASE ScreenNext
    BY <1>1, <2>1, WriteKeeps, TerminalOutKeeps, KernelPrintsKeeps, PrintToprightKeeps,
       ClearScreenKeeps, Zenon DEF ScreenNext
  <2>2. CASE UNCHANGED screenVars
    <3>1. /\ cell' = cell /\ cursor' = cursor /\ hidden' = hidden /\ text' = text
          /\ outPipe' = outPipe /\ topright_length' = topright_length
      BY <2>2, Zenon DEF screenVars
    <3>2. Picture' = Picture
      BY <3>1, Zenon DEF Picture
    <3> QED BY <1>1, <3>1, <3>2, Zenon DEF ScreenInv, Depicts
  <2> QED BY <1>1, <2>1, <2>2, Zenon
<1> QED BY <1>1, ScreenInitially, ScreenShows, PTL DEF ScreenSpec
-----------------------------------------------------------------------------
(***************************************************************************)
(* The environment: strings with a key, and the search along PATH.         *)
(***************************************************************************)
Strings == Seq(Symbols)

\* Where a character is first.
LEMMA FirstOfIs ==
  ASSUME NEW s \in Strings, NEW c, Has(s, c)
  PROVE  FirstOf(s, c) \in 1 .. Len(s) /\ s[FirstOf(s, c)] = c
<1> DEFINE S == {i \in DOMAIN s : s[i] = c}
<1>1. DOMAIN s = 1 .. Len(s) /\ Len(s) \in Nat
  BY LenProperties, Zenon DEF Strings
<1>2. S \in SUBSET Nat /\ S # {}
  BY <1>1 DEF Has
<1>3. Min(S) \in S
  BY <1>2, MinIs, Zenon
<1> QED BY <1>1, <1>3, Zenon DEF FirstOf

\* The string that export puts together is the one it was called with.
LEMMA KeyAndValue ==
  ASSUME NEW s \in Strings, Has(s, Equals)
  PROVE  KeyOf(s) \o <<Equals>> \o ValueOf(s) = s
<1> DEFINE f == FirstOf(s, Equals)
           n == Len(s)
<1>1. f \in 1 .. n /\ s[f] = Equals /\ n \in Nat /\ s \in Seq(Symbols)
  BY FirstOfIs, LenProperties DEF Strings
<1> HIDE DEF f, n
<1>2. \A i \in 1 .. n : s[i] \in Symbols
  BY <1>1, ElementOfSeq, Zenon DEF n
<1>3. SubSeq(s, f, n) = <<Equals>> \o SubSeq(s, f + 1, n)
  <2>1. f \in 1 .. Len(s) /\ n \in f .. Len(s)
    BY <1>1 DEF n
  <2> QED BY <2>1, <1>1, SubSeqRecursiveFirst
<1>4. SubSeq(s, 1, f - 1) \o SubSeq(s, f, n) = s
  <2>1. 1 \in 1 .. Len(s) + 1 /\ f - 1 \in 1 - 1 .. Len(s) /\ n \in f - 1 .. Len(s)
        /\ (f - 1) + 1 = f
    BY <1>1 DEF n
  <2>2. SubSeq(s, 1, f - 1) \o SubSeq(s, (f - 1) + 1, n) = SubSeq(s, 1, n)
    BY <2>1, <1>1, ConcatAdjacentSubSeq, Zenon
  <2>3. SubSeq(s, 1, n) = s
    BY <1>1, SubSeqFull, Zenon DEF n
  <2> QED BY <2>1, <2>2, <2>3, Zenon
<1>5. /\ SubSeq(s, 1, f - 1) \in Seq(Symbols) /\ SubSeq(s, f + 1, n) \in Seq(Symbols)
      /\ <<Equals>> \in Seq(Symbols)
  <2>1. /\ \A i \in 1 .. f - 1 : s[i] \in Symbols
        /\ \A i \in f + 1 .. n : s[i] \in Symbols
        /\ 1 \in Int /\ f - 1 \in Int /\ f + 1 \in Int /\ n \in Int /\ Equals \in Symbols
    BY <1>1, <1>2
  <2>2. SubSeq(s, 1, f - 1) \in Seq(Symbols) /\ SubSeq(s, f + 1, n) \in Seq(Symbols)
    BY <2>1, SubSeqProperties, Zenon
  <2> QED BY <2>1, <2>2
<1>6. (SubSeq(s, 1, f - 1) \o <<Equals>>) \o SubSeq(s, f + 1, n) = s
  <2>1. ASSUME NEW a \in Seq(Symbols), NEW b \in Seq(Symbols), NEW c \in Seq(Symbols)
        PROVE  (a \o b) \o c = a \o (b \o c)
    OBVIOUS
  <2>2. (SubSeq(s, 1, f - 1) \o <<Equals>>) \o SubSeq(s, f + 1, n)
          = SubSeq(s, 1, f - 1) \o (<<Equals>> \o SubSeq(s, f + 1, n))
    BY <1>5, <2>1, Zenon
  <2> QED BY <1>3, <1>4, <2>2, Zenon
<1> QED BY <1>6 DEF KeyOf, ValueOf, f, n
-----------------------------------------------------------------------------
Found(env, key) == {i \in DOMAIN env : Has(env[i], Equals) /\ KeyOf(env[i]) = key}

\* _search_env returns the first string with the key.
LEMMA SearchEnvIs ==
  ASSUME NEW env \in Seq(Strings), NEW key
  PROVE  /\ SearchEnv(env, key) # 0 => Found(env, key) # {}
         /\ Found(env, key) # {} =>
              /\ SearchEnv(env, key) \in Found(env, key) /\ SearchEnv(env, key) # 0
              /\ SearchEnv(env, key) \in 1 .. Len(env)
              /\ \A i \in Found(env, key) : SearchEnv(env, key) <= i
<1>1. DOMAIN env = 1 .. Len(env) /\ Len(env) \in Nat
  BY LenProperties, Zenon
<1>2. SearchEnv(env, key) = IF Found(env, key) = {} THEN 0 ELSE Min(Found(env, key))
  BY Zenon DEF SearchEnv, Found
<1>3. ASSUME Found(env, key) # {}
      PROVE  /\ SearchEnv(env, key) \in Found(env, key) /\ SearchEnv(env, key) # 0
             /\ SearchEnv(env, key) \in 1 .. Len(env)
             /\ \A i \in Found(env, key) : SearchEnv(env, key) <= i
  <2>1. Found(env, key) \in SUBSET Nat /\ Found(env, key) \subseteq 1 .. Len(env)
    BY <1>1 DEF Found
  <2>2. /\ SearchEnv(env, key) \in Found(env, key)
        /\ \A i \in Found(env, key) : SearchEnv(env, key) <= i
    BY <1>2, <1>3, <2>1, MinIs, Zenon
  <2> QED BY <1>1, <2>1, <2>2
<1> QED BY <1>2, <1>3, Zenon

Says(env, key, value) ==
  SearchEnv(env, key) # 0 /\ ValueOf(env[SearchEnv(env, key)]) = value

\* What an environment says of a key depends on the strings with that key.
LEMMA SaysSame ==
  ASSUME NEW env \in Seq(Strings), NEW new \in Seq(Strings), NEW key, NEW value,
         Says(env, key, value), Found(new, key) = Found(env, key),
         \A i \in Found(env, key) : new[i] = env[i]
  PROVE  Says(new, key, value)
<1>1. Found(env, key) # {} /\ SearchEnv(env, key) = Min(Found(env, key))
  BY SearchEnvIs, Zenon DEF Says, SearchEnv, Found
<1>2. SearchEnv(new, key) = Min(Found(new, key))
  BY <1>1, Zenon DEF SearchEnv, Found
<1>3. SearchEnv(env, key) \in Found(env, key)
  BY <1>1, SearchEnvIs, Zenon
<1> QED BY <1>1, <1>2, <1>3, Zenon DEF Says

\* export changes what the environment says of its key, and of no other.
LEMMA ExportedSays ==
  ASSUME NEW env \in Seq(Strings), NEW s \in Strings, Has(s, Equals)
  PROVE  /\ Exported(env, s) \in Seq(Strings)
         /\ Says(Exported(env, s), KeyOf(s), ValueOf(s))
         /\ \A key, value : key # KeyOf(s) /\ Says(env, key, value) =>
              Says(Exported(env, s), key, value)
<1> DEFINE t == SearchEnv(env, KeyOf(s))
           new == Exported(env, s)
           n == Len(env)
<1>1. new = IF t # 0 THEN [env EXCEPT ![t] = s] ELSE Append(env, s)
  BY KeyAndValue, Zenon DEF Exported
<1>2. DOMAIN env = 1 .. n /\ n \in Nat
  BY LenProperties, Zenon
<1>3. CASE t # 0
  <2>1. t \in Found(env, KeyOf(s)) /\ t \in 1 .. n /\ \A i \in Found(env, KeyOf(s)) : t <= i
    BY <1>3, SearchEnvIs, Zenon
  <2>2. new = [env EXCEPT ![t] = s]
    BY <1>1, <1>3, Zenon
  <2> HIDE DEF new, t
  <2>3. new \in Seq(Strings) /\ Len(new) = n /\ \A i \in 1 .. n : new[i] = IF i = t THEN s ELSE env[i]
    BY <2>1, <2>2, ExceptSeq, SMT
  <2> HIDE DEF n
  <2>4. DOMAIN new = 1 .. n
    BY <2>3, LenProperties
  <2>5. Has(env[t], Equals) /\ KeyOf(env[t]) = KeyOf(s)
    BY <2>1, Zenon DEF Found
  <2>6. Found(new, KeyOf(s)) = Found(env, KeyOf(s))
    <3>1. \A i \in 1 .. n : i # t => new[i] = env[i]
      BY <2>3, Zenon
    <3>2. new[t] = s
      BY <2>1, <2>3, Zenon
    <3>3. t \in Found(new, KeyOf(s))
      BY <2>1, <2>4, <3>2, Zenon DEF Found
    <3> QED BY <1>2, <2>1, <2>4, <3>1, <3>3, Zenon DEF Found
  <2>7. SearchEnv(new, KeyOf(s)) = t /\ t # 0
    BY <1>3, <2>6, Zenon DEF SearchEnv, Found, t
  <2>8. Says(new, KeyOf(s), ValueOf(s))
    BY <2>1, <2>3, <2>7, Zenon DEF Says
  <2>9. ASSUME NEW key, NEW value, key # KeyOf(s), Says(env, key, value)
        PROVE  Says(new, key, value)
    <3>1. Found(new, key) = Found(env, key)
      BY <1>2, <2>1, <2>3, <2>4, <2>5, <2>9, Zenon DEF Found
    <3>2. \A i \in Found(env, key) : new[i] = env[i]
      BY <1>2, <2>3, <2>5, <2>9, Zenon DEF Found
    <3> QED BY <2>3, <2>9, <3>1, <3>2, SaysSame, Zenon
  <2> QED BY <2>3, <2>8, <2>9, Zenon DEF new
<1>4. CASE t = 0
  <2>1. Found(env, KeyOf(s)) = {}
    BY <1>4, SearchEnvIs, Zenon
  <2>2. new = Append(env, s)
    BY <1>1, <1>4, Zenon
  <2>3. /\ new \in Seq(Strings) /\ Len(new) = n + 1
        /\ \A i \in 1 .. n : new[i] = env[i]
        /\ new[n + 1] = s
    BY <2>2, AppendProperties
  <2> HIDE DEF new, t, n
  <2>4. DOMAIN new = 1 .. n + 1
    BY <2>3, LenProperties
  <2>5. DOMAIN new = DOMAIN env \cup {n + 1} /\ n + 1 # 0 /\ n + 1 \notin DOMAIN env
    BY <1>2, <2>4
  <2>6. Found(new, KeyOf(s)) = {n + 1}
    BY <1>2, <2>1, <2>3, <2>5, Zenon DEF Found
  <2>7. SearchEnv(new, KeyOf(s)) = n + 1
    <3>1. SearchEnv(new, KeyOf(s)) \in Found(new, KeyOf(s))
      BY <2>3, <2>6, SearchEnvIs, Zenon
    <3> QED BY <2>6, <3>1, Zenon
  <2>8. Says(new, KeyOf(s), ValueOf(s))
    BY <2>3, <2>5, <2>7, Zenon DEF Says
  <2>9. ASSUME NEW key, NEW value, key # KeyOf(s), Says(env, key, value)
        PROVE  Says(new, key, value)
    <3>1. Found(new, key) = Found(env, key)
      <4>1. n + 1 \notin Found(new, key)
        BY <2>3, <2>9, Zenon DEF Found
      <4>2. \A i \in DOMAIN env : new[i] = env[i]
        BY <1>2, <2>3, Zenon
      <4> QED BY <2>5, <4>1, <4>2, Zenon DEF Found
    <3>2. \A i \in Found(env, key) : new[i] = env[i]
      BY <1>2, <2>3, <2>9, Zenon DEF Found
    <3> QED BY <2>3, <2>9, <3>1, <3>2, SaysSame, Zenon
  <2> QED BY <2>3, <2>8, <2>9, Zenon DEF new
<1> QED BY <1>3, <1>4, Zenon
-----------------------------------------------------------------------------
(***************************************************************************)
(* The search on the path.                                                 *)
(***************************************************************************)
Colons(v) == {i \in DOMAIN v : v[i] = Colon}
Piece(v, i) == SubSeq(v, i + 1, NextColon(v, i) - 1)
Hits(v, i) == {k \in Colons(v) \cup {i} : i <= k /\ k < Len(v) /\ Piece(v, k) \in Files}
Hit(v, i) == IF Hits(v, i) = {} THEN Failed ELSE Piece(v, Min(Hits(v, i))) \o <<"/">> \o Program

\* The end of a piece of PATH.
LEMMA NextColonIs ==
  ASSUME NEW v \in Strings, NEW i \in 0 .. Len(v)
  PROVE  /\ NextColon(v, i) \in i + 1 .. Len(v) + 1
         /\ NextColon(v, i) <= Len(v) => NextColon(v, i) \in Colons(v)
         /\ \A k \in Colons(v) : k <= i \/ NextColon(v, i) <= k
<1> DEFINE n == Len(v)
           S == {j \in i + 1 .. n : v[j] = Colon} \cup {n + 1}
<1>1. n \in Nat /\ DOMAIN v = 1 .. n
  BY LenProperties, Zenon DEF Strings
<1> HIDE DEF n
<1>2. S \in SUBSET Nat /\ S # {} /\ i \in 0 .. n
  BY <1>1 DEF n
<1>3. NextColon(v, i) = Min(S)
  BY Zenon DEF NextColon, n
<1>4. Min(S) \in S /\ \A k \in S : Min(S) <= k
  BY <1>2, MinIs, Zenon
<1>5. Min(S) \in i + 1 .. n + 1
  BY <1>1, <1>2, <1>4
<1>6. Min(S) <= n => Min(S) \in Colons(v)
  BY <1>1, <1>2, <1>4 DEF Colons
<1>7. ASSUME NEW k \in Colons(v), ~ (k <= i) PROVE Min(S) <= k
  <2>1. k \in i + 1 .. n /\ v[k] = Colon
    BY <1>1, <1>2, <1>7 DEF Colons
  <2> QED BY <2>1, <1>4, Zenon
<1> QED BY <1>3, <1>5, <1>6, <1>7, Zenon DEF n

\* One turn of the loop.
LEMMA HitStep ==
  ASSUME NEW v \in Strings, NEW i \in 0 .. Len(v) + 1
  PROVE  Hit(v, i) = IF i >= Len(v) THEN Failed
                     ELSE IF Piece(v, i) \in Files THEN Piece(v, i) \o <<"/">> \o Program
                     ELSE Hit(v, NextColon(v, i))
<1>1. Len(v) \in Nat /\ DOMAIN v = 1 .. Len(v) /\ i \in Nat
  BY LenProperties DEF Strings
<1>2. Colons(v) \in SUBSET Nat
  BY <1>1 DEF Colons
<1>3. CASE i >= Len(v)
  <2>1. Hits(v, i) = {}
    BY <1>1, <1>2, <1>3 DEF Hits
  <2> QED BY <1>3, <2>1, Zenon DEF Hit
<1>4. CASE i < Len(v) /\ Piece(v, i) \in Files
  <2>1. Hits(v, i) \in SUBSET Nat /\ i \in Hits(v, i) /\ \A k \in Hits(v, i) : i <= k
    BY <1>1, <1>2, <1>4 DEF Hits
  <2>2. Min(Hits(v, i)) = i
    BY <2>1, MinUnique, Zenon
  <2>3. ~ (i >= Len(v))
    BY <1>1, <1>4
  <2> QED BY <1>4, <2>1, <2>2, <2>3, Zenon DEF Hit
<1>5. CASE i < Len(v) /\ Piece(v, i) \notin Files
  <2> DEFINE j == NextColon(v, i)
  <2>1. i \in 0 .. Len(v) /\ ~ (i >= Len(v))
    BY <1>1, <1>5
  <2>2. j \in i + 1 .. Len(v) + 1 /\ (j <= Len(v) => j \in Colons(v))
        /\ \A k \in Colons(v) : k <= i \/ j <= k
    BY <2>1, NextColonIs, Zenon
  <2> HIDE DEF j
  <2>3. ASSUME NEW k \in Hits(v, i) PROVE k \in Hits(v, j)
    <3>1. k \in Colons(v) /\ i <= k /\ k < Len(v) /\ Piece(v, k) \in Files /\ k # i
      BY <1>5, <2>3, Zenon DEF Hits
    <3>2. j <= k
      BY <1>1, <1>2, <2>2, <3>1
    <3> QED BY <3>1, <3>2, Zenon DEF Hits
  <2>4. ASSUME NEW k \in Hits(v, j) PROVE k \in Hits(v, i)
    <3>1. k \in Colons(v) \cup {j} /\ j <= k /\ k < Len(v) /\ Piece(v, k) \in Files
      BY <2>4, Zenon DEF Hits
    <3>2. k \in Colons(v) /\ i <= k
      BY <1>1, <1>2, <2>2, <3>1
    <3> QED BY <3>1, <3>2, Zenon DEF Hits
  <2>5. Hits(v, i) = Hits(v, j)
    BY <2>3, <2>4, Zenon
  <2>6. Hit(v, i) = Hit(v, j)
    BY <2>5, Zenon DEF Hit
  <2> QED BY <1>5, <2>1, <2>6, Zenon DEF j
<1> QED BY <1>1, <1>3, <1>4, <1>5

\* execvpe's loop finds the first piece of the path that is in Files.
LEMMA SearchPathIs ==
  ASSUME NEW v \in Strings
  PROVE  SearchPath(v) = Hit(v, 0)
<1> DEFINE D == 0 .. Len(v) + 1
           Turn(f, i) == IF i >= Len(v) THEN Failed
                         ELSE IF Piece(v, i) \in Files THEN Piece(v, i) \o <<"/">> \o Program
                         ELSE f[NextColon(v, i)]
           F(f) == [i \in D |-> Turn(f, i)]
           from == CHOOSE f : f = F(f)
           g == [i \in D |-> Hit(v, i)]
<1>1. SearchPath(v) = from[0]
  BY DEF SearchPath, Piece
<1>0. Len(v) \in Nat
  BY LenProperties, Zenon DEF Strings
<1>2. ASSUME NEW i \in D, ~ (i >= Len(v)) PROVE NextColon(v, i) \in D /\ NextColon(v, i) > i
  <2>1. i \in 0 .. Len(v)
    BY <1>0, <1>2
  <2>2. NextColon(v, i) \in i + 1 .. Len(v) + 1
    BY <2>1, NextColonIs, Zenon
  <2> QED BY <1>0, <2>1, <2>2
<1>3. ASSUME NEW i \in D PROVE g[i] = Turn(g, i)
  <2>1. i >= Len(v) \/ g[NextColon(v, i)] = Hit(v, NextColon(v, i))
    BY <1>2, Zenon
  <2>2. g[i] = Hit(v, i)
    BY Zenon
  <2> QED BY <2>1, <2>2, HitStep, Zenon
<1>4. g = F(g)
  BY <1>3, Zenon
<1>5. from = F(from)
  BY <1>4, Zenon
<1> HIDE DEF from, g
<1>6. ASSUME NEW i \in D PROVE from[i] = Turn(from, i) /\ g[i] = Turn(g, i)
  BY <1>5, <1>3, Zenon
<1> DEFINE Bad == {m \in Nat : \E i \in D : m = Len(v) + 1 - i /\ from[i] # g[i]}
<1>7. ASSUME Bad # {} PROVE FALSE
  <2>1. Bad \in SUBSET Nat
    OBVIOUS
  <2>2. Min(Bad) \in Bad /\ \A k \in Bad : Min(Bad) <= k
    BY <1>7, <2>1, MinIs, Zenon
  <2>3. PICK i \in D : Min(Bad) = Len(v) + 1 - i /\ from[i] # g[i]
    BY <2>2, Zenon
  <2>4. ~ (i >= Len(v)) /\ from[NextColon(v, i)] # g[NextColon(v, i)]
    BY <1>6, <2>3, Zenon
  <2>5. NextColon(v, i) \in D /\ NextColon(v, i) > i
    BY <1>2, <2>4, Zenon
  <2>6. Len(v) + 1 - NextColon(v, i) \in Bad
    <3>1. Len(v) + 1 - NextColon(v, i) \in Nat
      BY <1>0, <2>5
    <3> QED BY <2>4, <2>5, <3>1, Zenon
  <2>7. Min(Bad) <= Len(v) + 1 - NextColon(v, i)
    BY <2>2, <2>6, Zenon
  <2> HIDE DEF Bad
  <2> QED BY <1>0, <2>3, <2>5, <2>7
<1>8. from[0] = g[0]
  <2>1. 0 \in D /\ Len(v) + 1 - 0 \in Nat
    BY <1>0
  <2> QED BY <1>7, <2>1, Zenon
<1>9. g[0] = Hit(v, 0)
  BY <1>0 DEF g
<1> QED BY <1>1, <1>8, <1>9, Zenon
\* What the property asks for is the first piece of the path that is in Files.
LEMMA FirstIsHit ==
  ASSUME NEW v \in Strings
  PROVE  FirstOnPath(v) = Hit(v, 0)
<1> DEFINE colons == {i \in DOMAIN v : v[i] = Colon}
           piece(i) == SubSeq(v, i + 1, Min({j \in colons \cup {Len(v) + 1} : j > i}) - 1)
           hits == {i \in colons \cup {0} : i < Len(v) /\ piece(i) \in Files}
<1>1. Len(v) \in Nat /\ DOMAIN v = 1 .. Len(v)
  BY LenProperties, Zenon DEF Strings
<1>2. colons = Colons(v)
  BY Zenon DEF Colons
<1>3. ASSUME NEW i \in 0 .. Len(v) PROVE piece(i) = Piece(v, i)
  <2>1. {j \in colons \cup {Len(v) + 1} : j > i}
          = {j \in i + 1 .. Len(v) : v[j] = Colon} \cup {Len(v) + 1}
    BY <1>1
  <2> QED BY <2>1, Zenon DEF Piece, NextColon
<1>4. colons \cup {0} \subseteq 0 .. Len(v)
  BY <1>1
<1>5. FirstOnPath(v) = IF hits = {} THEN Failed ELSE piece(Min(hits)) \o <<"/">> \o Program
  BY Zenon DEF FirstOnPath
<1> HIDE DEF colons, piece
<1>6. hits = Hits(v, 0)
  BY <1>1, <1>2, <1>3, <1>4 DEF Hits
<1>7. hits # {} => Min(hits) \in 0 .. Len(v)
  <2>1. hits \subseteq 0 .. Len(v) /\ hits \in SUBSET Nat
    BY <1>1, <1>4
  <2> HIDE DEF hits
  <2> QED BY <2>1, MinIs, Zenon
<1> QED BY <1>3, <1>5, <1>6, <1>7, Zenon DEF Hit
-----------------------------------------------------------------------------
\* The environment has for every key what was exported last for it.
EnvironInv ==
  /\ environ \in Seq(Strings)
  /\ \A key \in DOMAIN exported : Says(environ, key, exported[key])
  /\ RunsFirstOnPath

\* The shell is started with an environment.
LEMMA EnvironInitially ==
  ASSUME EnvironInit
  PROVE  EnvironInv
<1>1. environ \in Seq(Strings) /\ DOMAIN exported = {} /\ result = <<>>
  BY EnvironAssumption, Zenon DEF EnvironInit, Strings
<1> QED BY <1>1, Zenon DEF EnvironInv, RunsFirstOnPath

\* The built-in export.
LEMMA ExportKeeps ==
  ASSUME EnvironInv, NEW s \in Arguments, Export(s)
  PROVE  EnvironInv'
<1>1. /\ s \in Strings /\ Has(s, Equals) /\ environ' = Exported(environ, s)
      /\ exported' = [k \in DOMAIN exported \cup {KeyOf(s)} |->
                       IF k = KeyOf(s) THEN ValueOf(s) ELSE exported[k]]
      /\ result' = <<>>
  BY EnvironAssumption, Zenon DEF Export, Strings
<1>2. environ \in Seq(Strings) /\ \A key \in DOMAIN exported : Says(environ, key, exported[key])
  BY Zenon DEF EnvironInv
<1>3. /\ environ' \in Seq(Strings) /\ Says(environ', KeyOf(s), ValueOf(s))
      /\ \A key, value : key # KeyOf(s) /\ Says(environ, key, value) => Says(environ', key, value)
  BY <1>1, <1>2, ExportedSays, Zenon
<1>4. ASSUME NEW key \in DOMAIN exported' PROVE Says(environ', key, exported'[key])
  <2>1. CASE key = KeyOf(s)
    BY <1>1, <1>3, <2>1, Zenon
  <2>2. CASE key # KeyOf(s)
    <3>1. key \in DOMAIN exported /\ exported'[key] = exported[key]
      BY <1>1, <2>2, Zenon
    <3> QED BY <1>2, <1>3, <2>2, <3>1, Zenon
  <2> QED BY <2>1, <2>2, Zenon
<1>5. RunsFirstOnPath'
  BY <1>1, Zenon DEF RunsFirstOnPath
<1> QED BY <1>3, <1>4, <1>5, Zenon DEF EnvironInv, Says

\* execvp changes nothing but the result.
LEMMA ExecvpKeeps ==
  ASSUME EnvironInv, Execvp
  PROVE  EnvironInv'
<1>1. environ' = environ /\ exported' = exported
  BY Zenon DEF Execvp
<1>2. environ \in Seq(Strings) /\ \A key \in DOMAIN exported : Says(environ, key, exported[key])
  BY Zenon DEF EnvironInv
<1>3. ASSUME PATH \in DOMAIN exported PROVE RunsFirstOnPath'
  <2> DEFINE t == SearchEnv(environ, PATH)
             e == environ[t]
  <2>1. t # 0 /\ ValueOf(e) = exported[PATH]
    BY <1>2, <1>3, Zenon DEF Says
  <2>2. result' = SearchPath(exported[PATH])
    BY <2>1, Zenon DEF Execvp
  <2>3. t \in Found(environ, PATH) /\ t \in 1 .. Len(environ)
    BY <1>2, <2>1, SearchEnvIs, Zenon
  <2>4. e \in Strings /\ Has(e, Equals)
    BY <1>2, <2>3, ElementOfSeq, Zenon DEF Found
  <2>5. exported[PATH] \in Strings
    <3> HIDE DEF e
    <3>1. FirstOf(e, Equals) \in 1 .. Len(e) /\ Len(e) \in Nat
      BY <2>4, FirstOfIs, LenProperties, Zenon DEF Strings
    <3> DEFINE m == FirstOf(e, Equals) + 1
    <3>2. m \in Int /\ Len(e) \in Int /\ \A i \in m .. Len(e) : i \in 1 .. Len(e)
      BY <3>1
    <3>3. \A i \in m .. Len(e) : e[i] \in Symbols
      BY <2>4, <3>2, ElementOfSeq, Zenon DEF Strings
    <3> HIDE DEF m
    <3>4. SubSeq(e, m, Len(e)) \in Seq(Symbols)
      BY <3>2, <3>3, SubSeqProperties, Zenon
    <3> QED BY <2>1, <3>4, Zenon DEF ValueOf, Strings, m
  <2>6. result' = Hit(exported[PATH], 0)
    BY <2>2, <2>5, SearchPathIs, Zenon
  <2>7. result' = FirstOnPath(exported'[PATH])
    BY <1>1, <2>5, <2>6, FirstIsHit, Zenon
  <2> QED BY <2>7, Zenon DEF RunsFirstOnPath
<1>4. RunsFirstOnPath'
  BY <1>1, <1>3, Zenon DEF RunsFirstOnPath
<1> QED BY <1>1, <1>2, <1>4, Zenon DEF EnvironInv, Says

\* The program that is started is the first one on the PATH that was exported last,
\* whatever strings are exported, in any order, and whatever environment the shell
\* was started with (build_in_exec, _search_env, execvpe).
THEOREM EnvironCorrect == EnvironSpec => []RunsFirstOnPath
<1>1. EnvironInit => EnvironInv
  BY EnvironInitially
<1>2. ASSUME EnvironInv, [EnvironNext]_environVars PROVE EnvironInv'
  <2>1. CASE EnvironNext
    BY <1>2, <2>1, ExportKeeps, ExecvpKeeps, Zenon DEF EnvironNext
  <2>2. CASE UNCHANGED environVars
    <3>1. environ' = environ /\ exported' = exported /\ result' = result
      BY <2>2, Zenon DEF environVars
    <3>2. RunsFirstOnPath'
      BY <1>2, <3>1, Zenon DEF EnvironInv, RunsFirstOnPath
    <3> QED BY <1>2, <3>1, <3>2, Zenon DEF EnvironInv, Says
  <2> QED BY <1>2, <2>1, <2>2, Zenon
<1>3. EnvironInv => RunsFirstOnPath
  BY Zenon DEF EnvironInv
<1> QED BY <1>1, <1>2, <1>3, PTL DEF EnvironSpec
=============================================================================
