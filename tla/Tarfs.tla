-------------------------------- MODULE Tarfs --------------------------------
(***************************************************************************)
(* The boot archive (sys/tarfs.c): walking the headers, finding, listing   *)
(* and reading files, and file_read of an open archive file, which moves   *)
(* the offset.  The archive is a sequence of cells; a header starts with a *)
(* cell that has the entry's name and size, and is Block cells long.       *)
(***************************************************************************)
EXTENDS Integers, Sequences, SequencesExt

CONSTANTS
  Block,     \* 512: headers and contents start at multiples of it
  Archives,  \* the archives considered: sequences of [name, dir, size]
  ReadSizes,
  MaxGot     \* bound: a reader has not read more than this

VARIABLES
  archive,  \* the entries the archive was made of
  tarfs,    \* tarfs_start .. tarfs_end: its cells
  file,     \* the open file's entry, 0 if none is open
  offset,   \* its file_table_entry's offset
  got,      \* what was read since it was opened
  ended     \* a read has returned -1
vars == <<archive, tarfs, file, offset, got, ended>>

\* How tar lays an archive out: a size is two octal digits, and the image ends with an empty header.
RoundUp(n) == CHOOSE m \in n .. n + Block - 1 : m % Block = 0
Padding(n) == [i \in 1 .. n |-> [kind |-> "zero"]]
Cells(a) ==
  LET cells(k) ==
        <<[kind |-> "header", name |-> a[k].name, dir |-> a[k].dir,
           size |-> <<a[k].size \div 8, a[k].size % 8>>]>>
          \o Padding(Block - 1)
          \o [i \in 1 .. a[k].size |-> [kind |-> "data", of |-> k, at |-> i]]
          \o Padding(RoundUp(a[k].size) - a[k].size)
  IN  FlattenSeq([k \in DOMAIN a |-> cells(k)]) \o Padding(Block)

\* read_oct
ReadOct(str) ==
  LET accu[n \in 0 .. Len(str)] == IF n = 0 THEN 0 ELSE 8 * accu[n - 1] + str[n]
  IN  accu[Len(str)]
Size(c) == ReadOct(tarfs[c].size)

\* No header at c: tarfs_end is reached or the name is empty.
AtEnd(c) == c > Len(tarfs) \/ tarfs[c].kind = "zero"

\* cursor += ((((size - 1) >> 9) + 1) << 9) + 512
NextHeader(c) == c + ((Size(c) - 1) \div Block + 1) * Block + Block

\* tarfs_find_offset, and the search of tarfs_read and tarfs_file_info: the
\* header of the first file of that name, 0 if there is none.
RECURSIVE Find(_, _)
Find(name, c) ==
  IF AtEnd(c) THEN 0
  ELSE IF tarfs[c].name = name /\ ~ tarfs[c].dir THEN c
  ELSE Find(name, NextHeader(c))

TarfsReadHeader(name, size, from) ==
  LET c == Find(name, 1)
      left == IF c = 0 THEN 0 ELSE Size(c) - from
      n == IF left > size THEN size ELSE left
  IN  IF n <= 0 THEN [result |-> -1, bytes |-> <<>>]
      ELSE [result |-> n, bytes |-> SubSeq(tarfs, c + from, c + from + n - 1)]

\* tarfs_read: the bytes, or none and -1.
TarfsRead(name, size, from) ==
  LET c == Find(name, 1)
      left == IF c = 0 THEN 0 ELSE Size(c) - from
      n == IF left > size THEN size ELSE left
  IN  IF n <= 0 THEN [result |-> -1, bytes |-> <<>>]
      ELSE [result |-> n, bytes |-> SubSeq(tarfs, c + Block + from, c + Block + from + n - 1)]

InDirectory(c, dir) ==
  LET name == tarfs[c].name
  IN  Len(name) = Len(dir) + 1 /\ SubSeq(name, 1, Len(dir)) = dir

\* next_tarfs_file, the loop behind the directory's header
RECURSIVE NthFrom(_, _, _)
NthFrom(dir, n, c) ==
  IF AtEnd(c) THEN 0
  ELSE IF ~ InDirectory(c, dir) THEN NthFrom(dir, n, NextHeader(c))
  ELSE IF n = 0 THEN c
  ELSE NthFrom(dir, n - 1, NextHeader(c))

\* next_tarfs_file: the n-th file of a directory.  The root has no header of its
\* own: the archive's first entry is taken for it.
RECURSIVE NextTarfsFile(_, _, _)
NextTarfsFile(dir, n, c) ==
  IF AtEnd(c) THEN 0
  ELSE IF dir = <<>> \/ (tarfs[c].name = dir /\ tarfs[c].dir)
       THEN NthFrom(dir, n, NextHeader(c))
  ELSE NextTarfsFile(dir, n, NextHeader(c))

Init ==
  /\ archive \in Archives
  /\ tarfs = Cells(archive)
  /\ file = 0
  /\ offset = 0
  /\ got = <<>>
  /\ ended = FALSE

\* file_open_read of a file of the archive
Open(k) ==
  /\ file = 0
  /\ Find(archive[k].name, 1) # 0
  /\ file' = k
  /\ UNCHANGED <<archive, tarfs, offset, got, ended>>

\* file_read, io_type 3: the offset moves by what tarfs_read returns, by -1 too.
Read(size) ==
  LET r == TarfsRead(archive[file].name, size, offset)
  IN  /\ file # 0
      /\ Len(got) <= MaxGot
      /\ offset' = offset + r.result
      /\ got' = got \o r.bytes
      /\ ended' = (ended \/ r.result = -1)
      /\ UNCHANGED <<archive, tarfs, file>>

\* file_close
Close ==
  /\ file # 0
  /\ file' = 0
  /\ offset' = 0
  /\ got' = <<>>
  /\ ended' = FALSE
  /\ UNCHANGED <<archive, tarfs>>

Next ==
  \/ \E k \in DOMAIN archive : Open(k)
  \/ \E size \in ReadSizes : Read(size)
  \/ Close

Spec == Init /\ [][Next]_vars
-----------------------------------------------------------------------------
\* Reading an archive file to its end gives its content: each read continues
\* where the one before stopped, and -1 comes when all of it has been read and
\* not before (tarfs_read, file_read).  A reader that reads on after -1 is given
\* the last byte again, because the offset went back by one.
ReadsContent ==
  file # 0 =>
    LET content == [i \in 1 .. archive[file].size |-> [kind |-> "data", of |-> file, at |-> i]]
    IN  IF ended THEN IsPrefix(content, got) ELSE IsPrefix(got, content)

\* Listing a directory by increasing index gives each of its entries once, in
\* the order of the archive (next_tarfs_file), whatever the sizes of the
\* files between them; in the root the archive's first entry is left out.
ListsDirectory ==
  LET header(k) == 1 + Len(Cells(SubSeq(archive, 1, k - 1))) - Block
      children(dir) ==
        SelectSeq([k \in DOMAIN archive |-> k],
                  LAMBDA k : /\ Front(archive[k].name) = dir
                             /\ dir = <<>> => k # 1)
      dirs == {archive[k].name : k \in {j \in DOMAIN archive : archive[j].dir}} \cup {<<>>}
  IN  \A dir \in dirs : \A n \in 0 .. Len(archive) :
        NextTarfsFile(dir, n, 1) =
          IF n < Len(children(dir)) THEN header(children(dir)[n + 1]) ELSE 0
=============================================================================
