------------------------------ MODULE MCParts ------------------------------
(***************************************************************************)
(* The parts of the kernel and of the shell that have no state in common   *)
(* with each other, as one model for TLC.  A behaviour is one of the part  *)
(* that part names; the others are at rest in their initial states.  The   *)
(* first five parts are here with their own variables, and their bounds    *)
(* are in MCParts.cfg.  For the others v1, v2, ... stand for the variables *)
(* of the part, those it does not need are 0, and the bounds are the       *)
(* substitutions below.                                                    *)
(***************************************************************************)
EXTENDS SimpleFs, Terminal, PhyPages, Screen, Environ, TLC

VARIABLES part, v1, v2, v3, v4, v5, v6
slots == <<v1, v2, v3, v4, v5, v6>>

\* The processes and the file names of SimpleFs are interchangeable.
Symmetry == Permutations(Procs) \cup Permutations(Names)

MemoryZones ==
  <<[base |-> 0, pages |-> 2, aligned |-> TRUE], [base |-> 4, pages |-> 8, aligned |-> TRUE],
    [base |-> 12, pages |-> 1, aligned |-> FALSE], [base |-> 14, pages |-> 5, aligned |-> TRUE]>>

\* The table of pages has room, and its entries do not straddle pages.
ASSUME MemoryZonesFit == ZonesFit

Characters == {"PATH", "A", "x", "d", "e", "=", ":"}
Strings == UNION {[1 .. n -> {"d", "e", ":"}] : n \in 0 .. 3}
ExportArguments ==
  {<<"PATH", "=">> \o v : v \in Strings}
    \cup {<<"A", "=", "PATH", "=", "d">>, <<"PATH">>, <<"=", "d">>}
ShellEnvs == {<<>>, <<<<"x">>, <<"PATH", "=", "e">>>>}
Directories == {<<"d">>, <<"e", "d">>, <<>>}
ProgramName == <<"p">>
-----------------------------------------------------------------------------
Heap == INSTANCE KMalloc WITH
  UnitsPerPage <- 5, PagesPerTable <- 2, MaxPages <- 3, Sizes <- {1, 32, 33, 64},
  heap <- v1, pts <- v2, live <- v3

Directory(n) == [name |-> n, dir |-> TRUE, size |-> 0]
Plain(n, s) == [name |-> n, dir |-> FALSE, size |-> s]
Archives ==
  {<<Directory(<<"bin">>), Plain(<<"bin", "a">>, i), Plain(<<"bin", "b">>, j),
     Directory(<<"etc">>), Directory(<<"etc", "bin">>), Plain(<<"etc", "bin", "a">>, k),
     Plain(<<"c">>, 1)>> : i, j, k \in {0, 2, 3, 9}}
Tar == INSTANCE Tarfs WITH
  Block <- 2, Archives <- Archives, ReadSizes <- {1, 4}, MaxGot <- 10,
  archive <- v1, tarfs <- v2, file <- v3, offset <- v4, got <- v5, ended <- v6

Component == {<<"a">>, <<"b", "c">>, <<".">>, <<".", ".">>}
UpToThree ==
  Component \cup {c \o <<"/">> \o d : c, d \in Component}
    \cup {c \o <<"/">> \o d \o <<"/">> \o e : c, d, e \in Component}
Relative ==
  UpToThree \cup {<<"/">> \o r : r \in UpToThree} \cup {r \o <<"/">> : r \in UpToThree} \cup {<<>>}
Path == INSTANCE Paths WITH
  Relative <- Relative, Behind <- {<<>>, <<"a">>}, MaxPath <- 10,
  workdir <- v1, dirs <- v2, regular <- v3

Cmd == INSTANCE Commands WITH
  Letters <- {"a", "b"}, MaxLine <- 6, line <- v1, job <- v2

FormatPieces ==
  {[kind |-> "d", arg |-> v] : v \in -8 .. 7}
    \cup {[kind |-> "x", arg |-> v] : v \in {0, 1, 9, 10, 15, 16, 160, 255}}
    \cup {[kind |-> "c", arg |-> "a"], [kind |-> "s", arg |-> <<"b", "c">>],
          [kind |-> "unknown", arg |-> 0]}
Fmt == INSTANCE Kprintf WITH
  IntBits <- 4, Nibbles <- 2, Pieces <- FormatPieces, MaxFormat <- 2, Sizes <- {1, 2, 4, 8},
  format <- v1, size <- v2, dest <- v3
-----------------------------------------------------------------------------
\* The slots from the n-th on are not needed.
ZeroFrom4 == v4 = 0 /\ v5 = 0 /\ v6 = 0
ZeroFrom3 == v3 = 0 /\ ZeroFrom4
ZeroFrom1 == v1 = 0 /\ v2 = 0 /\ ZeroFrom3

PartsInit ==
  /\ FsInit /\ TerminalInit /\ PagesInit /\ ScreenInit /\ EnvironInit
  /\ \/ part \in {"files", "terminal", "pages", "screen", "environ"} /\ ZeroFrom1
     \/ part = "heap" /\ Heap!Init /\ ZeroFrom4
     \/ part = "archive" /\ Tar!Init
     \/ part = "paths" /\ Path!Init /\ ZeroFrom4
     \/ part = "commands" /\ Cmd!Init /\ ZeroFrom3
     \/ part = "format" /\ Fmt!Init /\ ZeroFrom4
  /\ part # "environ" => environ = <<>>

own == <<fsVars, terminalVars, pagesVars, screenVars, environVars>>

PartsNext ==
  \/ /\ part = "files" /\ FsNext
     /\ UNCHANGED <<part, slots, terminalVars, pagesVars, screenVars, environVars>>
  \/ /\ part = "terminal" /\ TerminalNext
     /\ UNCHANGED <<part, slots, fsVars, pagesVars, screenVars, environVars>>
  \/ /\ part = "pages" /\ PagesNext
     /\ UNCHANGED <<part, slots, fsVars, terminalVars, screenVars, environVars>>
  \/ /\ part = "screen" /\ ScreenNext
     /\ UNCHANGED <<part, slots, fsVars, terminalVars, pagesVars, environVars>>
  \/ /\ part = "environ" /\ EnvironNext
     /\ UNCHANGED <<part, slots, fsVars, terminalVars, pagesVars, screenVars>>
  \/ part = "heap" /\ Heap!Next /\ UNCHANGED <<part, v4, v5, v6, own>>
  \/ part = "archive" /\ Tar!Next /\ UNCHANGED <<part, own>>
  \/ part = "paths" /\ Path!Next /\ UNCHANGED <<part, v4, v5, v6, own>>
  \/ part = "commands" /\ Cmd!Next /\ UNCHANGED <<part, v3, v4, v5, v6, own>>
  \/ part = "format" /\ Fmt!Next /\ UNCHANGED <<part, v4, v5, v6, own>>

PartsSpec == PartsInit /\ [][PartsNext]_<<part, slots, own>>
-----------------------------------------------------------------------------
(***************************************************************************)
(* The properties of the parts in the slots.                               *)
(***************************************************************************)
\* The blocks of the kernel heap lie one behind the other up to the break, and
\* every footer repeats its header.  The callers of sf_malloc and sf_realloc hold
\* exactly the blocks that are not free, each large enough for what was asked for.
\* The list links all free blocks in the order of addresses and in both
\* directions, and no two of them are neighbours (sf_coalescing, sf_free, kbrk).
HeapIntact ==
  part = "heap" => Heap!BlocksFillHeap /\ Heap!CallersHoldBlocks /\ Heap!FreeListIntact

\* Reading a file of the archive to its end gives its content (tarfs_read,
\* file_read, io_type 3), and listing a directory by increasing index gives each
\* of its entries once and in order (next_tarfs_file).
ArchiveReadsBack ==
  part = "archive" => Tar!ReadsContent /\ Tar!ListsDirectory

\* After any sequence of calls of sys_chdir the working directory is the one the
\* paths lead to, for the paths that shorten_path is right for (calculate_path).
WorkdirIsWalk == part = "paths" => Path!WorkdirIsWalk

\* The shell makes of a line the processes, arguments and background flag that
\* its bars, words and ampersands stand for (ProcessCommand).
JobIsLine == part = "commands" => Cmd!JobIsLine

\* kprintfa never writes past the end of its buffer and ends the text in it, and a
\* number that it has printed whole reads back as that number (print_num,
\* print_hex).
NumbersReadBack ==
  part = "format" => Fmt!StaysInBuffer /\ Fmt!ReadsBack
=============================================================================
