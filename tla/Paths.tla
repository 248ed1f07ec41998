------------------------------- MODULE Paths -------------------------------
(***************************************************************************)
(* Path names: calculate_path and shorten_path of sys/disk/file_system.c,  *)
(* and the working directory that sys_chdir makes with them.  A path is a  *)
(* sequence of characters; shorten_path works in place, in a buffer that   *)
(* has the path, its terminator and the bytes behind it.                   *)
(***************************************************************************)
EXTENDS Integers, Sequences, SequencesExt

CONSTANTS
  Relative,  \* the paths sys_chdir is called with
  Behind,    \* the bytes that may lie behind a buffer of the heap
  MaxPath    \* bound: length of the working directory

VARIABLES
  workdir,  \* the process's working directory
  dirs,     \* the directories it stands for, from the paths given
  regular   \* those paths were all ones that shorten_path is right for
vars == <<workdir, dirs, regular>>

End == "end"     \* the terminator
Slash == "/"
Dot == "."

\* b[i] counted from 0; what lies behind the buffer is never reached before a
\* terminator.
At(b, i) == b[i + 1]
AllOf(b) == SubSeq(b, 1, (CHOOSE n \in DOMAIN b : b[n] = End /\ \A m \in 1 .. n - 1 : b[m] # End) - 1)
Rest(b, i) == AllOf(SubSeq(b, i + 1, Len(b)))

Ended(b, i) == [b EXCEPT ![i + 1] = End]

\* str_collapse(path + to, path + from)
Collapsed(b, to, from) ==
  LET s == Append(Rest(b, from), End)
  IN  [k \in DOMAIN b |-> IF k - to \in DOMAIN s THEN s[k - to] ELSE b[k]]

IsDot(b, i) == At(b, i) = Dot /\ At(b, i + 1) \in {Slash, End}
IsUp(b, i) == At(b, i) = Dot /\ At(b, i + 1) = Dot /\ At(b, i + 2) \in {Slash, End}

\* The slash before the directory that a ".." at i leaves, -1 if there is none.
Before(b, i) ==
  LET slashes == {j \in 0 .. i - 2 : At(b, j) = Slash}
  IN  IF slashes = {} THEN -1 ELSE CHOOSE j \in slashes : \A k \in slashes : k <= j

WithoutDot(b, i) ==
  Collapsed(IF At(b, i + 1) = End THEN Ended(b, i) ELSE b, i, i + 2)
WithoutUp(b, i, to) ==
  IF At(b, i + 2) = End THEN Ended(b, to) ELSE Collapsed(b, to, i + 3)

\* shorten_path from position i on
RECURSIVE ShortenFrom(_, _)
ShortenFrom(b, i) ==
  IF At(b, i) = End THEN b
  ELSE LET b1 == IF IsDot(b, i) THEN WithoutDot(b, i) ELSE b
           j == Before(b1, i)
       IN  IF ~ IsUp(b1, i) THEN ShortenFrom(b1, i + 1)
           ELSE IF j < 0 THEN ShortenFrom(WithoutUp(b1, i, i), i + 1)
           ELSE ShortenFrom(WithoutUp(b1, i, j + 1), j + 1)

\* The buffer is as long as the path and its terminator; behind it are the
\* bytes behind, and then zeroes.
Shorten(path, behind) ==
  AllOf(ShortenFrom(path \o <<End>> \o behind \o <<End, End, End>>, 0))

JoinWithoutSlash(base, rel) == IF rel # <<>> /\ rel[1] = Slash THEN rel ELSE base \o rel
Join(base, rel) ==
  IF rel # <<>> /\ rel[1] = Slash THEN rel
  ELSE IF Last(base) # Slash THEN base \o <<Slash>> \o rel ELSE base \o rel

CalculatePath(base, rel, behind) == Shorten(Join(base, rel), behind)
-----------------------------------------------------------------------------
(***************************************************************************)
(* What a path stands for: the names that are left when "." is skipped and *)
(* ".." drops the name before it.                                          *)
(***************************************************************************)
RECURSIVE Split(_, _, _)
Split(done, name, path) ==
  IF path = <<>> THEN IF name = <<>> THEN done ELSE Append(done, name)
  ELSE IF Head(path) # Slash THEN Split(done, Append(name, Head(path)), Tail(path))
  ELSE Split(IF name = <<>> THEN done ELSE Append(done, name), <<>>, Tail(path))
Components(path) == Split(<<>>, <<>>, path)

RECURSIVE Walk(_, _)
Walk(up, cs) ==
  IF cs = <<>> THEN up
  ELSE IF Head(cs) = <<Dot>> THEN Walk(up, Tail(cs))
  ELSE IF Head(cs) = <<Dot, Dot>>
       THEN Walk(IF up = <<>> THEN <<>> ELSE Front(up), Tail(cs))
  ELSE Walk(Append(up, Head(cs)), Tail(cs))

\* The paths that shorten_path is right for: no "." at the end or before
\* another ".", and no ".." at the root before "." or "..".
Regular(path) ==
  LET cs == Components(path)
      dots == {<<Dot>>, <<Dot, Dot>>}
  IN  \A k \in DOMAIN cs :
        /\ cs[k] = <<Dot>> => k < Len(cs) /\ cs[k + 1] # <<Dot>>
        /\ cs[k] = <<Dot, Dot>> /\ Walk(<<>>, SubSeq(cs, 1, k - 1)) = <<>> /\ k < Len(cs)
             => cs[k + 1] \notin dots
-----------------------------------------------------------------------------
\* init's working directory is /bin (spawn_process).
Init ==
  /\ workdir = <<Slash, "b", "i", "n">>
  /\ dirs = <<<<"b", "i", "n">>>>
  /\ regular = TRUE

\* sys_chdir; what follows a path that shorten_path is wrong for is not pursued.
Chdir(path, behind) ==
  /\ regular
  /\ workdir' = CalculatePath(workdir, path, behind)
  /\ Len(workdir') <= MaxPath
  /\ dirs' = Walk(IF path # <<>> /\ path[1] = Slash THEN <<>> ELSE dirs, Components(path))
  /\ regular' = Regular(Join(workdir, path))

Next == \E path \in Relative, behind \in Behind : Chdir(path, behind)

Spec == Init /\ [][Next]_vars

\* After any sequence of calls of sys_chdir the working directory is the one the
\* paths lead to (calculate_path, shorten_path), as long as each was one that
\* shorten_path is right for.
WorkdirIsWalk == regular => Components(workdir) = dirs
=============================================================================
