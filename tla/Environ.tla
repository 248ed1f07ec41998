------------------------------ MODULE Environ ------------------------------
(***************************************************************************)
(* The environment: the shell's export (build_in_exec of                   *)
(* bin/sbush/sbush_exec.c) and the search for a program on PATH (execvpe   *)
(* of libc/exec.c).  A string is a sequence of symbols, among them the     *)
(* equals sign and the colon.                                              *)
(***************************************************************************)
EXTENDS Integers, Sequences, FiniteSetsExt

CONSTANTS
  Symbols,     \* characters and keys
  Arguments,   \* the strings export is called with
  InitialEnvs, \* the environments the shell may be started with
  Files,       \* the directories that have the program; the root is empty
  InWorkdir,   \* the working directory has it
  Program,     \* its name, a string
  MaxEnv       \* bound: length of the environment

ASSUME EnvironAssumption ==
  Arguments \subseteq Seq(Symbols) /\ InitialEnvs \subseteq Seq(Seq(Symbols))

VARIABLES
  environ,  \* sequence of strings
  exported, \* what was exported: function from keys to values
  result    \* the path last passed to execve, or Failed
environVars == <<environ, exported, result>>

Equals == "="
Colon == ":"
Failed == <<"failed">>
PATH == <<"PATH">>

FirstOf(s, c) == Min({i \in DOMAIN s : s[i] = c})
Has(s, c) == \E i \in DOMAIN s : s[i] = c

\* _extract_env and __extract_env: the string is split at its first equals sign.
KeyOf(s) == SubSeq(s, 1, FirstOf(s, Equals) - 1)
ValueOf(s) == SubSeq(s, FirstOf(s, Equals) + 1, Len(s))

\* _search_env and __search_env: 0 if the key is not there
SearchEnv(env, key) ==
  LET found == {i \in DOMAIN env : Has(env[i], Equals) /\ KeyOf(env[i]) = key}
  IN  IF found = {} THEN 0 ELSE Min(found)

AddedAlways(env, s) == Append(env, KeyOf(s) \o <<Equals>> \o ValueOf(s))
\* The environment after export s: replaced, or copied with one string more
Exported(env, s) ==
  LET target == SearchEnv(env, KeyOf(s))
      new == KeyOf(s) \o <<Equals>> \o ValueOf(s)
  IN  IF target # 0 THEN [env EXCEPT ![target] = new] ELSE Append(env, new)

\* The first colon of a path behind position i, or the end of the string
NextColon(path, i) ==
  Min({j \in i + 1 .. Len(path) : path[j] = Colon} \cup {Len(path) + 1})

\* The loop of execvpe over the directories of a path, with open as its test;
\* path_to_check is behind the i-th character.
SearchPath(path) ==
  LET from[i \in 0 .. Len(path) + 1] ==
        LET j == NextColon(path, i)
            dir == SubSeq(path, i + 1, j - 1)
        IN  IF i >= Len(path) THEN Failed
            ELSE IF dir \in Files THEN dir \o <<"/">> \o Program
            ELSE from[j]
  IN  from[0]

EnvironInit ==
  /\ environ \in InitialEnvs
  /\ exported = [k \in {} |-> <<>>]
  /\ result = <<>>

\* export s; a string without an equals sign is refused.
Export(s) ==
  /\ Has(s, Equals)
  /\ SearchEnv(environ, KeyOf(s)) # 0 \/ Len(environ) < MaxEnv
  /\ environ' = Exported(environ, s)
  /\ exported' = [k \in DOMAIN exported \cup {KeyOf(s)} |->
                    IF k = KeyOf(s) THEN ValueOf(s) ELSE exported[k]]
  /\ result' = <<>>

\* execvp(Program, _) in a child of the shell, the environment inherited.  Without
\* a PATH the name is looked up in the working directory.
Execvp ==
  LET target == SearchEnv(environ, PATH)
  IN  /\ result' = IF target # 0 THEN SearchPath(ValueOf(environ[target]))
                   ELSE IF InWorkdir THEN Program ELSE Failed
      /\ UNCHANGED <<environ, exported>>

EnvironNext == (\E s \in Arguments : Export(s)) \/ Execvp

EnvironSpec == EnvironInit /\ [][EnvironNext]_environVars
-----------------------------------------------------------------------------
\* The first file on path v.  The directories are the pieces of v between colons;
\* one at the end is left out if it is empty.
FirstOnPath(v) ==
  LET colons == {i \in DOMAIN v : v[i] = Colon}
      piece(i) == SubSeq(v, i + 1, Min({j \in colons \cup {Len(v) + 1} : j > i}) - 1)
      hits == {i \in colons \cup {0} : i < Len(v) /\ piece(i) \in Files}
  IN  IF hits = {} THEN Failed ELSE piece(Min(hits)) \o <<"/">> \o Program

\* The program that is started is the first one on the PATH that was exported
\* last: no earlier export and no string the shell was started with hides it
\* (build_in_exec, execvpe).
RunsFirstOnPath ==
  (result # <<>> /\ PATH \in DOMAIN exported) => result = FirstOnPath(exported[PATH])
=============================================================================
