------------------------------- MODULE Shell -------------------------------
(***************************************************************************)
(* A job of the shell: execute and build_in_exec of                        *)
(* bin/sbush/sbush_exec.c with the processes it makes.  Pipes, descriptors *)
(* and sleeping readers are as in module Pipe, here without the bytes; the *)
(* commands are filters that read their input to its end, write, and exit. *)
(*                                                                         *)
(* Command k writes to pipe k and reads from pipe k - 1.                   *)
(***************************************************************************)
EXTENDS Naturals, Sequences, FiniteSets

CONSTANTS
  MaxCommands,   \* bound: commands in a job
  Capacity,      \* bytes a pipe holds
  MaxFds         \* descriptors of the shell that are free for pipes

Kinds == {"program", "builtin"}
Jobs == UNION {[1 .. n -> Kinds] : n \in 1 .. MaxCommands}
Commands == 1 .. MaxCommands
R(j) == <<"r", j>>
W(j) == <<"w", j>>
Ends == {"r", "w"} \X Commands

VARIABLES
  job, isBackground,
  pc, at,        \* what execute is doing, and for which command
  fds,           \* the pipe ends the shell has open
  proc,          \* of every command: none, running, asleep in sys_read, at
                 \* the end of its input, or exited
  inherited,     \* the pipe ends its process has open
  bytes,         \* the bytes in every pipe
  foreground     \* foreground_pid: a command, or 0 for the shell

shellVars == <<job, isBackground, pc, at, fds, proc, inherited, bytes, foreground>>
executeVars == <<pc, at, fds, foreground>>
childVars == <<proc, inherited, bytes>>
jobVars == <<job, isBackground>>

ShellTypeOK ==
  /\ job \in Jobs /\ isBackground \in BOOLEAN
  /\ pc \in {"pipe", "fork", "wait", "prompt"} /\ at \in 1 .. MaxCommands + 1
  /\ fds \subseteq Ends /\ Cardinality(fds) <= MaxFds
  /\ proc \in [Commands -> {"none", "running", "asleep", "eof", "exited"}]
  /\ inherited \in [Commands -> SUBSET Ends]
  /\ bytes \in [Commands -> 0 .. Capacity]
  /\ foreground \in 0 .. MaxCommands

ShellInit ==
  /\ job \in Jobs /\ isBackground \in BOOLEAN
  /\ pc = "pipe" /\ at = 1 /\ fds = {} /\ foreground = 0
  /\ proc = [k \in Commands |-> "none"]
  /\ inherited = [k \in Commands |-> {}]
  /\ bytes = [k \in Commands |-> 0]
-----------------------------------------------------------------------------
(***************************************************************************)
(* execute.                                                                *)
(***************************************************************************)
Goto(where, k) == pc' = where /\ at' = k

\* One pipe for every command but the last; if pipe() fails the job is given
\* up, and the pipes made so far stay open.
MakePipe ==
  /\ pc = "pipe" /\ at < Len(job)
  /\ IF Cardinality(fds) + 2 <= MaxFds
     THEN fds' = fds \cup {R(at), W(at)} /\ Goto("pipe", at + 1)
     ELSE UNCHANGED fds /\ Goto("prompt", 1)
  /\ UNCHANGED <<jobVars, childVars, foreground>>

PipesMade ==
  /\ pc = "pipe" /\ at = Len(job)
  /\ Goto("fork", 1)
  /\ UNCHANGED <<jobVars, childVars, fds, foreground>>

\* The ends that the shell closes after the fork of command k.
ClosesInput(k) == {R(k - 1)}
Closes(k) == {R(k - 1), W(k)}

\* The child moves its two ends to descriptors 0 and 1 and keeps the others
\* that the shell has open.
ForkProgram ==
  /\ pc = "fork" /\ at <= Len(job) /\ job[at] = "program"
  /\ proc' = [proc EXCEPT ![at] = "running"]
  /\ inherited' = [inherited EXCEPT ![at] = fds]
  /\ fds' = fds \ Closes(at)
  /\ Goto("fork", at + 1)
  /\ UNCHANGED <<jobVars, bytes, foreground>>

\* A built-in command runs in the shell, without its pipes.
BuildIn ==
  /\ pc = "fork" /\ at <= Len(job) /\ job[at] = "builtin"
  /\ Goto("fork", at + 1)
  /\ UNCHANGED <<jobVars, childVars, fds, foreground>>

AllStarted ==
  /\ pc = "fork" /\ at > Len(job)
  /\ IF isBackground THEN Goto("prompt", 1) ELSE Goto("wait", 1)
  /\ UNCHANGED <<jobVars, childVars, fds, foreground>>

\* The commands are waited for in order, up to the first built-in one.
Awaited == at <= Len(job) /\ job[at] = "program"

\* ioctl TIOCSPGRP, then waitpid
StartWait ==
  /\ pc = "wait" /\ Awaited /\ foreground = 0
  /\ foreground' = at
  /\ UNCHANGED <<jobVars, childVars, pc, at, fds>>

NextWait == Goto("wait", at + 1) /\ foreground' = 0

WaitReturns ==
  /\ pc = "wait" /\ Awaited /\ foreground = at /\ proc[at] = "exited"
  /\ NextWait
  /\ UNCHANGED <<jobVars, childVars, fds>>

JobDone ==
  /\ pc = "wait" /\ ~ Awaited
  /\ Goto("prompt", 1)
  /\ UNCHANGED <<jobVars, childVars, fds, foreground>>

ShellStep ==
  \/ MakePipe \/ PipesMade \/ ForkProgram \/ BuildIn \/ AllStarted
  \/ StartWait \/ WaitReturns \/ JobDone
-----------------------------------------------------------------------------
(***************************************************************************)
(* The commands.                                                           *)
(***************************************************************************)
Live(k) == proc[k] \notin {"none", "exited"}
HasWriter(j) == W(j) \in fds \/ \E k \in Commands : Live(k) /\ W(j) \in inherited[k]
Piped(k) == k > 1

\* sys_read on the input of command k
Read(k) ==
  /\ proc[k] = "running" /\ Piped(k)
  /\ \/ /\ bytes[k - 1] > 0
        /\ \E n \in 1 .. bytes[k - 1] : bytes' = [bytes EXCEPT ![k - 1] = @ - n]
        /\ UNCHANGED proc
     \/ /\ bytes[k - 1] = 0
        /\ proc' = [proc EXCEPT ![k] = IF HasWriter(k - 1) THEN "asleep" ELSE "eof"]
        /\ UNCHANGED bytes
  /\ UNCHANGED <<jobVars, executeVars, inherited>>

\* sys_write of n bytes to its output: when they do not all fit, the reader is
\* not woken.
Write(k, n) ==
  /\ proc[k] \in {"running", "eof"} /\ k < Len(job)
  /\ bytes' = [bytes EXCEPT ![k] = IF @ + n <= Capacity THEN @ + n ELSE Capacity]
  /\ proc' = IF proc[k + 1] = "asleep" /\ bytes[k] + n <= Capacity
             THEN [proc EXCEPT ![k + 1] = "running"] ELSE proc
  /\ UNCHANGED <<jobVars, executeVars, inherited>>

\* The end of a process closes its pipes; nobody is woken.
ExitCommand(k) ==
  /\ proc[k] \in {"running", "eof"}
  /\ proc' = [proc EXCEPT ![k] = "exited"]
  /\ UNCHANGED <<jobVars, executeVars, inherited, bytes>>

ShellNext ==
  \/ ShellStep
  \/ \E k \in Commands : \/ Read(k) \/ ExitCommand(k)
                         \/ \E n \in 1 .. Capacity + 1 : Write(k, n)

\* The scheduler runs every process that is not asleep.  A program without a
\* pipe to read exits by itself, a filter reads on and exits at the end of its
\* input.
Fairness ==
  /\ WF_shellVars(ShellStep)
  /\ \A k \in Commands :
       /\ WF_shellVars(Read(k))
       /\ WF_shellVars((proc[k] = "eof" \/ ~ Piped(k)) /\ ExitCommand(k))

ShellSpec == ShellInit /\ [][ShellNext]_shellVars /\ Fairness
-----------------------------------------------------------------------------
\* No filter holds a writing end of the pipe it reads, which would keep it from
\* ever seeing the end of its input, unless the command before it is built in.
NoneFeedsItself ==
  \A k \in Commands : Piped(k) /\ Live(k) /\ job[k - 1] = "program" =>
    W(k - 1) \notin inherited[k]

\* When the shell has started a job it has no pipe end left, unless a command
\* of the job is built in: the ends of a filter's input are then with programs
\* that come before it in the job.
ShellLetsGo ==
  pc = "wait" /\ (\A k \in DOMAIN job : job[k] = "program") =>
    /\ fds = {}
    /\ \A k, l \in Commands : Live(l) /\ W(k) \in inherited[l] => l <= k

\* At the prompt Ctrl-C is for the shell again, not for a process that ended.
PromptHasForeground == pc = "prompt" => foreground = 0

\* When the shell has started a job of programs it has no pipe end left, and the
\* writing ends are with the writer and the programs before it; no filter holds a
\* writing end of the pipe it reads, unless the command before it is built in; and
\* at the prompt Ctrl-C is for the shell again (execute, sys_ioctl).
JobHandedOver == ShellLetsGo /\ NoneFeedsItself /\ PromptHasForeground

\* A reader was asleep when the last writer of its pipe exited, or when a write
\* filled the pipe: neither wakes it.
Stranded ==
  \E k \in Commands : proc[k] = "asleep" /\ (bytes[k - 1] > 0 \/ ~ HasWriter(k - 1))

\* A job of programs in the foreground comes to its end, unless a reader is
\* stranded (execute, file_close, file_write).
JobEnds ==
  (pc = "wait" /\ \A k \in DOMAIN job : job[k] = "program") ~> (pc = "prompt" \/ Stranded)
=============================================================================
