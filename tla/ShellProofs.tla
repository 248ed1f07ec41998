---------------------------- MODULE ShellProofs ----------------------------
(***************************************************************************)
(* Shell proved for jobs of any length: which pipe ends the shell and the  *)
(* processes of a job hold, and whose the foreground is.                   *)
(***************************************************************************)
EXTENDS Shell, SequenceTheorems, TLAPS

Program(k) == k \in DOMAIN job /\ job[k] = "program"

JobType ==
  /\ job \in Seq(Kinds) /\ Len(job) <= MaxCommands /\ at \in Nat /\ 1 <= at
  /\ fds \subseteq Ends
  /\ pc \in {"pipe", "fork", "wait", "prompt"}
  /\ proc \in [Commands -> {"none", "running", "asleep", "eof", "exited"}]
  /\ inherited \in [Commands -> SUBSET Ends]

\* The pipes lie between two commands; the shell has closed the ends it gave to
\* the programs that it has started.
ShellKeeps ==
  \A j \in Commands :
    /\ pc = "pipe" => (W(j) \in fds \/ R(j) \in fds => j < Len(job))
    /\ pc = "fork" =>
         /\ W(j) \in fds => j < Len(job) /\ ~ (j < at /\ Program(j))
         /\ R(j) \in fds => j < Len(job) /\ ~ (j + 1 < at /\ Program(j + 1))
    /\ pc = "wait" =>
         /\ W(j) \in fds => j < Len(job) /\ ~ Program(j)
         /\ R(j) \in fds => j < Len(job) /\ ~ Program(j + 1)

\* Only programs have a process, those before at while the shell starts them,
\* and none of them has a writing end of an earlier program.
ChildrenKeep ==
  \A k \in Commands : proc[k] # "none" =>
    /\ Program(k) /\ pc # "pipe" /\ (pc = "fork" => k < at)
    /\ \A j \in Commands : W(j) \in inherited[k] => ~ (j < k /\ Program(j))

ForegroundIsAwaited ==
  foreground # 0 => pc = "wait" /\ foreground = at /\ Awaited

ShellInv == JobType /\ ShellKeeps /\ ChildrenKeep /\ ForegroundIsAwaited

-----------------------------------------------------------------------------
LEMMA JobIs ==
  ASSUME JobType
  PROVE  Len(job) \in Nat /\ DOMAIN job = 1 .. Len(job)
BY LenProperties DEF JobType

LEMMA EndsDiffer ==
  ASSUME NEW i, NEW j
  PROVE  R(i) # W(j) /\ (R(i) = R(j) => i = j) /\ (W(i) = W(j) => i = j)
BY DEF R, W

\* execute and the processes of the job leave alone what the invariant says of
\* the shell when neither the job, the shell nor what was inherited changes.
LEMMA ChildKeeps ==
  ASSUME ShellInv, UNCHANGED <<jobVars, executeVars, inherited>>,
         proc' \in [Commands -> {"none", "running", "asleep", "eof", "exited"}],
         \A k \in Commands : proc'[k] # "none" => proc[k] # "none"
  PROVE  ShellInv'
<1>0. UNCHANGED <<job, pc, at, fds, foreground, inherited>>
  BY DEF jobVars, executeVars
<1>1. JobType'
  BY <1>0, Zenon DEF ShellInv, JobType
<1>2. \A j : Program(j)' <=> Program(j)
  BY <1>0, Zenon DEF Program
<1>3. ShellKeeps'
  BY <1>0, <1>2, Zenon DEF ShellInv, ShellKeeps
<1>4. ChildrenKeep'
  BY <1>0, <1>2, Zenon DEF ShellInv, ChildrenKeep
<1>5. ForegroundIsAwaited'
  BY <1>0, Zenon DEF ShellInv, ForegroundIsAwaited, Awaited
<1> QED
  BY <1>1, <1>3, <1>4, <1>5, Zenon DEF ShellInv

LEMMA ChildSteps ==
  ASSUME ShellInv, NEW k \in Commands,
         Read(k) \/ ExitCommand(k) \/ \E n \in 1 .. Capacity + 1 : Write(k, n)
  PROVE  ShellInv'
<1>0. proc \in [Commands -> {"none", "running", "asleep", "eof", "exited"}]
  BY Zenon DEF ShellInv, JobType
<1>1. CASE Read(k)
  <2>1. \/ proc' = proc
        \/ \E v \in {"asleep", "eof"} : proc' = [proc EXCEPT ![k] = v]
    BY <1>1, Zenon DEF Read
  <2>2. UNCHANGED <<jobVars, executeVars, inherited>> /\ proc[k] = "running"
    BY <1>1, Zenon DEF Read
  <2> QED
    BY <1>0, <2>1, <2>2, ChildKeeps
<1>2. CASE ExitCommand(k)
  <2>1. /\ UNCHANGED <<jobVars, executeVars, inherited>>
        /\ proc' = [proc EXCEPT ![k] = "exited"] /\ proc[k] # "none"
    BY <1>2 DEF ExitCommand
  <2> QED
    BY <1>0, <2>1, ChildKeeps
<1>3. CASE \E n \in 1 .. Capacity + 1 : Write(k, n)
  <2>1. /\ UNCHANGED <<jobVars, executeVars, inherited>>
        /\ \/ proc' = proc
           \/ proc' = [proc EXCEPT ![k + 1] = "running"] /\ proc[k + 1] = "asleep"
    BY <1>3, Zenon DEF Write
  <2> QED
    BY <1>0, <2>1, ChildKeeps
<1> QED
  BY <1>1, <1>2, <1>3
-----------------------------------------------------------------------------
LEMMA PipeKeeps ==
  ASSUME MaxCommands \in Nat, ShellInv, MakePipe \/ PipesMade
  PROVE  ShellInv'
<1>0. /\ UNCHANGED <<job, proc, inherited, foreground>> /\ pc = "pipe" /\ at <= Len(job)
      /\ \/ at < Len(job) /\ fds' = fds \cup {R(at), W(at)} /\ pc' = "pipe" /\ at' = at + 1
         \/ UNCHANGED fds /\ pc' = "prompt" /\ at' = 1
         \/ UNCHANGED fds /\ pc' = "fork" /\ at' = 1
  BY JobIs DEF ShellInv, JobType, MakePipe, PipesMade, Goto, jobVars, childVars
<1>1. Len(job) \in Nat /\ DOMAIN job = 1 .. Len(job) /\ at \in Nat
  BY JobIs, Zenon DEF ShellInv, JobType
<1>2. \A j : Program(j)' <=> Program(j)
  BY <1>0, Zenon DEF Program
<1>3. foreground = 0 /\ \A k \in Commands : proc[k] = "none"
  BY <1>0, Zenon DEF ShellInv, ForegroundIsAwaited, ChildrenKeep
<1>4. ChildrenKeep' /\ ForegroundIsAwaited'
  BY <1>0, <1>3, Zenon DEF ChildrenKeep, ForegroundIsAwaited
<1>5. \A j \in Commands : W(j) \in fds \/ R(j) \in fds => j < Len(job)
  BY <1>0, Zenon DEF ShellInv, ShellKeeps
<1>6. ShellKeeps'
  <2> SUFFICES ASSUME NEW j \in Commands
               PROVE  /\ W(j) \in fds' \/ R(j) \in fds' => pc' = "prompt" \/ j < Len(job)
                      /\ pc' = "fork" => ~ (j < at') /\ ~ (j + 1 < at')
                      /\ pc' # "wait"
    BY <1>0, <1>2, Zenon DEF ShellKeeps
  <2>1. W(j) \in {R(at), W(at)} \/ R(j) \in {R(at), W(at)} => j = at
    BY EndsDiffer, Zenon
  <2>2. W(j) \in fds' \/ R(j) \in fds' => pc' = "prompt" \/ j < Len(job)
    BY <1>0, <1>5, <2>1
  <2>3. pc' = "fork" => ~ (j < at') /\ ~ (j + 1 < at')
    BY <1>0 DEF Commands
  <2> QED
    BY <1>0, <2>2, <2>3
<1>7. JobType'
  <2>1. at' \in Nat /\ 1 <= at' /\ pc' \in {"pipe", "fork", "wait", "prompt"}
    BY <1>0, <1>1
  <2>2. fds' \subseteq Ends
    <3>1. fds \subseteq Ends /\ Len(job) <= MaxCommands /\ 1 <= at
      BY Zenon DEF ShellInv, JobType
    <3>2. at < Len(job) => R(at) \in Ends /\ W(at) \in Ends
      BY <1>1, <3>1 DEF Ends, R, W, Commands
    <3> QED
      BY <1>0, <3>1, <3>2
  <2> QED
    BY <1>0, <2>1, <2>2, Zenon DEF ShellInv, JobType
<1> QED
  BY <1>4, <1>6, <1>7, Zenon DEF ShellInv

LEMMA ForkKeeps ==
  ASSUME ShellInv, ForkProgram \/ BuildIn
  PROVE  ShellInv'
<1>0. /\ UNCHANGED <<job, foreground>> /\ pc = "fork" /\ pc' = "fork" /\ at' = at + 1
      /\ at <= Len(job)
      /\ \/ UNCHANGED <<fds, proc, inherited>> /\ job[at] = "builtin"
         \/ /\ proc' = [proc EXCEPT ![at] = "running"] /\ job[at] = "program"
            /\ inherited' = [inherited EXCEPT ![at] = fds]
            /\ fds' = fds \ {R(at - 1), W(at)}
  BY DEF ForkProgram, BuildIn, Goto, jobVars, childVars, Closes
<1>1. /\ Len(job) \in Nat /\ DOMAIN job = 1 .. Len(job) /\ at \in Nat \ {0}
      /\ proc \in [Commands -> {"none", "running", "asleep", "eof", "exited"}]
      /\ inherited \in [Commands -> SUBSET Ends] /\ fds \subseteq Ends
  BY JobIs DEF ShellInv, JobType
<1>2. \A j : Program(j)' <=> Program(j)
  BY <1>0, Zenon DEF Program
<1>3. at \in DOMAIN job
  BY <1>0, <1>1
<1>4. \/ UNCHANGED <<fds, proc, inherited>> /\ ~ Program(at)
      \/ /\ proc' = [proc EXCEPT ![at] = "running"] /\ Program(at)
         /\ inherited' = [inherited EXCEPT ![at] = fds]
         /\ fds' = fds \ {R(at - 1), W(at)}
  BY <1>0, <1>3 DEF Program
<1>5. JobType'
  <2>1. at' \in Nat /\ 1 <= at'
    BY <1>0, <1>1
  <2>2. proc' \in [Commands -> {"none", "running", "asleep", "eof", "exited"}]
    BY <1>1, <1>4
  <2>3. inherited' \in [Commands -> SUBSET Ends] /\ fds' \subseteq Ends
    BY <1>1, <1>4
  <2> QED
    BY <1>0, <2>1, <2>2, <2>3, Zenon DEF ShellInv, JobType
<1>6. ForegroundIsAwaited'
  BY <1>0, Zenon DEF ShellInv, ForegroundIsAwaited
<1>7. ASSUME NEW j \in Commands
      PROVE  /\ W(j) \in fds => j < Len(job) /\ ~ (j < at /\ Program(j))
             /\ R(j) \in fds => j < Len(job) /\ ~ (j + 1 < at /\ Program(j + 1))
  BY <1>0, Zenon DEF ShellInv, ShellKeeps
<1>8. ShellKeeps'
  <2> SUFFICES ASSUME NEW j \in Commands
               PROVE  /\ W(j) \in fds' => j < Len(job) /\ ~ (j < at' /\ Program(j))
                      /\ R(j) \in fds' => j < Len(job) /\ ~ (j + 1 < at' /\ Program(j + 1))
    BY <1>0, <1>2, Zenon DEF ShellKeeps
  <2>1. fds' \subseteq fds
    BY <1>4, Zenon
  <2>2. ASSUME W(j) \in fds', j < at', Program(j) PROVE FALSE
    <3>1. j = at
      BY <1>0, <1>1, <1>7, <2>1, <2>2 DEF Commands
    <3> QED
      BY <1>4, <2>2, <3>1
  <2>3. ASSUME R(j) \in fds', j + 1 < at', Program(j + 1) PROVE FALSE
    <3>1. j + 1 = at /\ j = at - 1
      BY <1>0, <1>1, <1>7, <2>1, <2>3 DEF Commands
    <3> QED
      BY <1>4, <2>3, <3>1
  <2> QED
    BY <1>7, <2>1, <2>2, <2>3, Zenon
<1>9. ChildrenKeep'
  <2> SUFFICES ASSUME NEW k \in Commands, proc'[k] # "none"
               PROVE  /\ Program(k) /\ k < at'
                      /\ \A j \in Commands : W(j) \in inherited'[k] => ~ (j < k /\ Program(j))
    BY <1>0, <1>2, Zenon DEF ChildrenKeep
  <2>1. CASE k = at /\ Program(at) /\ inherited'[k] = fds
    BY <1>0, <1>1, <1>7, <2>1
  <2>2. CASE proc[k] # "none" /\ inherited'[k] = inherited[k]
    <3>1. k < at
      BY <1>0, <2>2, Zenon DEF ShellInv, ChildrenKeep
    <3>2. k < at'
      BY <1>0, <1>1, <3>1 DEF Commands
    <3> QED
      BY <2>2, <3>2, Zenon DEF ShellInv, ChildrenKeep
  <2> QED
    BY <1>1, <1>4, <2>1, <2>2
<1> QED
  BY <1>5, <1>6, <1>8, <1>9, Zenon DEF ShellInv

LEMMA WaitKeeps ==
  ASSUME ShellInv, AllStarted \/ StartWait \/ WaitReturns \/ JobDone
  PROVE  ShellInv'
<1>0. /\ UNCHANGED <<job, fds, proc, inherited>> /\ pc' \in {"wait", "prompt"}
      /\ pc \in {"fork", "wait"} /\ (pc = "fork" => at > Len(job))
      /\ \/ at' = at \/ at' = 1 \/ at' = at + 1
  BY DEF AllStarted, StartWait, WaitReturns, JobDone, NextWait, Goto, jobVars, childVars
<1>1. Len(job) \in Nat /\ DOMAIN job = 1 .. Len(job) /\ at \in Nat /\ 1 <= at
  BY JobIs, Zenon DEF ShellInv, JobType
<1>2. \A j : Program(j)' <=> Program(j)
  BY <1>0, Zenon DEF Program
<1>3. JobType'
  <2>1. at' \in Nat /\ 1 <= at'
    BY <1>0, <1>1
  <2> QED
    BY <1>0, <2>1 DEF ShellInv, JobType
<1>4. ShellKeeps'
  <2> SUFFICES ASSUME NEW j \in Commands
               PROVE  /\ W(j) \in fds => j < Len(job) /\ ~ Program(j)
                      /\ R(j) \in fds => j < Len(job) /\ ~ Program(j + 1)
    BY <1>0, <1>2 DEF ShellKeeps
  <2>1. CASE pc = "wait"
    BY <2>1, Zenon DEF ShellInv, ShellKeeps
  <2>2. CASE pc = "fork"
    <3>1. j < Len(job) => j < at /\ j + 1 < at
      BY <1>0, <1>1, <2>2 DEF Commands
    <3> QED
      BY <2>2, <3>1, Zenon DEF ShellInv, ShellKeeps
  <2> QED
    BY <1>0, <2>1, <2>2
<1>5. ChildrenKeep'
  BY <1>0, <1>2 DEF ShellInv, ChildrenKeep
<1>6. ForegroundIsAwaited'
  <2>1. CASE StartWait
    BY <2>1, Zenon DEF StartWait, ForegroundIsAwaited, Awaited, jobVars
  <2>2. CASE WaitReturns
    BY <2>2, Zenon DEF WaitReturns, NextWait, ForegroundIsAwaited
  <2>3. CASE AllStarted
    BY <2>3 DEF AllStarted, ShellInv, ForegroundIsAwaited
  <2>4. CASE JobDone
    BY <2>4, Zenon DEF JobDone, ShellInv, ForegroundIsAwaited
  <2> QED
    BY <2>1, <2>2, <2>3, <2>4, Zenon
<1> QED
  BY <1>3, <1>4, <1>5, <1>6, Zenon DEF ShellInv
-----------------------------------------------------------------------------
LEMMA ShellStart ==
  ASSUME MaxCommands \in Nat, ShellInit
  PROVE  ShellInv
<1>1. PICK n \in 1 .. MaxCommands : job \in [1 .. n -> Kinds]
  BY Zenon DEF ShellInit, Jobs
<1>2. job \in Seq(Kinds) /\ Len(job) = n
  BY <1>1
<1>3. JobType
  BY <1>1, <1>2 DEF ShellInit, JobType
<1>4. ShellKeeps
  BY DEF ShellInit, ShellKeeps
<1>5. ChildrenKeep /\ ForegroundIsAwaited
  BY DEF ShellInit, ChildrenKeep, ForegroundIsAwaited
<1> QED
  BY <1>3, <1>4, <1>5, Zenon DEF ShellInv

LEMMA ShellSteps ==
  ASSUME MaxCommands \in Nat, ShellInv, [ShellNext]_shellVars
  PROVE  ShellInv'
<1>1. CASE ShellStep
  BY <1>1, PipeKeeps, ForkKeeps, WaitKeeps, Zenon DEF ShellStep
<1>2. CASE \E k \in Commands : Read(k) \/ ExitCommand(k) \/ \E n \in 1 .. Capacity + 1 : Write(k, n)
  BY <1>2, ChildSteps, Zenon
<1>3. CASE UNCHANGED shellVars
  <2>1. UNCHANGED <<jobVars, executeVars, inherited, proc>>
    BY <1>3, Zenon DEF shellVars, jobVars, executeVars
  <2>2. proc \in [Commands -> {"none", "running", "asleep", "eof", "exited"}]
    BY Zenon DEF ShellInv, JobType
  <2> QED
    BY <2>1, <2>2, ChildKeeps, Zenon
<1> QED
  BY <1>1, <1>2, <1>3, Zenon DEF ShellNext

LEMMA ShellInvGives ==
  ASSUME MaxCommands \in Nat, ShellInv
  PROVE  JobHandedOver
<1>0. Len(job) \in Nat /\ DOMAIN job = 1 .. Len(job) /\ fds \subseteq Ends
  BY JobIs, Zenon DEF ShellInv, JobType
<1>1. ShellLetsGo
  <2> SUFFICES ASSUME pc = "wait", \A k \in DOMAIN job : job[k] = "program"
               PROVE  /\ fds = {}
                      /\ \A k, l \in Commands : Live(l) /\ W(k) \in inherited[l] => l <= k
    BY Zenon DEF ShellLetsGo
  <2>1. \A k \in DOMAIN job : Program(k)
    BY Zenon DEF Program
  <2>2. fds = {}
    <3> SUFFICES ASSUME NEW e \in fds PROVE FALSE
      BY Zenon
    <3>1. PICK j \in Commands : e = R(j) \/ e = W(j)
      BY <1>0 DEF Ends, R, W
    <3>2. j < Len(job) /\ (~ Program(j) \/ ~ Program(j + 1))
      BY <3>1, Zenon DEF ShellInv, ShellKeeps
    <3>3. j \in DOMAIN job /\ j + 1 \in DOMAIN job
      BY <1>0, <3>2 DEF Commands
    <3> QED
      BY <2>1, <3>2, <3>3, Zenon
  <2>3. ASSUME NEW k \in Commands, NEW l \in Commands, Live(l), W(k) \in inherited[l]
        PROVE  l <= k
    <3>1. Program(l) /\ ~ (k < l /\ Program(k))
      BY <2>3, Zenon DEF Live, ShellInv, ChildrenKeep
    <3>2. k < l => k \in DOMAIN job
      BY <1>0, <3>1 DEF Program, Commands
    <3> QED
      BY <2>1, <3>1, <3>2 DEF Commands
  <2> QED
    BY <2>2, <2>3, Zenon
<1>2. NoneFeedsItself
  <2> SUFFICES ASSUME NEW k \in Commands, k > 1, Live(k), job[k - 1] = "program",
                      W(k - 1) \in inherited[k]
               PROVE  FALSE
    BY Zenon DEF NoneFeedsItself, Piped
  <2>1. k - 1 \in Commands /\ k - 1 < k
    BY DEF Commands
  <2>2. Program(k) /\ ~ Program(k - 1)
    BY <2>1, Zenon DEF Live, ShellInv, ChildrenKeep
  <2>3. k - 1 \in DOMAIN job
    BY <1>0, <2>2 DEF Program, Commands
  <2> QED
    BY <2>2, <2>3, Zenon DEF Program
<1>3. PromptHasForeground
  BY DEF PromptHasForeground, ShellInv, ForegroundIsAwaited
<1> QED
  BY <1>1, <1>2, <1>3, Zenon DEF JobHandedOver

\* For jobs of any length, built-in commands in any place and pipes of any
\* size, execute hands the pipes of a job over to its programs and keeps none of
\* a job of programs, no filter can feed itself, and the foreground is the
\* shell's at every prompt.
THEOREM JobsAreHandedOver ==
  ASSUME MaxCommands \in Nat
  PROVE  ShellSpec => []JobHandedOver
<1>1. ShellInit => ShellInv
  BY ShellStart
<1>2. ShellInv /\ [ShellNext]_shellVars => ShellInv'
  BY ShellSteps
<1>3. ShellInv => JobHandedOver
  BY ShellInvGives
<1> QED
  BY <1>1, <1>2, <1>3, PTL DEF ShellSpec
=============================================================================
