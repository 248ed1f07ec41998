----------------------------- MODULE Processes -----------------------------
(***************************************************************************)
(* The life of processes: the process list and the scheduler               *)
(* (sys/thread/kthread.c), fork, exit, wait, pause, alarm and signals      *)
(* (sys/idt.c) and the timer list (sys/timer.c).                           *)
(*                                                                         *)
(* There is one processor and the kernel runs with interrupts off.  A step *)
(* of user code that enters the kernel is one action up to the point where *)
(* the kernel returns or executes int $0x81; process_schedule is one       *)
(* action for each turn of its loop; a process that was blocked inside a   *)
(* system call goes on from there in a Resume action.  Only a process in   *)
(* user mode can be interrupted by the timer or the keyboard.              *)
(***************************************************************************)
EXTENDS Integers, Timer

CONSTANTS
  MaxProcs,     \* bound: processes ever created
  WaitKinds,    \* what programs wait for: "child", a child by its pid;
                \* "any", wait() with -1
  Sigs,         \* signals sent by programs and by the keyboard
  Timeouts,     \* ticks given to sys_pause and sys_alarm
  MaxWaiters    \* bound: length of the timer list

Procs == 0 .. MaxProcs - 1
NoProc == -1
AnyChild == -1
Init0 == 0          \* /bin/init, the first process; its id is 0
SIGINT == 2
SIGKILL == 9
SIGSEGV == 11
SIGALRM == 14
IRQ0 == 32          \* values of handler_reg.int_num
PageFault == 14
Syscall == 128

ASSUME ProcessesAssumption ==
  /\ MaxProcs \in Nat \ {0} /\ MaxWaiters \in Nat
  /\ WaitKinds \subseteq {"child", "any"}
  /\ Sigs \subseteq Nat \ {0}
  /\ Timeouts \subseteq Nat

VARIABLES
  list,           \* first_process and the next fields
  freed,          \* process structures given back by sys_wait
  current,        \* current_process
  scan,           \* next in process_schedule; NoProc when it is not running
  on_hold, terminated, cleaned, parent, id_wait_for, id_wait_for_p,
  sig_pending, sig_handler,
  int_num,        \* sig_saved_reg.int_num: 0 when not in a signal handler
  at,             \* where the process is: "user", or inside a system call
  target,         \* the local variable target of sys_wait
  waiters,        \* first_waiter
  halted          \* why the kernel stopped: "no", "assert" or "panic"

procVars == <<terminated, cleaned, parent, id_wait_for, id_wait_for_p, at, target>>
sigVars  == <<sig_pending, sig_handler, int_num>>
vars == <<list, freed, current, scan, on_hold, procVars, sigVars, waiters, halted>>

Created == Range(list) \cup freed

TypeOK ==
  /\ list \in Seq(Procs) /\ freed \in SUBSET Procs
  /\ current \in Procs /\ scan \in Procs \cup {NoProc}
  /\ on_hold \in [Procs -> BOOLEAN]
  /\ terminated \in [Procs -> BOOLEAN]
  /\ cleaned \in [Procs -> BOOLEAN]
  /\ parent \in [Procs -> Procs \cup {NoProc}]
  /\ id_wait_for \in [Procs -> Procs \cup {AnyChild}]
  /\ id_wait_for_p \in [Procs -> Procs \cup {NoProc}]
  /\ sig_pending \in [Procs -> Sigs \cup {0, SIGSEGV, SIGALRM}]
  /\ sig_handler \in [Procs -> BOOLEAN]
  /\ int_num \in [Procs -> {0, IRQ0, PageFault, Syscall}]
  /\ at \in [Procs -> {"user", "wait", "pause"}]
  /\ target \in [Procs -> Procs \cup {NoProc}]
  /\ waiters \in Seq([proc : Procs, ticks : Nat, is_alarm : BOOLEAN])
  /\ halted \in {"no", "assert", "panic"}

Init ==
  /\ list = <<Init0>> /\ freed = {}
  /\ current = Init0 /\ scan = NoProc
  /\ on_hold = [p \in Procs |-> FALSE]
  /\ terminated = [p \in Procs |-> FALSE]
  /\ cleaned = [p \in Procs |-> FALSE]
  /\ parent = [p \in Procs |-> NoProc]
  /\ id_wait_for = [p \in Procs |-> 0]
  /\ id_wait_for_p = [p \in Procs |-> NoProc]
  /\ sig_pending = [p \in Procs |-> 0]
  /\ sig_handler = [p \in Procs |-> FALSE]
  /\ int_num = [p \in Procs |-> 0]
  /\ at = [p \in Procs |-> "user"]
  /\ target = [p \in Procs |-> NoProc]
  /\ waiters = <<>>
  /\ halted = "no"
-----------------------------------------------------------------------------
(***************************************************************************)
(* The scheduler.  Here and below, a faulty variant that precedes a        *)
(* definition carries the mistake in its name.                             *)
(***************************************************************************)
Position(l, p) == CHOOSE i \in DOMAIN l : l[i] = p

\* The process after p in the ring that a list forms.
Successor(l, p) ==
  IF Position(l, p) = Len(l) THEN Head(l) ELSE l[Position(l, p) + 1]

\* process_schedule starts with the successor of the current process.
SwitchFromHead == scan' = Head(list)
Switch == scan' = Successor(list, current)
Stay   == scan' = NoProc

RunnableUnlessHeld(p) == ~ on_hold[p]
Runnable(p) == ~ (on_hold[p] \/ terminated[p])

\* The test process_cleanup makes before it wakes the parent of q.
WakesAnyParent(q) == TRUE
WakesOnlyAny(q) == id_wait_for[parent[q]] = AnyChild
ParentWaits(q) == id_wait_for[parent[q]] \in {q, AnyChild}

CleanupUnmarked(q) == UNCHANGED <<on_hold, cleaned, id_wait_for_p>>

\* process_cleanup.  The memory and the files it gives back are not modelled
\* here.  A parent that was itself reaped is a freed structure: the writes
\* then change no process.
Cleanup(q) ==
  /\ cleaned' = [cleaned EXCEPT ![q] = TRUE]
  /\ IF parent[q] # NoProc /\ parent[q] \notin freed /\ ParentWaits(q)
     THEN /\ on_hold' = [on_hold EXCEPT ![parent[q]] = FALSE]
          /\ id_wait_for_p' = [id_wait_for_p EXCEPT ![parent[q]] = q]
     ELSE UNCHANGED <<on_hold, id_wait_for_p>>

\* One turn of the loop of process_schedule, and the switch after the last.
Scan ==
  /\ scan # NoProc /\ halted = "no"
  /\ IF scan = current \/ Runnable(scan)
     THEN /\ IF on_hold[scan] THEN halted' = "panic" /\ UNCHANGED current
             ELSE current' = scan /\ UNCHANGED halted
          /\ Stay
          /\ UNCHANGED <<on_hold, cleaned, id_wait_for_p>>
     ELSE /\ scan' = Successor(list, scan)
          /\ IF terminated[scan] /\ ~ cleaned[scan] THEN Cleanup(scan)
             ELSE UNCHANGED <<on_hold, cleaned, id_wait_for_p>>
          /\ UNCHANGED <<current, halted>>
  /\ UNCHANGED <<list, freed, terminated, parent, id_wait_for, at, target,
                 sigVars, waiters>>
-----------------------------------------------------------------------------
(***************************************************************************)
(* Signals.                                                                *)
(***************************************************************************)
HandleSigNever(p, n, hold, term, pending, handler, saved) ==
  /\ sig_handler' = handler /\ on_hold' = hold /\ terminated' = term
  /\ sig_pending' = pending /\ int_num' = saved

\* handle_sig_pending at the end of a system call or interrupt that came with
\* number n and left the fields of p as given.  SIGKILL stays pending.
HandleSig(p, n, hold, term, pending, handler, saved) ==
  /\ sig_handler' = handler
  /\ IF pending[p] # 0 /\ saved[p] = 0 /\ handler[p]
     THEN IF pending[p] = SIGKILL
          THEN /\ on_hold' = [hold EXCEPT ![p] = TRUE]
               /\ terminated' = [term EXCEPT ![p] = TRUE]
               /\ sig_pending' = pending /\ int_num' = saved
          ELSE /\ int_num' = [saved EXCEPT ![p] = n]
               /\ sig_pending' = [pending EXCEPT ![p] = 0]
               /\ on_hold' = hold /\ terminated' = term
     ELSE /\ on_hold' = hold /\ terminated' = term
          /\ sig_pending' = pending /\ int_num' = saved

\* A system call that leaves all of these fields alone.
ReturnFromSyscall(p) ==
  HandleSig(p, Syscall, on_hold, terminated, sig_pending, sig_handler, int_num)

\* The user code of p runs.  /bin/init forks once and then loops for ever.
Runs(p) == halted = "no" /\ scan = NoProc /\ current = p /\ at[p] = "user"
Calls(p) == Runs(p) /\ p # Init0

\* sys_signal.  The model sends no signal to /bin/init.
Kill(p, q, sig) ==
  /\ Calls(p) /\ q \in Range(list) \ {Init0}
  /\ HandleSig(p, Syscall, on_hold, terminated, [sig_pending EXCEPT ![q] = sig],
               sig_handler, int_num)
  /\ Stay
  /\ UNCHANGED <<list, freed, current, cleaned, parent, id_wait_for,
                 id_wait_for_p, at, target, waiters, halted>>

\* Ctrl-C at the keyboard: process_add_signal for foreground_pid, which
\* sys_ioctl sets to any pid.
CtrlC(q) ==
  /\ Runs(current) /\ SIGINT \in Sigs
  /\ q \in Range(list) \ {Init0}
  /\ sig_pending' = [sig_pending EXCEPT ![q] = SIGINT]
  /\ on_hold' = [on_hold EXCEPT ![q] = FALSE]
  /\ UNCHANGED <<list, freed, current, scan, procVars, sig_handler, int_num,
                 waiters, halted>>

\* sys_set_signal_handler, which the start-up code of every program calls.
SetHandler(p) ==
  /\ Runs(p)
  /\ HandleSig(p, Syscall, on_hold, terminated, sig_pending,
               [sig_handler EXCEPT ![p] = TRUE], int_num)
  /\ Stay
  /\ UNCHANGED <<list, freed, current, cleaned, parent, id_wait_for,
                 id_wait_for_p, at, target, waiters, halted>>

\* sys_sig_return puts the saved registers back, int_num with them.
SigReturn(p) ==
  /\ Runs(p) /\ int_num[p] # 0
  /\ HandleSig(p, int_num[p], on_hold, terminated, sig_pending, sig_handler,
               [int_num EXCEPT ![p] = 0])
  /\ Stay
  /\ UNCHANGED <<list, freed, current, cleaned, parent, id_wait_for,
                 id_wait_for_p, at, target, waiters, halted>>
\* Every other system call: it changes no field of this module, whether it
\* succeeds or not (sys_getpid, sys_ioctl, sys_sig_return outside a handler,
\* sys_signal for an unknown pid...); call 248 yields the processor.
OtherCall(p) ==
  /\ Runs(p)
  /\ ReturnFromSyscall(p)
  /\ Stay \/ Switch
  /\ UNCHANGED <<list, freed, current, cleaned, parent, id_wait_for,
                 id_wait_for_p, at, target, waiters, halted>>
-----------------------------------------------------------------------------
(***************************************************************************)
(* Creating and ending processes.                                          *)
(***************************************************************************)
ForkNumberedTwice(p, c) ==
  /\ Runs(p) /\ (p = Init0 => Created = {Init0})
  /\ c \notin Created /\ \A d \in Procs \ Created : c <= d
  /\ list' = Append(list, Max(Created) + 2)
  /\ parent' = [parent EXCEPT ![Max(Created) + 2] = p]
  /\ ReturnFromSyscall(p)
  /\ scan' = Successor(Append(list, c), p)
  /\ UNCHANGED <<freed, current, cleaned, id_wait_for, id_wait_for_p, at, target,
                 waiters, halted>>

\* sys_fork.  The child has no signal handler before it calls exec; it is in the
\* list when the scheduler runs.
Fork(p, c) ==
  /\ Runs(p) /\ (p = Init0 => Created = {Init0})
  /\ c \notin Created /\ \A d \in Procs \ Created : c <= d
  /\ list' = Append(list, c)
  /\ parent' = [parent EXCEPT ![c] = p]
  /\ ReturnFromSyscall(p)
  /\ scan' = Successor(Append(list, c), p)
  /\ UNCHANGED <<freed, current, cleaned, id_wait_for, id_wait_for_p, at, target,
                 waiters, halted>>

Ended(f, p) == [f EXCEPT ![p] = TRUE]
ExitCleansUp(p) ==
  /\ Calls(p)
  /\ HandleSig(p, Syscall, Ended(on_hold, p), Ended(terminated, p), sig_pending,
               sig_handler, int_num)
  /\ cleaned' = Ended(cleaned, p)
  /\ Switch
  /\ UNCHANGED <<list, freed, current, parent, id_wait_for, id_wait_for_p, at,
                 target, waiters, halted>>

\* sys_exit; a general protection fault or a division by zero does the same
\* without handle_sig_pending.
Exit(p) ==
  /\ Calls(p)
  /\ HandleSig(p, Syscall, Ended(on_hold, p), Ended(terminated, p), sig_pending,
               sig_handler, int_num)
  /\ Switch
  /\ UNCHANGED <<list, freed, current, cleaned, parent, id_wait_for,
                 id_wait_for_p, at, target, waiters, halted>>

Crash(p) ==
  /\ Calls(p)
  /\ on_hold' = Ended(on_hold, p) /\ terminated' = Ended(terminated, p)
  /\ Switch
  /\ UNCHANGED <<list, freed, current, cleaned, parent, id_wait_for,
                 id_wait_for_p, at, target, sigVars, waiters, halted>>

\* A page fault that cannot be resolved.
Segv(p) ==
  /\ Calls(p)
  /\ IF sig_handler[p]
     THEN HandleSig(p, PageFault, [on_hold EXCEPT ![p] = FALSE], terminated,
                    [sig_pending EXCEPT ![p] = SIGSEGV], sig_handler, int_num)
     ELSE HandleSig(p, PageFault, Ended(on_hold, p), Ended(terminated, p),
                    sig_pending, sig_handler, int_num)
  /\ Switch
  /\ UNCHANGED <<list, freed, current, cleaned, parent, id_wait_for,
                 id_wait_for_p, at, target, waiters, halted>>
-----------------------------------------------------------------------------
(***************************************************************************)
(* sys_wait.                                                               *)
(***************************************************************************)
WithoutRest(t) == SubSeq(list, 1, Position(list, t) - 1)
\* The list without its k-th process.
Removed(l, k) == SubSeq(l, 1, k - 1) \o SubSeq(l, k + 1, Len(l))
Without(t) == Removed(list, Position(list, t))

\* What sys_wait(pid) looks for in the list: the first process that matches.
Matches(p, pid) ==
  {i \in DOMAIN list : list[i] = pid \/ (pid = AnyChild /\ parent[list[i]] = p)}
WaitArgs(p) ==
  (IF "any" \in WaitKinds THEN {AnyChild} ELSE {})
    \cup (IF "child" \in WaitKinds THEN {q \in Range(list) : parent[q] = p} ELSE {})

\* The waiting loop puts the caller on hold and gives up the processor.
BlockInWait(p, pid, t) ==
  /\ id_wait_for' = [id_wait_for EXCEPT ![p] = pid]
  /\ on_hold' = [on_hold EXCEPT ![p] = TRUE]
  /\ id_wait_for_p' = [id_wait_for_p EXCEPT ![p] = NoProc]
  /\ at' = [at EXCEPT ![p] = "wait"]
  /\ target' = [target EXCEPT ![p] = t]
  /\ Switch
  /\ UNCHANGED <<list, freed, current, terminated, cleaned, parent, sigVars,
                 waiters, halted>>

\* No process matches: -EINVAL.
WaitFails(p) ==
  /\ Calls(p)
  /\ \E pid \in WaitArgs(p) : Matches(p, pid) = {}
  /\ ReturnFromSyscall(p)
  /\ Stay
  /\ UNCHANGED <<list, freed, current, cleaned, parent, id_wait_for,
                 id_wait_for_p, at, target, waiters, halted>>

\* The target has ended: it leaves the list and its structure is freed, also
\* when the scheduler has not cleaned it.  A target at the head of the list
\* empties the list.
WaitReaps(p, pid) ==
  /\ Calls(p) /\ Matches(p, pid) # {}
  /\ LET t == list[Min(Matches(p, pid))] IN
       /\ terminated[t]
       /\ list' = IF t = Head(list) THEN <<>> ELSE Without(t)
       /\ freed' = freed \cup {t}
  /\ ReturnFromSyscall(p)
  /\ Stay
  /\ UNCHANGED <<current, cleaned, parent, id_wait_for, id_wait_for_p, at, target,
                 waiters, halted>>

WaitBlocks(p, pid) ==
  /\ Calls(p) /\ Matches(p, pid) # {}
  /\ LET t == list[Min(Matches(p, pid))] IN
       ~ terminated[t] /\ BlockInWait(p, pid, t)

\* Back from the scheduler in the waiting loop.
Resumes(p, where) ==
  /\ halted = "no" /\ scan = NoProc /\ current = p /\ at[p] = where

ResumeWaitBlocks(p) ==
  /\ Resumes(p, "wait") /\ id_wait_for_p[p] = NoProc
  /\ BlockInWait(p, id_wait_for[p], target[p])

ResumeWaitReapsAndLoops(p) ==
  /\ Resumes(p, "wait") /\ id_wait_for_p[p] = target[p]
  /\ list' = IF target[p] = Head(list) THEN list ELSE Without(target[p])
  /\ freed' = freed \cup {target[p]}
  /\ on_hold' = [on_hold EXCEPT ![p] = TRUE]
  /\ id_wait_for_p' = [id_wait_for_p EXCEPT ![p] = NoProc]
  /\ Switch
  /\ UNCHANGED <<current, terminated, cleaned, parent, id_wait_for, at, target,
                 sigVars, waiters, halted>>

\* assert(current_process->id_wait_for_p == target, "wait pid mismatch\n") and,
\* when it holds, the end of the call.  A target at the head would stay in the
\* list here.
ResumeWaitReaps(p) ==
  /\ Resumes(p, "wait") /\ id_wait_for_p[p] # NoProc
  /\ IF id_wait_for_p[p] # target[p]
     THEN /\ halted' = "assert"
          /\ UNCHANGED <<list, freed, scan, on_hold, terminated, at, target, sigVars>>
     ELSE /\ list' = IF target[p] = Head(list) THEN list ELSE Without(target[p])
          /\ freed' = freed \cup {target[p]}
          /\ at' = [at EXCEPT ![p] = "user"]
          /\ target' = [target EXCEPT ![p] = NoProc]
          /\ ReturnFromSyscall(p)
          /\ Stay
          /\ UNCHANGED halted
  /\ UNCHANGED <<current, cleaned, parent, id_wait_for, id_wait_for_p, waiters>>
-----------------------------------------------------------------------------
(***************************************************************************)
(* Time.                                                                   *)
(***************************************************************************)
\* sys_pause: register_to_be_waken, then off the processor.
Pause(p, t) ==
  /\ Calls(p) /\ Len(waiters) < MaxWaiters
  /\ waiters' = Registered(waiters, Waiter(p, t, FALSE))
  /\ on_hold' = [on_hold EXCEPT ![p] = TRUE]
  /\ at' = [at EXCEPT ![p] = "pause"]
  /\ Switch
  /\ UNCHANGED <<list, freed, current, terminated, cleaned, parent, id_wait_for,
                 id_wait_for_p, target, sigVars, halted>>

ResumePause(p) ==
  /\ Resumes(p, "pause")
  /\ at' = [at EXCEPT ![p] = "user"]
  /\ ReturnFromSyscall(p)
  /\ Stay
  /\ UNCHANGED <<list, freed, current, cleaned, parent, id_wait_for,
                 id_wait_for_p, target, waiters, halted>>

\* sys_alarm.
Alarm(p, t) ==
  /\ Calls(p) /\ Len(waiters) < MaxWaiters
  /\ waiters' = Registered(waiters, Waiter(p, t, TRUE))
  /\ ReturnFromSyscall(p)
  /\ Stay
  /\ UNCHANGED <<list, freed, current, cleaned, parent, id_wait_for,
                 id_wait_for_p, at, target, halted>>

\* IRQ0: tick_timer_update, then handle_sig_pending for the process that was
\* interrupted, then a switch.
Tick ==
  /\ Runs(current)
  /\ waiters' = Remaining(waiters)
  /\ LET woken == {w.proc : w \in Woken(waiters)}
         alarmed == {w.proc : w \in {w \in Woken(waiters) : w.is_alarm}}
     IN HandleSig(current, IRQ0,
                  [p \in Procs |-> on_hold[p] /\ p \notin woken], terminated,
                  [p \in Procs |-> IF p \in alarmed THEN SIGALRM ELSE sig_pending[p]],
                  sig_handler, int_num)
  /\ Switch
  /\ UNCHANGED <<list, freed, current, cleaned, parent, id_wait_for,
                 id_wait_for_p, at, target, halted>>
-----------------------------------------------------------------------------
Resume(p) ==
  ResumeWaitBlocks(p) \/ ResumeWaitReaps(p) \/ ResumePause(p)

\* One process enters the kernel by a system call or a fault.
UserStep(p) ==
  \/ \E c \in Procs : Fork(p, c)
  \/ Exit(p) \/ Crash(p) \/ Segv(p)
  \/ WaitFails(p)
  \/ \E pid \in WaitArgs(p) : WaitReaps(p, pid) \/ WaitBlocks(p, pid)
  \/ \E t \in Timeouts : Pause(p, t) \/ Alarm(p, t)
  \/ \E q \in Procs, sig \in Sigs : Kill(p, q, sig)
  \/ SetHandler(p) \/ SigReturn(p) \/ OtherCall(p)

Next ==
  \/ Scan
  \/ \E p \in Procs : Resume(p) \/ UserStep(p)
  \/ Tick
  \/ \E q \in Procs : CtrlC(q)

\* The kernel runs to its end with interrupts off.  The timer interrupt is
\* held by the interrupt controller until interrupts are on, so it comes
\* whenever user code runs again and again, however short each time.
Fairness ==
  /\ WF_vars(Scan \/ \E p \in Procs : Resume(p))
  /\ SF_vars(Tick)

Spec == Init /\ [][Next]_vars /\ Fairness
-----------------------------------------------------------------------------
(***************************************************************************)
(* Properties.                                                             *)
(***************************************************************************)
\* The list holds every process that was created and not reaped, once, with
\* /bin/init at its head: what sys_wait unlinks is only its target.
ListIntact ==
  /\ IsInjective(list)
  /\ Head(list) = Init0
  /\ Range(list) = {p \in Procs : p = Init0 \/ parent[p] # NoProc} \ freed

\* The scheduler never reclaims the page table and the kernel stack that the
\* processor is using, and never runs a process that was reaped.
CurrentKeepsItsStack == ~ cleaned[current] /\ current \notin freed

\* No assertion fails and process_schedule always finds a process to run.
KernelKeepsRunning == halted = "no"

\* A process blocked in sys_wait is told of the end of its target: when
\* process_cleanup has passed the target, the waiter is runnable and knows.
NoLostWakeup ==
  \A p \in Procs \ freed : at[p] = "wait" /\ cleaned[target[p]] =>
    id_wait_for_p[p] = target[p] /\ (terminated[p] \/ ~ on_hold[p])

\* Nobody frees the process structure that a waiter will read and free when it
\* is back from the scheduler.
TargetStaysAllocated ==
  \A p \in Procs : at[p] = "wait" => target[p] \notin freed

\* A process that has ended and lost the processor never gets it back, though
\* signals and timers go on clearing its on_hold.
EndedStaysDown == [][current' # current => ~ terminated'[current']]_vars

\* Round robin: a process that can run gets the processor.
RunnableRuns ==
  \A p \in Procs : (p \in Range(list) /\ Runnable(p)) ~>
                     (current = p \/ ~ Runnable(p))

\* A process that has ended is cleaned or reaped.
EndedLeaves == \A p \in Procs : terminated[p] ~> (cleaned[p] \/ p \in freed)

\* sys_wait for a child returns once the child has ended.
WaitReturns ==
  \A p \in Procs : (at[p] = "wait" /\ terminated[target[p]]) ~>
                     (at[p] = "user" \/ terminated[p])

\* A signal for a process with a handler that runs user code reaches it.
SignalDelivered ==
  \A p \in Procs : (sig_pending[p] # 0 /\ sig_handler[p] /\ int_num[p] = 0) ~>
                     (int_num[p] # 0 \/ terminated[p] \/ at[p] # "user")

\* sys_pause does not return while the waiter of the caller is in the timer
\* list: no child, no signal of a program and no timer of somebody else ends the
\* sleep.  Who has waited for any child is left out: its id_wait_for stays -1, and
\* the end of every later child wakes it.
SleepsUntilDue ==
  \A p \in Procs : at[p] = "pause" /\ ~ on_hold[p] /\ id_wait_for[p] # AnyChild =>
    ~ \E i \in DOMAIN waiters : waiters[i].proc = p /\ ~ waiters[i].is_alarm

\* A process asleep in sys_pause has a waiter in the timer list that will wake
\* it.
SleeperHasWaiter ==
  \A p \in Procs : at[p] = "pause" /\ on_hold[p] /\ ~ terminated[p] =>
    \E i \in DOMAIN waiters : waiters[i].proc = p
=============================================================================
