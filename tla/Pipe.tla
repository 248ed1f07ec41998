------------------------------- MODULE Pipe -------------------------------
(***************************************************************************)
(* Pipes: the pair of file_table_entry of a pipe with its ring buffer, its *)
(* waiting readers and its open counts (sys/disk/file_system.c), and the   *)
(* descriptors of processes with the system calls on them (sys/idt.c,      *)
(* sys/thread/kthread.c).                                                  *)
(*                                                                         *)
(* The kernel runs with interrupts off, so a call is one action up to its  *)
(* end or to the point where it gives up the processor: sys_read when the  *)
(* pipe is empty, or when its user buffer has to be paged in.  Any process *)
(* that is not on hold may run next; the order is the scheduler's.         *)
(***************************************************************************)
EXTENDS Integers, Sequences, FiniteSets

CONSTANTS
  MaxProcs,        \* bound: process structures ever created
  Pipes,           \* bound: the pipes ever created, numbered in that order
  FdSize,          \* FD_SIZE, without the descriptors of the terminal
  BufferSize,      \* BUFFER_SIZE
  Bytes,           \* values of a byte
  MaxChunk,        \* bound: bytes in one call
  MaxSignals,      \* bound: signals ever sent
  OverreadAtWrap   \* TRUE: programs also ask for more than a pipe holds at the
                   \* moment when its producer cursor is 0

Procs == 0 .. MaxProcs - 1
Fds == 0 .. FdSize - 1
Cells == 0 .. BufferSize - 1
Zero == 0                     \* sf_calloc
None == <<-1, "none">>
In(i) == <<i, "in">>          \* the entry of type 1, written to
Out(i) == <<i, "out">>        \* the entry of type 2, with the ring
Entries == Pipes \X {"in", "out"}

ASSUME PipeAssumption ==
  /\ MaxProcs \in Nat \ {0} /\ Pipes \subseteq Nat /\ FdSize \in Nat
  /\ BufferSize \in Nat \ {0, 1}
  /\ Zero \in Bytes
  /\ MaxChunk \in 1 .. BufferSize /\ MaxSignals \in Nat
  /\ OverreadAtWrap \in BOOLEAN

VARIABLES
  buffer, buffer_p_c, buffer_c_c,   \* the ring of the out entry of a pipe
  first_waiters,   \* the processes of its list of waiters
  open_count,      \* of every entry
  created,         \* the pipes made so far
  open_fd,         \* of every process
  status,          \* unused, live, terminated or cleaned
  on_hold, sig_pending,
  call,            \* where a process is: in user mode, asleep in sys_read, or
                   \* paging in its buffer there, with the pipe and the bytes
                   \* still wanted
  signals,         \* signals sent so far
  last             \* the bytes this step delivered to a reader

ringVars == <<buffer, buffer_p_c, buffer_c_c>>
procVars == <<status, on_hold, sig_pending, call>>
fileVars == <<open_count, created, open_fd>>
vars == <<ringVars, first_waiters, fileVars, procVars, signals, last>>

InUser == [at |-> "user", pipe |-> -1, left |-> 0]
Chunks == UNION {[1 .. n -> Bytes] : n \in 0 .. MaxChunk}

TypeOK ==
  /\ buffer \in [Pipes -> [Cells -> Bytes]]
  /\ buffer_p_c \in [Pipes -> Cells] /\ buffer_c_c \in [Pipes -> Cells]
  /\ first_waiters \in [Pipes -> SUBSET Procs]
  /\ open_count \in [Entries -> Int]
  /\ created \in SUBSET Pipes
  /\ open_fd \in [Procs -> [Fds -> Entries \cup {None}]]
  /\ status \in [Procs -> {"unused", "live", "terminated", "cleaned"}]
  /\ on_hold \in [Procs -> BOOLEAN] /\ sig_pending \in [Procs -> BOOLEAN]
  /\ call \in [Procs -> [at : {"asleep", "fault"}, pipe : Pipes, left : 0 .. MaxChunk]
                          \cup {InUser}]
  /\ signals \in Nat /\ last \in Seq(Bytes)

\* generate_entry_pair leaves both cursors so that the ring is empty.
Init ==
  /\ buffer = [i \in Pipes |-> [b \in Cells |-> Zero]]
  /\ buffer_p_c = [i \in Pipes |-> 1] /\ buffer_c_c = [i \in Pipes |-> 0]
  /\ first_waiters = [i \in Pipes |-> {}]
  /\ open_count = [e \in Entries |-> 0]
  /\ created = {}
  /\ open_fd = [p \in Procs |-> [f \in Fds |-> None]]
  /\ status = [p \in Procs |-> IF p = 0 THEN "live" ELSE "unused"]
  /\ on_hold = [p \in Procs |-> FALSE] /\ sig_pending = [p \in Procs |-> FALSE]
  /\ call = [p \in Procs |-> InUser]
  /\ signals = 0 /\ last = <<>>
-----------------------------------------------------------------------------
(***************************************************************************)
(* The ring.  buffer_c_c is the cell read last, buffer_p_c the cell to be  *)
(* written next.  The loops of file_read and file_write move a cursor cell *)
(* by cell; here is what they do in all.                                   *)
(***************************************************************************)
Wrap(x) == IF x < BufferSize THEN x ELSE x - BufferSize
Lesser(m, n) == IF m <= n THEN m ELSE n

\* The bytes between the cursors, and the room left: the loop of file_write
\* stops when the cursors meet.
Held(i) == Wrap(buffer_p_c[i] - 1 - buffer_c_c[i] + BufferSize)
Room(i) == BufferSize - 1 - Held(i)

\* The loop of file_read stops when buffer_p_c - 1 equals buffer_c_c, which is
\* never the case when buffer_p_c is 0.
SeemsEmptyIfMet(i) == buffer_p_c[i] = buffer_c_c[i]
SeemsEmpty(i) == buffer_p_c[i] - 1 = buffer_c_c[i]
Got(i, n) == IF buffer_p_c[i] = 0 THEN n ELSE Lesser(n, Held(i))
Content(i, n) == [j \in 1 .. n |-> buffer[i][Wrap(buffer_c_c[i] + j)]]

\* The out entry of pipe i delivers n bytes.
TakeWithoutWrap(i, n) ==
  /\ last' = Content(i, n)
  /\ buffer_c_c' = [buffer_c_c EXCEPT ![i] = Lesser(@ + n, BufferSize - 1)]
  /\ UNCHANGED <<buffer, buffer_p_c, signals>>
Take(i, n) ==
  /\ last' = Content(i, n)
  /\ buffer_c_c' = [buffer_c_c EXCEPT ![i] = Wrap(@ + n)]
  /\ UNCHANGED <<buffer, buffer_p_c, signals>>

\* The ring of pipe i receives the first n bytes of s.
Store(i, s, n) ==
  /\ buffer' = [buffer EXCEPT ![i] = [b \in Cells |->
       LET j == Wrap(b - buffer_p_c[i] + BufferSize) + 1
       IN  IF j <= n THEN s[j] ELSE @[b]]]
  /\ buffer_p_c' = [buffer_p_c EXCEPT ![i] = Wrap(@ + n)]
  /\ UNCHANGED <<buffer_c_c, signals>>
  /\ last' = <<>>
-----------------------------------------------------------------------------
(***************************************************************************)
(* sys_read and sys_write.                                                 *)
(***************************************************************************)
Runs(p) == status[p] = "live" /\ ~ on_hold[p]
Calls(p) == Runs(p) /\ call[p] = InUser
Reads(p, f, i) == Calls(p) /\ open_fd[p][f] = Out(i)

\* handle_sig_pending takes a pending signal unless the process has no handler
\* or is in it.
Returns(p) ==
  /\ call' = [call EXCEPT ![p] = InUser]
  /\ \E s \in {sig_pending[p], FALSE} : sig_pending' = [sig_pending EXCEPT ![p] = s]

AtEnd(i) == open_count[In(i)] <= 0 /\ SeemsEmpty(i)

\* What file_read and the loop around it do when n bytes are wanted from i:
\* report the end (0), sleep, or deliver.
ReadEnds(p, i) ==
  /\ AtEnd(i)
  /\ Returns(p)
  /\ UNCHANGED <<ringVars, first_waiters, fileVars, status, on_hold, signals>>
  /\ last' = <<>>

EnlistedIfFirst(p, i) ==
  [first_waiters EXCEPT ![i] = IF @ = {} THEN {p} ELSE @]
Enlisted(p, i) == [first_waiters EXCEPT ![i] = @ \cup {p}]

ReadSleeps(p, i, n) ==
  /\ ~ AtEnd(i) /\ Got(i, n) = 0
  /\ first_waiters' = Enlisted(p, i)
  /\ on_hold' = [on_hold EXCEPT ![p] = TRUE]
  /\ call' = [call EXCEPT ![p] = [at |-> "asleep", pipe |-> i, left |-> n]]
  /\ UNCHANGED <<ringVars, fileVars, status, sig_pending, signals>>
  /\ last' = <<>>

\* The programs of the instance ask for no more than is there when the
\* producer cursor is 0, unless OverreadAtWrap.
ReadDelivers(p, i, n) ==
  /\ ~ AtEnd(i) /\ Got(i, n) > 0
  /\ Got(i, n) <= Held(i) \/ OverreadAtWrap
  /\ Take(i, Got(i, n))
  /\ Returns(p)
  /\ UNCHANGED <<first_waiters, fileVars, status, on_hold>>

\* The store of the k-th byte faults: the fault handler maps the page and gives
\* up the processor in the middle of the loop.
ReadFaults(p, i, n, k) ==
  /\ ~ AtEnd(i) /\ ~ sig_pending[p] /\ k \in 1 .. Lesser(Got(i, n), Held(i))
  /\ Take(i, k)
  /\ call' = [call EXCEPT ![p] = [at |-> "fault", pipe |-> i, left |-> n - k]]
  /\ UNCHANGED <<first_waiters, fileVars, status, on_hold, sig_pending>>

ReadLoop(p, i, n) ==
  \/ ReadEnds(p, i) \/ ReadSleeps(p, i, n) \/ ReadDelivers(p, i, n)
  \/ \E k \in 1 .. MaxChunk : ReadFaults(p, i, n, k)

SysRead(p, f, i, n) == Reads(p, f, i) /\ ReadLoop(p, i, n)

\* Awake again: a pending signal ends the call, otherwise file_read is tried
\* once more.  The waiter stays in the list when it was a signal that woke p.
ReadInterrupted(p) ==
  /\ Runs(p) /\ call[p].at = "asleep" /\ sig_pending[p]
  /\ Returns(p)
  /\ UNCHANGED <<ringVars, first_waiters, fileVars, status, on_hold, signals>>
  /\ last' = <<>>

ReadAgain(p) ==
  /\ Runs(p) /\ call[p].at = "asleep" /\ ~ sig_pending[p]
  /\ ReadLoop(p, call[p].pipe, call[p].left)

\* Back from the page fault, inside the loop of file_read.
ReadGoesOn(p) ==
  LET i == call[p].pipe
      n == Got(i, call[p].left)
  IN
  /\ Runs(p) /\ call[p].at = "fault"
  /\ n <= Held(i) \/ OverreadAtWrap
  /\ Take(i, n)
  /\ Returns(p)
  /\ UNCHANGED <<first_waiters, fileVars, status, on_hold>>

WakesNobody(i) == UNCHANGED <<first_waiters, on_hold>>
Wakes(i) ==
  /\ on_hold' = [p \in Procs |-> on_hold[p] /\ p \notin first_waiters[i]]
  /\ first_waiters' = [first_waiters EXCEPT ![i] = {}]

\* file_write returns early, without waking readers, when the ring is full.
\* What a stale waiter's process structure was reused for is not modelled.
SysWrite(p, f, i, s) ==
  LET n == Lesser(Len(s), Room(i)) IN
  /\ Calls(p) /\ open_fd[p][f] = In(i)
  /\ Store(i, s, n)
  /\ IF n < Len(s) THEN UNCHANGED <<first_waiters, on_hold>> ELSE Wakes(i)
  /\ Returns(p)
  /\ UNCHANGED <<fileVars, status>>
-----------------------------------------------------------------------------
(***************************************************************************)
(* Descriptors.                                                            *)
(***************************************************************************)
\* The number of descriptors of p for entry e, and the counts after file_close
\* of each.
Refs(p, e) == Cardinality({f \in Fds : open_fd[p][f] = e})
Closed(e) == [open_count EXCEPT ![e] = @ - 1]

\* sys_pipe: the lowest free descriptor is for reading, the next for writing.
SysPipe(p, i) ==
  LET free == {f \in Fds : open_fd[p][f] = None}
      outfd == CHOOSE f \in free : \A g \in free : f <= g
      infd == CHOOSE f \in free \ {outfd} : \A g \in free \ {outfd} : f <= g
  IN
  /\ Calls(p) /\ i \in Pipes \ created /\ \A j \in Pipes \ created : i <= j
  /\ Cardinality(free) >= 2
  /\ created' = created \cup {i}
  /\ open_count' = [open_count EXCEPT ![In(i)] = 1, ![Out(i)] = 1]
  /\ open_fd' = [open_fd EXCEPT ![p][outfd] = Out(i), ![p][infd] = In(i)]
  /\ Returns(p)
  /\ UNCHANGED <<ringVars, first_waiters, status, on_hold, signals>>
  /\ last' = <<>>

SysClose(p, f) ==
  /\ Calls(p) /\ open_fd[p][f] # None
  /\ open_count' = Closed(open_fd[p][f])
  /\ open_fd' = [open_fd EXCEPT ![p][f] = None]
  /\ Returns(p)
  /\ UNCHANGED <<ringVars, first_waiters, created, status, on_hold, signals>>
  /\ last' = <<>>

\* sys_dup closes newfd first, so that oldfd is gone when they are the same.
SysDup(p, old, new) ==
  LET oc == IF open_fd[p][new] = None THEN open_count ELSE Closed(open_fd[p][new])
  IN
  /\ Calls(p)
  /\ IF open_fd[p][old] = None \/ old = new
     THEN /\ open_fd' = [open_fd EXCEPT ![p][new] = None]
          /\ open_count' = oc
     ELSE /\ open_fd' = [open_fd EXCEPT ![p][new] = open_fd[p][old]]
          /\ open_count' = [oc EXCEPT ![open_fd[p][old]] = @ + 1]
  /\ Returns(p)
  /\ UNCHANGED <<ringVars, first_waiters, created, status, on_hold, signals>>
  /\ last' = <<>>

ForkSharing(p, c) == open_count' = open_count
ForkCounts(p, c) == open_count' = [e \in Entries |-> open_count[e] + Refs(p, e)]

\* fork_process duplicates the descriptors.
Fork(p, c) ==
  /\ Calls(p)
  /\ status[c] = "unused" /\ \A d \in Procs : status[d] = "unused" => c <= d
  /\ ForkCounts(p, c)
  /\ open_fd' = [open_fd EXCEPT ![c] = open_fd[p]]
  /\ status' = [status EXCEPT ![c] = "live"]
  /\ Returns(p)
  /\ UNCHANGED <<ringVars, first_waiters, created, on_hold, signals>>
  /\ last' = <<>>

Exit(p) ==
  /\ Calls(p)
  /\ status' = [status EXCEPT ![p] = "terminated"]
  /\ on_hold' = [on_hold EXCEPT ![p] = TRUE]
  /\ UNCHANGED <<ringVars, first_waiters, fileVars, sig_pending, call, signals>>
  /\ last' = <<>>

\* process_cleanup closes what is open; nobody who waits for input is woken.
Cleanup(p) ==
  /\ status[p] = "terminated"
  /\ open_count' = [e \in Entries |-> open_count[e] - Refs(p, e)]
  /\ open_fd' = [open_fd EXCEPT ![p] = [f \in Fds |-> None]]
  /\ status' = [status EXCEPT ![p] = "cleaned"]
  /\ UNCHANGED <<ringVars, first_waiters, created, on_hold, sig_pending, call, signals>>
  /\ last' = <<>>

\* process_add_signal, from the keyboard.
Signal(p) ==
  /\ status[p] = "live" /\ signals < MaxSignals
  /\ signals' = signals + 1
  /\ sig_pending' = [sig_pending EXCEPT ![p] = TRUE]
  /\ on_hold' = [on_hold EXCEPT ![p] = FALSE]
  /\ UNCHANGED <<ringVars, first_waiters, fileVars, status, call>>
  /\ last' = <<>>

Next ==
  \E p \in Procs :
    \/ \E f \in Fds, i \in Pipes :
         \/ \E n \in 1 .. MaxChunk : SysRead(p, f, i, n)
         \/ \E s \in Chunks : SysWrite(p, f, i, s)
    \/ ReadInterrupted(p) \/ ReadAgain(p) \/ ReadGoesOn(p)
    \/ \E i \in Pipes : SysPipe(p, i)
    \/ \E f \in Fds : SysClose(p, f) \/ \E g \in Fds : SysDup(p, f, g)
    \/ \E c \in Procs : Fork(p, c)
    \/ Exit(p) \/ Cleanup(p) \/ Signal(p)

Spec == Init /\ [][Next]_vars
-----------------------------------------------------------------------------
(***************************************************************************)
(* Properties.                                                             *)
(***************************************************************************)
\* open_count is the number of descriptors for an entry, over all processes
\* that process_cleanup has not passed: pipe, dup, fork, close and the end of
\* a process keep it exact, so the end of file is reported exactly when no
\* writer is left.
OpenCountExact ==
  \A e \in Entries :
    open_count[e] = Cardinality({pf \in Procs \X Fds : open_fd[pf[1]][pf[2]] = e})

\* A process asleep in sys_read is in the list of the pipe it waits for:
\* whatever wakes or interrupts it, it registers again before it sleeps again.
AsleepIsListed ==
  \A p \in Procs : call[p].at = "asleep" /\ on_hold[p] /\ status[p] = "live" =>
    p \in first_waiters[call[p].pipe]

\* A write wakes every reader of its pipe unless it fills the ring.
PutWakesReaders ==
  [][\A i \in Pipes : Held(i)' > Held(i) /\ Room(i)' > 0 =>
       ~ \E p \in Procs : call[p].at = "asleep" /\ call[p].pipe = i /\ on_hold'[p]]_vars

\* The end of file is reported only for an empty pipe without writers.
EndIsEnd ==
  \A i \in created : AtEnd(i) =>
    Held(i) = 0 /\ ~ \E p \in Procs, f \in Fds : open_fd[p][f] = In(i)

\* The ring with its cursors implements a first-in first-out queue of
\* BufferSize - 1 bytes: what reads deliver, in one piece or interrupted by a
\* page fault, are the bytes written, once and in order.
Queue == [i \in Pipes |-> Content(i, Held(i))]
Fifos == INSTANCE Fifo WITH queue <- Queue, Capacity <- BufferSize - 1
InOrder == Fifos!Spec
=============================================================================
