------------------------------- MODULE Disk -------------------------------
(***************************************************************************)
(* The disk driver: requests of processes for a block (read_disk_block and *)
(* write_disk_block of sys/disk/file_system.c), the list of disk tasks and *)
(* its polling by the timer tick (sys/disk/disk_driver.c), and the command *)
(* slots of an AHCI port (sys/ahci.c) with the controller behind them.     *)
(*                                                                         *)
(* A request runs with interrupts off until the process sleeps in it.  The *)
(* controller works on its own.  The fields xfer and taken of a call, proc *)
(* of a command, and early record what happened for the properties; the    *)
(* code has none of them.                                                  *)
(***************************************************************************)
EXTENDS Naturals, Sequences, FiniteSets

CONSTANTS
  Procs,
  NSlots,       \* command slots of the port; 32 in the code
  NPages,       \* bound: physical pages that find_free_page_entry chooses from
  Blocks,
  Data,         \* contents of a block or page
  Nothing,      \* no content
  MaxFaults     \* bound: requests that the port refuses, commands that fail, and
                \* signals to processes that wait for the disk, together

Slots == 0 .. NSlots - 1
Pages == 0 .. NPages - 1
NoSlot == NSlots

ASSUME DiskAssumption ==
  /\ NSlots \in Nat \ {0} /\ NPages \in Nat \ {0} /\ NPages >= Cardinality(Procs)
  /\ Nothing \notin Data /\ MaxFaults \in Nat

VARIABLES
  tasks,        \* the list behind dummy_task
  cursor,       \* the task that check_disk_task looks at, 0 between two ticks
  ci,           \* the slots issued and not finished, of the port
  cmd,          \* the command in each slot; what a finished one has left in the
                \* table is not read again
  tfes,         \* the port's task file error bit
  dead,         \* the slots whose command failed
  disk,         \* the content of every block
  page, used,   \* content of every page, and whether used_by is set
  on_hold,
  call,         \* of every process: what it does, and its page and block
  early,        \* a process was woken before its request was complete
  faults        \* faults so far

port == <<ci, cmd, tfes, dead>>
memory == <<page, used>>
vars == <<tasks, cursor, port, disk, memory, on_hold, call, early, faults>>

Commands == [blk : Blocks, write : BOOLEAN, page : Pages, proc : Procs]
Tasks == [proc : Procs, cmd : Commands, issued : BOOLEAN, slot : Slots \cup {NoSlot}]
InUser == [at |-> "user", page |-> 0, data |-> Nothing, xfer |-> Nothing,
           taken |-> FALSE, lost |-> FALSE]

TypeOK ==
  /\ tasks \in Seq(Tasks) /\ cursor \in 0 .. Len(tasks)
  /\ ci \subseteq Slots /\ tfes \in BOOLEAN /\ dead \subseteq Slots
  /\ cmd \in [Slots -> Commands \cup {Nothing}]
  /\ disk \in [Blocks -> Data]
  /\ page \in [Pages -> Data] /\ used \in [Pages -> BOOLEAN]
  /\ on_hold \in [Procs -> BOOLEAN]
  /\ call \in [Procs -> [at : {"user", "read", "write"}, page : Pages,
                          data : Data \cup {Nothing}, xfer : Data \cup {Nothing},
                          taken : BOOLEAN, lost : BOOLEAN]]
  /\ early \in BOOLEAN /\ faults \in 0 .. MaxFaults

Init ==
  /\ tasks = <<>> /\ cursor = 0
  /\ ci = {} /\ cmd = [s \in Slots |-> Nothing] /\ tfes = FALSE /\ dead = {}
  /\ \E d \in Data : disk = [b \in Blocks |-> d] /\ page = [g \in Pages |-> d]
  /\ used = [g \in Pages |-> FALSE]
  /\ on_hold = [p \in Procs |-> FALSE]
  /\ call = [p \in Procs |-> InUser]
  /\ early = FALSE
  /\ faults = 0
-----------------------------------------------------------------------------
(***************************************************************************)
(* ahci_read_task and ahci_write_task, on a port P == [ci, cmd, tfes]: the *)
(* error bit is cleared, then the lowest slot that is not in use takes the *)
(* command.                                                                *)
(***************************************************************************)
Port == [ci |-> ci, cmd |-> cmd, tfes |-> tfes]
FreeSlots(P) == Slots \ P.ci
LowestSlot(P) == CHOOSE s \in FreeSlots(P) : \A t \in FreeSlots(P) : s <= t

IssuedInSlot0(P, c) ==
  IF FreeSlots(P) = {}
  THEN [port |-> [P EXCEPT !.tfes = FALSE], slot |-> NoSlot]
  ELSE [port |-> [ci |-> P.ci \cup {0}, cmd |-> [P.cmd EXCEPT ![0] = c],
                  tfes |-> FALSE],
        slot |-> 0]
Issued(P, c) ==
  IF FreeSlots(P) = {}
  THEN [port |-> [P EXCEPT !.tfes = FALSE], slot |-> NoSlot]
  ELSE LET s == LowestSlot(P)
       IN  [port |-> [ci |-> P.ci \cup {s}, cmd |-> [P.cmd EXCEPT ![s] = c],
                      tfes |-> FALSE],
            slot |-> s]

DoneUnlessError(P, s) == ~ P.tfes
\* check_ahci_port
Done(P, s) == ~ P.tfes /\ s \notin P.ci

SetPort(P) == ci' = P.ci /\ cmd' = P.cmd /\ tfes' = P.tfes

NewTask(p, c, s) == [proc |-> p, cmd |-> c, issued |-> s # NoSlot, slot |-> s]

\* find_free_page_entry
FreePages == {g \in Pages : ~ used[g]}
FreePage == CHOOSE g \in FreePages : \A h \in FreePages : g <= h

\* Page g gets a new use: a write that has not left it yet is affected.
Taking(g) ==
  [p \in Procs |->
    IF call[p].at = "write" /\ call[p].page = g /\ call[p].xfer = Nothing
    THEN [call[p] EXCEPT !.taken = TRUE] ELSE call[p]]
-----------------------------------------------------------------------------
(***************************************************************************)
(* A process asks for a block and goes to sleep.                           *)
(***************************************************************************)
Runs(p) == ~ on_hold[p] /\ cursor = 0
Calls(p) == call[p] = InUser /\ Runs(p)

Sleeps(p, how) ==
  /\ on_hold' = [on_hold EXCEPT ![p] = TRUE]
  /\ call' = [Taking(how.page) EXCEPT ![p] = how]

Reserved(g) == [used EXCEPT ![g] = TRUE]

\* read_disk_block up to its sleep; the page stays reserved.
ReadRequest(p, b) ==
  LET g == FreePage
      c == [blk |-> b, write |-> FALSE, page |-> g, proc |-> p]
      i == Issued(Port, c)
  IN
  /\ Calls(p) /\ FreePages # {}
  /\ used' = Reserved(g)
  /\ tasks' = Append(tasks, NewTask(p, c, i.slot))
  /\ SetPort(i.port) /\ dead' = dead \ {i.slot}
  /\ Sleeps(p, [InUser EXCEPT !.at = "read", !.page = g])
  /\ UNCHANGED <<cursor, disk, page, early, faults>>

\* write_disk_block up to its sleep: the data goes to a page, which is free
\* again as soon as the task is in the list.
WriteRequest(p, b, d) ==
  LET g == FreePage
      c == [blk |-> b, write |-> TRUE, page |-> g, proc |-> p]
      i == Issued(Port, c)
  IN
  /\ Calls(p) /\ FreePages # {}
  /\ page' = [page EXCEPT ![g] = d]
  /\ tasks' = Append(tasks, NewTask(p, c, i.slot))
  /\ SetPort(i.port) /\ dead' = dead \ {i.slot}
  /\ Sleeps(p, [InUser EXCEPT !.at = "write", !.page = g, !.data = d])
  /\ UNCHANGED <<cursor, disk, used, early, faults>>

\* The port stays busy or reports an error before the command is issued: the
\* request is dropped, but TASK_RW_DISK_BLOCK answers 1, so the process sleeps
\* all the same.  A refused read has freed its page.
Refused(p, kind, d) ==
  /\ Calls(p) /\ FreePages # {} /\ FreeSlots(Port) # {}
  /\ faults < MaxFaults /\ faults' = faults + 1
  /\ tfes' = FALSE
  /\ page' = IF kind = "write" THEN [page EXCEPT ![FreePage] = d] ELSE page
  /\ Sleeps(p, [InUser EXCEPT !.at = kind, !.page = FreePage, !.lost = TRUE])
  /\ UNCHANGED <<tasks, cursor, ci, cmd, dead, disk, used, early>>

\* Awake again, read_disk_block copies the page, then gives it back.
ReadReturns(p) ==
  /\ call[p].at = "read" /\ Runs(p)
  /\ used' = [used EXCEPT ![call[p].page] = FALSE]
  /\ call' = [call EXCEPT ![p] = InUser]
  /\ UNCHANGED <<tasks, cursor, port, disk, page, on_hold, early, faults>>

WriteReturns(p) ==
  /\ call[p].at = "write" /\ Runs(p)
  /\ call' = [call EXCEPT ![p] = InUser]
  /\ UNCHANGED <<tasks, cursor, port, disk, memory, on_hold, early, faults>>

\* process_add_signal wakes a process whatever it waits for.  (A refused read
\* has no page to copy: what the kernel then reads is not modelled.)
Signal(p) ==
  /\ call[p].at # "user" /\ on_hold[p] /\ ~ call[p].lost /\ cursor = 0
  /\ faults < MaxFaults /\ faults' = faults + 1
  /\ on_hold' = [on_hold EXCEPT ![p] = FALSE]
  /\ early' = TRUE
  /\ UNCHANGED <<tasks, cursor, port, disk, memory, call>>
-----------------------------------------------------------------------------
(***************************************************************************)
(* The timer tick: check_disk_task goes through the list, one task a step, *)
(* while the controller works.  A task without a slot tries to get one; a  *)
(* task whose slot is idle is done, its process wakes and the task leaves  *)
(* the list.                                                               *)
(***************************************************************************)
Position == IF cursor = 0 THEN 1 ELSE cursor
\* The list without its k-th task.
Removed(l, k) == SubSeq(l, 1, k - 1) \o SubSeq(l, k + 1, Len(l))
MovesPast(k, left) == tasks' = left /\ cursor' = k
MovesTo(k, left) ==
  /\ tasks' = left
  /\ cursor' = IF k <= Len(left) THEN k ELSE 0

WakesNobody(p) == on_hold
Woken(p) == [on_hold EXCEPT ![p] = FALSE]

\* check_task and its caller's step
TaskDone ==
  LET t == tasks[Position] IN
  /\ tasks # <<>> /\ t.issued /\ Done(Port, t.slot)
  /\ MovesTo(Position, Removed(tasks, Position))
  /\ on_hold' = Woken(t.proc)
  /\ UNCHANGED <<port, disk, memory, call, early, faults>>

TaskWaits ==
  LET t == tasks[Position] IN
  /\ tasks # <<>> /\ t.issued /\ ~ Done(Port, t.slot)
  /\ MovesTo(Position + 1, tasks)
  /\ UNCHANGED <<port, disk, memory, on_hold, call, early, faults>>

TaskIssues ==
  LET t == tasks[Position]
      i == Issued(Port, t.cmd)
  IN
  /\ tasks # <<>> /\ ~ t.issued
  /\ MovesTo(Position + 1, [tasks EXCEPT ![Position] = NewTask(t.proc, t.cmd, i.slot)])
  /\ SetPort(i.port) /\ dead' = dead \ {i.slot}
  /\ UNCHANGED <<disk, memory, on_hold, call, early, faults>>

CheckDiskTask == TaskDone \/ TaskWaits \/ TaskIssues

(***************************************************************************)
(* The controller (external): it moves the data of an issued command and   *)
(* then clears the command's bit, or reports an error and leaves the bit.  *)
(***************************************************************************)
Complete(s) ==
  LET c == cmd[s]
      d == IF c.write THEN page[c.page] ELSE disk[c.blk]
  IN
  /\ s \in ci \ dead
  /\ ci' = ci \ {s} /\ cmd' = [cmd EXCEPT ![s] = Nothing]
  /\ disk' = IF c.write THEN [disk EXCEPT ![c.blk] = d] ELSE disk
  /\ page' = IF c.write THEN page ELSE [page EXCEPT ![c.page] = d]
  /\ call' = [p \in Procs |-> IF p = c.proc /\ call[p].at # "user"
                               THEN [call[p] EXCEPT !.xfer = d] ELSE call[p]]
  /\ UNCHANGED <<tasks, cursor, tfes, dead, used, on_hold, early, faults>>

Fail(s) ==
  /\ s \in ci \ dead
  /\ faults < MaxFaults /\ faults' = faults + 1
  /\ tfes' = TRUE /\ dead' = dead \cup {s}
  /\ UNCHANGED <<tasks, cursor, ci, cmd, disk, memory, on_hold, call, early>>

Next ==
  \/ \E p \in Procs :
       \/ \E b \in Blocks : ReadRequest(p, b) \/ \E d \in Data : WriteRequest(p, b, d)
       \/ Refused(p, "read", Nothing) \/ \E d \in Data : Refused(p, "write", d)
       \/ ReadReturns(p) \/ WriteReturns(p) \/ Signal(p)
  \/ CheckDiskTask
  \/ \E s \in Slots : Complete(s) \/ Fail(s)

\* The timer ticks and the controller works whatever the processes do; a
\* process that is not on hold is scheduled again.
Fairness ==
  /\ WF_vars(CheckDiskTask)
  /\ \A s \in Slots : WF_vars(Complete(s))
  /\ \A p \in Procs : WF_vars(ReadReturns(p) \/ WriteReturns(p))

Spec == Init /\ [][Next]_vars /\ Fairness
-----------------------------------------------------------------------------
(***************************************************************************)
(* Properties.                                                             *)
(***************************************************************************)
\* A process that sleeps for the disk has a task in the list that will wake
\* it, unless the port refused its request.
SleeperHasTask ==
  \A p \in Procs : on_hold[p] =>
    call[p].lost \/ \E k \in DOMAIN tasks : tasks[k].proc = p

\* While no signal has cut a wait short, a process that comes back from
\* read_disk_block's sleep finds the block in its page: the page stayed its
\* own, and the driver did not take another command's end for its own.  Until
\* then every page that the controller may still write to is reserved for it.
ReadGetsBlock ==
  ~ early =>
    /\ \A p \in Procs : call[p].at = "read" /\ ~ on_hold[p] =>
         call[p].xfer # Nothing /\ page[call[p].page] = call[p].xfer
    /\ \A s \in ci : ~ cmd[s].write => used[cmd[s].page]

\* In the same way a process that comes back from write_disk_block has its
\* data on the disk, unless another request got the page before the controller
\* had read it (the page is given back when the task is queued).
WriteReachesDisk ==
  \A p \in Procs : ~ early /\ call[p].at = "write" /\ ~ on_hold[p] =>
    call[p].xfer = call[p].data \/ (call[p].taken /\ call[p].xfer # Nothing)

\* A process that waits for the disk gets on, unless its request was refused,
\* a command failed, or a later request got the slot that this one waits for,
\* or the slot it holds before the tick saw that it was done.
Overtaken(p) ==
  \E j, k \in DOMAIN tasks :
    /\ j < k /\ tasks[j].proc = p /\ tasks[k].issued
    /\ tasks[j].issued => tasks[j].slot = tasks[k].slot
RequestsEnd ==
  \A p \in Procs : on_hold[p] ~>
    (~ on_hold[p] \/ call[p].lost \/ tfes \/ dead # {} \/ Overtaken(p))
=============================================================================
