----------------------------- MODULE CowMemory -----------------------------
(***************************************************************************)
(* The memory of user processes: the table of physical pages with the      *)
(* records of who uses each page (sys/memory/phy_page.c), the list of      *)
(* mappings (m_map) and the page table of every process                    *)
(* (sys/thread/kthread.c), and the page-fault handler that splits a page   *)
(* shared by fork, extends the heap and grows the stack (sys/idt.c).       *)
(*                                                                         *)
(* The kernel runs with interrupts off on one processor and none of these  *)
(* handlers gives up the processor, so each is one action.  User code is   *)
(* preempted anywhere: the loads and stores of different processes         *)
(* interleave with the handlers in every order.                            *)
(*                                                                         *)
(* A page of memory holds one word of Words; virtual addresses are page    *)
(* numbers.  A process's pages are image, then heap, then stack.           *)
(***************************************************************************)
EXTENDS Integers, FiniteSets

CONSTANTS
  MaxProcs,       \* bound: process structures ever created
  Pages,          \* physical pages the allocator hands to processes
  HeapStart,      \* first heap page; the pages below it are the image
  StackBase,      \* bound: the lowest page the stack may reach
  StackTop,       \* the page below process_initial_rsp
  StackWindow,    \* how far below rsp_current a stack access may be (4)
  Words,          \* contents of a page
  SharedCopyOut   \* TRUE: system calls are also given buffers that lie on
                  \* pages still shared since a fork

Procs  == 0 .. MaxProcs - 1
VPages == 0 .. StackTop
Image  == 0 .. HeapStart - 1
Stack  == StackBase .. StackTop

\* What an m_map maps: a user page (type 2), or one of the two below.
Tables == -2      \* the page tables (types 1 and 3), taken together
Rsp0   == -1      \* the kernel stack of the process (type 4)
Slots  == VPages \cup {Tables, Rsp0}

NoFrame == -1     \* the frame of an absent page-table entry
Zero    == 0      \* memset(page, 0, 4096)

ASSUME ConstantsAssumption ==
  /\ MaxProcs \in Nat \ {0}
  /\ Pages \subseteq Nat /\ IsFiniteSet(Pages)
  /\ HeapStart \in Nat /\ StackBase \in Nat /\ StackTop \in Nat
  /\ HeapStart <= StackBase /\ StackBase <= StackTop
  /\ StackWindow \in Nat
  /\ Zero \in Words /\ Words \subseteq Nat
  /\ SharedCopyOut \in BOOLEAN

VARIABLES
  used_by,      \* page_entry.used_by: 0 free, 3 a user program
  use_record,   \* page_entry.use_record: the m_maps <<p, slot>> of the page
  content,      \* what the page holds
  maps,         \* Process.first_map: the m_maps of p, as <<slot, page>>
  pte,          \* the page-table entry of p for a user page
  status,       \* the process structure: see Statuses
  heap_break,   \* Process.heap_break
  rsp_current   \* Process.rsp_current

vars == <<used_by, use_record, content, maps, pte, status, heap_break,
          rsp_current>>

\* unused: not created; terminated: its pages are not yet reclaimed;
\* zombie: cleaned; reaped: taken off the process list by sys_wait.
Statuses == {"unused", "live", "terminated", "zombie", "reaped"}

Absent == [mode |-> "absent", page |-> NoFrame]
PTE(m, pg) == [mode |-> m, page |-> pg]

TypeOK ==
  /\ used_by \in [Pages -> {0, 3}]
  /\ use_record \in [Pages -> SUBSET (Procs \X Slots)]
  /\ content \in [Pages -> Words]
  /\ maps \in [Procs -> SUBSET (Slots \X Pages)]
  /\ pte \in [Procs -> [VPages ->
               [mode : {"ro", "rw"}, page : Pages] \cup {Absent}]]
  /\ status \in [Procs -> Statuses]
  /\ heap_break \in [Procs -> HeapStart .. StackBase]
  /\ rsp_current \in [Procs -> StackBase .. StackTop + 1]
-----------------------------------------------------------------------------
(***************************************************************************)
(* The physical page allocator.                                            *)
(***************************************************************************)
Free(ub) == {pg \in Pages : ub[pg] = 0}

\* find_free_page_entry, called once for every slot of S: the first free
\* entries of the table, one each.
FirstFree(S, ub) ==
  [s \in S |-> CHOOSE pg \in Free(ub) :
                 Cardinality({q \in Free(ub) : q < pg})
                   = Cardinality({t \in S : t < s})]

\* The code does not test for "none left"; the model takes a step only when
\* the table has a free entry for each slot.
Allocates(f, S, ub) ==
  /\ Cardinality(S) <= Cardinality(Free(ub))
  /\ f \in [S -> Free(ub)]
  /\ \A s, t \in S : f[s] = f[t] => s = t

\* Faulty variants of the definitions that follow them, one for each
\* property, carry the mistake in their name.
FilledNotCleared(f, x, con) ==
  [pg \in Pages |-> IF x # Zero /\ \E s \in DOMAIN f : f[s] = pg THEN x ELSE con[pg]]
DroppedOnlyIfLast(p, M, rec) ==
  [pg \in Pages |-> IF \A r \in rec[pg] : r[1] = p /\ <<r[2], pg>> \in M
                    THEN {} ELSE rec[pg]]

\* get_phy_page_for_program: the entry gets one record, for the new m_map.
Recorded(p, f, rec) ==
  [pg \in Pages |-> IF \E s \in DOMAIN f : f[s] = pg
                    THEN {<<p, s>> : s \in {s \in DOMAIN f : f[s] = pg}}
                    ELSE rec[pg]]
Taken(f, ub) ==
  [pg \in Pages |-> IF \E s \in DOMAIN f : f[s] = pg THEN 3 ELSE ub[pg]]
Filled(f, x, con) ==
  [pg \in Pages |-> IF \E s \in DOMAIN f : f[s] = pg
                    THEN IF \E s \in DOMAIN f \ {Tables, Rsp0} : f[s] = pg
                         THEN x ELSE Zero
                    ELSE con[pg]]

\* free_page_for_program for each m_map in M: drop its record, and free the
\* page with its last record.
Dropped(p, M, rec) ==
  [pg \in Pages |-> {r \in rec[pg] : ~ (r[1] = p /\ <<r[2], pg>> \in M)}]
Released(p, M, rec, ub) ==
  [pg \in Pages |-> IF rec[pg] # {} /\ Dropped(p, M, rec)[pg] = {}
                    THEN 0 ELSE ub[pg]]

MapsOf(f) == {<<s, f[s]>> : s \in DOMAIN f}
-----------------------------------------------------------------------------
(***************************************************************************)
(* spawn_process for /bin/init at the end of start().  Exec and spawn_     *)
(* process map the image and one stack page; x is what the program loads.  *)
(***************************************************************************)
LoadedSlots == Image \cup {StackTop}

LoadedPTEs(f) ==
  [v \in VPages |-> IF v \in LoadedSlots THEN PTE("rw", f[v]) ELSE Absent]

Init ==
  LET slots == LoadedSlots \cup {Tables, Rsp0}
      none  == [pg \in Pages |-> 0]
      f     == FirstFree(slots, none)
  IN
  /\ Allocates(f, slots, none)
  /\ used_by = Taken(f, none)
  /\ use_record = Recorded(0, f, [pg \in Pages |-> {}])
  /\ \E x \in Words : content = Filled(f, x, [pg \in Pages |-> Zero])
  /\ maps = [p \in Procs |-> IF p = 0 THEN MapsOf(f) ELSE {}]
  /\ pte = [p \in Procs |-> IF p = 0 THEN LoadedPTEs(f)
                            ELSE [v \in VPages |-> Absent]]
  /\ status = [p \in Procs |-> IF p = 0 THEN "live" ELSE "unused"]
  /\ heap_break = [p \in Procs |-> HeapStart]
  /\ rsp_current = [p \in Procs |-> StackTop + 1]
-----------------------------------------------------------------------------
(***************************************************************************)
(* Stores.                                                                 *)
(***************************************************************************)
\* A store to a writable page, by user code or by the kernel in a system call.
Store(p, v, x) ==
  /\ status[p] = "live"
  /\ pte[p][v].mode = "rw"
  /\ content' = [content EXCEPT ![pte[p][v].page] = x]
  /\ UNCHANGED <<used_by, use_record, maps, pte, status, heap_break, rsp_current>>

\* A store of the kernel into a buffer of the calling process (sys_read,
\* sys_wait, sys_getdir, sys_pipe...) on a page that is read-only since a
\* fork.  The kernel never sets CR0.WP, so the store ignores the RW bit and
\* no fault splits the page.
CopyOut(p, v, x) ==
  /\ status[p] = "live"
  /\ pte[p][v].mode = "ro"
  /\ SharedCopyOut
  /\ content' = [content EXCEPT ![pte[p][v].page] = x]
  /\ UNCHANGED <<used_by, use_record, maps, pte, status, heap_break, rsp_current>>
-----------------------------------------------------------------------------
(***************************************************************************)
(* Page faults (TASK_PROC_PAGE_FAULT_HANDLE).                              *)
(***************************************************************************)
\* add_page_for_process gives p a new m_map with a page of its own, holding
\* x, that the page table maps writable; then the m_maps in gone are freed.
AddPage(p, v, x, gone) ==
  LET f == FirstFree({v}, used_by) IN
  /\ Allocates(f, {v}, used_by)
  /\ use_record' = Recorded(p, f, Dropped(p, gone, use_record))
  /\ used_by' = Taken(f, Released(p, gone, use_record, used_by))
  /\ content' = Filled(f, x, content)
  /\ pte' = [pte EXCEPT ![p][v] = PTE("rw", f[v])]
  /\ maps' = [maps EXCEPT ![p] = (@ \ gone) \cup MapsOf(f)]

\* memcpy from the page of the m_map, not from that of the page table.
CopyOmitted(m) == Zero
Copy(m) == content[m[2]]

\* check_and_handle_rw_page_fault: a write to a page whose entry is read-only
\* copies it, also when nobody else uses it any more.
SplitShared(p, v) ==
  /\ status[p] = "live"
  /\ pte[p][v].mode = "ro"
  /\ \E m \in maps[p] : m[1] = v /\ AddPage(p, v, Copy(m), {m})
  /\ UNCHANGED <<status, heap_break, rsp_current>>

\* An access to a heap page for the first time.
TouchHeap(p, v) ==
  /\ status[p] = "live"
  /\ pte[p][v].mode = "absent"
  /\ v < heap_break[p] /\ v >= HeapStart
  /\ AddPage(p, v, Zero, {})
  /\ UNCHANGED <<status, heap_break, rsp_current>>

\* An access near the stack boundary: the boundary moves to it.
GrowStack(p, v) ==
  /\ status[p] = "live"
  /\ pte[p][v].mode = "absent"
  /\ ~ (v < heap_break[p] /\ v >= HeapStart)
  /\ v \in Stack
  /\ v >= rsp_current[p] - StackWindow
  /\ AddPage(p, v, Zero, {})
  /\ rsp_current' = [rsp_current EXCEPT ![p] = v]
  /\ UNCHANGED <<status, heap_break>>
-----------------------------------------------------------------------------
(***************************************************************************)
(* System calls and the end of a process.                                  *)
(***************************************************************************)
\* sys_brk.  Pages above a lowered break stay mapped.
Brk(p, b) ==
  /\ status[p] = "live"
  /\ b >= HeapStart
  /\ heap_break' = [heap_break EXCEPT ![p] = b]
  /\ UNCHANGED <<used_by, use_record, content, maps, pte, status, rsp_current>>

\* The m_maps fork_process duplicates: map_cur->type == 2.
Duplicated(m) == m[1] \in VPages

\* set_pte_rw(parent->cr3, vir_addr, 0), for the parent's entry.
NotProtected(e) == e
WriteProtected(e) == PTE("ro", e.page)

\* The page p's m_map list has for user page v (there is one at most).
Mapped(p, v) == \E pg \in Pages : <<v, pg>> \in maps[p]
MapPage(p, v) == CHOOSE pg \in Pages : <<v, pg>> \in maps[p]

\* fork_process: new tables and kernel stack; every user page of the parent
\* becomes read-only (set_pte_rw) and is shared with the child
\* (dup_page_for_process).
Fork(p, c) ==
  LET f == FirstFree({Tables, Rsp0}, used_by)
      dup == {m \in maps[p] : Duplicated(m)}
  IN
  /\ status[p] = "live"
  /\ status[c] = "unused" /\ \A d \in Procs : status[d] = "unused" => c <= d
  /\ Allocates(f, {Tables, Rsp0}, used_by)
  /\ used_by' = Taken(f, used_by)
  /\ content' = Filled(f, Zero, content)
  /\ use_record' = [pg \in Pages |->
       Recorded(c, f, use_record)[pg]
         \cup {<<c, s>> : s \in {s \in Slots : <<s, pg>> \in dup}}]
  /\ maps' = [maps EXCEPT ![c] = MapsOf(f) \cup dup]
  /\ pte' = [pte EXCEPT
       ![p] = [v \in VPages |-> IF Mapped(p, v) THEN WriteProtected(@[v])
                                ELSE @[v]],
       ![c] = [v \in VPages |-> IF Mapped(p, v) THEN PTE("ro", MapPage(p, v))
                                ELSE Absent]]
  /\ status' = [status EXCEPT ![c] = "live"]
  /\ heap_break' = [heap_break EXCEPT ![c] = heap_break[p]]
  /\ rsp_current' = [rsp_current EXCEPT ![c] = rsp_current[p]]

\* sys_exec: replace_process frees everything but the kernel stack, then
\* builds new tables, one stack page and the image, which sys_exec loads.
Exec(p, x) ==
  LET slots == LoadedSlots \cup {Tables}
      gone  == {m \in maps[p] : m[1] # Rsp0}
      ub    == Released(p, gone, use_record, used_by)
      f     == FirstFree(slots, ub)
  IN
  /\ status[p] = "live"
  /\ Allocates(f, slots, ub)
  /\ used_by' = Taken(f, ub)
  /\ use_record' = Recorded(p, f, Dropped(p, gone, use_record))
  /\ content' = Filled(f, x, content)
  /\ maps' = [maps EXCEPT ![p] = (@ \ gone) \cup MapsOf(f)]
  /\ pte' = [pte EXCEPT ![p] = LoadedPTEs(f)]
  /\ heap_break' = [heap_break EXCEPT ![p] = HeapStart]
  /\ rsp_current' = [rsp_current EXCEPT ![p] = StackTop]
  /\ UNCHANGED status

\* sys_exit, and every fault or signal that ends a process.
Exit(p) ==
  /\ status[p] = "live"
  /\ status' = [status EXCEPT ![p] = "terminated"]
  /\ UNCHANGED <<used_by, use_record, content, maps, pte, heap_break, rsp_current>>

\* process_cleanup, when the scheduler passes a terminated process.
Cleanup(p) ==
  /\ status[p] = "terminated"
  /\ status' = [status EXCEPT ![p] = "zombie"]
  /\ use_record' = Dropped(p, maps[p], use_record)
  /\ used_by' = Released(p, maps[p], use_record, used_by)
  /\ maps' = [maps EXCEPT ![p] = {}]
  /\ pte' = [pte EXCEPT ![p] = [v \in VPages |-> Absent]]
  /\ UNCHANGED <<content, heap_break, rsp_current>>

\* sys_wait frees the process structure.  It tests terminated and not
\* cleaned: a process reaped before its cleanup keeps its pages for ever.
Reap(p) ==
  /\ status[p] \in {"terminated", "zombie"}
  /\ status' = [status EXCEPT ![p] = "reaped"]
  /\ UNCHANGED <<used_by, use_record, content, maps, pte, heap_break, rsp_current>>

Next ==
  \E p \in Procs :
    \/ \E v \in VPages, x \in Words : Store(p, v, x) \/ CopyOut(p, v, x)
    \/ \E v \in VPages : SplitShared(p, v) \/ TouchHeap(p, v) \/ GrowStack(p, v)
    \/ \E b \in HeapStart .. StackBase : Brk(p, b)
    \/ \E c \in Procs : Fork(p, c)
    \/ \E x \in Words : Exec(p, x)
    \/ Exit(p) \/ Cleanup(p) \/ Reap(p)

Spec == Init /\ [][Next]_vars
-----------------------------------------------------------------------------
(***************************************************************************)
(* Properties.                                                             *)
(***************************************************************************)
\* The use records of the physical pages and the m_map lists of the processes
\* are two views of one relation.  free_page_for_program spins or fails its
\* assertion "unable to found page" when they differ.
RecordsMatchMaps ==
  \A pg \in Pages, p \in Procs, s \in Slots :
    <<p, s>> \in use_record[pg] <=> <<s, pg>> \in maps[p]

\* A page is taken exactly while somebody has a record on it: nothing in use
\* is handed out again, and the last free gives the page back.
UsedWhileRecorded ==
  \A pg \in Pages : used_by[pg] = 3 <=> use_record[pg] # {}

\* The m_map list and the page table of a process describe the same memory:
\* one page for each mapped slot, and the entry points to that page.
\* fork_process asserts it (set_pte_rw), and the copy of a shared page takes
\* the contents from the m_map, not from the page table.
MapsMatchPageTable ==
  \A p \in Procs :
    /\ \A m, n \in maps[p] : m[1] = n[1] => m = n
    /\ \A v \in VPages, pg \in Pages :
         <<v, pg>> \in maps[p] <=> pte[p][v].page = pg

\* A page that some process can write is used by that process alone, at that
\* address alone: the heart of copy-on-write.
WritableIsPrivate ==
  \A p \in Procs, v \in VPages :
    pte[p][v].mode = "rw" => use_record[pte[p][v].page] = {<<p, v>>}

\* Page tables and kernel stacks are never shared and never user memory.
KernelPagesPrivate ==
  \A p \in Procs, s \in {Tables, Rsp0}, pg \in Pages :
    <<s, pg>> \in maps[p] => use_record[pg] = {<<p, s>>}

\* A process that was never created or was cleaned owns nothing.
NothingOutlivesCleanup ==
  \A p \in Procs : status[p] \in {"unused", "zombie"} => maps[p] = {}

\* The four views of who owns a page agree: use records, allocator, m_map lists
\* and page tables, for user pages, page tables and kernel stacks, through fork,
\* exec, faults and cleanup.
OwnersAgree ==
  /\ RecordsMatchMaps
  /\ UsedWhileRecorded
  /\ MapsMatchPageTable
  /\ KernelPagesPrivate
  /\ NothingOutlivesCleanup

IInv ==
  /\ TypeOK
  /\ RecordsMatchMaps
  /\ UsedWhileRecorded
  /\ MapsMatchPageTable
  /\ WritableIsPrivate
  /\ KernelPagesPrivate
  /\ NothingOutlivesCleanup

\* What a process finds at a page.
NoPage == -1
Memory == [p \in Procs |-> [v \in VPages |->
             IF pte[p][v].mode = "absent" THEN NoPage ELSE content[pte[p][v].page]]]

OwnStep ==
  \A p \in Procs, v \in VPages :
    Memory'[p][v] # Memory[p][v] =>
      \/ \E x \in Words : Store(p, v, x) \/ Exec(p, x)
      \/ TouchHeap(p, v) \/ GrowStack(p, v) \/ Cleanup(p)
      \/ \E q \in Procs : Fork(q, p)

\* What a process finds at a page changes only by its own store, when its own
\* heap or stack grows over the page, by its own fork, exec or cleanup: the
\* isolation malloc_test and stack_test look for after a fork.  In
\* particular splitting a shared page changes nobody's memory.
OnlyOwnStores == [][OwnStep]_vars

\* Seen from user programs, sharing and copying pages implements a memory of
\* its own for every process, with fresh pages that read as zero and a child
\* that starts with a copy of its parent's memory.
Spaces == INSTANCE AddressSpaces WITH mem <- Memory, Loaded <- LoadedSlots
PrivateMemory == Spaces!Spec
=============================================================================
