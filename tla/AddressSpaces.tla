--------------------------- MODULE AddressSpaces ---------------------------
(***************************************************************************)
(* What the memory system of the kernel promises to user programs: every   *)
(* process has a memory of its own.  A step reads and changes the memory   *)
(* of one process; fork gives the child a copy of the parent's memory as   *)
(* it was at the call, and from then on neither sees what the other        *)
(* stores.  There are no physical pages, page tables or sharing here; the  *)
(* module CowMemory is shown to implement this one.                        *)
(***************************************************************************)
CONSTANTS
  Procs,    \* process structures
  VPages,   \* pages of the user part of an address space
  Words,    \* what a page can hold
  Zero,     \* the contents of a fresh page
  Loaded,   \* the pages a program starts with
  NoPage    \* the address is not mapped

VARIABLE mem    \* mem[p][v]: what process p finds at page v

Unmapped == [v \in VPages |-> NoPage]

\* The memory of a program at its start: x in the pages loaded for it.
Program(x) == [v \in VPages |-> IF v \in Loaded THEN x ELSE NoPage]

Init == \E p \in Procs, x \in Words :
          mem = [q \in Procs |-> IF q = p THEN Program(x) ELSE Unmapped]

\* A store by p, or by the kernel on behalf of p.
Write(p, v, x) ==
  /\ mem[p][v] # NoPage
  /\ mem' = [mem EXCEPT ![p][v] = x]

\* The heap or the stack of p grows by a page of zeros.
Grow(p, v) ==
  /\ mem[p][v] = NoPage
  /\ mem' = [mem EXCEPT ![p][v] = Zero]

Fork(p, c) ==
  /\ mem[c] = Unmapped
  /\ mem' = [mem EXCEPT ![c] = mem[p]]

\* exec: p starts over as another program; nothing is left of its old memory.
Exec(p, x) == mem' = [mem EXCEPT ![p] = Program(x)]

Exit(p) == mem' = [mem EXCEPT ![p] = Unmapped]

Next ==
  \E p \in Procs :
    \/ \E v \in VPages, x \in Words : Write(p, v, x)
    \/ \E v \in VPages : Grow(p, v)
    \/ \E c \in Procs : Fork(p, c)
    \/ \E x \in Words : Exec(p, x)
    \/ Exit(p)

Spec == Init /\ [][Next]_mem
=============================================================================
