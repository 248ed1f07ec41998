----------------------------- MODULE SimpleFs -----------------------------
(***************************************************************************)
(* The disk file system of sys/disk/file_system.c with the calls of        *)
(* sys/idt.c that use it: a superblock with the next free block, one block *)
(* with the list of files, and one block of data per file.                 *)
(*                                                                         *)
(* A call is a chain of block requests.  The process sleeps in each (io is *)
(* "asked"), the driver carries it out (Transfer; module Disk has the      *)
(* details), and the process goes on (io is "ready").  Crash is a power    *)
(* failure and the next boot.                                              *)
(***************************************************************************)
EXTENDS Naturals, Sequences, FiniteSets

CONSTANTS
  Procs,
  Names,
  NoName,       \* no name
  Bytes,
  NList,        \* entries of the file list; 31 in the code
  BlockSize,    \* bytes in a block; 4096 in the code
  MaxWrite,     \* bound: bytes in one call
  MaxWrites,    \* bound: calls of write
  MaxCrashes,   \* bound: crashes
  Serial        \* TRUE: programs make one file call at a time

FirstFree == 2                          \* initial value of disk_block_free
Lbas == FirstFree .. FirstFree + NList
Slots == 1 .. NList
Offsets == 0 .. BlockSize - 1
Zero == 0
Empty == [name |-> NoName, lba |-> 0, size |-> 0]
NoFile == [name |-> NoName, mode |-> "none", lba |-> 0,
           size |-> 0, slot |-> 0, offset |-> 0,
           shared |-> FALSE]
Chunks == UNION {[1 .. n -> Bytes] : n \in 1 .. MaxWrite}
Idle == [pc |-> "user", io |-> "none", name |-> NoName, mode |-> "none", data |-> <<>>]

VARIABLES
  superblock,        \* the next free block on the disk, 0 when not formatted
  list,              \* the file list on the disk
  blocks,            \* the data blocks
  disk_block_free,   \* the kernel's copy of the next free block
  call,              \* of every process: the request it waits for, its arguments
  buf,               \* the block a process read or is about to write
  file,              \* the file a process has open, with its inode
  writes, crashes,   \* counters for the bounds
  torn               \* a crash hit a create between its two writes

onDisk == <<superblock, list, blocks>>
counts == <<writes, crashes>>
fsVars == <<onDisk, disk_block_free, call, buf, file, counts, torn>>

Lists == [Slots -> [name : Names \cup {NoName}, lba : Nat, size : 0 .. BlockSize]]
Contents == [Offsets -> Bytes]
Modes == {"none", "read", "write"}
Requests ==
  [pc : {"user", "find", "grow", "add", "super", "open", "load", "store",
         "relist", "resize", "fetch"},
   io : {"none", "asked", "ready"}, name : Names \cup {NoName},
   mode : Modes, data : Chunks \cup {<<>>}]
Descriptors ==
  [name : Names \cup {NoName}, mode : Modes, lba : Nat, size : 0 .. BlockSize,
   slot : Nat, offset : 0 .. BlockSize + 1, shared : BOOLEAN]
Buffers == [list : Lists, block : Contents, free : {0} \cup Lbas]
NoBuf == [list |-> [i \in Slots |-> Empty], block |-> [o \in Offsets |-> Zero], free |-> 0]

FsTypeOK ==
  /\ superblock \in {0} \cup Lbas /\ disk_block_free \in Lbas
  /\ list \in Lists /\ blocks \in [Lbas -> Contents]
  /\ call \in [Procs -> Requests] /\ buf \in [Procs -> Buffers]
  /\ file \in [Procs -> Descriptors]
  /\ writes \in 0 .. MaxWrites /\ crashes \in 0 .. MaxCrashes /\ torn \in BOOLEAN

FsInit ==
  /\ superblock = 0
  /\ list = [i \in Slots |-> Empty]
  /\ blocks = [l \in Lbas |-> [o \in Offsets |-> Zero]]
  /\ disk_block_free = FirstFree
  /\ call = [p \in Procs |-> Idle]
  /\ buf = [p \in Procs |-> NoBuf]
  /\ file = [p \in Procs |-> NoFile]
  /\ writes = 0 /\ crashes = 0 /\ torn = FALSE
-----------------------------------------------------------------------------
At(p, pc) == call[p].pc = pc /\ call[p].io = "ready"
Calls(p) == call[p].pc = "user" /\ (Serial => \A q \in Procs : call[q].pc = "user")

\* read_disk_block or write_disk_block: the process sleeps until Transfer.
Ask(p, pc) == call' = [call EXCEPT ![p].pc = pc, ![p].io = "asked"]
Finish(p) == call' = [call EXCEPT ![p] = Idle] /\ buf' = [buf EXCEPT ![p] = NoBuf]

\* The driver carries out the request of p.
Transfer(p) ==
  LET pc == call[p].pc
  IN
  /\ call[p].io = "asked"
  /\ call' = [call EXCEPT ![p].io = "ready"]
  /\ buf' = [buf EXCEPT
       ![p].list = IF pc \in {"find", "grow", "open", "relist"} THEN list ELSE @,
       ![p].block = IF pc \in {"load", "fetch"} THEN blocks[file[p].lba] ELSE @]
  /\ list' = IF pc \in {"add", "resize"} THEN buf[p].list ELSE list
  /\ superblock' = IF pc = "super" THEN buf[p].free ELSE superblock
  /\ blocks' = IF pc = "store" THEN [blocks EXCEPT ![file[p].lba] = buf[p].block] ELSE blocks
  /\ UNCHANGED <<disk_block_free, file, counts, torn>>
-----------------------------------------------------------------------------
(***************************************************************************)
(* sys_open: with the create flag the list is searched, and a missing file *)
(* added; then file_open_read or file_open_write searches the list again.  *)
(***************************************************************************)
SysOpen(p, n, mode, create) ==
  /\ Calls(p) /\ file[p] = NoFile
  /\ call' = [call EXCEPT ![p] = [pc |-> IF create THEN "find" ELSE "open",
                io |-> "asked", name |-> n, mode |-> mode, data |-> <<>>]]
  /\ UNCHANGED <<onDisk, disk_block_free, buf, file, counts, torn>>

\* search_file_in_disk: the first entry of that name in the list that was read
Matches(p) == {i \in Slots : buf[p].list[i].name = call[p].name}
First(S) == CHOOSE i \in S : \A j \in S : i <= j

Find(p) ==
  /\ At(p, "find")
  /\ Ask(p, IF Matches(p) = {} THEN "grow" ELSE "open")
  /\ UNCHANGED <<onDisk, disk_block_free, buf, file, counts, torn>>

Unused(p) == {i \in Slots : buf[p].list[i] = Empty}
NewSlot(p) == First(Unused(p))

\* create_file_in_disk, up to the write of the list; the code asserts that an
\* entry is free.
Grow(p) ==
  /\ At(p, "grow") /\ Unused(p) # {}
  /\ buf' = [buf EXCEPT ![p].list[NewSlot(p)] =
               [name |-> call[p].name, lba |-> disk_block_free, size |-> 0]]
  /\ Ask(p, "add")
  /\ UNCHANGED <<onDisk, disk_block_free, file, counts, torn>>

AddWithoutCount(p) ==
  /\ At(p, "add")
  /\ buf' = [buf EXCEPT ![p].free = disk_block_free]
  /\ Ask(p, "super")
  /\ UNCHANGED <<onDisk, disk_block_free, file, counts, torn>>

\* ... up to the write of the superblock
Add(p) ==
  /\ At(p, "add")
  /\ disk_block_free' = disk_block_free + 1
  /\ buf' = [buf EXCEPT ![p].free = disk_block_free + 1]
  /\ Ask(p, "super")
  /\ UNCHANGED <<onDisk, file, counts, torn>>

Created(p) ==
  /\ At(p, "super")
  /\ Ask(p, "open")
  /\ UNCHANGED <<onDisk, disk_block_free, buf, file, counts, torn>>

\* A writer starts at the end of the file.  shared, for the properties, says
\* that two descriptors for writing the file were open at a time.
Others(p, n) == {q \in Procs \ {p} : file[q].name = n /\ file[q].mode = "write"}
Opened(p, i) ==
  LET e == buf[p].list[i]
      w == call[p].mode = "write"
      others == IF w THEN Others(p, e.name) ELSE {}
  IN  [q \in Procs |->
        IF q = p
        THEN [name |-> e.name, mode |-> call[p].mode, lba |-> e.lba, size |-> e.size,
              slot |-> i, offset |-> IF w THEN e.size ELSE 0, shared |-> others # {}]
        ELSE [file[q] EXCEPT !.shared = @ \/ q \in others]]

Open(p) ==
  /\ At(p, "open")
  /\ file' = IF Matches(p) = {} THEN file ELSE Opened(p, First(Matches(p)))
  /\ Finish(p)
  /\ UNCHANGED <<onDisk, disk_block_free, counts, torn>>

SysClose(p) ==
  /\ Calls(p) /\ file[p] # NoFile
  /\ file' = [file EXCEPT ![p] = NoFile]
  /\ UNCHANGED <<onDisk, disk_block_free, call, buf, counts, torn>>

\* Seeking behind the end of a file to be read is left out: the size to copy
\* is then computed below zero.
SysLseek(p, o) ==
  /\ Calls(p) /\ file[p] # NoFile
  /\ file[p].mode = "read" => o <= file[p].size
  /\ file' = [file EXCEPT ![p].offset = o]
  /\ UNCHANGED <<onDisk, disk_block_free, call, buf, counts, torn>>
-----------------------------------------------------------------------------
(***************************************************************************)
(* file_read and file_write on a disk file.                                *)
(***************************************************************************)
SysRead(p) ==
  /\ Calls(p) /\ file[p].mode = "read"
  /\ Ask(p, "fetch")
  /\ UNCHANGED <<onDisk, disk_block_free, buf, file, counts, torn>>

Lesser(m, n) == IF m <= n THEN m ELSE n
Fetch(p, n) ==
  /\ At(p, "fetch")
  /\ file' = [file EXCEPT ![p].offset = @ + Lesser(n, file[p].size - @)]
  /\ Finish(p)
  /\ UNCHANGED <<onDisk, disk_block_free, counts, torn>>

SysWrite(p, s) ==
  /\ Calls(p) /\ file[p].mode = "write"
  /\ writes < MaxWrites /\ writes' = writes + 1
  /\ call' = [call EXCEPT ![p] = [Idle EXCEPT !.pc = "load", !.io = "asked", !.data = s]]
  /\ UNCHANGED <<onDisk, disk_block_free, buf, file, crashes, torn>>

\* The bytes that fit at the offset, and the block with them in it.
Offset(p) == Lesser(file[p].offset, BlockSize)
Fits(p) == Lesser(Len(call[p].data), BlockSize - Offset(p))
Patched(p, block) ==
  [o \in Offsets |-> IF o \in Offset(p) .. Offset(p) + Fits(p) - 1
                     THEN call[p].data[o - Offset(p) + 1] ELSE block[o]]

Load(p) ==
  /\ At(p, "load")
  /\ file' = [file EXCEPT ![p].offset = Offset(p)]
  /\ buf' = [buf EXCEPT ![p].block = Patched(p, @)]
  /\ Ask(p, "store")
  /\ UNCHANGED <<onDisk, disk_block_free, counts, torn>>

SizeAfter(p) == IF file[p].size < file[p].offset + Fits(p)
                THEN file[p].offset + Fits(p) ELSE file[p].size

Store(p) ==
  /\ At(p, "store")
  /\ file' = [file EXCEPT ![p].size = SizeAfter(p)]
  /\ Ask(p, "relist")
  /\ UNCHANGED <<onDisk, disk_block_free, buf, counts, torn>>

Relist(p) ==
  /\ At(p, "relist")
  /\ buf' = [buf EXCEPT ![p].list[file[p].slot].size = file[p].size]
  /\ Ask(p, "resize")
  /\ UNCHANGED <<onDisk, disk_block_free, file, counts, torn>>

\* The offset stays where it was.
Resized(p) ==
  /\ At(p, "resize")
  /\ Finish(p)
  /\ UNCHANGED <<onDisk, disk_block_free, file, counts, torn>>
-----------------------------------------------------------------------------
BootedAfresh == FirstFree

\* What is in memory is gone; init_file_system takes the next free block from
\* the superblock if the disk has one.
Booted == IF superblock = 0 THEN FirstFree ELSE superblock

Crash ==
  /\ crashes < MaxCrashes /\ crashes' = crashes + 1
  /\ torn' = (torn \/ \E p \in Procs : \/ At(p, "add")
                                       \/ call[p].pc = "super" /\ call[p].io = "asked")
  /\ disk_block_free' = Booted
  /\ call' = [p \in Procs |-> Idle] /\ buf' = [p \in Procs |-> NoBuf]
  /\ file' = [p \in Procs |-> NoFile]
  /\ UNCHANGED <<onDisk, writes>>

FsNext ==
  \/ Crash
  \/ \E p \in Procs :
       \/ \E n \in Names, m \in {"read", "write"}, c \in BOOLEAN : SysOpen(p, n, m, c)
       \/ Find(p) \/ Grow(p) \/ Add(p) \/ Created(p) \/ Open(p)
       \/ SysClose(p) \/ \E o \in 0 .. BlockSize + 1 : SysLseek(p, o)
       \/ SysRead(p) \/ \E n \in 1 .. BlockSize : Fetch(p, n)
       \/ \E s \in Chunks : SysWrite(p, s)
       \/ Load(p) \/ Store(p) \/ Relist(p) \/ Resized(p)
       \/ Transfer(p)

FsSpec == FsInit /\ [][FsNext]_fsVars
-----------------------------------------------------------------------------
(***************************************************************************)
(* Properties.                                                             *)
(***************************************************************************)
Listed == {list[i].name : i \in Slots} \ {NoName}
Entry(n) == list[First({i \in Slots : list[i].name = n})]
Size(n) == Entry(n).size
Content(n) == [o \in 0 .. Size(n) - 1 |-> blocks[Entry(n).lba][o]]

\* No two files share a block, unless a crash fell between a create's write of
\* the list and its write of the superblock.
DistinctBlocks ==
  torn \/ \A i, j \in Slots :
    i # j /\ list[i] # Empty /\ list[j] # Empty => list[i].lba # list[j].lba

\* A file once in the list stays there, across crashes too.
KeepsFiles == Listed \subseteq Listed'

\* The content of a file changes only by a write of a process that has it open,
\* unless a torn create made two files share a block.
ChangesByWriter ==
  \A n \in Listed : Content(n)' # Content(n) =>
    torn \/ \E p \in Procs : file[p].name = n /\ call[p].pc \in {"store", "resize"}

\* A file shrinks only by a write through a descriptor that was open for
\* writing together with another one: its inode may hold an older size.
ShrinksByShared ==
  \A n \in Listed : Size(n)' < Size(n) =>
    \E p \in Procs : file[p].name = n /\ call[p].pc = "resize" /\ file[p].shared

\* When a write returns, the bytes it reports are part of the file on the disk.
WriteIsOnDisk ==
  \A p \in Procs : At(p, "resize") =>
    LET n == file[p].name IN
    \A k \in 1 .. Fits(p) :
      /\ file[p].offset + k <= Size(n)
      /\ Content(n)[file[p].offset + k - 1] = call[p].data[k]

\* What the disk holds in every state: well-formed files with blocks of their own,
\* and what a write reports (create_file_in_disk, file_write).
FilesOnDisk == FsTypeOK /\ DistinctBlocks /\ WriteIsOnDisk

\* What no step does to a file, crashes included (create_file_in_disk, file_write,
\* init_file_system).
FilesChangeByWriters == [][KeepsFiles /\ ChangesByWriter /\ ShrinksByShared]_fsVars
=============================================================================
