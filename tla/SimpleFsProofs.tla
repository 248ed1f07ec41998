-------------------------- MODULE SimpleFsProofs --------------------------
(***************************************************************************)
(* SimpleFs proved for any number of processes, files and crashes and any  *)
(* sizes, when programs make one file call at a time (Serial).             *)
(***************************************************************************)
EXTENDS SimpleFs, WellFoundedInduction, TLAPS

Sizes ==
  /\ NList \in Nat /\ BlockSize \in Nat \ {0} /\ MaxWrite \in Nat
  /\ MaxWrites \in Nat /\ MaxCrashes \in Nat
  /\ Zero \in Bytes /\ NoName \notin Names

\* Only one process is in a call.
Alone == \A p, q \in Procs : p # q => call[p].pc = "user" \/ call[q].pc = "user"

-----------------------------------------------------------------------------
\* The list and the next free block.  An entry of the list was in use before the
\* counter passed it; the counter on the disk never leads the kernel's.
Adding == \E p \in Procs : At(p, "add")
Creating ==
  \E p \in Procs : At(p, "add") \/ (call[p].pc = "super" /\ call[p].io = "asked")
Counted == disk_block_free - FirstFree

EntriesCounted ==
  /\ Booted <= disk_block_free
  /\ \A i \in Slots : i <= Counted => list[i] # Empty
  /\ \A i, j \in Slots : i < j /\ list[j] # Empty => list[i] # Empty
  /\ Adding => Counted + 1 \in Slots /\ list[Counted + 1] # Empty
  /\ \A i \in Slots : list[i] # Empty => list[i].lba \in Lbas /\ list[i].name \in Names

\* Without a torn create the i-th entry has the i-th block, and the counters are
\* behind only between the two writes of a create.
CountersAgree ==
  ~ torn =>
    /\ \A i \in Slots : list[i] # Empty =>
         list[i].lba = FirstFree + i - 1 /\ (i <= Counted \/ (Adding /\ i = Counted + 1))
    /\ ~ Creating => Booted = disk_block_free
-----------------------------------------------------------------------------
\* An open file is the first entry of its name.
FileIsEntry ==
  \A p \in Procs : file[p] = NoFile \/
    /\ file[p].mode \in {"read", "write"} /\ file[p].name \in Names
    /\ file[p].slot \in Slots
    /\ list[file[p].slot].name = file[p].name /\ list[file[p].slot].lba = file[p].lba
    /\ \A i \in Slots : list[i].name = file[p].name => file[p].slot <= i
    /\ file[p].mode = "read" => file[p].offset <= file[p].size

\* Of two descriptors for writing one file both are marked; the inode of one that
\* is not marked has the size of the file, or a larger one.
WritersMarked ==
  \A p \in Procs : file[p].mode = "write" /\ ~ file[p].shared =>
    /\ list[file[p].slot].size <= file[p].size
    /\ \A q \in Procs \ {p} : ~ (file[q].mode = "write" /\ file[q].name = file[p].name)
-----------------------------------------------------------------------------
\* What a process has in its buffer, and what it has brought to the disk.
OpenArguments(p) ==
  call[p].pc \in {"find", "grow", "add", "super", "open"} =>
    call[p].name \in Names /\ call[p].mode \in {"read", "write"} /\ file[p] = NoFile
HasFile(p) ==
  /\ call[p].pc = "fetch" => file[p].mode = "read"
  /\ call[p].pc \in {"load", "store", "relist", "resize"} =>
       file[p].mode = "write" /\ call[p].data \in Chunks

Vacant == {i \in Slots : list[i] = Empty}
ListRead(p) ==
  /\ call[p].io = "ready" /\ call[p].pc \in {"find", "grow", "open", "relist"} =>
       buf[p].list = list
  /\ call[p].pc = "add" /\ call[p].io = "asked" =>
       /\ Vacant # {}
       /\ buf[p].list = [list EXCEPT ![First(Vacant)] =
                           [name |-> call[p].name, lba |-> disk_block_free, size |-> 0]]
  /\ call[p].pc = "super" /\ call[p].io = "asked" => buf[p].free = disk_block_free
  /\ call[p].pc = "resize" =>
       IF call[p].io = "asked"
       THEN buf[p].list = [list EXCEPT ![file[p].slot].size = file[p].size]
       ELSE list[file[p].slot].size = file[p].size

HoldsData(p, block) ==
  /\ file[p].offset <= BlockSize
  /\ \A k \in 1 .. Fits(p) : block[file[p].offset + k - 1] = call[p].data[k]
DataWritten(p) ==
  /\ call[p].pc = "store" /\ call[p].io = "asked" => HoldsData(p, buf[p].block)
  /\ call[p].pc \in {"relist", "resize"} \/ At(p, "store") =>
       HoldsData(p, blocks[file[p].lba])
  /\ call[p].pc \in {"relist", "resize"} => file[p].offset + Fits(p) <= file[p].size

InCall(p) ==
  /\ call[p].io = "none" <=> call[p].pc = "user"
  /\ OpenArguments(p) /\ HasFile(p) /\ ListRead(p) /\ DataWritten(p)

FsInv ==
  /\ FsTypeOK /\ Alone /\ EntriesCounted /\ CountersAgree /\ FileIsEntry /\ WritersMarked
  /\ \A p \in Procs : InCall(p)

-----------------------------------------------------------------------------
(***************************************************************************)
(* The operators of the model.                                             *)
(***************************************************************************)
LEMMA FirstIs ==
  ASSUME NEW S \in SUBSET Slots, S # {}
  PROVE  First(S) \in S /\ \A j \in S : First(S) <= j
<1>0. S \subseteq Nat
  BY DEF Slots
<1>1. \E f \in S : \A g \in S : ~ (<<g, f>> \in OpToRel(<, Nat))
  BY <1>0, WFMin, NatLessThanWellFounded, Zenon
<1>2. PICK f \in S : \A g \in S : ~ (<<g, f>> \in OpToRel(<, Nat))
  BY <1>1, Zenon
<1>3. ASSUME NEW g \in S PROVE f <= g
  <2>1. ~ (g < f)
    BY <1>0, <1>2, Zenon DEF OpToRel
  <2> QED
    BY <1>0, <2>1
<1> QED
  BY <1>3, Zenon DEF First

\* What a process asks for changes its own request only.
LEMMA AskIs ==
  ASSUME NEW p \in Procs, NEW pc, Ask(p, pc), call \in [Procs -> Requests],
         pc \in {"find", "grow", "add", "super", "open", "load", "store",
                 "relist", "resize", "fetch"}
  PROVE  /\ call' \in [Procs -> Requests]
         /\ \A q \in Procs \ {p} : call'[q] = call[q]
         /\ call'[p].pc = pc /\ call'[p].io = "asked"
         /\ call'[p].name = call[p].name /\ call'[p].mode = call[p].mode
         /\ call'[p].data = call[p].data
<1>1. call' = [call EXCEPT ![p] = [call[p] EXCEPT !.pc = pc, !.io = "asked"]]
  BY DEF Ask
<1>2. call[p] \in Requests
  BY Zenon
<1> DEFINE c == [call[p] EXCEPT !.pc = pc, !.io = "asked"]
<1>3. /\ c \in Requests /\ c.pc = pc /\ c.io = "asked" /\ c.name = call[p].name
      /\ c.mode = call[p].mode /\ c.data = call[p].data
  BY <1>2 DEF Requests
<1> HIDE DEF c
<1>4. call' = [call EXCEPT ![p] = c]
  BY <1>1, Zenon DEF c
<1> QED
  BY <1>3, <1>4

LEMMA NoBufType ==
  ASSUME Sizes
  PROVE  NoBuf \in Buffers
<1>1. Empty \in [name : Names \cup {NoName}, lba : Nat, size : 0 .. BlockSize]
  BY DEF Sizes, Empty
<1>2. [i \in Slots |-> Empty] \in Lists
  BY <1>1, Zenon DEF Lists
<1>3. [o \in Offsets |-> Zero] \in Contents
  BY Zenon DEF Sizes, Contents
<1> QED
  BY <1>2, <1>3 DEF NoBuf, Buffers

LEMMA IdleType == Idle \in Requests /\ Idle.pc = "user" /\ Idle.io = "none"
BY DEF Idle, Requests, Modes

LEMMA NoFileType ==
  ASSUME Sizes
  PROVE  NoFile \in Descriptors /\ NoFile.mode = "none"
BY DEF NoFile, Descriptors, Modes, Sizes

LEMMA FinishIs ==
  ASSUME Sizes, NEW p \in Procs, Finish(p), call \in [Procs -> Requests],
         buf \in [Procs -> Buffers]
  PROVE  /\ call' \in [Procs -> Requests] /\ buf' \in [Procs -> Buffers]
         /\ \A q \in Procs \ {p} : call'[q] = call[q]
         /\ call'[p] = Idle
BY NoBufType, IdleType, Zenon DEF Finish
-----------------------------------------------------------------------------
(***************************************************************************)
(* One call at a time.                                                     *)
(***************************************************************************)
LEMMA OthersInUser ==
  ASSUME FsInv, Serial, NEW p \in Procs, Calls(p) \/ call[p].pc # "user"
  PROVE  \A q \in Procs \ {p} : call[q].pc = "user"
BY Zenon DEF FsInv, Alone, Calls

\* Who is in its program has promised nothing.
LEMMA UserPromisesNothing ==
  ASSUME NEW p \in Procs, (call[p].pc = "user")', (call[p].io = "none")'
  PROVE  InCall(p)'
<1>1. OpenArguments(p)' /\ HasFile(p)'
  BY DEF OpenArguments, HasFile
<1>2. ListRead(p)' /\ DataWritten(p)'
  BY DEF ListRead, DataWritten, At
<1> QED
  BY <1>1, <1>2 DEF InCall

LEMMA InvTypes ==
  ASSUME FsInv
  PROVE  /\ call \in [Procs -> Requests] /\ buf \in [Procs -> Buffers]
         /\ file \in [Procs -> Descriptors]
         /\ superblock \in {0} \cup Lbas /\ disk_block_free \in Lbas
         /\ list \in Lists /\ blocks \in [Lbas -> Contents]
BY Zenon DEF FsInv, FsTypeOK

IsCreating(p) == At(p, "add") \/ (call[p].pc = "super" /\ call[p].io = "asked")

\* A step of p that leaves the disk, the counter and torn alone and does not
\* begin or end the two writes of a create.
LEMMA QuietKeeps ==
  ASSUME FsInv, NEW p \in Procs, UNCHANGED <<superblock, list, disk_block_free, torn>>,
         \A q \in Procs \ {p} : call[q].pc = "user" /\ call'[q] = call[q],
         ~ IsCreating(p), ~ IsCreating(p)'
  PROVE  /\ Alone' /\ EntriesCounted' /\ CountersAgree'
         /\ \A q \in Procs \ {p} : InCall(q)'
<1>1. ~ Adding /\ ~ Adding' /\ ~ Creating /\ ~ Creating'
  <2>1. ASSUME NEW q \in Procs PROVE ~ IsCreating(q) /\ ~ IsCreating(q)'
    <3>1. CASE q = p
      BY <3>1, Zenon
    <3>2. CASE q # p
      <4>1. call[q].pc = "user" /\ call'[q].pc = "user"
        BY <3>2, Zenon
      <4> QED
        BY <4>1 DEF IsCreating, At
    <3> QED
      BY <3>1, <3>2, Zenon
  <2> QED
    BY <2>1, Zenon DEF Adding, Creating, IsCreating
<1>2. Alone'
  <2> SUFFICES ASSUME NEW q \in Procs, NEW r \in Procs, q # r
               PROVE  call'[q].pc = "user" \/ call'[r].pc = "user"
    BY Zenon DEF Alone
  <2>1. q # p \/ r # p
    BY Zenon
  <2>2. ASSUME NEW s \in Procs, s # p PROVE call'[s].pc = "user"
    <3>1. call'[s] = call[s] /\ call[s].pc = "user"
      BY <2>2, Zenon
    <3> QED
      BY <3>1, Zenon
  <2> QED
    BY <2>1, <2>2, Zenon
<1>3. EntriesCounted'
  BY <1>1, Zenon DEF FsInv, EntriesCounted, Booted, Counted
<1>4. CountersAgree'
  BY <1>1, Zenon DEF FsInv, CountersAgree, Booted, Counted
<1>5. ASSUME NEW q \in Procs \ {p} PROVE InCall(q)'
  <2>1. call[q].pc = "user" /\ call[q].io = "none"
    BY Zenon DEF FsInv, InCall
  <2> QED
    BY <2>1, UserPromisesNothing, Zenon
<1> QED
  BY <1>2, <1>3, <1>4, <1>5, Zenon

LEMMA FilesKept ==
  ASSUME FsInv, UNCHANGED <<list, file>>
  PROVE  FileIsEntry' /\ WritersMarked'
BY Zenon DEF FsInv, FileIsEntry, WritersMarked

\* An open file has a block of its own on the disk.
LEMMA FileHasBlock ==
  ASSUME FsInv, Sizes, NEW p \in Procs, file[p].mode # "none"
  PROVE  /\ file[p] # NoFile /\ file[p].slot \in Slots /\ file[p].lba \in Lbas
         /\ list[file[p].slot] # Empty /\ list[file[p].slot].name = file[p].name
         /\ list[file[p].slot].lba = file[p].lba /\ file[p].name \in Names
<1>1. file[p] # NoFile
  BY NoFileType, Zenon
<1>2. /\ file[p].slot \in Slots /\ file[p].name \in Names
      /\ list[file[p].slot].name = file[p].name /\ list[file[p].slot].lba = file[p].lba
  BY <1>1, Zenon DEF FsInv, FileIsEntry
<1>3. list[file[p].slot] # Empty
  BY <1>2 DEF Empty, Sizes
<1>4. file[p].lba \in Lbas
  BY <1>2, <1>3, Zenon DEF FsInv, EntriesCounted
<1> QED
  BY <1>1, <1>2, <1>3, <1>4, Zenon

-----------------------------------------------------------------------------
(***************************************************************************)
(* The steps that leave the disk and the counter alone.                    *)
(***************************************************************************)
\* What is left to show for such a step: the types, the open files and what the
\* process in its call may rely on.
LEMMA QuietStep ==
  ASSUME FsInv, NEW p \in Procs, UNCHANGED <<onDisk, disk_block_free, torn>>,
         \A q \in Procs \ {p} : call[q].pc = "user" /\ call'[q] = call[q],
         ~ IsCreating(p), ~ IsCreating(p)',
         call' \in [Procs -> Requests], buf' \in [Procs -> Buffers],
         file' \in [Procs -> Descriptors],
         writes' \in 0 .. MaxWrites, UNCHANGED crashes,
         InCall(p)', FileIsEntry', WritersMarked'
  PROVE  FsInv'
<1>1. UNCHANGED <<superblock, list, blocks, disk_block_free, torn, crashes>>
  BY Zenon DEF onDisk
<1>2. FsTypeOK'
  BY <1>1, Zenon DEF FsInv, FsTypeOK
<1>3. /\ Alone' /\ EntriesCounted' /\ CountersAgree'
      /\ \A q \in Procs \ {p} : InCall(q)'
  BY <1>1, QuietKeeps, Zenon
<1>4. \A q \in Procs : InCall(q)'
  BY <1>3, Zenon
<1> QED
  BY <1>2, <1>3, <1>4, Zenon DEF FsInv

LEMMA SysOpenKeeps ==
  ASSUME FsInv, Serial, NEW p \in Procs, NEW n \in Names, NEW m \in {"read", "write"},
         NEW c \in BOOLEAN, SysOpen(p, n, m, c)
  PROVE  FsInv'
<1> DEFINE r == [pc |-> IF c THEN "find" ELSE "open", io |-> "asked", name |-> n,
                 mode |-> m, data |-> <<>>]
<1>1. /\ Calls(p) /\ file[p] = NoFile /\ call' = [call EXCEPT ![p] = r]
      /\ UNCHANGED <<onDisk, disk_block_free, torn, buf, file, writes, crashes, list>>
  BY Zenon DEF SysOpen, counts, onDisk
<1>2. /\ r \in Requests /\ r.pc \in {"find", "open"} /\ r.io = "asked" /\ r.name = n
      /\ r.mode = m
  BY DEF Requests, Modes
<1> HIDE DEF r
<1>3. call[p].pc = "user" /\ \A q \in Procs \ {p} : call[q].pc = "user"
  BY <1>1, OthersInUser, Zenon DEF Calls
<1>4. /\ call' \in [Procs -> Requests] /\ call'[p] = r
      /\ \A q \in Procs \ {p} : call'[q] = call[q]
  BY <1>1, <1>2, InvTypes, Zenon
<1>5. ~ IsCreating(p) /\ ~ IsCreating(p)'
  BY <1>2, <1>3, <1>4 DEF IsCreating, At
<1>6. InCall(p)'
  <2>1. OpenArguments(p)'
    BY <1>1, <1>2, <1>4, Zenon DEF OpenArguments
  <2>2. HasFile(p)' /\ ListRead(p)' /\ DataWritten(p)'
    BY <1>2, <1>4 DEF HasFile, ListRead, DataWritten, At
  <2> QED
    BY <1>2, <1>4, <2>1, <2>2 DEF InCall
<1>7. buf' \in [Procs -> Buffers] /\ file' \in [Procs -> Descriptors] /\ writes' \in 0 .. MaxWrites
  BY <1>1, Zenon DEF FsInv, FsTypeOK
<1> QED
  BY <1>1, <1>3, <1>4, <1>5, <1>6, <1>7, FilesKept, QuietStep, Zenon

\* Find and Created: the next request of an open.
LEMMA OpenAsksKeeps ==
  ASSUME FsInv, Serial, NEW p \in Procs, Find(p) \/ Created(p)
  PROVE  FsInv'
<1>1. PICK pc \in {"grow", "open"} :
        /\ At(p, "find") \/ At(p, "super")
        /\ Ask(p, pc)
        /\ UNCHANGED <<onDisk, disk_block_free, torn, buf, file, writes, crashes, list>>
  BY Zenon DEF Find, Created, counts, onDisk
<1>2. call[p].pc \in {"find", "super"} /\ call[p].io = "ready"
  BY <1>1, Zenon DEF At
<1>3. \A q \in Procs \ {p} : call[q].pc = "user"
  <2>1. call[p].pc # "user"
    BY <1>2
  <2> QED
    BY <2>1, OthersInUser, Zenon
<1>4. /\ call' \in [Procs -> Requests]
      /\ \A q \in Procs \ {p} : call'[q] = call[q]
      /\ call'[p].pc = pc /\ call'[p].io = "asked"
      /\ call'[p].name = call[p].name /\ call'[p].mode = call[p].mode
  BY <1>1, InvTypes, AskIs
<1>5. ~ IsCreating(p) /\ ~ IsCreating(p)'
  BY <1>2, <1>4 DEF IsCreating, At
<1>6. InCall(p)'
  <2>0. call[p].name \in Names /\ call[p].mode \in {"read", "write"} /\ file[p] = NoFile
    BY <1>2, Zenon DEF FsInv, InCall, OpenArguments
  <2>1. OpenArguments(p)'
    BY <1>1, <1>4, <2>0, Zenon DEF OpenArguments
  <2>2. HasFile(p)' /\ ListRead(p)' /\ DataWritten(p)'
    BY <1>4 DEF HasFile, ListRead, DataWritten, At
  <2> QED
    BY <1>4, <2>1, <2>2 DEF InCall
<1>7. buf' \in [Procs -> Buffers] /\ file' \in [Procs -> Descriptors] /\ writes' \in 0 .. MaxWrites
  BY <1>1, Zenon DEF FsInv, FsTypeOK
<1> QED
  BY <1>1, <1>3, <1>4, <1>5, <1>6, <1>7, FilesKept, QuietStep, Zenon

\* p moves its offset or its inode grows.
LEMMA SameFile ==
  ASSUME FsInv, Sizes, NEW p \in Procs, NEW f \in Descriptors, file[p].mode # "none",
         file' = [file EXCEPT ![p] = f], UNCHANGED list,
         f.name = file[p].name, f.mode = file[p].mode, f.lba = file[p].lba,
         f.slot = file[p].slot, f.shared = file[p].shared, f.size >= file[p].size,
         f.mode = "read" => f.offset <= f.size
  PROVE  file' \in [Procs -> Descriptors] /\ FileIsEntry' /\ WritersMarked'
<1>1. /\ file' \in [Procs -> Descriptors] /\ file'[p] = f
      /\ \A q \in Procs : q # p => file'[q] = file[q]
  BY InvTypes, Zenon
<1>2. \A q \in Procs : /\ file'[q].name = file[q].name /\ file'[q].mode = file[q].mode
                       /\ file'[q].slot = file[q].slot /\ file'[q].shared = file[q].shared
  BY <1>1, Zenon
<1>3. FileIsEntry'
  <2> SUFFICES ASSUME NEW q \in Procs, file'[q] # NoFile
               PROVE  /\ file'[q].mode \in {"read", "write"} /\ file'[q].name \in Names
                      /\ file'[q].slot \in Slots
                      /\ list[file'[q].slot].name = file'[q].name
                      /\ list[file'[q].slot].lba = file'[q].lba
                      /\ \A i \in Slots : list[i].name = file'[q].name => file'[q].slot <= i
                      /\ file'[q].mode = "read" => file'[q].offset <= file'[q].size
    BY Zenon DEF FileIsEntry
  <2>1. CASE q = p
    <3>1. file[p] # NoFile
      BY FileHasBlock, Zenon
    <3> QED
      <4>1. /\ file[p].mode \in {"read", "write"} /\ file[p].name \in Names
            /\ file[p].slot \in Slots
            /\ list[file[p].slot].name = file[p].name
            /\ list[file[p].slot].lba = file[p].lba
            /\ \A i \in Slots : list[i].name = file[p].name => file[p].slot <= i
        BY <3>1, Zenon DEF FsInv, FileIsEntry
      <4>2. file'[q] = f
        BY <1>1, <2>1, Zenon
      <4> QED
        BY <4>1, <4>2
  <2>2. CASE q # p
    BY <1>1, <2>2, Zenon DEF FsInv, FileIsEntry
  <2> QED
    BY <2>1, <2>2, Zenon
<1>4. WritersMarked'
  <2> SUFFICES ASSUME NEW q \in Procs, file'[q].mode = "write", ~ file'[q].shared
               PROVE  /\ list[file'[q].slot].size <= file'[q].size
                      /\ \A r \in Procs \ {q} :
                           ~ (file'[r].mode = "write" /\ file'[r].name = file'[q].name)
    BY Zenon DEF WritersMarked
  <2>1. /\ list[file[q].slot].size <= file[q].size
        /\ \A r \in Procs \ {q} : ~ (file[r].mode = "write" /\ file[r].name = file[q].name)
    BY <1>2, Zenon DEF FsInv, WritersMarked
  <2>2. list[file'[q].slot].size <= file'[q].size
    <3>1. CASE q = p
      <4>1. list[file[p].slot].size \in Nat /\ file[p].size \in Nat /\ f.size \in Nat
        <5>1. file[p].slot \in Slots /\ file[p] \in Descriptors /\ list \in Lists
          BY FileHasBlock, InvTypes, Zenon
        <5> QED
          BY <5>1 DEF Lists, Descriptors, Sizes
      <4>2. list[file[p].slot].size <= f.size
        BY <2>1, <3>1, <4>1
      <4> QED
        BY <1>1, <1>2, <3>1, <4>2, Zenon
    <3>2. CASE q # p
      BY <1>1, <2>1, <3>2, Zenon
    <3> QED
      BY <3>1, <3>2, Zenon
  <2> QED
    BY <1>2, <2>1, <2>2, Zenon
<1> QED
  BY <1>1, <1>3, <1>4, Zenon

LEMMA SysCloseKeeps ==
  ASSUME FsInv, Sizes, Serial, NEW p \in Procs, SysClose(p)
  PROVE  FsInv'
<1>1. /\ Calls(p) /\ file' = [file EXCEPT ![p] = NoFile]
      /\ UNCHANGED <<onDisk, disk_block_free, torn, buf, call, writes, crashes, list>>
  BY Zenon DEF SysClose, counts, onDisk
<1>2. call[p].pc = "user" /\ \A q \in Procs \ {p} : call[q].pc = "user"
  BY <1>1, OthersInUser, Zenon DEF Calls
<1>3. ~ IsCreating(p) /\ ~ IsCreating(p)'
  BY <1>1, <1>2 DEF IsCreating, At
<1>4. InCall(p)'
  BY <1>1, <1>2, UserPromisesNothing, Zenon DEF FsInv, InCall
<1>5. /\ file' \in [Procs -> Descriptors] /\ file'[p] = NoFile
      /\ \A q \in Procs : q # p => file'[q] = file[q]
  BY <1>1, InvTypes, NoFileType, Zenon
<1>6. FileIsEntry'
  BY <1>1, <1>5, Zenon DEF FsInv, FileIsEntry
<1>7. WritersMarked'
  <2>1. \A q \in Procs : file'[q].mode = "write" => file'[q] = file[q]
    BY <1>5, NoFileType
  <2> QED
    BY <1>1, <2>1, Zenon DEF FsInv, WritersMarked
<1>8. /\ buf' \in [Procs -> Buffers] /\ writes' \in 0 .. MaxWrites
      /\ call' \in [Procs -> Requests]
  BY <1>1, Zenon DEF FsInv, FsTypeOK
<1>9. \A q \in Procs \ {p} : call'[q] = call[q]
  BY <1>1, Zenon
<1> QED
  BY <1>1, <1>2, <1>3, <1>4, <1>5, <1>6, <1>7, <1>8, <1>9, QuietStep, Zenon

LEMMA SysLseekKeeps ==
  ASSUME FsInv, Sizes, Serial, NEW p \in Procs, NEW o \in 0 .. BlockSize + 1, SysLseek(p, o)
  PROVE  FsInv'
<1> DEFINE f == [file[p] EXCEPT !.offset = o]
<1>1. /\ Calls(p) /\ file' = [file EXCEPT ![p] = f] /\ file[p] # NoFile
      /\ file[p].mode = "read" => o <= file[p].size
      /\ UNCHANGED <<onDisk, disk_block_free, torn, buf, call, writes, crashes, list>>
  BY DEF SysLseek, counts, onDisk
<1>2. call[p].pc = "user" /\ \A q \in Procs \ {p} : call[q].pc = "user"
  BY <1>1, OthersInUser, Zenon DEF Calls
<1>3. ~ IsCreating(p) /\ ~ IsCreating(p)'
  BY <1>1, <1>2 DEF IsCreating, At
<1>4. InCall(p)'
  BY <1>1, <1>2, UserPromisesNothing, Zenon DEF FsInv, InCall
<1>5. file[p] \in Descriptors
  BY InvTypes, Zenon
<1>6. /\ f \in Descriptors /\ f.name = file[p].name /\ f.mode = file[p].mode
      /\ f.lba = file[p].lba /\ f.slot = file[p].slot /\ f.shared = file[p].shared
      /\ f.size = file[p].size /\ f.offset = o /\ f.size >= file[p].size
  BY <1>5 DEF Descriptors, Sizes
<1>7. file[p].mode # "none"
  <2>1. file[p].mode \in {"read", "write"}
    BY <1>1, Zenon DEF FsInv, FileIsEntry
  <2> QED
    BY <2>1
<1> HIDE DEF f
<1>8. file' \in [Procs -> Descriptors] /\ FileIsEntry' /\ WritersMarked'
  BY <1>1, <1>6, <1>7, SameFile, Zenon
<1>9. /\ buf' \in [Procs -> Buffers] /\ writes' \in 0 .. MaxWrites
      /\ call' \in [Procs -> Requests] /\ \A q \in Procs \ {p} : call'[q] = call[q]
  BY <1>1, Zenon DEF FsInv, FsTypeOK
<1> QED
  BY <1>1, <1>2, <1>3, <1>4, <1>8, <1>9, QuietStep, Zenon

\* SysRead and SysWrite: the first request of a read or a write.
LEMMA FileCallKeeps ==
  ASSUME FsInv, Sizes, Serial, NEW p \in Procs, SysRead(p) \/ \E s \in Chunks : SysWrite(p, s)
  PROVE  FsInv'
<1>1. /\ Calls(p) /\ UNCHANGED <<onDisk, disk_block_free, torn, buf, file, crashes, list>>
      /\ \/ file[p].mode = "read" /\ Ask(p, "fetch") /\ UNCHANGED writes
         \/ /\ file[p].mode = "write" /\ writes < MaxWrites /\ writes' = writes + 1
            /\ \E s \in Chunks : call' = [call EXCEPT ![p] =
                 [Idle EXCEPT !.pc = "load", !.io = "asked", !.data = s]]
  BY Zenon DEF SysRead, SysWrite, counts, onDisk
<1>2. call[p].pc = "user" /\ \A q \in Procs \ {p} : call[q].pc = "user"
  BY <1>1, OthersInUser, Zenon DEF Calls
<1>3. /\ call' \in [Procs -> Requests] /\ \A q \in Procs \ {p} : call'[q] = call[q]
      /\ call'[p].io = "asked"
      /\ \/ call'[p].pc = "fetch" /\ file[p].mode = "read"
         \/ call'[p].pc = "load" /\ file[p].mode = "write" /\ call'[p].data \in Chunks
  <2>1. CASE file[p].mode = "read" /\ Ask(p, "fetch")
    BY <2>1, InvTypes, AskIs
  <2>2. CASE /\ file[p].mode = "write"
             /\ \E s \in Chunks : call' = [call EXCEPT ![p] =
                  [Idle EXCEPT !.pc = "load", !.io = "asked", !.data = s]]
    <3>1. PICK s \in Chunks : call' = [call EXCEPT ![p] =
            [Idle EXCEPT !.pc = "load", !.io = "asked", !.data = s]]
      BY <2>2, Zenon
    <3> DEFINE r == [Idle EXCEPT !.pc = "load", !.io = "asked", !.data = s]
    <3>2. r \in Requests /\ r.pc = "load" /\ r.io = "asked" /\ r.data = s
      BY IdleType DEF Requests
    <3> HIDE DEF r
    <3>3. call' = [call EXCEPT ![p] = r]
      BY <3>1, Zenon DEF r
    <3> QED
      BY <2>2, <3>2, <3>3, InvTypes, Zenon
  <2> QED
    BY <1>1, <2>1, <2>2, Zenon
<1>4. ~ IsCreating(p) /\ ~ IsCreating(p)'
  BY <1>2, <1>3 DEF IsCreating, At
<1>5. InCall(p)'
  <2>1. HasFile(p)'
    BY <1>1, <1>3 DEF HasFile
  <2>2. OpenArguments(p)' /\ ListRead(p)' /\ DataWritten(p)'
    BY <1>3 DEF OpenArguments, ListRead, DataWritten, At
  <2> QED
    BY <1>3, <2>1, <2>2 DEF InCall
<1>6. buf' \in [Procs -> Buffers] /\ file' \in [Procs -> Descriptors]
  BY <1>1, InvTypes, Zenon
<1>7. writes' \in 0 .. MaxWrites
  <2>1. writes \in 0 .. MaxWrites
    BY Zenon DEF FsInv, FsTypeOK
  <2>2. writes' = writes \/ (writes < MaxWrites /\ writes' = writes + 1)
    BY <1>1, Zenon
  <2> QED
    BY <2>1, <2>2 DEF Sizes
<1> QED
  BY <1>1, <1>2, <1>3, <1>4, <1>5, <1>6, <1>7, FilesKept, QuietStep, Zenon

LEMMA FetchKeeps ==
  ASSUME FsInv, Sizes, Serial, NEW p \in Procs, NEW n \in 1 .. BlockSize, Fetch(p, n)
  PROVE  FsInv'
<1> DEFINE f == [file[p] EXCEPT !.offset = file[p].offset + Lesser(n, file[p].size - file[p].offset)]
<1>1. /\ At(p, "fetch") /\ file' = [file EXCEPT ![p] = f] /\ Finish(p)
      /\ UNCHANGED <<onDisk, disk_block_free, torn, writes, crashes, list>>
  BY DEF Fetch, counts, onDisk
<1>2. call[p].pc = "fetch" /\ call[p].io = "ready" /\ call[p].pc # "user"
  BY <1>1 DEF At
<1>3. \A q \in Procs \ {p} : call[q].pc = "user"
  BY <1>2, OthersInUser, Zenon
<1>4. /\ call' \in [Procs -> Requests] /\ buf' \in [Procs -> Buffers]
      /\ \A q \in Procs \ {p} : call'[q] = call[q]
      /\ call'[p].pc = "user" /\ call'[p].io = "none"
  BY <1>1, InvTypes, FinishIs, IdleType, Zenon
<1>5. ~ IsCreating(p) /\ ~ IsCreating(p)'
  BY <1>2, <1>4 DEF IsCreating, At
<1>6. InCall(p)'
  BY <1>4, UserPromisesNothing, Zenon
<1>7. file[p].mode = "read"
  BY <1>2, Zenon DEF FsInv, InCall, HasFile
<1>8. file[p] \in Descriptors /\ file[p].mode # "none"
  BY <1>7, InvTypes
<1>9. file[p].offset <= file[p].size
  BY <1>7, <1>8, FileHasBlock, Zenon DEF FsInv, FileIsEntry
<1>10. /\ f \in Descriptors /\ f.name = file[p].name /\ f.mode = file[p].mode
       /\ f.lba = file[p].lba /\ f.slot = file[p].slot /\ f.shared = file[p].shared
       /\ f.size >= file[p].size /\ f.offset <= f.size
  BY <1>8, <1>9 DEF Descriptors, Sizes, Lesser
<1> HIDE DEF f
<1>11. file' \in [Procs -> Descriptors] /\ FileIsEntry' /\ WritersMarked'
  BY <1>1, <1>8, <1>10, SameFile, Zenon
<1>12. writes' \in 0 .. MaxWrites
  BY <1>1, Zenon DEF FsInv, FsTypeOK
<1> QED
  BY <1>1, <1>3, <1>4, <1>5, <1>6, <1>11, <1>12, QuietStep, Zenon

LEMMA ResizedKeeps ==
  ASSUME FsInv, Sizes, Serial, NEW p \in Procs, Resized(p)
  PROVE  FsInv'
<1>1. /\ At(p, "resize") /\ Finish(p)
      /\ UNCHANGED <<onDisk, disk_block_free, torn, writes, crashes, list, file>>
  BY Zenon DEF Resized, counts, onDisk
<1>2. call[p].pc = "resize" /\ call[p].io = "ready" /\ call[p].pc # "user"
  BY <1>1 DEF At
<1>3. \A q \in Procs \ {p} : call[q].pc = "user"
  BY <1>2, OthersInUser, Zenon
<1>4. /\ call' \in [Procs -> Requests] /\ buf' \in [Procs -> Buffers]
      /\ \A q \in Procs \ {p} : call'[q] = call[q]
      /\ call'[p].pc = "user" /\ call'[p].io = "none"
  BY <1>1, InvTypes, FinishIs, IdleType, Zenon
<1>5. ~ IsCreating(p) /\ ~ IsCreating(p)'
  BY <1>2, <1>4 DEF IsCreating, At
<1>6. InCall(p)'
  BY <1>4, UserPromisesNothing, Zenon
<1>7. file' \in [Procs -> Descriptors] /\ writes' \in 0 .. MaxWrites
  BY <1>1, Zenon DEF FsInv, FsTypeOK
<1> QED
  BY <1>1, <1>3, <1>4, <1>5, <1>6, <1>7, FilesKept, QuietStep, Zenon

\* The open of an existing file finds its first entry, marks the descriptors that
\* write the same file, and is marked if there are any.
LEMMA OpenedIs ==
  ASSUME FsInv, Sizes, NEW p \in Procs, At(p, "open"), Matches(p) # {}
  PROVE  LET f == Opened(p, First(Matches(p)))
         IN  /\ f \in [Procs -> Descriptors]
             /\ file' = f /\ UNCHANGED list => FileIsEntry' /\ WritersMarked'
<1> DEFINE i == First(Matches(p))
           e == list[i]
           w == call[p].mode = "write"
           others == IF w THEN Others(p, e.name) ELSE {}
           mine == [name |-> e.name, mode |-> call[p].mode, lba |-> e.lba, size |-> e.size,
                    slot |-> i, offset |-> IF w THEN e.size ELSE 0, shared |-> others # {}]
           f == Opened(p, i)
<1>1. /\ buf[p].list = list /\ call[p].name \in Names /\ call[p].mode \in {"read", "write"}
      /\ file[p] = NoFile
  BY Zenon DEF FsInv, InCall, ListRead, OpenArguments, At
<1>2. Matches(p) = {j \in Slots : list[j].name = call[p].name}
  BY <1>1, Zenon DEF Matches
<1>3. /\ i \in Slots /\ e.name = call[p].name
      /\ \A j \in Slots : list[j].name = call[p].name => i <= j
  BY <1>2, FirstIs, Zenon
<1>4. f = [q \in Procs |-> IF q = p THEN mine
                           ELSE [file[q] EXCEPT !.shared = file[q].shared \/ q \in others]]
  BY <1>1 DEF Opened
<1>5. e \in [name : Names \cup {NoName}, lba : Nat, size : 0 .. BlockSize]
  BY <1>3, InvTypes, Zenon DEF Lists
<1>6. /\ mine \in Descriptors /\ mine.name = e.name /\ mine.mode = call[p].mode
      /\ mine.lba = e.lba /\ mine.size = e.size /\ mine.slot = i
      /\ mine.shared = (others # {}) /\ (mine.mode = "read" => mine.offset = 0)
  <2> DEFINE o == IF w THEN e.size ELSE 0
             d == others # {}
  <2>1. o \in 0 .. BlockSize + 1 /\ (call[p].mode = "read" => o = 0)
    BY <1>5 DEF Sizes
  <2>2. d \in BOOLEAN
    BY Zenon
  <2>3. /\ e.name \in Names \cup {NoName} /\ e.lba \in Nat
        /\ e.size \in 0 .. BlockSize /\ call[p].mode \in Modes /\ i \in Nat
    BY <1>1, <1>3, <1>5 DEF Modes, Slots, Sizes
  <2>4. mine = [name |-> e.name, mode |-> call[p].mode, lba |-> e.lba, size |-> e.size,
                slot |-> i, offset |-> o, shared |-> d]
    BY Zenon
  <2> HIDE DEF mine, e, i, w, o, d
  <2>5. mine.shared = d /\ mine.offset = o /\ mine.mode = call[p].mode
    BY <2>4
  <2>6. mine.name = e.name /\ mine.lba = e.lba /\ mine.size = e.size /\ mine.slot = i
    BY <2>4
  <2>7. mine \in Descriptors
    BY <2>1, <2>2, <2>3, <2>4 DEF Descriptors
  <2> QED BY <2>1, <2>5, <2>6, <2>7, Zenon DEF d
<1>7. ASSUME NEW q \in Procs, q # p
      PROVE  LET g == [file[q] EXCEPT !.shared = file[q].shared \/ q \in others]
             IN  /\ g \in Descriptors /\ g.name = file[q].name /\ g.mode = file[q].mode
                 /\ g.lba = file[q].lba /\ g.size = file[q].size /\ g.slot = file[q].slot
                 /\ g.offset = file[q].offset /\ (g.shared <=> file[q].shared \/ q \in others)
                 /\ (file[q] = NoFile => g = NoFile)
  <2>1. file[q] \in Descriptors
    BY InvTypes, Zenon
  <2>2. file[q] = NoFile => q \notin others
    BY NoFileType DEF Others
  <2> QED
    BY <2>1, <2>2 DEF Descriptors, NoFile
<1> HIDE DEF mine, e, i, w, others, f
<1>8. /\ f \in [Procs -> Descriptors] /\ f[p] = mine
      /\ \A q \in Procs : q # p =>
           /\ f[q].name = file[q].name /\ f[q].mode = file[q].mode
           /\ f[q].lba = file[q].lba /\ f[q].size = file[q].size /\ f[q].slot = file[q].slot
           /\ f[q].offset = file[q].offset /\ (f[q].shared <=> file[q].shared \/ q \in others)
           /\ (file[q] = NoFile => f[q] = NoFile)
  BY <1>4, <1>6, <1>7, Zenon
<1>9. ASSUME file' = f, UNCHANGED list PROVE FileIsEntry'
  <2> SUFFICES ASSUME NEW q \in Procs, f[q] # NoFile
               PROVE  /\ f[q].mode \in {"read", "write"} /\ f[q].name \in Names
                      /\ f[q].slot \in Slots
                      /\ list[f[q].slot].name = f[q].name
                      /\ list[f[q].slot].lba = f[q].lba
                      /\ \A j \in Slots : list[j].name = f[q].name => f[q].slot <= j
                      /\ f[q].mode = "read" => f[q].offset <= f[q].size
    BY <1>9, Zenon DEF FileIsEntry
  <2>1. CASE q = p
    <3>1. mine.mode = "read" => mine.offset <= mine.size
      BY <1>5, <1>6
    <3>2. /\ mine.mode \in {"read", "write"} /\ mine.name \in Names
          /\ mine.slot \in Slots /\ list[mine.slot].name = mine.name
          /\ list[mine.slot].lba = mine.lba
          /\ \A j \in Slots : list[j].name = mine.name => mine.slot <= j
      BY <1>1, <1>3, <1>6, Zenon DEF e
    <3> QED
      BY <1>8, <2>1, <3>1, <3>2, Zenon
  <2>2. CASE q # p
    <3>1. /\ file[q].mode \in {"read", "write"} /\ file[q].name \in Names
          /\ file[q].slot \in Slots
          /\ list[file[q].slot].name = file[q].name
          /\ list[file[q].slot].lba = file[q].lba
          /\ \A j \in Slots : list[j].name = file[q].name => file[q].slot <= j
          /\ file[q].mode = "read" => file[q].offset <= file[q].size
      BY <1>8, <2>2, Zenon DEF FsInv, FileIsEntry
    <3> QED
      BY <1>8, <2>2, <3>1, Zenon
  <2> QED
    BY <2>1, <2>2, Zenon
<1>10. ASSUME file' = f, UNCHANGED list PROVE WritersMarked'
  <2> SUFFICES ASSUME NEW q \in Procs, f[q].mode = "write", ~ f[q].shared
               PROVE  /\ list[f[q].slot].size <= f[q].size
                      /\ \A r \in Procs \ {q} : ~ (f[r].mode = "write" /\ f[r].name = f[q].name)
    BY <1>10, Zenon DEF WritersMarked
  <2>1. CASE q = p
    <3>1. call[p].mode = "write" /\ Others(p, e.name) = {}
      BY <1>6, <1>8, <2>1, Zenon DEF others, w
    <3>2. ASSUME NEW r \in Procs, r # p PROVE ~ (f[r].mode = "write" /\ f[r].name = e.name)
      <4>1. ~ (file[r].name = e.name /\ file[r].mode = "write")
        BY <3>1, <3>2, Zenon DEF Others
      <4> QED BY <1>8, <3>2, <4>1, Zenon
    <3>3. list[mine.slot].size <= mine.size
      BY <1>5, <1>6 DEF e
    <3> QED
      BY <1>6, <1>8, <2>1, <3>2, <3>3, Zenon
  <2>2. CASE q # p
    <3>1. /\ list[file[q].slot].size <= file[q].size
          /\ \A r \in Procs \ {q} : ~ (file[r].mode = "write" /\ file[r].name = file[q].name)
      BY <1>8, <2>2, Zenon DEF FsInv, WritersMarked
    <3>2. ~ (mine.mode = "write" /\ mine.name = file[q].name)
      <4>1. q \notin others /\ file[q].mode = "write"
        BY <1>8, <2>2, Zenon
      <4>2. ASSUME call[p].mode = "write" PROVE file[q].name # e.name
        BY <2>2, <4>1, <4>2, Zenon DEF others, w, Others
      <4> QED BY <1>6, <4>2, Zenon
    <3> QED
      BY <1>8, <2>2, <3>1, <3>2, Zenon
  <2> QED
    BY <2>1, <2>2, Zenon
<1> QED
  BY <1>8, <1>9, <1>10, Zenon DEF f, i

LEMMA OpenKeeps ==
  ASSUME FsInv, Sizes, Serial, NEW p \in Procs, Open(p)
  PROVE  FsInv'
<1>1. /\ At(p, "open") /\ Finish(p)
      /\ file' = IF Matches(p) = {} THEN file ELSE Opened(p, First(Matches(p)))
      /\ UNCHANGED <<onDisk, disk_block_free, torn, writes, crashes, list>>
  BY Zenon DEF Open, counts, onDisk
<1>2. call[p].pc = "open" /\ call[p].io = "ready" /\ call[p].pc # "user"
  BY <1>1 DEF At
<1>3. \A q \in Procs \ {p} : call[q].pc = "user"
  BY <1>2, OthersInUser, Zenon
<1>4. /\ call' \in [Procs -> Requests] /\ buf' \in [Procs -> Buffers]
      /\ \A q \in Procs \ {p} : call'[q] = call[q]
      /\ call'[p].pc = "user" /\ call'[p].io = "none"
  BY <1>1, InvTypes, FinishIs, IdleType, Zenon
<1>5. ~ IsCreating(p) /\ ~ IsCreating(p)'
  BY <1>2, <1>4 DEF IsCreating, At
<1>6. InCall(p)'
  BY <1>4, UserPromisesNothing, Zenon
<1>7. file' \in [Procs -> Descriptors] /\ FileIsEntry' /\ WritersMarked'
  <2>1. CASE Matches(p) = {}
    BY <1>1, <2>1, InvTypes, FilesKept, Zenon
  <2>2. CASE Matches(p) # {}
    BY <1>1, <2>2, OpenedIs, Zenon
  <2> QED
    BY <2>1, <2>2, Zenon
<1>8. writes' \in 0 .. MaxWrites
  BY <1>1, Zenon DEF FsInv, FsTypeOK
<1> QED
  BY <1>1, <1>3, <1>4, <1>5, <1>6, <1>7, <1>8, QuietStep, Zenon

\* An entry of the list may be replaced by any other.
LEMMA ListUpdate ==
  ASSUME FsInv, NEW p \in Procs, NEW l \in Lists
  PROVE  LET b == [buf EXCEPT ![p] = [buf[p] EXCEPT !.list = l]]
         IN  /\ b \in [Procs -> Buffers] /\ b[p].list = l
             /\ b[p].block = buf[p].block /\ b[p].free = buf[p].free
<1> DEFINE r == [buf[p] EXCEPT !.list = l]
<1>1. buf[p] \in Buffers
  BY InvTypes, Zenon
<1>2. r \in Buffers /\ r.list = l /\ r.block = buf[p].block /\ r.free = buf[p].free
  BY <1>1 DEF Buffers
<1> HIDE DEF r
<1>3. LET b == [buf EXCEPT ![p] = r] IN b \in [Procs -> Buffers] /\ b[p] = r
  BY <1>2, InvTypes, Zenon
<1> QED
  BY <1>2, <1>3, Zenon DEF r

LEMMA GrowKeeps ==
  ASSUME FsInv, Sizes, Serial, NEW p \in Procs, Grow(p)
  PROVE  FsInv'
<1> DEFINE x == [name |-> call[p].name, lba |-> disk_block_free, size |-> 0]
           l == [list EXCEPT ![First(Vacant)] = x]
<1>1. /\ At(p, "grow") /\ Unused(p) # {} /\ Ask(p, "add")
      /\ buf' = [buf EXCEPT ![p].list[NewSlot(p)] = x]
      /\ UNCHANGED <<onDisk, disk_block_free, torn, writes, crashes, list, file>>
  BY Zenon DEF Grow, counts, onDisk
<1>2. call[p].pc = "grow" /\ call[p].io = "ready" /\ call[p].pc # "user"
  BY <1>1 DEF At
<1>3. \A q \in Procs \ {p} : call[q].pc = "user"
  BY <1>2, OthersInUser, Zenon
<1>4. /\ call' \in [Procs -> Requests]
      /\ \A q \in Procs \ {p} : call'[q] = call[q]
      /\ call'[p].pc = "add" /\ call'[p].io = "asked"
      /\ call'[p].name = call[p].name /\ call'[p].mode = call[p].mode
  BY <1>1, InvTypes, AskIs
<1>5. ~ IsCreating(p) /\ ~ IsCreating(p)'
  BY <1>2, <1>4 DEF IsCreating, At
<1>6. /\ buf[p].list = list /\ call[p].name \in Names /\ call[p].mode \in {"read", "write"}
      /\ file[p] = NoFile
  BY <1>2, Zenon DEF FsInv, InCall, ListRead, OpenArguments
<1>7. Unused(p) = Vacant /\ NewSlot(p) = First(Vacant)
  BY <1>6, Zenon DEF Unused, Vacant, NewSlot
<1>8. l \in Lists
  <2>1. list \in Lists /\ disk_block_free \in Nat
    BY InvTypes DEF Lbas, FirstFree
  <2>2. x \in [name : Names \cup {NoName}, lba : Nat, size : 0 .. BlockSize]
    BY <1>6, <2>1 DEF Sizes
  <2> QED
    BY <2>1, <2>2, Zenon DEF Lists
<1>9. buf' = [buf EXCEPT ![p] = [buf[p] EXCEPT !.list = l]]
  BY <1>1, <1>6, <1>7
<1> HIDE DEF l, x
<1>10. buf' \in [Procs -> Buffers] /\ buf'[p].list = l
  BY <1>8, <1>9, ListUpdate, Zenon
<1>11. InCall(p)'
  <2>1. OpenArguments(p)'
    BY <1>1, <1>4, <1>6, Zenon DEF OpenArguments
  <2>2. Vacant # {} /\ Vacant' = Vacant
    BY <1>1, <1>7, Zenon DEF Vacant
  <2>3. ListRead(p)'
    <3>1. buf'[p].list = [list EXCEPT ![First(Vacant')] =
            [name |-> call'[p].name, lba |-> disk_block_free, size |-> 0]]
      BY <1>4, <1>10, <2>2, Zenon DEF l, x
    <3> QED
      BY <1>1, <1>4, <2>2, <3>1 DEF ListRead
  <2>4. HasFile(p)' /\ DataWritten(p)'
    BY <1>4 DEF HasFile, DataWritten, At
  <2> QED
    BY <1>4, <2>1, <2>3, <2>4 DEF InCall
<1>12. file' \in [Procs -> Descriptors] /\ writes' \in 0 .. MaxWrites
  BY <1>1, Zenon DEF FsInv, FsTypeOK
<1> QED
  BY <1>1, <1>3, <1>4, <1>5, <1>10, <1>11, <1>12, FilesKept, QuietStep, Zenon

LEMMA RelistKeeps ==
  ASSUME FsInv, Sizes, Serial, NEW p \in Procs, Relist(p)
  PROVE  FsInv'
<1> DEFINE l == [list EXCEPT ![file[p].slot].size = file[p].size]
<1>1. /\ At(p, "relist") /\ Ask(p, "resize")
      /\ buf' = [buf EXCEPT ![p].list[file[p].slot].size = file[p].size]
      /\ UNCHANGED <<onDisk, disk_block_free, torn, writes, crashes, list, file, blocks>>
  BY Zenon DEF Relist, counts, onDisk
<1>2. call[p].pc = "relist" /\ call[p].io = "ready" /\ call[p].pc # "user"
  BY <1>1 DEF At
<1>3. \A q \in Procs \ {p} : call[q].pc = "user"
  BY <1>2, OthersInUser, Zenon
<1>4. /\ call' \in [Procs -> Requests]
      /\ \A q \in Procs \ {p} : call'[q] = call[q]
      /\ call'[p].pc = "resize" /\ call'[p].io = "asked"
      /\ call'[p].data = call[p].data
  BY <1>1, InvTypes, AskIs
<1>5. ~ IsCreating(p) /\ ~ IsCreating(p)'
  BY <1>2, <1>4 DEF IsCreating, At
<1>6. /\ buf[p].list = list /\ file[p].mode = "write" /\ call[p].data \in Chunks
      /\ HoldsData(p, blocks[file[p].lba]) /\ file[p].offset + Fits(p) <= file[p].size
  BY <1>2, Zenon DEF FsInv, InCall, ListRead, HasFile, DataWritten
<1>7. l \in Lists
  <2>1. list \in Lists /\ file[p].slot \in Slots /\ file[p] \in Descriptors
    BY <1>6, InvTypes, FileHasBlock
  <2> QED
    BY <2>1 DEF Lists, Descriptors
<1>8. buf' = [buf EXCEPT ![p] = [buf[p] EXCEPT !.list = l]]
  BY <1>1, <1>6
<1> HIDE DEF l
<1>9. buf' \in [Procs -> Buffers] /\ buf'[p].list = l
  BY <1>7, <1>8, ListUpdate, Zenon
<1>10. InCall(p)'
  <2>1. HasFile(p)'
    BY <1>1, <1>4, <1>6 DEF HasFile
  <2>2. ListRead(p)'
    BY <1>1, <1>4, <1>9 DEF ListRead, l
  <2>3. OpenArguments(p)'
    BY <1>4 DEF OpenArguments
  <2>4. DataWritten(p)'
    <3>1. Fits(p)' = Fits(p) /\ file' = file /\ blocks' = blocks
      BY <1>1, <1>4, Zenon DEF Fits, Offset
    <3>2. HoldsData(p, blocks[file[p].lba])' /\ (file[p].offset + Fits(p) <= file[p].size)'
      BY <1>4, <1>6, <3>1, Zenon DEF HoldsData
    <3> QED
      BY <1>4, <3>2 DEF DataWritten
  <2> QED
    BY <1>4, <2>1, <2>2, <2>3, <2>4 DEF InCall
<1>11. file' \in [Procs -> Descriptors] /\ writes' \in 0 .. MaxWrites
  BY <1>1, Zenon DEF FsInv, FsTypeOK
<1> QED
  BY <1>1, <1>3, <1>4, <1>5, <1>9, <1>10, <1>11, FilesKept, QuietStep, Zenon

\* What fits at the offset of p lies in the block.
LEMMA FitsIs ==
  ASSUME Sizes, NEW p \in Procs, file[p] \in Descriptors, call[p].data \in Chunks
  PROVE  /\ Offset(p) \in 0 .. BlockSize /\ Offset(p) <= file[p].offset
         /\ file[p].offset <= BlockSize => Offset(p) = file[p].offset
         /\ Fits(p) \in Nat /\ Offset(p) + Fits(p) <= BlockSize
         /\ \A k \in 1 .. Fits(p) : call[p].data[k] \in Bytes
<1>1. file[p].offset \in 0 .. BlockSize + 1
  BY DEF Descriptors
<1>2. PICK n \in 1 .. MaxWrite : call[p].data \in [1 .. n -> Bytes]
  BY Zenon DEF Chunks
<1>3. Len(call[p].data) = n /\ \A k \in 1 .. n : call[p].data[k] \in Bytes
  BY <1>2
<1>4. /\ Offset(p) \in 0 .. BlockSize /\ Offset(p) <= file[p].offset
      /\ file[p].offset <= BlockSize => Offset(p) = file[p].offset
  BY <1>1 DEF Offset, Lesser, Sizes
<1>5. Fits(p) \in Nat /\ Fits(p) <= n /\ Offset(p) + Fits(p) <= BlockSize
  BY <1>3, <1>4 DEF Fits, Lesser, Sizes
<1> QED
  BY <1>3, <1>4, <1>5

LEMMA LoadKeeps ==
  ASSUME FsInv, Sizes, Serial, NEW p \in Procs, Load(p)
  PROVE  FsInv'
<1> DEFINE f == [file[p] EXCEPT !.offset = Offset(p)]
           c == Patched(p, buf[p].block)
           b == [buf[p] EXCEPT !.block = c]
<1>1. /\ At(p, "load") /\ Ask(p, "store") /\ file' = [file EXCEPT ![p] = f]
      /\ buf' = [buf EXCEPT ![p] = b]
      /\ UNCHANGED <<onDisk, disk_block_free, torn, writes, crashes, list>>
  BY DEF Load, counts, onDisk
<1>2. call[p].pc = "load" /\ call[p].io = "ready" /\ call[p].pc # "user"
  BY <1>1 DEF At
<1>3. \A q \in Procs \ {p} : call[q].pc = "user"
  BY <1>2, OthersInUser, Zenon
<1>4. /\ call' \in [Procs -> Requests]
      /\ \A q \in Procs \ {p} : call'[q] = call[q]
      /\ call'[p].pc = "store" /\ call'[p].io = "asked"
      /\ call'[p].data = call[p].data
  BY <1>1, InvTypes, AskIs
<1>5. ~ IsCreating(p) /\ ~ IsCreating(p)'
  BY <1>2, <1>4 DEF IsCreating, At
<1>6. file[p].mode = "write" /\ call[p].data \in Chunks
  BY <1>2, Zenon DEF FsInv, InCall, HasFile
<1>7. file[p] \in Descriptors /\ buf[p] \in Buffers
  BY InvTypes, Zenon
<1>8. /\ Offset(p) \in 0 .. BlockSize /\ Offset(p) <= file[p].offset
      /\ Fits(p) \in Nat /\ Offset(p) + Fits(p) <= BlockSize
      /\ \A k \in 1 .. Fits(p) : call[p].data[k] \in Bytes
  BY <1>6, <1>7, FitsIs, Zenon
<1>9. /\ f \in Descriptors /\ f.name = file[p].name /\ f.mode = file[p].mode
      /\ f.lba = file[p].lba /\ f.slot = file[p].slot /\ f.shared = file[p].shared
      /\ f.size >= file[p].size /\ f.offset = Offset(p)
  BY <1>7, <1>8 DEF Descriptors, Sizes
<1>10. c \in Contents /\ \A k \in 1 .. Fits(p) : c[Offset(p) + k - 1] = call[p].data[k]
  <2>1. \A o \in Offsets : buf[p].block[o] \in Bytes
    BY <1>7 DEF Buffers, Contents
  <2>2. c = [o \in Offsets |-> IF o \in Offset(p) .. Offset(p) + Fits(p) - 1
                               THEN call[p].data[o - Offset(p) + 1] ELSE buf[p].block[o]]
    BY Zenon DEF Patched
  <2>3. ASSUME NEW o \in Offsets, o \in Offset(p) .. Offset(p) + Fits(p) - 1
        PROVE  o - Offset(p) + 1 \in 1 .. Fits(p)
    BY <1>8, <2>3
  <2>4. ASSUME NEW k \in 1 .. Fits(p)
        PROVE  /\ Offset(p) + k - 1 \in Offsets
               /\ Offset(p) + k - 1 \in Offset(p) .. Offset(p) + Fits(p) - 1
               /\ (Offset(p) + k - 1) - Offset(p) + 1 = k
    BY <1>8 DEF Offsets, Sizes
  <2> HIDE DEF c
  <2>5. c \in Contents
    BY <1>8, <2>1, <2>2, <2>3, Zenon DEF Contents
  <2>6. ASSUME NEW k \in 1 .. Fits(p) PROVE c[Offset(p) + k - 1] = call[p].data[k]
    BY <2>2, <2>4
  <2> QED
    BY <2>5, <2>6, Zenon
<1> HIDE DEF c
<1>11. b \in Buffers /\ b.block = c
  BY <1>7, <1>10 DEF Buffers
<1> HIDE DEF b
<1>12. buf' \in [Procs -> Buffers] /\ buf'[p].block = c
  BY <1>1, <1>11, InvTypes, Zenon
<1>13. f.mode # "read" /\ file[p].mode # "none"
  BY <1>6, <1>9
<1> HIDE DEF f
<1>14. file' \in [Procs -> Descriptors] /\ FileIsEntry' /\ WritersMarked' /\ file'[p] = f
  BY <1>1, <1>9, <1>13, InvTypes, SameFile, Zenon
<1>15. InCall(p)'
  <2>1. HasFile(p)'
    BY <1>4, <1>6, <1>9, <1>14 DEF HasFile
  <2>2. OpenArguments(p)' /\ ListRead(p)'
    BY <1>4 DEF OpenArguments, ListRead
  <2>3. DataWritten(p)'
    <3>1. Offset(p)' = Offset(p)
      BY <1>8, <1>9, <1>14 DEF Offset, Lesser, Sizes
    <3>2. Fits(p)' = Fits(p)
      BY <1>4, <3>1, Zenon DEF Fits
    <3>3. Offset(p) <= BlockSize
      BY <1>8 DEF Sizes
    <3>4. HoldsData(p, buf[p].block)'
      BY <1>4, <1>9, <1>10, <1>12, <1>14, <3>2, <3>3, Zenon DEF HoldsData
    <3> QED
      BY <1>4, <3>4 DEF DataWritten, At
  <2> QED
    BY <1>4, <2>1, <2>2, <2>3 DEF InCall
<1>16. writes' \in 0 .. MaxWrites
  BY <1>1, Zenon DEF FsInv, FsTypeOK
<1> QED
  BY <1>1, <1>3, <1>4, <1>5, <1>12, <1>14, <1>15, <1>16, QuietStep, Zenon

LEMMA StoreKeeps ==
  ASSUME FsInv, Sizes, Serial, NEW p \in Procs, Store(p)
  PROVE  FsInv'
<1> DEFINE f == [file[p] EXCEPT !.size = SizeAfter(p)]
<1>1. /\ At(p, "store") /\ Ask(p, "relist") /\ file' = [file EXCEPT ![p] = f]
      /\ UNCHANGED <<onDisk, disk_block_free, torn, writes, crashes, list, buf, blocks>>
  BY DEF Store, counts, onDisk
<1>2. call[p].pc = "store" /\ call[p].io = "ready" /\ call[p].pc # "user"
  BY <1>1 DEF At
<1>3. \A q \in Procs \ {p} : call[q].pc = "user"
  BY <1>2, OthersInUser, Zenon
<1>4. /\ call' \in [Procs -> Requests]
      /\ \A q \in Procs \ {p} : call'[q] = call[q]
      /\ call'[p].pc = "relist" /\ call'[p].io = "asked"
      /\ call'[p].data = call[p].data
  BY <1>1, InvTypes, AskIs
<1>5. ~ IsCreating(p) /\ ~ IsCreating(p)'
  BY <1>2, <1>4 DEF IsCreating, At
<1>6. file[p].mode = "write" /\ call[p].data \in Chunks /\ HoldsData(p, blocks[file[p].lba])
  BY <1>1, <1>2, Zenon DEF FsInv, InCall, HasFile, DataWritten
<1>7. file[p] \in Descriptors /\ file[p].offset <= BlockSize
  BY <1>6, InvTypes, Zenon DEF HoldsData
<1>8. /\ Offset(p) \in 0 .. BlockSize /\ Offset(p) = file[p].offset
      /\ Fits(p) \in Nat /\ Offset(p) + Fits(p) <= BlockSize
  BY <1>6, <1>7, FitsIs, Zenon
<1>9. /\ SizeAfter(p) \in 0 .. BlockSize /\ SizeAfter(p) >= file[p].size
      /\ file[p].offset + Fits(p) <= SizeAfter(p)
  BY <1>7, <1>8 DEF SizeAfter, Descriptors, Sizes
<1>10. /\ f \in Descriptors /\ f.name = file[p].name /\ f.mode = file[p].mode
       /\ f.lba = file[p].lba /\ f.slot = file[p].slot /\ f.shared = file[p].shared
       /\ f.size = SizeAfter(p) /\ f.size >= file[p].size /\ f.offset = file[p].offset
  BY <1>7, <1>9 DEF Descriptors
<1>11. f.mode # "read" /\ file[p].mode # "none"
  BY <1>6, <1>10
<1> HIDE DEF f
<1>12. file' \in [Procs -> Descriptors] /\ FileIsEntry' /\ WritersMarked' /\ file'[p] = f
  BY <1>1, <1>10, <1>11, InvTypes, SameFile, Zenon
<1>13. InCall(p)'
  <2>1. HasFile(p)'
    BY <1>4, <1>6, <1>10, <1>12 DEF HasFile
  <2>2. OpenArguments(p)' /\ ListRead(p)'
    BY <1>4 DEF OpenArguments, ListRead
  <2>3. DataWritten(p)'
    <3>1. Fits(p)' = Fits(p)
      BY <1>4, <1>10, <1>12, Zenon DEF Fits, Offset
    <3>2. HoldsData(p, blocks[file[p].lba])'
      BY <1>1, <1>4, <1>6, <1>10, <1>12, <3>1, Zenon DEF HoldsData
    <3>3. (file[p].offset + Fits(p) <= file[p].size)'
      BY <1>9, <1>10, <1>12, <3>1, Zenon
    <3> QED
      BY <1>4, <3>2, <3>3 DEF DataWritten, At
  <2> QED
    BY <1>4, <2>1, <2>2, <2>3 DEF InCall
<1>14. buf' \in [Procs -> Buffers] /\ writes' \in 0 .. MaxWrites
  BY <1>1, Zenon DEF FsInv, FsTypeOK
<1> QED
  BY <1>1, <1>3, <1>4, <1>5, <1>12, <1>13, <1>14, QuietStep, Zenon

-----------------------------------------------------------------------------
(***************************************************************************)
(* The requests that the driver carries out, and the crash.                *)
(***************************************************************************)
LEMMA TransferIs ==
  ASSUME FsInv, Sizes, Serial, NEW p \in Procs, Transfer(p)
  PROVE  /\ call[p].pc # "user" /\ call[p].io = "asked"
         /\ \A q \in Procs \ {p} : call[q].pc = "user" /\ call'[q] = call[q]
         /\ call' \in [Procs -> Requests] /\ call'[p].pc = call[p].pc
         /\ call'[p].io = "ready" /\ call'[p].name = call[p].name
         /\ call'[p].mode = call[p].mode /\ call'[p].data = call[p].data
         /\ buf' \in [Procs -> Buffers]
         /\ call[p].pc \in {"find", "grow", "open", "relist"} => buf'[p].list = list
         /\ UNCHANGED <<disk_block_free, file, writes, crashes, torn>>
<1>1. /\ call[p].io = "asked" /\ call[p] \in Requests /\ buf[p] \in Buffers
      /\ call' = [call EXCEPT ![p] = [call[p] EXCEPT !.io = "ready"]]
      /\ UNCHANGED <<disk_block_free, file, writes, crashes, torn>>
  BY InvTypes DEF Transfer, counts
<1>2. call[p].pc # "user"
  <2>1. call[p].io = "none" <=> call[p].pc = "user"
    BY Zenon DEF FsInv, InCall
  <2> QED
    BY <1>1, <2>1
<1>3. \A q \in Procs \ {p} : call[q].pc = "user"
  BY <1>2, OthersInUser, Zenon
<1> DEFINE c == [call[p] EXCEPT !.io = "ready"]
<1>4. /\ c \in Requests /\ c.pc = call[p].pc /\ c.io = "ready" /\ c.name = call[p].name
      /\ c.mode = call[p].mode /\ c.data = call[p].data
  BY <1>1 DEF Requests
<1> HIDE DEF c
<1>5. /\ call' \in [Procs -> Requests] /\ call'[p] = c
      /\ \A q \in Procs \ {p} : call'[q] = call[q]
  <2>1. call' = [call EXCEPT ![p] = c]
    BY <1>1, Zenon DEF c
  <2> QED
    BY <1>4, <2>1, InvTypes, Zenon
<1> DEFINE l == IF call[p].pc \in {"find", "grow", "open", "relist"} THEN list ELSE buf[p].list
           k == IF call[p].pc \in {"load", "fetch"} THEN blocks[file[p].lba] ELSE buf[p].block
           b == [buf[p] EXCEPT !.list = l, !.block = k]
<1>6. buf' = [buf EXCEPT ![p] = b]
  BY DEF Transfer
<1>7. l \in Lists
  BY <1>1, InvTypes DEF Buffers
<1>8. k \in Contents
  <2>1. CASE call[p].pc \in {"load", "fetch"}
    <3>1. file[p].mode # "none"
      BY <2>1 DEF FsInv, InCall, HasFile
    <3>2. file[p].lba \in Lbas
      BY <3>1, FileHasBlock, Zenon
    <3> QED
      BY <2>1, <3>2, InvTypes, Zenon
  <2>2. CASE call[p].pc \notin {"load", "fetch"}
    BY <1>1, <2>2 DEF Buffers
  <2> QED
    BY <2>1, <2>2, Zenon
<1> HIDE DEF k, l
<1>9. b \in Buffers /\ b.list = l
  BY <1>1, <1>7, <1>8 DEF Buffers
<1> HIDE DEF b
<1>10. buf' \in [Procs -> Buffers] /\ buf'[p].list = l
  BY <1>6, <1>9, InvTypes, Zenon
<1> QED
  BY <1>1, <1>2, <1>3, <1>4, <1>5, <1>10, Zenon DEF l

\* A request that reads.
LEMMA TransferReads ==
  ASSUME FsInv, Sizes, Serial, NEW p \in Procs, Transfer(p),
         call[p].pc \in {"find", "grow", "open", "relist", "load", "fetch"}
  PROVE  FsInv'
<1>1. UNCHANGED <<onDisk, list, blocks>>
  BY DEF Transfer, onDisk
<1>2. /\ call[p].io = "asked"
      /\ \A q \in Procs \ {p} : call[q].pc = "user" /\ call'[q] = call[q]
      /\ call' \in [Procs -> Requests] /\ call'[p].pc = call[p].pc
      /\ call'[p].io = "ready" /\ call'[p].name = call[p].name
      /\ call'[p].mode = call[p].mode /\ call'[p].data = call[p].data
      /\ buf' \in [Procs -> Buffers]
      /\ call[p].pc \in {"find", "grow", "open", "relist"} => buf'[p].list = list
      /\ UNCHANGED <<disk_block_free, file, writes, crashes, torn>>
  BY TransferIs, Zenon
<1>3. ~ IsCreating(p) /\ ~ IsCreating(p)'
  BY <1>2 DEF IsCreating, At
<1>4. InCall(p)'
  <2>0. OpenArguments(p) /\ HasFile(p) /\ DataWritten(p)
    BY Zenon DEF FsInv, InCall
  <2>1. OpenArguments(p)' /\ HasFile(p)'
    BY <1>2, <2>0, Zenon DEF OpenArguments, HasFile
  <2>2. ListRead(p)'
    BY <1>1, <1>2 DEF ListRead
  <2>3. DataWritten(p)'
    <3>1. CASE call[p].pc # "relist"
      BY <1>2, <3>1 DEF DataWritten, At
    <3>2. CASE call[p].pc = "relist"
      <4>1. HoldsData(p, blocks[file[p].lba]) /\ file[p].offset + Fits(p) <= file[p].size
        BY <2>0, <3>2 DEF DataWritten
      <4>2. Fits(p)' = Fits(p)
        BY <1>2, Zenon DEF Fits, Offset
      <4>3. HoldsData(p, blocks[file[p].lba])' /\ (file[p].offset + Fits(p) <= file[p].size)'
        BY <1>1, <1>2, <4>1, <4>2, Zenon DEF HoldsData
      <4> QED
        BY <1>2, <3>2, <4>3 DEF DataWritten, At
    <3> QED
      BY <3>1, <3>2, Zenon
  <2> QED
    BY <1>2, <2>1, <2>2, <2>3 DEF InCall
<1>5. file' \in [Procs -> Descriptors] /\ writes' \in 0 .. MaxWrites
  BY <1>2, Zenon DEF FsInv, FsTypeOK
<1> QED
  BY <1>1, <1>2, <1>3, <1>4, <1>5, FilesKept, QuietStep, Zenon

\* The types, for a request that writes.
LEMMA TransferTypes ==
  ASSUME FsInv, Sizes, Serial, NEW p \in Procs, Transfer(p)
  PROVE  FsTypeOK'
<1>1. /\ call' \in [Procs -> Requests] /\ buf' \in [Procs -> Buffers]
      /\ UNCHANGED <<disk_block_free, file, writes, crashes, torn>>
  BY TransferIs, Zenon
<1>2. buf[p] \in Buffers /\ list \in Lists /\ superblock \in {0} \cup Lbas
      /\ blocks \in [Lbas -> Contents]
  BY InvTypes, Zenon
<1>3. list' \in Lists /\ superblock' \in {0} \cup Lbas
  BY <1>2 DEF Transfer, Buffers
<1>4. blocks' \in [Lbas -> Contents]
  <2>1. blocks' = blocks \/ blocks' = [blocks EXCEPT ![file[p].lba] = buf[p].block]
    BY Zenon DEF Transfer
  <2>2. buf[p].block \in Contents
    BY <1>2 DEF Buffers
  <2> QED
    BY <1>2, <2>1, <2>2, Zenon
<1> QED
  BY <1>1, <1>3, <1>4, Zenon DEF FsInv, FsTypeOK

LEMMA TransferStores ==
  ASSUME FsInv, Sizes, Serial, NEW p \in Procs, Transfer(p), call[p].pc = "store"
  PROVE  FsInv'
<1>1. /\ UNCHANGED <<superblock, list>>
      /\ blocks' = [blocks EXCEPT ![file[p].lba] = buf[p].block]
  BY DEF Transfer
<1>2. /\ call[p].io = "asked"
      /\ \A q \in Procs \ {p} : call[q].pc = "user" /\ call'[q] = call[q]
      /\ call'[p].pc = call[p].pc /\ call'[p].io = "ready" /\ call'[p].data = call[p].data
      /\ UNCHANGED <<disk_block_free, file, writes, crashes, torn>>
  BY TransferIs, Zenon
<1>3. ~ IsCreating(p) /\ ~ IsCreating(p)'
  BY <1>2 DEF IsCreating, At
<1>4. /\ Alone' /\ EntriesCounted' /\ CountersAgree'
      /\ \A q \in Procs \ {p} : InCall(q)'
  BY <1>1, <1>2, <1>3, QuietKeeps, Zenon
<1>5. HasFile(p) /\ DataWritten(p)
  BY Zenon DEF FsInv, InCall
<1>6. file[p].mode = "write" /\ HoldsData(p, buf[p].block)
  BY <1>2, <1>5 DEF HasFile, DataWritten
<1>7. blocks'[file[p].lba] = buf[p].block
  <2>1. file[p].mode # "none"
    BY <1>6
  <2>2. file[p].lba \in Lbas /\ blocks \in [Lbas -> Contents]
    BY <2>1, FileHasBlock, InvTypes, Zenon
  <2> QED
    BY <1>1, <2>2, Zenon
<1>8. InCall(p)'
  <2>1. HasFile(p)'
    BY <1>2, <1>5, Zenon DEF HasFile
  <2>2. OpenArguments(p)' /\ ListRead(p)'
    BY <1>2 DEF OpenArguments, ListRead
  <2>3. DataWritten(p)'
    <3>1. Fits(p)' = Fits(p)
      BY <1>2, Zenon DEF Fits, Offset
    <3>2. HoldsData(p, blocks[file[p].lba])'
      BY <1>2, <1>6, <1>7, <3>1, Zenon DEF HoldsData
    <3> QED
      BY <1>2, <3>2 DEF DataWritten, At
  <2> QED
    BY <1>2, <2>1, <2>2, <2>3 DEF InCall
<1>9. \A q \in Procs : InCall(q)'
  BY <1>4, <1>8, Zenon
<1> QED
  BY <1>1, <1>2, <1>4, <1>9, TransferTypes, FilesKept, Zenon DEF FsInv

LEMMA TransferSupers ==
  ASSUME FsInv, Sizes, Serial, NEW p \in Procs, Transfer(p), call[p].pc = "super"
  PROVE  FsInv'
<1>1. /\ UNCHANGED <<list, blocks>> /\ superblock' = buf[p].free
  BY DEF Transfer
<1>2. /\ call[p].io = "asked"
      /\ \A q \in Procs \ {p} : call[q].pc = "user" /\ call'[q] = call[q]
      /\ call'[p].pc = call[p].pc /\ call'[p].io = "ready"
      /\ call'[p].name = call[p].name /\ call'[p].mode = call[p].mode
      /\ UNCHANGED <<disk_block_free, file, writes, crashes, torn>>
  BY TransferIs, Zenon
<1>3. superblock' = disk_block_free /\ disk_block_free \in Lbas
  BY <1>1, <1>2, InvTypes, Zenon DEF FsInv, InCall, ListRead
<1>4. Booted' = disk_block_free /\ disk_block_free <= disk_block_free
  BY <1>3 DEF Booted, Lbas, FirstFree
<1>5. ~ Adding /\ ~ Adding'
  <2>1. ASSUME NEW q \in Procs PROVE ~ At(q, "add") /\ ~ At(q, "add")'
    <3>1. call[q].pc \in {"user", "super"} /\ call'[q].pc \in {"user", "super"}
      BY <1>2, Zenon
    <3> QED
      BY <3>1 DEF At
  <2> QED
    BY <2>1, Zenon DEF Adding
<1>6. EntriesCounted'
  BY <1>1, <1>2, <1>4, <1>5, Zenon DEF FsInv, EntriesCounted, Counted
<1>7. CountersAgree'
  BY <1>1, <1>2, <1>4, <1>5, Zenon DEF FsInv, CountersAgree, Counted
<1>8. Alone'
  <2>1. \A q \in Procs : q # p => call'[q].pc = "user"
    BY <1>2, Zenon
  <2> QED
    BY <2>1, Zenon DEF Alone
<1>9. ASSUME NEW q \in Procs PROVE InCall(q)'
  <2>1. CASE q = p
    <3>1. OpenArguments(p)
      BY Zenon DEF FsInv, InCall
    <3>2. OpenArguments(p)'
      BY <1>2, <3>1, Zenon DEF OpenArguments
    <3>3. HasFile(p)' /\ ListRead(p)' /\ DataWritten(p)'
      BY <1>2 DEF HasFile, ListRead, DataWritten, At
    <3>4. InCall(p)'
      BY <1>2, <3>2, <3>3 DEF InCall
    <3> QED
      BY <2>1, <3>4, Zenon
  <2>2. CASE q # p
    <3>1. call[q].pc = "user" /\ call[q].io = "none" /\ call'[q] = call[q]
      BY <1>2, <2>2, Zenon DEF FsInv, InCall
    <3> QED
      BY <3>1, UserPromisesNothing, Zenon
  <2> QED
    BY <2>1, <2>2, Zenon
<1> QED
  BY <1>1, <1>2, <1>6, <1>7, <1>8, <1>9, TransferTypes, FilesKept, Zenon DEF FsInv

\* The list with the new file in it.
LEMMA AddedIs ==
  ASSUME FsInv, Sizes, NEW p \in Procs, call[p].pc = "add", call[p].io = "asked"
  PROVE  LET u == First(Vacant)
             l == buf[p].list
         IN  /\ u \in Slots /\ list[u] = Empty
             /\ \A j \in Slots : list[j] # Empty <=> j < u
             /\ \A j \in Slots : j # u => l[j] = list[j]
             /\ l[u] # Empty /\ l[u].name \in Names /\ l[u].lba = disk_block_free
<1> DEFINE u == First(Vacant)
           l == buf[p].list
           x == [name |-> call[p].name, lba |-> disk_block_free, size |-> 0]
<1>1. Vacant # {} /\ l = [list EXCEPT ![u] = x] /\ call[p].name \in Names
  BY Zenon DEF FsInv, InCall, ListRead, OpenArguments
<1>2. u \in Slots /\ list[u] = Empty /\ \A j \in Slots : list[j] = Empty => u <= j
  BY <1>1, FirstIs, Zenon DEF Vacant
<1>3. x # Empty /\ x.name \in Names /\ x.lba = disk_block_free
  BY <1>1 DEF Empty, Sizes
<1> HIDE DEF u, l, x
<1>4. /\ l[u] = x
      /\ \A j \in Slots : j # u => l[j] = list[j]
  BY <1>1, <1>2, InvTypes, Zenon DEF Lists
<1>5. ASSUME NEW j \in Slots PROVE list[j] # Empty <=> j < u
  <2>1. j \in Nat /\ u \in Nat
    BY <1>2 DEF Slots
  <2>2. j < u => list[j] # Empty
    BY <1>2, <2>1
  <2>3. u < j => list[j] = Empty
    BY <1>2, Zenon DEF FsInv, EntriesCounted
  <2> QED
    BY <1>2, <2>1, <2>2, <2>3
<1> QED
  BY <1>2, <1>3, <1>4, <1>5, Zenon DEF u, l

LEMMA TransferAdds ==
  ASSUME FsInv, Sizes, Serial, NEW p \in Procs, Transfer(p), call[p].pc = "add"
  PROVE  FsInv'
<1> DEFINE u == First(Vacant)
<1>1. /\ UNCHANGED <<superblock, blocks>> /\ list' = buf[p].list
  BY DEF Transfer
<1>2. /\ call[p].io = "asked"
      /\ \A q \in Procs \ {p} : call[q].pc = "user" /\ call'[q] = call[q]
      /\ call'[p].pc = call[p].pc /\ call'[p].io = "ready"
      /\ call'[p].name = call[p].name /\ call'[p].mode = call[p].mode
      /\ UNCHANGED <<disk_block_free, file, writes, crashes, torn>>
  BY TransferIs, Zenon
<1>3. /\ u \in Slots /\ list[u] = Empty
      /\ \A j \in Slots : list[j] # Empty <=> j < u
      /\ \A j \in Slots : j # u => list'[j] = list[j]
      /\ list'[u] # Empty /\ list'[u].name \in Names /\ list'[u].lba = disk_block_free
  BY <1>1, <1>2, AddedIs, Zenon
<1> HIDE DEF u
<1>4. ~ Adding /\ Adding' /\ Creating'
  <2>1. At(p, "add")'
    BY <1>2 DEF At
  <2>2. ASSUME NEW q \in Procs PROVE ~ At(q, "add")
    <3>1. call[q].pc = "user" \/ call[q].io = "asked"
      BY <1>2, Zenon
    <3> QED
      BY <3>1 DEF At
  <2> QED
    BY <2>1, <2>2, Zenon DEF Adding, Creating
<1>5. /\ Counted \in Nat /\ disk_block_free = FirstFree + Counted /\ u \in Nat /\ u <= NList
      /\ disk_block_free \in Lbas /\ NList \in Nat /\ u >= 1
  BY <1>3, InvTypes DEF Counted, Lbas, FirstFree, Slots, Sizes
<1>6. \A j \in Slots : (list'[j] # Empty) <=> j <= u
  <2> SUFFICES ASSUME NEW j \in Slots PROVE list'[j] # Empty <=> j <= u
    BY Zenon
  <2>1. CASE j = u
    BY <1>3, <1>5, <2>1
  <2>2. CASE j # u
    <3>1. list'[j] # Empty <=> j < u
      BY <1>3, <2>2, Zenon
    <3> QED
      BY <1>5, <2>2, <3>1 DEF Slots
  <2> QED
    BY <2>1, <2>2, Zenon
<1>7. \A j \in Slots : j <= Counted => j < u
  BY <1>3, Zenon DEF FsInv, EntriesCounted
<1>8. Counted + 1 <= u /\ Counted + 1 \in Slots
  BY <1>3, <1>5, <1>7 DEF Slots
<1>9. EntriesCounted'
  <2>1. Booted' = Booted /\ Counted' = Counted
    BY <1>1, <1>2, Zenon DEF Booted, Counted
  <2>2. Booted' <= disk_block_free'
    BY <1>2, <2>1, Zenon DEF FsInv, EntriesCounted
  <2>3. ASSUME NEW i \in Slots, i <= Counted PROVE list'[i] # Empty
    <3>1. i <= u
      BY <1>5, <1>8, <2>3 DEF Slots
    <3> QED
      BY <1>6, <3>1, Zenon
  <2>4. ASSUME NEW i \in Slots, NEW j \in Slots, i < j, list'[j] # Empty
        PROVE  list'[i] # Empty
    <3>1. i <= u
      BY <1>5, <1>6, <2>4 DEF Slots
    <3> QED
      BY <1>6, <3>1, Zenon
  <2>5. list'[Counted + 1] # Empty
    BY <1>6, <1>8, Zenon
  <2>6. ASSUME NEW i \in Slots, list'[i] # Empty
        PROVE  list'[i].lba \in Lbas /\ list'[i].name \in Names
    <3>1. CASE i = u
      BY <1>3, <1>5, <3>1, Zenon
    <3>2. CASE i # u
      BY <1>3, <2>6, <3>2, Zenon DEF FsInv, EntriesCounted
    <3> QED
      BY <3>1, <3>2, Zenon
  <2> QED
    BY <1>4, <1>8, <2>1, <2>2, <2>3, <2>4, <2>5, <2>6, Zenon DEF EntriesCounted
<1>10. CountersAgree'
  <2> SUFFICES ASSUME ~ torn, NEW i \in Slots, list'[i] # Empty
               PROVE  list'[i].lba = FirstFree + i - 1 /\ (i <= Counted \/ i = Counted + 1)
    BY <1>2, <1>4, Zenon DEF CountersAgree, Counted
  <2>1. \A j \in Slots : j < u => list[j].lba = FirstFree + j - 1 /\ j <= Counted
    BY <1>3, <1>4, Zenon DEF FsInv, CountersAgree
  <2>2. u = Counted + 1
    <3>1. Counted + 1 < u => Counted + 1 <= Counted
      BY <1>8, <2>1, Zenon
    <3> QED
      BY <1>5, <1>8, <3>1
  <2>3. CASE i = u
    BY <1>3, <1>5, <2>2, <2>3 DEF FirstFree
  <2>4. CASE i # u
    <3>1. list'[i] = list[i] /\ i < u
      BY <1>3, <2>4, Zenon
    <3> QED
      BY <2>1, <3>1, Zenon
  <2> QED
    BY <2>3, <2>4, Zenon
<1>11. ASSUME NEW q \in Procs, file[q] # NoFile
       PROVE  /\ file[q].slot \in Slots /\ file[q].slot < u
              /\ list'[file[q].slot] = list[file[q].slot]
  <2>1. file[q].mode # "none"
    BY <1>11 DEF FsInv, FileIsEntry
  <2>2. file[q].slot \in Slots /\ list[file[q].slot] # Empty
    BY <2>1, FileHasBlock, Zenon
  <2> QED
    BY <1>3, <2>2, Zenon
<1>12. FileIsEntry'
  <2> SUFFICES ASSUME NEW q \in Procs, file[q] # NoFile
               PROVE  /\ list'[file[q].slot].name = file[q].name
                      /\ list'[file[q].slot].lba = file[q].lba
                      /\ \A i \in Slots : list'[i].name = file[q].name => file[q].slot <= i
    BY <1>2, Zenon DEF FsInv, FileIsEntry
  <2>1. /\ list[file[q].slot].name = file[q].name /\ list[file[q].slot].lba = file[q].lba
        /\ \A i \in Slots : list[i].name = file[q].name => file[q].slot <= i
    BY Zenon DEF FsInv, FileIsEntry
  <2>2. file[q].slot \in Slots /\ file[q].slot <= u
    BY <1>5, <1>11 DEF Slots
  <2> QED
    BY <1>3, <1>11, <2>1, <2>2, Zenon
<1>13. WritersMarked'
  <2>1. \A q \in Procs : file[q].mode = "write" => list'[file[q].slot] = list[file[q].slot]
    BY <1>11, NoFileType
  <2> QED
    BY <1>2, <2>1, Zenon DEF FsInv, WritersMarked
<1>14. Alone'
  <2>1. \A q \in Procs : q # p => call'[q].pc = "user"
    BY <1>2, Zenon
  <2> QED
    BY <2>1, Zenon DEF Alone
<1>15. ASSUME NEW q \in Procs PROVE InCall(q)'
  <2>1. CASE q = p
    <3>1. OpenArguments(p)
      BY Zenon DEF FsInv, InCall
    <3>2. OpenArguments(p)'
      BY <1>2, <3>1, Zenon DEF OpenArguments
    <3>3. HasFile(p)' /\ ListRead(p)' /\ DataWritten(p)'
      BY <1>2 DEF HasFile, ListRead, DataWritten, At
    <3>4. InCall(p)'
      BY <1>2, <3>2, <3>3 DEF InCall
    <3> QED
      BY <2>1, <3>4, Zenon
  <2>2. CASE q # p
    <3>1. call[q].pc = "user" /\ call[q].io = "none" /\ call'[q] = call[q]
      BY <1>2, <2>2, Zenon DEF FsInv, InCall
    <3> QED
      BY <3>1, UserPromisesNothing, Zenon
  <2> QED
    BY <2>1, <2>2, Zenon
<1> QED
  BY <1>9, <1>10, <1>12, <1>13, <1>14, <1>15, TransferTypes, Zenon DEF FsInv

\* The list with the new size in it.
LEMMA ResizeIs ==
  ASSUME FsInv, Sizes, NEW p \in Procs, call[p].pc = "resize", call[p].io = "asked"
  PROVE  LET s == file[p].slot
             l == buf[p].list
         IN  /\ s \in Slots /\ file[p].mode = "write" /\ l[s].size = file[p].size
             /\ \A j \in Slots : /\ j # s => l[j] = list[j]
                                 /\ l[j].name = list[j].name /\ l[j].lba = list[j].lba
                                 /\ l[j] = Empty <=> list[j] = Empty
<1> DEFINE s == file[p].slot
           l == buf[p].list
<1>1. l = [list EXCEPT ![s].size = file[p].size] /\ file[p].mode = "write"
  BY Zenon DEF FsInv, InCall, ListRead, HasFile
<1>2. s \in Slots /\ list[s] # Empty /\ list[s].name \in Names
  <2>1. file[p].mode # "none"
    BY <1>1
  <2> QED
    BY <2>1, FileHasBlock, Zenon
<1> DEFINE x == [list[s] EXCEPT !.size = file[p].size]
<1>3. list[s] \in [name : Names \cup {NoName}, lba : Nat, size : 0 .. BlockSize]
  BY <1>2, InvTypes, Zenon DEF Lists
<1>4. x.size = file[p].size /\ x.name = list[s].name /\ x.lba = list[s].lba
  BY <1>3
<1>5. x # Empty
  BY <1>2, <1>4 DEF Empty, Sizes
<1>6. l = [list EXCEPT ![s] = x]
  BY <1>1, Zenon
<1> HIDE DEF l, x, s
<1>7. l[s] = x /\ \A j \in Slots : j # s => l[j] = list[j]
  BY <1>2, <1>6, InvTypes, Zenon DEF Lists
<1>8. ASSUME NEW j \in Slots
      PROVE  /\ l[j].name = list[j].name /\ l[j].lba = list[j].lba
             /\ l[j] = Empty <=> list[j] = Empty
  BY <1>2, <1>4, <1>5, <1>7, Zenon
<1> QED
  BY <1>1, <1>2, <1>4, <1>7, <1>8, Zenon DEF l, s

LEMMA TransferResizes ==
  ASSUME FsInv, Sizes, Serial, NEW p \in Procs, Transfer(p), call[p].pc = "resize"
  PROVE  FsInv'
<1> DEFINE s == file[p].slot
<1>1. /\ UNCHANGED <<superblock, blocks>> /\ list' = buf[p].list
  BY DEF Transfer
<1>2. /\ call[p].io = "asked"
      /\ \A q \in Procs \ {p} : call[q].pc = "user" /\ call'[q] = call[q]
      /\ call'[p].pc = call[p].pc /\ call'[p].io = "ready" /\ call'[p].data = call[p].data
      /\ UNCHANGED <<disk_block_free, file, writes, crashes, torn>>
  BY TransferIs, Zenon
<1>3. /\ s \in Slots /\ file[p].mode = "write" /\ list'[s].size = file[p].size
      /\ \A j \in Slots : /\ j # s => list'[j] = list[j]
                          /\ list'[j].name = list[j].name /\ list'[j].lba = list[j].lba
                          /\ list'[j] = Empty <=> list[j] = Empty
  BY <1>1, <1>2, ResizeIs, Zenon
<1>4. ~ Adding /\ ~ Adding' /\ ~ Creating /\ ~ Creating'
  <2>1. ASSUME NEW q \in Procs PROVE ~ IsCreating(q) /\ ~ IsCreating(q)'
    <3>1. call[q].pc \in {"user", "resize"} /\ call'[q].pc \in {"user", "resize"}
      BY <1>2, Zenon
    <3> QED
      BY <3>1 DEF IsCreating, At
  <2> QED
    BY <2>1, Zenon DEF Adding, Creating, IsCreating
<1>5. Booted' = Booted /\ Counted' = Counted
  BY <1>1, <1>2, Zenon DEF Booted, Counted
<1>6. EntriesCounted'
  BY <1>2, <1>3, <1>4, <1>5, Zenon DEF FsInv, EntriesCounted
<1>7. CountersAgree'
  BY <1>2, <1>3, <1>4, <1>5, Zenon DEF FsInv, CountersAgree
<1>8. FileIsEntry'
  <2> SUFFICES ASSUME NEW q \in Procs, file[q] # NoFile
               PROVE  /\ list'[file[q].slot].name = file[q].name
                      /\ list'[file[q].slot].lba = file[q].lba
                      /\ \A i \in Slots : list'[i].name = file[q].name => file[q].slot <= i
    BY <1>2, Zenon DEF FsInv, FileIsEntry
  <2>1. /\ file[q].slot \in Slots
        /\ list[file[q].slot].name = file[q].name /\ list[file[q].slot].lba = file[q].lba
        /\ \A i \in Slots : list[i].name = file[q].name => file[q].slot <= i
    BY Zenon DEF FsInv, FileIsEntry
  <2> QED
    BY <1>3, <2>1, Zenon
<1>9. WritersMarked'
  <2> SUFFICES ASSUME NEW q \in Procs, file[q].mode = "write", ~ file[q].shared
               PROVE  list'[file[q].slot].size <= file[q].size
    BY <1>2, Zenon DEF FsInv, WritersMarked
  <2>0. file[q].mode # "none" /\ file[p].mode # "none"
    BY <1>3
  <2>1. file[q].slot \in Slots /\ list[file[q].slot].name = file[q].name
    BY <2>0, FileHasBlock, Zenon
  <2>2. list[s].name = file[p].name
    BY <2>0, FileHasBlock, Zenon
  <2>3. CASE q = p
    <3>1. file[p].size <= file[p].size
      BY InvTypes DEF Descriptors, Sizes
    <3> QED
      BY <1>3, <2>3, <3>1, Zenon
  <2>4. CASE q # p
    <3>1. file[q].name # file[p].name
      BY <1>3, <2>4, Zenon DEF FsInv, WritersMarked
    <3>2. list'[file[q].slot] = list[file[q].slot]
      BY <1>3, <2>1, <2>2, <3>1, Zenon
    <3> QED
      BY <3>2, Zenon DEF FsInv, WritersMarked
  <2> QED
    BY <2>3, <2>4, Zenon
<1>10. Alone'
  <2>1. \A q \in Procs : q # p => call'[q].pc = "user"
    BY <1>2, Zenon
  <2> QED
    BY <2>1, Zenon DEF Alone
<1>11. ASSUME NEW q \in Procs PROVE InCall(q)'
  <2>1. CASE q = p
    <3>1. HasFile(p) /\ DataWritten(p)
      BY Zenon DEF FsInv, InCall
    <3>2. HasFile(p)'
      BY <1>2, <3>1, Zenon DEF HasFile
    <3>3. OpenArguments(p)'
      BY <1>2 DEF OpenArguments
    <3>4. ListRead(p)'
      BY <1>2, <1>3 DEF ListRead
    <3>5. DataWritten(p)'
      <4>1. HoldsData(p, blocks[file[p].lba]) /\ file[p].offset + Fits(p) <= file[p].size
        BY <3>1 DEF DataWritten
      <4>2. Fits(p)' = Fits(p)
        BY <1>2, Zenon DEF Fits, Offset
      <4>3. HoldsData(p, blocks[file[p].lba])' /\ (file[p].offset + Fits(p) <= file[p].size)'
        BY <1>1, <1>2, <4>1, <4>2, Zenon DEF HoldsData
      <4> QED
        BY <1>2, <4>3 DEF DataWritten, At
    <3>6. InCall(p)'
      BY <1>2, <3>2, <3>3, <3>4, <3>5 DEF InCall
    <3> QED
      BY <2>1, <3>6, Zenon
  <2>2. CASE q # p
    <3>1. call[q].pc = "user" /\ call[q].io = "none" /\ call'[q] = call[q]
      BY <1>2, <2>2, Zenon DEF FsInv, InCall
    <3> QED
      BY <3>1, UserPromisesNothing, Zenon
  <2> QED
    BY <2>1, <2>2, Zenon
<1> QED
  BY <1>6, <1>7, <1>8, <1>9, <1>10, <1>11, TransferTypes, Zenon DEF FsInv

LEMMA AddKeeps ==
  ASSUME FsInv, Sizes, Serial, NEW p \in Procs, Add(p)
  PROVE  FsInv'
<1> DEFINE b == [buf[p] EXCEPT !.free = disk_block_free + 1]
<1>1. /\ At(p, "add") /\ Ask(p, "super") /\ disk_block_free' = disk_block_free + 1
      /\ buf' = [buf EXCEPT ![p] = b]
      /\ UNCHANGED <<superblock, list, blocks, file, writes, crashes, torn>>
  BY DEF Add, counts, onDisk
<1>2. call[p].pc = "add" /\ call[p].io = "ready" /\ call[p].pc # "user"
  BY <1>1 DEF At
<1>3. \A q \in Procs \ {p} : call[q].pc = "user"
  BY <1>2, OthersInUser, Zenon
<1>4. /\ call' \in [Procs -> Requests]
      /\ \A q \in Procs \ {p} : call'[q] = call[q]
      /\ call'[p].pc = "super" /\ call'[p].io = "asked"
      /\ call'[p].name = call[p].name /\ call'[p].mode = call[p].mode
  BY <1>1, InvTypes, AskIs
<1>5. Adding /\ ~ Adding' /\ Creating'
  <2>1. ASSUME NEW q \in Procs PROVE ~ At(q, "add")'
    <3>1. CASE q = p
      BY <1>4, <3>1 DEF At
    <3>2. CASE q # p
      <4>1. call'[q].pc = "user"
        BY <1>3, <1>4, <3>2, Zenon
      <4> QED BY <4>1 DEF At
    <3> QED
      BY <3>1, <3>2, Zenon
  <2> QED
    BY <1>1, <1>4, <2>1, Zenon DEF Adding, Creating
<1>6. Counted + 1 \in Slots /\ list[Counted + 1] # Empty
  BY <1>5, Zenon DEF FsInv, EntriesCounted
<1>7. /\ disk_block_free \in Nat /\ Counted \in Nat /\ NList \in Nat
      /\ Counted' = Counted + 1 /\ disk_block_free' \in Lbas
  BY <1>1, <1>6, InvTypes DEF Lbas, FirstFree, Counted, Slots, Sizes
<1>8. Booted' = Booted /\ Booted' <= disk_block_free'
  <2>1. Booted \in Nat
    BY InvTypes DEF Booted, Lbas, FirstFree
  <2>2. Booted' = Booted /\ Booted <= disk_block_free
    BY <1>1, Zenon DEF Booted, FsInv, EntriesCounted
  <2> QED
    BY <1>1, <1>7, <2>1, <2>2
<1>9. EntriesCounted'
  <2>1. ASSUME NEW i \in Slots, i <= Counted + 1 PROVE list[i] # Empty
    <3>1. i <= Counted \/ i = Counted + 1
      BY <1>7, <2>1 DEF Slots
    <3> QED
      BY <1>6, <3>1, Zenon DEF FsInv, EntriesCounted
  <2>2. /\ \A i, j \in Slots : i < j /\ list[j] # Empty => list[i] # Empty
        /\ \A i \in Slots : list[i] # Empty => list[i].lba \in Lbas /\ list[i].name \in Names
    BY Zenon DEF FsInv, EntriesCounted
  <2> QED
    BY <1>1, <1>5, <1>7, <1>8, <2>1, <2>2, Zenon DEF EntriesCounted
<1>10. CountersAgree'
  <2> SUFFICES ASSUME ~ torn, NEW i \in Slots, list[i] # Empty
               PROVE  list[i].lba = FirstFree + i - 1 /\ i <= Counted + 1
    BY <1>1, <1>5, <1>7, Zenon DEF CountersAgree
  <2>1. list[i].lba = FirstFree + i - 1 /\ (i <= Counted \/ i = Counted + 1)
    BY Zenon DEF FsInv, CountersAgree
  <2>2. i <= Counted + 1
    BY <1>7, <2>1 DEF Slots
  <2> QED
    BY <2>1, <2>2, Zenon
<1>11. Alone'
  <2>1. ASSUME NEW q \in Procs, q # p PROVE call'[q].pc = "user"
    <3>1. call'[q] = call[q] /\ call[q].pc = "user"
      BY <1>3, <1>4, <2>1, Zenon
    <3> QED BY <3>1, Zenon
  <2> QED
    BY <2>1, Zenon DEF Alone
<1>12. /\ b \in Buffers /\ b.free = disk_block_free'
  BY <1>1, <1>7, InvTypes DEF Buffers
<1> HIDE DEF b
<1>13. buf' \in [Procs -> Buffers] /\ buf'[p].free = disk_block_free'
  BY <1>1, <1>12, InvTypes, Zenon
<1>14. FsTypeOK'
  BY <1>1, <1>4, <1>7, <1>13, Zenon DEF FsInv, FsTypeOK
<1>15. ASSUME NEW q \in Procs PROVE InCall(q)'
  <2>1. CASE q = p
    <3>1. OpenArguments(p)
      BY Zenon DEF FsInv, InCall
    <3>2. OpenArguments(p)'
      BY <1>1, <1>2, <1>4, <3>1 DEF OpenArguments
    <3>3. HasFile(p)' /\ ListRead(p)' /\ DataWritten(p)'
      BY <1>4, <1>13 DEF HasFile, ListRead, DataWritten, At
    <3>4. InCall(p)'
      BY <1>4, <3>2, <3>3 DEF InCall
    <3> QED
      BY <2>1, <3>4, Zenon
  <2>2. CASE q # p
    <3>1. call[q].pc = "user" /\ call[q].io = "none" /\ call'[q] = call[q]
      BY <1>3, <1>4, <2>2, Zenon DEF FsInv, InCall
    <3> QED
      BY <3>1, UserPromisesNothing, Zenon
  <2> QED
    BY <2>1, <2>2, Zenon
<1> QED
  BY <1>1, <1>9, <1>10, <1>11, <1>14, <1>15, FilesKept, Zenon DEF FsInv

LEMMA CrashKeeps ==
  ASSUME FsInv, Sizes, Crash
  PROVE  FsInv'
<1>1. /\ torn' = (torn \/ Creating)
      /\ disk_block_free' = Booted /\ UNCHANGED <<superblock, list, blocks, writes>>
      /\ call' = [p \in Procs |-> Idle] /\ buf' = [p \in Procs |-> NoBuf]
      /\ file' = [p \in Procs |-> NoFile] /\ crashes < MaxCrashes /\ crashes' = crashes + 1
  BY Zenon DEF Crash, Creating, onDisk
<1>2. \A p \in Procs : call'[p].pc = "user" /\ call'[p].io = "none" /\ file'[p] = NoFile
  BY <1>1, IdleType, Zenon
<1>3. ~ Adding' /\ ~ Creating'
  <2>1. \A p \in Procs : ~ IsCreating(p)'
    BY <1>2 DEF IsCreating, At
  <2> QED
    BY <2>1, Zenon DEF Adding, Creating, IsCreating
<1>4. Booted' = Booted
  BY <1>1, Zenon DEF Booted
<1>5. /\ Booted \in Lbas /\ Booted <= disk_block_free /\ Booted <= Booted
      /\ Counted' = Booted - FirstFree /\ Counted' \in Nat /\ Counted \in Nat
      /\ Counted' <= Counted
  <2>1. Booted <= disk_block_free
    BY Zenon DEF FsInv, EntriesCounted
  <2>2. Booted \in Lbas
    <3>1. FirstFree \in Lbas
      BY DEF Lbas, FirstFree, Sizes
    <3>2. superblock \in {0} \cup Lbas
      BY InvTypes, Zenon
    <3> QED
      BY <3>1, <3>2, Zenon DEF Booted
  <2>3. Counted' = Booted - FirstFree
    BY <1>1, Zenon DEF Counted
  <2> QED
    BY <2>1, <2>2, <2>3, InvTypes DEF Counted, Lbas, FirstFree
<1>6. EntriesCounted'
  <2>1. ASSUME NEW i \in Slots, i <= Counted' PROVE list[i] # Empty
    <3>1. i <= Counted
      BY <1>5, <2>1 DEF Slots
    <3> QED
      BY <3>1, Zenon DEF FsInv, EntriesCounted
  <2>2. /\ \A i, j \in Slots : i < j /\ list[j] # Empty => list[i] # Empty
        /\ \A i \in Slots : list[i] # Empty => list[i].lba \in Lbas /\ list[i].name \in Names
    BY Zenon DEF FsInv, EntriesCounted
  <2> QED
    BY <1>1, <1>3, <1>4, <1>5, <2>1, <2>2, Zenon DEF EntriesCounted
<1>7. CountersAgree'
  <2> SUFFICES ASSUME ~ torn, ~ Creating
               PROVE  /\ \A i \in Slots : list[i] # Empty =>
                           list[i].lba = FirstFree + i - 1 /\ i <= Counted'
    BY <1>1, <1>4, Zenon DEF CountersAgree
  <2>1. Booted = disk_block_free
    BY Zenon DEF FsInv, CountersAgree
  <2>2. Counted' = Counted
    BY <1>1, <2>1, Zenon DEF Counted
  <2>3. ~ Adding
    BY Zenon DEF Adding, Creating
  <2> QED
    BY <2>2, <2>3, Zenon DEF FsInv, CountersAgree
<1>8. Alone'
  BY <1>2, Zenon DEF Alone
<1>9. FileIsEntry'
  BY <1>2, Zenon DEF FileIsEntry
<1>10. WritersMarked'
  <2>1. \A p \in Procs : file'[p].mode # "write"
    BY <1>2, NoFileType
  <2> QED
    BY <2>1, Zenon DEF WritersMarked
<1>11. \A p \in Procs : InCall(p)'
  BY <1>2, UserPromisesNothing, Zenon
<1>12. FsTypeOK'
  <2>1. crashes' \in 0 .. MaxCrashes
    BY <1>1 DEF FsInv, FsTypeOK, Sizes
  <2>2. torn' \in BOOLEAN
    BY <1>1, Zenon
  <2>3. /\ call' \in [Procs -> Requests] /\ buf' \in [Procs -> Buffers]
        /\ file' \in [Procs -> Descriptors]
    BY <1>1, IdleType, NoBufType, NoFileType, Zenon
  <2> QED
    BY <1>1, <1>5, <2>1, <2>2, <2>3, Zenon DEF FsInv, FsTypeOK
<1> QED
  BY <1>6, <1>7, <1>8, <1>9, <1>10, <1>11, <1>12, Zenon DEF FsInv

LEMMA FsStart ==
  ASSUME Sizes, FsInit
  PROVE  FsInv
<1>1. \A p \in Procs : call[p] = Idle /\ file[p] = NoFile
  BY Zenon DEF FsInit
<1>2. \A p \in Procs : call[p].pc = "user" /\ call[p].io = "none"
  BY <1>1, IdleType, Zenon
<1>3. \A i \in Slots : list[i] = Empty
  BY Zenon DEF FsInit
<1>4. FsTypeOK
  <2>1. NoBuf.list = [i \in Slots |-> Empty] /\ NoBuf.block = [o \in Offsets |-> Zero]
    BY DEF NoBuf
  <2>2. [i \in Slots |-> Empty] \in Lists /\ [o \in Offsets |-> Zero] \in Contents
    BY <2>1, NoBufType DEF Buffers
  <2>3. list \in Lists /\ blocks \in [Lbas -> Contents]
    BY <2>2, Zenon DEF FsInit
  <2>4. superblock \in {0} \cup Lbas /\ disk_block_free \in Lbas
    BY DEF FsInit, Lbas, FirstFree, Sizes
  <2>5. /\ call \in [Procs -> Requests] /\ buf \in [Procs -> Buffers]
        /\ file \in [Procs -> Descriptors]
    BY IdleType, NoBufType, NoFileType, Zenon DEF FsInit
  <2>6. writes \in 0 .. MaxWrites /\ crashes \in 0 .. MaxCrashes
    BY DEF FsInit, Sizes
  <2>7. torn \in BOOLEAN
    BY Zenon DEF FsInit
  <2> QED
    BY <2>3, <2>4, <2>5, <2>6, <2>7, Zenon DEF FsTypeOK
<1>5. ~ Adding
  BY <1>2 DEF Adding, At
<1>6. Booted = disk_block_free /\ Counted = 0 /\ Booted <= disk_block_free
  BY DEF FsInit, Booted, Counted, FirstFree
<1>7. EntriesCounted
  <2>1. \A i \in Slots : ~ (i <= Counted)
    BY <1>6 DEF Slots
  <2> QED
    BY <1>3, <1>5, <1>6, <2>1, Zenon DEF EntriesCounted
<1>8. CountersAgree
  BY <1>3, <1>6, Zenon DEF CountersAgree
<1>9. Alone /\ FileIsEntry
  BY <1>1, <1>2, Zenon DEF Alone, FileIsEntry
<1>10. WritersMarked
  BY <1>1, NoFileType DEF WritersMarked
<1>11. ASSUME NEW p \in Procs PROVE InCall(p)
  <2>1. OpenArguments(p) /\ HasFile(p)
    BY <1>2 DEF OpenArguments, HasFile
  <2>2. ListRead(p) /\ DataWritten(p)
    BY <1>2 DEF ListRead, DataWritten, At
  <2> QED
    BY <1>2, <2>1, <2>2, Zenon DEF InCall
<1> QED
  BY <1>4, <1>7, <1>8, <1>9, <1>10, <1>11, Zenon DEF FsInv

LEMMA TransferKeeps ==
  ASSUME FsInv, Sizes, Serial, NEW p \in Procs, Transfer(p)
  PROVE  FsInv'
<1>1. call[p].pc # "user" /\ call[p] \in Requests
  BY TransferIs, InvTypes, Zenon
<1>2. call[p].pc \in {"find", "grow", "open", "relist", "load", "fetch", "store", "super",
                      "add", "resize"}
  BY <1>1 DEF Requests
<1> QED
  BY <1>2, TransferReads, TransferStores, TransferSupers, TransferAdds, TransferResizes

LEMMA FsStep ==
  ASSUME FsInv, Sizes, Serial, [FsNext]_fsVars
  PROVE  FsInv'
<1>1. CASE Crash
  BY <1>1, CrashKeeps, Zenon
<1>2. ASSUME NEW p \in Procs,
             \/ \E n \in Names, m \in {"read", "write"}, c \in BOOLEAN : SysOpen(p, n, m, c)
             \/ Find(p) \/ Grow(p) \/ Add(p) \/ Created(p) \/ Open(p)
             \/ SysClose(p) \/ \E o \in 0 .. BlockSize + 1 : SysLseek(p, o)
             \/ SysRead(p) \/ \E n \in 1 .. BlockSize : Fetch(p, n)
             \/ \E s \in Chunks : SysWrite(p, s)
             \/ Load(p) \/ Store(p) \/ Relist(p) \/ Resized(p)
             \/ Transfer(p)
      PROVE  FsInv'
  BY <1>2, SysOpenKeeps, OpenAsksKeeps, GrowKeeps, AddKeeps, OpenKeeps, SysCloseKeeps,
     SysLseekKeeps, FileCallKeeps, FetchKeeps, LoadKeeps, StoreKeeps, RelistKeeps,
     ResizedKeeps, TransferKeeps, Zenon
<1>3. CASE UNCHANGED fsVars
  <2>1. /\ UNCHANGED <<superblock, list, blocks, disk_block_free, call, buf, file, writes>>
        /\ UNCHANGED <<crashes, torn>>
    BY <1>3, Zenon DEF fsVars, onDisk, counts
  <2>2. FsTypeOK' /\ Alone'
    BY <2>1, Zenon DEF FsInv, FsTypeOK, Alone
  <2>3. Adding' = Adding /\ Creating' = Creating
    BY <2>1, Zenon DEF Adding, Creating, At
  <2>4. EntriesCounted' /\ CountersAgree'
    BY <2>1, <2>3, Zenon DEF FsInv, EntriesCounted, CountersAgree, Booted, Counted
  <2>5. ASSUME NEW p \in Procs PROVE InCall(p)'
    <3>0. InCall(p) /\ Vacant' = Vacant /\ Fits(p)' = Fits(p)
      BY <2>1, Zenon DEF FsInv, Vacant, Fits, Offset
    <3>1. OpenArguments(p)' /\ HasFile(p)' /\ ListRead(p)'
      BY <2>1, <3>0, Zenon DEF InCall, OpenArguments, HasFile, ListRead
    <3>2. DataWritten(p)'
      BY <2>1, <3>0, Zenon DEF InCall, DataWritten, HoldsData, At
    <3> QED
      BY <2>1, <3>0, <3>1, <3>2, Zenon DEF InCall
  <2> QED
    BY <2>1, <2>2, <2>4, <2>5, FilesKept, Zenon DEF FsInv
<1> QED
  BY <1>1, <1>2, <1>3, Zenon DEF FsNext

-----------------------------------------------------------------------------
(***************************************************************************)
(* The results.                                                            *)
(***************************************************************************)
LEMMA FirstIsLeast ==
  ASSUME NEW S \in SUBSET Slots, NEW i \in S, \A j \in S : i <= j
  PROVE  First(S) = i
<1>1. First(S) \in S /\ First(S) <= i /\ i <= First(S)
  BY FirstIs, Zenon
<1>2. S \subseteq Nat
  BY DEF Slots
<1>3. \A a, b \in Nat : a <= b /\ b <= a => a = b
  OBVIOUS
<1> QED
  BY <1>1, <1>2, <1>3, Zenon

LEMMA FsInvGives ==
  ASSUME FsInv, Sizes
  PROVE  FilesOnDisk
<1>1. DistinctBlocks
  <2> SUFFICES ASSUME ~ torn, NEW i \in Slots, NEW j \in Slots, i # j, list[i] # Empty,
                      list[j] # Empty
               PROVE  list[i].lba # list[j].lba
    BY Zenon DEF DistinctBlocks
  <2>1. list[i].lba = FirstFree + i - 1 /\ list[j].lba = FirstFree + j - 1
    BY Zenon DEF FsInv, CountersAgree
  <2> QED
    BY <2>1 DEF FirstFree, Slots
<1>2. WriteIsOnDisk
  <2> SUFFICES ASSUME NEW p \in Procs, At(p, "resize"), NEW k \in 1 .. Fits(p)
               PROVE  /\ file[p].offset + k <= Size(file[p].name)
                      /\ Content(file[p].name)[file[p].offset + k - 1] = call[p].data[k]
    BY Zenon DEF WriteIsOnDisk
  <2> DEFINE n == file[p].name
             s == file[p].slot
  <2>1. call[p].pc = "resize" /\ call[p].io = "ready"
    BY Zenon DEF At
  <2>2. HasFile(p) /\ ListRead(p) /\ DataWritten(p)
    BY Zenon DEF FsInv, InCall
  <2>3. /\ file[p].mode = "write" /\ call[p].data \in Chunks /\ list[s].size = file[p].size
        /\ HoldsData(p, blocks[file[p].lba]) /\ file[p].offset + Fits(p) <= file[p].size
    BY <2>1, <2>2 DEF HasFile, ListRead, DataWritten
  <2>4. /\ s \in Slots /\ list[s].name = n /\ list[s].lba = file[p].lba
        /\ \A i \in Slots : list[i].name = n => s <= i
    <3>1. file[p].mode # "none"
      BY <2>3
    <3>2. file[p] # NoFile /\ s \in Slots /\ list[s].name = n /\ list[s].lba = file[p].lba
      BY <3>1, FileHasBlock, Zenon
    <3> QED
      BY <3>2, Zenon DEF FsInv, FileIsEntry
  <2>5. Entry(n) = list[s]
    <3> DEFINE S == {i \in Slots : list[i].name = n}
    <3>1. s \in S /\ \A i \in S : s <= i
      BY <2>4, Zenon
    <3>2. First(S) = s
      BY <3>1, FirstIsLeast, Zenon
    <3> QED
      BY <3>2, Zenon DEF Entry
  <2>6. Size(n) = file[p].size /\ Entry(n).lba = file[p].lba
    BY <2>3, <2>4, <2>5, Zenon DEF Size
  <2>7. file[p].offset \in Nat /\ Fits(p) \in Nat /\ file[p].size \in Nat
    <3>1. file[p] \in Descriptors
      BY InvTypes, Zenon
    <3>2. Fits(p) \in Nat
      BY <2>3, <3>1, FitsIs, Zenon
    <3> QED
      BY <3>1, <3>2 DEF Descriptors, Sizes
  <2>8. /\ file[p].offset + k <= file[p].size
        /\ file[p].offset + k - 1 \in 0 .. file[p].size - 1
    BY <2>3, <2>7
  <2>9. blocks[file[p].lba][file[p].offset + k - 1] = call[p].data[k]
    BY <2>3, Zenon DEF HoldsData
  <2>10. Content(n)[file[p].offset + k - 1] = call[p].data[k]
    BY <2>6, <2>8, <2>9, Zenon DEF Content
  <2> QED
    BY <2>6, <2>8, <2>10, Zenon
<1> QED
  BY <1>1, <1>2, Zenon DEF FilesOnDisk, FsInv

\* Runs of the file system with one file call at a time: whatever the number of
\* processes, files and crashes, no two files share a block unless a crash tore a
\* create, and a write that returns has its bytes in the file on the disk.
THEOREM FilesAreOnDisk ==
  ASSUME Sizes, Serial
  PROVE  FsSpec => []FilesOnDisk
<1>1. FsInit => FsInv
  BY FsStart
<1>2. FsInv /\ [FsNext]_fsVars => FsInv'
  BY FsStep
<1>3. FsInv => FilesOnDisk
  BY FsInvGives
<1> QED
  BY <1>1, <1>2, <1>3, PTL DEF FsSpec
-----------------------------------------------------------------------------
Places(n) == {i \in Slots : list[i].name = n}

LEMMA EntryIs ==
  ASSUME FsInv, Sizes, NEW n \in Listed
  PROVE  /\ First(Places(n)) \in Slots /\ Entry(n) = list[First(Places(n))]
         /\ Entry(n).name = n /\ Entry(n) # Empty /\ Size(n) \in Nat
         /\ \A i \in Slots : list[i].name = n => First(Places(n)) <= i
<1> DEFINE i == First(Places(n))
<1>1. Places(n) # {} /\ n # NoName
  BY Zenon DEF Listed, Places
<1>2. i \in Places(n) /\ \A j \in Places(n) : i <= j
  BY <1>1, FirstIs, Zenon DEF Places
<1>3. Entry(n) = list[i]
  BY Zenon DEF Entry, Places
<1>4. list[i] # Empty
  BY <1>1, <1>2 DEF Empty, Places
<1>5. list[i].size \in Nat
  <2>1. list[i] \in [name : Names \cup {NoName}, lba : Nat, size : 0 .. BlockSize]
    BY <1>2, InvTypes, Zenon DEF Lists, Places
  <2> QED
    BY <2>1 DEF Sizes
<1> QED
  BY <1>2, <1>3, <1>4, <1>5, Zenon DEF Places, Size

FileStep == KeepsFiles /\ ChangesByWriter /\ ShrinksByShared

LEMMA DiskKept ==
  ASSUME FsInv, Sizes, UNCHANGED <<list, blocks>>
  PROVE  FileStep
<1>1. Listed' = Listed
  BY Zenon DEF Listed
<1>2. ASSUME NEW n \in Listed PROVE Content(n)' = Content(n) /\ ~ (Size(n)' < Size(n))
  <2>1. Entry(n)' = Entry(n)
    BY Zenon DEF Entry
  <2>2. Size(n)' = Size(n) /\ Size(n) \in Nat
    BY <2>1, EntryIs, Zenon DEF Size
  <2>3. Content(n)' = Content(n)
    BY <2>1, <2>2, Zenon DEF Content
  <2> QED
    BY <2>2, <2>3
<1> QED
  BY <1>1, <1>2, Zenon DEF FileStep, KeepsFiles, ChangesByWriter, ShrinksByShared

LEMMA AddsOnlyAFile ==
  ASSUME FsInv, Sizes, Serial, NEW p \in Procs, Transfer(p), call[p].pc = "add"
  PROVE  FileStep
<1> DEFINE u == First(Vacant)
<1>1. blocks' = blocks /\ list' = buf[p].list /\ call[p].io = "asked"
  BY DEF Transfer
<1>2. /\ u \in Slots /\ list[u] = Empty
      /\ \A j \in Slots : list[j] # Empty <=> j < u
      /\ \A j \in Slots : j # u => list'[j] = list[j]
  BY <1>1, AddedIs, Zenon
<1> HIDE DEF u
<1>3. Listed \subseteq Listed'
  <2>1. ASSUME NEW n \in Listed PROVE n \in Listed'
    <3>1. PICK i \in Slots : list[i].name = n /\ n # NoName
      BY Zenon DEF Listed
    <3>2. i # u
      BY <1>2, <3>1 DEF Empty
    <3>3. list'[i].name = n
      BY <1>2, <3>1, <3>2, Zenon
    <3> QED
      BY <3>1, <3>3, Zenon DEF Listed
  <2> QED
    BY <2>1, Zenon
<1>4. ASSUME NEW n \in Listed PROVE Content(n)' = Content(n) /\ ~ (Size(n)' < Size(n))
  <2> DEFINE i == First(Places(n))
  <2>1. /\ i \in Slots /\ Entry(n) = list[i] /\ list[i].name = n /\ list[i] # Empty
        /\ Size(n) \in Nat /\ \A j \in Slots : list[j].name = n => i <= j
    BY EntryIs, Zenon
  <2> HIDE DEF i
  <2>2. i < u /\ i # u /\ i <= u
    BY <1>2, <2>1 DEF Slots
  <2>3. list'[i] = list[i]
    BY <1>2, <2>1, <2>2, Zenon
  <2>4. i \in Places(n)' /\ \A j \in Places(n)' : i <= j
    <3>1. ASSUME NEW j \in Slots, list'[j].name = n PROVE i <= j
      <4>1. CASE j = u
        BY <2>2, <4>1, Zenon
      <4>2. CASE j # u
        BY <1>2, <2>1, <3>1, <4>2, Zenon
      <4> QED
        BY <4>1, <4>2, Zenon
    <3> QED
      BY <2>1, <2>3, <3>1, Zenon DEF Places
  <2>5. First(Places(n)') = i
    <3>1. Places(n)' \subseteq Slots
      BY Zenon DEF Places
    <3> QED
      BY <2>4, <3>1, FirstIsLeast, Zenon
  <2>6. Entry(n)' = Entry(n)
    <3>1. Entry(n)' = list'[First(Places(n)')]
      BY Zenon DEF Entry, Places, First
    <3> QED
      BY <2>1, <2>3, <2>5, <3>1, Zenon
  <2>7. Size(n)' = Size(n)
    BY <2>6, Zenon DEF Size
  <2>8. Content(n)' = Content(n)
    BY <1>1, <2>6, <2>7, Zenon DEF Content
  <2> QED
    BY <2>1, <2>7, <2>8
<1> QED
  BY <1>3, <1>4, Zenon DEF FileStep, KeepsFiles, ChangesByWriter, ShrinksByShared

LEMMA ResizesItsFile ==
  ASSUME FsInv, Sizes, Serial, NEW p \in Procs, Transfer(p), call[p].pc = "resize"
  PROVE  FileStep
<1> DEFINE s == file[p].slot
<1>1. blocks' = blocks /\ list' = buf[p].list /\ call[p].io = "asked"
  BY DEF Transfer
<1>2. /\ s \in Slots /\ file[p].mode = "write" /\ list'[s].size = file[p].size
      /\ \A j \in Slots : /\ j # s => list'[j] = list[j]
                          /\ list'[j].name = list[j].name
  BY <1>1, ResizeIs, Zenon
<1>3. list[s].name = file[p].name /\ file[p].mode # "none"
  <2>1. file[p].mode # "none"
    BY <1>2
  <2> QED
    BY <2>1, FileHasBlock, Zenon
<1>4. Listed' = Listed
  <2>1. \A j \in Slots : list'[j].name = list[j].name
    BY <1>2, Zenon
  <2> QED BY <2>1, Zenon DEF Listed
<1>5. ASSUME NEW n \in Listed, n # file[p].name
      PROVE  Content(n)' = Content(n) /\ ~ (Size(n)' < Size(n))
  <2>1. First(Places(n)) \in Slots /\ Entry(n) = list[First(Places(n))]
        /\ Entry(n).name = n /\ Size(n) \in Nat
    BY EntryIs, Zenon
  <2>2. Places(n)' = Places(n)
    BY <1>2, Zenon DEF Places
  <2>3. Entry(n)' = list'[First(Places(n)')]
    BY Zenon DEF Entry, Places, First
  <2>4. First(Places(n)) # s
    BY <1>3, <1>5, <2>1, Zenon
  <2>5. Entry(n)' = Entry(n)
    BY <1>2, <2>1, <2>2, <2>3, <2>4, Zenon
  <2>6. Size(n)' = Size(n)
    BY <2>5, Zenon DEF Size
  <2>7. Content(n)' = Content(n)
    BY <1>1, <2>5, <2>6, Zenon DEF Content
  <2> QED
    BY <2>1, <2>6, <2>7
<1>6. ASSUME NEW n \in Listed, n = file[p].name, Size(n)' < Size(n) PROVE file[p].shared
  <2>1. /\ First(Places(n)) \in Slots /\ Entry(n) = list[First(Places(n))] /\ Size(n) \in Nat
        /\ \A i \in Slots : list[i].name = n => First(Places(n)) <= i
        /\ Entry(n).name = n
    BY EntryIs, Zenon
  <2>2. \A i \in Slots : list[i].name = n => s <= i
    BY <1>3, <1>6, FileHasBlock, Zenon DEF FsInv, FileIsEntry
  <2>3. First(Places(n)) = s
    <3>1. s <= First(Places(n)) /\ First(Places(n)) <= s
      BY <1>2, <1>3, <1>6, <2>1, <2>2, Zenon
    <3> QED
      BY <1>2, <2>1, <3>1 DEF Slots
  <2>4. Places(n)' = Places(n)
    BY <1>2, Zenon DEF Places
  <2>5. Entry(n)' = list'[First(Places(n)')]
    BY Zenon DEF Entry, Places, First
  <2>6. Size(n) = list[s].size /\ Size(n)' = file[p].size
    BY <1>2, <2>1, <2>3, <2>4, <2>5, Zenon DEF Size
  <2>7. ~ file[p].shared => list[s].size <= file[p].size
    BY <1>2, Zenon DEF FsInv, WritersMarked
  <2>8. file[p].size \in Nat
    BY InvTypes DEF Descriptors, Sizes
  <2> QED
    BY <1>6, <2>1, <2>6, <2>7, <2>8
<1> QED
  BY <1>4, <1>5, <1>6, Zenon DEF FileStep, KeepsFiles, ChangesByWriter, ShrinksByShared

LEMMA StoresInItsFile ==
  ASSUME FsInv, Sizes, Serial, NEW p \in Procs, Transfer(p), call[p].pc = "store"
  PROVE  FileStep
<1>1. list' = list /\ blocks' = [blocks EXCEPT ![file[p].lba] = buf[p].block]
  BY DEF Transfer
<1>2. Listed' = Listed
  BY <1>1, Zenon DEF Listed
<1>3. file[p].mode # "none"
  BY DEF FsInv, InCall, HasFile
<1>4. /\ file[p].slot \in Slots /\ list[file[p].slot] # Empty
      /\ list[file[p].slot].name = file[p].name /\ list[file[p].slot].lba = file[p].lba
  BY <1>3, FileHasBlock, Zenon
<1>5. ASSUME NEW n \in Listed PROVE Size(n)' = Size(n) /\ Size(n) \in Nat /\ Entry(n)' = Entry(n)
  <2>1. Entry(n)' = Entry(n)
    BY <1>1, Zenon DEF Entry
  <2> QED
    BY <2>1, EntryIs, Zenon DEF Size
<1>6. ASSUME NEW n \in Listed, Content(n)' # Content(n), ~ torn PROVE file[p].name = n
  <2>1. /\ First(Places(n)) \in Slots /\ Entry(n) = list[First(Places(n))]
        /\ Entry(n).name = n /\ Entry(n) # Empty
    BY EntryIs, Zenon
  <2>2. Entry(n).lba = file[p].lba
    <3>1. Entry(n).lba \in Lbas
      BY <2>1, Zenon DEF FsInv, EntriesCounted
    <3>2. Entry(n).lba # file[p].lba => blocks'[Entry(n).lba] = blocks[Entry(n).lba]
      BY <1>1, <3>1, InvTypes, Zenon
    <3> QED
      BY <1>5, <1>6, <3>2, Zenon DEF Content
  <2>3. DistinctBlocks
    BY FsInvGives, Zenon DEF FilesOnDisk
  <2>4. First(Places(n)) = file[p].slot
    BY <1>4, <1>6, <2>1, <2>2, <2>3, Zenon DEF DistinctBlocks
  <2> QED
    BY <1>4, <2>1, <2>4, Zenon
<1>7. \A n \in Listed : ~ (Size(n)' < Size(n))
  BY <1>5
<1>8. ChangesByWriter
  <2> SUFFICES ASSUME NEW n \in Listed, Content(n)' # Content(n), ~ torn
               PROVE  file[p].name = n /\ call[p].pc \in {"store", "resize"}
    BY Zenon DEF ChangesByWriter
  <2> QED
    BY <1>6, Zenon
<1> QED
  BY <1>2, <1>7, <1>8, Zenon DEF FileStep, KeepsFiles, ShrinksByShared

LEMMA StepsOnFiles ==
  ASSUME FsInv, Sizes, Serial, [FsNext]_fsVars
  PROVE  FileStep
<1>1. ASSUME NEW p \in Procs, Transfer(p) PROVE FileStep
  <2>1. CASE call[p].pc = "add"
    BY <1>1, <2>1, AddsOnlyAFile, Zenon
  <2>2. CASE call[p].pc = "resize"
    BY <1>1, <2>2, ResizesItsFile, Zenon
  <2>3. CASE call[p].pc = "store"
    BY <1>1, <2>3, StoresInItsFile, Zenon
  <2>4. CASE call[p].pc \notin {"add", "resize", "store"}
    <3>1. UNCHANGED <<list, blocks>>
      BY <1>1, <2>4 DEF Transfer
    <3> QED
      BY <3>1, DiskKept, Zenon
  <2> QED
    BY <2>1, <2>2, <2>3, <2>4, Zenon
<1>2. CASE UNCHANGED onDisk
  <2>1. UNCHANGED <<list, blocks>>
    BY <1>2, Zenon DEF onDisk
  <2> QED
    BY <2>1, DiskKept, Zenon
<1>3. (\E p \in Procs : Transfer(p)) \/ UNCHANGED onDisk
  <2>1. CASE FsNext
    <3>1. ASSUME NEW p \in Procs
          PROVE  /\ \A n, m, c : SysOpen(p, n, m, c) => UNCHANGED onDisk
                 /\ Find(p) \/ Grow(p) \/ Add(p) \/ Created(p) \/ Open(p) => UNCHANGED onDisk
      BY Zenon DEF SysOpen, Find, Grow, Add, Created, Open, onDisk
    <3>2. ASSUME NEW p \in Procs
          PROVE  /\ SysClose(p) \/ SysRead(p) => UNCHANGED onDisk
                 /\ \A n : SysLseek(p, n) \/ Fetch(p, n) \/ SysWrite(p, n) => UNCHANGED onDisk
      BY Zenon DEF SysClose, SysRead, SysLseek, Fetch, SysWrite, onDisk
    <3>3. ASSUME NEW p \in Procs
          PROVE  Load(p) \/ Store(p) \/ Relist(p) \/ Resized(p) => UNCHANGED onDisk
      BY Zenon DEF Load, Store, Relist, Resized, onDisk
    <3>4. Crash => UNCHANGED onDisk
      BY Zenon DEF Crash, onDisk
    <3> QED BY <2>1, <3>1, <3>2, <3>3, <3>4, Zenon DEF FsNext
  <2>2. CASE UNCHANGED fsVars
    BY <2>2, Zenon DEF fsVars, onDisk
  <2> QED
    BY <2>1, <2>2, Zenon
<1> QED
  BY <1>1, <1>2, <1>3, Zenon

\* With one file call at a time, a file stays in the list over any number of
\* crashes, only a writer that has it open changes its content unless a create was
\* torn, and only a writer that shared the file makes it shorter.
THEOREM WritersChangeFiles ==
  ASSUME Sizes, Serial
  PROVE  FsSpec => FilesChangeByWriters
<1>1. FsInit => FsInv
  BY FsStart
<1>2. FsInv /\ [FsNext]_fsVars => FsInv'
  BY FsStep
<1>3. FsInv /\ [FsNext]_fsVars => [KeepsFiles /\ ChangesByWriter /\ ShrinksByShared]_fsVars
  BY StepsOnFiles DEF FileStep
<1> QED
  BY <1>1, <1>2, <1>3, PTL DEF FsSpec, FilesChangeByWriters
=============================================================================
