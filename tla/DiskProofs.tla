---------------------------- MODULE DiskProofs ----------------------------
(***************************************************************************)
(* Disk proved for every set of processes, number of slots, pages and      *)
(* blocks: the types, that a sleeper has a task that will wake it, and     *)
(* that who comes back from the disk has its block or has written its data *)
(* as long as no signal cut a wait short.                                  *)
(***************************************************************************)
EXTENDS Disk, SequenceTheorems, WellFoundedInduction, TLAPS

(***************************************************************************)
(* The inductive invariant.  Quiet ties four places together that the code *)
(* changes at different times: the list of tasks, the port's slots, the    *)
(* sleeping processes and the pages they gave to the controller.           *)
(***************************************************************************)
\* A slot in use holds a command.
SlotsHoldCommands == \A s \in ci : cmd[s] \in Commands

\* Who is in its program asked for nothing; a refused request never returns.
IdleOrAsks ==
  \A p \in Procs :
    /\ call[p].at = "user" => call[p] = InUser /\ ~ on_hold[p]
    /\ call[p].lost => on_hold[p]

\* A task is the one request of a process that sleeps for it.
TaskIsRequest ==
  /\ \A k \in DOMAIN tasks :
       LET t == tasks[k]
           c == call[t.proc]
       IN
       /\ on_hold[t.proc] /\ ~ c.lost /\ t.cmd.proc = t.proc
       /\ c.at = (IF t.cmd.write THEN "write" ELSE "read") /\ c.page = t.cmd.page
       /\ t.issued <=> t.slot # NoSlot
       /\ ~ t.issued => c.xfer = Nothing
  /\ \A j, k \in DOMAIN tasks : tasks[j].proc = tasks[k].proc => j = k

\* The slots in use are those of the issued tasks whose data has not moved.
SlotsMatchTasks ==
  /\ \A k \in DOMAIN tasks : tasks[k].issued /\ call[tasks[k].proc].xfer = Nothing =>
       tasks[k].slot \in ci /\ cmd[tasks[k].slot] = tasks[k].cmd
  /\ \A s \in ci : \E k \in DOMAIN tasks :
       /\ tasks[k].issued /\ tasks[k].slot = s /\ tasks[k].cmd = cmd[s]
       /\ call[tasks[k].proc].xfer = Nothing

\* A page that a read waits for is reserved, for it alone, and holds the block
\* once it has come.
Reading(p) == call[p].at = "read" /\ ~ call[p].lost
ReadsKeepPages ==
  /\ \A p \in Procs : Reading(p) =>
       /\ used[call[p].page]
       /\ call[p].xfer # Nothing => page[call[p].page] = call[p].xfer
  /\ \A p, q \in Procs : Reading(p) /\ Reading(q) /\ call[p].page = call[q].page => p = q

\* A write whose page nobody else got still has its data there until it is out,
\* and no read waits for that page.
Writing(p) == call[p].at = "write" /\ ~ call[p].lost /\ ~ call[p].taken
WritesKeepData ==
  \A p \in Procs : Writing(p) =>
    /\ call[p].xfer \in {Nothing, call[p].data} /\ call[p].data # Nothing
    /\ call[p].xfer = Nothing =>
         /\ page[call[p].page] = call[p].data
         /\ \A q \in Procs : Reading(q) => call[q].page # call[p].page

\* Who is awake inside a request has had its transfer.
AwakeIsServed ==
  \A p \in Procs : call[p].at # "user" /\ ~ on_hold[p] => call[p].xfer # Nothing

Quiet ==
  /\ IdleOrAsks /\ TaskIsRequest /\ SlotsMatchTasks
  /\ ReadsKeepPages /\ WritesKeepData /\ AwakeIsServed

DiskInv ==
  /\ TypeOK /\ SleeperHasTask /\ SlotsHoldCommands
  /\ ~ early => Quiet
-----------------------------------------------------------------------------
(***************************************************************************)
(* Lists, minima and records.                                              *)
(***************************************************************************)
LEMMA LowestIs ==
  ASSUME NEW S \in SUBSET Nat, S # {}
  PROVE  (CHOOSE s \in S : \A t \in S : s <= t) \in S
<1>1. \E f \in S : \A g \in S : ~ (<<g, f>> \in OpToRel(<, Nat))
  BY WFMin, NatLessThanWellFounded, Zenon
<1>2. PICK f \in S : \A g \in S : ~ (<<g, f>> \in OpToRel(<, Nat))
  BY <1>1, Zenon
<1>3. ASSUME NEW g \in S PROVE f <= g
  <2>1. ~ (g < f)
    BY <1>2, Zenon DEF OpToRel
  <2> QED BY <2>1
<1> QED BY <1>3, Zenon

\* Removed drops entry k and moves the later ones down.
LEMMA RemovedIs ==
  ASSUME NEW T, NEW l \in Seq(T), NEW k \in 1 .. Len(l)
  PROVE  LET m == Removed(l, k)
         IN  /\ m \in Seq(T) /\ Len(m) = Len(l) - 1 /\ DOMAIN m = 1 .. Len(l) - 1
             /\ \A i \in 1 .. Len(l) - 1 : m[i] = IF i < k THEN l[i] ELSE l[i + 1]
<1> DEFINE n == Len(l)
           a == SubSeq(l, 1, k - 1)
           b == SubSeq(l, k + 1, n)
           m == a \o b
<1>1. k \in 1 .. n /\ n \in Nat /\ DOMAIN l = 1 .. n /\ \A i \in 1 .. n : l[i] \in T
  OBVIOUS
<1>2. /\ a \in Seq(T) /\ Len(a) = k - 1
      /\ \A i \in 1 .. k - 1 : a[i] = l[i]
  <2>1. 1 \in Int /\ k - 1 \in Int /\ \A i \in 1 .. k - 1 : l[i] \in T
    BY <1>1
  <2>2. /\ a \in Seq(T)
        /\ Len(a) = IF 1 <= k - 1 THEN (k - 1) - 1 + 1 ELSE 0
        /\ \A i \in 1 .. (k - 1) - 1 + 1 : a[i] = l[1 + i - 1]
    BY <2>1, SubSeqProperties
  <2> HIDE DEF a, n
  <2>3. k \in Nat /\ 1 <= k
    BY <1>1
  <2>4. Len(a) = k - 1
    BY ONLY <2>2, <2>3
  <2>5. ASSUME NEW i \in 1 .. k - 1 PROVE a[i] = l[i]
    <3>1. i \in 1 .. (k - 1) - 1 + 1 /\ 1 + i - 1 = i
      BY ONLY <2>3, i \in 1 .. k - 1
    <3> QED BY <2>2, <3>1
  <2>6. a \in Seq(T)
    BY ONLY <2>2, Zenon
  <2> QED BY <2>4, <2>5, <2>6, Zenon
<1>3. /\ b \in Seq(T) /\ Len(b) = n - k
      /\ \A i \in 1 .. n - k : b[i] = l[k + i]
  <2>1. k + 1 \in Int /\ n \in Int /\ \A i \in k + 1 .. n : l[i] \in T
    BY <1>1
  <2>2. /\ b \in Seq(T)
        /\ Len(b) = IF k + 1 <= n THEN n - (k + 1) + 1 ELSE 0
        /\ \A i \in 1 .. n - (k + 1) + 1 : b[i] = l[(k + 1) + i - 1]
    BY <2>1, SubSeqProperties
  <2> HIDE DEF b, n
  <2>3. k \in Nat /\ n \in Nat /\ 1 <= k /\ k <= n
    BY <1>1
  <2>4. Len(b) = n - k
    BY ONLY <2>2, <2>3
  <2>5. ASSUME NEW i \in 1 .. n - k PROVE b[i] = l[k + i]
    <3>1. i \in 1 .. n - (k + 1) + 1 /\ (k + 1) + i - 1 = k + i
      BY ONLY <2>3, i \in 1 .. n - k
    <3> QED BY <2>2, <3>1
  <2>6. b \in Seq(T)
    BY ONLY <2>2, Zenon
  <2> QED BY <2>4, <2>5, <2>6, Zenon
<1> HIDE DEF a, b, n
<1>4. /\ m \in Seq(T) /\ Len(m) = n - 1 /\ DOMAIN m = 1 .. n - 1
      /\ \A i \in 1 .. n - 1 : m[i] = IF i < k THEN l[i] ELSE l[i + 1]
  <2>1. m \in Seq(T) /\ Len(m) = Len(a) + Len(b)
    BY <1>2, <1>3, ConcatProperties
  <2>2. \A i \in 1 .. Len(a) + Len(b) : m[i] = IF i <= Len(a) THEN a[i] ELSE b[i - Len(a)]
    BY <1>2, <1>3, ConcatProperties
  <2> HIDE DEF m
  <2>3. Len(m) = n - 1 /\ DOMAIN m = 1 .. n - 1
    BY <1>1, <1>2, <1>3, <2>1
  <2>4. ASSUME NEW i \in 1 .. n - 1 PROVE m[i] = IF i < k THEN l[i] ELSE l[i + 1]
    <3>1. CASE i < k
      BY <1>1, <1>2, <1>3, <2>2, <3>1
    <3>2. CASE ~ (i < k)
      <4>1. m[i] = b[i - (k - 1)] /\ i - (k - 1) \in 1 .. n - k
        BY <1>1, <1>2, <1>3, <2>2, <3>2
      <4> QED BY <1>1, <1>3, <4>1, <3>2
    <3> QED BY <3>1, <3>2
  <2> QED BY <2>1, <2>3, <2>4
<1> QED BY <1>4, Zenon DEF Removed, m, a, b, n

Requests == [at : {"user", "read", "write"}, page : Pages,
             data : Data \cup {Nothing}, xfer : Data \cup {Nothing},
             taken : BOOLEAN, lost : BOOLEAN]

LEMMA InUserIs ==
  /\ InUser \in Requests /\ InUser.at = "user" /\ InUser.xfer = Nothing
  /\ ~ InUser.taken /\ ~ InUser.lost /\ InUser.data = Nothing
BY DiskAssumption DEF InUser, Requests, Pages

LEMMA NoSlotIs == NoSlot \notin Slots
BY DiskAssumption DEF NoSlot, Slots

LEMMA FreePageIs ==
  ASSUME TypeOK, FreePages # {}
  PROVE  FreePage \in Pages /\ ~ used[FreePage]
<1>1. FreePages \in SUBSET Nat
  BY DEF FreePages, Pages
<1>2. FreePage \in FreePages
  BY <1>1, LowestIs, Zenon DEF FreePage
<1> QED BY <1>2 DEF FreePages

(***************************************************************************)
(* ahci_read_task and ahci_write_task: either no slot is free and the port *)
(* keeps its commands, or c has a slot that was free.                      *)
(***************************************************************************)
Issue(c, s) ==
  /\ tfes' = FALSE /\ dead' = dead \ {s}
  /\ \/ s = NoSlot /\ ci' = ci /\ cmd' = cmd
     \/ s \in Slots \ ci /\ ci' = ci \cup {s} /\ cmd' = [cmd EXCEPT ![s] = c]

LEMMA IssueIs ==
  ASSUME TypeOK, NEW c \in Commands, NEW i, i = Issued(Port, c),
         SetPort(i.port), dead' = dead \ {i.slot}
  PROVE  Issue(c, i.slot)
<1>1. CASE FreeSlots(Port) = {}
  BY <1>1 DEF Issued, Port, SetPort, Issue
<1>2. CASE FreeSlots(Port) # {}
  <2> DEFINE s == LowestSlot(Port)
  <2>1. FreeSlots(Port) = Slots \ ci /\ Slots \ ci \in SUBSET Nat
    BY DEF FreeSlots, Port, Slots
  <2>2. s \in Slots \ ci
    BY <1>2, <2>1, LowestIs, Zenon DEF LowestSlot
  <2> HIDE DEF s
  <2>3. i = [port |-> [ci |-> ci \cup {s}, cmd |-> [cmd EXCEPT ![s] = c], tfes |-> FALSE],
             slot |-> s]
    BY <1>2 DEF Issued, Port, s
  <2>4. /\ i.slot = s /\ i.port.ci = ci \cup {s} /\ i.port.tfes = FALSE
        /\ i.port.cmd = [cmd EXCEPT ![s] = c]
    BY ONLY <2>3
  <2> QED BY <2>2, <2>4, Zenon DEF SetPort, Issue
<1> QED BY <1>1, <1>2

LEMMA IssueType ==
  ASSUME TypeOK, SlotsHoldCommands, NEW c \in Commands, NEW s, Issue(c, s)
  PROVE  /\ ci' \subseteq Slots /\ tfes' \in BOOLEAN /\ dead' \subseteq Slots
         /\ cmd' \in [Slots -> Commands \cup {Nothing}]
         /\ s \in Slots \cup {NoSlot} /\ SlotsHoldCommands'
<1>1. CASE s = NoSlot /\ ci' = ci /\ cmd' = cmd
  BY <1>1, Zenon DEF Issue, TypeOK, SlotsHoldCommands
<1>2. CASE s \in Slots \ ci /\ ci' = ci \cup {s} /\ cmd' = [cmd EXCEPT ![s] = c]
  BY <1>2, Zenon DEF Issue, TypeOK, SlotsHoldCommands
<1> QED BY <1>1, <1>2, Zenon DEF Issue

LEMMA NewTaskIs ==
  ASSUME NEW p \in Procs, NEW c \in Commands, NEW s \in Slots \cup {NoSlot}
  PROVE  LET t == NewTask(p, c, s)
         IN  t \in Tasks /\ t.proc = p /\ t.cmd = c /\ t.slot = s /\ (t.issued <=> s # NoSlot)
BY DEF NewTask, Tasks

-----------------------------------------------------------------------------
(***************************************************************************)
(* What the requests do, in one form for reads and writes.                 *)
(***************************************************************************)
\* The records of the other processes keep all but taken.
Keeps(q, g) ==
  /\ call'[q].at = call[q].at /\ call'[q].page = call[q].page
  /\ call'[q].data = call[q].data /\ call'[q].xfer = call[q].xfer
  /\ call'[q].lost = call[q].lost
  /\ call'[q].taken = (call[q].taken \/ (/\ call[q].at = "write" /\ call[q].page = g
                                        /\ call[q].xfer = Nothing))
  /\ call[q].at = "user" => call'[q] = call[q]

LEMMA SleepsIs ==
  ASSUME TypeOK, NEW p \in Procs, NEW how \in Requests, Sleeps(p, how)
  PROVE  /\ on_hold' \in [Procs -> BOOLEAN] /\ on_hold'[p]
         /\ \A q \in Procs \ {p} : on_hold'[q] = on_hold[q]
         /\ call' \in [Procs -> Requests] /\ call'[p] = how
         /\ \A q \in Procs \ {p} : Keeps(q, how.page)
<1>1. on_hold' = [on_hold EXCEPT ![p] = TRUE] /\ on_hold \in [Procs -> BOOLEAN]
  BY Zenon DEF Sleeps, TypeOK
<1>2. call' = [Taking(how.page) EXCEPT ![p] = how] /\ call \in [Procs -> Requests]
  BY Zenon DEF Sleeps, TypeOK, Requests
<1> DEFINE g == how.page
           Of(q) == IF call[q].at = "write" /\ call[q].page = g /\ call[q].xfer = Nothing
                    THEN [call[q] EXCEPT !.taken = TRUE] ELSE call[q]
<1>3. ASSUME NEW q \in Procs PROVE Of(q) \in Requests
  BY <1>2 DEF Requests
<1>4. Taking(g) = [q \in Procs |-> Of(q)]
  BY Zenon DEF Taking
<1> HIDE DEF Of
<1>5. call' \in [Procs -> Requests] /\ call'[p] = how
      /\ \A q \in Procs \ {p} : call'[q] = Of(q)
  BY <1>2, <1>3, <1>4, Zenon
<1>6. ASSUME NEW q \in Procs \ {p} PROVE Keeps(q, g)
  <2>1. call'[q] = Of(q) /\ call[q] \in Requests
    BY <1>2, <1>5, Zenon
  <2> QED BY ONLY <2>1 DEF Of, Keeps, Requests
<1>7. on_hold' \in [Procs -> BOOLEAN] /\ on_hold'[p]
      /\ \A q \in Procs \ {p} : on_hold'[q] = on_hold[q]
  BY <1>1, Zenon
<1> QED BY <1>5, <1>6, <1>7, Zenon

\* A request that the port takes: a task with or without a slot.
Asks(p, c, s, how) ==
  /\ call[p] = InUser /\ ~ on_hold[p] /\ cursor = 0
  /\ c.proc = p /\ ~ used[c.page]
  /\ how.at = (IF c.write THEN "write" ELSE "read") /\ how.page = c.page
  /\ how.xfer = Nothing /\ ~ how.taken /\ ~ how.lost
  /\ \/ c.write /\ how.data \in Data /\ page' = [page EXCEPT ![c.page] = how.data]
        /\ used' = used
     \/ ~ c.write /\ page' = page /\ used' = [used EXCEPT ![c.page] = TRUE]
  /\ tasks' = Append(tasks, NewTask(p, c, s)) /\ Issue(c, s) /\ Sleeps(p, how)
  /\ UNCHANGED <<cursor, disk, early, faults>>

LEMMA ReadAsks ==
  ASSUME TypeOK, NEW p \in Procs, NEW b \in Blocks, ReadRequest(p, b)
  PROVE  \E c \in Commands, how \in Requests : \E s : Asks(p, c, s, how)
<1> DEFINE g == FreePage
           c == [blk |-> b, write |-> FALSE, page |-> g, proc |-> p]
           i == Issued(Port, c)
           how == [InUser EXCEPT !.at = "read", !.page = g]
<1>1. /\ call[p] = InUser /\ ~ on_hold[p] /\ cursor = 0 /\ FreePages # {}
      /\ used' = [used EXCEPT ![g] = TRUE]
      /\ tasks' = Append(tasks, NewTask(p, c, i.slot))
      /\ SetPort(i.port) /\ dead' = dead \ {i.slot} /\ Sleeps(p, how)
      /\ UNCHANGED <<cursor, disk, page, early, faults>>
  BY Zenon DEF ReadRequest, Calls, Runs, Reserved
<1>2. g \in Pages /\ ~ used[g]
  BY <1>1, FreePageIs, Zenon
<1> HIDE DEF g
<1>3. c \in Commands /\ c.proc = p /\ c.page = g /\ ~ c.write
  BY <1>2 DEF Commands
<1>4. /\ how \in Requests /\ how.at = "read" /\ how.page = g /\ how.xfer = Nothing
      /\ ~ how.taken /\ ~ how.lost
  BY <1>2, InUserIs DEF Requests, InUser
<1> HIDE DEF c, how, i
<1>5. Issue(c, i.slot)
  BY <1>1, <1>3, IssueIs, Zenon DEF i
<1> DEFINE s == i.slot
<1>6. Asks(p, c, s, how)
  BY <1>1, <1>2, <1>3, <1>4, <1>5, Zenon DEF Asks
<1> QED BY <1>3, <1>4, <1>6, Zenon

LEMMA WriteAsks ==
  ASSUME TypeOK, NEW p \in Procs, NEW b \in Blocks, NEW d \in Data, WriteRequest(p, b, d)
  PROVE  \E c \in Commands, how \in Requests : \E s : Asks(p, c, s, how)
<1> DEFINE g == FreePage
           c == [blk |-> b, write |-> TRUE, page |-> g, proc |-> p]
           i == Issued(Port, c)
           how == [InUser EXCEPT !.at = "write", !.page = g, !.data = d]
<1>1. /\ call[p] = InUser /\ ~ on_hold[p] /\ cursor = 0 /\ FreePages # {}
      /\ page' = [page EXCEPT ![g] = d]
      /\ tasks' = Append(tasks, NewTask(p, c, i.slot))
      /\ SetPort(i.port) /\ dead' = dead \ {i.slot} /\ Sleeps(p, how)
      /\ UNCHANGED <<cursor, disk, used, early, faults>>
  BY Zenon DEF WriteRequest, Calls, Runs
<1>2. g \in Pages /\ ~ used[g]
  BY <1>1, FreePageIs, Zenon
<1> HIDE DEF g
<1>3. c \in Commands /\ c.proc = p /\ c.page = g /\ c.write
  BY <1>2 DEF Commands
<1>4. /\ how \in Requests /\ how.at = "write" /\ how.page = g /\ how.xfer = Nothing
      /\ how.data = d /\ ~ how.taken /\ ~ how.lost
  BY <1>2, InUserIs DEF Requests, InUser
<1> HIDE DEF c, how, i
<1>5. Issue(c, i.slot)
  BY <1>1, <1>3, IssueIs, Zenon DEF i
<1> DEFINE s == i.slot
<1>6. Asks(p, c, s, how)
  BY <1>1, <1>2, <1>3, <1>4, <1>5, Zenon DEF Asks
<1> QED BY <1>3, <1>4, <1>6, Zenon

\* A request that the port refuses: the process sleeps without a task.
Drops(p, how) ==
  /\ call[p] = InUser /\ ~ on_hold[p]
  /\ how.lost /\ ~ used[how.page] /\ how.at # "user"
  /\ page' \in [Pages -> Data] /\ \A g \in Pages \ {how.page} : page'[g] = page[g]
  /\ Sleeps(p, how) /\ tfes' = FALSE /\ faults' \in 0 .. MaxFaults
  /\ UNCHANGED <<tasks, cursor, ci, cmd, dead, disk, used, early>>

LEMMA RefusedDrops ==
  ASSUME TypeOK, NEW p \in Procs,
         Refused(p, "read", Nothing) \/ \E d \in Data : Refused(p, "write", d)
  PROVE  \E how \in Requests : Drops(p, how)
<1>1. PICK kind \in {"read", "write"}, d \in Data \cup {Nothing} :
        (kind = "write" => d \in Data) /\ Refused(p, kind, d)
  BY Zenon
<1> DEFINE g == FreePage
           how == [InUser EXCEPT !.at = kind, !.page = g, !.lost = TRUE]
<1>2. /\ call[p] = InUser /\ ~ on_hold[p] /\ FreePages # {}
      /\ page' = IF kind = "write" THEN [page EXCEPT ![g] = d] ELSE page
      /\ Sleeps(p, how) /\ tfes' = FALSE /\ faults < MaxFaults /\ faults' = faults + 1
      /\ UNCHANGED <<tasks, cursor, ci, cmd, dead, disk, used, early>>
  BY <1>1, Zenon DEF Refused, Calls, Runs
<1>3. g \in Pages /\ ~ used[g]
  BY <1>2, FreePageIs, Zenon
<1> HIDE DEF g
<1>4. how \in Requests /\ how.at # "user" /\ how.page = g /\ how.lost
  BY <1>3, InUserIs DEF Requests, InUser
<1> HIDE DEF how
<1>5. page' \in [Pages -> Data] /\ \A h \in Pages \ {g} : page'[h] = page[h]
  BY <1>1, <1>2, <1>3, Zenon DEF TypeOK
<1>6. faults' \in 0 .. MaxFaults
  BY <1>2, DiskAssumption DEF TypeOK
<1>7. Drops(p, how)
  BY <1>2, <1>3, <1>4, <1>5, <1>6, Zenon DEF Drops
<1> QED BY <1>4, <1>7, Zenon

LEMMA TaskTypes ==
  ASSUME TypeOK
  PROVE  \A k \in DOMAIN tasks :
           /\ tasks[k] \in Tasks /\ tasks[k].proc \in Procs /\ tasks[k].cmd \in Commands
           /\ tasks[k].issued \in BOOLEAN /\ tasks[k].slot \in Slots \cup {NoSlot}
<1>1. tasks \in Seq(Tasks)
  BY Zenon DEF TypeOK
<1>2. \A k \in DOMAIN tasks : tasks[k] \in Tasks
  BY ONLY <1>1
<1> QED BY ONLY <1>2 DEF Tasks

LEMMA AppendIs ==
  ASSUME NEW T, NEW l \in Seq(T), NEW t \in T
  PROVE  LET m == Append(l, t)
             n == Len(l) + 1
         IN  /\ m \in Seq(T) /\ Len(m) = n /\ m[n] = t
             /\ DOMAIN m = DOMAIN l \cup {n} /\ n \notin DOMAIN l
             /\ \A k \in DOMAIN l : m[k] = l[k]
OBVIOUS

-----------------------------------------------------------------------------
(***************************************************************************)
(* Each action preserves the invariant.                                    *)
(***************************************************************************)
LEMMA AsksKeeps ==
  ASSUME DiskInv, NEW p \in Procs, NEW c \in Commands, NEW how \in Requests, NEW s,
         Asks(p, c, s, how)
  PROVE  DiskInv'
<1> DEFINE n == Len(tasks) + 1
           t == NewTask(p, c, s)
<1>0. TypeOK /\ SlotsHoldCommands /\ SleeperHasTask /\ (~ early => Quiet)
  BY Zenon DEF DiskInv
<1>1. /\ call[p] = InUser /\ ~ on_hold[p] /\ cursor = 0
      /\ c.proc = p /\ ~ used[c.page]
      /\ how.at = (IF c.write THEN "write" ELSE "read") /\ how.page = c.page
      /\ how.xfer = Nothing /\ ~ how.taken /\ ~ how.lost
      /\ tasks' = Append(tasks, t) /\ Issue(c, s) /\ Sleeps(p, how)
      /\ cursor' = cursor /\ disk' = disk /\ early' = early /\ faults' = faults
  BY Zenon DEF Asks
<1>2. \/ c.write /\ how.data \in Data /\ page' = [page EXCEPT ![c.page] = how.data]
         /\ used' = used
      \/ ~ c.write /\ page' = page /\ used' = [used EXCEPT ![c.page] = TRUE]
  BY Zenon DEF Asks
<1>3. /\ ci' \subseteq Slots /\ tfes' \in BOOLEAN /\ dead' \subseteq Slots
      /\ cmd' \in [Slots -> Commands \cup {Nothing}]
      /\ s \in Slots \cup {NoSlot} /\ SlotsHoldCommands'
  BY <1>0, <1>1, IssueType, Zenon
<1>4. /\ t \in Tasks /\ t.proc = p /\ t.cmd = c /\ t.slot = s /\ (t.issued <=> s # NoSlot)
  BY <1>3, NewTaskIs
<1> HIDE DEF t
<1>5. tasks \in Seq(Tasks)
  BY <1>0, Zenon DEF TypeOK
<1>6. /\ tasks' \in Seq(Tasks) /\ Len(tasks') = n /\ tasks'[n] = t
      /\ DOMAIN tasks' = DOMAIN tasks \cup {n} /\ n \notin DOMAIN tasks
      /\ \A k \in DOMAIN tasks : tasks'[k] = tasks[k]
  BY <1>1, <1>4, <1>5, AppendIs
<1>7. cursor' \in 0 .. Len(tasks')
  BY <1>1, <1>5, <1>6
<1> HIDE DEF n
<1>8. /\ on_hold' \in [Procs -> BOOLEAN] /\ on_hold'[p]
      /\ \A q \in Procs \ {p} : on_hold'[q] = on_hold[q]
      /\ call' \in [Procs -> Requests] /\ call'[p] = how
      /\ \A q \in Procs \ {p} : Keeps(q, how.page)
  BY <1>0, <1>1, SleepsIs, Zenon
<1>9. /\ page \in [Pages -> Data] /\ used \in [Pages -> BOOLEAN] /\ c.page \in Pages
      /\ disk \in [Blocks -> Data] /\ early \in BOOLEAN /\ faults \in 0 .. MaxFaults
  BY <1>0 DEF TypeOK, Commands
<1>10. page' \in [Pages -> Data] /\ used' \in [Pages -> BOOLEAN]
  BY <1>2, <1>9, Zenon
<1>11. TypeOK'
  BY <1>1, <1>3, <1>6, <1>7, <1>8, <1>9, <1>10, Zenon DEF TypeOK, Requests
<1>12. SleeperHasTask'
  <2> SUFFICES ASSUME NEW q \in Procs, on_hold'[q]
               PROVE  call'[q].lost \/ \E k \in DOMAIN tasks' : tasks'[k].proc = q
    BY Zenon DEF SleeperHasTask
  <2>1. CASE q = p
    BY <2>1, <1>4, <1>6, Zenon
  <2>2. CASE q # p
    <3>1. on_hold[q] /\ call'[q].lost = call[q].lost
      BY <2>2, <1>8, Zenon DEF Keeps
    <3> QED BY <3>1, <1>0, <1>6 DEF SleeperHasTask
  <2> QED BY <2>1, <2>2
<1>13. ASSUME ~ early PROVE Quiet'
  <2>0. /\ IdleOrAsks /\ TaskIsRequest /\ SlotsMatchTasks
        /\ ReadsKeepPages /\ WritesKeepData /\ AwakeIsServed
    BY <1>0, <1>13, Zenon DEF Quiet
  <2>1. \A k \in DOMAIN tasks : tasks[k] \in Tasks /\ tasks[k].proc \in Procs \ {p}
    <3>1. \A k \in DOMAIN tasks : tasks[k] \in Tasks /\ tasks[k].proc \in Procs
      BY <1>0, TaskTypes, Zenon
    <3>3. \A k \in DOMAIN tasks : on_hold[tasks[k].proc]
      BY <2>0, Zenon DEF TaskIsRequest
    <3> QED BY <1>1, <3>1, <3>3, Zenon
  <2>2. \A q \in Procs \ {p} :
          /\ call'[q].at = call[q].at /\ call'[q].page = call[q].page
          /\ call'[q].data = call[q].data /\ call'[q].xfer = call[q].xfer
          /\ call'[q].lost = call[q].lost /\ on_hold'[q] = on_hold[q]
          /\ call[q].taken => call'[q].taken
          /\ /\ call[q].at = "write" /\ call[q].page = c.page /\ call[q].xfer = Nothing
             => call'[q].taken
          /\ call[q].at = "user" => call'[q] = call[q]
    BY <1>1, <1>8 DEF Keeps
  <2>3. IdleOrAsks'
    BY <1>1, <1>8, <2>0, <2>2 DEF IdleOrAsks
  <2>4. TaskIsRequest'
    <3>1. ASSUME NEW k \in DOMAIN tasks'
          PROVE  LET u == tasks'[k]
                     r == call'[u.proc]
                 IN  /\ on_hold'[u.proc] /\ ~ r.lost /\ u.cmd.proc = u.proc
                     /\ r.at = (IF u.cmd.write THEN "write" ELSE "read")
                     /\ r.page = u.cmd.page
                     /\ u.issued <=> u.slot # NoSlot
                     /\ ~ u.issued => r.xfer = Nothing
      <4>1. CASE k = n
        BY <4>1, <1>1, <1>4, <1>6, <1>8
      <4>2. CASE k \in DOMAIN tasks
        BY <4>2, <1>6, <2>0, <2>1, <2>2 DEF TaskIsRequest
      <4> QED BY <4>1, <4>2, <1>6, Zenon
    <3>2. ASSUME NEW j \in DOMAIN tasks', NEW k \in DOMAIN tasks',
                 tasks'[j].proc = tasks'[k].proc
          PROVE  j = k
      <4>1. \A i \in DOMAIN tasks : i \in DOMAIN tasks' /\ tasks'[i].proc # p
        BY <1>6, <2>1, Zenon
      <4>2. tasks'[n].proc = p
        BY <1>4, <1>6, Zenon
      <4>3. CASE j = n \/ k = n
        BY <3>2, <4>1, <4>2, <4>3, <1>6, Zenon
      <4>4. CASE j # n /\ k # n
        <5>1. j \in DOMAIN tasks /\ k \in DOMAIN tasks /\ tasks[j].proc = tasks[k].proc
          BY <3>2, <4>4, <1>6, Zenon
        <5> QED BY <5>1, <2>0, Zenon DEF TaskIsRequest
      <4> QED BY <4>3, <4>4, Zenon
    <3> QED BY <3>1, <3>2, Zenon DEF TaskIsRequest
  <2>5. \/ s = NoSlot /\ ci' = ci /\ cmd' = cmd
        \/ /\ s \in Slots \ ci /\ ci' = ci \cup {s} /\ cmd'[s] = c
           /\ \A r \in Slots \ {s} : cmd'[r] = cmd[r]
    BY <1>0, <1>1, Zenon DEF Issue, TypeOK
  <2>6. ci \subseteq Slots /\ NoSlot \notin Slots
    BY <1>0, NoSlotIs, Zenon DEF TypeOK
  <2>7. \A r \in ci : r \in ci' /\ cmd'[r] = cmd[r]
    BY <2>5, <2>6, Zenon
  <2>8. SlotsMatchTasks'
    <3>1. ASSUME NEW k \in DOMAIN tasks', tasks'[k].issued,
                 call'[tasks'[k].proc].xfer = Nothing
          PROVE  tasks'[k].slot \in ci' /\ cmd'[tasks'[k].slot] = tasks'[k].cmd
      <4>1. CASE k = n
        BY <4>1, <3>1, <1>4, <1>6, <2>5, Zenon
      <4>2. CASE k \in DOMAIN tasks
        BY <4>2, <3>1, <1>6, <2>0, <2>1, <2>2, <2>7 DEF SlotsMatchTasks
      <4> QED BY <4>1, <4>2, <1>6, Zenon
    <3>2. ASSUME NEW r \in ci'
          PROVE  \E k \in DOMAIN tasks' :
                   /\ tasks'[k].issued /\ tasks'[k].slot = r /\ tasks'[k].cmd = cmd'[r]
                   /\ call'[tasks'[k].proc].xfer = Nothing
      <4>1. CASE r \in ci
        <5>1. PICK k \in DOMAIN tasks :
                /\ tasks[k].issued /\ tasks[k].slot = r /\ tasks[k].cmd = cmd[r]
                /\ call[tasks[k].proc].xfer = Nothing
          BY <4>1, <2>0, Zenon DEF SlotsMatchTasks
        <5>2. k \in DOMAIN tasks' /\ tasks'[k] = tasks[k] /\ tasks[k].proc \in Procs \ {p}
          BY <1>6, <2>1, Zenon
        <5> QED BY <4>1, <5>1, <5>2, <2>2, <2>7
      <4>2. CASE r \notin ci
        <5>1. r = s /\ s # NoSlot /\ cmd'[s] = c
          BY <4>2, <2>5, <2>6, Zenon
        <5> QED BY <5>1, <1>1, <1>4, <1>6, <1>8
      <4> QED BY <4>1, <4>2
    <3> QED BY <3>1, <3>2, Zenon DEF SlotsMatchTasks
  <2>9. /\ \A q \in Procs \ {p} : Reading(q)' <=> Reading(q)
        /\ Reading(p)' <=> ~ c.write
    BY <1>1, <1>8, <2>2, Zenon DEF Reading
  <2>10. \A q \in Procs : Reading(q) => q # p /\ call[q].page \in Pages /\ call[q].page # c.page
    <3>1. \A q \in Procs : Reading(q) => used[call[q].page]
      BY <2>0, Zenon DEF ReadsKeepPages
    <3>2. ~ Reading(p)
      BY <1>1, InUserIs, Zenon DEF Reading
    <3>3. \A q \in Procs : call[q].page \in Pages
      BY <1>0 DEF TypeOK
    <3> QED BY <1>1, <3>1, <3>2, <3>3, Zenon
  <2>11. /\ \A g \in Pages \ {c.page} : page'[g] = page[g] /\ used'[g] = used[g]
         /\ c.write => page'[c.page] = how.data
         /\ ~ c.write => used'[c.page] /\ page' = page
    BY <1>2, <1>9, Zenon
  <2>12. ReadsKeepPages'
    <3>1. ASSUME NEW q \in Procs, Reading(q)'
          PROVE  /\ used'[call'[q].page]
                 /\ call'[q].xfer # Nothing => page'[call'[q].page] = call'[q].xfer
      <4>1. CASE q = p
        BY <4>1, <3>1, <1>1, <1>8, <2>9, <2>11, Zenon
      <4>2. CASE q # p
        <5>1. Reading(q) /\ call'[q].page = call[q].page /\ call'[q].xfer = call[q].xfer
          BY <4>2, <3>1, <2>2, <2>9, Zenon
        <5>2. used'[call[q].page] = used[call[q].page] /\ page'[call[q].page] = page[call[q].page]
          BY <5>1, <2>10, <2>11, Zenon
        <5> QED BY <5>1, <5>2, <2>0, Zenon DEF ReadsKeepPages
      <4> QED BY <4>1, <4>2
    <3>2. ASSUME NEW q \in Procs, NEW r \in Procs, Reading(q)', Reading(r)',
                 call'[q].page = call'[r].page
          PROVE  q = r
      <4>1. CASE q # p /\ r # p
        <5>1. Reading(q) /\ Reading(r)
          BY <4>1, <3>2, <2>9, Zenon
        <5>2. call[q].page = call[r].page
          BY <4>1, <3>2, <2>2, Zenon
        <5> QED BY <5>1, <5>2, <2>0, Zenon DEF ReadsKeepPages
      <4>2. CASE q = p \/ r = p
        BY <4>2, <3>2, <1>1, <1>8, <2>2, <2>9, <2>10
      <4> QED BY <4>1, <4>2
    <3> QED BY <3>1, <3>2, Zenon DEF ReadsKeepPages
  <2>13. WritesKeepData'
    <3> SUFFICES ASSUME NEW q \in Procs, Writing(q)'
                 PROVE  /\ call'[q].xfer \in {Nothing, call'[q].data} /\ call'[q].data # Nothing
                        /\ call'[q].xfer = Nothing =>
                             /\ page'[call'[q].page] = call'[q].data
                             /\ \A r \in Procs : Reading(r)' => call'[r].page # call'[q].page
      BY Zenon DEF WritesKeepData
    <3>1. CASE q = p
      <4>1. c.write /\ how.data \in Data /\ call'[p] = how
        BY <3>1, <1>1, <1>2, <1>8, Zenon DEF Writing
      <4>2. how.data # Nothing
        BY <4>1, DiskAssumption, Zenon
      <4>3. \A r \in Procs : Reading(r)' => call'[r].page # c.page
        BY <4>1, <2>2, <2>9, <2>10, Zenon
      <4> QED BY <3>1, <4>1, <4>2, <4>3, <1>1, <2>11, Zenon
    <3>2. CASE q # p
      <4>1. Writing(q) /\ ~ (call[q].page = c.page /\ call[q].xfer = Nothing)
        BY <3>2, <2>2, Zenon DEF Writing
      <4>2. call'[q].page = call[q].page /\ call'[q].xfer = call[q].xfer
            /\ call'[q].data = call[q].data /\ call[q].page \in Pages
        <5>1. call[q].page \in Pages
          BY <1>0 DEF TypeOK
        <5> QED BY <3>2, <5>1, <2>2, Zenon
      <4>3. call[q].xfer = Nothing => page'[call[q].page] = page[call[q].page]
        BY <4>1, <4>2, <2>11, Zenon
      <4>4. ASSUME call[q].xfer = Nothing, NEW r \in Procs, Reading(r)'
            PROVE  call'[r].page # call[q].page
        <5>1. CASE r = p
          BY <5>1, <4>1, <4>4, <1>1, <1>8, Zenon
        <5>2. CASE r # p
          BY <5>2, <4>1, <4>4, <2>0, <2>2, <2>9 DEF WritesKeepData
        <5> QED BY <5>1, <5>2
      <4> QED BY <4>1, <4>2, <4>3, <4>4, <2>0, Zenon DEF WritesKeepData
    <3> QED BY <3>1, <3>2
  <2>14. AwakeIsServed'
    <3> SUFFICES ASSUME NEW q \in Procs, call'[q].at # "user", ~ on_hold'[q]
                 PROVE  call'[q].xfer # Nothing
      BY Zenon DEF AwakeIsServed
    <3>1. q # p
      BY <1>8, Zenon
    <3>2. call[q].at # "user" /\ ~ on_hold[q] /\ call'[q].xfer = call[q].xfer
      BY <2>2, <3>1, Zenon
    <3> QED BY <3>2, <2>0, Zenon DEF AwakeIsServed
  <2> QED BY <2>3, <2>4, <2>8, <2>12, <2>13, <2>14, Zenon DEF Quiet
<1> QED BY <1>1, <1>3, <1>11, <1>12, <1>13, Zenon DEF DiskInv

\* What TaskIsRequest says of a list that stays, when the processes of its tasks
\* stay as they are.
LEMMA TasksStay ==
  ASSUME TaskIsRequest, tasks' = tasks,
         \A k \in DOMAIN tasks :
           LET q == tasks[k].proc
           IN  /\ on_hold'[q] = on_hold[q] /\ call'[q].lost = call[q].lost
               /\ call'[q].at = call[q].at /\ call'[q].page = call[q].page
               /\ call'[q].xfer = call[q].xfer
  PROVE  TaskIsRequest'
<1>1. ASSUME NEW k \in DOMAIN tasks
      PROVE  LET t == tasks[k]
                 c == call'[t.proc]
             IN
             /\ on_hold'[t.proc] /\ ~ c.lost /\ t.cmd.proc = t.proc
             /\ c.at = (IF t.cmd.write THEN "write" ELSE "read") /\ c.page = t.cmd.page
             /\ t.issued <=> t.slot # NoSlot
             /\ ~ t.issued => c.xfer = Nothing
  <2>1. LET t == tasks[k]
            c == call[t.proc]
        IN
        /\ on_hold[t.proc] /\ ~ c.lost /\ t.cmd.proc = t.proc
        /\ c.at = (IF t.cmd.write THEN "write" ELSE "read") /\ c.page = t.cmd.page
        /\ t.issued <=> t.slot # NoSlot
        /\ ~ t.issued => c.xfer = Nothing
    BY Zenon DEF TaskIsRequest
  <2> QED BY <2>1, Zenon
<1>2. \A j, k \in DOMAIN tasks : tasks[j].proc = tasks[k].proc => j = k
  BY Zenon DEF TaskIsRequest
<1> QED BY <1>1, <1>2, Zenon DEF TaskIsRequest

LEMMA DropsKeeps ==
  ASSUME DiskInv, NEW p \in Procs, NEW how \in Requests, Drops(p, how)
  PROVE  DiskInv'
<1>0. TypeOK /\ SlotsHoldCommands /\ SleeperHasTask /\ (~ early => Quiet)
  BY Zenon DEF DiskInv
<1>1. /\ call[p] = InUser /\ ~ on_hold[p]
      /\ how.lost /\ ~ used[how.page] /\ how.at # "user"
      /\ page' \in [Pages -> Data] /\ \A g \in Pages \ {how.page} : page'[g] = page[g]
      /\ Sleeps(p, how) /\ tfes' = FALSE /\ faults' \in 0 .. MaxFaults
      /\ tasks' = tasks /\ cursor' = cursor /\ ci' = ci /\ cmd' = cmd /\ dead' = dead
      /\ disk' = disk /\ used' = used /\ early' = early
  BY Zenon DEF Drops
<1>2. /\ on_hold' \in [Procs -> BOOLEAN] /\ on_hold'[p]
      /\ \A q \in Procs \ {p} : on_hold'[q] = on_hold[q]
      /\ call' \in [Procs -> Requests] /\ call'[p] = how
      /\ \A q \in Procs \ {p} : Keeps(q, how.page)
  BY <1>0, <1>1, SleepsIs, Zenon
<1>3. TypeOK'
  BY <1>0, <1>1, <1>2, Zenon DEF TypeOK, Requests
<1>4. \A q \in Procs \ {p} :
        /\ call'[q].at = call[q].at /\ call'[q].page = call[q].page
        /\ call'[q].data = call[q].data /\ call'[q].xfer = call[q].xfer
        /\ call'[q].lost = call[q].lost /\ on_hold'[q] = on_hold[q]
        /\ call[q].taken => call'[q].taken
        /\ /\ call[q].at = "write" /\ call[q].page = how.page /\ call[q].xfer = Nothing
           => call'[q].taken
        /\ call[q].at = "user" => call'[q] = call[q]
  BY <1>2 DEF Keeps
<1>5. SleeperHasTask'
  <2> SUFFICES ASSUME NEW q \in Procs, on_hold'[q]
               PROVE  call'[q].lost \/ \E k \in DOMAIN tasks' : tasks'[k].proc = q
    BY Zenon DEF SleeperHasTask
  <2>1. CASE q = p
    BY <2>1, <1>1, <1>2, Zenon
  <2>2. CASE q # p
    <3>1. on_hold[q] /\ call'[q].lost = call[q].lost
      BY <2>2, <1>4, Zenon
    <3> QED BY <3>1, <1>0, <1>1, Zenon DEF SleeperHasTask
  <2> QED BY <2>1, <2>2, Zenon
<1>6. SlotsHoldCommands'
  BY <1>0, <1>1, Zenon DEF SlotsHoldCommands
<1>7. ASSUME ~ early PROVE Quiet'
  <2>0. /\ IdleOrAsks /\ TaskIsRequest /\ SlotsMatchTasks
        /\ ReadsKeepPages /\ WritesKeepData /\ AwakeIsServed
    BY <1>0, <1>7, Zenon DEF Quiet
  <2>1. \A k \in DOMAIN tasks : tasks[k].proc \in Procs \ {p}
    <3>1. \A k \in DOMAIN tasks : tasks[k].proc \in Procs
      BY <1>0, TaskTypes, Zenon
    <3>2. \A k \in DOMAIN tasks : on_hold[tasks[k].proc]
      BY <2>0 DEF TaskIsRequest
    <3> QED BY <1>1, <3>1, <3>2, Zenon
  <2>2. IdleOrAsks'
    <3> SUFFICES ASSUME NEW q \in Procs
                 PROVE  /\ call'[q].at = "user" => call'[q] = InUser /\ ~ on_hold'[q]
                        /\ call'[q].lost => on_hold'[q]
      BY Zenon DEF IdleOrAsks
    <3>1. CASE q = p
      BY <3>1, <1>1, <1>2, Zenon
    <3>2. CASE q # p
      <4>1. /\ call[q].at = "user" => call[q] = InUser /\ ~ on_hold[q]
            /\ call[q].lost => on_hold[q]
        BY <2>0, Zenon DEF IdleOrAsks
      <4> QED BY <3>2, <4>1, <1>4, Zenon
    <3> QED BY <3>1, <3>2, Zenon
  <2>3. TaskIsRequest'
    BY <1>1, <1>4, <2>0, <2>1, TasksStay, Zenon
  <2>4. SlotsMatchTasks'
    <3>1. \A k \in DOMAIN tasks : call'[tasks[k].proc].xfer = call[tasks[k].proc].xfer
      BY <1>4, <2>1, Zenon
    <3> QED BY <1>1, <3>1, <2>0 DEF SlotsMatchTasks
  <2>5. \A q \in Procs : Reading(q)' <=> q # p /\ Reading(q)
    BY <1>1, <1>2, <1>4, Zenon DEF Reading
  <2>6. \A q \in Procs : call[q].page \in Pages
    BY <1>0 DEF TypeOK
  <2>7. \A q \in Procs : Reading(q) => page'[call[q].page] = page[call[q].page]
    BY <1>1, <2>0, <2>6, Zenon DEF ReadsKeepPages
  <2>8. ReadsKeepPages'
    BY <1>1, <1>4, <2>0, <2>5, <2>7 DEF ReadsKeepPages
  <2>9. \A q \in Procs : Writing(q)' => q # p /\ Writing(q)
                           /\ ~ (call[q].page = how.page /\ call[q].xfer = Nothing)
    <3> SUFFICES ASSUME NEW q \in Procs, Writing(q)'
                 PROVE  /\ q # p /\ Writing(q)
                        /\ ~ (call[q].page = how.page /\ call[q].xfer = Nothing)
      BY Zenon
    <3>1. q # p
      BY <1>1, <1>2, Zenon DEF Writing
    <3> QED BY <3>1, <1>4, Zenon DEF Writing
  <2>10. WritesKeepData'
    <3> SUFFICES ASSUME NEW q \in Procs, Writing(q)'
                 PROVE  /\ call'[q].xfer \in {Nothing, call'[q].data} /\ call'[q].data # Nothing
                        /\ call'[q].xfer = Nothing =>
                             /\ page'[call'[q].page] = call'[q].data
                             /\ \A r \in Procs : Reading(r)' => call'[r].page # call'[q].page
      BY Zenon DEF WritesKeepData
    <3>1. q # p /\ Writing(q) /\ ~ (call[q].page = how.page /\ call[q].xfer = Nothing)
      BY <2>9, Zenon
    <3>2. call'[q].page = call[q].page /\ call'[q].xfer = call[q].xfer
          /\ call'[q].data = call[q].data
      BY <3>1, <1>4, Zenon
    <3>3. call[q].xfer = Nothing => page'[call[q].page] = page[call[q].page]
      BY <3>1, <1>1, <2>6, Zenon
    <3>4. \A r \in Procs : Reading(r)' => Reading(r) /\ call'[r].page = call[r].page
      BY <1>4, <2>5, Zenon
    <3> QED BY <3>1, <3>2, <3>3, <3>4, <2>0 DEF WritesKeepData
  <2>11. AwakeIsServed'
    BY <1>2, <1>4, <2>0, Zenon DEF AwakeIsServed
  <2> QED BY <2>2, <2>3, <2>4, <2>8, <2>10, <2>11, Zenon DEF Quiet
<1> QED BY <1>1, <1>3, <1>5, <1>6, <1>7, Zenon DEF DiskInv

\* Back in its program, a process has no request left; the page of a read is
\* free again.
LEMMA ReturnsKeep ==
  ASSUME DiskInv, NEW p \in Procs, ReadReturns(p) \/ WriteReturns(p)
  PROVE  DiskInv'
<1>0. TypeOK /\ SlotsHoldCommands /\ SleeperHasTask /\ (~ early => Quiet)
  BY Zenon DEF DiskInv
<1>1. /\ call[p].at # "user" /\ ~ on_hold[p] /\ call' = [call EXCEPT ![p] = InUser]
      /\ tasks' = tasks /\ cursor' = cursor /\ ci' = ci /\ cmd' = cmd /\ tfes' = tfes
      /\ dead' = dead /\ disk' = disk /\ page' = page /\ on_hold' = on_hold
      /\ early' = early /\ faults' = faults
  BY DEF ReadReturns, WriteReturns, Runs, port, memory
<1>2. \/ call[p].at = "read" /\ used' = [used EXCEPT ![call[p].page] = FALSE]
      \/ call[p].at = "write" /\ used' = used
  BY Zenon DEF ReadReturns, WriteReturns, memory
<1>3. /\ call \in [Procs -> Requests] /\ used \in [Pages -> BOOLEAN]
      /\ call[p].page \in Pages
  BY <1>0 DEF TypeOK, Requests
<1>4. /\ call' \in [Procs -> Requests] /\ call'[p] = InUser
      /\ \A q \in Procs \ {p} : call'[q] = call[q]
  BY <1>1, <1>3, InUserIs, Zenon
<1>5. used' \in [Pages -> BOOLEAN]
  BY <1>2, <1>3, Zenon
<1>6. TypeOK'
  BY <1>0, <1>1, <1>4, <1>5, Zenon DEF TypeOK, Requests
<1>7. SleeperHasTask'
  BY <1>0, <1>1, <1>4, Zenon DEF SleeperHasTask
<1>8. SlotsHoldCommands'
  BY <1>0, <1>1, Zenon DEF SlotsHoldCommands
<1>9. ASSUME ~ early PROVE Quiet'
  <2>0. /\ IdleOrAsks /\ TaskIsRequest /\ SlotsMatchTasks
        /\ ReadsKeepPages /\ WritesKeepData /\ AwakeIsServed
    BY <1>0, <1>9, Zenon DEF Quiet
  <2>1. \A k \in DOMAIN tasks : tasks[k].proc \in Procs \ {p}
    <3>1. \A k \in DOMAIN tasks : tasks[k].proc \in Procs
      BY <1>0, TaskTypes, Zenon
    <3>2. \A k \in DOMAIN tasks : on_hold[tasks[k].proc]
      BY <2>0 DEF TaskIsRequest
    <3> QED BY <1>1, <3>1, <3>2, Zenon
  <2>2. \A k \in DOMAIN tasks : call'[tasks[k].proc] = call[tasks[k].proc]
    BY <2>1, <1>4, Zenon
  <2>3. IdleOrAsks'
    BY <1>1, <1>4, <2>0, InUserIs, Zenon DEF IdleOrAsks
  <2>4. TaskIsRequest'
    BY <1>1, <2>0, <2>2 DEF TaskIsRequest
  <2>5. SlotsMatchTasks'
    BY <1>1, <2>0, <2>2 DEF SlotsMatchTasks
  <2>6. \A q \in Procs : Reading(q)' => q # p /\ Reading(q) /\ call'[q] = call[q]
    BY <1>4, InUserIs, Zenon DEF Reading
  <2>7. \A q \in Procs \ {p} : Reading(q) => used'[call[q].page] = used[call[q].page]
    <3>1. call[p].at = "read" => Reading(p)
      BY <1>1, <2>0, Zenon DEF Reading, IdleOrAsks
    <3>2. ASSUME NEW q \in Procs \ {p}, Reading(q), call[p].at = "read"
          PROVE  call[q].page # call[p].page
      BY <3>1, <3>2, <2>0, Zenon DEF ReadsKeepPages
    <3>3. \A q \in Procs : call[q].page \in Pages
      BY <1>0 DEF TypeOK
    <3> QED BY <1>2, <1>3, <3>2, <3>3, Zenon
  <2>8. ReadsKeepPages'
    BY <1>1, <2>0, <2>6, <2>7 DEF ReadsKeepPages
  <2>9. \A q \in Procs : Writing(q)' => q # p /\ Writing(q) /\ call'[q] = call[q]
    BY <1>4, InUserIs, Zenon DEF Writing
  <2>10. WritesKeepData'
    BY <1>1, <2>0, <2>6, <2>9 DEF WritesKeepData
  <2>11. AwakeIsServed'
    BY <1>1, <1>4, <2>0, InUserIs, Zenon DEF AwakeIsServed
  <2> QED BY <2>3, <2>4, <2>5, <2>8, <2>10, <2>11, Zenon DEF Quiet
<1> QED BY <1>1, <1>6, <1>7, <1>8, <1>9, Zenon DEF DiskInv

LEMMA SignalKeeps ==
  ASSUME DiskInv, NEW p \in Procs, Signal(p)
  PROVE  DiskInv'
<1>0. TypeOK /\ SlotsHoldCommands /\ SleeperHasTask
  BY Zenon DEF DiskInv
<1>1. /\ on_hold' = [on_hold EXCEPT ![p] = FALSE] /\ early' = TRUE
      /\ tasks' = tasks /\ cursor' = cursor /\ ci' = ci /\ cmd' = cmd /\ tfes' = tfes
      /\ dead' = dead /\ disk' = disk /\ page' = page /\ used' = used /\ call' = call
      /\ faults < MaxFaults /\ faults' = faults + 1
  BY Zenon DEF Signal, port, memory
<1>2. faults' \in 0 .. MaxFaults
  BY <1>0, <1>1, DiskAssumption DEF TypeOK
<1>3. /\ on_hold' \in [Procs -> BOOLEAN] /\ ~ on_hold'[p]
      /\ \A q \in Procs \ {p} : on_hold'[q] = on_hold[q]
  BY <1>0, <1>1, Zenon DEF TypeOK
<1>4. TypeOK'
  BY <1>0, <1>1, <1>2, <1>3, Zenon DEF TypeOK
<1>5. SleeperHasTask'
  BY <1>0, <1>1, <1>3, Zenon DEF SleeperHasTask
<1>6. SlotsHoldCommands'
  BY <1>0, <1>1, Zenon DEF SlotsHoldCommands
<1> QED BY <1>1, <1>4, <1>5, <1>6, Zenon DEF DiskInv

\* The entries that are left, each once.
LEMMA RemovedEntries ==
  ASSUME NEW T, NEW l \in Seq(T), NEW k \in DOMAIN l, NEW m, m = Removed(l, k)
  PROVE  /\ m \in Seq(T) /\ Len(m) = Len(l) - 1
         /\ \A j \in DOMAIN m : \E i \in DOMAIN l \ {k} : m[j] = l[i]
         /\ \A i \in DOMAIN l \ {k} : \E j \in DOMAIN m : m[j] = l[i]
         /\ \A j1, j2 \in DOMAIN m : j1 # j2 =>
              \E i1, i2 \in DOMAIN l : i1 # i2 /\ m[j1] = l[i1] /\ m[j2] = l[i2]
<1> DEFINE n == Len(l)
<1>1. k \in 1 .. n /\ n \in Nat /\ DOMAIN l = 1 .. n
  OBVIOUS
<1>2. /\ m \in Seq(T) /\ Len(m) = n - 1 /\ DOMAIN m = 1 .. n - 1
      /\ \A i \in 1 .. n - 1 : m[i] = IF i < k THEN l[i] ELSE l[i + 1]
  BY <1>1, RemovedIs, Zenon
<1> HIDE DEF n
<1> DEFINE src(j) == IF j < k THEN j ELSE j + 1
<1>3. \A j \in 1 .. n - 1 : src(j) \in 1 .. n /\ src(j) # k /\ m[j] = l[src(j)]
  BY <1>1, <1>2
<1>4. \A i, j \in 1 .. n - 1 : i # j => src(i) # src(j)
  BY <1>1
<1>5. ASSUME NEW i \in DOMAIN l \ {k} PROVE \E j \in DOMAIN m : m[j] = l[i]
  <2>1. CASE i < k
    <3>1. i \in 1 .. n - 1 /\ m[i] = l[i]
      BY <2>1, <1>1, <1>2
    <3> QED BY <3>1, <1>2, Zenon
  <2>2. CASE ~ (i < k)
    <3>1. i - 1 \in 1 .. n - 1 /\ ~ (i - 1 < k) /\ (i - 1) + 1 = i
      BY <2>2, <1>1
    <3>2. m[i - 1] = l[i]
      BY <3>1, <1>2
    <3> QED BY <3>1, <3>2, <1>2, Zenon
  <2> QED BY <2>1, <2>2
<1> HIDE DEF src
<1>6. \A j \in DOMAIN m : \E i \in DOMAIN l \ {k} : m[j] = l[i]
  BY <1>1, <1>2, <1>3, Zenon
<1>7. \A j1, j2 \in DOMAIN m : j1 # j2 =>
        \E i1, i2 \in DOMAIN l : i1 # i2 /\ m[j1] = l[i1] /\ m[j2] = l[i2]
  BY <1>1, <1>2, <1>3, <1>4
<1>8. m \in Seq(T) /\ Len(m) = Len(l) - 1
  BY <1>2, Zenon DEF n
<1> QED BY <1>5, <1>6, <1>7, <1>8, Zenon

LEMMA PositionIs ==
  ASSUME TypeOK, tasks # <<>>
  PROVE  Position \in DOMAIN tasks
BY DEF TypeOK, Position

\* A finished task leaves the list and its process wakes: its data has moved.
LEMMA DoneKeeps ==
  ASSUME DiskInv, TaskDone
  PROVE  DiskInv'
<1> DEFINE k == Position
           t == tasks[k]
<1>0. TypeOK /\ SlotsHoldCommands /\ SleeperHasTask /\ (~ early => Quiet)
  BY Zenon DEF DiskInv
<1>1. /\ tasks # <<>> /\ t.issued /\ t.slot \notin ci
      /\ tasks' = Removed(tasks, k)
      /\ cursor' = IF k <= Len(tasks') THEN k ELSE 0
      /\ on_hold' = [on_hold EXCEPT ![t.proc] = FALSE]
      /\ ci' = ci /\ cmd' = cmd /\ tfes' = tfes /\ dead' = dead /\ disk' = disk
      /\ page' = page /\ used' = used /\ call' = call /\ early' = early /\ faults' = faults
  BY DEF TaskDone, Done, Port, MovesTo, Woken, port, memory
<1>2. k \in DOMAIN tasks /\ tasks \in Seq(Tasks)
  BY <1>0, <1>1, PositionIs, Zenon DEF TypeOK
<1>3. t.proc \in Procs
  BY <1>0, <1>2, TaskTypes, Zenon
<1>4. /\ tasks' \in Seq(Tasks)
      /\ \A j \in DOMAIN tasks' : \E i \in DOMAIN tasks \ {k} : tasks'[j] = tasks[i]
      /\ \A i \in DOMAIN tasks \ {k} : \E j \in DOMAIN tasks' : tasks'[j] = tasks[i]
      /\ \A j1, j2 \in DOMAIN tasks' : j1 # j2 =>
           \E i1, i2 \in DOMAIN tasks :
             i1 # i2 /\ tasks'[j1] = tasks[i1] /\ tasks'[j2] = tasks[i2]
  <2>1. tasks' = Removed(tasks, k)
    BY <1>1, Zenon
  <2> HIDE DEF k
  <2> QED BY ONLY <1>2, <2>1, RemovedEntries
<1>5. cursor' \in 0 .. Len(tasks')
  <2>1. k \in Nat /\ Len(tasks') \in Nat
    BY <1>2, <1>4
  <2> QED BY <1>1, <2>1
<1> HIDE DEF k
<1>6. /\ on_hold' \in [Procs -> BOOLEAN] /\ ~ on_hold'[t.proc]
      /\ \A q \in Procs \ {t.proc} : on_hold'[q] = on_hold[q]
  BY <1>0, <1>1, <1>3, Zenon DEF TypeOK
<1>7. TypeOK'
  BY <1>0, <1>1, <1>4, <1>5, <1>6, Zenon DEF TypeOK
<1>8. SleeperHasTask'
  <2> SUFFICES ASSUME NEW q \in Procs, on_hold'[q], ~ call'[q].lost
               PROVE  \E j \in DOMAIN tasks' : tasks'[j].proc = q
    BY Zenon DEF SleeperHasTask
  <2>1. q # t.proc /\ on_hold[q] /\ ~ call[q].lost
    BY <1>1, <1>6, Zenon
  <2>2. PICK i \in DOMAIN tasks : tasks[i].proc = q
    BY <1>0, <2>1, Zenon DEF SleeperHasTask
  <2>3. i # k
    BY <2>1, <2>2, Zenon
  <2> QED BY <1>4, <2>2, <2>3, Zenon
<1>9. SlotsHoldCommands'
  BY <1>0, <1>1, Zenon DEF SlotsHoldCommands
<1>10. ASSUME ~ early PROVE Quiet'
  <2>0. /\ IdleOrAsks /\ TaskIsRequest /\ SlotsMatchTasks
        /\ ReadsKeepPages /\ WritesKeepData /\ AwakeIsServed
    BY <1>0, <1>10, Zenon DEF Quiet
  <2>1. /\ call[t.proc].xfer # Nothing /\ ~ call[t.proc].lost
        /\ call[t.proc].at # "user"
    <3>1. call[t.proc].xfer # Nothing
      BY <1>1, <1>2, <2>0, Zenon DEF SlotsMatchTasks
    <3>2. ~ call[t.proc].lost /\ call[t.proc].at = (IF t.cmd.write THEN "write" ELSE "read")
      BY <1>2, <2>0, Zenon DEF TaskIsRequest
    <3> QED BY <3>1, <3>2
  <2>2. \A j \in DOMAIN tasks' :
          \E i \in DOMAIN tasks : i # k /\ tasks'[j] = tasks[i] /\ tasks[i].proc # t.proc
                                 /\ tasks[i].proc \in Procs
    BY <1>0, <1>2, <1>4, <2>0, TaskTypes, Zenon DEF TaskIsRequest
  <2>3. IdleOrAsks'
    BY <1>1, <1>3, <1>6, <2>0, <2>1, Zenon DEF IdleOrAsks
  <2>4. TaskIsRequest'
    <3>1. ASSUME NEW j \in DOMAIN tasks'
          PROVE  LET u == tasks'[j]
                     r == call'[u.proc]
                 IN  /\ on_hold'[u.proc] /\ ~ r.lost /\ u.cmd.proc = u.proc
                     /\ r.at = (IF u.cmd.write THEN "write" ELSE "read")
                     /\ r.page = u.cmd.page
                     /\ u.issued <=> u.slot # NoSlot
                     /\ ~ u.issued => r.xfer = Nothing
      <4>1. PICK i \in DOMAIN tasks :
              tasks'[j] = tasks[i] /\ tasks[i].proc # t.proc /\ tasks[i].proc \in Procs
        BY <2>2, Zenon
      <4>2. on_hold'[tasks[i].proc] = on_hold[tasks[i].proc]
        BY <4>1, <1>6, Zenon
      <4> QED BY <4>1, <4>2, <1>1, <2>0 DEF TaskIsRequest
    <3>2. ASSUME NEW i \in DOMAIN tasks', NEW j \in DOMAIN tasks',
                 tasks'[i].proc = tasks'[j].proc
          PROVE  i = j
      BY <3>2, <1>4, <2>0 DEF TaskIsRequest
    <3> QED BY <3>1, <3>2, Zenon DEF TaskIsRequest
  <2>5. SlotsMatchTasks'
    <3>1. ASSUME NEW j \in DOMAIN tasks', tasks'[j].issued,
                 call'[tasks'[j].proc].xfer = Nothing
          PROVE  tasks'[j].slot \in ci' /\ cmd'[tasks'[j].slot] = tasks'[j].cmd
      BY <3>1, <1>1, <2>0, <2>2 DEF SlotsMatchTasks
    <3>2. ASSUME NEW r \in ci'
          PROVE  \E j \in DOMAIN tasks' :
                   /\ tasks'[j].issued /\ tasks'[j].slot = r /\ tasks'[j].cmd = cmd'[r]
                   /\ call'[tasks'[j].proc].xfer = Nothing
      <4>1. PICK i \in DOMAIN tasks :
              /\ tasks[i].issued /\ tasks[i].slot = r /\ tasks[i].cmd = cmd[r]
              /\ call[tasks[i].proc].xfer = Nothing
        BY <1>1, <2>0, Zenon DEF SlotsMatchTasks
      <4>2. i # k
        BY <4>1, <1>1, Zenon
      <4> QED BY <4>1, <4>2, <1>1, <1>4
    <3> QED BY <3>1, <3>2, Zenon DEF SlotsMatchTasks
  <2>6. ReadsKeepPages' /\ WritesKeepData'
    BY <1>1, <2>0, Zenon DEF ReadsKeepPages, WritesKeepData, Reading, Writing
  <2>7. AwakeIsServed'
    BY <1>1, <1>6, <2>0, <2>1, Zenon DEF AwakeIsServed
  <2> QED BY <2>3, <2>4, <2>5, <2>6, <2>7, Zenon DEF Quiet
<1> QED BY <1>1, <1>7, <1>8, <1>9, <1>10, Zenon DEF DiskInv

\* Steps that leave everything but the cursor, the error bit and the failed
\* slots alone.
LEMMA RestKeeps ==
  ASSUME DiskInv, TypeOK',
         UNCHANGED <<tasks, ci, cmd, disk, memory, on_hold, call, early>>
  PROVE  DiskInv'
<1>1. /\ tasks' = tasks /\ ci' = ci /\ cmd' = cmd /\ page' = page /\ used' = used
      /\ on_hold' = on_hold /\ call' = call /\ early' = early
  BY Zenon DEF memory
<1>2. SleeperHasTask' /\ SlotsHoldCommands'
  BY <1>1, Zenon DEF DiskInv, SleeperHasTask, SlotsHoldCommands
<1>3. ASSUME Quiet PROVE Quiet'
  <2>0. /\ IdleOrAsks /\ TaskIsRequest /\ SlotsMatchTasks /\ ReadsKeepPages
        /\ WritesKeepData /\ AwakeIsServed
    BY <1>3, Zenon DEF Quiet
  <2>1. IdleOrAsks' /\ AwakeIsServed'
    <3> SUFFICES ASSUME NEW q \in Procs
                 PROVE  /\ call[q].at = "user" => call[q] = InUser /\ ~ on_hold[q]
                        /\ call[q].lost => on_hold[q]
                        /\ call[q].at # "user" /\ ~ on_hold[q] => call[q].xfer # Nothing
      BY <1>1, Zenon DEF IdleOrAsks, AwakeIsServed
    <3> QED BY <2>0, Zenon DEF IdleOrAsks, AwakeIsServed
  <2>2. TaskIsRequest'
    BY <1>1, <2>0, TasksStay, Zenon
  <2>3. SlotsMatchTasks'
    BY <1>1, <2>0 DEF SlotsMatchTasks
  <2>4. \A q \in Procs : (Reading(q)' <=> Reading(q)) /\ (Writing(q)' <=> Writing(q))
    BY <1>1, Zenon DEF Reading, Writing
  <2>5. ReadsKeepPages'
    BY <1>1, <2>0, <2>4, Zenon DEF ReadsKeepPages
  <2>6. WritesKeepData'
    <3> SUFFICES ASSUME NEW q \in Procs, Writing(q)
                 PROVE  /\ call[q].xfer \in {Nothing, call[q].data} /\ call[q].data # Nothing
                        /\ call[q].xfer = Nothing =>
                             /\ page[call[q].page] = call[q].data
                             /\ \A r \in Procs : Reading(r) => call[r].page # call[q].page
      BY <1>1, <2>4, Zenon DEF WritesKeepData
    <3> QED BY <2>0, Zenon DEF WritesKeepData
  <2> QED BY <2>1, <2>2, <2>3, <2>5, <2>6, Zenon DEF Quiet
<1> QED BY <1>1, <1>2, <1>3 DEF DiskInv

LEMMA WaitsKeeps ==
  ASSUME DiskInv, TaskWaits
  PROVE  DiskInv'
<1>1. /\ tasks' = tasks /\ cursor' = (IF Position + 1 <= Len(tasks) THEN Position + 1 ELSE 0)
      /\ UNCHANGED <<port, disk, memory, on_hold, call, early, faults>>
  BY Zenon DEF TaskWaits, MovesTo
<1>2. TypeOK /\ tasks # <<>>
  BY Zenon DEF DiskInv, TaskWaits
<1>3. cursor' \in 0 .. Len(tasks)
  BY <1>1, <1>2 DEF TypeOK, Position
<1>4. TypeOK'
  BY <1>1, <1>2, <1>3, Zenon DEF TypeOK, port, memory
<1> QED BY <1>1, <1>4, RestKeeps, Zenon DEF port

LEMMA FailKeeps ==
  ASSUME DiskInv, NEW s \in Slots, Fail(s)
  PROVE  DiskInv'
<1>1. /\ faults < MaxFaults /\ faults' = faults + 1 /\ tfes' = TRUE /\ dead' = dead \cup {s}
      /\ UNCHANGED <<tasks, cursor, ci, cmd, disk, memory, on_hold, call, early>>
  BY Zenon DEF Fail
<1>2. TypeOK
  BY Zenon DEF DiskInv
<1>3. faults' \in 0 .. MaxFaults
  BY <1>1, <1>2, DiskAssumption DEF TypeOK
<1>4. TypeOK'
  BY <1>1, <1>2, <1>3, Zenon DEF TypeOK, memory
<1> QED BY <1>1, <1>4, RestKeeps, Zenon

\* A task that waited for a slot gets one, or goes on waiting.
LEMMA IssuesKeeps ==
  ASSUME DiskInv, TaskIssues
  PROVE  DiskInv'
<1> DEFINE k == Position
           t == tasks[k]
           c == t.cmd
           i == Issued(Port, c)
           s == i.slot
           u == NewTask(t.proc, c, s)
<1>0. TypeOK /\ SlotsHoldCommands /\ SleeperHasTask /\ (~ early => Quiet)
  BY Zenon DEF DiskInv
<1>1. /\ tasks # <<>> /\ ~ t.issued /\ tasks' = [tasks EXCEPT ![k] = u]
      /\ cursor' = (IF k + 1 <= Len(tasks') THEN k + 1 ELSE 0)
      /\ SetPort(i.port) /\ dead' = dead \ {s}
      /\ disk' = disk /\ page' = page /\ used' = used /\ on_hold' = on_hold
      /\ call' = call /\ early' = early /\ faults' = faults
  BY DEF TaskIssues, MovesTo, memory
<1>2. k \in DOMAIN tasks /\ tasks \in Seq(Tasks)
  BY <1>0, <1>1, PositionIs, Zenon DEF TypeOK
<1>3. t.proc \in Procs /\ c \in Commands
  BY <1>0, <1>2, TaskTypes, Zenon
<1> HIDE DEF i
<1>4. Issue(c, s)
  BY <1>0, <1>1, <1>3, IssueIs, Zenon DEF i
<1> HIDE DEF s
<1>5. /\ ci' \subseteq Slots /\ tfes' \in BOOLEAN /\ dead' \subseteq Slots
      /\ cmd' \in [Slots -> Commands \cup {Nothing}]
      /\ s \in Slots \cup {NoSlot} /\ SlotsHoldCommands'
  BY <1>0, <1>3, <1>4, IssueType, Zenon
<1>6. u \in Tasks /\ u.proc = t.proc /\ u.cmd = c /\ u.slot = s /\ (u.issued <=> s # NoSlot)
  BY <1>3, <1>5, NewTaskIs
<1> HIDE DEF u
<1>7. /\ tasks' \in Seq(Tasks) /\ Len(tasks') = Len(tasks) /\ DOMAIN tasks' = DOMAIN tasks
      /\ tasks'[k] = u /\ \A j \in DOMAIN tasks \ {k} : tasks'[j] = tasks[j]
  BY <1>1, <1>2, <1>6
<1>8. cursor' \in 0 .. Len(tasks')
  BY <1>1, <1>2, <1>7
<1> HIDE DEF k, c
<1>9. TypeOK'
  BY <1>0, <1>1, <1>5, <1>7, <1>8, Zenon DEF TypeOK
<1>10. \A j \in DOMAIN tasks : tasks'[j].proc = tasks[j].proc /\ tasks'[j].cmd = tasks[j].cmd
  BY <1>6, <1>7, Zenon DEF c
<1>11. SleeperHasTask'
  BY <1>0, <1>1, <1>7, <1>10 DEF SleeperHasTask
<1>12. ASSUME ~ early PROVE Quiet'
  <2>0. /\ IdleOrAsks /\ TaskIsRequest /\ SlotsMatchTasks
        /\ ReadsKeepPages /\ WritesKeepData /\ AwakeIsServed
    BY <1>0, <1>12, Zenon DEF Quiet
  <2>1. call[t.proc].xfer = Nothing
    BY <1>1, <1>2, <2>0, Zenon DEF TaskIsRequest
  <2>2. TaskIsRequest'
    <3>1. ASSUME NEW j \in DOMAIN tasks'
          PROVE  LET v == tasks'[j]
                     r == call'[v.proc]
                 IN  /\ on_hold'[v.proc] /\ ~ r.lost /\ v.cmd.proc = v.proc
                     /\ r.at = (IF v.cmd.write THEN "write" ELSE "read")
                     /\ r.page = v.cmd.page
                     /\ v.issued <=> v.slot # NoSlot
                     /\ ~ v.issued => r.xfer = Nothing
      <4>1. CASE j = k
        <5>1. /\ on_hold[t.proc] /\ ~ call[t.proc].lost /\ t.cmd.proc = t.proc
              /\ call[t.proc].at = (IF t.cmd.write THEN "write" ELSE "read")
              /\ call[t.proc].page = t.cmd.page
          BY <1>2, <2>0, Zenon DEF TaskIsRequest
        <5> QED BY <4>1, <5>1, <1>1, <1>6, <1>7, <2>1 DEF c
      <4>2. CASE j # k
        BY <4>2, <1>1, <1>7, <2>0, Zenon DEF TaskIsRequest
      <4> QED BY <4>1, <4>2
    <3>2. ASSUME NEW h \in DOMAIN tasks', NEW j \in DOMAIN tasks',
                 tasks'[h].proc = tasks'[j].proc
          PROVE  h = j
      BY <3>2, <1>7, <1>10, <2>0, Zenon DEF TaskIsRequest
    <3> QED BY <3>1, <3>2, Zenon DEF TaskIsRequest
  <2>3. \/ s = NoSlot /\ ci' = ci /\ cmd' = cmd
        \/ /\ s \in Slots \ ci /\ ci' = ci \cup {s} /\ cmd'[s] = c
           /\ \A r \in Slots \ {s} : cmd'[r] = cmd[r]
    BY <1>0, <1>4, Zenon DEF Issue, TypeOK
  <2>4. ci \subseteq Slots /\ NoSlot \notin Slots
    BY <1>0, NoSlotIs, Zenon DEF TypeOK
  <2>5. \A r \in ci : r \in ci' /\ cmd'[r] = cmd[r]
    BY <2>3, <2>4, Zenon
  <2>6. SlotsMatchTasks'
    <3>1. ASSUME NEW j \in DOMAIN tasks', tasks'[j].issued,
                 call'[tasks'[j].proc].xfer = Nothing
          PROVE  tasks'[j].slot \in ci' /\ cmd'[tasks'[j].slot] = tasks'[j].cmd
      <4>1. CASE j = k
        BY <4>1, <3>1, <1>6, <1>7, <2>3, Zenon
      <4>2. CASE j # k
        <5>1. tasks'[j] = tasks[j] /\ j \in DOMAIN tasks
          BY <4>2, <1>7, Zenon
        <5> QED BY <5>1, <3>1, <1>1, <2>0, <2>5, Zenon DEF SlotsMatchTasks
      <4> QED BY <4>1, <4>2
    <3>2. ASSUME NEW r \in ci'
          PROVE  \E j \in DOMAIN tasks' :
                   /\ tasks'[j].issued /\ tasks'[j].slot = r /\ tasks'[j].cmd = cmd'[r]
                   /\ call'[tasks'[j].proc].xfer = Nothing
      <4>1. CASE r \in ci
        <5>1. PICK j \in DOMAIN tasks :
                /\ tasks[j].issued /\ tasks[j].slot = r /\ tasks[j].cmd = cmd[r]
                /\ call[tasks[j].proc].xfer = Nothing
          BY <4>1, <2>0, Zenon DEF SlotsMatchTasks
        <5>2. j # k
          BY <5>1, <1>1, Zenon
        <5>3. j \in DOMAIN tasks' /\ tasks'[j] = tasks[j]
          BY <5>2, <1>7, Zenon
        <5> QED BY <4>1, <5>1, <5>3, <1>1, <2>5, Zenon
      <4>2. CASE r \notin ci
        <5>1. r = s /\ s # NoSlot /\ cmd'[s] = c
          BY <4>2, <2>3, <2>4, Zenon
        <5>2. k \in DOMAIN tasks' /\ tasks'[k] = u /\ u.issued /\ u.slot = r
              /\ u.cmd = cmd'[r] /\ call'[u.proc].xfer = Nothing
          BY <5>1, <1>1, <1>2, <1>6, <1>7, <2>1
        <5> QED BY <5>2, Zenon
      <4> QED BY <4>1, <4>2
    <3> QED BY <3>1, <3>2, Zenon DEF SlotsMatchTasks
  <2>7. IdleOrAsks' /\ AwakeIsServed'
    BY <1>1, <2>0, Zenon DEF IdleOrAsks, AwakeIsServed
  <2>8. ReadsKeepPages' /\ WritesKeepData'
    BY <1>1, <2>0 DEF ReadsKeepPages, WritesKeepData, Reading, Writing
  <2> QED BY <2>2, <2>6, <2>7, <2>8, Zenon DEF Quiet
<1> QED BY <1>1, <1>5, <1>9, <1>11, <1>12, Zenon DEF DiskInv

\* The controller moves the data of the command in slot s.
LEMMA CompleteKeeps ==
  ASSUME DiskInv, NEW s \in Slots, Complete(s)
  PROVE  DiskInv'
<1> DEFINE c == cmd[s]
           d == IF c.write THEN page[c.page] ELSE disk[c.blk]
           Of(q) == IF q = c.proc /\ call[q].at # "user"
                    THEN [call[q] EXCEPT !.xfer = d] ELSE call[q]
<1>0. TypeOK /\ SlotsHoldCommands /\ SleeperHasTask /\ (~ early => Quiet)
  BY Zenon DEF DiskInv
<1>1. /\ s \in ci /\ ci' = ci \ {s}
      /\ disk' = IF c.write THEN [disk EXCEPT ![c.blk] = d] ELSE disk
      /\ page' = IF c.write THEN page ELSE [page EXCEPT ![c.page] = d]
      /\ call' = [q \in Procs |-> Of(q)]
      /\ cmd' = [cmd EXCEPT ![s] = Nothing]
      /\ tasks' = tasks /\ cursor' = cursor /\ tfes' = tfes /\ dead' = dead
      /\ used' = used /\ on_hold' = on_hold /\ early' = early /\ faults' = faults
  BY Zenon DEF Complete
<1>2. c \in Commands
  BY <1>0, <1>1, Zenon DEF SlotsHoldCommands
<1>3. c.blk \in Blocks /\ c.write \in BOOLEAN /\ c.page \in Pages /\ c.proc \in Procs
  BY <1>2 DEF Commands
<1> HIDE DEF c
<1>4. /\ disk \in [Blocks -> Data] /\ page \in [Pages -> Data] /\ call \in [Procs -> Requests]
  BY <1>0, Zenon DEF TypeOK, Requests
<1>5. d \in Data /\ d # Nothing
  BY <1>3, <1>4, DiskAssumption
<1>6. c.write => d = page[c.page]
  OBVIOUS
<1> HIDE DEF d
<1>7. ASSUME NEW q \in Procs
      PROVE  /\ Of(q) \in Requests
             /\ Of(q).at = call[q].at /\ Of(q).page = call[q].page /\ Of(q).data = call[q].data
             /\ Of(q).taken = call[q].taken /\ Of(q).lost = call[q].lost
             /\ q = c.proc /\ call[q].at # "user" => Of(q).xfer = d
             /\ q # c.proc \/ call[q].at = "user" => Of(q) = call[q]
  <2>1. call[q] \in Requests
    BY <1>4, Zenon
  <2> QED BY ONLY <2>1, <1>5 DEF Requests
<1>8. call' \in [Procs -> Requests] /\ \A q \in Procs : call'[q] = Of(q)
  BY <1>1, <1>7, Zenon
<1> HIDE DEF Of
<1>9. \A q \in Procs :
        /\ call'[q].at = call[q].at /\ call'[q].page = call[q].page
        /\ call'[q].data = call[q].data
        /\ call'[q].taken = call[q].taken /\ call'[q].lost = call[q].lost
        /\ q = c.proc /\ call[q].at # "user" => call'[q].xfer = d
        /\ q # c.proc \/ call[q].at = "user" => call'[q] = call[q]
  BY <1>7, <1>8, Zenon
<1>10. disk' \in [Blocks -> Data] /\ page' \in [Pages -> Data]
  BY <1>1, <1>3, <1>4, <1>5, Zenon
<1>16. /\ cmd' \in [Slots -> Commands \cup {Nothing}]
       /\ \A r \in ci' : r \in ci /\ cmd'[r] = cmd[r]
  BY <1>0, <1>1, Zenon DEF TypeOK
<1>11. TypeOK'
  BY <1>0, <1>1, <1>8, <1>10, <1>16, Zenon DEF TypeOK, Requests
<1>12. SleeperHasTask'
  BY <1>0, <1>1, <1>9, Zenon DEF SleeperHasTask
<1>13. SlotsHoldCommands'
  BY <1>0, <1>1, <1>16, Zenon DEF SlotsHoldCommands
<1>14. ASSUME ~ early PROVE Quiet'
  <2>0. /\ IdleOrAsks /\ TaskIsRequest /\ SlotsMatchTasks
        /\ ReadsKeepPages /\ WritesKeepData /\ AwakeIsServed
    BY <1>0, <1>14, Zenon DEF Quiet
  <2>1. PICK k \in DOMAIN tasks :
          /\ tasks[k].issued /\ tasks[k].slot = s /\ tasks[k].cmd = c
          /\ call[tasks[k].proc].xfer = Nothing
    BY <1>1, <2>0, Zenon DEF SlotsMatchTasks, c
  <2>2. /\ tasks[k].proc = c.proc /\ ~ call[c.proc].lost
        /\ call[c.proc].at = (IF c.write THEN "write" ELSE "read")
        /\ call[c.proc].page = c.page /\ call[c.proc].xfer = Nothing
    BY <2>0, <2>1, Zenon DEF TaskIsRequest
  <2>3. call'[c.proc].xfer = d /\ call[c.proc].at # "user"
    BY <2>2, <1>3, <1>9
  <2>4. \A j \in DOMAIN tasks : tasks[j].proc \in Procs /\ (tasks[j].proc = c.proc => j = k)
    BY <1>0, <2>0, <2>2, TaskTypes, Zenon DEF TaskIsRequest
  <2>5. IdleOrAsks'
    BY <1>1, <1>9, <2>0, Zenon DEF IdleOrAsks
  <2>6. TaskIsRequest'
    <3>1. ASSUME NEW j \in DOMAIN tasks'
          PROVE  LET v == tasks'[j]
                     r == call'[v.proc]
                 IN  /\ on_hold'[v.proc] /\ ~ r.lost /\ v.cmd.proc = v.proc
                     /\ r.at = (IF v.cmd.write THEN "write" ELSE "read")
                     /\ r.page = v.cmd.page
                     /\ v.issued <=> v.slot # NoSlot
                     /\ ~ v.issued => r.xfer = Nothing
      <4>1. j \in DOMAIN tasks /\ tasks'[j] = tasks[j] /\ tasks[j].proc \in Procs
        BY <1>1, <2>4, Zenon
      <4>2. ~ tasks[j].issued => call'[tasks[j].proc] = call[tasks[j].proc]
        BY <4>1, <1>9, <2>1, <2>4, Zenon
      <4>3. LET v == tasks[j]
                r == call[v.proc]
            IN  /\ on_hold[v.proc] /\ ~ r.lost /\ v.cmd.proc = v.proc
                /\ r.at = (IF v.cmd.write THEN "write" ELSE "read")
                /\ r.page = v.cmd.page
                /\ v.issued <=> v.slot # NoSlot
                /\ ~ v.issued => r.xfer = Nothing
        BY <4>1, <2>0, Zenon DEF TaskIsRequest
      <4>4. LET v == tasks[j]
            IN  /\ call'[v.proc].lost = call[v.proc].lost
                /\ call'[v.proc].at = call[v.proc].at
                /\ call'[v.proc].page = call[v.proc].page /\ on_hold'[v.proc] = on_hold[v.proc]
        BY <4>1, <1>1, <1>9, Zenon
      <4> QED BY <4>1, <4>2, <4>3, <4>4, Zenon
    <3>2. \A i, j \in DOMAIN tasks' : tasks'[i].proc = tasks'[j].proc => i = j
      BY <1>1, <2>0, Zenon DEF TaskIsRequest
    <3> QED BY <3>1, <3>2, Zenon DEF TaskIsRequest
  <2>7. SlotsMatchTasks'
    <3>1. ASSUME NEW j \in DOMAIN tasks', tasks'[j].issued,
                 call'[tasks'[j].proc].xfer = Nothing
          PROVE  tasks'[j].slot \in ci' /\ cmd'[tasks'[j].slot] = tasks'[j].cmd
      <4>1. j \in DOMAIN tasks /\ tasks[j].proc \in Procs /\ tasks[j].issued
            /\ call'[tasks[j].proc].xfer = Nothing
        BY <3>1, <1>1, <2>4, Zenon
      <4>2. tasks[j].proc # c.proc
        BY <4>1, <1>5, <2>3, Zenon
      <4>3. tasks[j].slot \in ci /\ cmd[tasks[j].slot] = tasks[j].cmd
        BY <4>1, <4>2, <1>9, <2>0, Zenon DEF SlotsMatchTasks
      <4>4. tasks[j].slot # s
        <5>1. tasks[j].cmd.proc = tasks[j].proc
          BY <4>1, <2>0, Zenon DEF TaskIsRequest
        <5> QED BY <4>2, <4>3, <5>1, Zenon DEF c
      <4> QED BY <4>3, <4>4, <1>1, <1>16, Zenon
    <3>2. ASSUME NEW r \in ci'
          PROVE  \E j \in DOMAIN tasks' :
                   /\ tasks'[j].issued /\ tasks'[j].slot = r /\ tasks'[j].cmd = cmd'[r]
                   /\ call'[tasks'[j].proc].xfer = Nothing
      <4>1. PICK j \in DOMAIN tasks :
              /\ tasks[j].issued /\ tasks[j].slot = r /\ tasks[j].cmd = cmd[r]
              /\ call[tasks[j].proc].xfer = Nothing
        BY <1>1, <2>0, Zenon DEF SlotsMatchTasks
      <4>2. j # k
        BY <4>1, <1>1, <2>1, Zenon
      <4>3. call'[tasks[j].proc] = call[tasks[j].proc]
        BY <4>2, <1>9, <2>4, Zenon
      <4> QED BY <4>1, <4>3, <1>1, <1>16, Zenon
    <3> QED BY <3>1, <3>2, Zenon DEF SlotsMatchTasks
  <2>8. \A q \in Procs : Reading(q)' <=> Reading(q)
    BY <1>9, Zenon DEF Reading
  <2>9. \A q \in Procs : call[q].page \in Pages
    BY <1>0 DEF TypeOK
  <2>10. /\ \A g \in Pages : g # c.page \/ c.write => page'[g] = page[g]
         /\ ~ c.write => page'[c.page] = d
    BY <1>1, <1>3, <1>4, Zenon
  <2>11. ~ c.write => Reading(c.proc)
    BY <2>2, Zenon DEF Reading
  <2>12. ReadsKeepPages'
    <3>1. ASSUME NEW q \in Procs, Reading(q)'
          PROVE  /\ used'[call'[q].page]
                 /\ call'[q].xfer # Nothing => page'[call'[q].page] = call'[q].xfer
      <4>0. Reading(q) /\ call'[q].page = call[q].page /\ call[q].page \in Pages
        BY <3>1, <1>9, <2>8, <2>9, Zenon
      <4>1. CASE q = c.proc
        <5>1. ~ c.write
          BY <4>0, <4>1, <2>2 DEF Reading
        <5> QED BY <4>0, <4>1, <5>1, <1>1, <2>0, <2>2, <2>3, <2>10, Zenon DEF ReadsKeepPages
      <4>2. CASE q # c.proc
        <5>1. ~ c.write => call[q].page # c.page
          BY <4>0, <4>2, <1>3, <2>0, <2>2, <2>11, Zenon DEF ReadsKeepPages
        <5>2. call'[q] = call[q] /\ page'[call[q].page] = page[call[q].page]
          BY <4>0, <4>2, <5>1, <1>9, <2>10, Zenon
        <5> QED BY <4>0, <5>2, <1>1, <2>0, Zenon DEF ReadsKeepPages
      <4> QED BY <4>1, <4>2
    <3>2. \A q, r \in Procs : Reading(q)' /\ Reading(r)' /\ call'[q].page = call'[r].page
            => q = r
      <4> SUFFICES ASSUME NEW q \in Procs, NEW r \in Procs, Reading(q)', Reading(r)',
                          call'[q].page = call'[r].page
                   PROVE  q = r
        BY Zenon
      <4>1. Reading(q) /\ Reading(r) /\ call[q].page = call[r].page
        BY <1>9, <2>8, Zenon
      <4> QED BY <4>1, <2>0, Zenon DEF ReadsKeepPages
    <3> QED BY <3>1, <3>2, Zenon DEF ReadsKeepPages
  <2>13. WritesKeepData'
    <3> SUFFICES ASSUME NEW q \in Procs, Writing(q)'
                 PROVE  /\ call'[q].xfer \in {Nothing, call'[q].data} /\ call'[q].data # Nothing
                        /\ call'[q].xfer = Nothing =>
                             /\ page'[call'[q].page] = call'[q].data
                             /\ \A r \in Procs : Reading(r)' => call'[r].page # call'[q].page
      BY Zenon DEF WritesKeepData
    <3>1. Writing(q) /\ call'[q].page = call[q].page /\ call'[q].data = call[q].data
      BY <1>9, Zenon DEF Writing
    <3>2. CASE q = c.proc
      <4>1. c.write /\ call[q].xfer = Nothing /\ call[q].page = c.page
        BY <3>1, <3>2, <2>2 DEF Writing
      <4>2. page[c.page] = call[q].data /\ call[q].data # Nothing
        BY <3>1, <4>1, <2>0, Zenon DEF WritesKeepData
      <4> QED BY <3>1, <3>2, <4>1, <4>2, <1>6, <2>3, Zenon
    <3>3. CASE q # c.proc
      <4>1. call'[q] = call[q]
        BY <3>3, <1>9, Zenon
      <4>2. call[q].xfer = Nothing => page'[call[q].page] = page[call[q].page]
        <5>1. CASE c.write
          BY <5>1, <2>9, <2>10, Zenon
        <5>2. ASSUME ~ c.write, call[q].xfer = Nothing PROVE call[q].page # c.page
          <6>1. Reading(c.proc) /\ call[c.proc].page = c.page
            BY <5>2, <2>2, <2>11, Zenon
          <6>2. \A r \in Procs : Reading(r) => call[r].page # call[q].page
            BY <3>1, <5>2, <2>0, Zenon DEF WritesKeepData
          <6> QED BY <6>1, <6>2, <1>3, Zenon
        <5>3. ASSUME ~ c.write, call[q].xfer = Nothing
              PROVE  page'[call[q].page] = page[call[q].page]
          BY <5>2, <5>3, <2>9, <2>10, Zenon
        <5> QED BY <5>1, <5>3, Zenon
      <4>3. \A r \in Procs : Reading(r)' => Reading(r) /\ call'[r].page = call[r].page
        BY <1>9, <2>8, Zenon
      <4>4. /\ call[q].xfer \in {Nothing, call[q].data} /\ call[q].data # Nothing
            /\ call[q].xfer = Nothing =>
                 /\ page[call[q].page] = call[q].data
                 /\ \A r \in Procs : Reading(r) => call[r].page # call[q].page
        BY <3>1, <2>0, Zenon DEF WritesKeepData
      <4> QED BY ONLY <4>1, <4>2, <4>3, <4>4, Zenon
    <3> QED BY <3>2, <3>3
  <2>14. AwakeIsServed'
    BY <1>1, <1>5, <1>9, <2>0, Zenon DEF AwakeIsServed
  <2> QED BY <2>5, <2>6, <2>7, <2>12, <2>13, <2>14, Zenon DEF Quiet
<1> QED BY <1>1, <1>11, <1>12, <1>13, <1>14, Zenon DEF DiskInv

-----------------------------------------------------------------------------
(***************************************************************************)
(* The invariant and what it implies.                                      *)
(***************************************************************************)
LEMMA DiskStart == Init => DiskInv
<1> SUFFICES ASSUME Init PROVE DiskInv
  BY Zenon
<1>1. /\ tasks = <<>> /\ cursor = 0 /\ ci = {} /\ cmd = [s \in Slots |-> Nothing]
      /\ tfes = FALSE /\ dead = {} /\ used = [g \in Pages |-> FALSE]
      /\ on_hold = [p \in Procs |-> FALSE] /\ call = [p \in Procs |-> InUser]
      /\ early = FALSE /\ faults = 0
  BY Zenon DEF Init
<1>2. PICK d \in Data : disk = [b \in Blocks |-> d] /\ page = [g \in Pages |-> d]
  BY Zenon DEF Init
<1>3. /\ disk \in [Blocks -> Data] /\ page \in [Pages -> Data]
      /\ used \in [Pages -> BOOLEAN] /\ on_hold \in [Procs -> BOOLEAN]
      /\ call \in [Procs -> Requests] /\ cmd \in [Slots -> Commands \cup {Nothing}]
  BY <1>1, <1>2, InUserIs, Zenon
<1>4. tasks \in Seq(Tasks) /\ cursor \in 0 .. Len(tasks) /\ DOMAIN tasks = {}
      /\ faults \in 0 .. MaxFaults
  BY <1>1, DiskAssumption
<1>5. TypeOK
  BY <1>1, <1>3, <1>4, Zenon DEF TypeOK, Requests
<1>6. \A p \in Procs : call[p] = InUser /\ ~ on_hold[p]
  BY <1>1, Zenon
<1>7. SleeperHasTask /\ SlotsHoldCommands
  BY <1>1, <1>6, Zenon DEF SleeperHasTask, SlotsHoldCommands
<1>8. IdleOrAsks /\ AwakeIsServed
  BY <1>6, InUserIs, Zenon DEF IdleOrAsks, AwakeIsServed
<1>9. TaskIsRequest /\ SlotsMatchTasks
  BY <1>1, <1>4, Zenon DEF TaskIsRequest, SlotsMatchTasks
<1>10. \A p \in Procs : ~ Reading(p) /\ ~ Writing(p)
  BY <1>6, InUserIs DEF Reading, Writing
<1>11. ReadsKeepPages /\ WritesKeepData
  BY <1>10, Zenon DEF ReadsKeepPages, WritesKeepData
<1> QED BY <1>5, <1>7, <1>8, <1>9, <1>11, Zenon DEF DiskInv, Quiet

LEMMA DiskStep == DiskInv /\ [Next]_vars => DiskInv'
<1> SUFFICES ASSUME DiskInv, [Next]_vars PROVE DiskInv'
  BY Zenon
<1>0. TypeOK
  BY Zenon DEF DiskInv
<1>1. CASE UNCHANGED vars
  <2>1. UNCHANGED <<tasks, cursor, ci, cmd, tfes, dead, disk, page, used, on_hold, call,
                    early, faults>>
    BY <1>1, Zenon DEF vars, port, memory
  <2>2. TypeOK'
    BY <1>0, <2>1, Zenon DEF TypeOK
  <2> QED BY <2>1, <2>2, RestKeeps, Zenon DEF memory
<1>2. ASSUME NEW p \in Procs, NEW b \in Blocks, ReadRequest(p, b) PROVE DiskInv'
  BY <1>0, <1>2, ReadAsks, AsksKeeps, Zenon
<1>3. ASSUME NEW p \in Procs, NEW b \in Blocks, NEW d \in Data, WriteRequest(p, b, d)
      PROVE  DiskInv'
  BY <1>0, <1>3, WriteAsks, AsksKeeps, Zenon
<1>4. ASSUME NEW p \in Procs,
             Refused(p, "read", Nothing) \/ \E d \in Data : Refused(p, "write", d)
      PROVE  DiskInv'
  BY <1>0, <1>4, RefusedDrops, DropsKeeps, Zenon
<1>5. ASSUME NEW p \in Procs, ReadReturns(p) \/ WriteReturns(p) PROVE DiskInv'
  BY <1>5, ReturnsKeep, Zenon
<1>6. ASSUME NEW p \in Procs, Signal(p) PROVE DiskInv'
  BY <1>6, SignalKeeps, Zenon
<1>7. CASE CheckDiskTask
  BY <1>7, DoneKeeps, WaitsKeeps, IssuesKeeps, Zenon DEF CheckDiskTask
<1>8. ASSUME NEW s \in Slots, Complete(s) \/ Fail(s) PROVE DiskInv'
  BY <1>8, CompleteKeeps, FailKeeps, Zenon
<1> QED BY <1>1, <1>2, <1>3, <1>4, <1>5, <1>6, <1>7, <1>8, Zenon DEF Next

LEMMA DiskInvariance == Spec => []DiskInv
BY DiskStart, DiskStep, PTL DEF Spec

\* The list, the port, the pages and the requests keep their types, whatever
\* the tick, the controller, signals and faults do.
THEOREM DiskTypes == Spec => []TypeOK
<1>1. DiskInv => TypeOK
  BY Zenon DEF DiskInv
<1> QED BY <1>1, DiskInvariance, PTL

\* Nobody sleeps for the disk without a task that will wake it, refused
\* requests apart (read_disk_block, write_disk_block and check_disk_task).
THEOREM SleeperIsListed == Spec => []SleeperHasTask
<1>1. DiskInv => SleeperHasTask
  BY Zenon DEF DiskInv
<1> QED BY <1>1, DiskInvariance, PTL

\* Who is back from read_disk_block's sleep finds its block in its page, and a
\* page that the controller may write to is reserved, until a signal cuts a
\* wait short.
THEOREM ReadsAreServed == Spec => []ReadGetsBlock
<1>1. DiskInv => ReadGetsBlock
  <2> SUFFICES ASSUME TypeOK, Quiet PROVE ReadGetsBlock
    BY Zenon DEF DiskInv, ReadGetsBlock
  <2>0. /\ IdleOrAsks /\ TaskIsRequest /\ SlotsMatchTasks
        /\ ReadsKeepPages /\ WritesKeepData /\ AwakeIsServed
    BY Zenon DEF Quiet
  <2>1. ASSUME NEW p \in Procs, call[p].at = "read", ~ on_hold[p]
        PROVE  call[p].xfer # Nothing /\ page[call[p].page] = call[p].xfer
    <3>1. call[p].xfer # Nothing
      BY <2>0, <2>1 DEF AwakeIsServed
    <3>2. Reading(p)
      BY <2>0, <2>1, Zenon DEF IdleOrAsks, Reading
    <3> QED BY <2>0, <3>1, <3>2, Zenon DEF ReadsKeepPages
  <2>2. ASSUME NEW s \in ci, ~ cmd[s].write PROVE used[cmd[s].page]
    <3>1. PICK k \in DOMAIN tasks : tasks[k].cmd = cmd[s]
      BY <2>0, Zenon DEF SlotsMatchTasks
    <3>2. tasks[k].proc \in Procs
      BY TaskTypes, Zenon
    <3>3. Reading(tasks[k].proc) /\ call[tasks[k].proc].page = cmd[s].page
      BY <2>0, <2>2, <3>1, Zenon DEF TaskIsRequest, Reading
    <3> QED BY <2>0, <3>2, <3>3, Zenon DEF ReadsKeepPages
  <2> QED BY <2>1, <2>2, Zenon DEF ReadGetsBlock
<1> QED BY <1>1, DiskInvariance, PTL

\* Who is back from write_disk_block has its data on the disk, until a signal
\* cuts a wait short, unless a later request got the page first.
THEOREM WritesAreServed == Spec => []WriteReachesDisk
<1>1. DiskInv => WriteReachesDisk
  <2> SUFFICES ASSUME Quiet, NEW p \in Procs, call[p].at = "write", ~ on_hold[p]
               PROVE  call[p].xfer = call[p].data \/ (call[p].taken /\ call[p].xfer # Nothing)
    BY Zenon DEF DiskInv, WriteReachesDisk
  <2>1. call[p].xfer # Nothing
    BY DEF Quiet, AwakeIsServed
  <2>2. ~ call[p].taken => Writing(p)
    BY Zenon DEF Quiet, IdleOrAsks, Writing
  <2> QED BY <2>1, <2>2, Zenon DEF Quiet, WritesKeepData
<1> QED BY <1>1, DiskInvariance, PTL
=============================================================================
