-------------------------- MODULE CowMemoryProofs --------------------------
(***************************************************************************)
(* Proofs about CowMemory, for any number of processes, pages and words.   *)
(***************************************************************************)
EXTENDS CowMemory, TLAPS

\* A page-table entry is absent or a mode and a page.
Entries == [mode : {"ro", "rw"}, page : Pages] \cup {Absent}

\* The kernel slots are no user pages, and the loaded pages are user pages.
LEMMA SlotFacts ==
  /\ Tables \notin VPages /\ Rsp0 \notin VPages /\ Tables # Rsp0
  /\ Tables \in Slots /\ Rsp0 \in Slots /\ VPages \subseteq Slots
  /\ StackTop \in VPages /\ Image \subseteq VPages /\ Stack \subseteq VPages
  /\ 0 \in Procs /\ NoFrame \notin Pages
BY ConstantsAssumption
   DEF Tables, Rsp0, VPages, Slots, Image, Stack, Procs, NoFrame

\* The mode of an entry and the page of an entry say the same about presence.
LEMMA EntryFacts ==
  ASSUME NEW e \in Entries
  PROVE  /\ e.mode = "absent" <=> e = Absent
         /\ e.mode = "absent" <=> e.page = NoFrame
         /\ e.mode # "absent" <=> e.page \in Pages
         /\ e.mode \in {"absent", "ro", "rw"}
         /\ e.mode = "absent" => e.page = NoFrame
BY SlotFacts DEF Entries, Absent

-----------------------------------------------------------------------------
(***************************************************************************)
(* The operators of the allocator.                                         *)
(***************************************************************************)
\* f gives each slot of S a page of its own.
Assigns(f, S) ==
  /\ S \in SUBSET Slots
  /\ f \in [S -> Pages]
  /\ \A s, t \in S : f[s] = f[t] => s = t

\* Allocation marks exactly the pages of f as a program's.
LEMMA TakenFacts ==
  ASSUME NEW S, NEW f, Assigns(f, S), NEW ub \in [Pages -> {0, 3}]
  PROVE  /\ Taken(f, ub) \in [Pages -> {0, 3}]
         /\ \A s \in S : Taken(f, ub)[f[s]] = 3
         /\ \A pg \in Pages : (\A s \in S : f[s] # pg) => Taken(f, ub)[pg] = ub[pg]
BY Zenon DEF Taken, Assigns

\* Allocation leaves each page of f with one record, and the others as they were.
LEMMA RecordedFacts ==
  ASSUME NEW p \in Procs, NEW S, NEW f, Assigns(f, S),
         NEW rec \in [Pages -> SUBSET (Procs \X Slots)]
  PROVE  /\ Recorded(p, f, rec) \in [Pages -> SUBSET (Procs \X Slots)]
         /\ \A s \in S : Recorded(p, f, rec)[f[s]] = {<<p, s>>}
         /\ \A pg \in Pages : (\A s \in S : f[s] # pg) =>
              Recorded(p, f, rec)[pg] = rec[pg]
<1> USE DEF Assigns
<1>1. ASSUME NEW s \in S PROVE {t \in S : f[t] = f[s]} = {s}
  BY Zenon
<1>2. \A s \in S : Recorded(p, f, rec)[f[s]] = {<<p, s>>}
  <2> TAKE s \in S
  <2>1. Recorded(p, f, rec)[f[s]] = {<<p, t>> : t \in {t \in S : f[t] = f[s]}}
    BY Zenon DEF Recorded
  <2> QED BY <2>1, <1>1
<1>3. \A pg \in Pages : (\A s \in S : f[s] # pg) => Recorded(p, f, rec)[pg] = rec[pg]
  BY Zenon DEF Recorded
<1>4. Recorded(p, f, rec) \in [Pages -> SUBSET (Procs \X Slots)]
  BY DEF Recorded
<1> QED BY <1>2, <1>3, <1>4, Zenon

\* Only the pages of f get new contents; user pages among them get x.
LEMMA FilledFacts ==
  ASSUME NEW S, NEW f, Assigns(f, S), NEW x \in Words, NEW con \in [Pages -> Words]
  PROVE  /\ Filled(f, x, con) \in [Pages -> Words]
         /\ \A s \in S \ {Tables, Rsp0} : Filled(f, x, con)[f[s]] = x
         /\ \A pg \in Pages : (\A s \in S : f[s] # pg) =>
              Filled(f, x, con)[pg] = con[pg]
BY ConstantsAssumption, Zenon DEF Filled, Assigns

\* Freeing the m_maps M of p drops their records and no others.
LEMMA DroppedFacts ==
  ASSUME NEW p \in Procs, NEW M \in SUBSET (Slots \X Pages),
         NEW rec \in [Pages -> SUBSET (Procs \X Slots)]
  PROVE  /\ Dropped(p, M, rec) \in [Pages -> SUBSET (Procs \X Slots)]
         /\ \A pg \in Pages, q \in Procs, s \in Slots :
              <<q, s>> \in Dropped(p, M, rec)[pg] <=>
                <<q, s>> \in rec[pg] /\ ~ (q = p /\ <<s, pg>> \in M)
BY Zenon DEF Dropped

-----------------------------------------------------------------------------
(***************************************************************************)
(* What all steps that give process p new m_maps f after freeing the       *)
(* m_maps gone have in common.                                             *)
(***************************************************************************)
Remap(p, gone, S, f) ==
  /\ gone \in SUBSET maps[p]
  /\ Assigns(f, S)
  /\ \A s \in S : Released(p, gone, use_record, used_by)[f[s]] = 0
  /\ use_record' = Recorded(p, f, Dropped(p, gone, use_record))
  /\ used_by' = Taken(f, Released(p, gone, use_record, used_by))
  /\ maps' = [maps EXCEPT ![p] = (@ \ gone) \cup MapsOf(f)]

Remapped(p, gone, S, f) ==
  /\ used_by' \in [Pages -> {0, 3}]
  /\ use_record' \in [Pages -> SUBSET (Procs \X Slots)]
  /\ maps' \in [Procs -> SUBSET (Slots \X Pages)]
  /\ RecordsMatchMaps'
  /\ UsedWhileRecorded'
  /\ \A s \in S : use_record'[f[s]] = {<<p, s>>}
  /\ \A q \in Procs, s \in Slots, pg \in Pages :
       <<s, pg>> \in maps'[q] <=>
         \/ <<s, pg>> \in maps[q] /\ ~ (q = p /\ <<s, pg>> \in gone)
         \/ q = p /\ s \in S /\ f[s] = pg
  /\ \A pg \in Pages : (\A s \in S : f[s] # pg) =>
       use_record'[pg] = Dropped(p, gone, use_record)[pg]

\* Freeing some m_maps of p and adding new ones keeps the records equal to the
\* m_map lists and the page table of the allocator equal to the records.
LEMMA Remapping ==
  ASSUME IInv, NEW p \in Procs, NEW gone, NEW S, NEW f, Remap(p, gone, S, f)
  PROVE  Remapped(p, gone, S, f)
<1> USE DEF Remap
<1> DEFINE rec == Dropped(p, gone, use_record)
           ub  == Released(p, gone, use_record, used_by)
<1>0. /\ use_record \in [Pages -> SUBSET (Procs \X Slots)]
      /\ used_by \in [Pages -> {0, 3}]
      /\ \A pg \in Pages : used_by[pg] = 3 <=> use_record[pg] # {}
  BY Zenon DEF IInv, TypeOK, UsedWhileRecorded
<1>1. gone \in SUBSET (Slots \X Pages)
  BY Zenon DEF IInv, TypeOK
<1>2. /\ rec \in [Pages -> SUBSET (Procs \X Slots)]
      /\ \A pg \in Pages, q \in Procs, s \in Slots :
           <<q, s>> \in rec[pg] <=>
             <<q, s>> \in use_record[pg] /\ ~ (q = p /\ <<s, pg>> \in gone)
  BY ONLY <1>0, <1>1, p \in Procs, DroppedFacts, ZenonT(30)
<1>3. /\ ub \in [Pages -> {0, 3}]
      /\ \A pg \in Pages : ub[pg] = 3 <=> rec[pg] # {}
  <2>1. ASSUME NEW pg \in Pages
        PROVE  /\ rec[pg] \subseteq use_record[pg]
               /\ ub[pg] = IF use_record[pg] # {} /\ rec[pg] = {} THEN 0 ELSE used_by[pg]
    BY Zenon DEF Released, Dropped
  <2>2. ub \in [Pages -> {0, 3}]
    BY <1>0, Zenon DEF Released
  <2> QED BY ONLY <1>0, <2>1, <2>2
<1>4. \A s \in S : rec[f[s]] = {}
  BY <1>3 DEF Assigns
<1> HIDE DEF rec, ub
<1>5. /\ use_record' \in [Pages -> SUBSET (Procs \X Slots)]
      /\ \A s \in S : use_record'[f[s]] = {<<p, s>>}
      /\ \A pg \in Pages : (\A s \in S : f[s] # pg) => use_record'[pg] = rec[pg]
  <2>1. use_record' = Recorded(p, f, rec)
    BY Zenon DEF rec
  <2>2. /\ Recorded(p, f, rec) \in [Pages -> SUBSET (Procs \X Slots)]
        /\ \A s \in S : Recorded(p, f, rec)[f[s]] = {<<p, s>>}
        /\ \A pg \in Pages : (\A s \in S : f[s] # pg) => Recorded(p, f, rec)[pg] = rec[pg]
    BY <1>2, RecordedFacts
  <2> QED BY ONLY <2>1, <2>2, Zenon
<1>6. /\ used_by' \in [Pages -> {0, 3}]
      /\ \A s \in S : used_by'[f[s]] = 3
      /\ \A pg \in Pages : (\A s \in S : f[s] # pg) => used_by'[pg] = ub[pg]
  BY <1>3, TakenFacts DEF ub
<1>7. /\ maps' \in [Procs -> SUBSET (Slots \X Pages)]
      /\ \A q \in Procs, s \in Slots, pg \in Pages :
           <<s, pg>> \in maps'[q] <=>
             \/ <<s, pg>> \in maps[q] /\ ~ (q = p /\ <<s, pg>> \in gone)
             \/ q = p /\ s \in S /\ f[s] = pg
  <2>1. maps'[p] = (maps[p] \ gone) \cup MapsOf(f) /\ \A q \in Procs \ {p} : maps'[q] = maps[q]
    BY Zenon DEF IInv, TypeOK
  <2>2. \A s \in Slots, pg \in Pages : <<s, pg>> \in MapsOf(f) <=> s \in S /\ f[s] = pg
    BY Zenon DEF MapsOf, Assigns
  <2>3. MapsOf(f) \in SUBSET (Slots \X Pages)
    BY DEF MapsOf, Assigns
  <2> QED BY <2>1, <2>2, <2>3 DEF IInv, TypeOK
<1>8. UsedWhileRecorded'
  <2> SUFFICES ASSUME NEW pg \in Pages
               PROVE  used_by'[pg] = 3 <=> use_record'[pg] # {}
    BY Zenon DEF UsedWhileRecorded
  <2>1. CASE \E s \in S : f[s] = pg
    <3> PICK s \in S : f[s] = pg
      BY <2>1, Zenon
    <3>1. use_record'[pg] = {<<p, s>>} /\ used_by'[pg] = 3
      BY <1>5, <1>6, Zenon
    <3> QED BY ONLY <3>1, Zenon
  <2>2. CASE \A s \in S : f[s] # pg
    BY <2>2, <1>3, <1>5, <1>6, Zenon
  <2> QED BY <2>1, <2>2, Zenon
<1>9. RecordsMatchMaps'
  <2> SUFFICES ASSUME NEW pg \in Pages, NEW q \in Procs, NEW s \in Slots
               PROVE  <<q, s>> \in use_record'[pg] <=> <<s, pg>> \in maps'[q]
    BY ZenonT(30) DEF RecordsMatchMaps
  <2>0. <<q, s>> \in use_record[pg] <=> <<s, pg>> \in maps[q]
    BY Zenon DEF IInv, RecordsMatchMaps
  <2>1. CASE \A t \in S : f[t] # pg
    BY <2>0, <2>1, <1>2, <1>5, <1>7
  <2>2. CASE \E t \in S : f[t] = pg
    <3> PICK t \in S : f[t] = pg
      BY <2>2, Zenon
    <3>1. rec[pg] = {} /\ use_record'[pg] = {<<p, t>>}
      BY <1>4, <1>5, Zenon
    <3>2. ~ (<<s, pg>> \in maps[q] /\ ~ (q = p /\ <<s, pg>> \in gone))
      BY <3>1, <2>0, <1>2, Zenon
    <3> QED BY <3>1, <3>2, <1>7 DEF Assigns
  <2> QED BY <2>1, <2>2, Zenon
<1> QED BY <1>5, <1>6, <1>7, <1>8, <1>9, Zenon DEF rec, Remapped

\* The parts of the invariant that speak of the memory only.
MemInv ==
  /\ used_by \in [Pages -> {0, 3}]
  /\ use_record \in [Pages -> SUBSET (Procs \X Slots)]
  /\ content \in [Pages -> Words]
  /\ maps \in [Procs -> SUBSET (Slots \X Pages)]
  /\ pte \in [Procs -> [VPages -> Entries]]
  /\ RecordsMatchMaps
  /\ UsedWhileRecorded
  /\ MapsMatchPageTable
  /\ WritableIsPrivate
  /\ KernelPagesPrivate

\* The invariant is that of the memory together with the types of the rest.
LEMMA IInvParts ==
  IInv <=> /\ MemInv
           /\ status \in [Procs -> Statuses]
           /\ heap_break \in [Procs -> HeapStart .. StackBase]
           /\ rsp_current \in [Procs -> StackBase .. StackTop + 1]
           /\ NothingOutlivesCleanup
BY Zenon DEF IInv, TypeOK, MemInv, Entries

\* add_page_for_process preserves the invariant of the memory when the m_maps
\* freed after it are those of the page it maps.
LEMMA AddPagePreserves ==
  ASSUME IInv, NEW p \in Procs, NEW v \in VPages, NEW x \in Words,
         NEW gone \in SUBSET maps[p],
         \A m \in maps[p] : m \in gone <=> m[1] = v,
         AddPage(p, v, x, gone)
  PROVE  MemInv' /\ \A q \in Procs : q # p => maps'[q] = maps[q]
<1> DEFINE f == FirstFree({v}, used_by)
<1>0. /\ f \in [{v} -> Pages] /\ f[v] \in Pages /\ used_by[f[v]] = 0
      /\ \A s, t \in {v} : f[s] = f[t] => s = t
      /\ use_record' = Recorded(p, f, Dropped(p, gone, use_record))
      /\ used_by' = Taken(f, Released(p, gone, use_record, used_by))
      /\ content' = Filled(f, x, content)
      /\ pte' = [pte EXCEPT ![p][v] = PTE("rw", f[v])]
      /\ maps' = [maps EXCEPT ![p] = (@ \ gone) \cup MapsOf(f)]
  BY Zenon DEF AddPage, Allocates, Free
<1> HIDE DEF f
<1>T. MemInv
  BY IInvParts, Zenon
<1>1. use_record[f[v]] = {}
  BY <1>0, <1>T DEF MemInv, UsedWhileRecorded
<1>2. Released(p, gone, use_record, used_by)[f[v]] = 0
  BY <1>0, Zenon DEF Released
<1>3. v \in Slots /\ {v} \in SUBSET Slots
  BY SlotFacts, Zenon
<1>4. /\ used_by' \in [Pages -> {0, 3}]
      /\ use_record' \in [Pages -> SUBSET (Procs \X Slots)]
      /\ maps' \in [Procs -> SUBSET (Slots \X Pages)]
      /\ RecordsMatchMaps'
      /\ UsedWhileRecorded'
      /\ use_record'[f[v]] = {<<p, v>>}
      /\ \A q \in Procs, s \in Slots, pg \in Pages :
           <<s, pg>> \in maps'[q] <=>
             \/ <<s, pg>> \in maps[q] /\ ~ (q = p /\ <<s, pg>> \in gone)
             \/ q = p /\ s = v /\ f[s] = pg
      /\ \A pg \in Pages : f[v] # pg =>
           use_record'[pg] = Dropped(p, gone, use_record)[pg]
  <2>1. Remap(p, gone, {v}, f)
    BY <1>0, <1>2, <1>3, Zenon DEF Remap, Assigns
  <2> QED BY <2>1, Remapping DEF Remapped
<1>5. /\ pte' \in [Procs -> [VPages -> Entries]]
      /\ pte'[p][v] = PTE("rw", f[v])
      /\ \A q \in Procs, u \in VPages :
           ~ (q = p /\ u = v) => pte'[q][u] = pte[q][u]
  <2>1. PTE("rw", f[v]) \in Entries
    BY <1>0, Zenon DEF PTE, Entries
  <2> QED BY <1>0, <1>T, <2>1, Zenon DEF MemInv
<1>6. content' \in [Pages -> Words]
  BY <1>0, <1>3, <1>T, FilledFacts DEF MemInv, Assigns
<1>7. \A pg \in Pages, q \in Procs, s \in Slots :
        use_record[pg] = {<<q, s>>} /\ ~ (q = p /\ s = v) =>
          use_record'[pg] = {<<q, s>>}
  <2> SUFFICES ASSUME NEW pg \in Pages, NEW q \in Procs, NEW s \in Slots,
                      use_record[pg] = {<<q, s>>}, ~ (q = p /\ s = v)
               PROVE  use_record'[pg] = {<<q, s>>}
    BY Zenon
  <2>1. f[v] # pg
    BY <1>1, ZenonT(30)
  <2>2. ~ (q = p /\ <<s, pg>> \in gone)
    BY Zenon
  <2>3. Dropped(p, gone, use_record)[pg] = {<<q, s>>}
    BY <2>2 DEF Dropped
  <2> QED BY <2>1, <2>3, <1>4, Zenon
<1>8. MapsMatchPageTable'
  <2> SUFFICES ASSUME NEW q \in Procs
               PROVE  /\ \A m, n \in maps'[q] : m[1] = n[1] => m = n
                      /\ \A u \in VPages, pg \in Pages :
                           <<u, pg>> \in maps'[q] <=> pte'[q][u].page = pg
    BY Zenon DEF MapsMatchPageTable
  <2>0. /\ \A m, n \in maps[q] : m[1] = n[1] => m = n
        /\ \A u \in VPages, pg \in Pages :
             <<u, pg>> \in maps[q] <=> pte[q][u].page = pg
    BY <1>T, Zenon DEF MemInv, MapsMatchPageTable
  <2>1. ASSUME NEW s \in Slots, NEW pg1 \in Pages, NEW pg2 \in Pages,
               <<s, pg1>> \in maps'[q], <<s, pg2>> \in maps'[q]
        PROVE  pg1 = pg2
    BY <2>0, <2>1, <1>4
  <2>2. \A m, n \in maps'[q] : m[1] = n[1] => m = n
    BY <2>1, <1>4
  <2>3. ASSUME NEW u \in VPages, NEW pg \in Pages
        PROVE  <<u, pg>> \in maps'[q] <=> pte'[q][u].page = pg
    <3>1. CASE q = p /\ u = v
      BY <3>1, <1>0, <1>3, <1>4, <1>5, SlotFacts, SMTT(30) DEF PTE
    <3>2. CASE ~ (q = p /\ u = v)
      BY <3>2, <2>0, <1>3, <1>4, <1>5, SlotFacts, SMTT(30)
    <3> QED BY <3>1, <3>2, Zenon
  <2> QED BY <2>2, <2>3, Zenon
<1>9. WritableIsPrivate'
  <2> SUFFICES ASSUME NEW q \in Procs, NEW u \in VPages, pte'[q][u].mode = "rw"
               PROVE  use_record'[pte'[q][u].page] = {<<q, u>>}
    BY Zenon DEF WritableIsPrivate
  <2>1. CASE q = p /\ u = v
    BY <2>1, <1>4, <1>5 DEF PTE
  <2>2. CASE ~ (q = p /\ u = v)
    <3>1. pte'[q][u] = pte[q][u] /\ pte[q][u] \in Entries
      BY <2>2, <1>5, <1>T DEF MemInv
    <3>2. use_record[pte[q][u].page] = {<<q, u>>} /\ pte[q][u].page \in Pages
      BY <3>1, <1>T, EntryFacts DEF MemInv, WritableIsPrivate
    <3> QED BY <3>1, <3>2, <2>2, <1>7, SlotFacts
  <2> QED BY <2>1, <2>2, Zenon
<1>10. KernelPagesPrivate'
  <2> SUFFICES ASSUME NEW q \in Procs, NEW s \in {Tables, Rsp0}, NEW pg \in Pages,
                      <<s, pg>> \in maps'[q]
               PROVE  use_record'[pg] = {<<q, s>>}
    BY Zenon DEF KernelPagesPrivate
  <2>1. s \in Slots /\ s # v
    BY SlotFacts, Zenon
  <2>2. <<s, pg>> \in maps[q]
    BY <2>1, <1>4, Zenon
  <2>3. use_record[pg] = {<<q, s>>}
    BY <2>2, <1>T, Zenon DEF MemInv, KernelPagesPrivate
  <2> QED BY <2>1, <2>3, <1>7
<1>11. \A q \in Procs : q # p => maps'[q] = maps[q]
  BY <1>0, <1>T, Zenon DEF MemInv
<1> QED BY <1>4, <1>5, <1>6, <1>8, <1>9, <1>10, <1>11, Zenon DEF MemInv

-----------------------------------------------------------------------------
(***************************************************************************)
(* Each action preserves the invariant.                                    *)
(***************************************************************************)
\* A store, of a program or of the kernel, changes contents only.
LEMMA StoresPreserve ==
  ASSUME IInv, NEW p \in Procs, NEW v \in VPages, NEW x \in Words,
         Store(p, v, x) \/ CopyOut(p, v, x)
  PROVE  IInv'
<1>1. content' \in [Pages -> Words]
  BY ZenonT(30) DEF Store, CopyOut, IInv, TypeOK
<1> QED
  BY <1>1, SMTT(30) DEF Store, CopyOut, IInv, TypeOK, RecordsMatchMaps, UsedWhileRecorded,
     MapsMatchPageTable, WritableIsPrivate, KernelPagesPrivate, NothingOutlivesCleanup

\* A slot has at most one m_map, and none when the entry is absent.
LEMMA MapsOfPage ==
  ASSUME IInv, NEW p \in Procs, NEW v \in VPages
  PROVE  /\ \A m \in maps[p] : m = <<m[1], m[2]>> /\ m[1] \in Slots /\ m[2] \in Pages
         /\ \A m, n \in maps[p] : m[1] = n[1] => m = n
         /\ pte[p][v] \in Entries
         /\ pte[p][v].mode = "absent" => \A m \in maps[p] : m[1] # v
         /\ pte[p][v].mode # "absent" =>
              pte[p][v].page \in Pages /\ <<v, pte[p][v].page>> \in maps[p]
<1>1. /\ \A m \in maps[p] : m = <<m[1], m[2]>> /\ m[1] \in Slots /\ m[2] \in Pages
      /\ pte[p][v] \in Entries
  BY IInvParts DEF MemInv
<1>2. /\ \A m, n \in maps[p] : m[1] = n[1] => m = n
      /\ \A pg \in Pages : <<v, pg>> \in maps[p] <=> pte[p][v].page = pg
  BY Zenon DEF IInv, MapsMatchPageTable
<1> QED BY <1>1, <1>2, EntryFacts, SlotFacts

\* The three cases of the page-fault handler preserve the invariant.
LEMMA FaultsPreserve ==
  ASSUME IInv, NEW p \in Procs, NEW v \in VPages,
         SplitShared(p, v) \/ TouchHeap(p, v) \/ GrowStack(p, v)
  PROVE  IInv'
<1>1. PICK x \in Words, gone \in SUBSET maps[p] :
        /\ \A m \in maps[p] : m \in gone <=> m[1] = v
        /\ AddPage(p, v, x, gone)
  <2>1. CASE SplitShared(p, v)
    <3> PICK m \in maps[p] : m[1] = v /\ AddPage(p, v, Copy(m), {m})
      BY <2>1, ZenonT(30) DEF SplitShared
    <3>1. Copy(m) \in Words
      BY MapsOfPage, Zenon DEF Copy, IInv, TypeOK
    <3>2. \A n \in maps[p] : n \in {m} <=> n[1] = v
      BY MapsOfPage, ZenonT(30)
    <3> QED BY <3>1, <3>2, Zenon
  <2>2. CASE TouchHeap(p, v) \/ GrowStack(p, v)
    <3>1. AddPage(p, v, Zero, {}) /\ pte[p][v].mode = "absent"
      BY <2>2, Zenon DEF TouchHeap, GrowStack
    <3>2. \A n \in maps[p] : n \in {} <=> n[1] = v
      BY <3>1, MapsOfPage, ZenonT(30)
    <3> QED BY <3>1, <3>2, ConstantsAssumption, Zenon
  <2> QED BY <2>1, <2>2, Zenon
<1>2. MemInv' /\ \A q \in Procs : q # p => maps'[q] = maps[q]
  BY <1>1, AddPagePreserves, Zenon
<1>3. status' = status /\ status[p] = "live" /\ heap_break' = heap_break
  BY Zenon DEF SplitShared, TouchHeap, GrowStack
<1>4. NothingOutlivesCleanup'
  BY <1>2, <1>3, IInvParts, Zenon DEF NothingOutlivesCleanup
<1>5. rsp_current' \in [Procs -> StackBase .. StackTop + 1]
  <2>1. \A w \in Stack : w \in StackBase .. StackTop + 1
    BY ConstantsAssumption DEF Stack
  <2>2. rsp_current \in [Procs -> StackBase .. StackTop + 1]
    BY IInvParts, Zenon
  <2>3. CASE SplitShared(p, v) \/ TouchHeap(p, v)
    <3>1. rsp_current' = rsp_current
      BY <2>3, Zenon DEF SplitShared, TouchHeap
    <3> QED BY <2>2, <3>1, Zenon
  <2>4. CASE GrowStack(p, v)
    <3>1. v \in Stack /\ rsp_current' = [rsp_current EXCEPT ![p] = v]
      BY <2>4, Zenon DEF GrowStack
    <3> QED BY <2>1, <2>2, <3>1, Zenon
  <2> QED BY <2>3, <2>4, Zenon
<1>6. heap_break \in [Procs -> HeapStart .. StackBase] /\ status \in [Procs -> Statuses]
  BY IInvParts, Zenon
<1> QED BY <1>2, <1>3, <1>4, <1>5, <1>6, Zenon DEF IInv, TypeOK, MemInv, Entries

\* Moving the heap break preserves the invariant.
LEMMA BrkPreserves ==
  ASSUME IInv, NEW p \in Procs, NEW b \in HeapStart .. StackBase, Brk(p, b)
  PROVE  IInv'
<1>1. heap_break' \in [Procs -> HeapStart .. StackBase]
  BY Zenon DEF Brk, IInv, TypeOK
<1> QED
  BY <1>1, SMTT(30) DEF Brk, IInv, TypeOK, RecordsMatchMaps, UsedWhileRecorded,
     MapsMatchPageTable, WritableIsPrivate, KernelPagesPrivate, NothingOutlivesCleanup

\* Ending and reaping a process change its status only.
LEMMA ExitAndReapPreserve ==
  ASSUME IInv, NEW p \in Procs, Exit(p) \/ Reap(p)
  PROVE  IInv'
<1>1. status' \in [Procs -> Statuses]
  BY Zenon DEF Exit, Reap, IInv, TypeOK, Statuses
<1>2. \A q \in Procs : status'[q] \in {"unused", "zombie"} => status'[q] = status[q]
  BY Zenon DEF Exit, Reap, IInv, TypeOK, Statuses
<1>3. UNCHANGED <<used_by, use_record, content, maps, pte, heap_break, rsp_current>>
  BY Zenon DEF Exit, Reap
<1>4. NothingOutlivesCleanup'
  BY <1>2, <1>3, SMTT(30) DEF IInv, NothingOutlivesCleanup
<1> QED
  BY <1>1, <1>3, <1>4, SMTT(30) DEF IInv, TypeOK, RecordsMatchMaps, UsedWhileRecorded,
     MapsMatchPageTable, WritableIsPrivate, KernelPagesPrivate

\* p loses the m_maps gone, among them all of its user pages, and starts over
\* with the pages f, all writable.
Rebuild(p, gone, S, f) ==
  /\ Remap(p, gone, S, f)
  /\ \A m \in maps[p] : m[1] \in VPages \cup S => m \in gone
  /\ pte' = [pte EXCEPT ![p] =
               [v \in VPages |-> IF v \in S THEN PTE("rw", f[v]) ELSE Absent]]
  /\ content' \in [Pages -> Words]

\* Replacing all user memory of p preserves the invariant of the memory.
LEMMA RebuildPreserves ==
  ASSUME IInv, NEW p \in Procs, NEW gone, NEW S, NEW f, Rebuild(p, gone, S, f)
  PROVE  MemInv' /\ \A q \in Procs : q # p => maps'[q] = maps[q]
<1> USE DEF Rebuild
<1>T. MemInv
  BY IInvParts, SMTT(30)
<1>1. S \in SUBSET Slots /\ f \in [S -> Pages] /\ gone \in SUBSET maps[p]
  BY Zenon DEF Remap, Assigns
<1>2. \A s, t \in S : f[s] = f[t] => s = t
  BY SMTT(30) DEF Remap, Assigns
<1>4. /\ used_by' \in [Pages -> {0, 3}]
      /\ use_record' \in [Pages -> SUBSET (Procs \X Slots)]
      /\ maps' \in [Procs -> SUBSET (Slots \X Pages)]
      /\ RecordsMatchMaps'
      /\ UsedWhileRecorded'
      /\ \A s \in S : use_record'[f[s]] = {<<p, s>>}
      /\ \A q \in Procs, s \in Slots, pg \in Pages :
           <<s, pg>> \in maps'[q] <=>
             \/ <<s, pg>> \in maps[q] /\ ~ (q = p /\ <<s, pg>> \in gone)
             \/ q = p /\ s \in S /\ f[s] = pg
      /\ \A pg \in Pages : (\A s \in S : f[s] # pg) =>
           use_record'[pg] = Dropped(p, gone, use_record)[pg]
  BY Remapping, SMTT(30) DEF Remapped
<1>5. /\ pte' \in [Procs -> [VPages -> Entries]]
      /\ \A v \in VPages : v \in S => pte'[p][v] = PTE("rw", f[v])
      /\ \A v \in VPages : v \notin S => pte'[p][v] = Absent
      /\ \A q \in Procs : q # p => pte'[q] = pte[q]
  <2>1. \A v \in S : PTE("rw", f[v]) \in Entries
    BY <1>1, Zenon DEF PTE, Entries
  <2>2. Absent \in Entries
    BY Zenon DEF Entries
  <2> QED BY <1>T, <2>1, <2>2, Zenon DEF MemInv
<1>6. \A pg \in Pages, q \in Procs, s \in Slots :
        use_record[pg] = {<<q, s>>} /\ <<s, pg>> \in maps'[q] =>
          use_record'[pg] = {<<q, s>>}
  <2> SUFFICES ASSUME NEW pg \in Pages, NEW q \in Procs, NEW s \in Slots,
                      use_record[pg] = {<<q, s>>}, <<s, pg>> \in maps'[q]
               PROVE  use_record'[pg] = {<<q, s>>}
    BY Zenon
  <2>0. <<s, pg>> \in maps[q]
    BY <1>T, ZenonT(30) DEF MemInv, RecordsMatchMaps
  <2>1. CASE \E t \in S : f[t] = pg
    <3> PICK t \in S : f[t] = pg
      BY <2>1, Zenon
    <3>1. use_record'[pg] = {<<p, t>>}
      BY <1>4, Zenon
    <3>2. <<q, s>> \in use_record'[pg]
      BY <1>4, Zenon DEF RecordsMatchMaps
    <3> QED BY <3>1, <3>2, Zenon
  <2>2. CASE \A t \in S : f[t] # pg
    <3>1. ~ (q = p /\ <<s, pg>> \in gone)
      BY <2>2, <1>4, SMTT(30)
    <3>2. Dropped(p, gone, use_record)[pg] = {<<q, s>>}
      BY <3>1, SMTT(30) DEF Dropped
    <3> QED BY <2>2, <3>2, <1>4, SMTT(30)
  <2> QED BY <2>1, <2>2, Zenon
<1>7. \A s \in Slots, pg \in Pages :
        s \in VPages \cup S => (<<s, pg>> \in maps'[p] <=> s \in S /\ f[s] = pg)
  BY <1>1, <1>4, SMTT(30)
<1>8. MapsMatchPageTable'
  <2> SUFFICES ASSUME NEW q \in Procs
               PROVE  /\ \A m, n \in maps'[q] : m[1] = n[1] => m = n
                      /\ \A u \in VPages, pg \in Pages :
                           <<u, pg>> \in maps'[q] <=> pte'[q][u].page = pg
    BY Zenon DEF MapsMatchPageTable
  <2>0. /\ \A m, n \in maps[q] : m[1] = n[1] => m = n
        /\ \A u \in VPages, pg \in Pages :
             <<u, pg>> \in maps[q] <=> pte[q][u].page = pg
    BY <1>T, SMTT(30) DEF MemInv, MapsMatchPageTable
  <2>1. ASSUME NEW s \in Slots, NEW pg1 \in Pages, NEW pg2 \in Pages,
               <<s, pg1>> \in maps'[q], <<s, pg2>> \in maps'[q]
        PROVE  pg1 = pg2
    <3>1. CASE q = p /\ s \in S
      BY <3>1, <2>1, <1>7, SMTT(30)
    <3>2. CASE ~ (q = p /\ s \in S)
      BY <3>2, <2>0, <2>1, <1>4, SMTT(30)
    <3> QED BY <3>1, <3>2, Zenon
  <2>2. \A m, n \in maps'[q] : m[1] = n[1] => m = n
    BY <2>1, <1>4, SMTT(30)
  <2>3. ASSUME NEW u \in VPages, NEW pg \in Pages
        PROVE  <<u, pg>> \in maps'[q] <=> pte'[q][u].page = pg
    <3>0. u \in Slots
      BY SlotFacts, Zenon
    <3>1. CASE q = p /\ u \in S
      BY <3>0, <3>1, <1>5, <1>7, SMTT(30) DEF PTE
    <3>2. CASE q = p /\ u \notin S
      BY <3>0, <3>2, <1>5, <1>7, SlotFacts, SMTT(30) DEF Absent
    <3>3. CASE q # p
      BY <3>0, <3>3, <2>0, <1>4, <1>5, SMTT(30)
    <3> QED BY <3>1, <3>2, <3>3, SMTT(30)
  <2> QED BY <2>2, <2>3, Zenon
<1>9. WritableIsPrivate'
  <2> SUFFICES ASSUME NEW q \in Procs, NEW u \in VPages, pte'[q][u].mode = "rw"
               PROVE  use_record'[pte'[q][u].page] = {<<q, u>>}
    BY SMTT(30) DEF WritableIsPrivate
  <2>1. CASE q = p /\ u \in S
    BY <2>1, <1>4, <1>5, SMTT(30) DEF PTE
  <2>2. CASE q = p /\ u \notin S
    BY <2>2, <1>5, SMTT(30) DEF Absent
  <2>3. CASE q # p
    <3>1. pte'[q][u] = pte[q][u] /\ pte[q][u] \in Entries /\ u \in Slots
      BY <2>3, <1>5, <1>T, SlotFacts, SMTT(30) DEF MemInv
    <3>2. use_record[pte[q][u].page] = {<<q, u>>} /\ pte[q][u].page \in Pages
      BY <3>1, <1>T, EntryFacts, SMTT(30) DEF MemInv, WritableIsPrivate
    <3>3. <<u, pte[q][u].page>> \in maps'[q]
      BY <3>1, <3>2, <1>8, SMTT(30) DEF MapsMatchPageTable
    <3> QED BY <3>1, <3>2, <3>3, <1>6, SMTT(30)
  <2> QED BY <2>1, <2>2, <2>3, Zenon
<1>10. KernelPagesPrivate'
  <2> SUFFICES ASSUME NEW q \in Procs, NEW s \in {Tables, Rsp0}, NEW pg \in Pages,
                      <<s, pg>> \in maps'[q]
               PROVE  use_record'[pg] = {<<q, s>>}
    BY Zenon DEF KernelPagesPrivate
  <2>1. s \in Slots
    BY SlotFacts, SMTT(30)
  <2>2. CASE q = p /\ s \in S
    BY <2>2, <1>4, <1>7, SMTT(30)
  <2>3. CASE ~ (q = p /\ s \in S)
    <3>1. <<s, pg>> \in maps[q]
      BY <2>1, <2>3, <1>4, SMTT(30)
    <3>2. use_record[pg] = {<<q, s>>}
      BY <3>1, <1>T, SMTT(30) DEF MemInv, KernelPagesPrivate
    <3> QED BY <2>1, <3>2, <1>6, SMTT(30)
  <2> QED BY <2>2, <2>3, Zenon
<1>11. \A q \in Procs : q # p => maps'[q] = maps[q]
  BY <1>T, Zenon DEF MemInv, Remap
<1> QED BY <1>4, <1>5, <1>8, <1>9, <1>10, <1>11, Zenon DEF MemInv

\* replace_process and the load that follows preserve the invariant.
LEMMA ExecPreserves ==
  ASSUME IInv, NEW p \in Procs, NEW x \in Words, Exec(p, x)
  PROVE  IInv'
<1> DEFINE S    == LoadedSlots \cup {Tables}
           gone == {m \in maps[p] : m[1] # Rsp0}
           ub   == Released(p, gone, use_record, used_by)
           f    == FirstFree(S, ub)
<1>0. /\ status[p] = "live"
      /\ f \in [S -> Free(ub)] /\ \A s, t \in S : f[s] = f[t] => s = t
      /\ used_by' = Taken(f, ub)
      /\ use_record' = Recorded(p, f, Dropped(p, gone, use_record))
      /\ content' = Filled(f, x, content)
      /\ maps' = [maps EXCEPT ![p] = (@ \ gone) \cup MapsOf(f)]
      /\ pte' = [pte EXCEPT ![p] = LoadedPTEs(f)]
      /\ heap_break' = [heap_break EXCEPT ![p] = HeapStart]
      /\ rsp_current' = [rsp_current EXCEPT ![p] = StackTop]
      /\ status' = status
  BY ZenonT(30) DEF Exec, Allocates
<1> HIDE DEF f
<1>1. S \in SUBSET Slots /\ Rsp0 \notin S
  BY SlotFacts, Zenon DEF LoadedSlots
<1>2. \A v \in VPages : v \in S <=> v \in LoadedSlots
  BY SlotFacts, SMTT(30)
<1>3. Assigns(f, S) /\ \A s \in S : ub[f[s]] = 0
  BY <1>0, <1>1, ZenonT(30) DEF Assigns, Free
<1>4. content' \in [Pages -> Words]
  BY <1>0, <1>3, FilledFacts, ZenonT(30) DEF IInv, TypeOK
<1>5. LoadedPTEs(f) = [v \in VPages |-> IF v \in S THEN PTE("rw", f[v]) ELSE Absent]
  BY <1>2, Zenon DEF LoadedPTEs
<1>6. \A m \in maps[p] : m[1] \in VPages \cup S => m \in gone
  BY <1>1, SlotFacts, SMTT(30)
<1>7. Rebuild(p, gone, S, f)
  BY <1>0, <1>3, <1>4, <1>5, <1>6, Zenon DEF Rebuild, Remap
<1>8. MemInv' /\ \A q \in Procs : q # p => maps'[q] = maps[q]
  BY <1>7, RebuildPreserves, Zenon
<1>9. NothingOutlivesCleanup'
  BY <1>0, <1>8, SMTT(30) DEF IInv, NothingOutlivesCleanup
<1>10. /\ status' \in [Procs -> Statuses]
       /\ heap_break' \in [Procs -> HeapStart .. StackBase]
       /\ rsp_current' \in [Procs -> StackBase .. StackTop + 1]
  BY <1>0, ConstantsAssumption, SMTT(30) DEF IInv, TypeOK
<1> QED BY <1>8, <1>9, <1>10, SMTT(30) DEF IInv, TypeOK, MemInv, Entries

\* process_cleanup preserves the invariant; it is a Rebuild with no new page.
LEMMA CleanupPreserves ==
  ASSUME IInv, NEW p \in Procs, Cleanup(p)
  PROVE  IInv'
<1> DEFINE f == [s \in {} |-> 0]
<1>0. /\ status' = [status EXCEPT ![p] = "zombie"]
      /\ use_record' = Dropped(p, maps[p], use_record)
      /\ used_by' = Released(p, maps[p], use_record, used_by)
      /\ maps' = [maps EXCEPT ![p] = {}]
      /\ pte' = [pte EXCEPT ![p] = [v \in VPages |-> Absent]]
      /\ content' = content /\ heap_break' = heap_break /\ rsp_current' = rsp_current
  BY Zenon DEF Cleanup
<1>T. /\ maps \in [Procs -> SUBSET (Slots \X Pages)]
      /\ content \in [Pages -> Words]
      /\ status \in [Procs -> Statuses]
  BY Zenon DEF IInv, TypeOK
<1>1. Assigns(f, {})
  BY Zenon DEF Assigns
<1>2. MapsOf(f) = {}
  BY Zenon DEF MapsOf
<1>3. Recorded(p, f, use_record') = use_record'
  <2>1. use_record' = [pg \in Pages |-> use_record'[pg]]
    BY <1>0, Zenon DEF Dropped
  <2> QED BY <2>1, Zenon DEF Recorded
<1>4. Taken(f, used_by') = used_by'
  <2>1. used_by' = [pg \in Pages |-> used_by'[pg]]
    BY <1>0, Zenon DEF Released
  <2> QED BY <2>1, SMTT(30) DEF Taken
<1> HIDE DEF f
<1>5. maps' = [maps EXCEPT ![p] = (@ \ maps[p]) \cup MapsOf(f)]
  BY <1>0, <1>2, <1>T, ZenonT(30)
<1>6. Remap(p, maps[p], {}, f)
  BY <1>0, <1>1, <1>3, <1>4, <1>5, ZenonT(30) DEF Remap
<1>7. Rebuild(p, maps[p], {}, f)
  BY <1>0, <1>6, <1>T, Zenon DEF Rebuild
<1>8. MemInv' /\ \A q \in Procs : q # p => maps'[q] = maps[q]
  BY <1>7, RebuildPreserves, Zenon
<1>9. status' \in [Procs -> Statuses]
  BY <1>0, <1>T, Zenon DEF Statuses
<1>10. NothingOutlivesCleanup'
  BY <1>0, <1>8, <1>T, Zenon DEF IInv, NothingOutlivesCleanup
<1>11. /\ heap_break \in [Procs -> HeapStart .. StackBase]
       /\ rsp_current \in [Procs -> StackBase .. StackTop + 1]
  BY IInvParts, SMTT(30)
<1> QED BY <1>0, <1>8, <1>9, <1>10, <1>11, Zenon DEF IInv, TypeOK, MemInv, Entries

\* fork_process preserves the invariant.  A page it shares is writable by
\* neither process, and a page writable by a third process is not shared.
LEMMA ForkPreserves ==
  ASSUME IInv, NEW p \in Procs, NEW c \in Procs, Fork(p, c)
  PROVE  IInv'
<1> DEFINE K   == {Tables, Rsp0}
           f   == FirstFree(K, used_by)
           dup == {m \in maps[p] : Duplicated(m)}
<1>0. /\ status[p] = "live" /\ status[c] = "unused"
      /\ f \in [K -> Free(used_by)] /\ \A s, t \in K : f[s] = f[t] => s = t
      /\ used_by' = Taken(f, used_by)
      /\ content' = Filled(f, Zero, content)
      /\ use_record' = [pg \in Pages |->
           Recorded(c, f, use_record)[pg]
             \cup {<<c, s>> : s \in {s \in Slots : <<s, pg>> \in dup}}]
      /\ maps' = [maps EXCEPT ![c] = MapsOf(f) \cup dup]
      /\ status' = [status EXCEPT ![c] = "live"]
      /\ heap_break' = [heap_break EXCEPT ![c] = heap_break[p]]
      /\ rsp_current' = [rsp_current EXCEPT ![c] = rsp_current[p]]
  BY Zenon DEF Fork, Allocates
<1> HIDE DEF f
<1>T. MemInv
  BY IInvParts, Zenon
<1>1. p # c /\ maps[c] = {}
  BY <1>0, Zenon DEF IInv, NothingOutlivesCleanup
<1>2. Assigns(f, K) /\ \A s \in K : f[s] \in Pages /\ used_by[f[s]] = 0
  BY <1>0, SlotFacts, Zenon DEF Assigns, Free
<1>3. \A s \in K : use_record[f[s]] = {}
  BY <1>2, <1>T, SMTT(30) DEF MemInv, UsedWhileRecorded
<1>4. /\ used_by' \in [Pages -> {0, 3}]
      /\ \A s \in K : used_by'[f[s]] = 3
      /\ \A pg \in Pages : (\A s \in K : f[s] # pg) => used_by'[pg] = used_by[pg]
  <2>1. Assigns(f, K) /\ used_by \in [Pages -> {0, 3}] /\ used_by' = Taken(f, used_by)
    BY <1>0, <1>2, <1>T, SMTT(30) DEF MemInv
  <2> HIDE DEF K
  <2> QED BY ONLY <2>1, TakenFacts
<1>5. content' \in [Pages -> Words]
  BY <1>0, <1>2, <1>T, FilledFacts, ConstantsAssumption, Zenon DEF MemInv
<1>6. /\ Recorded(c, f, use_record) \in [Pages -> SUBSET (Procs \X Slots)]
      /\ \A s \in K : Recorded(c, f, use_record)[f[s]] = {<<c, s>>}
      /\ \A pg \in Pages : (\A s \in K : f[s] # pg) =>
           Recorded(c, f, use_record)[pg] = use_record[pg]
  <2>1. Assigns(f, K) /\ use_record \in [Pages -> SUBSET (Procs \X Slots)]
    BY <1>2, <1>T, Zenon DEF MemInv
  <2> HIDE DEF K
  <2> QED BY ONLY <2>1, c \in Procs, RecordedFacts
<1>7. \A s \in Slots, pg \in Pages :
        <<s, pg>> \in dup <=> s \in VPages /\ <<s, pg>> \in maps[p]
  BY Zenon DEF Duplicated
<1>8. use_record' \in [Pages -> SUBSET (Procs \X Slots)]
  <2>1. ASSUME NEW pg \in Pages
        PROVE  use_record'[pg] \in SUBSET (Procs \X Slots)
    <3>1. Recorded(c, f, use_record)[pg] \in SUBSET (Procs \X Slots)
      BY <1>6, Zenon
    <3>2. use_record'[pg] = Recorded(c, f, use_record)[pg]
                              \cup {<<c, s>> : s \in {s \in Slots : <<s, pg>> \in dup}}
      BY <1>0, Zenon
    <3> DEFINE D == {s \in Slots : <<s, pg>> \in dup}
    <3>3. D \subseteq Slots
      BY Zenon
    <3> HIDE DEF D
    <3>4. {<<c, s>> : s \in D} \subseteq Procs \X Slots
      BY <3>3
    <3>5. use_record'[pg] = Recorded(c, f, use_record)[pg] \cup {<<c, s>> : s \in D}
      BY <3>2, Zenon DEF D
    <3> QED BY ONLY <3>1, <3>4, <3>5, Zenon
  <2>2. use_record' = [pg \in Pages |-> use_record'[pg]]
    BY <1>0, SMTT(30)
  <2> QED BY ONLY <2>1, <2>2, Zenon
<1>9. \A pg \in Pages, q \in Procs, s \in Slots :
        <<q, s>> \in use_record'[pg] <=>
          \/ <<q, s>> \in use_record[pg]
          \/ q = c /\ s \in K /\ f[s] = pg
          \/ q = c /\ s \in VPages /\ <<s, pg>> \in maps[p]
  <2> TAKE pg \in Pages, q \in Procs, s \in Slots
  <2>1. use_record'[pg] = Recorded(c, f, use_record)[pg]
                            \cup {<<c, t>> : t \in {t \in Slots : <<t, pg>> \in dup}}
    BY <1>0, SMTT(30)
  <2>2. <<q, s>> \in use_record'[pg] <=>
          \/ <<q, s>> \in Recorded(c, f, use_record)[pg]
          \/ q = c /\ s \in VPages /\ <<s, pg>> \in maps[p]
    BY <2>1, <1>7, ZenonT(30)
  <2>3. CASE \E t \in K : f[t] = pg
    <3> PICK t \in K : f[t] = pg
      BY <2>3, Zenon
    <3>1. Recorded(c, f, use_record)[pg] = {<<c, t>>} /\ use_record[pg] = {}
      BY <1>3, <1>6, Zenon
    <3>2. s \in K /\ f[s] = pg <=> s = t
      BY <1>0, Zenon
    <3> QED BY <2>2, <3>1, <3>2, Zenon
  <2>4. CASE \A t \in K : f[t] # pg
    BY <2>2, <2>4, <1>6, Zenon
  <2> QED BY <2>3, <2>4, SMTT(30)
<1>10. maps' \in [Procs -> SUBSET (Slots \X Pages)]
  <2>1. MapsOf(f) \in SUBSET (Slots \X Pages)
    BY <1>2, SMTT(30) DEF MapsOf, Assigns
  <2> QED BY <2>1, <1>0, <1>T, Zenon DEF MemInv
<1>11. \A pg \in Pages, q \in Procs, s \in Slots :
         <<s, pg>> \in maps'[q] <=>
           \/ <<s, pg>> \in maps[q]
           \/ q = c /\ s \in K /\ f[s] = pg
           \/ q = c /\ s \in VPages /\ <<s, pg>> \in maps[p]
  <2>1. maps'[c] = MapsOf(f) \cup dup /\ \A q \in Procs \ {c} : maps'[q] = maps[q]
    BY <1>0, <1>T, Zenon DEF MemInv
  <2>2. \A s \in Slots, pg \in Pages : <<s, pg>> \in MapsOf(f) <=> s \in K /\ f[s] = pg
    BY <1>2, SMTT(30) DEF MapsOf, Assigns
  <2> QED BY <2>1, <2>2, <1>1, <1>7, SMTT(30)
<1>12. RecordsMatchMaps'
  BY <1>9, <1>11, <1>T, ZenonT(30) DEF MemInv, RecordsMatchMaps
<1> HIDE DEF dup
<1>13. \A pg \in Pages, q \in Procs, s \in Slots :
         <<q, s>> \in use_record[pg] <=> <<s, pg>> \in maps[q]
  BY <1>T, ZenonT(30) DEF MemInv, RecordsMatchMaps
<1>14. \A pg \in Pages : use_record'[pg] = {} <=>
         use_record[pg] = {} /\ \A s \in K : f[s] # pg
  <2> TAKE pg \in Pages
  <2>1. use_record'[pg] \in SUBSET (Procs \X Slots)
        /\ use_record[pg] \in SUBSET (Procs \X Slots)
    BY <1>8, <1>T, Zenon DEF MemInv
  <2>2. K \in SUBSET Slots
    BY SlotFacts, Zenon
  <2>3. ASSUME NEW e \in use_record[pg] PROVE use_record'[pg] # {}
    <3>1. PICK q \in Procs, s \in Slots : e = <<q, s>>
      BY <2>1
    <3> QED BY <3>1, <2>3, <1>9, ZenonT(30)
  <2>4. ASSUME NEW s \in K, f[s] = pg PROVE use_record'[pg] # {}
    BY <2>2, <2>4, <1>9, ZenonT(30)
  <2>5. ASSUME NEW e \in use_record'[pg], \A s \in K : f[s] # pg
        PROVE  use_record[pg] # {}
    <3>1. PICK q \in Procs, s \in Slots : e = <<q, s>>
      BY <2>1
    <3> QED BY <3>1, <2>5, <1>9, <1>13, ZenonT(30)
  <2> QED BY <2>3, <2>4, <2>5, SMTT(30)
<1>15. UsedWhileRecorded'
  <2> SUFFICES ASSUME NEW pg \in Pages
               PROVE  used_by'[pg] = 3 <=> use_record'[pg] # {}
    BY Zenon DEF UsedWhileRecorded
  <2>1. used_by[pg] = 3 <=> use_record[pg] # {}
    BY <1>T, Zenon DEF MemInv, UsedWhileRecorded
  <2>2. CASE \E s \in K : f[s] = pg
    BY <2>2, <1>4, <1>14, Zenon
  <2>3. CASE \A s \in K : f[s] # pg
    BY <2>1, <2>3, <1>4, <1>14, Zenon
  <2> QED BY <2>2, <2>3, Zenon
<1>16. \A v \in VPages :
         /\ Mapped(p, v) <=> pte[p][v].mode # "absent"
         /\ Mapped(p, v) => MapPage(p, v) = pte[p][v].page
  <2> TAKE v \in VPages
  <2>1. /\ pte[p][v] \in Entries
        /\ \A pg \in Pages : <<v, pg>> \in maps[p] <=> pte[p][v].page = pg
    BY <1>T, SMTT(30) DEF MemInv, MapsMatchPageTable
  <2> QED BY <2>1, EntryFacts, ZenonT(30) DEF Mapped, MapPage
<1>17. \A v \in VPages : pte[p][v].mode # "absent" => PTE("ro", pte[p][v].page) \in Entries
  BY <1>T, EntryFacts DEF PTE, Entries, MemInv
<1>18. /\ pte' \in [Procs -> [VPages -> Entries]]
       /\ \A q \in {p, c}, v \in VPages :
            pte'[q][v] = IF pte[p][v].mode # "absent"
                         THEN PTE("ro", pte[p][v].page) ELSE Absent
       /\ \A q \in Procs \ {p, c} : pte'[q] = pte[q]
  <2> DEFINE ep == [v \in VPages |-> IF Mapped(p, v) THEN WriteProtected(pte[p][v])
                                     ELSE pte[p][v]]
             ec == [v \in VPages |-> IF Mapped(p, v) THEN PTE("ro", MapPage(p, v))
                                     ELSE Absent]
             ro == [v \in VPages |-> IF pte[p][v].mode # "absent"
                                     THEN PTE("ro", pte[p][v].page) ELSE Absent]
  <2>0. pte \in [Procs -> [VPages -> Entries]]
    BY <1>T, SMTT(30) DEF MemInv
  <2>1. pte' = [pte EXCEPT ![p] = ep, ![c] = ec]
    BY <2>0, Zenon DEF Fork
  <2>2. \A v \in VPages : pte[p][v].mode = "absent" => pte[p][v] = Absent
    BY <2>0, EntryFacts, Zenon
  <2>3. ep = ro
    BY <1>16, <2>2, Zenon DEF WriteProtected
  <2>4. ec = ro
    BY <1>16, Zenon
  <2>5. ro \in [VPages -> Entries]
    BY <1>17, SMTT(30) DEF Entries
  <2> HIDE DEF ep, ec
  <2>6. pte' = [pte EXCEPT ![p] = ro, ![c] = ro]
    BY <2>1, <2>3, <2>4, Zenon
  <2>7. /\ pte' \in [Procs -> [VPages -> Entries]]
        /\ pte'[p] = ro /\ pte'[c] = ro
        /\ \A q \in Procs \ {p, c} : pte'[q] = pte[q]
    <3> HIDE DEF ro
    <3> QED BY <2>0, <2>5, <2>6, Zenon
  <2> QED BY <2>7, SMTT(30)
<1>19. MapsMatchPageTable'
  <2> SUFFICES ASSUME NEW q \in Procs
               PROVE  /\ \A m, n \in maps'[q] : m[1] = n[1] => m = n
                      /\ \A u \in VPages, pg \in Pages :
                           <<u, pg>> \in maps'[q] <=> pte'[q][u].page = pg
    BY Zenon DEF MapsMatchPageTable
  <2>0. ASSUME NEW r \in Procs
        PROVE  /\ \A m, n \in maps[r] : m[1] = n[1] => m = n
               /\ \A u \in VPages, pg \in Pages :
                    <<u, pg>> \in maps[r] <=> pte[r][u].page = pg
    BY <1>T, Zenon DEF MemInv, MapsMatchPageTable
  <2>1. ASSUME NEW s \in Slots, NEW pg1 \in Pages, NEW pg2 \in Pages,
               <<s, pg1>> \in maps'[q], <<s, pg2>> \in maps'[q]
        PROVE  pg1 = pg2
    <3>1. CASE q = c
      BY <2>0, <2>1, <3>1, <1>1, <1>11, SlotFacts, SMTT(30)
    <3>2. CASE q # c
      BY <2>0, <2>1, <3>2, <1>11
    <3> QED BY <3>1, <3>2, SMTT(30)
  <2>2. \A m, n \in maps'[q] : m[1] = n[1] => m = n
    BY <2>1, <1>10
  <2>3. ASSUME NEW u \in VPages, NEW pg \in Pages
        PROVE  <<u, pg>> \in maps'[q] <=> pte'[q][u].page = pg
    <3>0. u \in Slots /\ u \notin K /\ pte[p][u] \in Entries
      BY SlotFacts, <1>T DEF MemInv
    <3>1. CASE q \in {p, c}
      <4>1. <<u, pg>> \in maps'[q] <=> <<u, pg>> \in maps[p]
        BY <3>0, <3>1, <1>1, <1>11, SMTT(30)
      <4>2. pte'[q][u].page = pte[p][u].page
        <5>1. pte'[q][u] = IF pte[p][u].mode # "absent"
                           THEN PTE("ro", pte[p][u].page) ELSE Absent
          BY <3>1, <1>18, Zenon
        <5>2. pte[p][u].mode = "absent" => pte[p][u] = Absent
          BY <3>0, EntryFacts, SMTT(30)
        <5> QED BY <5>1, <5>2, SMTT(30) DEF PTE
      <4> QED BY <4>1, <4>2, <2>0, SMTT(30)
    <3>2. CASE q \notin {p, c}
      BY <3>0, <3>2, <2>0, <1>11, <1>18, SMTT(30)
    <3> QED BY <3>1, <3>2, Zenon
  <2> QED BY <2>2, <2>3, Zenon
<1>20. \A pg \in Pages, q \in Procs, s \in Slots :
         use_record[pg] = {<<q, s>>} /\ (q = p => s \notin VPages) =>
           use_record'[pg] = {<<q, s>>}
  <2> SUFFICES ASSUME NEW pg \in Pages, NEW q \in Procs, NEW s \in Slots,
                      use_record[pg] = {<<q, s>>}, q = p => s \notin VPages
               PROVE  use_record'[pg] = {<<q, s>>}
    BY Zenon
  <2>1. \A t \in K : f[t] # pg
    BY <1>3, ZenonT(30)
  <2>2. \A t \in VPages : <<t, pg>> \notin maps[p]
    <3> SUFFICES ASSUME NEW t \in VPages, <<t, pg>> \in maps[p] PROVE FALSE
      BY Zenon
    <3>1. t \in Slots
      BY SlotFacts, Zenon
    <3>2. <<p, t>> \in use_record[pg]
      BY <3>1, <1>13, ZenonT(30)
    <3> QED BY <3>2, SMTT(30)
  <2>3. \A r \in Procs, t \in Slots : <<r, t>> \in use_record'[pg] <=> <<r, t>> = <<q, s>>
    BY <2>1, <2>2, <1>9, ZenonT(30)
  <2>4. use_record'[pg] \in SUBSET (Procs \X Slots)
    BY <1>8, Zenon
  <2> QED BY <2>3, <2>4
<1>21. WritableIsPrivate'
  <2> SUFFICES ASSUME NEW q \in Procs, NEW u \in VPages, pte'[q][u].mode = "rw"
               PROVE  use_record'[pte'[q][u].page] = {<<q, u>>}
    BY Zenon DEF WritableIsPrivate
  <2>1. q \notin {p, c}
    <3> SUFFICES ASSUME q \in {p, c} PROVE FALSE
      BY SMTT(30)
    <3>1. pte'[q][u] = IF pte[p][u].mode # "absent"
                       THEN PTE("ro", pte[p][u].page) ELSE Absent
      BY <1>18, Zenon
    <3> QED BY <3>1 DEF PTE, Absent
  <2>2. pte'[q][u] = pte[q][u] /\ pte[q][u] \in Entries /\ u \in Slots
    BY <2>1, <1>18, <1>T, SlotFacts, SMTT(30) DEF MemInv
  <2>3. use_record[pte[q][u].page] = {<<q, u>>} /\ pte[q][u].page \in Pages
    BY <2>2, <1>T, EntryFacts, SMTT(30) DEF MemInv, WritableIsPrivate
  <2> QED BY <2>1, <2>2, <2>3, <1>20, SMTT(30)
<1>22. KernelPagesPrivate'
  <2> SUFFICES ASSUME NEW q \in Procs, NEW s \in K, NEW pg \in Pages,
                      <<s, pg>> \in maps'[q]
               PROVE  use_record'[pg] = {<<q, s>>}
    BY Zenon DEF KernelPagesPrivate
  <2>1. s \in Slots /\ s \notin VPages
    BY SlotFacts, Zenon
  <2>2. CASE <<s, pg>> \in maps[q]
    <3>1. use_record[pg] = {<<q, s>>}
      BY <2>2, <1>T, Zenon DEF MemInv, KernelPagesPrivate
    <3> QED BY <2>1, <3>1, <1>20, SMTT(30)
  <2>3. CASE q = c /\ f[s] = pg
    <3>1. \A r \in Procs, t \in Slots : <<t, pg>> \notin maps[r]
      BY <2>3, <1>3, <1>13, ZenonT(30)
    <3>2. \A r \in Procs, t \in Slots : <<r, t>> \in use_record'[pg] <=> <<r, t>> = <<c, s>>
      <4> SUFFICES ASSUME NEW r \in Procs, NEW t \in Slots
                   PROVE  <<r, t>> \in use_record'[pg] <=> r = c /\ t = s
        BY ZenonT(30)
      <4>1. <<r, t>> \notin use_record[pg] /\ <<t, pg>> \notin maps[p]
        BY <3>1, <1>13, Zenon
      <4>2. <<r, t>> \in use_record'[pg] <=> r = c /\ t \in K /\ f[t] = pg
        BY <4>1, <1>9, Zenon
      <4>3. t \in K /\ f[t] = pg <=> t = s
        BY <2>3, <1>0, Zenon
      <4> QED BY <4>2, <4>3, Zenon
    <3>3. use_record'[pg] \in SUBSET (Procs \X Slots)
      BY <1>8, SMTT(30)
    <3> QED BY <2>1, <2>3, <3>2, <3>3
  <2> QED BY <2>1, <2>2, <2>3, <1>11, Zenon
<1>23. /\ status' \in [Procs -> Statuses]
       /\ heap_break' \in [Procs -> HeapStart .. StackBase]
       /\ rsp_current' \in [Procs -> StackBase .. StackTop + 1]
  <2>1. /\ status \in [Procs -> Statuses] /\ "live" \in Statuses
        /\ heap_break \in [Procs -> HeapStart .. StackBase]
        /\ rsp_current \in [Procs -> StackBase .. StackTop + 1]
    BY Zenon DEF IInv, TypeOK, Statuses
  <2>2. status' \in [Procs -> Statuses]
    BY ONLY <2>1, <1>0, c \in Procs, ZenonT(30)
  <2>3. heap_break' \in [Procs -> HeapStart .. StackBase]
    BY ONLY <2>1, <1>0, c \in Procs, p \in Procs, ZenonT(30)
  <2>4. rsp_current' \in [Procs -> StackBase .. StackTop + 1]
    BY ONLY <2>1, <1>0, c \in Procs, p \in Procs, ZenonT(30)
  <2> QED BY <2>2, <2>3, <2>4, Zenon
<1>24. NothingOutlivesCleanup'
  <2>1. NothingOutlivesCleanup /\ status \in [Procs -> Statuses]
    BY ZenonT(30) DEF IInv, TypeOK
  <2>2. \A q \in Procs : status'[q] \in {"unused", "zombie"} => q # c /\ status'[q] = status[q]
    BY <2>1, <1>0, ZenonT(30)
  <2>3. \A q \in Procs \ {c} : maps'[q] = maps[q]
    BY <1>0, <1>T, ZenonT(30) DEF MemInv
  <2> QED BY ONLY <2>1, <2>2, <2>3, ZenonT(30) DEF NothingOutlivesCleanup
<1> QED
  BY <1>4, <1>5, <1>8, <1>10, <1>12, <1>15, <1>18, <1>19, <1>21, <1>22, <1>23, <1>24, SMTT(30)
     DEF IInv, TypeOK, Entries

-----------------------------------------------------------------------------
(***************************************************************************)
(* The invariant holds initially, so it always holds.                      *)
(***************************************************************************)
\* spawn_process establishes the invariant for the first process.
LEMMA InitEstablishes == Init => IInv
<1> SUFFICES ASSUME Init PROVE IInv
  BY SMTT(30)
<1> DEFINE S    == LoadedSlots \cup {Tables, Rsp0}
           none == [pg \in Pages |-> 0]
           norc == [pg \in Pages |-> {}]
           f    == FirstFree(S, none)
<1>0. /\ f \in [S -> Free(none)] /\ \A s, t \in S : f[s] = f[t] => s = t
      /\ used_by = Taken(f, none)
      /\ use_record = Recorded(0, f, norc)
      /\ \E x \in Words : content = Filled(f, x, [pg \in Pages |-> Zero])
      /\ maps = [p \in Procs |-> IF p = 0 THEN MapsOf(f) ELSE {}]
      /\ pte = [p \in Procs |-> IF p = 0 THEN LoadedPTEs(f)
                                ELSE [v \in VPages |-> Absent]]
      /\ status = [p \in Procs |-> IF p = 0 THEN "live" ELSE "unused"]
      /\ heap_break = [p \in Procs |-> HeapStart]
      /\ rsp_current = [p \in Procs |-> StackTop + 1]
  BY ZenonT(30) DEF Init, Allocates
<1> HIDE DEF f
<1>1. S \in SUBSET Slots /\ 0 \in Procs
  BY SlotFacts, Zenon DEF LoadedSlots
<1>2. \A v \in VPages : v \in S <=> v \in LoadedSlots
  BY SlotFacts, Zenon
<1>3. Assigns(f, S)
  BY <1>0, <1>1, Zenon DEF Assigns, Free
<1> HIDE DEF S
<1>4. /\ used_by \in [Pages -> {0, 3}]
      /\ \A s \in S : used_by[f[s]] = 3
      /\ \A pg \in Pages : (\A s \in S : f[s] # pg) => used_by[pg] = 0
  <2>1. none \in [Pages -> {0, 3}] /\ \A pg \in Pages : none[pg] = 0
    BY Zenon
  <2> HIDE DEF none
  <2> QED BY <2>1, <1>0, <1>3, TakenFacts, SMTT(30)
<1>5. /\ use_record \in [Pages -> SUBSET (Procs \X Slots)]
      /\ \A s \in S : use_record[f[s]] = {<<0, s>>}
      /\ \A pg \in Pages : (\A s \in S : f[s] # pg) => use_record[pg] = {}
  <2>1. norc \in [Pages -> SUBSET (Procs \X Slots)] /\ \A pg \in Pages : norc[pg] = {}
    BY Zenon
  <2>2. use_record = Recorded(0, f, norc)
    BY <1>0, SMTT(30)
  <2> HIDE DEF norc
  <2>3. /\ Recorded(0, f, norc) \in [Pages -> SUBSET (Procs \X Slots)]
        /\ \A s \in S : Recorded(0, f, norc)[f[s]] = {<<0, s>>}
        /\ \A pg \in Pages : (\A s \in S : f[s] # pg) =>
             Recorded(0, f, norc)[pg] = norc[pg]
    BY ONLY <2>1, <1>1, <1>3, RecordedFacts, SMTT(30)
  <2> QED BY ONLY <2>1, <2>2, <2>3, Zenon
<1>6. content \in [Pages -> Words]
  <2> PICK x \in Words : content = Filled(f, x, [pg \in Pages |-> Zero])
    BY <1>0, Zenon
  <2>1. [pg \in Pages |-> Zero] \in [Pages -> Words]
    BY ConstantsAssumption, Zenon
  <2> QED BY <2>1, <1>3, FilledFacts, Zenon
<1>7. /\ maps \in [Procs -> SUBSET (Slots \X Pages)]
      /\ \A q \in Procs, s \in Slots, pg \in Pages :
           <<s, pg>> \in maps[q] <=> q = 0 /\ s \in S /\ f[s] = pg
  <2>1. MapsOf(f) \in SUBSET (Slots \X Pages)
    BY <1>3 DEF MapsOf, Assigns
  <2>2. \A s \in Slots, pg \in Pages : <<s, pg>> \in MapsOf(f) <=> s \in S /\ f[s] = pg
    BY <1>3, Zenon DEF MapsOf, Assigns
  <2> QED BY <2>1, <2>2, <1>0, Zenon
<1>8. /\ pte \in [Procs -> [VPages -> Entries]]
      /\ \A v \in VPages : pte[0][v] = IF v \in S THEN PTE("rw", f[v]) ELSE Absent
      /\ \A q \in Procs \ {0}, v \in VPages : pte[q][v] = Absent
  <2>1. \A v \in S : PTE("rw", f[v]) \in Entries
    BY <1>3, Zenon DEF PTE, Entries, Assigns
  <2>2. Absent \in Entries
    BY Zenon DEF Entries
  <2>3. LoadedPTEs(f) = [v \in VPages |-> IF v \in S THEN PTE("rw", f[v]) ELSE Absent]
    BY <1>2, Zenon DEF LoadedPTEs
  <2> QED BY <2>1, <2>2, <2>3, <1>0, <1>1, SMTT(30)
<1>9. RecordsMatchMaps
  <2> SUFFICES ASSUME NEW pg \in Pages, NEW q \in Procs, NEW s \in Slots
               PROVE  <<q, s>> \in use_record[pg] <=> <<s, pg>> \in maps[q]
    BY ZenonT(30) DEF RecordsMatchMaps
  <2>0. <<s, pg>> \in maps[q] <=> q = 0 /\ s \in S /\ f[s] = pg
    BY <1>7, Zenon
  <2>1. CASE \E t \in S : f[t] = pg
    <3> PICK t \in S : f[t] = pg
      BY <2>1, Zenon
    <3> QED BY <2>0, <1>3, <1>5 DEF Assigns
  <2>2. CASE \A t \in S : f[t] # pg
    BY <2>0, <2>2, <1>5, Zenon
  <2> QED BY <2>1, <2>2, Zenon
<1>10. UsedWhileRecorded
  <2> SUFFICES ASSUME NEW pg \in Pages
               PROVE  used_by[pg] = 3 <=> use_record[pg] # {}
    BY Zenon DEF UsedWhileRecorded
  <2>1. CASE \E s \in S : f[s] = pg
    BY <2>1, <1>4, <1>5, ZenonT(30)
  <2>2. CASE \A s \in S : f[s] # pg
    BY <2>2, <1>4, <1>5
  <2> QED BY <2>1, <2>2, Zenon
<1>11. MapsMatchPageTable
  <2> SUFFICES ASSUME NEW q \in Procs
               PROVE  /\ \A m, n \in maps[q] : m[1] = n[1] => m = n
                      /\ \A u \in VPages, pg \in Pages :
                           <<u, pg>> \in maps[q] <=> pte[q][u].page = pg
    BY Zenon DEF MapsMatchPageTable
  <2>1. \A m, n \in maps[q] : m[1] = n[1] => m = n
    BY <1>7
  <2>2. ASSUME NEW u \in VPages, NEW pg \in Pages
        PROVE  <<u, pg>> \in maps[q] <=> pte[q][u].page = pg
    <3>0. u \in Slots
      BY SlotFacts, Zenon
    <3>1. CASE q = 0 /\ u \in S
      <4>1. pte[q][u].page = f[u]
        <5>1. pte[q][u] = PTE("rw", f[u])
          BY <3>1, <1>8, Zenon
        <5> QED BY ONLY <5>1 DEF PTE
      <4>2. <<u, pg>> \in maps[q] <=> f[u] = pg
        BY <3>0, <3>1, <1>7, SMTT(30)
      <4> QED BY <4>1, <4>2, Zenon
    <3>2. CASE ~ (q = 0 /\ u \in S)
      <4>1. pte[q][u] = Absent
        BY <3>2, <1>8, Zenon
      <4> QED BY <3>0, <3>2, <4>1, <1>7, SlotFacts, SMTT(30) DEF Absent
    <3> QED BY <3>1, <3>2, Zenon
  <2> QED BY <2>1, <2>2, Zenon
<1>12. WritableIsPrivate
  <2> SUFFICES ASSUME NEW q \in Procs, NEW u \in VPages, pte[q][u].mode = "rw"
               PROVE  use_record[pte[q][u].page] = {<<q, u>>}
    BY Zenon DEF WritableIsPrivate
  <2>1. q = 0 /\ u \in S
    <3> SUFFICES ASSUME ~ (q = 0 /\ u \in S) PROVE FALSE
      BY Zenon
    <3>1. pte[q][u] = Absent
      BY <1>8, Zenon
    <3> QED BY <3>1 DEF Absent
  <2>2. pte[q][u].page = f[u]
    <3>1. pte[q][u] = PTE("rw", f[u])
      BY <2>1, <1>8, Zenon
    <3> QED BY ONLY <3>1, SMTT(30) DEF PTE
  <2> QED BY <2>1, <2>2, <1>5, Zenon
<1>13. KernelPagesPrivate
  BY <1>5, <1>7, SlotFacts, SMTT(30) DEF KernelPagesPrivate
<1>14. NothingOutlivesCleanup
  BY <1>0, Zenon DEF NothingOutlivesCleanup
<1>15. /\ status \in [Procs -> Statuses]
       /\ heap_break \in [Procs -> HeapStart .. StackBase]
       /\ rsp_current \in [Procs -> StackBase .. StackTop + 1]
  BY <1>0, ConstantsAssumption, SMTT(30) DEF Statuses
<1> QED
  BY <1>4, <1>5, <1>6, <1>7, <1>8, <1>9, <1>10, <1>11, <1>12, <1>13, <1>14, <1>15, Zenon
     DEF IInv, TypeOK, Entries

\* Every step preserves the invariant.
LEMMA NextPreserves == IInv /\ [Next]_vars => IInv'
<1> SUFFICES ASSUME IInv, [Next]_vars PROVE IInv'
  BY SMTT(30)
<1>1. CASE UNCHANGED vars
  <2>1. TypeOK' /\ RecordsMatchMaps' /\ UsedWhileRecorded'
    BY <1>1, ZenonT(30) DEF vars, IInv, TypeOK, RecordsMatchMaps, UsedWhileRecorded
  <2>2. MapsMatchPageTable'
    BY <1>1, ZenonT(30) DEF vars, IInv, MapsMatchPageTable
  <2>3. WritableIsPrivate' /\ KernelPagesPrivate' /\ NothingOutlivesCleanup'
    BY <1>1, ZenonT(30) DEF vars, IInv, WritableIsPrivate, KernelPagesPrivate,
       NothingOutlivesCleanup
  <2> QED BY <2>1, <2>2, <2>3, Zenon DEF IInv
<1>2. CASE Next
  <2> PICK p \in Procs :
        \/ \E v \in VPages, x \in Words : Store(p, v, x) \/ CopyOut(p, v, x)
        \/ \E v \in VPages : SplitShared(p, v) \/ TouchHeap(p, v) \/ GrowStack(p, v)
        \/ \E b \in HeapStart .. StackBase : Brk(p, b)
        \/ \E c \in Procs : Fork(p, c)
        \/ \E x \in Words : Exec(p, x)
        \/ Exit(p) \/ Cleanup(p) \/ Reap(p)
    BY <1>2, Zenon DEF Next
  <2>1. CASE \E v \in VPages, x \in Words : Store(p, v, x) \/ CopyOut(p, v, x)
    BY <2>1, StoresPreserve, Zenon
  <2>2. CASE \E v \in VPages : SplitShared(p, v) \/ TouchHeap(p, v) \/ GrowStack(p, v)
    BY <2>2, FaultsPreserve, Zenon
  <2>3. CASE \E b \in HeapStart .. StackBase : Brk(p, b)
    BY <2>3, BrkPreserves, Zenon
  <2>4. CASE \E c \in Procs : Fork(p, c)
    BY <2>4, ForkPreserves, Zenon
  <2>5. CASE \E x \in Words : Exec(p, x)
    BY <2>5, ExecPreserves, Zenon
  <2>6. CASE Exit(p) \/ Reap(p)
    BY <2>6, ExitAndReapPreserve, Zenon
  <2>7. CASE Cleanup(p)
    BY <2>7, CleanupPreserves, Zenon
  <2> QED BY <2>1, <2>2, <2>3, <2>4, <2>5, <2>6, <2>7, Zenon
<1> QED BY <1>1, <1>2, Zenon

\* The inductive invariant of the memory holds in every reachable state.
THEOREM Invariance == Spec => []IInv
BY InitEstablishes, NextPreserves, PTL DEF Spec

\* Type correctness, for any number of processes and pages.
THEOREM TypeCorrect == Spec => []TypeOK
<1>1. IInv => TypeOK
  BY Zenon DEF IInv
<1> QED BY <1>1, Invariance, PTL

\* No page that a process can write is used by anybody else: what fork_process,
\* check_and_handle_rw_page_fault and free_page_for_program establish together.
THEOREM CopyOnWrite == Spec => []WritableIsPrivate
<1>1. IInv => WritableIsPrivate
  BY Zenon DEF IInv
<1> QED BY <1>1, Invariance, PTL

\* The m_map lists, the use records, the page tables and the page allocator agree
\* on who owns a page: one is free exactly when no m_map refers to it, what the copy
\* of a shared page reads is what the processor sees, page tables and kernel stacks
\* are on pages that nothing else uses, and process_cleanup leaves none behind
\* (fork_process, replace_process, free_page_for_program).
THEOREM Ownership == Spec => []OwnersAgree
<1>1. IInv => OwnersAgree
  BY Zenon DEF IInv, OwnersAgree
<1> QED BY <1>1, Invariance, PTL
-----------------------------------------------------------------------------
(***************************************************************************)
(* Copy-on-write gives every process a memory of its own: CowMemory        *)
(* implements AddressSpaces, as long as the kernel does not itself store   *)
(* to pages still shared since a fork (SharedCopyOut = FALSE).  The        *)
(* argument takes one lemma for each action, that says how the step        *)
(* changes what the processes find in their memory.                        *)
(***************************************************************************)
Contents == [VPages -> Words \cup {NoPage}]

\* What Memory holds, read off the page table.
LEMMA MemoryFacts ==
  ASSUME IInv
  PROVE  /\ Memory \in [Procs -> Contents]
         /\ \A p \in Procs, v \in VPages :
              /\ pte[p][v].mode = "absent" <=> Memory[p][v] = NoPage
              /\ pte[p][v].mode # "absent" => Memory[p][v] = content[pte[p][v].page]
<1>1. ASSUME NEW p \in Procs, NEW v \in VPages
      PROVE  /\ pte[p][v] \in Entries
             /\ pte[p][v].mode # "absent" =>
                  content[pte[p][v].page] \in Words /\ content[pte[p][v].page] # NoPage
  <2>1. pte[p][v] \in Entries /\ content \in [Pages -> Words]
    BY IInvParts, Zenon DEF MemInv
  <2>2. \A x \in Words : x # NoPage
    BY ConstantsAssumption DEF NoPage
  <2> QED BY <2>1, <2>2, EntryFacts, Zenon
<1> QED BY <1>1, Zenon DEF Memory, Contents

\* The same in the next state.
LEMMA MemoryFactsNext ==
  ASSUME IInv'
  PROVE  /\ Memory' \in [Procs -> Contents]
         /\ \A p \in Procs, v \in VPages :
              /\ pte'[p][v].mode = "absent" <=> Memory'[p][v] = NoPage
              /\ pte'[p][v].mode # "absent" => Memory'[p][v] = content'[pte'[p][v].page]
<1>1. ASSUME NEW p \in Procs, NEW v \in VPages
      PROVE  /\ pte'[p][v] \in Entries
             /\ pte'[p][v].mode # "absent" =>
                  content'[pte'[p][v].page] \in Words /\ content'[pte'[p][v].page] # NoPage
  <2>1. pte'[p][v] \in Entries /\ content' \in [Pages -> Words]
    BY DEF IInv, TypeOK, Entries
  <2>2. \A x \in Words : x # NoPage
    BY ConstantsAssumption DEF NoPage
  <2> QED BY <2>1, <2>2, EntryFacts, Zenon
<1> QED BY <1>1, Zenon DEF Memory, Contents

\* A present entry points to a page that records it.
LEMMA EntryIsRecorded ==
  ASSUME IInv, NEW p \in Procs, NEW v \in VPages, pte[p][v].mode # "absent"
  PROVE  /\ pte[p][v].page \in Pages
         /\ <<p, v>> \in use_record[pte[p][v].page]
         /\ used_by[pte[p][v].page] = 3
<1>1. pte[p][v].page \in Pages /\ <<v, pte[p][v].page>> \in maps[p] /\ v \in Slots
  BY MapsOfPage, SlotFacts, Zenon
<1>2. <<p, v>> \in use_record[pte[p][v].page]
  BY <1>1, Zenon DEF IInv, RecordsMatchMaps
<1> QED BY <1>1, <1>2, Zenon DEF IInv, UsedWhileRecorded

\* What q finds at u stays when its entry and the contents of the page stay.
LEMMA Kept ==
  ASSUME IInv, IInv', NEW q \in Procs, NEW u \in VPages,
         pte'[q][u].mode = "absent" <=> pte[q][u].mode = "absent",
         pte[q][u].mode # "absent" =>
           content'[pte'[q][u].page] = content[pte[q][u].page]
  PROVE  Memory'[q][u] = Memory[q][u]
BY MemoryFacts, MemoryFactsNext

\* A store changes one page of one process: the page is private.
LEMMA StoreMemory ==
  ASSUME IInv, IInv', NEW p \in Procs, NEW v \in VPages, NEW x \in Words, Store(p, v, x)
  PROVE  Memory' = [Memory EXCEPT ![p][v] = x] /\ Memory[p][v] # NoPage
<1> DEFINE pg == pte[p][v].page
<1>0. /\ pte[p][v].mode = "rw" /\ pte' = pte
      /\ content' = [content EXCEPT ![pg] = x] /\ content \in [Pages -> Words]
  BY Zenon DEF Store, IInv, TypeOK
<1>1. pg \in Pages /\ use_record[pg] = {<<p, v>>}
  BY <1>0, EntryIsRecorded, Zenon DEF IInv, WritableIsPrivate
<1>2. content'[pg] = x /\ \A r \in Pages : r # pg => content'[r] = content[r]
  BY <1>0, <1>1, Zenon
<1>3. ASSUME NEW q \in Procs, NEW u \in VPages, ~ (q = p /\ u = v)
      PROVE  Memory'[q][u] = Memory[q][u]
  <2>1. pte[q][u].mode # "absent" =>
          pte[q][u].page \in Pages /\ <<q, u>> \in use_record[pte[q][u].page]
    BY EntryIsRecorded, Zenon
  <2>2. pte[q][u].mode # "absent" => content'[pte[q][u].page] = content[pte[q][u].page]
    BY <1>1, <1>2, <1>3, <2>1
  <2> HIDE DEF pg
  <2> QED BY <1>0, <2>2, Kept, Zenon
<1>4. Memory'[p][v] = x /\ Memory[p][v] # NoPage
  BY <1>0, <1>2, MemoryFacts, MemoryFactsNext
<1>5. Memory \in [Procs -> Contents] /\ Memory' \in [Procs -> Contents]
  BY MemoryFacts, MemoryFactsNext, Zenon
<1> QED BY <1>3, <1>4, <1>5 DEF Contents

\* A page just allocated is nobody's.
LEMMA AddPageMemory ==
  ASSUME IInv, IInv', NEW p \in Procs, NEW v \in VPages, NEW x \in Words,
         NEW gone \in SUBSET maps[p], AddPage(p, v, x, gone)
  PROVE  Memory' = [Memory EXCEPT ![p][v] = x]
<1> DEFINE f == FirstFree({v}, used_by)
<1>0. /\ f \in [{v} -> Pages] /\ f[v] \in Pages /\ used_by[f[v]] = 0
      /\ \A s, t \in {v} : f[s] = f[t] => s = t
      /\ content' = Filled(f, x, content)
      /\ pte' = [pte EXCEPT ![p][v] = PTE("rw", f[v])]
  BY Zenon DEF AddPage, Allocates, Free
<1> HIDE DEF f
<1>T. /\ pte \in [Procs -> [VPages -> Entries]] /\ content \in [Pages -> Words]
  BY IInvParts, Zenon DEF MemInv
<1>1. Assigns(f, {v}) /\ v \in {v} \ {Tables, Rsp0}
  BY <1>0, SlotFacts, Zenon DEF Assigns
<1>2. content'[f[v]] = x /\ \A pg \in Pages : pg # f[v] => content'[pg] = content[pg]
  BY <1>0, <1>1, <1>T, FilledFacts
<1>3. /\ pte'[p][v] = PTE("rw", f[v])
      /\ \A q \in Procs, u \in VPages : ~ (q = p /\ u = v) => pte'[q][u] = pte[q][u]
  BY <1>0, <1>T, Zenon
<1>4. ASSUME NEW q \in Procs, NEW u \in VPages, ~ (q = p /\ u = v)
      PROVE  Memory'[q][u] = Memory[q][u]
  <2>1. pte[q][u].mode # "absent" =>
          pte[q][u].page \in Pages /\ used_by[pte[q][u].page] = 3
    BY EntryIsRecorded, Zenon
  <2>2. pte[q][u].mode # "absent" => content'[pte[q][u].page] = content[pte[q][u].page]
    BY <1>0, <1>2, <2>1
  <2>3. pte'[q][u] = pte[q][u]
    BY <1>3, <1>4, Zenon
  <2> QED BY <2>2, <2>3, Kept
<1>5. Memory'[p][v] = x
  <2>1. pte'[p][v].mode = "rw" /\ pte'[p][v].page = f[v]
    BY <1>3 DEF PTE
  <2> QED BY <2>1, <1>2, MemoryFactsNext
<1>6. Memory \in [Procs -> Contents] /\ Memory' \in [Procs -> Contents]
  BY MemoryFacts, MemoryFactsNext, Zenon
<1> QED BY <1>4, <1>5, <1>6 DEF Contents

\* Splitting a shared page changes nobody's memory.
LEMMA SplitMemory ==
  ASSUME IInv, IInv', NEW p \in Procs, NEW v \in VPages, SplitShared(p, v)
  PROVE  Memory' = Memory
<1>1. PICK m \in maps[p] : m[1] = v /\ AddPage(p, v, Copy(m), {m})
  BY Zenon DEF SplitShared
<1>2. m = <<v, m[2]>> /\ m[2] \in Pages
  BY <1>1, MapsOfPage, Zenon
<1>3. pte[p][v].page = m[2] /\ pte[p][v].mode = "ro"
  BY <1>2 DEF SplitShared, IInv, MapsMatchPageTable
<1>4. Copy(m) = Memory[p][v] /\ Copy(m) \in Words
  <2>1. content[m[2]] \in Words
    BY <1>2, IInvParts, Zenon DEF MemInv
  <2> QED BY <1>3, <2>1, MemoryFacts, Zenon DEF Copy
<1>5. Memory' = [Memory EXCEPT ![p][v] = Copy(m)]
  BY <1>1, <1>4, AddPageMemory
<1> QED BY <1>4, <1>5, MemoryFacts, Zenon DEF Contents

\* A new heap or stack page was absent and reads as zero.
LEMMA GrowMemory ==
  ASSUME IInv, IInv', NEW p \in Procs, NEW v \in VPages,
         TouchHeap(p, v) \/ GrowStack(p, v)
  PROVE  Memory[p][v] = NoPage /\ Memory' = [Memory EXCEPT ![p][v] = Zero]
<1>1. pte[p][v].mode = "absent" /\ AddPage(p, v, Zero, {})
  BY Zenon DEF TouchHeap, GrowStack
<1>2. Zero \in Words /\ {} \in SUBSET maps[p]
  BY ConstantsAssumption, Zenon
<1> QED BY <1>1, <1>2, AddPageMemory, MemoryFacts

\* sys_brk, the end of a process and its reaping change nobody's memory.
LEMMA SameMemory ==
  ASSUME NEW p \in Procs,
         (\E b \in HeapStart .. StackBase : Brk(p, b)) \/ Exit(p) \/ Reap(p)
  PROVE  Memory' = Memory
BY Zenon DEF Brk, Exit, Reap, Memory

\* A process that owns nothing finds nothing.
LEMMA UnusedMemory ==
  ASSUME IInv, NEW c \in Procs, maps[c] = {}
  PROVE  Memory[c] = Spaces!Unmapped
<1>1. \A v \in VPages : pte[c][v].mode = "absent"
  BY MapsOfPage, Zenon
<1>2. Memory \in [Procs -> Contents] /\ \A v \in VPages : Memory[c][v] = NoPage
  BY <1>1, MemoryFacts, Zenon
<1> QED BY <1>2, Zenon DEF Contents, Spaces!Unmapped

\* The child starts with the memory of the parent; nobody else sees a change.
LEMMA ForkMemory ==
  ASSUME IInv, IInv', NEW p \in Procs, NEW c \in Procs, Fork(p, c)
  PROVE  Memory[c] = Spaces!Unmapped /\ Memory' = [Memory EXCEPT ![c] = Memory[p]]
<1> DEFINE K == {Tables, Rsp0}
           f == FirstFree(K, used_by)
<1>0. /\ status[p] = "live" /\ status[c] = "unused"
      /\ f \in [K -> Free(used_by)] /\ \A s, t \in K : f[s] = f[t] => s = t
      /\ content' = Filled(f, Zero, content)
  BY Zenon DEF Fork, Allocates
<1> HIDE DEF f
<1>T. pte \in [Procs -> [VPages -> Entries]] /\ content \in [Pages -> Words]
  BY IInvParts, Zenon DEF MemInv
<1>1. p # c /\ maps[c] = {}
  BY <1>0, Zenon DEF IInv, NothingOutlivesCleanup
<1>2. Assigns(f, K) /\ \A s \in K : used_by[f[s]] = 0
  BY <1>0, SlotFacts, Zenon DEF Assigns, Free
<1>3. \A pg \in Pages : (\A s \in K : f[s] # pg) => content'[pg] = content[pg]
  <2> HIDE DEF K
  <2> QED BY <1>0, <1>2, <1>T, FilledFacts, ConstantsAssumption
<1>4. \A q \in Procs, u \in VPages : pte[q][u].mode # "absent" =>
        content'[pte[q][u].page] = content[pte[q][u].page]
  <2> SUFFICES ASSUME NEW q \in Procs, NEW u \in VPages, pte[q][u].mode # "absent"
               PROVE  content'[pte[q][u].page] = content[pte[q][u].page]
    BY Zenon
  <2>1. pte[q][u].page \in Pages /\ used_by[pte[q][u].page] = 3
    BY EntryIsRecorded, Zenon
  <2> QED BY <2>1, <1>2, <1>3
<1>5. ASSUME NEW u \in VPages
      PROVE  /\ Mapped(p, u) <=> pte[p][u].mode # "absent"
             /\ Mapped(p, u) => MapPage(p, u) = pte[p][u].page
  <2>1. /\ pte[p][u] \in Entries
        /\ \A pg \in Pages : <<u, pg>> \in maps[p] <=> pte[p][u].page = pg
    BY <1>T DEF IInv, MapsMatchPageTable
  <2> QED BY <2>1, EntryFacts, Zenon DEF Mapped, MapPage
<1>6. /\ \A u \in VPages : pte'[p][u] = IF Mapped(p, u) THEN PTE("ro", pte[p][u].page)
                                        ELSE pte[p][u]
      /\ \A u \in VPages : pte'[c][u] = IF Mapped(p, u) THEN PTE("ro", MapPage(p, u))
                                        ELSE Absent
      /\ \A q \in Procs \ {p, c} : pte'[q] = pte[q]
  <2> DEFINE ep == [v \in VPages |-> IF Mapped(p, v) THEN WriteProtected(pte[p][v])
                                     ELSE pte[p][v]]
             ec == [v \in VPages |-> IF Mapped(p, v) THEN PTE("ro", MapPage(p, v))
                                     ELSE Absent]
  <2>1. pte' = [pte EXCEPT ![p] = ep, ![c] = ec]
    BY <1>T, Zenon DEF Fork
  <2>2. pte'[p] = ep /\ pte'[c] = ec /\ \A q \in Procs \ {p, c} : pte'[q] = pte[q]
    <3> HIDE DEF ep, ec
    <3> QED BY <2>1, <1>1, <1>T, Zenon
  <2> QED BY <2>2, Zenon DEF WriteProtected
<1>7. ASSUME NEW u \in VPages
      PROVE  /\ pte'[p][u].mode = "absent" <=> pte[p][u].mode = "absent"
             /\ pte'[c][u].mode = "absent" <=> pte[p][u].mode = "absent"
             /\ pte'[p][u].page = pte[p][u].page
             /\ pte[p][u].mode # "absent" => pte'[c][u].page = pte[p][u].page
  <2>1. CASE pte[p][u].mode # "absent"
    <3>1. pte'[p][u] = PTE("ro", pte[p][u].page) /\ pte'[c][u] = PTE("ro", pte[p][u].page)
      BY <2>1, <1>5, <1>6, Zenon
    <3> QED BY <2>1, <3>1 DEF PTE
  <2>2. CASE pte[p][u].mode = "absent"
    <3>1. pte'[p][u] = pte[p][u] /\ pte'[c][u] = Absent
      BY <2>2, <1>5, <1>6, Zenon
    <3> QED BY <2>2, <3>1 DEF Absent
  <2> QED BY <2>1, <2>2, Zenon
<1>8. ASSUME NEW q \in Procs, NEW u \in VPages, q # c
      PROVE  Memory'[q][u] = Memory[q][u]
  <2>1. /\ pte'[q][u].mode = "absent" <=> pte[q][u].mode = "absent"
        /\ pte'[q][u].page = pte[q][u].page
    BY <1>6, <1>7, <1>8, Zenon
  <2>2. pte[q][u].mode # "absent" => content'[pte'[q][u].page] = content[pte[q][u].page]
    BY <2>1, <1>4, Zenon
  <2> QED BY <2>1, <2>2, Kept, Zenon
<1>9. ASSUME NEW u \in VPages PROVE Memory'[c][u] = Memory[p][u]
  BY <1>4, <1>7, MemoryFacts, MemoryFactsNext
<1>10. Memory \in [Procs -> Contents] /\ Memory' \in [Procs -> Contents]
  BY MemoryFacts, MemoryFactsNext, Zenon
<1>11. Memory' = [Memory EXCEPT ![c] = Memory[p]]
  BY <1>8, <1>9, <1>10 DEF Contents
<1> QED BY <1>1, <1>11, UnusedMemory, Zenon

\* A step that gives p the pages f for the slots S, filled with x, and leaves
\* the other page tables alone.
Rebuilds(p, S, f, x) ==
  /\ Assigns(f, S)
  /\ \A s \in S : use_record'[f[s]] = {<<p, s>>}
  /\ content' = Filled(f, x, content)
  /\ \A q \in Procs : q # p => pte'[q] = pte[q]

\* Such a step leaves the memory of the others alone: pages that the others
\* use keep their records, so they were not reallocated.
LEMMA OthersKeepMemory ==
  ASSUME IInv, IInv', NEW p \in Procs, NEW S, NEW f, NEW x \in Words,
         Rebuilds(p, S, f, x)
  PROVE  \A q \in Procs : q # p => Memory'[q] = Memory[q]
<1>0. /\ Assigns(f, S) /\ content' = Filled(f, x, content)
      /\ \A s \in S : use_record'[f[s]] = {<<p, s>>}
      /\ \A q \in Procs : q # p => pte'[q] = pte[q]
  BY Zenon DEF Rebuilds
<1>1. \A pg \in Pages : (\A s \in S : f[s] # pg) => content'[pg] = content[pg]
  <2>1. content \in [Pages -> Words]
    BY IInvParts, Zenon DEF MemInv
  <2> QED BY <1>0, <2>1, FilledFacts
<1>2. ASSUME NEW q \in Procs, NEW u \in VPages, q # p
      PROVE  Memory'[q][u] = Memory[q][u]
  <2>1. pte'[q][u] = pte[q][u]
    BY <1>0, <1>2, Zenon
  <2>2. ASSUME pte[q][u].mode # "absent"
        PROVE  content'[pte[q][u].page] = content[pte[q][u].page]
    <3>1. pte[q][u].page \in Pages /\ u \in Slots
      BY <2>2, EntryIsRecorded, SlotFacts, Zenon
    <3>2. <<u, pte[q][u].page>> \in maps'[q]
      BY <2>1, <3>1 DEF IInv, MapsMatchPageTable
    <3>3. <<q, u>> \in use_record'[pte[q][u].page]
      BY <3>1, <3>2, Zenon DEF IInv, RecordsMatchMaps
    <3>4. \A s \in S : f[s] # pte[q][u].page
      BY <3>3, <1>0, <1>2
    <3> QED BY <3>1, <3>4, <1>1, Zenon
  <2> QED BY <2>1, <2>2, Kept, Zenon
<1>3. Memory \in [Procs -> Contents] /\ Memory' \in [Procs -> Contents]
  BY MemoryFacts, MemoryFactsNext, Zenon
<1> QED BY <1>2, <1>3 DEF Contents

\* A page table set up for a program maps the program's pages, filled with x,
\* and nothing else.
LEMMA LoadedFacts ==
  ASSUME NEW S, NEW f, Assigns(f, S), LoadedSlots \subseteq S,
         NEW x \in Words, NEW con \in [Pages -> Words], NEW v \in VPages
  PROVE  /\ v \in LoadedSlots => /\ LoadedPTEs(f)[v].mode # "absent"
                                 /\ Filled(f, x, con)[LoadedPTEs(f)[v].page] = x
         /\ v \notin LoadedSlots => LoadedPTEs(f)[v].mode = "absent"
<1>1. CASE v \in LoadedSlots
  <2>1. v \in S \ {Tables, Rsp0}
    BY <1>1, SlotFacts, Zenon
  <2>2. Filled(f, x, con)[f[v]] = x
    BY <2>1, FilledFacts
  <2>3. LoadedPTEs(f)[v].mode = "rw" /\ LoadedPTEs(f)[v].page = f[v]
    BY <1>1, Zenon DEF LoadedPTEs, PTE
  <2> QED BY <1>1, <2>2, <2>3, Zenon
<1>2. CASE v \notin LoadedSlots
  BY <1>2, Zenon DEF LoadedPTEs, Absent
<1> QED BY <1>1, <1>2, Zenon

\* exec gives the caller the memory of the new program and changes no other.
LEMMA ExecMemory ==
  ASSUME IInv, IInv', NEW p \in Procs, NEW x \in Words, Exec(p, x)
  PROVE  Memory' = [Memory EXCEPT ![p] = Spaces!Program(x)]
<1> DEFINE S    == LoadedSlots \cup {Tables}
           gone == {m \in maps[p] : m[1] # Rsp0}
           ub   == Released(p, gone, use_record, used_by)
           f    == FirstFree(S, ub)
<1>0. /\ f \in [S -> Free(ub)] /\ \A s, t \in S : f[s] = f[t] => s = t
      /\ use_record' = Recorded(p, f, Dropped(p, gone, use_record))
      /\ content' = Filled(f, x, content)
      /\ pte' = [pte EXCEPT ![p] = LoadedPTEs(f)]
  BY Zenon DEF Exec, Allocates
<1> HIDE DEF f
<1>1. S \in SUBSET Slots
  BY SlotFacts, Zenon DEF LoadedSlots
<1>2. Assigns(f, S)
  BY <1>0, <1>1, Zenon DEF Assigns, Free
<1>3. \A s \in S : use_record'[f[s]] = {<<p, s>>}
  <2>1. gone \in SUBSET (Slots \X Pages) /\ use_record \in [Pages -> SUBSET (Procs \X Slots)]
    BY Zenon DEF IInv, TypeOK
  <2>2. Dropped(p, gone, use_record) \in [Pages -> SUBSET (Procs \X Slots)]
    BY <2>1, DroppedFacts, Zenon
  <2> HIDE DEF S, gone
  <2> QED BY <2>2, <1>0, <1>2, RecordedFacts
<1>4. \A q \in Procs : q # p => pte'[q] = pte[q]
  BY <1>0, Zenon DEF IInv, TypeOK
<1>5. \A q \in Procs : q # p => Memory'[q] = Memory[q]
  <2> HIDE DEF S, gone, ub
  <2>1. Rebuilds(p, S, f, x)
    BY <1>0, <1>2, <1>3, <1>4, Zenon DEF Rebuilds
  <2> QED BY <2>1, OthersKeepMemory, Zenon
<1>6. Memory \in [Procs -> Contents] /\ Memory' \in [Procs -> Contents]
  BY MemoryFacts, MemoryFactsNext, Zenon
<1>7. ASSUME NEW v \in VPages
      PROVE  Memory'[p][v] = IF v \in LoadedSlots THEN x ELSE NoPage
  <2>1. pte'[p] = LoadedPTEs(f) /\ content \in [Pages -> Words]
    BY <1>0, Zenon DEF IInv, TypeOK
  <2>2. LoadedSlots \subseteq S
    BY Zenon
  <2> HIDE DEF S
  <2>3. /\ v \in LoadedSlots => /\ LoadedPTEs(f)[v].mode # "absent"
                                /\ Filled(f, x, content)[LoadedPTEs(f)[v].page] = x
        /\ v \notin LoadedSlots => LoadedPTEs(f)[v].mode = "absent"
    BY ONLY <1>2, <2>1, <2>2, x \in Words, v \in VPages, LoadedFacts, Zenon
  <2>4. /\ v \in LoadedSlots => /\ pte'[p][v].mode # "absent"
                                /\ content'[pte'[p][v].page] = x
        /\ v \notin LoadedSlots => pte'[p][v].mode = "absent"
    BY <1>0, <2>1, <2>3, Zenon
  <2> QED BY <2>4, MemoryFactsNext, Zenon
<1>8. Memory'[p] = Spaces!Program(x)
  BY <1>6, <1>7, Zenon DEF Contents, Spaces!Program
<1> QED BY <1>5, <1>6, <1>8, Zenon

\* process_cleanup empties the memory of the process and no other.
LEMMA CleanupMemory ==
  ASSUME IInv, IInv', NEW p \in Procs, Cleanup(p)
  PROVE  Memory' = [Memory EXCEPT ![p] = Spaces!Unmapped]
<1>0. /\ pte' = [pte EXCEPT ![p] = [v \in VPages |-> Absent]]
      /\ content' = content /\ pte \in [Procs -> [VPages -> Entries]]
  BY IInvParts, Zenon DEF Cleanup, MemInv
<1>1. /\ \A v \in VPages : pte'[p][v].mode = "absent"
      /\ \A q \in Procs : q # p => pte'[q] = pte[q]
  BY <1>0, Zenon DEF Absent
<1>2. ASSUME NEW q \in Procs, NEW u \in VPages, q # p
      PROVE  Memory'[q][u] = Memory[q][u]
  BY <1>0, <1>1, <1>2, Kept, Zenon
<1>3. \A v \in VPages : Memory'[p][v] = NoPage
  BY <1>1, MemoryFactsNext, Zenon
<1>4. Memory \in [Procs -> Contents] /\ Memory' \in [Procs -> Contents]
  BY MemoryFacts, MemoryFactsNext, Zenon
<1> QED BY <1>2, <1>3, <1>4 DEF Contents, Spaces!Unmapped

-----------------------------------------------------------------------------
(***************************************************************************)
(* The theorems.                                                           *)
(***************************************************************************)
\* Every step changes the memory of the process that takes it only.
LEMMA OwnSteps ==
  ASSUME SharedCopyOut = FALSE, IInv, IInv', Next
  PROVE  OwnStep
<1> SUFFICES ASSUME NEW q \in Procs, NEW u \in VPages, Memory'[q][u] # Memory[q][u]
             PROVE  \/ \E x \in Words : Store(q, u, x) \/ Exec(q, x)
                    \/ TouchHeap(q, u) \/ GrowStack(q, u) \/ Cleanup(q)
                    \/ \E r \in Procs : Fork(r, q)
  BY Zenon DEF OwnStep
<1>T. Memory \in [Procs -> Contents]
  BY MemoryFacts, Zenon
<1> PICK p \in Procs :
      \/ \E v \in VPages, x \in Words : Store(p, v, x) \/ CopyOut(p, v, x)
      \/ \E v \in VPages : SplitShared(p, v) \/ TouchHeap(p, v) \/ GrowStack(p, v)
      \/ \E b \in HeapStart .. StackBase : Brk(p, b)
      \/ \E c \in Procs : Fork(p, c)
      \/ \E x \in Words : Exec(p, x)
      \/ Exit(p) \/ Cleanup(p) \/ Reap(p)
  BY Zenon DEF Next
<1>1. CASE \E v \in VPages, x \in Words : Store(p, v, x) \/ CopyOut(p, v, x)
  <2> PICK v \in VPages, x \in Words : Store(p, v, x) \/ CopyOut(p, v, x)
    BY <1>1, Zenon
  <2>1. Store(p, v, x)
    BY Zenon DEF CopyOut
  <2>2. Memory' = [Memory EXCEPT ![p][v] = x]
    BY <2>1, StoreMemory
  <2>3. q = p /\ u = v
    BY <2>2, <1>T, Zenon DEF Contents
  <2> QED BY <2>1, <2>3, Zenon
<1>2. CASE \E v \in VPages : SplitShared(p, v)
  BY <1>2, SplitMemory, Zenon
<1>3. CASE \E v \in VPages : TouchHeap(p, v) \/ GrowStack(p, v)
  <2> PICK v \in VPages : TouchHeap(p, v) \/ GrowStack(p, v)
    BY <1>3, Zenon
  <2>1. Memory' = [Memory EXCEPT ![p][v] = Zero]
    BY GrowMemory, Zenon
  <2>2. q = p /\ u = v
    BY <2>1, <1>T, Zenon DEF Contents
  <2> QED BY <2>2, Zenon
<1>4. CASE \E c \in Procs : Fork(p, c)
  <2> PICK c \in Procs : Fork(p, c)
    BY <1>4, Zenon
  <2>1. Memory' = [Memory EXCEPT ![c] = Memory[p]]
    BY ForkMemory, Zenon
  <2>2. q = c
    BY <2>1, <1>T, Zenon
  <2> QED BY <2>2, Zenon
<1>5. CASE \E x \in Words : Exec(p, x)
  <2> PICK x \in Words : Exec(p, x)
    BY <1>5, Zenon
  <2>1. Memory' = [Memory EXCEPT ![p] = Spaces!Program(x)]
    BY ExecMemory, Zenon
  <2>2. q = p
    BY <2>1, <1>T, Zenon
  <2> QED BY <2>2, Zenon
<1>6. CASE Cleanup(p)
  <2>1. Memory' = [Memory EXCEPT ![p] = Spaces!Unmapped]
    BY <1>6, CleanupMemory, Zenon
  <2>2. q = p
    BY <2>1, <1>T, Zenon
  <2> QED BY <1>6, <2>2, Zenon
<1>7. CASE (\E b \in HeapStart .. StackBase : Brk(p, b)) \/ Exit(p) \/ Reap(p)
  BY <1>7, SameMemory, Zenon
<1> QED BY <1>1, <1>2, <1>3, <1>4, <1>5, <1>6, <1>7, Zenon

\* A process's memory changes by its own steps only, for any number of
\* processes and pages, when the kernel's own stores avoid pages shared since a
\* fork: the isolation that fork's copy-on-write promises.
THEOREM Isolation ==
  ASSUME SharedCopyOut = FALSE
  PROVE  Spec => OnlyOwnStores
<1>1. IInv /\ IInv' /\ [Next]_vars => [OwnStep]_vars
  BY OwnSteps, Zenon
<1> QED BY <1>1, Invariance, PTL DEF Spec, OnlyOwnStores

\* Every step is a step of AddressSpaces or leaves all memories alone.
LEMMA AbstractSteps ==
  ASSUME SharedCopyOut = FALSE, IInv, IInv', Next
  PROVE  [Spaces!Next]_Memory
<1> PICK p \in Procs :
      \/ \E v \in VPages, x \in Words : Store(p, v, x) \/ CopyOut(p, v, x)
      \/ \E v \in VPages : SplitShared(p, v) \/ TouchHeap(p, v) \/ GrowStack(p, v)
      \/ \E b \in HeapStart .. StackBase : Brk(p, b)
      \/ \E c \in Procs : Fork(p, c)
      \/ \E x \in Words : Exec(p, x)
      \/ Exit(p) \/ Cleanup(p) \/ Reap(p)
  BY Zenon DEF Next
<1>1. CASE \E v \in VPages, x \in Words : Store(p, v, x) \/ CopyOut(p, v, x)
  <2> PICK v \in VPages, x \in Words : Store(p, v, x) \/ CopyOut(p, v, x)
    BY <1>1, Zenon
  <2>1. Store(p, v, x)
    BY Zenon DEF CopyOut
  <2>2. Spaces!Write(p, v, x)
    BY <2>1, StoreMemory DEF Spaces!Write
  <2> QED BY <2>2, Zenon DEF Spaces!Next
<1>2. CASE \E v \in VPages : SplitShared(p, v)
  BY <1>2, SplitMemory, Zenon
<1>3. CASE \E v \in VPages : TouchHeap(p, v) \/ GrowStack(p, v)
  <2> PICK v \in VPages : TouchHeap(p, v) \/ GrowStack(p, v)
    BY <1>3, Zenon
  <2>1. Spaces!Grow(p, v)
    BY GrowMemory, Zenon DEF Spaces!Grow
  <2> QED BY <2>1, Zenon DEF Spaces!Next
<1>4. CASE \E c \in Procs : Fork(p, c)
  <2> PICK c \in Procs : Fork(p, c)
    BY <1>4, Zenon
  <2>1. Spaces!Fork(p, c)
    BY ForkMemory, Zenon DEF Spaces!Fork
  <2> QED BY <2>1, Zenon DEF Spaces!Next
<1>5. CASE \E x \in Words : Exec(p, x)
  <2>1. \E x \in Words : Spaces!Exec(p, x)
    BY <1>5, ExecMemory, Zenon DEF Spaces!Exec
  <2> QED BY <2>1, Zenon DEF Spaces!Next
<1>6. CASE Cleanup(p)
  <2>1. Spaces!Exit(p)
    BY <1>6, CleanupMemory, Zenon DEF Spaces!Exit
  <2> QED BY <2>1, Zenon DEF Spaces!Next
<1>7. CASE (\E b \in HeapStart .. StackBase : Brk(p, b)) \/ Exit(p) \/ Reap(p)
  BY <1>7, SameMemory, Zenon
<1> QED BY <1>1, <1>2, <1>3, <1>4, <1>5, <1>6, <1>7, Zenon

\* The initial states map to initial states of AddressSpaces.
LEMMA AbstractInit == Init => Spaces!Init
<1> SUFFICES ASSUME Init PROVE Spaces!Init
  BY Zenon
<1>1. IInv
  BY InitEstablishes, Zenon
<1>2. 0 \in Procs /\ Memory \in [Procs -> Contents]
  BY <1>1, SlotFacts, MemoryFacts, Zenon
<1>3. \A q \in Procs : q # 0 => maps[q] = {}
  BY Zenon DEF Init
<1>4. \A q \in Procs : q # 0 => Memory[q] = Spaces!Unmapped
  BY <1>1, <1>3, UnusedMemory, Zenon
<1> DEFINE S    == LoadedSlots \cup {Tables, Rsp0}
           none == [pg \in Pages |-> 0]
           zero == [pg \in Pages |-> Zero]
           f    == FirstFree(S, none)
<1>5. /\ f \in [S -> Free(none)] /\ \A s, t \in S : f[s] = f[t] => s = t
      /\ \E x \in Words : content = Filled(f, x, zero)
      /\ pte = [p \in Procs |-> IF p = 0 THEN LoadedPTEs(f)
                                ELSE [v \in VPages |-> Absent]]
  BY Zenon DEF Init, Allocates
<1> HIDE DEF f
<1> PICK x \in Words : content = Filled(f, x, zero)
  BY <1>5, Zenon
<1>6. Assigns(f, S) /\ LoadedSlots \subseteq S /\ zero \in [Pages -> Words]
  BY <1>5, SlotFacts, ConstantsAssumption DEF Assigns, Free, LoadedSlots
<1>7. ASSUME NEW v \in VPages
      PROVE  Memory[0][v] = IF v \in LoadedSlots THEN x ELSE NoPage
  <2>1. pte[0] = LoadedPTEs(f)
    BY <1>2, <1>5, Zenon
  <2> HIDE DEF S, zero
  <2>2. /\ v \in LoadedSlots => /\ LoadedPTEs(f)[v].mode # "absent"
                                /\ Filled(f, x, zero)[LoadedPTEs(f)[v].page] = x
        /\ v \notin LoadedSlots => LoadedPTEs(f)[v].mode = "absent"
    BY ONLY <1>6, x \in Words, v \in VPages, LoadedFacts, Zenon
  <2>3. /\ v \in LoadedSlots => pte[0][v].mode # "absent" /\ content[pte[0][v].page] = x
        /\ v \notin LoadedSlots => pte[0][v].mode = "absent"
    BY <2>1, <2>2, Zenon
  <2> QED BY <1>1, <1>2, <2>3, MemoryFacts, Zenon
<1>8. Memory[0] = Spaces!Program(x)
  BY <1>2, <1>7, Zenon DEF Contents, Spaces!Program
<1>9. Memory = [q \in Procs |-> IF q = 0 THEN Spaces!Program(x) ELSE Spaces!Unmapped]
  BY <1>2, <1>4, <1>8, Zenon
<1> QED BY <1>2, <1>9, Zenon DEF Spaces!Init

\* Pages shared after a fork, split on write and reclaimed on exit implement
\* private address spaces: fork copies, and nobody sees another's stores.
THEOREM Refinement ==
  ASSUME SharedCopyOut = FALSE
  PROVE  Spec => PrivateMemory
<1>1. IInv /\ IInv' /\ [Next]_vars => [Spaces!Next]_Memory
  <2>1. UNCHANGED vars => UNCHANGED Memory
    BY Zenon DEF vars, Memory
  <2> QED BY <2>1, AbstractSteps, Zenon
<1> QED BY <1>1, Invariance, AbstractInit, PTL DEF Spec, PrivateMemory, Spaces!Spec
=============================================================================
