------------------------------ MODULE KMalloc ------------------------------
(***************************************************************************)
(* The kernel heap: sf_malloc, sf_calloc, sf_realloc and sf_free of        *)
(* sys/memory/kmalloc.c, over the break kbrk of sys/memory/phy_page.c.     *)
(*                                                                         *)
(* The heap is counted in units of 16 bytes.  A block of n units starts    *)
(* with a header in the first word of its first unit and ends with a       *)
(* footer in the second word of its last unit; a free block holds its list *)
(* pointers between them.  Other words inside a block are not kept.        *)
(***************************************************************************)
EXTENDS Integers, Sequences, FiniteSets

CONSTANTS
  UnitsPerPage,   \* PAGE_SIZE / 16; 256 in the code
  PagesPerTable,  \* entries of a page table; 512 in the code
  MaxPages,       \* bound: pages the heap may grow to; 1 GB in the code
  Sizes           \* bound: the sizes callers ask for, in bytes

VARIABLES
  heap,   \* tags, list pointers, freelist_head, and where the heap ends
  pts,    \* the page tables below the break: the pages mapped by each
  live    \* what callers hold: pairs of a block and the size asked for

vars == <<heap, pts, live>>

Units == 0 .. UnitsPerPage * MaxPages - 1
Null == -1
NoTag == [alloc |-> -1, size |-> 0]
Tag(a, n) == [alloc |-> a, size |-> n]

\* The units of a block for size bytes, tags included.
Need(size) == (size + 15) \div 16 + 1
Pages(units) == (units + UnitsPerPage - 1) \div UnitsPerPage
-----------------------------------------------------------------------------
(***************************************************************************)
(* kbrk: the break is behind the last page of the last page table; behind  *)
(* a full table a new one begins.                                          *)
(***************************************************************************)
Break(t) == IF t = <<>> THEN 0 ELSE (Len(t) - 1) * PagesPerTable + t[Len(t)]
OnePage(t) ==
  IF t = <<>> \/ t[Len(t)] = PagesPerTable
  THEN Append(t, 1) ELSE [t EXCEPT ![Len(t)] = @ + 1]
RECURSIVE Kbrk(_, _)
Kbrk(t, n) == IF n = 0 THEN t ELSE Kbrk(OnePage(t), n - 1)
-----------------------------------------------------------------------------
(***************************************************************************)
(* Tags and list pointers of a heap h.                                     *)
(***************************************************************************)
Block(h, k, a, n) ==
  LET inside == k .. k + n - 1
      forget(f, none) == [u \in Units |-> IF u \in inside THEN none ELSE f[u]]
  IN  [h EXCEPT !.head = [forget(@, NoTag) EXCEPT ![k] = Tag(a, n)],
                !.foot = [forget(@, NoTag) EXCEPT ![k + n - 1] = Tag(a, n)],
                !.next = forget(@, Null), !.prev = forget(@, Null)]

\* Over the blocks before k, or from k on, whose alloc bit is a.
RECURSIVE Back(_, _, _), Forward(_, _, _)
Back(h, k, a) ==
  IF k = 0 \/ h.foot[k - 1].alloc # a THEN k ELSE Back(h, k - h.foot[k - 1].size, a)
Forward(h, k, a) ==
  IF k = h.end \/ h.head[k].alloc # a THEN k ELSE Forward(h, k + h.head[k].size, a)

\* k goes between the free blocks p and n of the list.
Link(h, p, k, n) ==
  [h EXCEPT
    !.next = [u \in Units |-> IF u = k THEN n ELSE IF u = p THEN k ELSE @[u]],
    !.prev = [u \in Units |-> IF u = k THEN p ELSE IF u = n THEN k ELSE @[u]],
    !.first = IF p = Null THEN k ELSE @]
Unlink(h, p, n) ==
  [h EXCEPT !.next = [u \in Units |-> IF u = p THEN n ELSE @[u]],
            !.prev = [u \in Units |-> IF u = n THEN p ELSE @[u]],
            !.first = IF p = Null THEN n ELSE @]

CoalescedOneBack(h, k, onlyForward) ==
  LET e == Forward(h, k + h.head[k].size, 0)
      last == e - h.foot[e - 1].size
  IN  [heap |-> Link(Block(h, k, 0, e - k), h.prev[k], k, h.next[last]), at |-> k]

\* sf_coalescing: the heap, and where the merged block starts
Coalesced(h, k, onlyForward) ==
  LET p == IF onlyForward THEN k ELSE Back(h, k, 0)
      e == Forward(h, k + h.head[k].size, 0)
      last == e - h.foot[e - 1].size
  IN  [heap |-> Link(Block(h, p, 0, e - p), h.prev[p], p, h.next[last]), at |-> p]

\* sf_allocate: the free block k is taken for n units, the rest stays free if
\* it is large enough for a block.
Allocated(h, k, n) ==
  LET avail == h.head[k].size
      real == IF avail - 2 < n THEN avail ELSE n
      h1 == Block(h, k, 1, real)
  IN  IF real = avail
      THEN Unlink(h1, h.prev[k], h.next[k])
      ELSE Link(Block(h1, k + real, 0, avail - real), h.prev[k], k + real, h.next[k])

\* sf_free_of: the block goes to its place in the list, which is kept in the
\* order of addresses, and is merged with its free neighbours.
Freed(h, k, onlyForward) ==
  LET h1 == Block(h, k, 0, h.head[k].size)
      b == Back(h1, k, 1)
      f == Forward(h1, k + h1.head[k].size, 1)
  IN  Coalesced(Link(h1, IF b = 0 THEN Null ELSE b - h1.foot[b - 1].size, k,
                         IF f = h1.end THEN Null ELSE f),
                k, onlyForward)
-----------------------------------------------------------------------------
(***************************************************************************)
(* sf_malloc: first fit; otherwise the heap grows by pages at the break.   *)
(***************************************************************************)
RECURSIVE FirstFit(_, _, _), LastFree(_, _)
FirstFit(h, c, n) ==
  IF c = Null \/ h.head[c].size >= n THEN c ELSE FirstFit(h, h.next[c], n)
LastFree(h, c) == IF c = Null \/ h.next[c] = Null THEN c ELSE LastFree(h, h.next[c])

\* sf_getMoreSpace: a free block at the end of the heap counts.  The first
\* page gives one unit less.
Shortage(h, n) == IF h.end = 0 THEN n + 1
                  ELSE IF h.foot[h.end - 1].alloc = 0 THEN n - h.foot[h.end - 1].size ELSE n

\* sf_initializeFreeBlock, for pages from unit start on: the new block takes
\* over the word at the old end, and is merged (twice) with what is before it.
Grown(h, start, pages) ==
  LET k == IF start = 0 THEN 0 ELSE start - 1
      n == pages * UnitsPerPage - IF start = 0 THEN 1 ELSE 0
      h1 == [Block(h, k, 0, n) EXCEPT !.end = k + n]
      c == Coalesced(Link(h1, LastFree(h, h.first), k, Null), k, FALSE)
  IN  Coalesced(c.heap, c.at, FALSE)

Mallocked(h, t, n) ==
  LET c == FirstFit(h, h.first, n)
      pages == Pages(Shortage(h, n))
      g == Grown(h, Break(t) * UnitsPerPage, pages)
  IN  IF c # Null
      THEN [heap |-> Allocated(h, c, n), pts |-> t, at |-> c]
      ELSE [heap |-> Allocated(g.heap, g.at, n), pts |-> Kbrk(t, pages), at |-> g.at]

\* The bound on the heap; the code panics when its space is used up.
CanMalloc(h, t, n) ==
  FirstFit(h, h.first, n) # Null \/ Break(t) + Pages(Shortage(h, n)) <= MaxPages

\* sf_malloc and sf_calloc
Malloc(size) ==
  LET m == Mallocked(heap, pts, Need(size)) IN
  /\ CanMalloc(heap, pts, Need(size))
  /\ heap' = m.heap /\ pts' = m.pts
  /\ live' = live \cup {<<m.at, size>>}

Free(k, size) ==
  /\ <<k, size>> \in live
  /\ heap' = Freed(heap, k, FALSE).heap
  /\ live' = live \ {<<k, size>>}
  /\ UNCHANGED pts

(***************************************************************************)
(* sf_realloc                                                              *)
(***************************************************************************)
Old(k) == heap.head[k].size
Avail(k) ==
  LET n == k + Old(k) IN
  IF n # heap.end /\ heap.head[n].alloc = 0
  THEN Old(k) + heap.head[n].size - 1 ELSE Old(k)
ReallocTo(k, old, at, size) == live' = (live \ {<<k, old>>}) \cup {<<at, size>>}

\* The free block behind k is large enough.
ReallocExtends(k, old, size) ==
  /\ <<k, old>> \in live
  /\ Need(size) > Old(k) /\ Avail(k) >= Need(size)
  /\ heap' = Allocated(Freed(heap, k, TRUE).heap, k, Need(size))
  /\ ReallocTo(k, old, k, size)
  /\ UNCHANGED pts

ReallocMoves(k, old, size) ==
  LET m == Mallocked(heap, pts, Need(size)) IN
  /\ <<k, old>> \in live
  /\ Need(size) > Avail(k) /\ CanMalloc(heap, pts, Need(size))
  /\ heap' = Freed(m.heap, k, FALSE).heap /\ pts' = m.pts
  /\ ReallocTo(k, old, m.at, size)

\* What would be left over is too small for a block.
ReallocStays(k, old, size) ==
  /\ <<k, old>> \in live
  /\ Need(size) \in Old(k) - 1 .. Old(k)
  /\ ReallocTo(k, old, k, size)
  /\ UNCHANGED <<heap, pts>>

ReallocShrinks(k, old, size) ==
  LET n == Need(size) IN
  /\ <<k, old>> \in live
  /\ n <= Old(k) - 2
  /\ heap' = Freed(Block(Block(heap, k, 1, n), k + n, 1, Old(k) - n), k + n, FALSE).heap
  /\ ReallocTo(k, old, k, size)
  /\ UNCHANGED pts
-----------------------------------------------------------------------------
Init ==
  /\ heap = [head |-> [u \in Units |-> NoTag], foot |-> [u \in Units |-> NoTag],
             next |-> [u \in Units |-> Null], prev |-> [u \in Units |-> Null],
             first |-> Null, end |-> 0]
  /\ pts = <<>> /\ live = {}

Next ==
  \E size \in Sizes :
    \/ Malloc(size)
    \/ \E k \in Units :
         \/ Free(k, size)
         \/ \E new \in Sizes :
              \/ ReallocExtends(k, size, new) \/ ReallocMoves(k, size, new)
              \/ ReallocStays(k, size, new) \/ ReallocShrinks(k, size, new)

Spec == Init /\ [][Next]_vars
-----------------------------------------------------------------------------
(***************************************************************************)
(* Properties.                                                             *)
(***************************************************************************)
RECURSIVE BlocksFrom(_)
BlocksFrom(k) ==
  IF k >= heap.end \/ heap.head[k].size = 0 THEN {k}
  ELSE {k} \cup BlocksFrom(k + heap.head[k].size)
Starts == BlocksFrom(0) \ {heap.end}
FreeStarts == {k \in Starts : heap.head[k].alloc = 0}

\* The blocks lie one behind the other from the start of the heap to its end,
\* which is the break, and every footer repeats its header.
BlocksFillHeap ==
  /\ heap.end \in BlocksFrom(0)
  /\ heap.end = IF pts = <<>> THEN 0 ELSE Break(pts) * UnitsPerPage - 1
  /\ \A k \in Starts : heap.foot[k + heap.head[k].size - 1] = heap.head[k]

\* Callers hold disjoint blocks, each large enough for what was asked for, and
\* every block that is not free is held by a caller.
CallersHoldBlocks ==
  /\ Cardinality(live) = Cardinality(Starts \ FreeStarts)
  /\ \A l \in live : /\ l[1] \in Starts /\ heap.head[l[1]].alloc = 1
                     /\ (heap.head[l[1]].size - 1) * 16 >= l[2]

\* The list links the free blocks, all of them, in the order of addresses and
\* in both directions, and no two free blocks are neighbours.
FreeListIntact ==
  LET after(k) == {j \in FreeStarts : j > k}
      least(S) == IF S = {} THEN Null ELSE CHOOSE j \in S : \A i \in S : j <= i
  IN
  /\ heap.first = least(FreeStarts)
  /\ \A k \in FreeStarts :
       /\ heap.next[k] = least(after(k))
       /\ heap.next[k] # Null => heap.prev[heap.next[k]] = k
       /\ k + heap.head[k].size \notin FreeStarts
  /\ heap.first # Null => heap.prev[heap.first] = Null
=============================================================================
