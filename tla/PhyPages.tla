------------------------------ MODULE PhyPages ------------------------------
(***************************************************************************)
(* The table of physical pages (sys/memory/phy_page.c): how phy_page_init  *)
(* builds it from the memory zones the boot loader reports, and the search *)
(* for free pages.  Addresses are counted in pages; the table lies in the  *)
(* first pages of the second zone and has one entry per page of the second *)
(* and the later zones.                                                    *)
(***************************************************************************)
EXTENDS Integers, Sequences, FiniteSetsExt

CONSTANTS
  Zones,      \* the zones, in order: sequence of [base, pages, aligned]
  PageSize,   \* bytes of a page
  EntrySize,  \* sizeof(page_entry)
  MemoryCap   \* MEMORY_CAP, in pages

ASSUME PagesAssumption ==
  /\ Zones \in Seq([base : Nat, pages : Nat \ {0}, aligned : BOOLEAN]) /\ Len(Zones) >= 2
  /\ PageSize \in Nat \ {0} /\ EntrySize \in Nat \ {0} /\ MemoryCap \in Nat

VARIABLES
  zone,    \* the zone phy_page_init is at; Len(Zones) + 1 when it is done
  zone_cursor,
  total,   \* total_space
  table,   \* page_entry_base .. page_entry_end: sequence of [base, used]
  held     \* the entries of the pages that callers of get_phy_page have
pagesVars == <<zone, zone_cursor, total, table, held>>

Free(t) == {k \in DOMAIN t : ~ t[k].used}

\* find_free_page_entry, 0 if there is none
FindFree(t) == IF Free(t) = {} THEN 0 ELSE Min(Free(t))

BrokenIfUsed(t, c) == t[c].used
\* The entry behind which the scan of find_free_page_entry_many starts again.
\* The entry before the first one is kernel memory; the first one is in use.
Broken(t, c) == c = 1 \/ t[c - 1].base + 1 # t[c].base \/ t[c].used

\* The start of the run that find_free_page_entry_many has found when its cursor
\* is at c.
StartsAt(t) ==
  LET starts_at[c \in 1 .. Len(t) + 1] ==
        IF c = 1 THEN 1 ELSE IF Broken(t, c - 1) THEN c ELSE starts_at[c - 1]
  IN  starts_at

\* find_free_page_entry_many: it returns at the first cursor, before the end of
\* the table, with num entries in the run.
FindMany(t, num) ==
  LET stops == {c \in DOMAIN t : c - StartsAt(t)[c] = num}
  IN  IF stops = {} THEN 0 ELSE StartsAt(t)[Min(stops)]

Marked(t, s, num, used) ==
  [k \in DOMAIN t |-> IF k \in s .. s + num - 1 THEN [t[k] EXCEPT !.used = used] ELSE t[k]]

\* One turn of the loops of phy_page_init: an entry is written, and before
\* that, when the table has filled its last page, the lowest free page is
\* taken for the table.
Added(t, page) ==
  LET full == (Len(t) * EntrySize) % PageSize = 0
      free == FindFree(t)
  IN  Append(IF full /\ free # 0 THEN Marked(t, free, 1, TRUE) ELSE t,
             [base |-> page, used |-> FALSE])

PagesInit ==
  /\ zone = 1
  /\ zone_cursor = Zones[1].base
  /\ total = 0
  /\ table = <<>>
  /\ held = {}

InZone ==
  /\ zone <= Len(Zones)
  /\ Zones[zone].aligned
  /\ zone_cursor < Zones[zone].base + Zones[zone].pages
  /\ total <= MemoryCap

\* The entries of the zone before the table's are written at address 0 and
\* are no part of the table.
AddPage ==
  /\ InZone
  /\ table' = IF zone = 1 THEN table ELSE Added(table, zone_cursor)
  /\ zone_cursor' = zone_cursor + 1
  /\ total' = total + 1
  /\ UNCHANGED <<zone, held>>

\* The second zone's first page is the first of the table.
NextZone ==
  /\ zone <= Len(Zones)
  /\ ~ InZone
  /\ zone' = zone + 1
  /\ IF zone + 1 = 2
     THEN /\ table' = <<[base |-> Zones[2].base, used |-> TRUE]>>
          /\ zone_cursor' = Zones[2].base + 1
     ELSE /\ zone_cursor' = IF zone < Len(Zones) THEN Zones[zone + 1].base ELSE zone_cursor
          /\ UNCHANGED table
  /\ UNCHANGED <<total, held>>

\* get_phy_page(num, _).  It also zeroes the first page, which leaves the table
\* alone wherever TableReserved holds.
GetPhyPage(num) ==
  LET s == IF num > 1 THEN FindMany(table, num) ELSE FindFree(table)
  IN  /\ zone > Len(Zones)
      /\ s # 0
      /\ table' = Marked(table, s, num, TRUE)
      /\ held' = held \cup (s .. s + num - 1)
      /\ UNCHANGED <<zone, zone_cursor, total>>

\* A page is given back by its user.
Release(k) ==
  /\ table' = Marked(table, k, 1, FALSE)
  /\ held' = held \ {k}
  /\ UNCHANGED <<zone, zone_cursor, total>>

PagesNext ==
  \/ AddPage
  \/ NextZone
  \/ \E num \in 1 .. 3 : GetPhyPage(num)
  \/ \E k \in held : Release(k)

PagesSpec == PagesInit /\ [][PagesNext]_pagesVars
-----------------------------------------------------------------------------
\* What phy_page_init takes for granted: entries do not straddle pages, and the
\* second zone has room for the table and shares no page with a later one.
ZonesFit ==
  /\ \E n \in 2 .. PageSize : PageSize = n * EntrySize
  /\ Zones[2].aligned /\ (MemoryCap + 2) * EntrySize <= Zones[2].pages * PageSize
  /\ \A z \in 3 .. Len(Zones) :
       \/ Zones[z].base + Zones[z].pages <= Zones[2].base
       \/ Zones[2].base + Zones[2].pages <= Zones[z].base

\* The page has a part of the table.
HoldsTable(page) ==
  page >= Zones[2].base /\ (page - Zones[2].base) * PageSize < Len(table) * EntrySize

\* Once phy_page_init is done, page_entry's used_by is 1 for a page that holds
\* page entries: no such page is ever handed out, so that no caller overwrites
\* the table (phy_page_init, get_phy_page).
TableReserved ==
  zone > Len(Zones) =>
    \A k \in DOMAIN table : HoldsTable(table[k].base) => table[k].used /\ k \notin held

\* find_free_page_entry_many finds the first run of free pages that lie one
\* behind the other, whatever pages were taken and given back before.  It
\* misses a run with the first page of a zone in it, or that ends with the
\* table.
FirstRun(num) ==
  LET runs == {s \in 1 .. Len(table) - num :
                 /\ \A k \in s .. s + num - 1 : ~ table[k].used
                 /\ \A k \in s .. s + num - 1 :
                      table[k].base = table[s].base + (k - s)
                 /\ s > 1 /\ table[s - 1].base + 1 = table[s].base}
  IN  IF runs = {} THEN 0 ELSE Min(runs)
FindsFirstRun == \A num \in 2 .. 3 : FindMany(table, num) = FirstRun(num)

\* The pages that hold the table of pages are never handed out, when the size of a
\* page is a multiple of the size of an entry (phy_page_init, get_phy_page); and
\* the search for several pages finds the first run of free ones, up to the runs it
\* misses by its way to count (find_free_page_entry_many).
PagesHandedOut == TableReserved /\ FindsFirstRun
=============================================================================
