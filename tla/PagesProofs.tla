----------------------------- MODULE PagesProofs -----------------------------
(***************************************************************************)
(* PhyPages proved for any memory map: the search for a run of free pages  *)
(* finds the first one, and the pages that the table of pages itself lies  *)
(* in are never handed out, if ZonesFit: entries do not straddle pages,    *)
(* and the table has room in the zone it is put into.                      *)
(***************************************************************************)
EXTENDS PhyPages, SequenceTheorems, WellFoundedInduction, TLAPS

\* A set of numbers has a least member.
LEMMA MinIs ==
  ASSUME NEW S \in SUBSET Nat, S # {}
  PROVE  Min(S) \in S /\ \A k \in S : Min(S) <= k
<1>1. \E f \in S : \A g \in S : ~ (<<g, f>> \in OpToRel(<, Nat))
  BY WFMin, NatLessThanWellFounded, Zenon
<1>2. PICK f \in S : \A g \in S : ~ (<<g, f>> \in OpToRel(<, Nat))
  BY <1>1, Zenon
<1>3. ASSUME NEW g \in S PROVE f <= g
  <2>1. ~ (g < f)
    BY <1>2, Zenon DEF OpToRel
  <2> QED BY <2>1
<1> QED BY <1>3, Zenon DEF Min

\* It is the only one that is below all others.
LEMMA MinUnique ==
  ASSUME NEW S \in SUBSET Nat, NEW m \in S, \A k \in S : m <= k
  PROVE  Min(S) = m
<1>1. S # {}
  OBVIOUS
<1>2. Min(S) \in S /\ Min(S) <= m
  BY <1>1, MinIs, Zenon
<1>3. Min(S) \in Nat /\ m \in Nat /\ m <= Min(S)
  BY <1>2, Zenon
<1> QED BY <1>2, <1>3
-----------------------------------------------------------------------------
(***************************************************************************)
(* The search for several pages.                                           *)
(***************************************************************************)
PageEntries == [base : Nat, used : BOOLEAN]

\* The run before the cursor goes back to the last entry that breaks it.
Back(t, c) == {d \in 0 .. c - 1 : d = c - 1 \/ Broken(t, c - 1 - d)}
RunStart(t, c) == c - Min(Back(t, c))

\* There is always a last one, the start of the table if no entry breaks the run.
LEMMA BackIs ==
  ASSUME NEW t, NEW c \in Nat \ {0}
  PROVE  /\ Back(t, c) \in SUBSET Nat /\ Back(t, c) # {}
         /\ Min(Back(t, c)) \in Back(t, c) /\ \A d \in Back(t, c) : Min(Back(t, c)) <= d
         /\ Min(Back(t, c)) \in 0 .. c - 1
<1>1. Back(t, c) \in SUBSET Nat /\ c - 1 \in Back(t, c)
  BY DEF Back
<1>2. Min(Back(t, c)) \in Back(t, c) /\ \A d \in Back(t, c) : Min(Back(t, c)) <= d
  BY <1>1, MinIs, Zenon
<1>3. Min(Back(t, c)) \in 0 .. c - 1
  BY <1>2, Zenon DEF Back
<1> QED BY <1>1, <1>2, <1>3, Zenon

\* The run before the cursor is unbroken, and cannot be longer.
LEMMA RunStartIs ==
  ASSUME NEW t, NEW c \in Nat \ {0}
  PROVE  /\ RunStart(t, c) \in 1 .. c
         /\ \A b \in RunStart(t, c) .. c - 1 : ~ Broken(t, b)
         /\ RunStart(t, c) = 1 \/ Broken(t, RunStart(t, c) - 1)
<1> DEFINE m == Min(Back(t, c))
           s == RunStart(t, c)
<1>1. m \in Back(t, c) /\ m \in 0 .. c - 1 /\ \A d \in Back(t, c) : m <= d
  BY BackIs, Zenon
<1>2. s = c - m
  BY Zenon DEF RunStart
<1> HIDE DEF m, s
<1>3. s \in 1 .. c /\ s - 1 = c - 1 - m
  BY <1>1, <1>2
<1>4. m = c - 1 \/ Broken(t, c - 1 - m)
  BY <1>1, Zenon DEF Back
<1>5. s = 1 \/ Broken(t, s - 1)
  <2>1. m = c - 1 => s = 1
    BY <1>1, <1>2
  <2> QED BY <1>3, <1>4, <2>1, Zenon
<1>6. ASSUME NEW b \in s .. c - 1, Broken(t, b) PROVE FALSE
  <2> DEFINE d == c - 1 - b
  <2>1. d \in 0 .. c - 1 /\ d < m /\ b = c - 1 - d
    BY <1>1, <1>2, <1>3, <1>6
  <2> HIDE DEF d
  <2>2. d \in Back(t, c)
    BY <1>6, <2>1, Zenon DEF Back
  <2>3. m <= d
    BY <1>1, <2>2, Zenon
  <2> QED BY <1>1, <2>1, <2>3
<1> QED BY <1>3, <1>5, <1>6, Zenon DEF s

\* How it changes when the cursor moves on.
LEMMA RunStartStep ==
  ASSUME NEW t, NEW c \in Nat \ {0}
  PROVE  RunStart(t, c) = IF c = 1 THEN 1
                          ELSE IF Broken(t, c - 1) THEN c ELSE RunStart(t, c - 1)
<1>1. RunStart(t, c) = c - Min(Back(t, c)) /\ Back(t, c) \in SUBSET Nat
  BY BackIs, Zenon DEF RunStart
<1>2. CASE c = 1 \/ Broken(t, c - 1)
  <2>1. 0 \in Back(t, c) /\ \A k \in Back(t, c) : 0 <= k
    <3>1. c - 1 - 0 = c - 1 /\ 0 \in 0 .. c - 1 /\ (c = 1 => 0 = c - 1)
      OBVIOUS
    <3>2. 0 \in Back(t, c)
      BY <1>2, <3>1, Zenon DEF Back
    <3> QED BY <1>1, <3>2
  <2>2. Min(Back(t, c)) = 0
    BY <1>1, <2>1, MinUnique, Zenon
  <2> QED BY <1>1, <1>2, <2>2
<1>3. CASE c # 1 /\ ~ Broken(t, c - 1)
  <2> DEFINE e == c - 1
             m == Min(Back(t, e))
  <2>1. e \in Nat \ {0}
    BY <1>3
  <2>2. m \in Back(t, e) /\ m \in 0 .. e - 1 /\ \A d \in Back(t, e) : m <= d
    BY <2>1, BackIs, Zenon
  <2> HIDE DEF m
  <2>3. m + 1 \in Back(t, c)
    <3>1. m + 1 \in 0 .. c - 1 /\ c - 1 - (m + 1) = e - 1 - m /\ (m = e - 1 => m + 1 = c - 1)
      BY <2>1, <2>2
    <3>2. m = e - 1 \/ Broken(t, e - 1 - m)
      BY <2>2, Zenon DEF Back
    <3> QED BY <3>1, <3>2, Zenon DEF Back
  <2>4. ASSUME NEW k \in Back(t, c) PROVE m + 1 <= k
    <3>1. k \in 0 .. c - 1 /\ (k = c - 1 \/ Broken(t, c - 1 - k))
      BY <2>4, Zenon DEF Back
    <3>2. k # 0
      <4>1. k = 0 => c - 1 - k = c - 1 /\ k # c - 1
        BY <1>3, <3>1
      <4> QED BY <1>3, <3>1, <4>1, Zenon
    <3> DEFINE d == k - 1
    <3>3. d \in 0 .. e - 1 /\ (k = c - 1 => d = e - 1) /\ c - 1 - k = e - 1 - d
      BY <2>1, <3>1, <3>2
    <3>4. d \in Back(t, e)
      BY <3>1, <3>3, Zenon DEF Back
    <3>5. m <= d
      BY <2>2, <3>4, Zenon
    <3> QED BY <2>2, <3>1, <3>5
  <2>5. Min(Back(t, c)) = m + 1
    BY <1>1, <2>3, <2>4, MinUnique, Zenon
  <2>6. RunStart(t, e) = e - m
    BY Zenon DEF RunStart, m
  <2>7. RunStart(t, c) = RunStart(t, e)
    BY <1>1, <2>1, <2>2, <2>5, <2>6
  <2> QED BY <1>3, <2>7, Zenon
<1> QED BY <1>2, <1>3, Zenon

\* The candidate find_free_page_entry_many keeps is the start of that run.
LEMMA StartsAtIs ==
  ASSUME NEW t, Len(t) \in Nat, NEW c \in 1 .. Len(t) + 1
  PROVE  StartsAt(t)[c] = RunStart(t, c)
<1> DEFINE D == 1 .. Len(t) + 1
           Turn(f, i) == IF i = 1 THEN 1 ELSE IF Broken(t, i - 1) THEN i ELSE f[i - 1]
           F(f) == [i \in D |-> Turn(f, i)]
           at == CHOOSE f : f = F(f)
           g == [i \in D |-> RunStart(t, i)]
<1>1. StartsAt(t) = at
  BY DEF StartsAt
<1>2. ASSUME NEW i \in D PROVE i \in Nat \ {0} /\ (i # 1 => i - 1 \in D)
  OBVIOUS
<1>3. ASSUME NEW i \in D PROVE g[i] = Turn(g, i)
  <2>1. i = 1 \/ g[i - 1] = RunStart(t, i - 1)
    BY <1>2, Zenon
  <2>2. g[i] = RunStart(t, i)
    BY Zenon
  <2> QED BY <1>2, <2>1, <2>2, RunStartStep, Zenon
<1>4. g = F(g)
  BY <1>3, Zenon
<1>5. at = F(at)
  BY <1>4, Zenon
<1> HIDE DEF at, g
<1>6. ASSUME NEW i \in D PROVE at[i] = Turn(at, i) /\ g[i] = Turn(g, i)
  BY <1>5, <1>3, Zenon
<1> DEFINE Bad == {i \in D : at[i] # g[i]}
<1>7. ASSUME Bad # {} PROVE FALSE
  <2>1. Bad \in SUBSET Nat
    OBVIOUS
  <2>2. Min(Bad) \in Bad /\ \A k \in Bad : Min(Bad) <= k
    BY <1>7, <2>1, MinIs, Zenon
  <2> DEFINE i == Min(Bad)
  <2>3. i \in D /\ at[i] # g[i]
    BY <2>2, Zenon
  <2> HIDE DEF i
  <2>4. i # 1 /\ at[i - 1] # g[i - 1] /\ i - 1 \in D
    BY <1>2, <1>6, <2>3, Zenon
  <2>5. i <= i - 1
    BY <2>2, <2>4, Zenon DEF i
  <2> QED BY <2>3, <2>5
<1> QED BY <1>1, <1>7, Zenon DEF g
-----------------------------------------------------------------------------
RunsOf(t, num) == {s \in 1 .. Len(t) - num : \A k \in s .. s + num - 1 : ~ Broken(t, k)}

\* The loops of find_free_page_entry_many return the first run of num entries
\* that has an entry behind it.
LEMMA FindManyIs ==
  ASSUME NEW t \in Seq(PageEntries), NEW num \in Nat \ {0}
  PROVE  FindMany(t, num) = IF RunsOf(t, num) = {} THEN 0 ELSE Min(RunsOf(t, num))
<1> DEFINE n == Len(t)
           stops == {c \in DOMAIN t : c - StartsAt(t)[c] = num}
<1>1. n \in Nat /\ DOMAIN t = 1 .. n
  BY LenProperties, Zenon
<1> HIDE DEF n
<1>2. ASSUME NEW c \in 1 .. n
      PROVE  /\ StartsAt(t)[c] = RunStart(t, c)
             /\ RunStart(t, c) \in 1 .. c
             /\ \A b \in RunStart(t, c) .. c - 1 : ~ Broken(t, b)
             /\ RunStart(t, c) = 1 \/ Broken(t, RunStart(t, c) - 1)
  <2>1. c \in 1 .. n + 1 /\ c \in Nat \ {0}
    BY <1>1
  <2> QED BY <1>1, <2>1, StartsAtIs, RunStartIs, Zenon DEF n
<1>3. Broken(t, 1)
  BY DEF Broken
<1>4. ASSUME NEW c \in stops PROVE RunStart(t, c) \in RunsOf(t, num) /\ c = RunStart(t, c) + num
  <2>1. c \in 1 .. n /\ c - StartsAt(t)[c] = num
    BY <1>1, <1>4, Zenon
  <2>2. /\ c - RunStart(t, c) = num /\ RunStart(t, c) \in 1 .. c
        /\ \A b \in RunStart(t, c) .. c - 1 : ~ Broken(t, b)
    BY <1>2, <2>1, Zenon
  <2>3. c = RunStart(t, c) + num /\ RunStart(t, c) \in 1 .. n - num
        /\ RunStart(t, c) + num - 1 = c - 1
    BY <1>1, <2>1, <2>2
  <2> QED BY <2>2, <2>3, Zenon DEF RunsOf, n
<1>5. ASSUME NEW s \in RunsOf(t, num)
      PROVE  \E c \in stops : c <= s + num
  <2>1. s \in 1 .. n - num /\ \A k \in s .. s + num - 1 : ~ Broken(t, k)
    BY <1>5, Zenon DEF RunsOf, n
  <2> DEFINE e == s + num
             u == RunStart(t, e)
             c == u + num
  <2>2. e \in 1 .. n /\ e \in Nat \ {0} /\ e - 1 = s + num - 1
    BY <1>1, <2>1
  <2>3. u \in 1 .. e /\ (\A b \in u .. e - 1 : ~ Broken(t, b)) /\ (u = 1 \/ Broken(t, u - 1))
    BY <1>2, <2>2, Zenon
  <2> HIDE DEF u
  <2>4. u <= s
    <3>1. ASSUME u > s PROVE FALSE
      <4>1. u - 1 \in s .. s + num - 1 /\ u # 1
        BY <2>1, <2>2, <2>3, <3>1
      <4> QED BY <2>1, <2>3, <4>1, Zenon
    <3> QED BY <2>1, <2>3, <3>1
  <2>5. u # 1
    <3>1. u = 1 => 1 \in u .. e - 1
      BY <2>1, <2>2
    <3> QED BY <1>3, <2>3, <3>1, Zenon
  <2>6. c \in 1 .. n /\ c <= e /\ c - 1 <= e - 1
    BY <1>1, <2>1, <2>2, <2>3, <2>4
  <2> DEFINE v == RunStart(t, c)
  <2>7. v \in 1 .. c /\ (\A b \in v .. c - 1 : ~ Broken(t, b)) /\ (v = 1 \/ Broken(t, v - 1))
        /\ StartsAt(t)[c] = v
    BY <1>2, <2>6, Zenon
  <2> HIDE DEF v
  <2>8. v <= u
    <3>1. ASSUME v > u PROVE FALSE
      <4>1. v - 1 \in u .. e - 1 /\ v # 1
        BY <2>2, <2>3, <2>6, <2>7, <3>1
      <4> QED BY <2>3, <2>7, <4>1, Zenon
    <3> QED BY <2>3, <2>7, <3>1
  <2>9. v >= u
    <3>1. ASSUME v < u PROVE FALSE
      <4>1. u - 1 \in v .. c - 1
        BY <2>3, <2>7, <3>1
      <4> QED BY <2>3, <2>5, <2>7, <4>1, Zenon
    <3> QED BY <2>3, <2>7, <3>1
  <2>10. c - StartsAt(t)[c] = num
    BY <2>3, <2>7, <2>8, <2>9
  <2> QED BY <1>1, <2>6, <2>10, Zenon
<1>6. stops \in SUBSET Nat
  BY <1>1
<1>7. FindMany(t, num) = IF stops = {} THEN 0 ELSE StartsAt(t)[Min(stops)]
  BY Zenon DEF FindMany
<1>8. CASE stops = {}
  <2>1. RunsOf(t, num) = {}
    BY <1>5, <1>8, Zenon
  <2> QED BY <1>7, <1>8, <2>1, Zenon
<1>9. CASE stops # {}
  <2> DEFINE c == Min(stops)
             s == RunStart(t, c)
  <2>1. c \in stops /\ \A d \in stops : c <= d
    BY <1>6, <1>9, MinIs, Zenon
  <2>2. s \in RunsOf(t, num) /\ c = s + num
    BY <1>4, <2>1, Zenon
  <2>3. StartsAt(t)[c] = s
    BY <1>1, <1>2, <2>1, Zenon
  <2> HIDE DEF c, s, stops
  <2>4. RunsOf(t, num) \in SUBSET Nat
    BY <1>1 DEF RunsOf, n
  <2>5. ASSUME NEW r \in RunsOf(t, num) PROVE s <= r
    <3>1. PICK d \in stops : d <= r + num
      BY <1>5, Zenon
    <3>2. c <= d /\ d \in Nat /\ r \in Nat /\ s \in Nat
      BY <1>6, <2>1, <2>2, <2>4, Zenon
    <3> QED BY <2>2, <3>1, <3>2
  <2>6. Min(RunsOf(t, num)) = s
    BY <2>2, <2>4, <2>5, MinUnique, Zenon
  <2> QED BY <1>7, <1>9, <2>2, <2>3, <2>6, Zenon DEF c
<1> QED BY <1>8, <1>9, Zenon

\* Runs, in the words of the property.
LEMMA RunsAre ==
  ASSUME table \in Seq(PageEntries), NEW num \in Nat \ {0}
  PROVE  FindMany(table, num) = FirstRun(num)
<1> DEFINE n == Len(table)
           Together(s) ==
             /\ \A k \in s .. s + num - 1 : ~ table[k].used
             /\ \A k \in s .. s + num - 1 : table[k].base = table[s].base + (k - s)
             /\ s > 1 /\ table[s - 1].base + 1 = table[s].base
           runs == {s \in 1 .. n - num : Together(s)}
<1>1. n \in Nat /\ \A k \in 1 .. n : table[k].base \in Nat /\ table[k].used \in BOOLEAN
  <2>1. n \in Nat
    BY LenProperties, Zenon
  <2>2. \A k \in 1 .. n : table[k] \in PageEntries
    BY ElementOfSeq, Zenon
  <2> QED BY <2>1, <2>2 DEF PageEntries
<1> HIDE DEF n
<1>2. ASSUME NEW s \in 1 .. n - num, \A k \in s .. s + num - 1 : ~ Broken(table, k)
      PROVE  Together(s)
  <2>1. ASSUME NEW k \in s .. s + num - 1
        PROVE  /\ k # 1 /\ table[k - 1].base + 1 = table[k].base /\ ~ table[k].used
               /\ k \in 1 .. n /\ k - 1 \in 1 .. n /\ k - s \in Nat
    BY <1>1, <1>2 DEF Broken
  <2>2. s \in s .. s + num - 1
    OBVIOUS
  <2> DEFINE Bad == {k \in s .. s + num - 1 : table[k].base # table[s].base + (k - s)}
  <2>3. ASSUME Bad # {} PROVE FALSE
    <3>1. Bad \in SUBSET Nat
      OBVIOUS
    <3>2. Min(Bad) \in Bad /\ \A k \in Bad : Min(Bad) <= k
      BY <2>3, <3>1, MinIs, Zenon
    <3> DEFINE m == Min(Bad)
    <3>3. m \in s .. s + num - 1 /\ table[m].base # table[s].base + (m - s)
      BY <3>2, Zenon
    <3> HIDE DEF m
    <3>4. m # s
      BY <1>1, <2>1, <2>2, <3>3
    <3>5. m - 1 \in s .. s + num - 1 /\ ~ (m <= m - 1)
      BY <3>3, <3>4
    <3>6. m - 1 \notin Bad
      BY <3>2, <3>5, Zenon DEF m
    <3>7. table[m - 1].base = table[s].base + (m - 1 - s)
      BY <3>5, <3>6, Zenon
    <3>8. table[m - 1].base + 1 = table[m].base /\ table[s].base \in Nat
      BY <1>1, <2>1, <2>2, <3>3, Zenon
    <3>9. m \in Int /\ s \in Int
      BY <1>1, <3>3
    <3> QED BY ONLY <3>3, <3>7, <3>8, <3>9
  <2>4. \A k \in s .. s + num - 1 : table[k].base = table[s].base + (k - s)
    BY <2>3, Zenon
  <2>5. s > 1 /\ table[s - 1].base + 1 = table[s].base
    BY <2>1, <2>2
  <2> QED BY <2>1, <2>4, <2>5, Zenon
<1>3. ASSUME NEW s \in 1 .. n - num, Together(s), NEW k \in s .. s + num - 1
      PROVE  ~ Broken(table, k)
  <2>1. /\ k > 1 /\ ~ table[k].used /\ table[k].base = table[s].base + (k - s)
        /\ table[s].base \in Nat
    BY <1>1, <1>3
  <2>2. CASE k = s
    BY <1>3, <2>1, <2>2 DEF Broken
  <2>3. CASE k # s
    <3>1. k - 1 \in s .. s + num - 1
      BY <1>3, <2>3
    <3>2. table[k - 1].base = table[s].base + (k - 1 - s)
      BY <1>3, <3>1, Zenon
    <3>3. table[k - 1].base + 1 = table[k].base
      BY <2>1, <3>2
    <3> QED BY <2>1, <3>3 DEF Broken
  <2> QED BY <2>2, <2>3, Zenon
<1>4. runs = RunsOf(table, num)
  <2> HIDE DEF Together
  <2> QED BY <1>2, <1>3, Zenon DEF RunsOf, n
<1>5. FirstRun(num) = IF runs = {} THEN 0 ELSE Min(runs)
  BY Zenon DEF FirstRun, n
<1> QED BY <1>4, <1>5, FindManyIs, Zenon
-----------------------------------------------------------------------------
(***************************************************************************)
(* The table.                                                              *)
(***************************************************************************)
\* Table m is t with the entries s .. s + num - 1 set to used.
SetIn(m, t, s, num, used) ==
  /\ m \in Seq(PageEntries) /\ Len(m) = Len(t)
  /\ \A k \in DOMAIN t :
       /\ m[k].base = t[k].base
       /\ k \in s .. s + num - 1 => m[k].used = used
       /\ k \notin s .. s + num - 1 => m[k] = t[k]

\* Marking changes the use of the entries of a run, and nothing else.
LEMMA MarkedIs ==
  ASSUME NEW t \in Seq(PageEntries), NEW s, NEW num, NEW used \in BOOLEAN
  PROVE  SetIn(Marked(t, s, num, used), t, s, num, used)
<1> DEFINE n == Len(t)
           m == Marked(t, s, num, used)
<1>1. n \in Nat /\ DOMAIN t = 1 .. n /\ \A k \in 1 .. n : t[k] \in PageEntries
  BY LenProperties, ElementOfSeq
<1>2. m = [k \in 1 .. n |-> IF k \in s .. s + num - 1 THEN [t[k] EXCEPT !.used = used] ELSE t[k]]
  BY <1>1, Zenon DEF Marked
<1> HIDE DEF m, n
<1>3. DOMAIN m = 1 .. n
  BY <1>2, Zenon
<1>4. ASSUME NEW k \in 1 .. n
      PROVE  /\ m[k] \in PageEntries /\ m[k].base = t[k].base
             /\ k \in s .. s + num - 1 => m[k].used = used
             /\ k \notin s .. s + num - 1 => m[k] = t[k]
  <2>1. m[k] = IF k \in s .. s + num - 1 THEN [t[k] EXCEPT !.used = used] ELSE t[k]
    BY <1>2, Zenon
  <2>2. t[k] \in PageEntries
    BY <1>1, Zenon
  <2>3. CASE k \in s .. s + num - 1
    <3>1. m[k] = [t[k] EXCEPT !.used = used]
      BY <2>1, <2>3, Zenon
    <3> QED BY ONLY <2>2, <2>3, <3>1, used \in BOOLEAN DEF PageEntries
  <2>4. CASE k \notin s .. s + num - 1
    BY <2>1, <2>2, <2>4, Zenon
  <2> QED BY <2>3, <2>4, Zenon
<1>5. m \in [1 .. n -> PageEntries]
  BY <1>2, <1>4, Zenon
<1>6. m \in Seq(PageEntries) /\ Len(m) = n
  BY <1>1, <1>5
<1> QED BY <1>1, <1>3, <1>4, <1>6, Zenon DEF m, n, SetIn

\* What find_free_page_entry returns is free.
LEMMA FindFreeIs ==
  ASSUME NEW t \in Seq(PageEntries), FindFree(t) # 0
  PROVE  FindFree(t) \in 1 .. Len(t) /\ ~ t[FindFree(t)].used
<1>1. Free(t) # {} /\ FindFree(t) = Min(Free(t))
  BY Zenon DEF FindFree
<1>2. DOMAIN t = 1 .. Len(t) /\ Len(t) \in Nat
  BY LenProperties, Zenon
<1>3. Free(t) \in SUBSET Nat
  BY <1>2 DEF Free
<1>4. FindFree(t) \in Free(t)
  BY <1>1, <1>3, MinIs, Zenon
<1> QED BY <1>2, <1>4, Zenon DEF Free

\* get_phy_page gets pages that are free.
LEMMA GotFree ==
  ASSUME NEW t \in Seq(PageEntries), NEW num \in 1 .. 3, NEW s,
         s = (IF num > 1 THEN FindMany(t, num) ELSE FindFree(t)), s # 0
  PROVE  /\ s \in 1 .. Len(t) /\ s + num - 1 \in 1 .. Len(t)
         /\ \A k \in s .. s + num - 1 : k \in 1 .. Len(t) /\ ~ t[k].used
<1>1. Len(t) \in Nat
  BY LenProperties, Zenon
<1>2. CASE num > 1
  <2>0. num \in Nat \ {0}
    OBVIOUS
  <2>1. RunsOf(t, num) # {} /\ s = Min(RunsOf(t, num))
    BY <1>2, <2>0, FindManyIs, Zenon
  <2>2. RunsOf(t, num) \in SUBSET Nat
    BY <1>1 DEF RunsOf
  <2>3. s \in RunsOf(t, num)
    BY <2>1, <2>2, MinIs, Zenon
  <2>4. s \in 1 .. Len(t) - num /\ \A k \in s .. s + num - 1 : ~ Broken(t, k)
    BY <2>3, Zenon DEF RunsOf
  <2>5. \A k \in s .. s + num - 1 : ~ t[k].used
    BY <2>4, Zenon DEF Broken
  <2>6. s \in 1 .. Len(t) /\ s + num - 1 \in 1 .. Len(t)
        /\ \A k \in s .. s + num - 1 : k \in 1 .. Len(t)
    BY <1>1, <2>4
  <2> QED BY <2>5, <2>6, Zenon
<1>3. CASE ~ (num > 1)
  <2>1. s \in 1 .. Len(t) /\ ~ t[s].used
    BY <1>3, FindFreeIs, Zenon
  <2>2. num = 1
    BY <1>3
  <2>3. s + num - 1 = s /\ \A k \in s .. s + num - 1 : k = s
    BY <1>1, <2>1, <2>2
  <2> QED BY <2>1, <2>3, Zenon
<1> QED BY <1>2, <1>3, Zenon
-----------------------------------------------------------------------------
\* Products by a common factor are in the order of what is multiplied.
LEMMA TimesLess ==
  ASSUME NEW a \in Int, NEW b \in Int, NEW m \in Nat \ {0}, a * m < b * m
  PROVE  a < b
  OBVIOUS

\* And the other way round.
LEMMA TimesLeq ==
  ASSUME NEW a \in Int, NEW b \in Int, NEW m \in Nat, a <= b
  PROVE  a * m <= b * m
  OBVIOUS

\* A multiple has no remainder.
LEMMA TimesMod ==
  ASSUME NEW a \in Nat, NEW m \in Nat \ {0}
  PROVE  (a * m) % m = 0
  OBVIOUS

\* Between two multiples there is none.
LEMMA BetweenMod ==
  ASSUME NEW a \in Nat, NEW q \in Nat, NEW m \in Nat \ {0}, q * m < a, a < (q + 1) * m
  PROVE  a % m # 0
<1> SUFFICES ASSUME a % m = 0 PROVE FALSE
  OBVIOUS
<1> DEFINE d == a \div m
<1>1. d \in Int /\ a = d * m
  OBVIOUS
<1> HIDE DEF d
<1>2. q < d /\ d < q + 1
  BY <1>1, TimesLess
<1> QED BY <1>1, <1>2
-----------------------------------------------------------------------------
PagesTypes ==
  /\ zone \in 1 .. Len(Zones) + 1 /\ zone_cursor \in Nat /\ total \in Nat
  /\ table \in Seq(PageEntries) /\ held \subseteq 1 .. Len(table)
  /\ zone <= Len(Zones) => held = {}

\* The fields of a zone.
LEMMA ZonesAre ==
  /\ Len(Zones) \in Nat /\ Len(Zones) >= 2
  /\ \A z \in 1 .. Len(Zones) :
       Zones[z].base \in Nat /\ Zones[z].pages \in Nat \ {0} /\ Zones[z].aligned \in BOOLEAN
<1>1. /\ Zones \in Seq([base : Nat, pages : Nat \ {0}, aligned : BOOLEAN])
      /\ Len(Zones) >= 2 /\ Len(Zones) \in Nat
  BY PagesAssumption, LenProperties, Zenon
<1>2. \A z \in 1 .. Len(Zones) : Zones[z] \in [base : Nat, pages : Nat \ {0}, aligned : BOOLEAN]
  BY <1>1, ElementOfSeq, Zenon
<1> QED BY <1>1, <1>2

\* A table with one more entry.
LEMMA AppendIs ==
  ASSUME NEW t \in Seq(PageEntries), NEW e \in PageEntries
  PROVE  /\ Append(t, e) \in Seq(PageEntries) /\ Len(Append(t, e)) = Len(t) + 1
         /\ \A k \in 1 .. Len(t) : Append(t, e)[k] = t[k]
         /\ Append(t, e)[Len(t) + 1] = e
  BY AppendProperties

\* What an added entry leaves as it was.
LEMMA AddedIs ==
  ASSUME NEW t \in Seq(PageEntries), NEW page \in Nat
  PROVE  /\ Added(t, page) \in Seq(PageEntries) /\ Len(Added(t, page)) = Len(t) + 1
         /\ \A k \in 1 .. Len(t) : Added(t, page)[k].base = t[k].base
         /\ Added(t, page)[Len(t) + 1] = [base |-> page, used |-> FALSE]
<1> DEFINE e == [base |-> page, used |-> FALSE]
           m == Marked(t, FindFree(t), 1, TRUE)
           b == IF (Len(t) * EntrySize) % PageSize = 0 /\ FindFree(t) # 0 THEN m ELSE t
<1>1. e \in PageEntries
  BY DEF PageEntries
<1>2. m \in Seq(PageEntries) /\ Len(m) = Len(t) /\ \A k \in 1 .. Len(t) : m[k].base = t[k].base
  <2>1. DOMAIN t = 1 .. Len(t)
    BY LenProperties, Zenon
  <2>2. TRUE \in BOOLEAN
    OBVIOUS
  <2>3. SetIn(m, t, FindFree(t), 1, TRUE)
    BY <2>2, MarkedIs, Zenon
  <2> QED BY <2>1, <2>3, Zenon DEF SetIn
<1>3. Added(t, page) = Append(b, e)
  BY Zenon DEF Added
<1>4. b \in Seq(PageEntries) /\ Len(b) = Len(t) /\ \A k \in 1 .. Len(t) : b[k].base = t[k].base
  BY <1>2, Zenon
<1> HIDE DEF b, e
<1>5. /\ Append(b, e) \in Seq(PageEntries) /\ Len(Append(b, e)) = Len(b) + 1
      /\ \A k \in 1 .. Len(b) : Append(b, e)[k] = b[k]
      /\ Append(b, e)[Len(b) + 1] = e
  BY <1>1, <1>4, AppendIs, Zenon
<1>6. /\ Append(b, e) \in Seq(PageEntries) /\ Len(Append(b, e)) = Len(t) + 1
      /\ \A k \in 1 .. Len(t) : Append(b, e)[k].base = t[k].base
      /\ Append(b, e)[Len(t) + 1] = e
  BY ONLY <1>4, <1>5
<1> QED BY <1>3, <1>6, Zenon DEF e

\* The table begins empty.
LEMMA PagesTypesInitially == PagesInit => PagesTypes
<1> SUFFICES ASSUME PagesInit PROVE PagesTypes
  OBVIOUS
<1>1. Zones[1].base \in Nat /\ 1 \in 1 .. Len(Zones) + 1
  BY ZonesAre
<1> QED BY <1>1 DEF PagesInit, PagesTypes

\* And stays a table.
LEMMA PagesTypesKept == PagesTypes /\ [PagesNext]_pagesVars => PagesTypes'
<1> SUFFICES ASSUME PagesTypes, [PagesNext]_pagesVars PROVE PagesTypes'
  OBVIOUS
<1>0. Len(table) \in Nat /\ DOMAIN table = 1 .. Len(table)
  BY LenProperties, Zenon DEF PagesTypes
<1>1. CASE AddPage
  <2>1. zone \in 1 .. Len(Zones) + 1 /\ zone_cursor + 1 \in Nat /\ total + 1 \in Nat
    BY DEF PagesTypes
  <2>2. /\ Added(table, zone_cursor) \in Seq(PageEntries)
        /\ Len(Added(table, zone_cursor)) = Len(table) + 1
    BY AddedIs, Zenon DEF PagesTypes
  <2>3. table' \in Seq(PageEntries) /\ (Len(table') = Len(table) \/ Len(table') = Len(table) + 1)
    BY <1>1, <2>2, Zenon DEF AddPage, PagesTypes
  <2>4. held' \subseteq 1 .. Len(table')
    BY <1>0, <1>1, <2>3 DEF AddPage, PagesTypes
  <2> QED BY <1>1, <2>1, <2>3, <2>4, Zenon DEF AddPage, PagesTypes
<1>2. CASE NextZone
  <2>1. zone + 1 \in 1 .. Len(Zones) + 1 /\ (zone < Len(Zones) => zone + 1 \in 1 .. Len(Zones))
        /\ 2 \in 1 .. Len(Zones) /\ (zone + 1 = 2 => zone = 1)
    BY <1>2, ZonesAre DEF NextZone, PagesTypes
  <2>2. CASE zone + 1 = 2
    <3>1. Zones[2].base \in Nat /\ Zones[2].base + 1 \in Nat
      BY <2>1, ZonesAre
    <3>2. [base |-> Zones[2].base, used |-> TRUE] \in PageEntries
      BY <3>1 DEF PageEntries
    <3> DEFINE e == [base |-> Zones[2].base, used |-> TRUE]
    <3>3. table' = <<e>> /\ zone_cursor' = Zones[2].base + 1 /\ zone' = zone + 1 /\ total' = total
          /\ held' = held
      BY <1>2, <2>2 DEF NextZone
    <3> HIDE DEF e
    <3>4. <<e>> \in Seq(PageEntries) /\ Len(<<e>>) = 1
      BY <3>2 DEF e
    <3>5. held = {} /\ held \subseteq 1 .. 1
      BY <1>2 DEF NextZone, PagesTypes
    <3> QED BY <2>1, <3>1, <3>3, <3>4, <3>5, Zenon DEF PagesTypes
  <2>3. CASE zone + 1 # 2
    <3>1. zone_cursor' \in Nat
      BY <1>2, <2>1, <2>3, ZonesAre DEF NextZone, PagesTypes
    <3> QED BY <1>2, <2>1, <2>3, <3>1, Zenon DEF NextZone, PagesTypes
  <2> QED BY <2>2, <2>3, Zenon
<1>3. ASSUME NEW num \in 1 .. 3, GetPhyPage(num) PROVE PagesTypes'
  <2> DEFINE s == IF num > 1 THEN FindMany(table, num) ELSE FindFree(table)
  <2>1. /\ zone > Len(Zones) /\ s # 0 /\ table' = Marked(table, s, num, TRUE)
        /\ held' = held \cup (s .. s + num - 1)
        /\ zone' = zone /\ zone_cursor' = zone_cursor /\ total' = total
    BY <1>3, Zenon DEF GetPhyPage
  <2>2. table \in Seq(PageEntries)
    BY Zenon DEF PagesTypes
  <2>3. \A k \in s .. s + num - 1 : k \in 1 .. Len(table)
    BY <2>1, <2>2, GotFree, Zenon
  <2> HIDE DEF s
  <2>4. TRUE \in BOOLEAN
    OBVIOUS
  <2>5. table' \in Seq(PageEntries) /\ Len(table') = Len(table)
    <3>1. SetIn(table', table, s, num, TRUE)
      BY <2>1, <2>2, <2>4, MarkedIs, Zenon
    <3> QED BY <3>1, Zenon DEF SetIn
  <2>6. held' \subseteq 1 .. Len(table')
    BY <2>1, <2>3, <2>5, Zenon DEF PagesTypes
  <2>7. ~ (zone <= Len(Zones))
    BY <2>1, ZonesAre DEF PagesTypes
  <2> QED BY <2>1, <2>5, <2>6, <2>7, Zenon DEF PagesTypes
<1>4. ASSUME NEW k \in held, Release(k) PROVE PagesTypes'
  <2>1. FALSE \in BOOLEAN /\ table \in Seq(PageEntries)
    BY DEF PagesTypes
  <2>2. table' \in Seq(PageEntries) /\ Len(table') = Len(table)
    <3>1. SetIn(table', table, k, 1, FALSE)
      BY <1>4, <2>1, MarkedIs, Zenon DEF Release
    <3> QED BY <3>1, Zenon DEF SetIn
  <2> QED BY <1>4, <2>2, Zenon DEF Release, PagesTypes
<1>5. CASE UNCHANGED pagesVars
  BY <1>5, Zenon DEF pagesVars, PagesTypes
<1> QED BY <1>1, <1>2, <1>3, <1>4, <1>5, Zenon DEF PagesNext

\* The search for several pages finds the first run of free pages, from every
\* table that calls can reach (find_free_page_entry_many, get_phy_page).
THEOREM FirstRunFound == PagesSpec => []FindsFirstRun
<1>1. PagesTypes => FindsFirstRun
  <2> SUFFICES ASSUME PagesTypes, NEW num \in 2 .. 3 PROVE FindMany(table, num) = FirstRun(num)
    BY Zenon DEF FindsFirstRun
  <2>1. num \in Nat \ {0} /\ table \in Seq(PageEntries)
    BY DEF PagesTypes
  <2> QED BY <2>1, RunsAre, Zenon
<1> QED BY <1>1, PagesTypesInitially, PagesTypesKept, PTL DEF PagesSpec
-----------------------------------------------------------------------------
(***************************************************************************)
(* The pages of the table are its first entries.  N is the number of       *)
(* entries in a page, the first T entries are those of the table's pages.  *)
(***************************************************************************)
\* The table fills T pages, the last one perhaps in part.
Fills(t, N, T) == (T - 1) * N < Len(t) /\ Len(t) <= T * N

\* What the entries say: the second zone comes first in the table.
Listed(t) ==
  \A k \in 1 .. Len(t) :
    IF k <= Zones[2].pages THEN t[k].base = Zones[2].base + k - 1
    ELSE t[k].base < Zones[2].base \/ t[k].base >= Zones[2].base + Zones[2].pages

Reserved(t, h, T) == \A k \in 1 .. Len(t) : k <= T => t[k].used /\ k \notin h
RestFree(t, T) == \A k \in 1 .. Len(t) : k > T => ~ t[k].used

TableInv(N) ==
  /\ PagesTypes
  /\ zone = 1 => table = <<>>
  /\ Len(table) <= total + 1 /\ total <= MemoryCap + 1
  /\ zone = 2 => zone_cursor = Zones[2].base + Len(table) /\ Len(table) <= Zones[2].pages
  /\ zone \in 3 .. Len(Zones) =>
       zone_cursor >= Zones[zone].base /\ (Len(table) >= Zones[2].pages \/ total > MemoryCap)
  /\ Listed(table)
  /\ zone >= 2 => \E T \in Nat \ {0} :
       Fills(table, N, T) /\ Reserved(table, held, T)
         /\ (zone <= Len(Zones) => RestFree(table, T))

\* phy_page_init takes the next page for the table when the last one is full.
LEMMA AddedKeeps ==
  ASSUME NEW t \in Seq(PageEntries), NEW page \in Nat, NEW N \in Nat, N >= 2,
         PageSize = N * EntrySize, NEW T \in Nat \ {0},
         Fills(t, N, T), Reserved(t, {}, T), RestFree(t, T)
  PROVE  \E U \in Nat \ {0} :
           /\ Fills(Added(t, page), N, U) /\ Reserved(Added(t, page), {}, U)
           /\ RestFree(Added(t, page), U)
<1> DEFINE a == Added(t, page)
           n == Len(t)
           e == [base |-> page, used |-> FALSE]
<1>1. n \in Nat /\ DOMAIN t = 1 .. n /\ e \in PageEntries /\ e.used = FALSE
  <2>1. n \in Nat /\ DOMAIN t = 1 .. n
    BY LenProperties, Zenon
  <2> QED BY <2>1 DEF PageEntries
<1>2. (T - 1) * N < n /\ n <= T * N
  BY Zenon DEF Fills
<1>3. T <= n
  <2>1. T - 1 <= (T - 1) * N
    <3>1. T - 1 \in Nat /\ 1 <= N
      OBVIOUS
    <3>2. 1 * (T - 1) <= N * (T - 1)
      BY <3>1, TimesLeq
    <3> QED BY <3>1, <3>2
  <2> QED BY <1>1, <1>2, <2>1
<1>4. CASE n = T * N
  <2>1. (n * EntrySize) % PageSize = 0
    <3>1. n * EntrySize = T * PageSize
      BY <1>4, PagesAssumption
    <3> QED BY <3>1, TimesMod, PagesAssumption
  <2>2. T + 1 <= n /\ T + 1 \in 1 .. n
    <3>1. 2 * T <= N * T
      BY TimesLeq
    <3> QED BY <1>1, <1>4, <3>1
  <2>3. FindFree(t) = T + 1
    <3>1. Free(t) \in SUBSET Nat
      BY <1>1 DEF Free
    <3>2. T + 1 \in Free(t)
      <4>1. T + 1 > T
        OBVIOUS
      <4> QED BY <1>1, <2>2, <4>1, Zenon DEF Free, RestFree
    <3>3. \A k \in Free(t) : T + 1 <= k
      <4>1. ASSUME NEW k \in Free(t) PROVE ~ (k <= T) /\ k \in Nat
        BY <1>1, <3>1, Zenon DEF Free, Reserved
      <4> QED BY <4>1
    <3>4. Min(Free(t)) = T + 1
      BY <3>1, <3>2, <3>3, MinUnique, Zenon
    <3> QED BY <3>2, <3>4, Zenon DEF FindFree
  <2> DEFINE m == Marked(t, T + 1, 1, TRUE)
  <2>4. a = Append(m, e)
    <3>1. T + 1 # 0
      OBVIOUS
    <3> QED BY <2>1, <2>3, <3>1, Zenon DEF Added
  <2>5. SetIn(m, t, T + 1, 1, TRUE)
    <3>1. TRUE \in BOOLEAN
      OBVIOUS
    <3> QED BY <3>1, MarkedIs, Zenon
  <2>6. m \in Seq(PageEntries) /\ Len(m) = n
    BY <2>5, Zenon DEF SetIn
  <2>7. m[T + 1].used = TRUE /\ \A k \in 1 .. n : k # T + 1 => m[k] = t[k]
    <3>1. T + 1 \in T + 1 .. T + 1 + 1 - 1 /\ \A k : k # T + 1 => k \notin T + 1 .. T + 1 + 1 - 1
      OBVIOUS
    <3> QED BY <1>1, <2>2, <2>5, <3>1, Zenon DEF SetIn
  <2> HIDE DEF m, a, n, e
  <2>8. /\ a \in Seq(PageEntries) /\ Len(a) = n + 1
        /\ \A k \in 1 .. n : a[k] = m[k]
        /\ a[n + 1] = e
    BY <1>1, <2>4, <2>6, AppendProperties
  <2>9. Fills(a, N, T + 1)
    <3>1. (T + 1 - 1) * N = T * N /\ (T + 1) * N = T * N + N /\ T * N \in Nat
      OBVIOUS
    <3> QED BY <1>1, <1>4, <2>8, <3>1 DEF Fills
  <2>10. Reserved(a, {}, T + 1)
    <3> SUFFICES ASSUME NEW k \in 1 .. n + 1, k <= T + 1 PROVE a[k].used
      BY <2>8 DEF Reserved
    <3>1. k \in 1 .. n /\ a[k] = m[k]
      BY <1>1, <2>2, <2>8
    <3>2. k # T + 1 => k <= T
      BY <3>1
    <3>3. k # T + 1 => t[k].used
      BY <3>1, <3>2, Zenon DEF Reserved, n
    <3> QED BY <2>7, <3>1, <3>3, Zenon
  <2>11. RestFree(a, T + 1)
    <3> SUFFICES ASSUME NEW k \in 1 .. n + 1, k > T + 1 PROVE ~ a[k].used
      BY <2>8 DEF RestFree
    <3>1. k > T /\ k # T + 1
      BY <1>1
    <3>2. k \in 1 .. n => ~ a[k].used
      BY <2>7, <2>8, <3>1, Zenon DEF RestFree, n
    <3>3. k \in 1 .. n \/ k = n + 1
      BY <1>1
    <3> QED BY <1>1, <2>8, <3>2, <3>3, Zenon
  <2>12. T + 1 \in Nat \ {0}
    OBVIOUS
  <2> QED BY <2>9, <2>10, <2>11, <2>12, Zenon DEF a
<1>5. CASE n # T * N
  <2>1. (n * EntrySize) % PageSize # 0
    <3> DEFINE b == n * EntrySize
               q == T - 1
               x == q * N
               y == T * N
    <3>0. /\ EntrySize \in Nat \ {0} /\ q \in Nat /\ q + 1 = T
          /\ \A i, j \in Nat : i * j \in Nat
      BY PagesAssumption
    <3>1. b \in Nat /\ x \in Nat /\ y \in Nat
      BY <1>1, <3>0, Zenon
    <3>2. x * EntrySize = q * PageSize /\ y * EntrySize = T * PageSize
      BY <3>0
    <3>3. x < n /\ n < y
      <4>1. x < n /\ n <= y /\ n # y
        BY <1>2, <1>5, Zenon
      <4> HIDE DEF x, y, n
      <4> QED BY <1>1, <3>1, <4>1
    <3> HIDE DEF b, q, x, y
    <3>4. q * PageSize < b
      <4>1. (x + 1) * EntrySize <= n * EntrySize
        BY <1>1, <3>0, <3>1, <3>3, TimesLeq
      <4> QED BY <3>0, <3>1, <3>2, <4>1 DEF b
    <3>5. b < (q + 1) * PageSize
      <4>1. (n + 1) * EntrySize <= y * EntrySize
        BY <1>1, <3>0, <3>1, <3>3, TimesLeq
      <4>2. (n + 1) * EntrySize = b + EntrySize
        BY <1>1, <3>0 DEF b
      <4> QED BY <3>0, <3>1, <3>2, <4>1, <4>2
    <3>6. b % PageSize # 0
      BY <3>0, <3>1, <3>4, <3>5, BetweenMod, PagesAssumption
    <3> QED BY <3>6 DEF b
  <2>2. a = Append(t, e)
    BY <2>1, Zenon DEF Added
  <2> HIDE DEF a, n, e
  <2>3. /\ a \in Seq(PageEntries) /\ Len(a) = n + 1
        /\ \A k \in 1 .. n : a[k] = t[k]
        /\ a[n + 1] = e
    BY <1>1, <2>2, AppendProperties DEF n
  <2>4. Fills(a, N, T)
    BY <1>1, <1>2, <1>5, <2>3 DEF Fills
  <2>5. Reserved(a, {}, T)
    <3> SUFFICES ASSUME NEW k \in 1 .. n + 1, k <= T PROVE a[k].used
      BY <2>3 DEF Reserved
    <3>1. k \in 1 .. n
      BY <1>1, <1>3
    <3> QED BY <2>3, <3>1, Zenon DEF Reserved, n
  <2>6. RestFree(a, T)
    <3> SUFFICES ASSUME NEW k \in 1 .. n + 1, k > T PROVE ~ a[k].used
      BY <2>3 DEF RestFree
    <3>1. k \in 1 .. n => ~ a[k].used
      BY <2>3, Zenon DEF RestFree, n
    <3>2. k \in 1 .. n \/ k = n + 1
      BY <1>1
    <3> QED BY <1>1, <2>3, <3>1, <3>2, Zenon
  <2> QED BY <2>4, <2>5, <2>6, Zenon DEF a
<1> QED BY <1>4, <1>5, Zenon

\* Nothing is in the table.
LEMMA TableInvInitially ==
  ASSUME NEW N PROVE PagesInit => TableInv(N)
<1> SUFFICES ASSUME PagesInit PROVE TableInv(N)
  OBVIOUS
<1>1. zone = 1 /\ table = <<>> /\ total = 0 /\ Len(table) = 0
  BY DEF PagesInit
<1>2. Listed(table)
  BY <1>1 DEF Listed
<1>3. Len(table) <= total + 1 /\ total <= MemoryCap + 1 /\ zone # 2
      /\ zone \notin 3 .. Len(Zones) /\ ~ (zone >= 2)
  BY <1>1, ZonesAre, PagesAssumption
<1> QED BY <1>1, <1>2, <1>3, PagesTypesInitially, Zenon DEF TableInv

\* A page of the zone is added.
LEMMA AddPageKeeps ==
  ASSUME ZonesFit, NEW N \in Nat, N >= 2, PageSize = N * EntrySize,
         TableInv(N), AddPage, PagesTypes'
  PROVE  TableInv(N)'
<1> DEFINE z2 == Zones[2]
           n == Len(table)
<1>1. n \in Nat /\ z2.base \in Nat /\ z2.pages \in Nat /\ Len(Zones) \in Nat
  <2>1. n \in Nat /\ 2 \in 1 .. Len(Zones)
    BY LenProperties, ZonesAre DEF TableInv, PagesTypes
  <2> QED BY <2>1, ZonesAre
<1>2. /\ zone \in 1 .. Len(Zones) /\ zone_cursor \in Nat /\ total \in Nat /\ held = {}
      /\ table \in Seq(PageEntries) /\ total <= MemoryCap
      /\ zone_cursor < Zones[zone].base + Zones[zone].pages
  BY <1>1 DEF AddPage, InZone, TableInv, PagesTypes
<1>3. total' = total + 1 /\ total' <= MemoryCap + 1
  BY <1>2, PagesAssumption DEF AddPage
<1>4. zone' = zone /\ held' = held /\ zone_cursor' = zone_cursor + 1
  BY Zenon DEF AddPage
<1>5. CASE zone = 1
  <2>1. table' = table /\ table = <<>> /\ Len(table) = 0
    BY <1>5 DEF AddPage, TableInv
  <2>2. Listed(table')
    BY <2>1 DEF Listed
  <2>3. Len(table') <= total' + 1 /\ zone' # 2 /\ zone' \notin 3 .. Len(Zones) /\ ~ (zone' >= 2)
    BY <1>1, <1>2, <1>3, <1>4, <1>5, <2>1
  <2> QED BY <1>3, <2>1, <2>2, <2>3, Zenon DEF TableInv
<1>6. CASE zone # 1
  <2>1. table' = Added(table, zone_cursor)
    BY <1>6, Zenon DEF AddPage
  <2>2. /\ Len(table') = n + 1
        /\ \A k \in 1 .. n : table'[k].base = table[k].base
        /\ table'[n + 1] = [base |-> zone_cursor, used |-> FALSE]
    BY <1>2, <2>1, AddedIs, Zenon
  <2>3. zone >= 2
    BY <1>2, <1>6
  <2>4. \E T \in Nat \ {0} :
          Fills(table', N, T) /\ Reserved(table', held', T) /\ RestFree(table', T)
    <3>1. PICK T \in Nat \ {0} : Fills(table, N, T) /\ Reserved(table, held, T)
                                   /\ (zone <= Len(Zones) => RestFree(table, T))
      BY <2>3, Zenon DEF TableInv
    <3>2. RestFree(table, T)
      BY <1>1, <1>2, <3>1
    <3> QED BY <1>2, <1>4, <2>1, <3>1, <3>2, AddedKeeps, Zenon
  <2>5. n + 1 <= total' + 1
    BY <1>1, <1>2, <1>3 DEF TableInv
  <2>6. ASSUME zone = 2
        PROVE zone_cursor = z2.base + n /\ zone_cursor' = z2.base + (n + 1) /\ n + 1 <= z2.pages
    <3> DEFINE lo == z2.base
               size == z2.pages
    <3>1. zone_cursor = lo + n /\ zone_cursor < lo + size
      BY <1>2, <2>6, Zenon DEF TableInv
    <3>2. lo \in Nat /\ size \in Nat /\ n \in Nat
      BY <1>1, Zenon
    <3> HIDE DEF lo, size, n
    <3>3. zone_cursor = lo + n /\ zone_cursor' = lo + (n + 1) /\ n + 1 <= size
      BY <1>4, <3>1, <3>2
    <3> QED BY <3>3, Zenon DEF lo, size
  <2>7. ASSUME zone # 2
        PROVE  /\ zone \in 3 .. Len(Zones) /\ zone_cursor' >= Zones[zone].base
               /\ n >= z2.pages /\ n + 1 >= z2.pages
               /\ zone_cursor < z2.base \/ zone_cursor >= z2.base + z2.pages
    <3>1. zone \in 3 .. Len(Zones)
      BY <1>1, <1>2, <2>3, <2>7
    <3>2. zone_cursor >= Zones[zone].base /\ (n >= z2.pages \/ total > MemoryCap)
      BY <3>1, Zenon DEF TableInv
    <3>3. Zones[zone].base \in Nat /\ Zones[zone].pages \in Nat
      BY <1>2, ZonesAre
    <3>4. n >= z2.pages
      BY <1>2, <3>2, PagesAssumption
    <3>5. \/ Zones[zone].base + Zones[zone].pages <= z2.base
          \/ z2.base + z2.pages <= Zones[zone].base
      BY <3>1, Zenon DEF ZonesFit
    <3>6. zone_cursor < z2.base \/ zone_cursor >= z2.base + z2.pages
      <4> DEFINE lo == z2.base
                 hi == z2.base + z2.pages
                 first == Zones[zone].base
                 last == Zones[zone].base + Zones[zone].pages
      <4>1. lo \in Nat /\ hi \in Nat /\ first \in Nat /\ last \in Nat
        <5>1. \A i, j \in Nat : i + j \in Nat
          OBVIOUS
        <5> QED BY <1>1, <3>3, <5>1, Zenon
      <4>2. first <= zone_cursor /\ zone_cursor < last /\ (last <= lo \/ hi <= first)
        <5>1. first <= zone_cursor
          BY <1>2, <3>2, <3>3
        <5> QED BY <1>2, <3>5, <5>1, Zenon
      <4> HIDE DEF lo, hi, first, last
      <4>3. zone_cursor < lo \/ zone_cursor >= hi
        BY <1>2, <4>1, <4>2
      <4> QED BY <4>3, Zenon DEF lo, hi
    <3>7. zone_cursor' >= Zones[zone].base
      BY <1>2, <1>4, <3>2, <3>3
    <3>8. n + 1 >= z2.pages
      BY <1>1, <3>4
    <3> QED BY <3>1, <3>4, <3>6, <3>7, <3>8, Zenon
  <2>8. Listed(table')
    <3> SUFFICES ASSUME NEW k \in 1 .. n + 1
                 PROVE  IF k <= z2.pages THEN table'[k].base = z2.base + k - 1
                        ELSE table'[k].base < z2.base \/ table'[k].base >= z2.base + z2.pages
      BY <2>2, Zenon DEF Listed
    <3>1. CASE k \in 1 .. n
      BY <2>2, <3>1, Zenon DEF TableInv, Listed
    <3>2. CASE k \notin 1 .. n
      <4>1. k = n + 1 /\ table'[k].base = zone_cursor
        BY <1>1, <2>2, <3>2
      <4>2. CASE zone = 2
        BY <1>1, <2>6, <4>1, <4>2
      <4>3. CASE zone # 2
        BY <1>1, <2>7, <4>1, <4>3
      <4> QED BY <4>2, <4>3, Zenon
    <3> QED BY <3>1, <3>2, Zenon
  <2>9. zone' = 2 => zone_cursor' = z2.base + Len(table') /\ Len(table') <= z2.pages
    BY <1>4, <2>2, <2>6, Zenon
  <2>10. zone' \in 3 .. Len(Zones) =>
           zone_cursor' >= Zones[zone'].base /\ (Len(table') >= z2.pages \/ total' > MemoryCap)
    <3>1. zone \in 3 .. Len(Zones) => zone # 2
      OBVIOUS
    <3> QED BY <1>4, <2>2, <2>7, <3>1, Zenon
  <2>11. Len(table') <= total' + 1 /\ zone' # 1
    BY <1>4, <1>6, <2>2, <2>5, Zenon
  <2> QED BY <1>3, <2>4, <2>8, <2>9, <2>10, <2>11, Zenon DEF TableInv
<1> QED BY <1>5, <1>6, Zenon

\* The next zone begins.
LEMMA NextZoneKeeps ==
  ASSUME ZonesFit, NEW N \in Nat, N >= 2, TableInv(N), NextZone, PagesTypes'
  PROVE  TableInv(N)'
<1> DEFINE z2 == Zones[2]
           n == Len(table)
<1>1. /\ n \in Nat /\ z2.base \in Nat /\ z2.pages \in Nat \ {0}
      /\ Len(Zones) \in Nat /\ Len(Zones) >= 2
  <2>1. n \in Nat /\ 2 \in 1 .. Len(Zones)
    BY LenProperties, ZonesAre DEF TableInv, PagesTypes
  <2> QED BY <2>1, ZonesAre
<1>2. /\ zone \in 1 .. Len(Zones) /\ zone_cursor \in Nat /\ total \in Nat /\ held = {}
      /\ table \in Seq(PageEntries) /\ total <= MemoryCap + 1 /\ n <= total + 1
      /\ Listed(table)
  BY <1>1 DEF NextZone, TableInv, PagesTypes
<1>3. zone' = zone + 1 /\ held' = held /\ total' = total
  BY Zenon DEF NextZone
<1>4. CASE zone = 1
  <2> DEFINE e == [base |-> z2.base, used |-> TRUE]
  <2>1. table' = <<e>> /\ zone_cursor' = z2.base + 1
    BY <1>4 DEF NextZone
  <2>2. Len(table') = 1 /\ table'[1] = e
    BY <2>1
  <2>3. e.base = z2.base /\ e.used
    OBVIOUS
  <2> HIDE DEF e
  <2>4. Listed(table')
    BY <1>1, <2>2, <2>3 DEF Listed
  <2>5. Fills(table', N, 1)
    BY <2>2 DEF Fills
  <2>6. Reserved(table', held', 1)
    <3>1. \A k \in 1 .. Len(table') : k = 1 /\ k \notin held'
      BY <1>2, <1>3, <2>2
    <3> QED BY <2>2, <2>3, <3>1, Zenon DEF Reserved
  <2>7. RestFree(table', 1)
    BY <2>2 DEF RestFree
  <2>8. /\ zone' = 2 /\ zone' # 1 /\ zone' \notin 3 .. Len(Zones) /\ 1 \in Nat \ {0}
        /\ zone_cursor' = z2.base + Len(table') /\ Len(table') <= z2.pages
        /\ Len(table') <= total' + 1 /\ total' <= MemoryCap + 1
    BY <1>1, <1>2, <1>3, <1>4, <2>1, <2>2
  <2> QED BY <2>4, <2>5, <2>6, <2>7, <2>8, Zenon DEF TableInv
<1>5. CASE zone # 1
  <2>1. /\ table' = table
        /\ zone_cursor' = IF zone < Len(Zones) THEN Zones[zone + 1].base ELSE zone_cursor
    BY <1>2, <1>5 DEF NextZone
  <2>2. zone >= 2 /\ zone' # 1 /\ zone' # 2
    BY <1>2, <1>3, <1>5
  <2>3. n >= z2.pages \/ total > MemoryCap
    <3>1. CASE zone = 2
      <4>1. ~ (zone_cursor < z2.base + z2.pages /\ total <= MemoryCap)
        BY <1>1, <1>2, <3>1, Zenon DEF NextZone, InZone, ZonesFit
      <4>2. zone_cursor = z2.base + n
        BY <3>1, Zenon DEF TableInv
      <4> DEFINE lo == z2.base
                 size == z2.pages
      <4>3. lo \in Nat /\ size \in Nat /\ n \in Nat /\ total \in Nat /\ MemoryCap \in Nat
        BY <1>1, <1>2, PagesAssumption
      <4>4. ~ (zone_cursor < lo + size /\ total <= MemoryCap) /\ zone_cursor = lo + n
        BY <4>1, <4>2, Zenon
      <4> HIDE DEF lo, size, n
      <4>5. n >= size \/ total > MemoryCap
        BY <4>3, <4>4
      <4> QED BY <4>5, Zenon DEF size
    <3>2. CASE zone # 2
      <4>1. zone \in 3 .. Len(Zones)
        BY <1>1, <1>2, <2>2, <3>2
      <4> QED BY <4>1, Zenon DEF TableInv
    <3> QED BY <3>1, <3>2, Zenon
  <2>4. zone' \in 3 .. Len(Zones) => zone_cursor' >= Zones[zone'].base
    <3> SUFFICES ASSUME zone' \in 3 .. Len(Zones) PROVE zone_cursor' >= Zones[zone'].base
      OBVIOUS
    <3>1. zone < Len(Zones) /\ zone' \in 1 .. Len(Zones)
      BY <1>1, <1>2, <1>3
    <3>2. zone_cursor' = Zones[zone'].base
      BY <1>3, <2>1, <3>1, Zenon
    <3>3. Zones[zone'].base \in Nat
      BY <3>1, ZonesAre, Zenon
    <3> QED BY <3>2, <3>3
  <2>5. PICK T \in Nat \ {0} : Fills(table, N, T) /\ Reserved(table, held, T)
                                 /\ (zone <= Len(Zones) => RestFree(table, T))
    BY <2>2, Zenon DEF TableInv
  <2>6. RestFree(table, T)
    BY <1>1, <1>2, <2>5
  <2> QED BY <1>2, <1>3, <2>1, <2>2, <2>3, <2>4, <2>5, <2>6, Zenon DEF TableInv
<1> QED BY <1>4, <1>5, Zenon

\* What marking entries leaves as it was.
LEMMA MarkingKeeps ==
  ASSUME NEW N, TableInv(N), zone > Len(Zones), PagesTypes',
         zone' = zone, zone_cursor' = zone_cursor, total' = total,
         Len(table') = Len(table),
         \A k \in 1 .. Len(table) : table'[k].base = table[k].base,
         \A T \in Nat \ {0} : Reserved(table, held, T) => Reserved(table', held', T)
  PROVE  TableInv(N)'
<1>1. ~ (zone <= Len(Zones)) /\ zone # 1 /\ zone # 2 /\ zone \notin 3 .. Len(Zones) /\ zone >= 2
  BY ZonesAre DEF TableInv, PagesTypes
<1>2. Listed(table')
  BY Zenon DEF TableInv, Listed
<1>3. PICK T \in Nat \ {0} : Fills(table, N, T) /\ Reserved(table, held, T)
  BY <1>1, Zenon DEF TableInv
<1>4. Fills(table', N, T) /\ Reserved(table', held', T)
  BY <1>3, Zenon DEF Fills
<1> QED BY <1>1, <1>2, <1>4, Zenon DEF TableInv

\* get_phy_page of one page or of several.
LEMMA GetPhyPageKeeps ==
  ASSUME NEW N, TableInv(N), NEW num \in 1 .. 3, GetPhyPage(num), PagesTypes'
  PROVE  TableInv(N)'
<1> DEFINE s == IF num > 1 THEN FindMany(table, num) ELSE FindFree(table)
           n == Len(table)
<1>1. /\ zone > Len(Zones) /\ s # 0 /\ table' = Marked(table, s, num, TRUE)
      /\ held' = held \cup (s .. s + num - 1)
      /\ zone' = zone /\ zone_cursor' = zone_cursor /\ total' = total
  BY Zenon DEF GetPhyPage
<1>2. table \in Seq(PageEntries)
  BY Zenon DEF TableInv, PagesTypes
<1>3. \A k \in s .. s + num - 1 : k \in 1 .. n /\ ~ table[k].used
  BY <1>1, <1>2, GotFree, Zenon
<1> HIDE DEF s
<1>4. TRUE \in BOOLEAN
  OBVIOUS
<1>5. SetIn(table', table, s, num, TRUE)
  BY <1>1, <1>2, <1>4, MarkedIs, Zenon
<1>6. DOMAIN table = 1 .. n
  BY <1>2, LenProperties, Zenon
<1>7. Len(table') = n /\ \A k \in 1 .. n : table'[k].base = table[k].base
  BY <1>5, <1>6, Zenon DEF SetIn
<1>8. ASSUME NEW T \in Nat \ {0}, Reserved(table, held, T) PROVE Reserved(table', held', T)
  <2> SUFFICES ASSUME NEW k \in 1 .. n, k <= T PROVE table'[k].used /\ k \notin held'
    BY <1>7, Zenon DEF Reserved
  <2>1. table[k].used /\ k \notin held
    BY <1>8, Zenon DEF Reserved
  <2>2. k \notin s .. s + num - 1
    BY <1>3, <2>1, Zenon
  <2>3. table'[k] = table[k]
    BY <1>5, <1>6, <2>2, Zenon DEF SetIn
  <2> QED BY <1>1, <2>1, <2>2, <2>3, Zenon
<1> QED BY <1>1, <1>7, <1>8, MarkingKeeps, Zenon

\* Pages are given back.
LEMMA ReleaseKeeps ==
  ASSUME NEW N, TableInv(N), NEW j \in held, Release(j), PagesTypes'
  PROVE  TableInv(N)'
<1> DEFINE n == Len(table)
<1>1. /\ table' = Marked(table, j, 1, FALSE) /\ held' = held \ {j}
      /\ zone' = zone /\ zone_cursor' = zone_cursor /\ total' = total
  BY Zenon DEF Release
<1>2. table \in Seq(PageEntries) /\ FALSE \in BOOLEAN /\ j \in Nat
  BY DEF TableInv, PagesTypes
<1>3. SetIn(table', table, j, 1, FALSE)
  BY <1>1, <1>2, MarkedIs, Zenon
<1>4. DOMAIN table = 1 .. n
  BY <1>2, LenProperties, Zenon
<1>5. Len(table') = n /\ \A k \in 1 .. n : table'[k].base = table[k].base
  BY <1>3, <1>4, Zenon DEF SetIn
<1>6. ASSUME NEW T \in Nat \ {0}, Reserved(table, held, T) PROVE Reserved(table', held', T)
  <2> SUFFICES ASSUME NEW k \in 1 .. n, k <= T PROVE table'[k].used /\ k \notin held'
    BY <1>5, Zenon DEF Reserved
  <2>1. table[k].used /\ k \notin held
    BY <1>6, Zenon DEF Reserved
  <2>2. k # j
    BY <2>1
  <2>3. k \notin j .. j + 1 - 1
    BY <1>2, <2>2
  <2>4. table'[k] = table[k]
    BY <1>3, <1>4, <2>3, Zenon DEF SetIn
  <2> QED BY <1>1, <2>1, <2>4, Zenon
<1>7. zone > Len(Zones)
  BY ZonesAre DEF TableInv, PagesTypes
<1> QED BY <1>1, <1>5, <1>6, <1>7, MarkingKeeps, Zenon

\* So every step keeps it.
LEMMA TableInvKept ==
  ASSUME ZonesFit, NEW N \in Nat, N >= 2, PageSize = N * EntrySize
  PROVE  TableInv(N) /\ [PagesNext]_pagesVars => TableInv(N)'
<1> SUFFICES ASSUME TableInv(N), [PagesNext]_pagesVars PROVE TableInv(N)'
  OBVIOUS
<1>1. PagesTypes'
  BY PagesTypesKept, Zenon DEF TableInv
<1>2. CASE UNCHANGED pagesVars
  BY <1>2, Zenon DEF pagesVars, TableInv, PagesTypes, Listed, Fills, Reserved, RestFree
<1>3. CASE AddPage
  BY <1>1, <1>3, AddPageKeeps, Zenon
<1>4. CASE NextZone
  BY <1>1, <1>4, NextZoneKeeps, Zenon
<1>5. ASSUME NEW num \in 1 .. 3, GetPhyPage(num) PROVE TableInv(N)'
  BY <1>1, <1>5, GetPhyPageKeeps, Zenon
<1>6. ASSUME NEW k \in held, Release(k) PROVE TableInv(N)'
  BY <1>1, <1>6, ReleaseKeeps, Zenon
<1> QED BY <1>2, <1>3, <1>4, <1>5, <1>6, Zenon DEF PagesNext

\* The table's pages are among its first T entries.
LEMMA TableIsReserved ==
  ASSUME ZonesFit, NEW N \in Nat, N >= 2, PageSize = N * EntrySize, TableInv(N)
  PROVE  TableReserved
<1> SUFFICES ASSUME zone > Len(Zones), NEW k \in DOMAIN table, HoldsTable(table[k].base)
             PROVE  table[k].used /\ k \notin held
  BY Zenon DEF TableReserved
<1> DEFINE z2 == Zones[2]
           n == Len(table)
           d == table[k].base - z2.base
<1>1. /\ n \in Nat /\ z2.base \in Nat /\ z2.pages \in Nat /\ k \in 1 .. n
      /\ table[k].base \in Nat /\ zone >= 2 /\ total \in Nat
  <2>1. n \in Nat /\ 2 \in 1 .. Len(Zones) /\ k \in 1 .. n /\ zone >= 2 /\ total \in Nat
    BY LenProperties, ZonesAre DEF TableInv, PagesTypes
  <2>2. table[k] \in PageEntries
    BY <2>1, ElementOfSeq, Zenon DEF TableInv, PagesTypes
  <2> QED BY <2>1, <2>2, ZonesAre DEF PageEntries
<1>2. table[k].base >= z2.base /\ d * PageSize < n * EntrySize
  BY Zenon DEF HoldsTable
<1>3. d \in Nat
  BY <1>1, <1>2
<1>4. EntrySize \in Nat \ {0} /\ PageSize \in Nat \ {0} /\ MemoryCap \in Nat
  BY PagesAssumption
<1>5. n <= MemoryCap + 2
  BY <1>1, <1>4 DEF TableInv
<1>6. PICK T \in Nat \ {0} : n <= T * N /\ Reserved(table, held, T)
  BY <1>1, Zenon DEF TableInv, Fills
<1>7. Listed(table) /\ (MemoryCap + 2) * EntrySize <= z2.pages * PageSize
  BY Zenon DEF TableInv, ZonesFit
<1> HIDE DEF n, z2
<1>8. d < z2.pages
  <2> HIDE DEF d
  <2>1. n * EntrySize <= (MemoryCap + 2) * EntrySize
    BY <1>1, <1>4, <1>5, TimesLeq
  <2>2. \A i, j \in Nat : i * j \in Nat
    OBVIOUS
  <2>3. d * PageSize < z2.pages * PageSize
    <3> DEFINE w == d * PageSize
               x == n * EntrySize
               y == (MemoryCap + 2) * EntrySize
               u == z2.pages * PageSize
    <3>1. w \in Nat /\ x \in Nat /\ y \in Nat /\ u \in Nat
      <4>1. MemoryCap + 2 \in Nat
        BY <1>4
      <4> QED BY <1>1, <1>3, <1>4, <2>2, <4>1, Zenon
    <3>2. w < x /\ x <= y /\ y <= u
      BY <1>2, <1>7, <2>1, Zenon
    <3> HIDE DEF w, x, y, u
    <3>3. w < u
      BY <3>1, <3>2
    <3> QED BY <3>3, Zenon DEF w, u
  <2> QED BY <1>1, <1>3, <1>4, <2>3, TimesLess
<1>9. d = k - 1
  <2> DEFINE lo == z2.base
             size == z2.pages
             page == table[k].base
  <2>1. /\ lo \in Nat /\ size \in Nat /\ n \in Nat /\ page \in Nat /\ k \in 1 .. n
        /\ d = page - lo /\ d < size
    BY <1>1, <1>8, Zenon
  <2>2. IF k <= size THEN page = lo + k - 1 ELSE page < lo \/ page >= lo + size
    BY <1>1, <1>7, Zenon DEF Listed, n, z2
  <2> HIDE DEF lo, size, page, d
  <2> QED BY <1>3, <2>1, <2>2
<1>10. d < T
  <2> HIDE DEF d
  <2>1. n * EntrySize <= (T * N) * EntrySize
    <3> DEFINE y == T * N
    <3>1. y \in Nat /\ n <= y
      BY <1>6
    <3> HIDE DEF y
    <3>2. n * EntrySize <= y * EntrySize
      BY <1>1, <1>4, <3>1, TimesLeq
    <3> QED BY <3>2, Zenon DEF y
  <2>2. (T * N) * EntrySize = T * PageSize
    BY <1>4
  <2>3. d * PageSize < T * PageSize
    BY <1>1, <1>2, <1>3, <1>4, <2>1, <2>2
  <2> QED BY <1>3, <1>4, <2>3, TimesLess
<1>11. k <= T
  BY <1>1, <1>9, <1>10
<1> QED BY <1>1, <1>6, <1>11, Zenon DEF Reserved, n

\* Where entries do not straddle pages and the second zone has room for the table, no page of
\* the table is free or handed out once phy_page_init is done; and the search for
\* several pages finds the first run (phy_page_init, get_phy_page).
THEOREM PagesCorrect == ZonesFit /\ PagesSpec => []PagesHandedOut
<1> SUFFICES ASSUME ZonesFit PROVE PagesSpec => []PagesHandedOut
  OBVIOUS
<1>1. PICK N \in Nat : N >= 2 /\ PageSize = N * EntrySize
  <2>1. PICK N \in 2 .. PageSize : PageSize = N * EntrySize
    BY Zenon DEF ZonesFit
  <2>2. N \in Nat /\ N >= 2
    BY PagesAssumption
  <2> QED BY <2>1, <2>2, Zenon
<1>2. PagesInit => TableInv(N)
  BY TableInvInitially, Zenon
<1>3. TableInv(N) /\ [PagesNext]_pagesVars => TableInv(N)'
  BY <1>1, TableInvKept, Zenon
<1>4. TableInv(N) => TableReserved
  BY <1>1, TableIsReserved, Zenon
<1>5. PagesSpec => []TableReserved
  BY <1>2, <1>3, <1>4, PTL DEF PagesSpec
<1> QED BY <1>5, FirstRunFound, PTL DEF PagesHandedOut
=============================================================================
