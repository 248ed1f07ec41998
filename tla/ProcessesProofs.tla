-------------------------- MODULE ProcessesProofs --------------------------
(***************************************************************************)
(* Theorems about Processes, for any number of processes: the process list *)
(* stays whole, the scheduler never pulls the kernel stack from under the  *)
(* processor, waiters are told, the kernel never halts while programs wait *)
(* for their children by pid, and who sleeps in sys_pause sleeps until the *)
(* timer is due.                                                           *)
(***************************************************************************)
EXTENDS Processes, SequenceTheorems, FiniteSetTheorems, WellFoundedInduction, TLAPS

(***************************************************************************)
(* Lists.                                                                  *)
(***************************************************************************)
LEMMA SmallestIs ==
  ASSUME NEW S \in SUBSET Nat, S # {}
  PROVE  Min(S) \in S /\ \A j \in S : Min(S) <= j
<1>1. \E f \in S : \A g \in S : ~ (<<g, f>> \in OpToRel(<, Nat))
  BY WFMin, NatLessThanWellFounded, Zenon
<1>2. PICK f \in S : \A g \in S : ~ (<<g, f>> \in OpToRel(<, Nat))
  BY <1>1, Zenon
<1>3. ASSUME NEW g \in S PROVE f <= g
  <2>1. ~ (g < f)
    BY <1>2, Zenon DEF OpToRel
  <2> QED BY <2>1
<1> QED BY <1>3, Zenon DEF Min

LEMMA PositionIs ==
  ASSUME NEW l \in Seq(Procs), NEW p \in Range(l)
  PROVE  Position(l, p) \in 1 .. Len(l) /\ l[Position(l, p)] = p
<1>1. \E i \in DOMAIN l : l[i] = p
  BY Zenon DEF Range
<1>2. DOMAIN l = 1 .. Len(l)
  OBVIOUS
<1> QED BY <1>1, <1>2, Zenon DEF Position

LEMMA SuccessorIs ==
  ASSUME NEW l \in Seq(Procs), NEW p \in Range(l)
  PROVE  /\ Successor(l, p) \in Range(l)
         /\ \/ Successor(l, p) = Head(l)
            \/ \E i, j \in DOMAIN l : i < j /\ l[i] = p /\ l[j] = Successor(l, p)
<1> DEFINE i == Position(l, p)
<1>1. i \in 1 .. Len(l) /\ l[i] = p
  BY PositionIs, Zenon
<1> HIDE DEF i
<1>2. DOMAIN l = 1 .. Len(l) /\ Len(l) \in Nat
  OBVIOUS
<1>3. CASE i = Len(l)
  <2>1. Successor(l, p) = Head(l) /\ Head(l) = l[1] /\ 1 \in DOMAIN l
    BY <1>1, <1>2, <1>3 DEF Successor, i
  <2> QED BY <2>1, Zenon DEF Range
<1>4. CASE i # Len(l)
  <2>1. Successor(l, p) = l[i + 1] /\ i \in DOMAIN l /\ i + 1 \in DOMAIN l /\ i < i + 1
    BY <1>1, <1>2, <1>4 DEF Successor, i
  <2> QED BY <1>1, <2>1, Zenon DEF Range
<1> QED BY <1>3, <1>4, Zenon

LEMMA AppendIs ==
  ASSUME NEW l \in Seq(Procs), IsInjective(l), l # <<>>, NEW c \in Procs, c \notin Range(l)
  PROVE  /\ Append(l, c) \in Seq(Procs) /\ IsInjective(Append(l, c))
         /\ Head(Append(l, c)) = Head(l)
         /\ Range(Append(l, c)) = Range(l) \cup {c}
<1> DEFINE m == Append(l, c)
<1>1. /\ m \in Seq(Procs) /\ DOMAIN m = 1 .. Len(l) + 1 /\ Len(l) \in Nat /\ Len(l) >= 1
      /\ DOMAIN l = 1 .. Len(l)
      /\ \A i \in 1 .. Len(l) : m[i] = l[i]
      /\ m[Len(l) + 1] = c
  OBVIOUS
<1>2. Head(m) = Head(l)
  BY <1>1
<1> HIDE DEF m
<1>3. \A i \in 1 .. Len(l) : l[i] # c
  BY <1>1, Zenon DEF Range
<1>4. \A i \in DOMAIN m : i \in 1 .. Len(l) \/ i = Len(l) + 1
  BY <1>1
<1>5. IsInjective(m)
  BY <1>1, <1>3, <1>4, Zenon DEF IsInjective
<1>6. Range(m) = Range(l) \cup {c}
  <2>1. Range(l) \cup {c} \subseteq Range(m)
    BY <1>1 DEF Range
  <2>2. Range(m) \subseteq Range(l) \cup {c}
    BY <1>1, <1>4, Zenon DEF Range
  <2> QED BY <2>1, <2>2, Zenon
<1> QED BY <1>1, <1>2, <1>5, <1>6, Zenon DEF m

LEMMA RemoveIs ==
  ASSUME NEW l \in Seq(Procs), IsInjective(l), NEW t \in Range(l), t # Head(l)
  PROVE  LET m == Removed(l, Position(l, t))
         IN  /\ m \in Seq(Procs) /\ IsInjective(m) /\ m # <<>>
             /\ Head(m) = Head(l)
             /\ Range(m) = Range(l) \ {t}
<1> DEFINE k == Position(l, t)
           n == Len(l)
           a == SubSeq(l, 1, k - 1)
           b == SubSeq(l, k + 1, n)
           m == a \o b
<1>1. k \in 1 .. n /\ l[k] = t /\ n \in Nat /\ DOMAIN l = 1 .. n
  BY PositionIs
<1> HIDE DEF k
<1>2. k # 1
  BY <1>1
<1>3. \A i \in 1 .. n : l[i] \in Procs
  OBVIOUS
<1>4. /\ a \in Seq(Procs) /\ Len(a) = k - 1
      /\ \A i \in 1 .. k - 1 : a[i] = l[i]
  <2>1. 1 \in Int /\ k - 1 \in Int /\ \A i \in 1 .. k - 1 : l[i] \in Procs
    BY <1>1, <1>3
  <2>2. /\ a \in Seq(Procs)
        /\ Len(a) = IF 1 <= k - 1 THEN (k - 1) - 1 + 1 ELSE 0
        /\ \A i \in 1 .. (k - 1) - 1 + 1 : a[i] = l[1 + i - 1]
    BY <2>1, SubSeqProperties
  <2> HIDE DEF a
  <2> QED BY <1>1, <1>2, <2>2
<1>5. /\ b \in Seq(Procs) /\ Len(b) = n - k
      /\ \A i \in 1 .. n - k : b[i] = l[k + i]
  <2>1. k + 1 \in Int /\ n \in Int /\ \A i \in k + 1 .. n : l[i] \in Procs
    BY <1>1, <1>3
  <2>2. /\ b \in Seq(Procs)
        /\ Len(b) = IF k + 1 <= n THEN n - (k + 1) + 1 ELSE 0
        /\ \A i \in 1 .. n - (k + 1) + 1 : b[i] = l[(k + 1) + i - 1]
    BY <2>1, SubSeqProperties
  <2> HIDE DEF b, n
  <2> QED BY <1>1, <2>2
<1> HIDE DEF a, b, n
<1>6. /\ m \in Seq(Procs) /\ Len(m) = n - 1 /\ DOMAIN m = 1 .. n - 1
      /\ \A i \in 1 .. n - 1 : m[i] = IF i < k THEN l[i] ELSE l[i + 1]
  <2>1. /\ m \in Seq(Procs) /\ Len(m) = Len(a) + Len(b)
        /\ \A i \in 1 .. Len(a) + Len(b) : m[i] = IF i <= Len(a) THEN a[i] ELSE b[i - Len(a)]
    BY <1>4, <1>5, ConcatProperties, Zenon
  <2> HIDE DEF m
  <2>2. Len(m) = n - 1
    BY <1>1, <1>4, <1>5, <2>1
  <2>3. ASSUME NEW i \in 1 .. n - 1 PROVE m[i] = IF i < k THEN l[i] ELSE l[i + 1]
    <3>1. m[i] = IF i <= k - 1 THEN a[i] ELSE b[i - (k - 1)]
      BY <1>1, <1>4, <1>5, <2>1
    <3>2. CASE i < k
      BY <1>1, <1>4, <3>1, <3>2
    <3>3. CASE ~ (i < k)
      <4>1. i - (k - 1) \in 1 .. n - k /\ k + (i - (k - 1)) = i + 1
        BY <1>1, <3>3
      <4>2. b[i - (k - 1)] = l[i + 1]
        BY <1>5, <4>1, Zenon
      <4> QED BY <1>1, <3>1, <3>3, <4>2
    <3> QED BY <3>2, <3>3, Zenon
  <2> QED BY <1>1, <2>1, <2>2, <2>3
<1>7. Removed(l, Position(l, t)) = m
  BY Zenon DEF Removed, k, m, a, b, n
<1> HIDE DEF m
<1> DEFINE from(i) == IF i < k THEN i ELSE i + 1
<1>0. \A x, y \in 1 .. n : l[x] = l[y] => x = y
  BY <1>1, Zenon DEF IsInjective
<1>8. IsInjective(m)
  <2>1. ASSUME NEW i \in 1 .. n - 1, NEW j \in 1 .. n - 1, m[i] = m[j] PROVE i = j
    <3>1. m[i] = l[from(i)] /\ m[j] = l[from(j)]
      BY <1>6, Zenon
    <3>2. from(i) \in 1 .. n /\ from(j) \in 1 .. n
      BY <1>1
    <3>3. from(i) = from(j)
      BY <1>0, <2>1, <3>1, <3>2, Zenon
    <3> QED BY <1>1, <3>3
  <2> QED BY <1>6, <2>1, Zenon DEF IsInjective
<1>9. Range(m) = Range(l) \ {t}
  <2>1. ASSUME NEW i \in 1 .. n - 1 PROVE m[i] \in Range(l) \ {t}
    <3>1. from(i) \in 1 .. n /\ from(i) # k
      BY <1>1
    <3>2. m[i] = l[from(i)]
      BY <1>6, Zenon
    <3> HIDE DEF from
    <3>3. l[from(i)] # t
      BY <1>0, <1>1, <3>1, Zenon
    <3> QED BY <1>1, <3>1, <3>2, <3>3, Zenon DEF Range
  <2>2. ASSUME NEW x \in Range(l) \ {t} PROVE x \in Range(m)
    <3>1. PICK i \in 1 .. n : l[i] = x
      BY <1>1, Zenon DEF Range
    <3>2. i # k
      BY <1>1, <3>1, Zenon
    <3>3. \E j \in 1 .. n - 1 : m[j] = x
      <4>1. CASE i < k
        <5>1. i \in 1 .. n - 1
          BY <1>1, <4>1
        <5> QED BY <1>6, <3>1, <4>1, <5>1, Zenon
      <4>2. CASE i > k
        <5>1. i - 1 \in 1 .. n - 1 /\ ~ (i - 1 < k) /\ (i - 1) + 1 = i
          BY <1>1, <4>2
        <5>2. m[i - 1] = l[i]
          BY <1>6, <5>1, Zenon
        <5> QED BY <3>1, <5>1, <5>2, Zenon
      <4> QED BY <1>1, <3>2, <4>1, <4>2
    <3> QED BY <1>6, <3>3, Zenon DEF Range
  <2>3. Range(m) \subseteq Range(l) \ {t}
    BY <1>6, <2>1, Zenon DEF Range
  <2> QED BY <2>2, <2>3, Zenon
<1>10. m # <<>> /\ Head(m) = Head(l)
  <2>1. 1 \in 1 .. n - 1 /\ m[1] = l[1]
    BY <1>1, <1>2, <1>6
  <2> QED BY <1>1, <1>6, <2>1
<1> QED BY <1>6, <1>7, <1>8, <1>9, <1>10, Zenon
-----------------------------------------------------------------------------
(***************************************************************************)
(* The inductive invariant.  The types leave out the timer list, whose     *)
(* contents do not matter here.                                            *)
(***************************************************************************)
ProcType ==
  /\ list \in Seq(Procs) /\ freed \in SUBSET Procs
  /\ current \in Procs /\ scan \in Procs \cup {NoProc}
  /\ on_hold \in [Procs -> BOOLEAN] /\ terminated \in [Procs -> BOOLEAN]
  /\ cleaned \in [Procs -> BOOLEAN]
  /\ parent \in [Procs -> Procs \cup {NoProc}]
  /\ id_wait_for \in [Procs -> Procs \cup {AnyChild}]
  /\ id_wait_for_p \in [Procs -> Procs \cup {NoProc}]
  /\ sig_pending \in [Procs -> Nat]
  /\ at \in [Procs -> {"user", "wait", "pause"}]
  /\ target \in [Procs -> Procs \cup {NoProc}]

\* Cleaned, reaped or reported as ended means ended.
EndsInOrder ==
  /\ \A q \in Procs : cleaned[q] => terminated[q]
  /\ \A q \in freed : terminated[q] /\ parent[q] # NoProc
  /\ \A p \in Procs : id_wait_for_p[p] # NoProc => terminated[id_wait_for_p[p]]

Family == parent[Init0] = NoProc /\ \A q \in Procs : parent[q] # q

\* The scheduler looks at listed processes only, from the current one to the
\* end of the list, then at /bin/init.
ScansAhead ==
  /\ current \in Range(list) /\ ~ cleaned[current]
  /\ scan # NoProc => /\ scan \in Range(list)
                      /\ \/ scan = Init0
                         \/ \E i, j \in DOMAIN list :
                              i < j /\ list[i] = current /\ list[j] = scan

\* Who waits, waits for a child of its own that is listed.
WaitsForChild ==
  \A p \in Procs : at[p] = "wait" =>
    target[p] \in Range(list) /\ parent[target[p]] = p

\* /bin/init can always run: it never sleeps and nobody kills it.
InitRuns ==
  ~ on_hold[Init0] /\ ~ terminated[Init0] /\ at[Init0] = "user"
  /\ sig_pending[Init0] # SIGKILL

ProcInv ==
  /\ ProcType /\ ListIntact /\ EndsInOrder /\ Family /\ ScansAhead
  /\ WaitsForChild /\ InitRuns

\* With waits by pid only, moreover:
Awaited ==
  \A p \in Procs : at[p] = "wait" =>
    /\ id_wait_for[p] = target[p]
    /\ id_wait_for_p[p] # NoProc => id_wait_for_p[p] = target[p]

ChildInv == Awaited /\ NoLostWakeup /\ KernelKeepsRunning

(***************************************************************************)
(* A step of p that touches, besides p, only the sleep and the signals of  *)
(* other processes.                                                        *)
(***************************************************************************)
Quiet(p) ==
  /\ UNCHANGED <<list, freed, current, cleaned, parent, id_wait_for, id_wait_for_p, target,
                 halted>>
  /\ scan' \in {NoProc, Successor(list, current)}
  /\ on_hold' \in [Procs -> BOOLEAN] /\ terminated' \in [Procs -> BOOLEAN]
  /\ sig_pending' \in [Procs -> Nat] /\ sig_pending'[Init0] # SIGKILL
  /\ at' \in [Procs -> {"user", "wait", "pause"}] /\ at'[p] # "wait"
  /\ p = Init0 => ~ on_hold'[p] /\ ~ terminated'[p] /\ at'[p] = "user"
  /\ terminated[p] => terminated'[p]
  /\ \A q \in Procs \ {p} : /\ terminated'[q] = terminated[q]
                            /\ at'[q] = at[q]
                            /\ on_hold'[q] => on_hold[q]

LEMMA Init0InProcs == Init0 \in Procs /\ NoProc \notin Procs
BY ProcessesAssumption DEF Init0, Procs, NoProc

LEMMA SwitchAhead ==
  ASSUME ProcInv, UNCHANGED <<list, current, cleaned>>,
         scan' \in {NoProc, Successor(list, current)}
  PROVE  ScansAhead' /\ scan' \in Procs \cup {NoProc}
<1>1. list \in Seq(Procs) /\ current \in Range(list) /\ Head(list) = Init0
  BY Zenon DEF ProcInv, ProcType, ListIntact, ScansAhead
<1>2. /\ Successor(list, current) \in Range(list)
      /\ \/ Successor(list, current) = Head(list)
         \/ \E i, j \in DOMAIN list :
              i < j /\ list[i] = current /\ list[j] = Successor(list, current)
  BY <1>1, SuccessorIs, Zenon
<1>3. Range(list) \subseteq Procs
  BY <1>1 DEF Range
<1> QED BY <1>1, <1>2, <1>3, Zenon DEF ScansAhead, ProcInv

LEMMA QuietKeeps ==
  ASSUME ProcInv, NEW p \in Procs, Quiet(p)
  PROVE  ProcInv'
<1>1. ScansAhead' /\ scan' \in Procs \cup {NoProc}
  BY SwitchAhead, Zenon DEF Quiet
<1>2. ProcType'
  BY <1>1, Zenon DEF ProcInv, ProcType, Quiet
<1>3. ListIntact' /\ Family'
  BY Zenon DEF ProcInv, Quiet, ListIntact, Family
<1>4. \A q \in Procs : terminated[q] => terminated'[q]
  BY Zenon DEF Quiet
<1>5. EndsInOrder'
  BY <1>4 DEF ProcInv, ProcType, EndsInOrder, Quiet
<1>6. WaitsForChild'
  BY DEF ProcInv, WaitsForChild, Quiet
<1>7. InitRuns'
  BY Init0InProcs, Zenon DEF ProcInv, ProcType, InitRuns, Quiet
<1> QED BY <1>1, <1>2, <1>3, <1>5, <1>6, <1>7, Zenon DEF ProcInv

LEMMA QuietKeepsChild ==
  ASSUME ProcInv, ChildInv, NEW p \in Procs, Quiet(p)
  PROVE  ChildInv'
<1>1. Awaited'
  BY Zenon DEF ChildInv, Awaited, Quiet
<1>2. NoLostWakeup'
  BY Zenon DEF ChildInv, NoLostWakeup, Quiet, ProcInv, ProcType
<1>3. KernelKeepsRunning'
  BY Zenon DEF ChildInv, KernelKeepsRunning, Quiet
<1> QED BY <1>1, <1>2, <1>3, Zenon DEF ChildInv

\* handle_sig_pending changes only the caller.
SigEffect(p, hold, term, pending) ==
  /\ on_hold' \in [Procs -> BOOLEAN] /\ terminated' \in [Procs -> BOOLEAN]
  /\ sig_pending' \in [Procs -> Nat]
  /\ \A q \in Procs : term[q] => terminated'[q]
  /\ \A q \in Procs \ {p} : on_hold'[q] = hold[q] /\ terminated'[q] = term[q]
  /\ \A q \in Procs : sig_pending'[q] \in {0, pending[q]}
  /\ pending[p] # SIGKILL => on_hold' = hold /\ terminated' = term

LEMMA SigOutcome ==
  ASSUME NEW p \in Procs, NEW n, NEW hold \in [Procs -> BOOLEAN],
         NEW term \in [Procs -> BOOLEAN], NEW pending \in [Procs -> Nat],
         NEW handler, NEW saved,
         HandleSig(p, n, hold, term, pending, handler, saved)
  PROVE  SigEffect(p, hold, term, pending)
<1>1. \/ /\ on_hold' = hold /\ terminated' = term
         /\ sig_pending' = pending \/ sig_pending' = [pending EXCEPT ![p] = 0]
      \/ /\ on_hold' = [hold EXCEPT ![p] = TRUE] /\ terminated' = [term EXCEPT ![p] = TRUE]
         /\ sig_pending' = pending /\ pending[p] = SIGKILL
  BY Zenon DEF HandleSig
<1>2. CASE /\ on_hold' = hold /\ terminated' = term
           /\ sig_pending' = pending \/ sig_pending' = [pending EXCEPT ![p] = 0]
  <2>1. sig_pending' \in [Procs -> Nat] /\ \A q \in Procs : sig_pending'[q] \in {0, pending[q]}
    BY <1>2
  <2> QED BY <1>2, <2>1, Zenon DEF SigEffect
<1>3. CASE /\ on_hold' = [hold EXCEPT ![p] = TRUE] /\ terminated' = [term EXCEPT ![p] = TRUE]
           /\ sig_pending' = pending /\ pending[p] = SIGKILL
  <2>1. on_hold' \in [Procs -> BOOLEAN] /\ terminated' \in [Procs -> BOOLEAN]
    BY <1>3, Zenon
  <2>2. \A q \in Procs : term[q] => terminated'[q]
    BY <1>3, Zenon
  <2>3. \A q \in Procs \ {p} : on_hold'[q] = hold[q] /\ terminated'[q] = term[q]
    BY <1>3, Zenon
  <2> QED BY <1>3, <2>1, <2>2, <2>3, Zenon DEF SigEffect
<1> QED BY <1>1, <1>2, <1>3, Zenon

LEMMA SigQuiet ==
  ASSUME ProcInv, NEW p \in Procs, at[p] = "user",
         NEW n, NEW hold \in [Procs -> BOOLEAN],
         NEW term \in [Procs -> BOOLEAN], NEW pending \in [Procs -> Nat],
         NEW handler, NEW saved,
         HandleSig(p, n, hold, term, pending, handler, saved),
         \A q \in Procs \ {p} : (hold[q] => on_hold[q]) /\ term[q] = terminated[q],
         terminated[p] => term[p],
         p = Init0 => ~ hold[p] /\ ~ term[p],
         pending[Init0] # SIGKILL,
         UNCHANGED <<list, freed, current, cleaned, parent, id_wait_for, id_wait_for_p, at,
                     target, halted>>,
         Stay \/ Switch
  PROVE  Quiet(p)
<1>0. SigEffect(p, hold, term, pending)
  BY SigOutcome, Zenon
<1>1. /\ on_hold' \in [Procs -> BOOLEAN] /\ terminated' \in [Procs -> BOOLEAN]
      /\ sig_pending' \in [Procs -> Nat]
      /\ \A q \in Procs : term[q] => terminated'[q]
      /\ \A q \in Procs \ {p} : on_hold'[q] = hold[q] /\ terminated'[q] = term[q]
      /\ \A q \in Procs : sig_pending'[q] \in {0, pending[q]}
      /\ pending[p] # SIGKILL => on_hold' = hold /\ terminated' = term
  BY <1>0, Zenon DEF SigEffect
<1>2. sig_pending'[Init0] # SIGKILL
  BY <1>1, Init0InProcs DEF SIGKILL
<1>3. at' \in [Procs -> {"user", "wait", "pause"}] /\ at'[p] = "user"
  BY Zenon DEF ProcInv, ProcType
<1>4. p = Init0 => ~ on_hold'[p] /\ ~ terminated'[p]
  BY <1>1, Zenon
<1>5. scan' \in {NoProc, Successor(list, current)}
  BY Zenon DEF Stay, Switch
<1>6. terminated[p] => terminated'[p]
  BY <1>1, Zenon
<1>7. \A q \in Procs \ {p} : /\ terminated'[q] = terminated[q]
                             /\ at'[q] = at[q]
                             /\ on_hold'[q] => on_hold[q]
  BY <1>1, Zenon
<1> QED BY <1>1, <1>2, <1>3, <1>4, <1>5, <1>6, <1>7, Zenon DEF Quiet

LEMMA ReturnQuiet ==
  ASSUME ProcInv, NEW p \in Procs, at[p] = "user", ReturnFromSyscall(p),
         UNCHANGED <<list, freed, current, cleaned, parent, id_wait_for, id_wait_for_p, at,
                     target, halted>>,
         Stay \/ Switch
  PROVE  Quiet(p)
<1>1. /\ on_hold \in [Procs -> BOOLEAN] /\ terminated \in [Procs -> BOOLEAN]
      /\ sig_pending \in [Procs -> Nat]
      /\ ~ on_hold[Init0] /\ ~ terminated[Init0] /\ sig_pending[Init0] # SIGKILL
  BY Zenon DEF ProcInv, ProcType, InitRuns
<1>2. HandleSig(p, Syscall, on_hold, terminated, sig_pending, sig_handler, int_num)
  BY Zenon DEF ReturnFromSyscall
<1> QED BY <1>1, <1>2, SigQuiet, Zenon

QuietSteps(p) ==
  \/ Exit(p) \/ Crash(p) \/ Segv(p) \/ WaitFails(p)
  \/ \E t \in Timeouts : Pause(p, t) \/ Alarm(p, t)
  \/ \E q \in Procs, sig \in Sigs : Kill(p, q, sig)
  \/ SetHandler(p) \/ SigReturn(p) \/ OtherCall(p)

LEMMA QuietStepsAre ==
  ASSUME ProcInv, NEW p \in Procs, QuietSteps(p)
  PROVE  Quiet(p)
<1>1. /\ on_hold \in [Procs -> BOOLEAN] /\ terminated \in [Procs -> BOOLEAN]
      /\ sig_pending \in [Procs -> Nat]
      /\ ~ on_hold[Init0] /\ ~ terminated[Init0] /\ sig_pending[Init0] # SIGKILL
  BY Zenon DEF ProcInv, ProcType, InitRuns
<1>2. at[p] = "user"
  BY Zenon DEF QuietSteps, Exit, Crash, Segv, WaitFails, Pause, Alarm, Kill, SetHandler,
         SigReturn, OtherCall, Calls, Runs
<1>3. CASE Exit(p)
  <2> DEFINE hold == Ended(on_hold, p)
             term == Ended(terminated, p)
  <2>1. hold \in [Procs -> BOOLEAN] /\ term \in [Procs -> BOOLEAN] /\ term[p]
        /\ \A q \in Procs \ {p} : (hold[q] => on_hold[q]) /\ term[q] = terminated[q]
    BY <1>1, Zenon DEF Ended
  <2>2. /\ HandleSig(p, Syscall, hold, term, sig_pending, sig_handler, int_num) /\ p # Init0
        /\ UNCHANGED <<list, freed, current, cleaned, parent, id_wait_for, id_wait_for_p, at,
                       target, halted>>
        /\ Switch
    BY <1>3, Zenon DEF Exit, Calls
  <2> HIDE DEF hold, term
  <2> QED BY <1>1, <1>2, <2>1, <2>2, SigQuiet, Zenon
<1>4. CASE Crash(p)
  <2>1. /\ p # Init0 /\ Switch
        /\ on_hold' = Ended(on_hold, p) /\ terminated' = Ended(terminated, p)
        /\ sig_pending' = sig_pending
        /\ UNCHANGED <<list, freed, current, cleaned, parent, id_wait_for, id_wait_for_p, at,
                       target, halted>>
    BY <1>4, Zenon DEF Crash, Calls, sigVars
  <2>2. /\ on_hold' \in [Procs -> BOOLEAN] /\ terminated' \in [Procs -> BOOLEAN]
        /\ terminated'[p]
        /\ \A q \in Procs \ {p} : (on_hold'[q] => on_hold[q]) /\ terminated'[q] = terminated[q]
    BY <1>1, <2>1, Zenon DEF Ended
  <2> QED BY <1>1, <1>2, <2>1, <2>2, Zenon DEF Quiet, Switch, ProcInv, ProcType
<1>5. CASE Segv(p)
  <2>1. /\ p # Init0 /\ Switch
        /\ UNCHANGED <<list, freed, current, cleaned, parent, id_wait_for, id_wait_for_p, at,
                       target, halted>>
    BY <1>5, Zenon DEF Segv, Calls
  <2>2. CASE sig_handler[p]
    <3> DEFINE hold == [on_hold EXCEPT ![p] = FALSE]
               term == terminated
               pending == [sig_pending EXCEPT ![p] = SIGSEGV]
    <3>1. /\ hold \in [Procs -> BOOLEAN] /\ term \in [Procs -> BOOLEAN]
          /\ pending \in [Procs -> Nat]
          /\ \A q \in Procs \ {p} : (hold[q] => on_hold[q]) /\ term[q] = terminated[q]
          /\ terminated[p] => term[p]
          /\ pending[Init0] # SIGKILL
      BY <1>1, Init0InProcs, <2>1, Zenon DEF SIGSEGV
    <3>2. HandleSig(p, PageFault, hold, term, pending, sig_handler, int_num)
      BY <1>5, <2>2, Zenon DEF Segv
    <3> HIDE DEF hold, term, pending
    <3> QED BY <1>1, <1>2, <2>1, <3>1, <3>2, SigQuiet, Zenon
  <2>3. CASE ~ sig_handler[p]
    <3> DEFINE hold == Ended(on_hold, p)
               term == Ended(terminated, p)
    <3>1. hold \in [Procs -> BOOLEAN] /\ term \in [Procs -> BOOLEAN] /\ term[p]
          /\ \A q \in Procs \ {p} : (hold[q] => on_hold[q]) /\ term[q] = terminated[q]
      BY <1>1, Zenon DEF Ended
    <3>2. HandleSig(p, PageFault, hold, term, sig_pending, sig_handler, int_num)
      BY <1>5, <2>3, Zenon DEF Segv
    <3> HIDE DEF hold, term
    <3> QED BY <1>1, <1>2, <2>1, <3>1, <3>2, SigQuiet, Zenon
  <2> QED BY <2>2, <2>3, Zenon
<1>6. CASE WaitFails(p) \/ OtherCall(p)
  BY <1>2, <1>6, ReturnQuiet, Zenon DEF WaitFails, OtherCall
<1>7. ASSUME NEW t \in Timeouts, Pause(p, t) PROVE Quiet(p)
  <2>1. /\ p # Init0 /\ Switch
        /\ on_hold' = [on_hold EXCEPT ![p] = TRUE] /\ at' = [at EXCEPT ![p] = "pause"]
        /\ UNCHANGED <<list, freed, current, terminated, cleaned, parent, id_wait_for,
                       id_wait_for_p, target, sig_pending, halted>>
    BY <1>7, Zenon DEF Pause, Calls, sigVars
  <2>2. /\ at' \in [Procs -> {"user", "wait", "pause"}] /\ at'[p] = "pause"
        /\ on_hold' \in [Procs -> BOOLEAN]
        /\ \A q \in Procs \ {p} : on_hold'[q] = on_hold[q] /\ at'[q] = at[q]
    BY <1>1, <2>1, Zenon DEF ProcInv, ProcType
  <2> QED BY <1>1, <2>1, <2>2, Zenon DEF Quiet, Switch
<1>8. ASSUME NEW t \in Timeouts, Alarm(p, t) PROVE Quiet(p)
  BY <1>2, <1>8, ReturnQuiet, Zenon DEF Alarm
<1>9. ASSUME NEW q \in Procs, NEW sig \in Sigs, Kill(p, q, sig) PROVE Quiet(p)
  <2> DEFINE pending == [sig_pending EXCEPT ![q] = sig]
  <2>1. sig \in Nat /\ q # Init0
    BY <1>9, ProcessesAssumption, Zenon DEF Kill
  <2>2. pending \in [Procs -> Nat] /\ pending[Init0] # SIGKILL
    BY <1>1, <2>1, Init0InProcs, Zenon
  <2>3. /\ HandleSig(p, Syscall, on_hold, terminated, pending, sig_handler, int_num) /\ Stay
        /\ UNCHANGED <<list, freed, current, cleaned, parent, id_wait_for, id_wait_for_p, at,
                       target, halted>>
    BY <1>9, Zenon DEF Kill
  <2> HIDE DEF pending
  <2> QED BY <1>1, <1>2, <2>2, <2>3, SigQuiet, Zenon
<1>10. CASE SetHandler(p)
  <2>1. /\ HandleSig(p, Syscall, on_hold, terminated, sig_pending,
                     [sig_handler EXCEPT ![p] = TRUE], int_num)
        /\ Stay
        /\ UNCHANGED <<list, freed, current, cleaned, parent, id_wait_for, id_wait_for_p, at,
                       target, halted>>
    BY <1>10, Zenon DEF SetHandler
  <2> QED BY <1>1, <1>2, <2>1, SigQuiet, Zenon
<1>11. CASE SigReturn(p)
  <2>1. /\ HandleSig(p, int_num[p], on_hold, terminated, sig_pending, sig_handler,
                     [int_num EXCEPT ![p] = 0])
        /\ Stay
        /\ UNCHANGED <<list, freed, current, cleaned, parent, id_wait_for, id_wait_for_p, at,
                       target, halted>>
    BY <1>11, Zenon DEF SigReturn
  <2> QED BY <1>1, <1>2, <2>1, SigQuiet
<1> QED BY <1>3, <1>4, <1>5, <1>6, <1>7, <1>8, <1>9, <1>10, <1>11, Zenon DEF QuietSteps

LEMMA TickQuiet ==
  ASSUME ProcInv, Tick
  PROVE  Quiet(current)
<1> DEFINE woken == {w.proc : w \in Woken(waiters)}
           alarmed == {w.proc : w \in {w \in Woken(waiters) : w.is_alarm}}
           hold == [p \in Procs |-> on_hold[p] /\ p \notin woken]
           term == terminated
           pending == [p \in Procs |-> IF p \in alarmed THEN SIGALRM ELSE sig_pending[p]]
<1>1. /\ on_hold \in [Procs -> BOOLEAN] /\ terminated \in [Procs -> BOOLEAN]
      /\ sig_pending \in [Procs -> Nat] /\ current \in Procs
      /\ ~ on_hold[Init0] /\ ~ terminated[Init0] /\ sig_pending[Init0] # SIGKILL
  BY Zenon DEF ProcInv, ProcType, InitRuns
<1>2. /\ HandleSig(current, IRQ0, hold, term, pending, sig_handler, int_num) /\ Switch
      /\ at[current] = "user"
      /\ UNCHANGED <<list, freed, current, cleaned, parent, id_wait_for, id_wait_for_p, at,
                     target, halted>>
  BY Zenon DEF Tick, Runs
<1> HIDE DEF woken, alarmed
<1>3. /\ hold \in [Procs -> BOOLEAN] /\ term \in [Procs -> BOOLEAN]
      /\ \A q \in Procs : hold[q] => on_hold[q]
      /\ \A q \in Procs : term[q] = terminated[q]
  BY <1>1, Zenon
<1>4. pending \in [Procs -> Nat] /\ pending[Init0] # SIGKILL
  BY <1>1, Init0InProcs DEF SIGALRM, SIGKILL
<1> HIDE DEF hold, term, pending
<1>5. /\ \A q \in Procs \ {current} : (hold[q] => on_hold[q]) /\ term[q] = terminated[q]
      /\ terminated[current] => term[current]
      /\ current = Init0 => ~ hold[current] /\ ~ term[current]
  BY <1>1, <1>3, Zenon
<1> QED BY <1>1, <1>2, <1>3, <1>4, <1>5, SigQuiet, Zenon

LEMMA CtrlCQuiet ==
  ASSUME ProcInv, NEW q \in Procs, CtrlC(q)
  PROVE  Quiet(current)
<1>1. /\ on_hold \in [Procs -> BOOLEAN] /\ terminated \in [Procs -> BOOLEAN]
      /\ sig_pending \in [Procs -> Nat] /\ current \in Procs
      /\ at \in [Procs -> {"user", "wait", "pause"}]
      /\ ~ on_hold[Init0] /\ ~ terminated[Init0] /\ sig_pending[Init0] # SIGKILL
  BY Zenon DEF ProcInv, ProcType, InitRuns
<1>2. /\ at[current] = "user" /\ q # Init0 /\ scan' = NoProc
      /\ sig_pending' = [sig_pending EXCEPT ![q] = SIGINT]
      /\ on_hold' = [on_hold EXCEPT ![q] = FALSE]
      /\ UNCHANGED <<list, freed, current, terminated, cleaned, parent, id_wait_for,
                     id_wait_for_p, at, target, halted>>
  BY Zenon DEF CtrlC, Runs, procVars
<1>3. sig_pending' \in [Procs -> Nat] /\ sig_pending'[Init0] # SIGKILL
  BY <1>1, <1>2, Init0InProcs, Zenon DEF SIGINT
<1>4. on_hold' \in [Procs -> BOOLEAN] /\ \A p \in Procs : on_hold'[p] => on_hold[p]
  BY <1>1, <1>2, Zenon
<1> QED BY <1>1, <1>2, <1>3, <1>4, Zenon DEF Quiet

LEMMA ResumePauseQuiet ==
  ASSUME ProcInv, NEW p \in Procs, ResumePause(p)
  PROVE  Quiet(p)
<1>1. /\ on_hold \in [Procs -> BOOLEAN] /\ terminated \in [Procs -> BOOLEAN]
      /\ sig_pending \in [Procs -> Nat] /\ at \in [Procs -> {"user", "wait", "pause"}]
      /\ sig_pending[Init0] # SIGKILL /\ at[Init0] = "user"
  BY Zenon DEF ProcInv, ProcType, InitRuns
<1>2. /\ at[p] = "pause" /\ Stay /\ at' = [at EXCEPT ![p] = "user"]
      /\ HandleSig(p, Syscall, on_hold, terminated, sig_pending, sig_handler, int_num)
      /\ UNCHANGED <<list, freed, current, cleaned, parent, id_wait_for, id_wait_for_p,
                     target, halted>>
  BY Zenon DEF ResumePause, Resumes, ReturnFromSyscall
<1>3. SigEffect(p, on_hold, terminated, sig_pending)
  BY <1>1, <1>2, SigOutcome, Zenon
<1>4. /\ at' \in [Procs -> {"user", "wait", "pause"}] /\ at'[p] = "user" /\ p # Init0
      /\ \A q \in Procs \ {p} : at'[q] = at[q]
  BY <1>1, <1>2, Zenon
<1>5. sig_pending'[Init0] # SIGKILL
  BY <1>1, <1>3, Init0InProcs DEF SigEffect, SIGKILL
<1> QED BY <1>1, <1>2, <1>3, <1>4, <1>5, Zenon DEF Quiet, SigEffect, Stay
-----------------------------------------------------------------------------
(***************************************************************************)
(* The scheduler.                                                          *)
(***************************************************************************)
LEMMA CleanupIs ==
  ASSUME ProcInv, NEW q \in Procs, Cleanup(q)
  PROVE  /\ cleaned' = [cleaned EXCEPT ![q] = TRUE]
         /\ on_hold' \in [Procs -> BOOLEAN]
         /\ id_wait_for_p' \in [Procs -> Procs \cup {NoProc}]
         /\ \A p \in Procs : on_hold'[p] => on_hold[p]
         /\ \A p \in Procs : id_wait_for_p'[p] \in {id_wait_for_p[p], q}
<1>1. /\ on_hold \in [Procs -> BOOLEAN]
      /\ id_wait_for_p \in [Procs -> Procs \cup {NoProc}]
  BY Zenon DEF ProcInv, ProcType
<1>2. parent[q] # NoProc => parent[q] \in Procs
  BY Zenon DEF ProcInv, ProcType
<1>3. \/ /\ parent[q] # NoProc
         /\ on_hold' = [on_hold EXCEPT ![parent[q]] = FALSE]
         /\ id_wait_for_p' = [id_wait_for_p EXCEPT ![parent[q]] = q]
      \/ on_hold' = on_hold /\ id_wait_for_p' = id_wait_for_p
  BY Zenon DEF Cleanup
<1>4. cleaned' = [cleaned EXCEPT ![q] = TRUE]
  BY Zenon DEF Cleanup
<1>5. CASE /\ parent[q] # NoProc
           /\ on_hold' = [on_hold EXCEPT ![parent[q]] = FALSE]
           /\ id_wait_for_p' = [id_wait_for_p EXCEPT ![parent[q]] = q]
  <2>1. on_hold' \in [Procs -> BOOLEAN] /\ \A p \in Procs : on_hold'[p] => on_hold[p]
    BY <1>1, <1>5, Zenon
  <2>2. /\ id_wait_for_p' \in [Procs -> Procs \cup {NoProc}]
        /\ \A p \in Procs : id_wait_for_p'[p] \in {id_wait_for_p[p], q}
    BY <1>1, <1>5, Zenon
  <2> QED BY <1>4, <2>1, <2>2, Zenon
<1>6. CASE on_hold' = on_hold /\ id_wait_for_p' = id_wait_for_p
  BY <1>1, <1>4, <1>6, Zenon
<1> QED BY <1>3, <1>5, <1>6, Zenon

\* A turn of the loop passes a process that cannot run, or is the last.
Passes ==
  /\ scan # current /\ ~ Runnable(scan) /\ scan' = Successor(list, scan)
  /\ \/ terminated[scan] /\ ~ cleaned[scan] /\ Cleanup(scan)
     \/ UNCHANGED <<on_hold, cleaned, id_wait_for_p>>
  /\ UNCHANGED <<current, halted>>
Chooses ==
  /\ scan = current \/ Runnable(scan)
  /\ IF on_hold[scan] THEN halted' = "panic" /\ UNCHANGED current
     ELSE current' = scan /\ UNCHANGED halted
  /\ scan' = NoProc
  /\ UNCHANGED <<on_hold, cleaned, id_wait_for_p>>

LEMMA ScanIs ==
  ASSUME Scan
  PROVE  /\ scan # NoProc /\ (Passes \/ Chooses)
         /\ UNCHANGED <<list, freed, terminated, parent, id_wait_for, at, target, sigVars>>
<1>1. scan # NoProc
      /\ UNCHANGED <<list, freed, terminated, parent, id_wait_for, at, target, sigVars>>
  BY Zenon DEF Scan
<1>2. CASE scan = current \/ Runnable(scan)
  BY <1>1, <1>2, Zenon DEF Scan, Chooses, Stay
<1>3. CASE ~ (scan = current \/ Runnable(scan))
  BY <1>1, <1>3, Zenon DEF Scan, Passes
<1> QED BY <1>1, <1>2, <1>3, Zenon

\* The scan passes no runnable process, so it never gets past /bin/init and back
\* to where it started.
LEMMA PassAhead ==
  ASSUME ProcInv, scan # NoProc, Passes, list' = list
  PROVE  /\ scan' \in Range(list) /\ scan \in Range(list) /\ scan # current
         /\ \/ scan' = Init0
            \/ \E i, j \in DOMAIN list :
                 i < j /\ list[i] = current /\ list[j] = scan'
<1>1. /\ list \in Seq(Procs) /\ Head(list) = Init0 /\ IsInjective(list)
      /\ scan \in Range(list) /\ scan # current
      /\ \/ scan = Init0
         \/ \E i, j \in DOMAIN list : i < j /\ list[i] = current /\ list[j] = scan
      /\ scan' = Successor(list, scan)
  BY Zenon DEF ProcInv, ProcType, ListIntact, ScansAhead, Passes
<1>2. scan # Init0
  BY Zenon DEF ProcInv, InitRuns, Passes, Runnable
<1>3. PICK i, j \in DOMAIN list : i < j /\ list[i] = current /\ list[j] = scan
  BY <1>1, <1>2, Zenon
<1>4. /\ scan' \in Range(list)
      /\ \/ scan' = Head(list)
         \/ \E k, m \in DOMAIN list : k < m /\ list[k] = scan /\ list[m] = scan'
  BY <1>1, SuccessorIs
<1>5. CASE scan' = Head(list)
  BY <1>1, <1>4, <1>5, Zenon
<1>6. CASE \E k, m \in DOMAIN list : k < m /\ list[k] = scan /\ list[m] = scan'
  <2>1. PICK k, m \in DOMAIN list : k < m /\ list[k] = scan /\ list[m] = scan'
    BY <1>6, Zenon
  <2>2. k = j
    BY <1>1, <1>3, <2>1, Zenon DEF IsInjective
  <2>3. i < m
    <3>1. i \in Int /\ j \in Int /\ m \in Int
      BY <1>1
    <3> QED BY <1>3, <2>1, <2>2, <3>1
  <2> QED BY <1>1, <1>3, <1>4, <2>1, <2>3, Zenon
<1> QED BY <1>4, <1>5, <1>6, Zenon

LEMMA ScanKeeps ==
  ASSUME ProcInv, Scan
  PROVE  ProcInv'
<1>1. /\ scan # NoProc /\ (Passes \/ Chooses)
      /\ UNCHANGED <<list, freed, terminated, parent, id_wait_for, at, target, sigVars>>
  BY ScanIs, Zenon
<1>2. scan \in Range(list) /\ Range(list) \subseteq Procs /\ scan \in Procs
  <2>1. list \in Seq(Procs) /\ scan \in Range(list)
    BY <1>1, Zenon DEF ProcInv, ScansAhead, ProcType
  <2> QED BY <2>1 DEF Range
<1>3. Family' /\ WaitsForChild'
  BY <1>1, Zenon DEF ProcInv, Family, WaitsForChild
<1>4. ListIntact'
  BY <1>1, Zenon DEF ProcInv, ListIntact
<1>5. CASE Chooses
  <2>1. /\ current' \in {scan, current} /\ scan' = NoProc
        /\ UNCHANGED <<on_hold, cleaned, id_wait_for_p>>
    BY <1>5, Zenon DEF Chooses
  <2>2. ScansAhead'
    <3>1. ~ cleaned[scan]
      BY <1>2, <1>5, Zenon DEF Chooses, Runnable, ProcInv, EndsInOrder, ScansAhead
    <3> QED BY <1>1, <1>2, <2>1, <3>1, Zenon DEF ProcInv, ScansAhead
  <2>3. ProcType'
    BY <1>1, <1>2, <2>1, Zenon DEF ProcInv, ProcType, sigVars
  <2>4. EndsInOrder' /\ InitRuns'
    BY <1>1, <2>1, Zenon DEF ProcInv, EndsInOrder, InitRuns, sigVars
  <2> QED BY <1>3, <1>4, <2>2, <2>3, <2>4, Zenon DEF ProcInv
<1>6. CASE Passes
  <2>1. /\ scan' \in Range(list) /\ scan # current /\ current' = current
        /\ \/ scan' = Init0
           \/ \E i, j \in DOMAIN list :
                i < j /\ list[i] = current /\ list[j] = scan'
    BY <1>1, <1>6, PassAhead, Zenon DEF Passes
  <2>2. CASE UNCHANGED <<on_hold, cleaned, id_wait_for_p>>
    <3>1. ScansAhead'
      BY <1>1, <2>1, <2>2, Zenon DEF ProcInv, ScansAhead
    <3>2. ProcType'
      BY <1>1, <1>2, <2>1, <2>2, Zenon DEF ProcInv, ProcType, sigVars
    <3>3. EndsInOrder' /\ InitRuns'
      BY <1>1, <2>2, Zenon DEF ProcInv, EndsInOrder, InitRuns, sigVars
    <3> QED BY <1>3, <1>4, <3>1, <3>2, <3>3, Zenon DEF ProcInv
  <2>3. CASE terminated[scan] /\ Cleanup(scan)
    <3>1. /\ cleaned' = [cleaned EXCEPT ![scan] = TRUE]
          /\ on_hold' \in [Procs -> BOOLEAN]
          /\ id_wait_for_p' \in [Procs -> Procs \cup {NoProc}]
          /\ \A p \in Procs : on_hold'[p] => on_hold[p]
          /\ \A p \in Procs : id_wait_for_p'[p] \in {id_wait_for_p[p], scan}
      BY <1>2, <2>3, CleanupIs, Zenon
    <3>2. cleaned' \in [Procs -> BOOLEAN] /\ \A q \in Procs \ {scan} : cleaned'[q] = cleaned[q]
      BY <3>1, Zenon DEF ProcInv, ProcType
    <3>3. ScansAhead'
      <4>1. current \in Procs
        BY Zenon DEF ProcInv, ProcType
      <4>2. current \in Range(list) /\ ~ cleaned[current]
        BY Zenon DEF ProcInv, ScansAhead
      <4> QED BY <1>1, <2>1, <3>2, <4>1, <4>2, Zenon DEF ScansAhead
    <3>4. ProcType'
      BY <1>1, <1>2, <2>1, <3>1, <3>2, Zenon DEF ProcInv, ProcType, sigVars
    <3>5. EndsInOrder'
      BY <1>1, <2>3, <3>1, <3>2, Zenon DEF ProcInv, EndsInOrder
    <3>6. InitRuns'
      BY <1>1, <3>1, Init0InProcs, Zenon DEF ProcInv, InitRuns, sigVars
    <3> QED BY <1>3, <1>4, <3>3, <3>4, <3>5, <3>6, Zenon DEF ProcInv
  <2> QED BY <1>6, <2>2, <2>3, Zenon DEF Passes
<1> QED BY <1>1, <1>5, <1>6, Zenon

LEMMA ScanKeepsChild ==
  ASSUME ProcInv, ChildInv, Scan
  PROVE  ChildInv'
<1>1. /\ scan # NoProc /\ (Passes \/ Chooses)
      /\ UNCHANGED <<list, freed, terminated, parent, id_wait_for, at, target, sigVars>>
  BY ScanIs, Zenon
<1>2. scan \in Range(list) /\ scan \in Procs
  <2>1. list \in Seq(Procs) /\ scan \in Range(list)
    BY <1>1, Zenon DEF ProcInv, ScansAhead, ProcType
  <2> QED BY <2>1 DEF Range
<1>3. CASE Chooses
  <2>1. ~ on_hold[scan]
    <3>1. CASE Runnable(scan)
      BY <3>1, Zenon DEF Runnable
    <3>2. CASE scan = current
      <4>1. list \in Seq(Procs) /\ IsInjective(list)
        BY Zenon DEF ProcInv, ProcType, ListIntact
      <4>2. scan = Init0
        BY <1>1, <3>2, <4>1 DEF ProcInv, ScansAhead, IsInjective
      <4> QED BY <4>2, Zenon DEF ProcInv, InitRuns
    <3> QED BY <1>3, <3>1, <3>2, Zenon DEF Chooses
  <2>2. UNCHANGED <<on_hold, cleaned, id_wait_for_p, halted>>
    BY <1>3, <2>1, Zenon DEF Chooses
  <2> QED BY <1>1, <2>2, Zenon DEF ChildInv, Awaited, NoLostWakeup, KernelKeepsRunning
<1>4. CASE Passes /\ UNCHANGED <<on_hold, cleaned, id_wait_for_p>>
  BY <1>1, <1>4, Zenon DEF Passes, ChildInv, Awaited, NoLostWakeup, KernelKeepsRunning
<1>5. CASE Passes /\ terminated[scan] /\ Cleanup(scan)
  <2>1. KernelKeepsRunning'
    BY <1>5, Zenon DEF Passes, ChildInv, KernelKeepsRunning
  <2>2. /\ cleaned' = [cleaned EXCEPT ![scan] = TRUE]
        /\ on_hold' \in [Procs -> BOOLEAN]
        /\ id_wait_for_p' \in [Procs -> Procs \cup {NoProc}]
        /\ \A p \in Procs : on_hold'[p] => on_hold[p]
        /\ \A p \in Procs : id_wait_for_p'[p] \in {id_wait_for_p[p], scan}
    BY <1>2, <1>5, CleanupIs, Zenon
  <2>3. ASSUME NEW p \in Procs, at[p] = "wait", id_wait_for_p'[p] # id_wait_for_p[p]
        PROVE  id_wait_for_p'[p] = scan /\ target[p] = scan
    <3>1. id_wait_for_p'[p] = scan
      BY <2>2, <2>3, Zenon
    <3>2. parent[scan] = p /\ id_wait_for[p] \in {scan, AnyChild}
      <4>1. /\ parent[scan] # NoProc /\ id_wait_for[parent[scan]] \in {scan, AnyChild}
            /\ id_wait_for_p' = [id_wait_for_p EXCEPT ![parent[scan]] = scan]
        BY <1>5, <2>3, Zenon DEF Cleanup, ParentWaits
      <4>2. parent[scan] = p
        BY <2>3, <4>1, Zenon DEF ProcInv, ProcType
      <4> QED BY <4>1, <4>2, Zenon
    <3>3. target[p] \in Procs /\ id_wait_for[p] = target[p]
      <4>1. list \in Seq(Procs) /\ target[p] \in Range(list) /\ id_wait_for[p] = target[p]
        BY <2>3, Zenon DEF ProcInv, ProcType, WaitsForChild, ChildInv, Awaited
      <4> QED BY <4>1 DEF Range
    <3> QED BY <3>1, <3>2, <3>3, Init0InProcs, Zenon DEF AnyChild, NoProc
  <2>4. Awaited'
    BY <1>1, <2>3, Zenon DEF ChildInv, Awaited
  <2>5. NoLostWakeup'
    <3> SUFFICES ASSUME NEW p \in Procs \ freed, at[p] = "wait", cleaned'[target[p]]
                 PROVE  /\ id_wait_for_p'[p] = target[p]
                        /\ terminated[p] \/ ~ on_hold'[p]
      BY <1>1, Zenon DEF NoLostWakeup
    <3>1. target[p] \in Procs /\ parent[target[p]] = p /\ id_wait_for[p] = target[p]
      <4>1. /\ list \in Seq(Procs) /\ target[p] \in Range(list)
            /\ parent[target[p]] = p /\ id_wait_for[p] = target[p]
        BY Zenon DEF ProcInv, ProcType, WaitsForChild, ChildInv, Awaited
      <4> QED BY <4>1 DEF Range
    <3>2. CASE target[p] = scan
      <4>1. p # NoProc
        BY Init0InProcs, Zenon
      <4>2. ParentWaits(scan) /\ parent[scan] = p
        BY <3>1, <3>2, Zenon DEF ParentWaits
      <4>3. /\ on_hold' = [on_hold EXCEPT ![p] = FALSE]
            /\ id_wait_for_p' = [id_wait_for_p EXCEPT ![p] = scan]
        BY <1>5, <4>1, <4>2, Zenon DEF Cleanup
      <4> QED BY <3>2, <4>3, Zenon DEF ProcInv, ProcType
    <3>3. CASE target[p] # scan
      <4>1. cleaned[target[p]]
        BY <2>2, <3>1, <3>3, Zenon DEF ProcInv, ProcType
      <4>2. id_wait_for_p[p] = target[p] /\ (terminated[p] \/ ~ on_hold[p])
        BY <4>1, Zenon DEF ChildInv, NoLostWakeup
      <4>3. id_wait_for_p'[p] = id_wait_for_p[p]
        BY <2>3, <3>3, Zenon
      <4> QED BY <2>2, <4>2, <4>3, Zenon
    <3> QED BY <3>2, <3>3, Zenon
  <2> QED BY <2>1, <2>4, <2>5, Zenon DEF ChildInv
<1> QED BY <1>1, <1>3, <1>4, <1>5, Zenon DEF Passes
-----------------------------------------------------------------------------
(***************************************************************************)
(* fork and wait.                                                          *)
(***************************************************************************)
LEMMA Listed ==
  ASSUME ProcInv
  PROVE  /\ list \in Seq(Procs) /\ IsInjective(list) /\ list # <<>>
         /\ Head(list) = Init0 /\ Range(list) \subseteq Procs
         /\ Range(list) = {p \in Procs : p = Init0 \/ parent[p] # NoProc} \ freed
         /\ current \in Range(list) /\ current \in Procs
<1>1. /\ list \in Seq(Procs) /\ IsInjective(list) /\ Head(list) = Init0
      /\ Range(list) = {p \in Procs : p = Init0 \/ parent[p] # NoProc} \ freed
      /\ current \in Range(list) /\ current \in Procs
  BY Zenon DEF ProcInv, ProcType, ListIntact, ScansAhead
<1>2. list # <<>>
  BY <1>1 DEF Range
<1> QED BY <1>1, <1>2, Zenon

LEMMA ForkKeeps ==
  ASSUME ProcInv, NEW p \in Procs, NEW c \in Procs, Fork(p, c)
  PROVE  ProcInv' /\ (ChildInv => ChildInv')
<1>1. /\ on_hold \in [Procs -> BOOLEAN] /\ terminated \in [Procs -> BOOLEAN]
      /\ sig_pending \in [Procs -> Nat] /\ parent \in [Procs -> Procs \cup {NoProc}]
      /\ sig_pending[Init0] # SIGKILL
  BY Zenon DEF ProcInv, ProcType, InitRuns
<1>2. /\ p = current /\ at[p] = "user" /\ c \notin Range(list) /\ c \notin freed
      /\ list' = Append(list, c) /\ parent' = [parent EXCEPT ![c] = p]
      /\ scan' = Successor(list', p)
      /\ HandleSig(p, Syscall, on_hold, terminated, sig_pending, sig_handler, int_num)
      /\ UNCHANGED <<freed, current, cleaned, id_wait_for, id_wait_for_p, at, target, halted>>
  BY Zenon DEF Fork, Runs, Created, ReturnFromSyscall
<1>3. SigEffect(p, on_hold, terminated, sig_pending)
  BY <1>1, <1>2, SigOutcome, Zenon
<1>4. /\ list \in Seq(Procs) /\ IsInjective(list) /\ list # <<>>
      /\ Head(list) = Init0 /\ Range(list) \subseteq Procs
      /\ Range(list) = {q \in Procs : q = Init0 \/ parent[q] # NoProc} \ freed
      /\ current \in Range(list)
  BY Listed, Zenon
<1>5. /\ list' \in Seq(Procs) /\ IsInjective(list') /\ Head(list') = Init0
      /\ Range(list') = Range(list) \cup {c}
  BY <1>2, <1>4, AppendIs, Zenon
<1>6. c # Init0 /\ parent[c] = NoProc /\ c # p
  BY <1>2, <1>4, Zenon
<1>7. /\ parent' \in [Procs -> Procs \cup {NoProc}] /\ parent'[c] = p /\ p # NoProc
      /\ \A q \in Procs \ {c} : parent'[q] = parent[q]
  BY <1>1, <1>2, Init0InProcs, Zenon
<1>8. ListIntact'
  <2>1. Range(list') = {q \in Procs : q = Init0 \/ parent'[q] # NoProc} \ freed
    BY <1>2, <1>4, <1>5, <1>6, <1>7
  <2> QED BY <1>2, <1>5, <2>1, Zenon DEF ListIntact
<1> DEFINE m == Append(list, c)
<1>0. /\ scan' \in Range(m) /\ m = list'
      /\ \/ scan' = Head(m)
         \/ \E i, j \in DOMAIN m : i < j /\ m[i] = p /\ m[j] = scan'
  <2>1. m \in Seq(Procs) /\ p \in Range(m) /\ m = list' /\ scan' = Successor(m, p)
    BY <1>2, <1>4, <1>5, Zenon
  <2> HIDE DEF m
  <2> QED BY <2>1, SuccessorIs
<1> HIDE DEF m
<1>9. ScansAhead'
  <2>1. ~ cleaned[current]
    BY Zenon DEF ProcInv, ScansAhead
  <2> QED BY <1>0, <1>2, <1>4, <1>5, <2>1, Zenon DEF ScansAhead
<1>10. ProcType'
  <2>1. scan' \in Procs
    BY <1>0, <1>4, <1>5, Zenon
  <2> QED BY <1>2, <1>3, <1>5, <1>7, <2>1, Zenon DEF ProcInv, ProcType, SigEffect
<1>11. EndsInOrder'
  <2>1. \A q \in Procs : terminated[q] => terminated'[q]
    BY <1>3, Zenon DEF SigEffect
  <2>2. freed \subseteq Procs /\ c \notin freed
    BY <1>2, Zenon DEF ProcInv, ProcType
  <2> QED BY <1>2, <1>7, <2>1, <2>2 DEF ProcInv, ProcType, EndsInOrder
<1>12. Family'
  BY <1>6, <1>7, Init0InProcs, Zenon DEF ProcInv, Family
<1>13. WaitsForChild'
  <2>1. \A q \in Procs : at[q] = "wait" =>
          target[q] \in Range(list) /\ parent[target[q]] = q
    BY Zenon DEF ProcInv, WaitsForChild
  <2>2. at' = at /\ target' = target /\ c \notin Range(list)
    BY <1>2, Zenon
  <2>3. \A r \in Range(list) : r \in Range(list') /\ parent'[r] = parent[r]
    BY <1>4, <1>5, <1>7, <2>2, Zenon
  <2> QED BY ONLY <2>1, <2>2, <2>3, Zenon DEF WaitsForChild
<1>14. InitRuns'
  <2>1. on_hold'[Init0] = on_hold[Init0] /\ terminated'[Init0] = terminated[Init0]
    BY <1>1, <1>3, Init0InProcs, Zenon DEF SigEffect
  <2>2. sig_pending'[Init0] # SIGKILL
    BY <1>1, <1>3, Init0InProcs DEF SigEffect, SIGKILL
  <2> QED BY <1>2, <2>1, <2>2, Zenon DEF ProcInv, InitRuns
<1>15. ASSUME ChildInv PROVE ChildInv'
  <2>1. Awaited' /\ KernelKeepsRunning'
    BY <1>2, <1>15, Zenon DEF ChildInv, Awaited, KernelKeepsRunning
  <2>2. NoLostWakeup'
    BY <1>2, <1>3, <1>15, Zenon DEF ChildInv, NoLostWakeup, SigEffect
  <2> QED BY <2>1, <2>2, Zenon DEF ChildInv
<1> QED BY <1>8, <1>9, <1>10, <1>11, <1>12, <1>13, <1>14, <1>15, Zenon DEF ProcInv

\* sys_wait of p unlinks and frees its child t and returns.
Reaps(p, t) ==
  /\ p = current /\ t \in Range(list) /\ parent[t] = p /\ terminated[t]
  /\ list' = Without(t) /\ freed' = freed \cup {t} /\ scan' = NoProc
  /\ HandleSig(p, Syscall, on_hold, terminated, sig_pending, sig_handler, int_num)
  /\ at' = [at EXCEPT ![p] = "user"]
  /\ target' = [target EXCEPT ![p] = NoProc] \/ target' = target
  /\ UNCHANGED <<current, cleaned, parent, id_wait_for, id_wait_for_p, halted>>

LEMMA ReapKeeps ==
  ASSUME ProcInv, NEW p \in Procs, NEW t \in Procs, Reaps(p, t)
  PROVE  ProcInv' /\ (ChildInv => ChildInv')
<1>1. /\ on_hold \in [Procs -> BOOLEAN] /\ terminated \in [Procs -> BOOLEAN]
      /\ sig_pending \in [Procs -> Nat] /\ at \in [Procs -> {"user", "wait", "pause"}]
      /\ target \in [Procs -> Procs \cup {NoProc}] /\ freed \subseteq Procs
      /\ sig_pending[Init0] # SIGKILL
      /\ parent[Init0] = NoProc /\ parent[p] # p
  BY Zenon DEF ProcInv, ProcType, InitRuns, Family
<1>2. /\ p = current /\ t \in Range(list) /\ parent[t] = p /\ terminated[t]
      /\ list' = Without(t) /\ freed' = freed \cup {t} /\ scan' = NoProc
      /\ HandleSig(p, Syscall, on_hold, terminated, sig_pending, sig_handler, int_num)
      /\ at' = [at EXCEPT ![p] = "user"]
      /\ target' = [target EXCEPT ![p] = NoProc] \/ target' = target
      /\ UNCHANGED <<current, cleaned, parent, id_wait_for, id_wait_for_p, halted>>
  BY Zenon DEF Reaps
<1>3. SigEffect(p, on_hold, terminated, sig_pending)
  BY <1>1, <1>2, SigOutcome, Zenon
<1>4. /\ list \in Seq(Procs) /\ IsInjective(list)
      /\ Head(list) = Init0 /\ Range(list) \subseteq Procs
      /\ Range(list) = {q \in Procs : q = Init0 \/ parent[q] # NoProc} \ freed
      /\ current \in Range(list)
  BY Listed, Zenon
<1>5. p # NoProc /\ t # Init0 /\ t # p
  BY <1>1, <1>2, Init0InProcs, Zenon
<1>6. /\ list' \in Seq(Procs) /\ IsInjective(list') /\ Head(list') = Init0
      /\ Range(list') = Range(list) \ {t}
  BY <1>2, <1>4, <1>5, RemoveIs, Zenon DEF Without
<1>7. ListIntact'
  <2>1. Range(list') = {q \in Procs : q = Init0 \/ parent[q] # NoProc} \ freed'
    BY <1>2, <1>4, <1>6, Zenon
  <2> QED BY <1>2, <1>6, <2>1, Zenon DEF ListIntact
<1>8. ScansAhead'
  BY <1>2, <1>4, <1>5, <1>6, Zenon DEF ProcInv, ScansAhead
<1>9. /\ at' \in [Procs -> {"user", "wait", "pause"}] /\ at'[p] = "user"
      /\ \A q \in Procs \ {p} : at'[q] = at[q]
  BY <1>1, <1>2, Zenon
<1>10. /\ target' \in [Procs -> Procs \cup {NoProc}]
       /\ \A q \in Procs \ {p} : target'[q] = target[q]
  BY <1>1, <1>2, Zenon
<1>11. ProcType'
  BY <1>2, <1>3, <1>6, <1>9, <1>10, Zenon DEF ProcInv, ProcType, SigEffect
<1>12. EndsInOrder'
  <2>1. \A q \in Procs : terminated[q] => terminated'[q]
    BY <1>3, Zenon DEF SigEffect
  <2> QED BY <1>1, <1>2, <1>5, <2>1, Zenon DEF ProcInv, ProcType, EndsInOrder
<1>13. Family'
  BY <1>2, Zenon DEF ProcInv, Family
<1>14. WaitsForChild'
  <2>1. \A q \in Procs \ {p} : at[q] = "wait" =>
          target[q] \in Range(list) \ {t} /\ parent[target[q]] = q
    BY <1>2, Zenon DEF ProcInv, WaitsForChild
  <2>2. parent' = parent
    BY <1>2, Zenon
  <2>3. \A q \in Procs : at'[q] = "wait" => q # p
    BY <1>9, Zenon
  <2> QED BY ONLY <1>6, <1>9, <1>10, <2>1, <2>2, <2>3, Zenon DEF WaitsForChild
<1>15. InitRuns'
  <2>1. on_hold'[Init0] = on_hold[Init0] /\ terminated'[Init0] = terminated[Init0]
    BY <1>1, <1>3, Init0InProcs, Zenon DEF SigEffect
  <2>2. sig_pending'[Init0] # SIGKILL
    BY <1>1, <1>3, Init0InProcs DEF SigEffect, SIGKILL
  <2>3. at'[Init0] = "user"
    BY <1>9, Init0InProcs, Zenon DEF ProcInv, InitRuns
  <2> QED BY <2>1, <2>2, <2>3, Zenon DEF ProcInv, InitRuns
<1>16. ASSUME ChildInv PROVE ChildInv'
  <2>1. /\ id_wait_for' = id_wait_for /\ id_wait_for_p' = id_wait_for_p
        /\ cleaned' = cleaned /\ halted' = halted /\ freed \subseteq freed'
    BY <1>2, Zenon
  <2>2. \A q \in Procs : at'[q] = "wait" =>
          q # p /\ at[q] = "wait" /\ target'[q] = target[q]
    BY <1>9, <1>10, Zenon
  <2>3. Awaited' /\ KernelKeepsRunning'
    BY <2>1, <2>2, <1>16, Zenon DEF ChildInv, Awaited, KernelKeepsRunning
  <2>4. \A q \in Procs \ {p} : on_hold'[q] = on_hold[q] /\ terminated'[q] = terminated[q]
    BY <1>3, Zenon DEF SigEffect
  <2>5. NoLostWakeup
    BY <1>16, Zenon DEF ChildInv
  <2>6. NoLostWakeup'
    BY ONLY <2>1, <2>2, <2>4, <2>5, Zenon DEF NoLostWakeup
  <2> QED BY <2>3, <2>6, Zenon DEF ChildInv
<1> QED BY <1>7, <1>8, <1>11, <1>12, <1>13, <1>14, <1>15, <1>16, Zenon DEF ProcInv

LEMMA BlockKeeps ==
  ASSUME ProcInv, NEW p \in Procs, NEW pid \in Procs \cup {AnyChild}, NEW t \in Procs,
         p = current, p # Init0, t \in Range(list), parent[t] = p, BlockInWait(p, pid, t)
  PROVE  /\ ProcInv'
         /\ ChildInv /\ pid = t /\ ~ cleaned[t] => ChildInv'
<1>1. /\ on_hold \in [Procs -> BOOLEAN] /\ at \in [Procs -> {"user", "wait", "pause"}]
      /\ target \in [Procs -> Procs \cup {NoProc}]
      /\ id_wait_for \in [Procs -> Procs \cup {AnyChild}]
      /\ id_wait_for_p \in [Procs -> Procs \cup {NoProc}]
  BY Zenon DEF ProcInv, ProcType
<1>2. /\ id_wait_for' = [id_wait_for EXCEPT ![p] = pid]
      /\ on_hold' = [on_hold EXCEPT ![p] = TRUE]
      /\ id_wait_for_p' = [id_wait_for_p EXCEPT ![p] = NoProc]
      /\ at' = [at EXCEPT ![p] = "wait"]
      /\ target' = [target EXCEPT ![p] = t]
      /\ scan' = Successor(list, current)
      /\ UNCHANGED <<list, freed, current, terminated, cleaned, parent, sig_pending, halted>>
  BY Zenon DEF BlockInWait, Switch, sigVars
<1>3. /\ id_wait_for' \in [Procs -> Procs \cup {AnyChild}] /\ id_wait_for'[p] = pid
      /\ id_wait_for_p' \in [Procs -> Procs \cup {NoProc}] /\ id_wait_for_p'[p] = NoProc
      /\ target' \in [Procs -> Procs \cup {NoProc}] /\ target'[p] = t
      /\ at' \in [Procs -> {"user", "wait", "pause"}] /\ at'[p] = "wait"
  BY <1>1, <1>2, Zenon
<1>4. on_hold' \in [Procs -> BOOLEAN] /\ \A q \in Procs \ {p} : on_hold'[q] = on_hold[q]
  BY <1>1, <1>2, Zenon
<1>5. \A q \in Procs \ {p} :
        /\ id_wait_for'[q] = id_wait_for[q] /\ id_wait_for_p'[q] = id_wait_for_p[q]
        /\ target'[q] = target[q] /\ at'[q] = at[q]
  BY <1>1, <1>2, Zenon
<1>6. ScansAhead' /\ scan' \in Procs \cup {NoProc}
  BY <1>2, SwitchAhead, Zenon
<1>7. ProcType'
  BY <1>2, <1>3, <1>4, <1>6, Zenon DEF ProcInv, ProcType
<1>8. ListIntact' /\ Family'
  BY <1>2, Zenon DEF ProcInv, ListIntact, Family
<1>9. EndsInOrder'
  BY <1>2, <1>3, <1>5, Zenon DEF ProcInv, EndsInOrder
<1>10. WaitsForChild'
  <2>1. WaitsForChild
    BY Zenon DEF ProcInv
  <2>2. list' = list /\ parent' = parent /\ target'[p] = t
    BY <1>2, <1>3, Zenon
  <2> QED BY <1>5, <2>1, <2>2, Zenon DEF WaitsForChild
<1>11. InitRuns'
  BY <1>2, <1>4, <1>5, Init0InProcs, Zenon DEF ProcInv, InitRuns
<1>12. ASSUME ChildInv, pid = t, ~ cleaned[t] PROVE ChildInv'
  <2>1. Awaited' /\ KernelKeepsRunning'
    BY <1>2, <1>3, <1>5, <1>12, Zenon DEF ChildInv, Awaited, KernelKeepsRunning
  <2>2. NoLostWakeup'
    BY <1>2, <1>3, <1>4, <1>5, <1>12, Zenon DEF ChildInv, NoLostWakeup
  <2> QED BY <2>1, <2>2, Zenon DEF ChildInv
<1> QED BY <1>6, <1>7, <1>8, <1>9, <1>10, <1>11, <1>12, Zenon DEF ProcInv

\* sys_wait finds a child of its caller.
LEMMA MatchIsChild ==
  ASSUME ProcInv, NEW p \in Procs, NEW pid \in WaitArgs(p), Matches(p, pid) # {},
         NEW t, t = list[Min(Matches(p, pid))]
  PROVE  /\ t \in Range(list) /\ t \in Procs /\ parent[t] = p
         /\ pid \in Procs \cup {AnyChild}
         /\ "any" \notin WaitKinds => pid = t
         /\ pid = AnyChild \/ pid = t
<1>1. list \in Seq(Procs) /\ Range(list) \subseteq Procs
  BY Listed, Zenon
<1>2. Matches(p, pid) \subseteq Nat
  BY <1>1 DEF Matches
<1>3. Min(Matches(p, pid)) \in Matches(p, pid)
  BY <1>2, SmallestIs, Zenon
<1>4. PICK i \in DOMAIN list :
        t = list[i] /\ (list[i] = pid \/ (pid = AnyChild /\ parent[list[i]] = p))
  BY <1>3, Zenon DEF Matches
<1>5. t \in Range(list) /\ t \in Procs
  BY <1>1, <1>4, Zenon DEF Range
<1>6. \/ pid = AnyChild /\ "any" \in WaitKinds
      \/ pid \in Range(list) /\ parent[pid] = p
  BY Zenon DEF WaitArgs
<1>7. AnyChild \notin Procs
  BY Init0InProcs, Zenon DEF AnyChild, NoProc
<1>8. parent[t] = p
  BY <1>4, <1>5, <1>6, <1>7, Zenon
<1>9. /\ pid \in Procs \cup {AnyChild} /\ (pid = AnyChild \/ pid = t)
      /\ "any" \notin WaitKinds => pid = t
  BY <1>1, <1>4, <1>6, <1>7, Zenon
<1> QED BY <1>5, <1>8, <1>9, Zenon

LEMMA WaitKeeps ==
  ASSUME ProcInv, NEW p \in Procs, NEW pid \in WaitArgs(p),
         WaitReaps(p, pid) \/ WaitBlocks(p, pid)
  PROVE  /\ ProcInv'
         /\ "any" \notin WaitKinds /\ ChildInv => ChildInv'
<1> DEFINE t == list[Min(Matches(p, pid))]
<1>1. Matches(p, pid) # {} /\ p = current /\ p # Init0 /\ at[p] = "user"
  BY Zenon DEF WaitReaps, WaitBlocks, Calls, Runs
<1>2. /\ t \in Range(list) /\ t \in Procs /\ parent[t] = p
      /\ pid \in Procs \cup {AnyChild}
      /\ "any" \notin WaitKinds => pid = t
  BY <1>1, MatchIsChild
<1>3. t # Head(list)
  <2>1. Head(list) = Init0 /\ parent[Init0] = NoProc /\ p # NoProc
    BY Listed, Init0InProcs, Zenon DEF ProcInv, Family
  <2> QED BY <1>2, <2>1, Zenon
<1>4. CASE WaitReaps(p, pid)
  <2>1. /\ terminated[t] /\ list' = Without(t) /\ freed' = freed \cup {t} /\ scan' = NoProc
        /\ HandleSig(p, Syscall, on_hold, terminated, sig_pending, sig_handler, int_num)
        /\ UNCHANGED <<current, cleaned, parent, id_wait_for, id_wait_for_p, at, target,
                       halted>>
    BY <1>3, <1>4, Zenon DEF WaitReaps, ReturnFromSyscall, Stay
  <2> HIDE DEF t
  <2>2. at' = [at EXCEPT ![p] = "user"]
    BY <1>1, <2>1, Zenon DEF ProcInv, ProcType
  <2>3. Reaps(p, t)
    BY <1>1, <1>2, <2>1, <2>2, Zenon DEF Reaps
  <2> QED BY <1>2, <2>3, ReapKeeps, Zenon
<1>5. CASE WaitBlocks(p, pid)
  <2>1. ~ terminated[t] /\ BlockInWait(p, pid, t)
    BY <1>5, Zenon DEF WaitBlocks
  <2> HIDE DEF t
  <2>2. ~ cleaned[t]
    BY <1>2, <2>1, Zenon DEF ProcInv, EndsInOrder
  <2> QED BY <1>1, <1>2, <2>1, <2>2, BlockKeeps, Zenon
<1> QED BY <1>4, <1>5, Zenon

LEMMA ResumeWaitKeeps ==
  ASSUME ProcInv, NEW p \in Procs, ResumeWaitBlocks(p) \/ ResumeWaitReaps(p)
  PROVE  ProcInv' /\ (ChildInv => ChildInv')
<1>1. p = current /\ scan = NoProc /\ at[p] = "wait"
  BY Zenon DEF ResumeWaitBlocks, ResumeWaitReaps, Resumes
<1>2. p # Init0
  BY <1>1, Zenon DEF ProcInv, InitRuns
<1>3. target[p] \in Range(list) /\ target[p] \in Procs /\ parent[target[p]] = p
  <2>1. Range(list) \subseteq Procs
    BY Listed, Zenon
  <2> QED BY <1>1, <2>1, Zenon DEF ProcInv, WaitsForChild
<1>4. target[p] # Head(list)
  <2>1. Head(list) = Init0 /\ parent[Init0] = NoProc /\ p # NoProc
    BY Listed, Init0InProcs, Zenon DEF ProcInv, Family
  <2> QED BY <1>3, <2>1, Zenon
<1>5. CASE ResumeWaitBlocks(p)
  <2>1. id_wait_for_p[p] = NoProc /\ BlockInWait(p, id_wait_for[p], target[p])
    BY <1>5, Zenon DEF ResumeWaitBlocks
  <2>2. id_wait_for[p] \in Procs \cup {AnyChild}
    BY Zenon DEF ProcInv, ProcType
  <2>3. ASSUME ChildInv PROVE id_wait_for[p] = target[p] /\ ~ cleaned[target[p]]
    <3>1. p \notin freed
      BY <1>1, Listed, Zenon
    <3>2. target[p] # NoProc
      BY <1>3, Init0InProcs, Zenon
    <3> QED BY <1>1, <2>1, <2>3, <3>1, <3>2, Zenon DEF ChildInv, Awaited, NoLostWakeup
  <2>4. /\ ProcInv'
        /\ ChildInv /\ id_wait_for[p] = target[p] /\ ~ cleaned[target[p]] => ChildInv'
    BY <1>1, <1>2, <1>3, <2>1, <2>2, BlockKeeps, Zenon
  <2> QED BY <2>3, <2>4, Zenon
<1>6. CASE ResumeWaitReaps(p) /\ id_wait_for_p[p] # target[p]
  <2>1. ~ ChildInv
    BY <1>1, <1>6, Zenon DEF ChildInv, Awaited, ResumeWaitReaps
  <2>2. UNCHANGED <<list, freed, current, scan, on_hold, terminated, cleaned, parent,
                    id_wait_for, id_wait_for_p, at, target, sig_pending>>
    BY <1>6, Zenon DEF ResumeWaitReaps, sigVars
  <2>3. ProcType' /\ ListIntact' /\ EndsInOrder' /\ Family'
    BY <2>2, Zenon DEF ProcInv, ProcType, ListIntact, EndsInOrder, Family
  <2>4. ScansAhead' /\ WaitsForChild' /\ InitRuns'
    BY <2>2, Zenon DEF ProcInv, ScansAhead, WaitsForChild, InitRuns
  <2> QED BY <2>1, <2>3, <2>4, Zenon DEF ProcInv
<1>7. CASE ResumeWaitReaps(p) /\ id_wait_for_p[p] = target[p]
  <2>1. /\ id_wait_for_p[p] # NoProc
        /\ list' = Without(target[p]) /\ freed' = freed \cup {target[p]} /\ scan' = NoProc
        /\ at' = [at EXCEPT ![p] = "user"] /\ target' = [target EXCEPT ![p] = NoProc]
        /\ HandleSig(p, Syscall, on_hold, terminated, sig_pending, sig_handler, int_num)
        /\ UNCHANGED <<current, cleaned, parent, id_wait_for, id_wait_for_p, halted>>
    BY <1>4, <1>7, Zenon DEF ResumeWaitReaps, ReturnFromSyscall, Stay
  <2>2. terminated[target[p]]
    BY <1>7, <2>1, Zenon DEF ProcInv, EndsInOrder
  <2>3. Reaps(p, target[p])
    BY <1>1, <1>3, <2>1, <2>2, Zenon DEF Reaps
  <2> QED BY <1>3, <2>3, ReapKeeps, Zenon
<1> QED BY <1>5, <1>6, <1>7, Zenon
-----------------------------------------------------------------------------
LEMMA InitInv == Init => ProcInv /\ ChildInv
<1> SUFFICES ASSUME Init PROVE ProcInv /\ ChildInv
  BY Zenon
<1>1. list = <<Init0>> /\ Range(list) = {Init0} /\ Head(list) = Init0 /\ IsInjective(list)
  BY DEF Init, Range, IsInjective
<1>2. ProcType
  BY <1>1, Init0InProcs DEF Init, ProcType, Init0
<1>3. ListIntact
  BY <1>1, Init0InProcs, Zenon DEF Init, ListIntact
<1>4. EndsInOrder
  BY Zenon DEF Init, EndsInOrder
<1>5. Family
  BY Init0InProcs, Zenon DEF Init, Family
<1>6. ScansAhead
  BY <1>1, Init0InProcs, Zenon DEF Init, ScansAhead
<1>7. WaitsForChild /\ ChildInv
  BY Zenon DEF Init, WaitsForChild, ChildInv, Awaited, NoLostWakeup, KernelKeepsRunning
<1>8. InitRuns
  BY Init0InProcs DEF Init, InitRuns, SIGKILL
<1> QED BY <1>2, <1>3, <1>4, <1>5, <1>6, <1>7, <1>8, Zenon DEF ProcInv

LEMMA StepKeeps ==
  ASSUME ProcInv, [Next]_vars
  PROVE  /\ ProcInv'
         /\ "any" \notin WaitKinds /\ ChildInv => ChildInv'
<1> DEFINE Goal == /\ ProcInv'
                   /\ "any" \notin WaitKinds /\ ChildInv => ChildInv'
<1>1. current \in Procs
  BY Listed, Zenon
<1>2. ASSUME NEW p \in Procs, Quiet(p) PROVE Goal
  BY <1>2, QuietKeeps, QuietKeepsChild, Zenon
<1>3. CASE Scan
  BY <1>3, ScanKeeps, ScanKeepsChild, Zenon
<1>4. CASE Tick
  BY <1>1, <1>2, <1>4, TickQuiet, Zenon
<1>5. ASSUME NEW q \in Procs, CtrlC(q) PROVE Goal
  BY <1>1, <1>2, <1>5, CtrlCQuiet, Zenon
<1>6. ASSUME NEW p \in Procs, Resume(p) PROVE Goal
  <2>1. CASE ResumePause(p)
    BY <1>2, <2>1, ResumePauseQuiet, Zenon
  <2>2. CASE ResumeWaitBlocks(p) \/ ResumeWaitReaps(p)
    BY <2>2, ResumeWaitKeeps, Zenon
  <2> QED BY <1>6, <2>1, <2>2, Zenon DEF Resume
<1>7. ASSUME NEW p \in Procs, UserStep(p) PROVE Goal
  <2>1. CASE QuietSteps(p)
    BY <1>2, <2>1, QuietStepsAre, Zenon
  <2>2. ASSUME NEW c \in Procs, Fork(p, c) PROVE Goal
    BY <2>2, ForkKeeps, Zenon
  <2>3. ASSUME NEW pid \in WaitArgs(p), WaitReaps(p, pid) \/ WaitBlocks(p, pid) PROVE Goal
    BY <2>3, WaitKeeps, Zenon
  <2>4. \/ QuietSteps(p) \/ \E c \in Procs : Fork(p, c)
        \/ \E pid \in WaitArgs(p) : WaitReaps(p, pid) \/ WaitBlocks(p, pid)
    BY <1>7, Zenon DEF UserStep, QuietSteps
  <2> QED BY <2>1, <2>2, <2>3, <2>4, Zenon
<1>8. CASE UNCHANGED vars
  <2>1. UNCHANGED <<list, freed, current, scan, on_hold, terminated, cleaned, parent,
                    id_wait_for, id_wait_for_p, at, target, sig_pending, halted>>
    BY <1>8, Zenon DEF vars, procVars, sigVars
  <2>2. ProcType' /\ ListIntact' /\ EndsInOrder' /\ Family'
    BY <2>1, Zenon DEF ProcInv, ProcType, ListIntact, EndsInOrder, Family
  <2>3. ScansAhead' /\ WaitsForChild' /\ InitRuns'
    BY <2>1, Zenon DEF ProcInv, ScansAhead, WaitsForChild, InitRuns
  <2>4. ChildInv => ChildInv'
    BY <2>1, Zenon DEF ChildInv, Awaited, NoLostWakeup, KernelKeepsRunning
  <2> QED BY <2>2, <2>3, <2>4, Zenon DEF ProcInv
<1>9. \/ Scan \/ Tick \/ UNCHANGED vars
      \/ \E q \in Procs : CtrlC(q)
      \/ \E p \in Procs : Resume(p)
      \/ \E p \in Procs : UserStep(p)
  BY Zenon DEF Next
<1> QED BY <1>3, <1>4, <1>5, <1>6, <1>7, <1>8, <1>9, Zenon

LEMMA ProcInvHolds == Spec => []ProcInv
<1>1. Init => ProcInv
  BY InitInv, Zenon
<1>2. ProcInv /\ [Next]_vars => ProcInv'
  BY StepKeeps, Zenon
<1> QED BY <1>1, <1>2, PTL DEF Spec

\* sys_wait unlinks nothing but its target and fork adds nothing but the child,
\* whatever ends, is killed or is reaped in between.
THEOREM ListStaysWhole == Spec => []ListIntact
<1>1. ProcInv => ListIntact
  BY Zenon DEF ProcInv
<1> QED BY <1>1, ProcInvHolds, PTL

\* process_schedule never cleans up the process whose page table and kernel
\* stack are in use, and sys_wait never frees it: a running process is listed,
\* and the scan looks at it last.
THEOREM StackStaysMapped == Spec => []CurrentKeepsItsStack
<1>1. ProcInv => CurrentKeepsItsStack
  <2> SUFFICES ASSUME ProcInv PROVE CurrentKeepsItsStack
    BY Zenon
  <2>1. current \notin freed
    BY Listed, Zenon
  <2> QED BY <2>1, Zenon DEF ProcInv, ScansAhead, CurrentKeepsItsStack
<1> QED BY <1>1, ProcInvHolds, PTL

\* The structure sys_wait keeps a pointer to over the switch is not freed by
\* anybody else, with waits for any child too: only the parent reaps a child.
THEOREM TargetsStay == Spec => []TargetStaysAllocated
<1>1. ProcInv => TargetStaysAllocated
  <2> SUFFICES ASSUME ProcInv, NEW p \in Procs, at[p] = "wait" PROVE target[p] \notin freed
    BY Zenon DEF TargetStaysAllocated
  <2>1. target[p] \in Range(list)
    BY Zenon DEF ProcInv, WaitsForChild
  <2> QED BY <2>1, Listed, Zenon
<1> QED BY <1>1, ProcInvHolds, PTL

\* A process that has ended and left the processor is never dispatched again.
THEOREM EndedStays == Spec => EndedStaysDown
<1>1. ASSUME [Next]_vars, current' # current PROVE ~ terminated'[current']
  <2>1. CASE Scan
    <3>1. Passes \/ Chooses
      BY <2>1, ScanIs, Zenon
    <3>2. terminated' = terminated
      BY <2>1, ScanIs, Zenon
    <3>3. current' = scan /\ Runnable(scan)
      BY <1>1, <3>1, Zenon DEF Passes, Chooses
    <3> QED BY <3>2, <3>3, Zenon DEF Runnable
  <2>2. CASE Tick
    BY <1>1, <2>2, Zenon DEF Tick
  <2>3. ASSUME NEW q \in Procs, CtrlC(q) PROVE FALSE
    BY <1>1, <2>3, Zenon DEF CtrlC
  <2>4. ASSUME NEW p \in Procs, Resume(p) PROVE FALSE
    BY <1>1, <2>4, Zenon DEF Resume, ResumeWaitBlocks, BlockInWait, ResumeWaitReaps, ResumePause
  <2>5. ASSUME NEW p \in Procs, UserStep(p) PROVE FALSE
    BY <1>1, <2>5, Zenon DEF UserStep, Fork, Exit, Crash, Segv, WaitFails, WaitReaps, WaitBlocks,
         BlockInWait, Pause, Alarm, Kill, SetHandler, SigReturn, OtherCall
  <2>6. CASE UNCHANGED vars
    BY <1>1, <2>6, Zenon DEF vars
  <2> QED BY <1>1, <2>1, <2>2, <2>3, <2>4, <2>5, <2>6, Zenon DEF Next
<1>2. [Next]_vars => [current' # current => ~ terminated'[current']]_vars
  BY <1>1, Zenon
<1> QED BY <1>2, PTL DEF Spec, EndedStaysDown

LEMMA ChildInvHolds ==
  ASSUME "any" \notin WaitKinds
  PROVE  Spec => []ChildInv
<1>1. Init => ProcInv /\ ChildInv
  BY InitInv, Zenon
<1>2. ProcInv /\ ChildInv /\ [Next]_vars => ProcInv' /\ ChildInv'
  BY StepKeeps, Zenon
<1> QED BY <1>1, <1>2, PTL DEF Spec

\* Waiting by pid loses no wakeup: when process_cleanup has passed the target,
\* its waiter is runnable and has the target in id_wait_for_p.
THEOREM WaitersAreTold ==
  ASSUME "any" \notin WaitKinds
  PROVE  Spec => []NoLostWakeup
<1>1. ChildInv => NoLostWakeup
  BY Zenon DEF ChildInv
<1> QED BY <1>1, ChildInvHolds, PTL

\* Waiting by pid never fails the assertion "wait pid mismatch", and /bin/init
\* keeps process_schedule from the panic it ends in with nothing to run.
THEOREM NeverHalts ==
  ASSUME "any" \notin WaitKinds
  PROVE  Spec => []KernelKeepsRunning
<1>1. ChildInv => KernelKeepsRunning
  BY Zenon DEF ChildInv
<1> QED BY <1>1, ChildInvHolds, PTL
-----------------------------------------------------------------------------
(***************************************************************************)
(* The timer list.                                                         *)
(***************************************************************************)
Waiters == [proc : Procs, ticks : Nat, is_alarm : BOOLEAN]

LEMMA WaiterType ==
  ASSUME NEW p \in Procs, NEW t \in Nat, NEW a \in BOOLEAN
  PROVE  LET w == Waiter(p, t, a)
         IN  w \in Waiters /\ w.proc = p /\ w.is_alarm = a
BY DEF Waiter, Waiters

LEMMA OlderType ==
  ASSUME NEW w \in Waiters, ~ Expired(w)
  PROVE  Older(w) \in Waiters /\ Older(w).proc = w.proc /\ Older(w).is_alarm = w.is_alarm
BY DEF Waiters, Expired, Older

LEMMA AfterHeadType ==
  ASSUME NEW ws \in Seq(Waiters)
  PROVE  AfterHead(ws) \in Seq(Waiters)
<1>1. CASE ws = <<>>
  BY <1>1, Zenon DEF AfterHead
<1>2. CASE ws # <<>> /\ Expired(Head(ws))
  <2>1. Tail(ws) \in Seq(Waiters)
    BY <1>2, HeadTailProperties, Zenon
  <2> QED BY <1>2, <2>1, Zenon DEF AfterHead
<1>3. CASE ws # <<>> /\ ~ Expired(Head(ws))
  <2>1. Tail(ws) \in Seq(Waiters) /\ Head(ws) \in Waiters
    BY <1>3, HeadTailProperties, Zenon
  <2>2. Older(Head(ws)) \in Waiters
    BY <1>3, <2>1, OlderType, Zenon
  <2> DEFINE w == Older(Head(ws))
  <2> HIDE DEF w
  <2>3. <<w>> \in Seq(Waiters)
    BY <2>2 DEF w
  <2>4. <<w>> \o Tail(ws) \in Seq(Waiters)
    BY <2>1, <2>3, ConcatProperties, Zenon
  <2> QED BY <1>3, <2>4, Zenon DEF AfterHead, w
<1> QED BY <1>1, <1>2, <1>3, Zenon

\* A finite set of numbers has a k-th one, up to as many as it has.
LEMMA NthIs ==
  ASSUME NEW S \in SUBSET Nat, IsFiniteSet(S), NEW k \in 1 .. Cardinality(S)
  PROVE  Nth(S, k) \in S
<1> DEFINE upto(i) == {j \in S : j <= i}
           found(n) == \E i \in S : Cardinality(upto(i)) = n
           missing == {n \in 1 .. Cardinality(S) : ~ found(n)}
<1>0. Cardinality(S) \in Nat
  BY FS_CardinalityType, Zenon
<1>1. \A T \in SUBSET S : IsFiniteSet(T)
  BY FS_Subset, Zenon
<1>2. missing \subseteq Nat
  BY <1>0
<1>3. ASSUME missing # {} PROVE FALSE
  <2> DEFINE m == Min(missing)
  <2>1. m \in missing /\ \A n \in missing : m <= n
    BY <1>2, <1>3, SmallestIs, Zenon
  <2>2. m \in Nat /\ 1 <= m /\ m <= Cardinality(S) /\ ~ found(m)
    <3>1. m \in 1 .. Cardinality(S) /\ ~ found(m)
      BY <2>1, Zenon
    <3> HIDE DEF m, missing, found
    <3> QED BY ONLY <1>0, <3>1
  <2> HIDE DEF m
  \* below: those up to the one before, all of them fewer than m
  <2>3. PICK B \in SUBSET S : /\ Cardinality(B) = m - 1
                              /\ \A b \in B, i \in S : i <= b => i \in B
    <3>1. CASE m = 1
      <4>1. {} \in SUBSET S /\ Cardinality({}) = m - 1
        BY <3>1, FS_EmptySet
      <4> QED BY <4>1, Zenon
    <3>2. CASE m # 1
      <4>1. m - 1 \in 1 .. Cardinality(S) /\ ~ (m <= m - 1)
        BY <1>0, <2>2, <3>2
      <4>2. found(m - 1)
        BY <2>1, <4>1, Zenon
      <4>3. PICK i \in S : Cardinality(upto(i)) = m - 1
        BY <4>2, Zenon
      <4>4. \A b \in upto(i), j \in S : j <= b => j \in upto(i)
        OBVIOUS
      <4> HIDE DEF upto
      <4>5. upto(i) \in SUBSET S
        BY DEF upto
      <4> QED BY <4>3, <4>4, <4>5, Zenon
    <3> QED BY <3>1, <3>2, Zenon
  <2> DEFINE R == S \ B
  <2>4. R # {}
    <3>1. R = {} => B = S
      BY Zenon
    <3>2. Cardinality(B) # Cardinality(S)
      BY <1>0, <2>2, <2>3
    <3> QED BY <3>1, <3>2, Zenon
  <2>5. Min(R) \in R /\ \A j \in R : Min(R) <= j
    <3>1. R \in SUBSET Nat
      BY Zenon
    <3> HIDE DEF R
    <3> QED BY <2>4, <3>1, SmallestIs, Zenon
  <2> DEFINE i == Min(R)
  <2> HIDE DEF i
  <2>6. i \in S /\ i \notin B /\ \A j \in S \ B : i <= j
    BY <2>5, Zenon DEF i
  <2>7. upto(i) = B \cup {i}
    <3>1. ASSUME NEW j \in S, j <= i PROVE j \in B \cup {i}
      <4>1. ASSUME j \notin B PROVE j = i
        BY <2>6, <3>1, <4>1
      <4> QED BY <4>1, Zenon
    <3>2. ASSUME NEW j \in B PROVE j <= i
      <4>1. ~ (i <= j)
        BY <2>3, <2>6, Zenon
      <4> QED BY <2>6, <4>1
    <3>3. i <= i
      BY <2>6
    <3> QED BY <2>6, <3>1, <3>2, <3>3, Zenon
  <2> HIDE DEF upto
  <2>8. Cardinality(B \cup {i}) = m
    <3>1. IsFiniteSet(B)
      BY <1>1, Zenon
    <3>2. Cardinality(B \cup {i}) = Cardinality(B) + 1
      BY <2>6, <3>1, FS_AddElement, Zenon
    <3> QED BY <2>2, <2>3, <3>2
  <2> QED BY <2>2, <2>6, <2>7, <2>8, Zenon
<1>4. found(k)
  BY <1>3, Zenon
<1> QED BY <1>4, Zenon DEF Nth

LEMMA RemainingType ==
  ASSUME NEW ws \in Seq(Waiters)
  PROVE  Remaining(ws) \in Seq(Waiters)
<1> DEFINE l == AfterHead(ws)
           kept == KeptAt(l)
           old == [i \in kept |-> IF i = 1 THEN l[i] ELSE Older(l[i])]
<1>1. l \in Seq(Waiters)
  BY AfterHeadType, Zenon
<1> HIDE DEF l
<1>2. DOMAIN l = 1 .. Len(l) /\ Len(l) \in Nat
  BY <1>1
<1>3. kept \in SUBSET (1 .. Len(l)) /\ kept \in SUBSET Nat
  BY <1>2 DEF KeptAt
<1>4. IsFiniteSet(kept) /\ Cardinality(kept) \in Nat
  <2>1. IsFiniteSet(1 .. Len(l))
    BY <1>2, FS_Interval
  <2>2. IsFiniteSet(kept)
    BY <1>3, <2>1, FS_Subset, Zenon
  <2> QED BY <2>2, FS_CardinalityType, Zenon
<1>5. ASSUME NEW i \in kept PROVE old[i] \in Waiters
  <2>1. i \in DOMAIN l /\ (i = 1 \/ ~ Expired(l[i]))
    BY <1>5, Zenon DEF KeptAt
  <2>2. l[i] \in Waiters
    BY <1>1, <1>2, <2>1, ElementOfSeq, Zenon
  <2>3. old[i] = IF i = 1 THEN l[i] ELSE Older(l[i])
    BY Zenon
  <2> QED BY <2>1, <2>2, <2>3, OlderType, Zenon
<1>6. Remaining(ws) = [k \in 1 .. Cardinality(kept) |-> old[Nth(kept, k)]]
  BY Zenon DEF Remaining, l
<1> HIDE DEF kept, old
<1>7. ASSUME NEW k \in 1 .. Cardinality(kept) PROVE old[Nth(kept, k)] \in Waiters
  BY <1>3, <1>4, <1>5, NthIs, Zenon
<1> QED BY <1>4, <1>6, <1>7, IsASeq

\* With one waiter in the list, a tick wakes its process and drops it, or wakes
\* nobody and keeps it.
OneTick(ws) ==
  \/ /\ Woken(ws) = {} /\ Remaining(ws) \in Seq(Waiters)
     /\ Len(Remaining(ws)) = Len(ws) /\ DOMAIN Remaining(ws) = DOMAIN ws
     /\ \A i \in DOMAIN ws : /\ Remaining(ws)[i].proc = ws[i].proc
                             /\ Remaining(ws)[i].is_alarm = ws[i].is_alarm
  \/ /\ DOMAIN ws = {1} /\ Woken(ws) = {ws[1]} /\ Remaining(ws) = <<>>

LEMMA OneWaiterTick ==
  ASSUME NEW ws \in Seq(Waiters), Len(ws) <= 1
  PROVE  OneTick(ws)
<1>1. Remaining(ws) \in Seq(Waiters)
  BY RemainingType, Zenon
<1> DEFINE l == AfterHead(ws)
           kept == KeptAt(l)
           old == [i \in kept |-> IF i = 1 THEN l[i] ELSE Older(l[i])]
<1>2. Remaining(ws) = [k \in 1 .. Cardinality(kept) |-> old[Nth(kept, k)]]
  BY Zenon DEF Remaining
<1>3. Woken(ws) = (IF HeadExpired(ws) THEN {Head(ws)} ELSE {})
                    \cup {WokenByRemoval(l, i) : i \in DOMAIN l \ kept}
  BY Zenon DEF Woken
<1>4. ASSUME l = <<>> PROVE kept = {} /\ DOMAIN l = {} /\ Remaining(ws) = <<>>
  <2>1. DOMAIN l = {}
    BY <1>4
  <2>2. kept = {}
    BY <2>1, Zenon DEF KeptAt
  <2>3. 1 .. Cardinality(kept) = {}
    BY <2>2, FS_EmptySet
  <2> HIDE DEF kept, old, l
  <2> QED BY <1>2, <2>1, <2>2, <2>3
<1>5. CASE ws = <<>>
  <2>1. l = <<>>
    BY <1>5, Zenon DEF AfterHead
  <2>2. Woken(ws) = {}
    BY <1>3, <1>4, <1>5, <2>1, Zenon DEF HeadExpired
  <2> HIDE DEF l, kept, old
  <2>3. Remaining(ws) = ws
    BY <1>4, <1>5, <2>1, Zenon
  <2> QED BY <1>1, <2>2, <2>3, Zenon DEF OneTick
<1>6. ASSUME ws # <<>>
      PROVE  Tail(ws) = <<>> /\ DOMAIN ws = {1} /\ Head(ws) = ws[1]
             /\ Head(ws) \in Waiters
  <2>1. Len(ws) \in Nat /\ Len(ws) # 0
    BY <1>6, EmptySeq, LenProperties, Zenon
  <2>2. Len(ws) = 1
    BY <2>1
  <2>3. DOMAIN ws = {1} /\ Head(ws) = ws[1]
    BY <2>2
  <2>4. ws[1] \in Waiters
    BY <2>2, ElementOfSeq
  <2>5. Tail(ws) \in Seq(Waiters) /\ Len(Tail(ws)) = 0
    BY <1>6, <2>2, HeadTailProperties
  <2>6. Tail(ws) = <<>>
    BY <2>5, EmptySeq, Zenon
  <2> QED BY <2>3, <2>4, <2>6, Zenon
<1>7. CASE ws # <<>> /\ Expired(Head(ws))
  <2>1. l = <<>> /\ HeadExpired(ws)
    BY <1>6, <1>7, Zenon DEF AfterHead, HeadExpired
  <2>2. Woken(ws) = {Head(ws)}
    BY <1>3, <1>4, <2>1, Zenon
  <2> HIDE DEF l, kept, old
  <2> QED BY <1>4, <1>6, <1>7, <2>1, <2>2, Zenon DEF OneTick
<1>8. CASE ws # <<>> /\ ~ Expired(Head(ws))
  <2> DEFINE w == Older(Head(ws))
  <2>1. w \in Waiters /\ w.proc = ws[1].proc /\ w.is_alarm = ws[1].is_alarm
    BY <1>6, <1>8, OlderType, Zenon
  <2>2. l = <<w>> \o <<>>
    BY <1>6, <1>8, Zenon DEF AfterHead
  <2> HIDE DEF w
  <2>3. l = <<w>> /\ DOMAIN l = {1} /\ l[1] = w
    BY <2>1, <2>2
  <2>4. kept = {1}
    BY <2>3, Zenon DEF KeptAt
  <2>5. Woken(ws) = {}
    BY <1>3, <1>8, <2>3, <2>4, Zenon DEF HeadExpired
  <2> HIDE DEF l, kept
  <2>6. IsFiniteSet(kept) /\ Cardinality(kept) = 1
    BY <2>4, FS_Singleton, Zenon
  <2>7. Nth(kept, 1) = 1
    <3>1. kept \in SUBSET Nat /\ 1 \in 1 .. Cardinality(kept)
      BY <2>4, <2>6
    <3>2. Nth(kept, 1) \in kept
      BY <2>6, <3>1, NthIs, Zenon
    <3> QED BY <2>4, <3>2, Zenon
  <2>8. old[1] = w
    BY <2>3, <2>4, Zenon
  <2> HIDE DEF old
  <2>9. Remaining(ws) = [k \in 1 .. 1 |-> old[Nth(kept, k)]]
    BY <1>2, <2>6, Zenon
  <2>10. Remaining(ws)[1] = w /\ Len(Remaining(ws)) = 1 /\ DOMAIN Remaining(ws) = {1}
    BY <2>7, <2>8, <2>9
  <2>11. Len(ws) = 1
    <3>1. Len(ws) \in Nat /\ Len(ws) # 0
      BY <1>8, EmptySeq, LenProperties, Zenon
    <3> QED BY <3>1
  <2> QED BY <1>1, <1>6, <1>8, <2>1, <2>5, <2>10, <2>11, Zenon DEF OneTick
<1> QED BY <1>5, <1>7, <1>8, Zenon
-----------------------------------------------------------------------------
(***************************************************************************)
(* The types that ProcType leaves out.                                     *)
(***************************************************************************)
Pendings == [Procs -> Sigs \cup {0, SIGSEGV, SIGALRM}]
Numbers == {0, IRQ0, PageFault, Syscall}

SigType ==
  sig_pending \in Pendings /\ sig_handler \in [Procs -> BOOLEAN]
  /\ int_num \in [Procs -> Numbers]

RestType == SigType /\ waiters \in Seq(Waiters) /\ halted \in {"no", "assert", "panic"}

LEMMA SigTypes ==
  ASSUME NEW p \in Procs, NEW n \in Numbers, NEW hold, NEW term,
         NEW pending \in Pendings, NEW handler \in [Procs -> BOOLEAN],
         NEW saved \in [Procs -> Numbers],
         HandleSig(p, n, hold, term, pending, handler, saved)
  PROVE  SigType'
<1>1. /\ sig_handler' = handler
      /\ sig_pending' = pending \/ sig_pending' = [pending EXCEPT ![p] = 0]
      /\ int_num' = saved \/ int_num' = [saved EXCEPT ![p] = n]
  BY Zenon DEF HandleSig
<1>2. sig_pending' \in Pendings
  BY <1>1, Zenon DEF Pendings
<1>3. int_num' \in [Procs -> Numbers]
  BY <1>1, Zenon
<1> QED BY <1>1, <1>2, <1>3, Zenon DEF SigType

LEMMA ReturnTypes ==
  ASSUME SigType, NEW p \in Procs, ReturnFromSyscall(p)
  PROVE  SigType'
<1>1. Syscall \in Numbers
  BY Zenon DEF Numbers
<1> QED BY <1>1, SigTypes, Zenon DEF SigType, ReturnFromSyscall

LEMMA QuietTypes ==
  ASSUME RestType, NEW p \in Procs, QuietSteps(p)
  PROVE  RestType'
<1>0. Syscall \in Numbers /\ PageFault \in Numbers /\ 0 \in Numbers
  BY Zenon DEF Numbers
<1>1. /\ sig_pending \in Pendings /\ sig_handler \in [Procs -> BOOLEAN]
      /\ int_num \in [Procs -> Numbers] /\ SigType
  BY Zenon DEF RestType, SigType
<1>2. halted' = halted
  BY Zenon DEF QuietSteps, Exit, Crash, Segv, WaitFails, Pause, Alarm, Kill, SetHandler,
         SigReturn, OtherCall
<1>3. CASE Exit(p) \/ Crash(p)
  <2>1. waiters' = waiters
    BY <1>3, Zenon DEF Exit, Crash
  <2>2. SigType'
    <3>1. CASE Exit(p)
      <4>1. HandleSig(p, Syscall, Ended(on_hold, p), Ended(terminated, p), sig_pending,
                      sig_handler, int_num)
        BY <3>1, Zenon DEF Exit
      <4> QED BY <1>0, <1>1, <4>1, SigTypes, Zenon
    <3>2. CASE Crash(p)
      BY <1>1, <3>2, Zenon DEF Crash, sigVars, SigType
    <3> QED BY <1>3, <3>1, <3>2, Zenon
  <2> QED BY <1>2, <2>1, <2>2, Zenon DEF RestType
<1>4. CASE Segv(p)
  <2>1. waiters' = waiters
    BY <1>4, Zenon DEF Segv
  <2> DEFINE pending == [sig_pending EXCEPT ![p] = SIGSEGV]
  <2>2. pending \in Pendings
    BY <1>1, Zenon DEF Pendings
  <2>3. \/ HandleSig(p, PageFault, [on_hold EXCEPT ![p] = FALSE], terminated, pending,
                     sig_handler, int_num)
        \/ HandleSig(p, PageFault, Ended(on_hold, p), Ended(terminated, p), sig_pending,
                     sig_handler, int_num)
    BY <1>4, Zenon DEF Segv
  <2> HIDE DEF pending
  <2>4. SigType'
    BY <1>0, <1>1, <2>2, <2>3, SigTypes, Zenon
  <2> QED BY <1>2, <2>1, <2>4, Zenon DEF RestType
<1>5. CASE WaitFails(p) \/ OtherCall(p)
  <2>1. waiters' = waiters /\ ReturnFromSyscall(p)
    BY <1>5, Zenon DEF WaitFails, OtherCall
  <2> QED BY <1>1, <1>2, <2>1, ReturnTypes, Zenon DEF RestType
<1>6. ASSUME NEW t \in Timeouts, Pause(p, t) \/ Alarm(p, t) PROVE RestType'
  <2>1. t \in Nat
    BY ProcessesAssumption, Zenon
  <2>2. PICK a \in BOOLEAN : waiters' = Append(waiters, Waiter(p, t, a))
    BY <1>6, Zenon DEF Pause, Alarm, Registered
  <2>3. waiters \in Seq(Waiters) /\ Waiter(p, t, a) \in Waiters
    BY <2>1, WaiterType, Zenon DEF RestType
  <2>4. waiters' \in Seq(Waiters)
    BY <2>2, <2>3, AppendProperties, Zenon
  <2>5. CASE Pause(p, t)
    BY <1>1, <1>2, <2>4, <2>5, Zenon DEF Pause, sigVars, SigType, RestType
  <2>6. CASE Alarm(p, t)
    BY <1>1, <1>2, <2>4, <2>6, ReturnTypes, Zenon DEF Alarm, RestType
  <2> QED BY <1>6, <2>5, <2>6, Zenon
<1>7. ASSUME NEW q \in Procs, NEW sig \in Sigs, Kill(p, q, sig) PROVE RestType'
  <2> DEFINE pending == [sig_pending EXCEPT ![q] = sig]
  <2>1. pending \in Pendings
    BY <1>1, Zenon DEF Pendings
  <2>2. /\ HandleSig(p, Syscall, on_hold, terminated, pending, sig_handler, int_num)
        /\ waiters' = waiters
    BY <1>7, Zenon DEF Kill
  <2> HIDE DEF pending
  <2>3. SigType'
    BY <1>0, <1>1, <2>1, <2>2, SigTypes, Zenon
  <2> QED BY <1>2, <2>2, <2>3, Zenon DEF RestType
<1>8. CASE SetHandler(p)
  <2> DEFINE handler == [sig_handler EXCEPT ![p] = TRUE]
  <2>1. handler \in [Procs -> BOOLEAN]
    BY <1>1, Zenon
  <2>2. /\ HandleSig(p, Syscall, on_hold, terminated, sig_pending, handler, int_num)
        /\ waiters' = waiters
    BY <1>8, Zenon DEF SetHandler
  <2> HIDE DEF handler
  <2>3. SigType'
    BY <1>0, <1>1, <2>1, <2>2, SigTypes, Zenon
  <2> QED BY <1>2, <2>2, <2>3, Zenon DEF RestType
<1>9. CASE SigReturn(p)
  <2> DEFINE saved == [int_num EXCEPT ![p] = 0]
  <2>1. saved \in [Procs -> Numbers] /\ int_num[p] \in Numbers
    BY <1>0, <1>1, Zenon
  <2>2. /\ HandleSig(p, int_num[p], on_hold, terminated, sig_pending, sig_handler, saved)
        /\ waiters' = waiters
    BY <1>9, Zenon DEF SigReturn
  <2> HIDE DEF saved
  <2>3. SigType'
    BY <1>1, <2>1, <2>2, SigTypes, Zenon
  <2> QED BY <1>2, <2>2, <2>3, Zenon DEF RestType
<1> QED BY <1>3, <1>4, <1>5, <1>6, <1>7, <1>8, <1>9, Zenon DEF QuietSteps

LEMMA TickTypes ==
  ASSUME ProcInv, RestType, Tick
  PROVE  RestType'
<1>1. current \in Procs
  BY Listed, Zenon
<1>2. waiters' = Remaining(waiters) /\ halted' = halted
  BY Zenon DEF Tick
<1>3. waiters' \in Seq(Waiters)
  BY <1>2, RemainingType, Zenon DEF RestType
<1> DEFINE woken == {w.proc : w \in Woken(waiters)}
           alarmed == {w.proc : w \in {w \in Woken(waiters) : w.is_alarm}}
           hold == [p \in Procs |-> on_hold[p] /\ p \notin woken]
           pending == [p \in Procs |-> IF p \in alarmed THEN SIGALRM ELSE sig_pending[p]]
<1>4. HandleSig(current, IRQ0, hold, terminated, pending, sig_handler, int_num)
  BY Zenon DEF Tick
<1> HIDE DEF woken, alarmed, hold
<1>5. sig_pending \in Pendings
  BY Zenon DEF RestType, SigType
<1>6. pending \in Pendings
  BY <1>5 DEF Pendings
<1> HIDE DEF pending
<1>7. IRQ0 \in Numbers
  BY Zenon DEF Numbers
<1>8. SigType'
  BY <1>1, <1>4, <1>6, <1>7, SigTypes, Zenon DEF RestType, SigType
<1> QED BY <1>2, <1>3, <1>8, Zenon DEF RestType

LEMMA RestTypeKept ==
  ASSUME ProcInv, RestType, [Next]_vars
  PROVE  RestType'
<1>1. CASE Scan
  <2>1. UNCHANGED <<sig_pending, sig_handler, int_num, waiters>>
    BY <1>1, Zenon DEF Scan, sigVars
  <2>2. halted' \in {"no", "assert", "panic"}
    BY <1>1, Zenon DEF Scan, RestType
  <2> QED BY <2>1, <2>2, Zenon DEF RestType, SigType
<1>2. CASE Tick
  BY <1>2, TickTypes, Zenon
<1>3. ASSUME NEW q \in Procs, CtrlC(q) PROVE RestType'
  <2>1. sig_pending' = [sig_pending EXCEPT ![q] = SIGINT] /\ SIGINT \in Sigs
        /\ UNCHANGED <<sig_handler, int_num, waiters, halted>>
    BY <1>3, Zenon DEF CtrlC
  <2>2. sig_pending' \in Pendings
    BY <2>1, Zenon DEF RestType, SigType, Pendings
  <2> QED BY <2>1, <2>2, Zenon DEF RestType, SigType
<1>4. ASSUME NEW p \in Procs, Resume(p) PROVE RestType'
  <2>1. CASE ResumePause(p)
    BY <2>1, ReturnTypes, Zenon DEF ResumePause, RestType
  <2>2. CASE ResumeWaitBlocks(p)
    BY <2>2, Zenon DEF ResumeWaitBlocks, BlockInWait, RestType, SigType, sigVars
  <2>3. CASE ResumeWaitReaps(p)
    <3>1. waiters' = waiters /\ halted' \in {halted, "assert"}
      BY <2>3, Zenon DEF ResumeWaitReaps
    <3>2. UNCHANGED <<sig_pending, sig_handler, int_num>> \/ ReturnFromSyscall(p)
      BY <2>3, Zenon DEF ResumeWaitReaps, sigVars
    <3>3. SigType'
      BY <3>2, ReturnTypes, Zenon DEF RestType, SigType
    <3> QED BY <3>1, <3>3, Zenon DEF RestType
  <2> QED BY <1>4, <2>1, <2>2, <2>3, Zenon DEF Resume
<1>5. ASSUME NEW p \in Procs, UserStep(p) PROVE RestType'
  <2>1. CASE QuietSteps(p)
    BY <2>1, QuietTypes, Zenon
  <2>2. ASSUME NEW c \in Procs, Fork(p, c) PROVE RestType'
    BY <2>2, ReturnTypes, Zenon DEF Fork, RestType
  <2>3. ASSUME NEW pid \in WaitArgs(p), WaitReaps(p, pid) PROVE RestType'
    BY <2>3, ReturnTypes, Zenon DEF WaitReaps, RestType
  <2>4. ASSUME NEW pid \in WaitArgs(p), WaitBlocks(p, pid) PROVE RestType'
    BY <2>4, Zenon DEF WaitBlocks, BlockInWait, RestType, SigType, sigVars
  <2> QED BY <1>5, <2>1, <2>2, <2>3, <2>4, Zenon DEF UserStep, QuietSteps
<1>6. CASE UNCHANGED vars
  BY <1>6, Zenon DEF vars, sigVars, RestType, SigType
<1> QED BY <1>1, <1>2, <1>3, <1>4, <1>5, <1>6, Zenon DEF Next

LEMMA RestTypeHolds == Spec => []RestType
<1>1. Init => RestType
  <2> SUFFICES ASSUME Init PROVE RestType
    BY Zenon
  <2>1. waiters = <<>> /\ halted = "no"
    BY Zenon DEF Init
  <2>2. sig_pending \in Pendings /\ int_num \in [Procs -> Numbers]
        /\ sig_handler \in [Procs -> BOOLEAN]
    BY DEF Init, Pendings, Numbers
  <2> QED BY <2>1, <2>2 DEF RestType, SigType
<1>2. ProcInv /\ RestType /\ [Next]_vars => RestType'
  BY RestTypeKept, Zenon
<1> QED BY <1>1, <1>2, ProcInvHolds, PTL DEF Spec

\* Every field keeps its type, the waiters that tick_timer_update moves up in the
\* list and the interrupt number that a signal handler returns to included.
THEOREM ProcessTypes == Spec => []TypeOK
<1>1. ProcInv /\ RestType => TypeOK
  BY Zenon DEF ProcInv, ProcType, RestType, SigType, Pendings, Numbers, Waiters, TypeOK
<1> QED BY <1>1, ProcInvHolds, RestTypeHolds, PTL
-----------------------------------------------------------------------------
(***************************************************************************)
(* Sleep in sys_pause, with at most one entry in the timer list.           *)
(***************************************************************************)
HasWaiter(p) == \E i \in DOMAIN waiters : waiters[i].proc = p
HasSleep(p) == \E i \in DOMAIN waiters : waiters[i].proc = p /\ ~ waiters[i].is_alarm

\* A step of p that neither ends nor begins a sleep; it may set an alarm of p.
SleepOwn(p) ==
  /\ \A q \in Procs \ {p} : /\ at'[q] = at[q] /\ on_hold'[q] = on_hold[q]
                            /\ terminated'[q] = terminated[q]
                            /\ id_wait_for'[q] = id_wait_for[q]
  /\ at'[p] # "pause"
  /\ \/ waiters' = waiters
     \/ /\ Len(waiters) < MaxWaiters
        /\ \E t \in Timeouts : waiters' = Append(waiters, Waiter(p, t, TRUE))

LEMMA EntryAdded ==
  ASSUME RestType, NEW p \in Procs, NEW t \in Nat, NEW a \in BOOLEAN,
         waiters' = Append(waiters, Waiter(p, t, a))
  PROVE  /\ Len(waiters') = Len(waiters) + 1
         /\ HasWaiter(p)'
         /\ \A q \in Procs : HasWaiter(q) => HasWaiter(q)'
         /\ \A q \in Procs : HasSleep(q)' => HasSleep(q) \/ (q = p /\ ~ a)
<1> DEFINE w == Waiter(p, t, a)
<1>1. w \in Waiters /\ w.proc = p /\ w.is_alarm = a
  BY WaiterType, Zenon
<1> HIDE DEF w
<1>2. waiters \in Seq(Waiters) /\ waiters' = Append(waiters, w)
  BY Zenon DEF RestType, w
<1>3. /\ Len(waiters') = Len(waiters) + 1 /\ Len(waiters) \in Nat
      /\ waiters'[Len(waiters) + 1] = w
      /\ DOMAIN waiters = 1 .. Len(waiters) /\ DOMAIN waiters' = 1 .. Len(waiters) + 1
      /\ \A i \in 1 .. Len(waiters) : waiters'[i] = waiters[i]
  BY <1>1, <1>2
<1>4. Len(waiters) + 1 \in DOMAIN waiters' /\ DOMAIN waiters \subseteq DOMAIN waiters'
  BY <1>3
<1>5. HasWaiter(p)'
  BY <1>1, <1>3, <1>4, Zenon DEF HasWaiter
<1>6. ASSUME NEW q \in Procs, HasWaiter(q) PROVE HasWaiter(q)'
  <2>1. PICK i \in DOMAIN waiters : waiters[i].proc = q
    BY <1>6, Zenon DEF HasWaiter
  <2>2. i \in DOMAIN waiters' /\ waiters'[i] = waiters[i]
    BY <1>3, <1>4, Zenon
  <2> QED BY <2>1, <2>2, Zenon DEF HasWaiter
<1>7. ASSUME NEW q \in Procs, HasSleep(q)' PROVE HasSleep(q) \/ (q = p /\ ~ a)
  <2>1. PICK i \in DOMAIN waiters' : waiters'[i].proc = q /\ ~ waiters'[i].is_alarm
    BY <1>7, Zenon DEF HasSleep
  <2>2. i \in DOMAIN waiters \/ i = Len(waiters) + 1
    BY <1>3
  <2>3. CASE i \in DOMAIN waiters
    <3>1. waiters'[i] = waiters[i]
      BY <1>3, <2>3, Zenon
    <3> QED BY <2>1, <2>3, <3>1, Zenon DEF HasSleep
  <2>4. CASE i = Len(waiters) + 1
    <3>1. waiters'[i] = w
      BY <1>3, <2>4, Zenon
    <3> QED BY <1>1, <2>1, <3>1, Zenon
  <2> QED BY <2>2, <2>3, <2>4, Zenon
<1> QED BY <1>3, <1>5, <1>6, <1>7, Zenon

\* What a step does to the sleepers; the two properties follow from it.
NoneForgotten ==
  \A q \in Procs : at'[q] = "pause" /\ on_hold'[q] /\ ~ terminated'[q] => HasWaiter(q)'
NoneRoused ==
  \A q \in Procs : at'[q] = "pause" /\ ~ on_hold'[q] /\ id_wait_for'[q] # AnyChild =>
    ~ HasSleep(q)'
Bounded == Len(waiters) <= MaxWaiters

LEMMA SleepOwnKeeps ==
  ASSUME RestType, Bounded, NEW p \in Procs, SleepOwn(p)
  PROVE  /\ Bounded'
         /\ SleeperHasWaiter => NoneForgotten
         /\ SleepsUntilDue => NoneRoused
<1>1. /\ \A q \in Procs \ {p} : /\ at'[q] = at[q] /\ on_hold'[q] = on_hold[q]
                                /\ terminated'[q] = terminated[q]
                                /\ id_wait_for'[q] = id_wait_for[q]
      /\ at'[p] # "pause"
  BY Zenon DEF SleepOwn
<1>2. /\ Bounded'
      /\ \A q \in Procs : HasWaiter(q) => HasWaiter(q)'
      /\ \A q \in Procs : HasSleep(q)' => HasSleep(q)
  <2>1. CASE waiters' = waiters
    BY <2>1, Zenon DEF Bounded, HasWaiter, HasSleep
  <2>2. ASSUME NEW t \in Timeouts, Len(waiters) < MaxWaiters,
               waiters' = Append(waiters, Waiter(p, t, TRUE))
        PROVE  /\ Bounded'
               /\ \A q \in Procs : HasWaiter(q) => HasWaiter(q)'
               /\ \A q \in Procs : HasSleep(q)' => HasSleep(q)
    <3>1. t \in Nat /\ MaxWaiters \in Nat
      BY ProcessesAssumption, Zenon
    <3>2. /\ Len(waiters') = Len(waiters) + 1
          /\ \A q \in Procs : HasWaiter(q) => HasWaiter(q)'
          /\ \A q \in Procs : HasSleep(q)' => HasSleep(q)
      BY <2>2, <3>1, EntryAdded, Zenon
    <3>3. Len(waiters) \in Nat
      BY LenProperties, Zenon DEF RestType
    <3>4. Bounded'
      BY <2>2, <3>1, <3>2, <3>3 DEF Bounded
    <3> QED BY <3>2, <3>4, Zenon
  <2> QED BY <2>1, <2>2, Zenon DEF SleepOwn
<1>3. ASSUME SleeperHasWaiter PROVE NoneForgotten
  <2>1. \A q \in Procs : at[q] = "pause" /\ on_hold[q] /\ ~ terminated[q] => HasWaiter(q)
    BY <1>3, Zenon DEF SleeperHasWaiter, HasWaiter
  <2> QED BY ONLY <1>1, <1>2, <2>1, Zenon DEF NoneForgotten
<1>4. ASSUME SleepsUntilDue PROVE NoneRoused
  <2>1. \A q \in Procs : at[q] = "pause" /\ ~ on_hold[q] /\ id_wait_for[q] # AnyChild =>
                           ~ HasSleep(q)
    BY <1>4, Zenon DEF SleepsUntilDue, HasSleep
  <2> QED BY ONLY <1>1, <1>2, <2>1, Zenon DEF NoneRoused
<1> QED BY <1>2, <1>3, <1>4, Zenon

\* A system call that ends with handle_sig_pending, not in sys_pause.
LEMMA SigSleepOwn ==
  ASSUME ProcInv, NEW p \in Procs, NEW n, NEW hold \in [Procs -> BOOLEAN],
         NEW term \in [Procs -> BOOLEAN], NEW pending \in [Procs -> Nat],
         NEW handler, NEW saved,
         HandleSig(p, n, hold, term, pending, handler, saved),
         \A q \in Procs \ {p} : hold[q] = on_hold[q] /\ term[q] = terminated[q],
         \A q \in Procs \ {p} : at'[q] = at[q], at'[p] # "pause",
         UNCHANGED <<id_wait_for, waiters>>
  PROVE  SleepOwn(p)
<1>1. SigEffect(p, hold, term, pending)
  BY SigOutcome, Zenon
<1> QED BY <1>1, Zenon DEF SigEffect, SleepOwn

LEMMA ReturnSleepOwn ==
  ASSUME ProcInv, NEW p \in Procs, ReturnFromSyscall(p),
         \A q \in Procs \ {p} : at'[q] = at[q], at'[p] # "pause",
         id_wait_for' = id_wait_for,
         \/ waiters' = waiters
         \/ /\ Len(waiters) < MaxWaiters
            /\ \E t \in Timeouts : waiters' = Append(waiters, Waiter(p, t, TRUE))
  PROVE  SleepOwn(p)
<1>1. /\ on_hold \in [Procs -> BOOLEAN] /\ terminated \in [Procs -> BOOLEAN]
      /\ sig_pending \in [Procs -> Nat]
  BY Zenon DEF ProcInv, ProcType
<1>2. SigEffect(p, on_hold, terminated, sig_pending)
  BY <1>1, SigOutcome, Zenon DEF ReturnFromSyscall
<1> QED BY <1>2, Zenon DEF SigEffect, SleepOwn

LEMMA BlockSleepOwn ==
  ASSUME ProcInv, NEW p \in Procs, NEW pid, NEW t, BlockInWait(p, pid, t)
  PROVE  SleepOwn(p)
<1>1. /\ on_hold \in [Procs -> BOOLEAN] /\ at \in [Procs -> {"user", "wait", "pause"}]
      /\ id_wait_for \in [Procs -> Procs \cup {AnyChild}]
  BY Zenon DEF ProcInv, ProcType
<1>2. /\ id_wait_for' = [id_wait_for EXCEPT ![p] = pid]
      /\ on_hold' = [on_hold EXCEPT ![p] = TRUE]
      /\ at' = [at EXCEPT ![p] = "wait"]
      /\ terminated' = terminated /\ waiters' = waiters
  BY Zenon DEF BlockInWait
<1>3. /\ \A q \in Procs \ {p} : /\ at'[q] = at[q] /\ on_hold'[q] = on_hold[q]
                                /\ id_wait_for'[q] = id_wait_for[q]
      /\ at'[p] = "wait"
  BY <1>1, <1>2, Zenon
<1> QED BY <1>2, <1>3, Zenon DEF SleepOwn

LEMMA ResumesSleepOwn ==
  ASSUME ProcInv, NEW p \in Procs, Resume(p)
  PROVE  SleepOwn(p)
<1>1. at \in [Procs -> {"user", "wait", "pause"}]
  BY Zenon DEF ProcInv, ProcType
<1>2. CASE ResumeWaitBlocks(p)
  BY <1>2, BlockSleepOwn, Zenon DEF ResumeWaitBlocks
<1>3. CASE ResumePause(p) \/ (ResumeWaitReaps(p) /\ id_wait_for_p[p] = target[p])
  <2>1. /\ at' = [at EXCEPT ![p] = "user"] /\ ReturnFromSyscall(p)
        /\ id_wait_for' = id_wait_for /\ waiters' = waiters
    BY <1>3, Zenon DEF ResumePause, ResumeWaitReaps
  <2>2. at'[p] = "user" /\ \A q \in Procs \ {p} : at'[q] = at[q]
    BY <1>1, <2>1, Zenon
  <2> QED BY <2>1, <2>2, ReturnSleepOwn, Zenon
<1>4. CASE ResumeWaitReaps(p) /\ id_wait_for_p[p] # target[p]
  BY <1>4, Zenon DEF ResumeWaitReaps, Resumes, SleepOwn
<1> QED BY <1>2, <1>3, <1>4, Zenon DEF Resume

LEMMA UserSleepOwn ==
  ASSUME ProcInv, NEW p \in Procs, UserStep(p), ~ \E t \in Timeouts : Pause(p, t)
  PROVE  SleepOwn(p)
<1>1. /\ on_hold \in [Procs -> BOOLEAN] /\ terminated \in [Procs -> BOOLEAN]
      /\ sig_pending \in [Procs -> Nat]
  BY Zenon DEF ProcInv, ProcType
<1>2. at[p] = "user"
  BY Zenon DEF UserStep, Fork, WaitReaps, WaitBlocks, Exit, Crash, Segv, WaitFails, Pause, Alarm,
         Kill, SetHandler, SigReturn, OtherCall, Calls, Runs
<1>3. \A q \in Procs \ {p} : /\ Ended(on_hold, p)[q] = on_hold[q]
                             /\ Ended(terminated, p)[q] = terminated[q]
                             /\ [on_hold EXCEPT ![p] = FALSE][q] = on_hold[q]
  BY <1>1, Zenon DEF Ended
<1>4. /\ Ended(on_hold, p) \in [Procs -> BOOLEAN] /\ Ended(terminated, p) \in [Procs -> BOOLEAN]
      /\ [on_hold EXCEPT ![p] = FALSE] \in [Procs -> BOOLEAN]
  BY <1>1, Zenon DEF Ended
<1>5. CASE \/ \E c \in Procs : Fork(p, c)
           \/ WaitFails(p) \/ OtherCall(p)
           \/ \E pid \in WaitArgs(p) : WaitReaps(p, pid)
           \/ \E t \in Timeouts : Alarm(p, t)
  <2>1. /\ ReturnFromSyscall(p) /\ at' = at /\ id_wait_for' = id_wait_for
        /\ \/ waiters' = waiters
           \/ /\ Len(waiters) < MaxWaiters
              /\ \E t \in Timeouts : waiters' = Append(waiters, Waiter(p, t, TRUE))
    BY <1>5, Zenon DEF Fork, WaitFails, OtherCall, WaitReaps, Alarm, Registered
  <2> QED BY <1>2, <2>1, ReturnSleepOwn, Zenon
<1> DEFINE held == Ended(on_hold, p)
           ended == Ended(terminated, p)
           freehold == [on_hold EXCEPT ![p] = FALSE]
<1>0. /\ held \in [Procs -> BOOLEAN] /\ ended \in [Procs -> BOOLEAN]
      /\ freehold \in [Procs -> BOOLEAN]
      /\ \A q \in Procs \ {p} : held[q] = on_hold[q] /\ ended[q] = terminated[q]
      /\ \A q \in Procs \ {p} : freehold[q] = on_hold[q]
  BY <1>3, <1>4, Zenon
<1>6. CASE Exit(p)
  <2>1. /\ HandleSig(p, Syscall, held, ended, sig_pending, sig_handler, int_num)
        /\ UNCHANGED <<at, id_wait_for, waiters>>
    BY <1>6, Zenon DEF Exit
  <2> HIDE DEF held, ended
  <2>2. at'[p] # "pause" /\ \A q \in Procs \ {p} : at'[q] = at[q]
    BY <1>2, <2>1, Zenon
  <2>3. UNCHANGED <<id_wait_for, waiters>>
    BY <2>1, Zenon
  <2>4. HandleSig(p, Syscall, held, ended, sig_pending, sig_handler, int_num)
    BY <2>1, Zenon
  <2>5. SigEffect(p, held, ended, sig_pending)
    BY <1>0, <1>1, <2>4, SigOutcome, Zenon
  <2> QED BY <1>0, <2>2, <2>3, <2>5, Zenon DEF SigEffect, SleepOwn
<1>7. CASE Crash(p)
  BY <1>2, <1>3, <1>7, Zenon DEF Crash, SleepOwn
<1>8. CASE Segv(p)
  <2> DEFINE pending == [sig_pending EXCEPT ![p] = SIGSEGV]
  <2>1. pending \in [Procs -> Nat]
    BY <1>1 DEF SIGSEGV
  <2>2. /\ UNCHANGED <<at, id_wait_for, waiters>>
        /\ \/ HandleSig(p, PageFault, freehold, terminated, pending, sig_handler, int_num)
           \/ HandleSig(p, PageFault, held, ended, sig_pending, sig_handler, int_num)
    BY <1>8, Zenon DEF Segv
  <2> HIDE DEF pending, held, ended, freehold
  <2>3. CASE HandleSig(p, PageFault, freehold, terminated, pending, sig_handler, int_num)
    BY <1>0, <1>1, <1>2, <2>1, <2>2, <2>3, SigSleepOwn, Zenon
  <2>4. CASE HandleSig(p, PageFault, held, ended, sig_pending, sig_handler, int_num)
    BY <1>0, <1>1, <1>2, <2>2, <2>4, SigSleepOwn, Zenon
  <2> QED BY <2>2, <2>3, <2>4, Zenon
<1>9. ASSUME NEW pid \in WaitArgs(p), WaitBlocks(p, pid) PROVE SleepOwn(p)
  BY <1>9, BlockSleepOwn, Zenon DEF WaitBlocks
<1>10. ASSUME NEW q \in Procs, NEW sig \in Sigs, Kill(p, q, sig) PROVE SleepOwn(p)
  <2> DEFINE pending == [sig_pending EXCEPT ![q] = sig]
  <2>1. sig \in Nat
    BY ProcessesAssumption, Zenon
  <2>2. pending \in [Procs -> Nat]
    BY <1>1, <2>1, Zenon
  <2>3. /\ UNCHANGED <<at, id_wait_for, waiters>>
        /\ HandleSig(p, Syscall, on_hold, terminated, pending, sig_handler, int_num)
    BY <1>10, Zenon DEF Kill
  <2> HIDE DEF pending
  <2> QED BY <1>1, <1>2, <2>2, <2>3, SigSleepOwn, Zenon
<1>11. CASE SetHandler(p) \/ SigReturn(p)
  <2>1. /\ UNCHANGED <<at, id_wait_for, waiters>>
        /\ \E n, handler, saved :
             HandleSig(p, n, on_hold, terminated, sig_pending, handler, saved)
    BY <1>11, Zenon DEF SetHandler, SigReturn
  <2> QED BY <1>1, <1>2, <2>1, SigSleepOwn, Zenon
<1> QED BY <1>5, <1>6, <1>7, <1>8, <1>9, <1>10, <1>11, Zenon DEF UserStep

LEMMA PauseSleeps ==
  ASSUME ProcInv, RestType, Bounded, NEW p \in Procs, NEW t \in Timeouts, Pause(p, t)
  PROVE  /\ Bounded'
         /\ SleeperHasWaiter => NoneForgotten
         /\ SleepsUntilDue => NoneRoused
<1>1. t \in Nat /\ MaxWaiters \in Nat /\ Len(waiters) \in Nat
  BY ProcessesAssumption, LenProperties, Zenon DEF RestType
<1>2. /\ Len(waiters) < MaxWaiters /\ waiters' = Append(waiters, Waiter(p, t, FALSE))
      /\ on_hold' = [on_hold EXCEPT ![p] = TRUE] /\ at' = [at EXCEPT ![p] = "pause"]
      /\ terminated' = terminated /\ id_wait_for' = id_wait_for
  BY Zenon DEF Pause, Registered
<1>3. /\ Len(waiters') = Len(waiters) + 1
      /\ HasWaiter(p)'
      /\ \A q \in Procs : HasWaiter(q) => HasWaiter(q)'
      /\ \A q \in Procs : HasSleep(q)' => HasSleep(q) \/ q = p
  BY <1>1, <1>2, EntryAdded, Zenon
<1>4. Bounded'
  BY <1>1, <1>2, <1>3 DEF Bounded
<1>5. on_hold'[p] /\ \A q \in Procs \ {p} : on_hold'[q] = on_hold[q] /\ at'[q] = at[q]
  BY <1>2, Zenon DEF ProcInv, ProcType
<1>6. ASSUME SleeperHasWaiter PROVE NoneForgotten
  <2>1. \A q \in Procs : at[q] = "pause" /\ on_hold[q] /\ ~ terminated[q] => HasWaiter(q)
    BY <1>6, Zenon DEF SleeperHasWaiter, HasWaiter
  <2> QED BY <1>2, <1>3, <1>5, <2>1, Zenon DEF NoneForgotten
<1>7. ASSUME SleepsUntilDue PROVE NoneRoused
  <2>1. \A q \in Procs : at[q] = "pause" /\ ~ on_hold[q] /\ id_wait_for[q] # AnyChild =>
                           ~ HasSleep(q)
    BY <1>7, Zenon DEF SleepsUntilDue, HasSleep
  <2> QED BY <1>2, <1>3, <1>5, <2>1, Zenon DEF NoneRoused
<1> QED BY <1>4, <1>6, <1>7, Zenon

LEMMA TickSleeps ==
  ASSUME ProcInv, RestType, Bounded, MaxWaiters <= 1, Tick
  PROVE  /\ Bounded'
         /\ SleeperHasWaiter => NoneForgotten
         /\ SleepsUntilDue => NoneRoused
<1>1. /\ on_hold \in [Procs -> BOOLEAN] /\ terminated \in [Procs -> BOOLEAN]
      /\ sig_pending \in [Procs -> Nat] /\ current \in Procs
  BY Zenon DEF ProcInv, ProcType
<1>2. waiters \in Seq(Waiters) /\ Len(waiters) \in Nat /\ MaxWaiters \in Nat
  BY ProcessesAssumption, LenProperties, Zenon DEF RestType
<1>3. Len(waiters) <= 1
  BY <1>2 DEF Bounded
<1>4. OneTick(waiters)
  BY <1>2, <1>3, OneWaiterTick, Zenon
<1> DEFINE woken == {w.proc : w \in Woken(waiters)}
           alarmed == {w.proc : w \in {w \in Woken(waiters) : w.is_alarm}}
           hold == [p \in Procs |-> on_hold[p] /\ p \notin woken]
           pending == [p \in Procs |-> IF p \in alarmed THEN SIGALRM ELSE sig_pending[p]]
<1>5. /\ HandleSig(current, IRQ0, hold, terminated, pending, sig_handler, int_num)
      /\ at[current] = "user" /\ waiters' = Remaining(waiters)
      /\ at' = at /\ id_wait_for' = id_wait_for
  BY Zenon DEF Tick, Runs
<1> HIDE DEF alarmed
<1>6. pending \in [Procs -> Nat]
  BY <1>1 DEF SIGALRM
<1> HIDE DEF pending, woken
<1>7. hold \in [Procs -> BOOLEAN]
  BY <1>1, Zenon
<1>8. \A q \in Procs : hold[q] <=> on_hold[q] /\ q \notin woken
  BY <1>1, Zenon
<1> HIDE DEF hold
<1>9. SigEffect(current, hold, terminated, pending)
  BY <1>1, <1>5, <1>6, <1>7, SigOutcome, Zenon
<1>10. /\ at'[current] = "user"
       /\ \A q \in Procs \ {current} :
            on_hold'[q] = hold[q] /\ terminated'[q] = terminated[q]
  BY <1>5, <1>9, Zenon DEF SigEffect
<1>11. CASE /\ Woken(waiters) = {} /\ Remaining(waiters) \in Seq(Waiters)
            /\ Len(Remaining(waiters)) = Len(waiters)
            /\ DOMAIN Remaining(waiters) = DOMAIN waiters
            /\ \A i \in DOMAIN waiters :
                 /\ Remaining(waiters)[i].proc = waiters[i].proc
                 /\ Remaining(waiters)[i].is_alarm = waiters[i].is_alarm
  <2>1. woken = {}
    BY <1>11, Zenon DEF woken
  <2>2. Bounded'
    BY <1>5, <1>11, Zenon DEF Bounded
  <2>3. \A q \in Procs : (HasWaiter(q) <=> HasWaiter(q)') /\ (HasSleep(q) <=> HasSleep(q)')
    BY <1>5, <1>11, Zenon DEF HasWaiter, HasSleep
  <2>4. \A q \in Procs \ {current} : on_hold'[q] <=> on_hold[q]
    BY <1>8, <1>10, <2>1, Zenon
  <2>5. ASSUME SleeperHasWaiter PROVE NoneForgotten
    <3>1. \A q \in Procs : at[q] = "pause" /\ on_hold[q] /\ ~ terminated[q] => HasWaiter(q)
      BY <2>5, Zenon DEF SleeperHasWaiter, HasWaiter
    <3> QED BY <1>5, <1>10, <2>3, <2>4, <3>1, Zenon DEF NoneForgotten
  <2>6. ASSUME SleepsUntilDue PROVE NoneRoused
    <3>1. \A q \in Procs : at[q] = "pause" /\ ~ on_hold[q] /\ id_wait_for[q] # AnyChild =>
                             ~ HasSleep(q)
      BY <2>6, Zenon DEF SleepsUntilDue, HasSleep
    <3> QED BY <1>5, <1>10, <2>3, <2>4, <3>1, Zenon DEF NoneRoused
  <2> QED BY <2>2, <2>5, <2>6, Zenon
<1>12. CASE DOMAIN waiters = {1} /\ Woken(waiters) = {waiters[1]} /\ Remaining(waiters) = <<>>
  <2>1. waiters' = <<>> /\ Len(waiters') = 0 /\ DOMAIN waiters' = {}
    BY <1>5, <1>12
  <2>2. Bounded'
    BY <1>2, <2>1 DEF Bounded
  <2>3. NoneRoused
    BY <2>1, Zenon DEF NoneRoused, HasSleep
  <2>4. waiters[1].proc \in woken
    BY <1>12, Zenon DEF woken
  <2>5. ASSUME SleeperHasWaiter,
               NEW q \in Procs, at'[q] = "pause", on_hold'[q], ~ terminated'[q]
        PROVE  FALSE
    <3>1. q # current
      BY <1>10, <2>5, Zenon
    <3>2. on_hold[q] /\ q \notin woken /\ ~ terminated[q] /\ at[q] = "pause"
      BY <1>5, <1>8, <1>10, <2>5, <3>1, Zenon
    <3>3. PICK i \in DOMAIN waiters : waiters[i].proc = q
      BY <2>5, <3>2, Zenon DEF SleeperHasWaiter
    <3> QED BY <1>12, <2>4, <3>2, <3>3, Zenon
  <2> QED BY <2>2, <2>3, <2>5, Zenon DEF NoneForgotten
<1> QED BY <1>4, <1>11, <1>12, Zenon DEF OneTick

LEMMA ScanSleeps ==
  ASSUME ProcInv, Scan
  PROVE  /\ UNCHANGED <<waiters, at, terminated, id_wait_for>>
         /\ \A q \in Procs : on_hold'[q] => on_hold[q]
<1>1. /\ scan # NoProc /\ (Passes \/ Chooses)
      /\ UNCHANGED <<terminated, id_wait_for, at>>
  BY ScanIs, Zenon
<1>2. waiters' = waiters
  BY Zenon DEF Scan
<1>3. scan \in Procs
  BY <1>1, Zenon DEF ProcInv, ProcType
<1>4. \A q \in Procs : on_hold'[q] => on_hold[q]
  <2>1. CASE Cleanup(scan)
    BY <1>3, <2>1, CleanupIs, Zenon
  <2>2. CASE on_hold' = on_hold
    BY <2>2, Zenon
  <2> QED BY <1>1, <2>1, <2>2, Zenon DEF Passes, Chooses
<1> QED BY <1>1, <1>2, <1>4, Zenon

SleepInv == Bounded /\ SleeperHasWaiter

LEMMA SleepKept ==
  ASSUME ProcInv, RestType, SleepInv, MaxWaiters <= 1, [Next]_vars
  PROVE  SleepInv'
<1>0. Bounded /\ SleeperHasWaiter
  BY Zenon DEF SleepInv
<1>1. ASSUME Bounded', NoneForgotten PROVE SleepInv'
  BY <1>1, Zenon DEF SleepInv, SleeperHasWaiter, NoneForgotten, HasWaiter
<1>2. ASSUME UNCHANGED <<waiters, at, terminated>>, \A q \in Procs : on_hold'[q] => on_hold[q]
      PROVE  SleepInv'
  BY <1>2, Zenon DEF SleepInv, Bounded, SleeperHasWaiter
<1>3. CASE Scan
  BY <1>2, <1>3, ScanSleeps, Zenon
<1>4. CASE Tick
  BY <1>0, <1>1, <1>4, TickSleeps, Zenon
<1>5. ASSUME NEW q \in Procs, CtrlC(q) PROVE SleepInv'
  <2>1. UNCHANGED <<waiters, at, terminated>> /\ on_hold' = [on_hold EXCEPT ![q] = FALSE]
    BY <1>5, Zenon DEF CtrlC, procVars
  <2>2. \A r \in Procs : on_hold'[r] => on_hold[r]
    BY <2>1, Zenon DEF ProcInv, ProcType
  <2> QED BY <1>2, <2>1, <2>2, Zenon
<1>6. ASSUME NEW p \in Procs, SleepOwn(p) PROVE SleepInv'
  BY <1>0, <1>1, <1>6, SleepOwnKeeps, Zenon
<1>7. ASSUME NEW p \in Procs, Resume(p) PROVE SleepInv'
  BY <1>6, <1>7, ResumesSleepOwn, Zenon
<1>8. ASSUME NEW p \in Procs, UserStep(p) PROVE SleepInv'
  <2>1. CASE \E t \in Timeouts : Pause(p, t)
    BY <1>0, <1>1, <2>1, PauseSleeps, Zenon
  <2>2. CASE ~ \E t \in Timeouts : Pause(p, t)
    BY <1>6, <1>8, <2>2, UserSleepOwn, Zenon
  <2> QED BY <2>1, <2>2, Zenon
<1>9. CASE UNCHANGED vars
  BY <1>2, <1>9, Zenon DEF vars, procVars
<1> QED BY <1>3, <1>4, <1>5, <1>7, <1>8, <1>9, Zenon DEF Next

LEMMA SleepInvHolds ==
  ASSUME MaxWaiters <= 1
  PROVE  Spec => []SleepInv
<1>1. Init => SleepInv
  <2> SUFFICES ASSUME Init PROVE SleepInv
    BY Zenon
  <2>1. waiters = <<>> /\ \A p \in Procs : at[p] = "user"
    BY Zenon DEF Init
  <2>2. Bounded
    BY <2>1, ProcessesAssumption DEF Bounded
  <2> QED BY <2>1, <2>2, Zenon DEF SleepInv, SleeperHasWaiter
<1>2. ProcInv /\ RestType /\ SleepInv /\ [Next]_vars => SleepInv'
  BY SleepKept, Zenon
<1> QED BY <1>1, <1>2, ProcInvHolds, RestTypeHolds, PTL DEF Spec

\* While the timer list never holds more than one entry, a process asleep in
\* sys_pause is still in it, so a later tick wakes it.
THEOREM SleepersAreListed ==
  ASSUME MaxWaiters <= 1
  PROVE  Spec => []SleeperHasWaiter
<1>1. SleepInv => SleeperHasWaiter
  BY Zenon DEF SleepInv
<1> QED BY <1>1, SleepInvHolds, PTL
-----------------------------------------------------------------------------
(***************************************************************************)
(* Waits by pid leave nothing behind that could end a sleep: id_wait_for   *)
(* keeps the pid after sys_wait has returned, but that child is cleaned,   *)
(* and process_cleanup passes a process once.                              *)
(***************************************************************************)
PidWait(p) ==
  id_wait_for[p] # AnyChild =>
    /\ id_wait_for[p] # Init0 => parent[id_wait_for[p]] # NoProc
    /\ at[p] = "wait" => /\ id_wait_for[p] = target[p]
                         /\ id_wait_for_p[p] # NoProc =>
                              id_wait_for_p[p] = target[p] /\ cleaned[target[p]]
    /\ at[p] # "wait" /\ parent[id_wait_for[p]] = p => cleaned[id_wait_for[p]]
PidWaits == \A p \in Procs : PidWait(p)

LEMMA AwakeKeepsPids ==
  ASSUME PidWaits, NEW p \in Procs, at[p] # "wait", at'[p] # "wait",
         \A q \in Procs \ {p} : at'[q] = at[q],
         UNCHANGED <<id_wait_for, id_wait_for_p, parent, cleaned, target>>
  PROVE  PidWaits'
<1> SUFFICES ASSUME NEW q \in Procs PROVE PidWait(q)'
  BY Zenon DEF PidWaits
<1>1. PidWait(q)
  BY Zenon DEF PidWaits
<1> QED BY <1>1, Zenon DEF PidWait

LEMMA QuietKeepsPids ==
  ASSUME PidWaits, NEW p \in Procs, at[p] # "wait", Quiet(p)
  PROVE  PidWaits'
<1>1. /\ UNCHANGED <<id_wait_for, id_wait_for_p, parent, cleaned, target>>
      /\ at'[p] # "wait" /\ \A q \in Procs \ {p} : at'[q] = at[q]
  BY Zenon DEF Quiet
<1> QED BY <1>1, AwakeKeepsPids, Zenon

LEMMA ForkKeepsPids ==
  ASSUME ProcInv, PidWaits, NEW p \in Procs, NEW c \in Procs, Fork(p, c)
  PROVE  PidWaits'
<1>1. /\ c \notin Range(list) /\ c \notin freed /\ parent' = [parent EXCEPT ![c] = p]
      /\ UNCHANGED <<id_wait_for, id_wait_for_p, at, cleaned, target>>
  BY Zenon DEF Fork, Created
<1>2. parent[c] = NoProc /\ c # Init0
  <2>1. Range(list) = {q \in Procs : q = Init0 \/ parent[q] # NoProc} \ freed
    BY Listed, Zenon
  <2> QED BY <1>1, <2>1, Zenon
<1> SUFFICES ASSUME NEW q \in Procs, id_wait_for[q] # AnyChild PROVE PidWait(q)'
  BY <1>1, Zenon DEF PidWaits, PidWait
<1>3. PidWait(q) /\ id_wait_for[q] \in Procs
  BY Zenon DEF PidWaits, ProcInv, ProcType
<1>4. id_wait_for[q] # c
  BY <1>2, <1>3, Zenon DEF PidWait
<1>5. parent'[id_wait_for[q]] = parent[id_wait_for[q]]
  BY <1>1, <1>3, <1>4, Zenon DEF ProcInv, ProcType
<1> QED BY <1>1, <1>3, <1>5, Zenon DEF PidWait

LEMMA BlockKeepsPids ==
  ASSUME ProcInv, PidWaits, NEW p \in Procs, NEW pid, NEW t \in Procs,
         parent[t] = p, pid = AnyChild \/ pid = t, BlockInWait(p, pid, t)
  PROVE  PidWaits'
<1>1. /\ id_wait_for' = [id_wait_for EXCEPT ![p] = pid]
      /\ id_wait_for_p' = [id_wait_for_p EXCEPT ![p] = NoProc]
      /\ at' = [at EXCEPT ![p] = "wait"]
      /\ target' = [target EXCEPT ![p] = t]
      /\ parent' = parent /\ cleaned' = cleaned
  BY Zenon DEF BlockInWait
<1>2. /\ at \in [Procs -> {"user", "wait", "pause"}]
      /\ target \in [Procs -> Procs \cup {NoProc}]
      /\ id_wait_for \in [Procs -> Procs \cup {AnyChild}]
      /\ id_wait_for_p \in [Procs -> Procs \cup {NoProc}]
  BY Zenon DEF ProcInv, ProcType
<1>3. /\ id_wait_for'[p] = pid /\ id_wait_for_p'[p] = NoProc
      /\ at'[p] = "wait" /\ target'[p] = t
  BY <1>1, <1>2, Zenon
<1>4. \A q \in Procs \ {p} :
        /\ id_wait_for'[q] = id_wait_for[q] /\ id_wait_for_p'[q] = id_wait_for_p[q]
        /\ at'[q] = at[q] /\ target'[q] = target[q]
  BY <1>1, <1>2, Zenon
<1>5. PidWait(p)'
  <2>1. p # NoProc
    BY Init0InProcs, Zenon
  <2> QED BY <1>1, <1>3, <2>1, Zenon DEF PidWait
<1>6. ASSUME NEW q \in Procs \ {p} PROVE PidWait(q)'
  <2>1. PidWait(q)
    BY Zenon DEF PidWaits
  <2> QED BY <1>1, <1>4, <2>1, Zenon DEF PidWait
<1> QED BY <1>5, <1>6, Zenon DEF PidWaits

LEMMA ResumeKeepsPids ==
  ASSUME ProcInv, PidWaits, NEW p \in Procs, Resume(p)
  PROVE  PidWaits'
<1>1. CASE ResumePause(p)
  <2>1. at[p] # "wait"
    BY <1>1, Zenon DEF ResumePause, Resumes
  <2> QED BY <1>1, <2>1, ResumePauseQuiet, QuietKeepsPids, Zenon
<1>2. CASE ResumeWaitBlocks(p)
  <2>1. BlockInWait(p, id_wait_for[p], target[p]) /\ at[p] = "wait"
    BY <1>2, Zenon DEF ResumeWaitBlocks, Resumes
  <2>2. target[p] \in Procs /\ parent[target[p]] = p
    BY <2>1, Listed, Zenon DEF ProcInv, WaitsForChild
  <2>3. id_wait_for[p] = AnyChild \/ id_wait_for[p] = target[p]
    BY <2>1, Zenon DEF PidWaits, PidWait
  <2> QED BY <2>1, <2>2, <2>3, BlockKeepsPids, Zenon
<1>3. CASE ResumeWaitReaps(p) /\ id_wait_for_p[p] # target[p]
  <2>1. UNCHANGED <<at, id_wait_for, id_wait_for_p, parent, cleaned, target>>
    BY <1>3, Zenon DEF ResumeWaitReaps
  <2> QED BY <2>1, Zenon DEF PidWaits, PidWait
<1>4. CASE ResumeWaitReaps(p) /\ id_wait_for_p[p] = target[p]
  <2>1. /\ at[p] = "wait" /\ id_wait_for_p[p] # NoProc
        /\ at' = [at EXCEPT ![p] = "user"] /\ target' = [target EXCEPT ![p] = NoProc]
        /\ UNCHANGED <<id_wait_for, id_wait_for_p, parent, cleaned>>
    BY <1>4, Zenon DEF ResumeWaitReaps, Resumes
  <2>2. at'[p] = "user" /\ \A q \in Procs \ {p} : at'[q] = at[q] /\ target'[q] = target[q]
    BY <2>1, Zenon DEF ProcInv, ProcType
  <2>3. PidWait(p)
    BY Zenon DEF PidWaits
  <2>4. id_wait_for[p] # AnyChild => cleaned[id_wait_for[p]]
    BY <2>1, <2>3, Zenon DEF PidWait
  <2>5. PidWait(p)'
    BY <2>1, <2>2, <2>3, <2>4, Zenon DEF PidWait
  <2>6. ASSUME NEW q \in Procs \ {p} PROVE PidWait(q)'
    <3>1. PidWait(q)
      BY Zenon DEF PidWaits
    <3> QED BY <2>1, <2>2, <3>1, Zenon DEF PidWait
  <2> QED BY <2>5, <2>6, Zenon DEF PidWaits
<1> QED BY <1>1, <1>2, <1>3, <1>4, Zenon DEF Resume

LEMMA UserKeepsPids ==
  ASSUME ProcInv, PidWaits, NEW p \in Procs, UserStep(p)
  PROVE  PidWaits'
<1>1. at[p] # "wait"
  <2>1. at[p] = "user"
    BY Zenon DEF UserStep, Fork, WaitReaps, WaitBlocks, Exit, Crash, Segv, WaitFails, Pause,
           Alarm, Kill, SetHandler, SigReturn, OtherCall, Calls, Runs
  <2> QED BY <2>1, Zenon
<1>2. CASE QuietSteps(p)
  BY <1>1, <1>2, QuietStepsAre, QuietKeepsPids, Zenon
<1>3. ASSUME NEW c \in Procs, Fork(p, c) PROVE PidWaits'
  BY <1>3, ForkKeepsPids, Zenon
<1>4. ASSUME NEW pid \in WaitArgs(p), WaitReaps(p, pid) PROVE PidWaits'
  <2>1. UNCHANGED <<at, id_wait_for, id_wait_for_p, parent, cleaned, target>>
    BY <1>4, Zenon DEF WaitReaps
  <2> QED BY <2>1, Zenon DEF PidWaits, PidWait
<1>5. ASSUME NEW pid \in WaitArgs(p), WaitBlocks(p, pid) PROVE PidWaits'
  <2> DEFINE t == list[Min(Matches(p, pid))]
  <2>1. Matches(p, pid) # {} /\ BlockInWait(p, pid, t)
    BY <1>5, Zenon DEF WaitBlocks
  <2>2. t \in Procs /\ parent[t] = p /\ (pid = AnyChild \/ pid = t)
    BY <2>1, MatchIsChild
  <2> HIDE DEF t
  <2> QED BY <2>1, <2>2, BlockKeepsPids, Zenon
<1> QED BY <1>2, <1>3, <1>4, <1>5, Zenon DEF UserStep, QuietSteps

\* process_cleanup tells a waiter by pid of its own target, and rouses nobody
\* else who waits or has waited by pid.
LEMMA ScanKeepsPids ==
  ASSUME ProcInv, PidWaits, Scan
  PROVE  /\ PidWaits'
         /\ \A q \in Procs : at[q] # "wait" /\ id_wait_for[q] # AnyChild =>
              on_hold'[q] = on_hold[q]
<1>1. /\ scan # NoProc /\ (Passes \/ Chooses)
      /\ UNCHANGED <<parent, id_wait_for, at, target>>
  BY ScanIs, Zenon
<1>2. scan \in Procs
  BY <1>1, Zenon DEF ProcInv, ProcType
<1>3. CASE UNCHANGED <<on_hold, cleaned, id_wait_for_p>>
  BY <1>1, <1>3, Zenon DEF PidWaits, PidWait
<1>4. CASE ~ cleaned[scan] /\ Cleanup(scan)
  <2>1. /\ cleaned' = [cleaned EXCEPT ![scan] = TRUE]
        /\ \A p \in Procs : id_wait_for_p'[p] \in {id_wait_for_p[p], scan}
    BY <1>2, <1>4, CleanupIs, Zenon
  <2>2. cleaned'[scan] /\ \A p \in Procs : cleaned[p] => cleaned'[p]
    BY <1>2, <2>1, Zenon DEF ProcInv, ProcType
  <2>3. ASSUME NEW q \in Procs,
               on_hold'[q] # on_hold[q] \/ id_wait_for_p'[q] # id_wait_for_p[q]
        PROVE  parent[scan] = q /\ id_wait_for[q] \in {scan, AnyChild}
    <3>1. /\ parent[scan] # NoProc /\ id_wait_for[parent[scan]] \in {scan, AnyChild}
          /\ on_hold' = [on_hold EXCEPT ![parent[scan]] = FALSE]
          /\ id_wait_for_p' = [id_wait_for_p EXCEPT ![parent[scan]] = scan]
      BY <1>4, <2>3, Zenon DEF Cleanup, ParentWaits
    <3>2. parent[scan] = q
      BY <2>3, <3>1, Zenon DEF ProcInv, ProcType
    <3> QED BY <3>1, <3>2, Zenon
  <2>4. ASSUME NEW q \in Procs, at[q] # "wait", id_wait_for[q] # AnyChild
        PROVE  on_hold'[q] = on_hold[q]
    <3>1. PidWait(q)
      BY Zenon DEF PidWaits
    <3>2. ~ (parent[scan] = q /\ id_wait_for[q] = scan)
      BY <1>4, <2>4, <3>1, Zenon DEF PidWait
    <3> QED BY <2>3, <2>4, <3>2, Zenon
  <2>5. ASSUME NEW q \in Procs, id_wait_for[q] # AnyChild PROVE PidWait(q)'
    <3>1. PidWait(q) /\ id_wait_for[q] \in Procs
      BY <2>5, Zenon DEF PidWaits, ProcInv, ProcType
    <3>2. at[q] # "wait" /\ parent[id_wait_for[q]] = q => cleaned'[id_wait_for[q]]
      BY <2>2, <2>5, <3>1, Zenon DEF PidWait
    <3>3. ASSUME at[q] = "wait", id_wait_for_p'[q] # NoProc
          PROVE  id_wait_for_p'[q] = target[q] /\ cleaned'[target[q]]
      <4>1. id_wait_for[q] = target[q]
        BY <2>5, <3>1, <3>3, Zenon DEF PidWait
      <4>2. CASE id_wait_for_p'[q] = id_wait_for_p[q]
        BY <2>2, <2>5, <3>1, <3>3, <4>1, <4>2, Zenon DEF PidWait
      <4>3. CASE id_wait_for_p'[q] # id_wait_for_p[q]
        <5>1. id_wait_for_p'[q] = scan
          BY <2>1, <4>3, Zenon
        <5>2. target[q] = scan
          BY <2>3, <2>5, <4>1, <4>3, Zenon
        <5> QED BY <2>2, <5>1, <5>2, Zenon
      <4> QED BY <4>2, <4>3, Zenon
    <3> QED BY <1>1, <2>5, <3>1, <3>2, <3>3, Zenon DEF PidWait
  <2>6. PidWaits'
    BY <1>1, <2>5, Zenon DEF PidWaits, PidWait
  <2> QED BY <2>4, <2>6, Zenon
<1> QED BY <1>1, <1>3, <1>4, Zenon DEF Passes, Chooses

DueInv == Bounded /\ SleepsUntilDue /\ PidWaits

LEMMA DueKept ==
  ASSUME ProcInv, RestType, DueInv, MaxWaiters <= 1, SIGINT \notin Sigs, [Next]_vars
  PROVE  DueInv'
<1>0. Bounded /\ SleepsUntilDue /\ PidWaits /\ current \in Procs
  BY Listed, Zenon DEF DueInv
<1>1. ASSUME Bounded', NoneRoused, PidWaits' PROVE DueInv'
  BY <1>1, Zenon DEF DueInv, SleepsUntilDue, NoneRoused, HasSleep
<1>2. CASE Scan
  <2>1. /\ UNCHANGED <<waiters, at, id_wait_for>> /\ PidWaits'
        /\ \A q \in Procs : at[q] # "wait" /\ id_wait_for[q] # AnyChild =>
             on_hold'[q] = on_hold[q]
    BY <1>0, <1>2, ScanSleeps, ScanKeepsPids, Zenon
  <2>2. SleepsUntilDue'
    <3> SUFFICES ASSUME NEW q \in Procs, at'[q] = "pause", ~ on_hold'[q],
                        id_wait_for'[q] # AnyChild
                 PROVE  ~ HasSleep(q)'
      BY Zenon DEF SleepsUntilDue, HasSleep
    <3>1. at[q] = "pause" /\ at[q] # "wait" /\ id_wait_for[q] # AnyChild
      BY <2>1, Zenon
    <3>2. ~ on_hold[q]
      BY <2>1, <3>1, Zenon
    <3>3. ~ HasSleep(q)
      BY <1>0, <3>1, <3>2, Zenon DEF SleepsUntilDue, HasSleep
    <3> QED BY <2>1, <3>3, Zenon DEF HasSleep
  <2> QED BY <1>0, <2>1, <2>2, Zenon DEF DueInv, Bounded
<1>3. CASE Tick
  <2>1. at[current] # "wait"
    <3>1. at[current] = "user"
      BY <1>3, Zenon DEF Tick, Runs
    <3> QED BY <3>1, Zenon
  <2>2. PidWaits'
    BY <1>0, <1>3, <2>1, TickQuiet, QuietKeepsPids, Zenon
  <2> QED BY <1>0, <1>1, <1>3, <2>2, TickSleeps, Zenon
<1>4. ASSUME NEW q \in Procs, CtrlC(q) PROVE FALSE
  BY <1>4, Zenon DEF CtrlC
<1>5. ASSUME NEW p \in Procs, SleepOwn(p), PidWaits' PROVE DueInv'
  BY <1>0, <1>1, <1>5, SleepOwnKeeps, Zenon
<1>6. ASSUME NEW p \in Procs, Resume(p) PROVE DueInv'
  BY <1>0, <1>5, <1>6, ResumesSleepOwn, ResumeKeepsPids, Zenon
<1>7. ASSUME NEW p \in Procs, UserStep(p) PROVE DueInv'
  <2>1. PidWaits'
    BY <1>0, <1>7, UserKeepsPids, Zenon
  <2>2. CASE \E t \in Timeouts : Pause(p, t)
    BY <1>0, <1>1, <2>1, <2>2, PauseSleeps, Zenon
  <2>3. CASE ~ \E t \in Timeouts : Pause(p, t)
    BY <1>5, <1>7, <2>1, <2>3, UserSleepOwn, Zenon
  <2> QED BY <2>2, <2>3, Zenon
<1>8. CASE UNCHANGED vars
  <2>1. UNCHANGED <<waiters, at, on_hold, target, id_wait_for, id_wait_for_p, parent, cleaned>>
    BY <1>8, Zenon DEF vars, procVars
  <2>2. Bounded' /\ SleepsUntilDue'
    BY <1>0, <2>1, Zenon DEF Bounded, SleepsUntilDue
  <2>3. PidWaits'
    BY <1>0, <2>1, Zenon DEF PidWaits, PidWait
  <2> QED BY <2>2, <2>3, Zenon DEF DueInv
<1> QED BY <1>2, <1>3, <1>4, <1>6, <1>7, <1>8, Zenon DEF Next

\* While the timer list never holds more than one entry and nobody types Ctrl-C,
\* sys_pause does not return early to a process that has never waited for any
\* child: process_cleanup, which clears on_hold on the strength of an
\* id_wait_for that nobody resets, does not clear this one's.
THEOREM SleepLastsUntilDue ==
  ASSUME MaxWaiters <= 1, SIGINT \notin Sigs
  PROVE  Spec => []SleepsUntilDue
<1>1. Init => DueInv
  <2> SUFFICES ASSUME Init PROVE DueInv
    BY Zenon
  <2>1. /\ waiters = <<>> /\ \A p \in Procs : at[p] = "user"
        /\ \A p \in Procs : id_wait_for[p] = Init0
        /\ parent[Init0] = NoProc
    BY Init0InProcs, Zenon DEF Init, Init0
  <2>2. Bounded
    BY <2>1, ProcessesAssumption DEF Bounded
  <2>3. SleepsUntilDue
    BY <2>1, Zenon DEF SleepsUntilDue
  <2>4. PidWaits
    BY <2>1, Init0InProcs, Zenon DEF PidWaits, PidWait
  <2> QED BY <2>2, <2>3, <2>4, Zenon DEF DueInv
<1>2. ProcInv /\ RestType /\ DueInv /\ [Next]_vars => DueInv'
  BY DueKept, Zenon
<1>3. DueInv => SleepsUntilDue
  BY Zenon DEF DueInv
<1> QED BY <1>1, <1>2, <1>3, ProcInvHolds, RestTypeHolds, PTL DEF Spec
=============================================================================
