------------------------------- MODULE Timer -------------------------------
(***************************************************************************)
(* The list of waiters of sys/timer.c: processes asleep in sys_pause and   *)
(* alarms, each with the ticks left.  The module Processes holds the list  *)
(* in a variable; here are the operations on it.                           *)
(***************************************************************************)
EXTENDS Naturals, Sequences, Functions, FiniteSetsExt

Waiter(p, t, alarm) == [proc |-> p, ticks |-> t, is_alarm |-> alarm]

\* register_to_be_waken and register_to_trigger_alarm append to the list.
Registered(ws, w) == Append(ws, w)

Expired(w) == w.ticks = 0
Older(w) == [w EXCEPT !.ticks = @ - 1]

\* tick_timer_update first looks at the head.  When it has expired the head
\* is removed, and its successor is not decremented in this tick.
HeadNotWoken(ws) == FALSE
HeadExpired(ws) == ws # <<>> /\ Expired(Head(ws))
AfterHead(ws) ==
  IF ws = <<>> THEN ws
  ELSE IF Expired(Head(ws)) THEN Tail(ws)
  ELSE <<Older(Head(ws))>> \o Tail(ws)

\* Then every later waiter is removed if it has expired and decremented
\* otherwise.  The cursor is then at the last waiter kept.
KeptAt(ws) == {i \in DOMAIN ws : i = 1 \/ ~ Expired(ws[i])}
Cursor(ws, i) == Max({j \in KeptAt(ws) : j < i})

\* The waiters kept, in their order: the k-th has k - 1 kept ones before it.
Nth(S, k) == CHOOSE i \in S : Cardinality({j \in S : j <= i}) = k
Remaining(ws) ==
  LET l == AfterHead(ws)
      kept == KeptAt(l)
      old == [i \in kept |-> IF i = 1 THEN l[i] ELSE Older(l[i])]
  IN  [k \in 1 .. Cardinality(kept) |-> old[Nth(kept, k)]]

\* Whom the removal of the waiter at i wakes: the waiter at the cursor.
WokenByRemoval(l, i) == l[Cursor(l, i)]

\* The waiters whose process one tick wakes; alarms among them raise SIGALRM.
Woken(ws) ==
  LET l == AfterHead(ws) IN
  (IF HeadExpired(ws) THEN {Head(ws)} ELSE {})
    \cup {WokenByRemoval(l, i) : i \in DOMAIN l \ KeptAt(l)}
=============================================================================
