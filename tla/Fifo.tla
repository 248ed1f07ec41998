------------------------------- MODULE Fifo -------------------------------
(***************************************************************************)
(* What programs expect of pipes: bytes come out of a pipe once, in the    *)
(* order in which they went in, and no more of them than went in.          *)
(***************************************************************************)
EXTENDS Naturals, Sequences

CONSTANTS
  Pipes,
  Bytes,
  Capacity     \* bytes a pipe can hold

VARIABLES
  queue,       \* the bytes in each pipe
  last         \* the bytes this step takes out

Chunks == UNION {[1 .. n -> Bytes] : n \in 1 .. Capacity}

Init == queue = [i \in Pipes |-> <<>>] /\ last = <<>>

Put(i, s) ==
  /\ Len(queue[i]) + Len(s) <= Capacity
  /\ queue' = [queue EXCEPT ![i] = @ \o s]
  /\ last' = <<>>

Get(i, k) ==
  /\ last' = SubSeq(queue[i], 1, k)
  /\ queue' = [queue EXCEPT ![i] = SubSeq(@, k + 1, Len(@))]

Other == UNCHANGED queue /\ last' = <<>>

Next ==
  \/ Other
  \/ \E i \in Pipes :
       \/ \E s \in Chunks : Put(i, s)
       \/ \E k \in 1 .. Len(queue[i]) : Get(i, k)

Spec == Init /\ [][Next]_<<queue, last>>
=============================================================================
