---------------------------- MODULE PipeProofs ----------------------------
(***************************************************************************)
(* Theorems about Pipe, for any number of processes, pipes, descriptors    *)
(* and bytes and for any size of the ring: types, sleeping readers stay in *)
(* the list of waiters, a write wakes them, the ring implements a first-in *)
(* first-out queue, open_count of a pipe's end is the number of            *)
(* descriptors for it, and the end of file means what it says.             *)
(***************************************************************************)
EXTENDS Pipe, FiniteSetTheorems, SequenceTheorems, FunctionTheorems, WellFoundedInduction,
        TLAPS

(***************************************************************************)
(* The ring, as a matter of arithmetic: c is the cell read last, p the one *)
(* to be written next.                                                     *)
(***************************************************************************)
LEMMA WrapCell ==
  ASSUME NEW x \in 0 .. 2 * BufferSize - 1
  PROVE  Wrap(x) \in Cells
BY PipeAssumption DEF Wrap, Cells

LEMMA HeldRange ==
  ASSUME NEW i \in Pipes, buffer_p_c[i] \in Cells, buffer_c_c[i] \in Cells
  PROVE  Held(i) \in 0 .. BufferSize - 1 /\ Room(i) \in 0 .. BufferSize - 1
BY PipeAssumption DEF Held, Room, Wrap, Cells

\* At most what was asked for is delivered.
LEMMA GotRange ==
  ASSUME NEW i \in Pipes, buffer_p_c[i] \in Cells, buffer_c_c[i] \in Cells,
         NEW n \in 0 .. MaxChunk
  PROVE  Got(i, n) \in 0 .. n
BY HeldRange DEF Got, Lesser

LEMMA ContentType ==
  ASSUME NEW i \in Pipes, buffer \in [Pipes -> [Cells -> Bytes]],
         buffer_c_c[i] \in Cells, NEW n \in 0 .. BufferSize
  PROVE  Content(i, n) \in Seq(Bytes) /\ Len(Content(i, n)) = n
<1>1. ASSUME NEW j \in 1 .. n PROVE buffer[i][Wrap(buffer_c_c[i] + j)] \in Bytes
  <2>1. buffer_c_c[i] + j \in 0 .. 2 * BufferSize - 1
    BY PipeAssumption DEF Cells
  <2> QED BY <2>1, WrapCell, Zenon
<1>2. Content(i, n) \in [1 .. n -> Bytes]
  BY <1>1, Zenon DEF Content
<1> QED BY <1>2, PipeAssumption
-----------------------------------------------------------------------------
(***************************************************************************)
(* Types.                                                                  *)
(***************************************************************************)
CallStates ==
  [at : {"asleep", "fault"}, pipe : Pipes, left : 0 .. MaxChunk] \cup {InUser}

\* A reader that is not in its program keeps a pipe and a count.
LEMMA CallArgs ==
  ASSUME TypeOK, NEW p \in Procs, call[p].at \in {"asleep", "fault"}
  PROVE  call[p].pipe \in Pipes /\ call[p].left \in 0 .. MaxChunk
<1>1. \/ call[p] \in [at : {"asleep", "fault"}, pipe : Pipes, left : 0 .. MaxChunk]
      \/ call[p] = InUser
  BY Zenon DEF TypeOK
<1>2. call[p] # InUser
  BY DEF InUser
<1> QED BY ONLY <1>1, <1>2, Zenon

LEMMA ReturnsType ==
  ASSUME TypeOK, NEW p \in Procs, Returns(p)
  PROVE  call' \in [Procs -> CallStates] /\ sig_pending' \in [Procs -> BOOLEAN]
BY Zenon DEF TypeOK, Returns, CallStates

LEMMA TakeType ==
  ASSUME TypeOK, NEW i \in Pipes, NEW n \in 0 .. MaxChunk, Take(i, n)
  PROVE  /\ buffer' = buffer /\ buffer_p_c' = buffer_p_c /\ signals' = signals
         /\ buffer_c_c' \in [Pipes -> Cells]
         /\ last' \in Seq(Bytes)
<1>1. Wrap(buffer_c_c[i] + n) \in Cells
  <2>1. buffer_c_c[i] + n \in 0 .. 2 * BufferSize - 1
    BY PipeAssumption DEF TypeOK, Cells
  <2> QED BY <2>1, WrapCell, Zenon
<1>2. n \in 0 .. BufferSize
  BY PipeAssumption
<1>3. last' \in Seq(Bytes)
  BY <1>2, ContentType, Zenon DEF Take, TypeOK
<1> QED BY <1>1, <1>3, Zenon DEF Take, TypeOK

LEMMA StoreType ==
  ASSUME TypeOK, NEW i \in Pipes, NEW s \in Chunks, NEW n \in 0 .. Len(s),
         Store(i, s, n)
  PROVE  /\ buffer' \in [Pipes -> [Cells -> Bytes]]
         /\ buffer_p_c' \in [Pipes -> Cells]
         /\ buffer_c_c' = buffer_c_c /\ signals' = signals
         /\ last' \in Seq(Bytes)
<1>1. PICK m \in 0 .. MaxChunk : s \in [1 .. m -> Bytes]
  BY Zenon DEF Chunks
<1>2. Len(s) = m
  BY <1>1
<1>3. Wrap(buffer_p_c[i] + n) \in Cells
  <2>1. buffer_p_c[i] + n \in 0 .. 2 * BufferSize - 1
    BY <1>2, PipeAssumption DEF TypeOK, Cells
  <2> QED BY <2>1, WrapCell, Zenon
<1>4. ASSUME NEW b \in Cells
      PROVE  LET j == Wrap(b - buffer_p_c[i] + BufferSize) + 1
             IN  (IF j <= n THEN s[j] ELSE buffer[i][b]) \in Bytes
  <2> DEFINE j == Wrap(b - buffer_p_c[i] + BufferSize) + 1
  <2>1. b - buffer_p_c[i] + BufferSize \in 0 .. 2 * BufferSize - 1
    BY PipeAssumption DEF TypeOK, Cells
  <2>2. j \in 1 .. BufferSize
    <3>1. Wrap(b - buffer_p_c[i] + BufferSize) \in Cells
      BY <2>1, WrapCell, Zenon
    <3> QED BY <3>1, PipeAssumption DEF Cells
  <2>3. j <= n => s[j] \in Bytes
    BY <2>2, <1>1, <1>2
  <2> QED BY <2>3 DEF TypeOK
<1>5. buffer' \in [Pipes -> [Cells -> Bytes]]
  BY <1>4, Zenon DEF Store, TypeOK
<1> QED BY <1>3, <1>5 DEF Store, TypeOK

LEMMA ReadLoopType ==
  ASSUME TypeOK, NEW p \in Procs, NEW i \in Pipes, NEW n \in 0 .. MaxChunk,
         ReadLoop(p, i, n)
  PROVE  TypeOK'
<1>0. Got(i, n) \in 0 .. n /\ Held(i) \in 0 .. BufferSize - 1
  BY GotRange, HeldRange, Zenon DEF TypeOK
<1>1. CASE ReadEnds(p, i)
  BY <1>1, ReturnsType DEF ReadEnds, TypeOK, CallStates, ringVars, fileVars
<1>2. CASE ReadSleeps(p, i, n)
  BY <1>2 DEF ReadSleeps, Enlisted, TypeOK, ringVars, fileVars
<1>3. CASE ReadDelivers(p, i, n)
  <2>1. Got(i, n) \in 0 .. MaxChunk
    BY <1>0, PipeAssumption
  <2>2. Take(i, Got(i, n)) /\ Returns(p)
    BY <1>3, Zenon DEF ReadDelivers
  <2>3. UNCHANGED <<first_waiters, fileVars, status, on_hold>>
    BY <1>3, Zenon DEF ReadDelivers
  <2> QED BY <2>1, <2>2, <2>3, TakeType, ReturnsType, Zenon DEF TypeOK, CallStates, fileVars
<1>4. ASSUME NEW k \in 1 .. MaxChunk, ReadFaults(p, i, n, k) PROVE TypeOK'
  <2>1. k \in 0 .. MaxChunk /\ n - k \in 0 .. MaxChunk
    BY <1>0, <1>4, PipeAssumption DEF ReadFaults, Lesser
  <2>2. Take(i, k)
    BY <1>4, Zenon DEF ReadFaults
  <2>3. /\ buffer' = buffer /\ buffer_p_c' = buffer_p_c /\ signals' = signals
        /\ buffer_c_c' \in [Pipes -> Cells] /\ last' \in Seq(Bytes)
    BY <2>1, <2>2, TakeType, Zenon
  <2> QED BY <1>4, <2>1, <2>3, Zenon DEF ReadFaults, TypeOK, fileVars
<1> QED BY <1>1, <1>2, <1>3, <1>4, Zenon DEF ReadLoop

LEMMA RefsNat ==
  ASSUME NEW p \in Procs, NEW e \in Entries
  PROVE  Refs(p, e) \in Nat
<1> DEFINE S == {f \in Fds : open_fd[p][f] = e}
<1>1. IsFiniteSet(Fds)
  BY FS_Interval, PipeAssumption DEF Fds
<1>2. IsFiniteSet(S)
  BY <1>1, FS_Subset, Zenon
<1> QED BY <1>2, FS_CardinalityType, Zenon DEF Refs

LEMMA TypeStep == TypeOK /\ [Next]_vars => TypeOK'
<1> SUFFICES ASSUME TypeOK, [Next]_vars PROVE TypeOK'
  BY Zenon
<1>1. ASSUME NEW p \in Procs, NEW f \in Fds, NEW i \in Pipes,
             NEW n \in 1 .. MaxChunk, SysRead(p, f, i, n)
      PROVE  TypeOK'
  <2>1. n \in 0 .. MaxChunk /\ ReadLoop(p, i, n)
    BY <1>1, PipeAssumption DEF SysRead
  <2> QED BY <2>1, ReadLoopType, Zenon
<1>2. ASSUME NEW p \in Procs, NEW f \in Fds, NEW i \in Pipes,
             NEW s \in Chunks, SysWrite(p, f, i, s)
      PROVE  TypeOK'
  <2> DEFINE n == Lesser(Len(s), Room(i))
  <2>1. n \in 0 .. Len(s)
    <3>1. PICK m \in 0 .. MaxChunk : s \in [1 .. m -> Bytes]
      BY Zenon DEF Chunks
    <3>2. Len(s) \in Nat
      BY <3>1
    <3>3. Room(i) \in 0 .. BufferSize - 1
      BY HeldRange, Zenon DEF TypeOK
    <3> QED BY <3>2, <3>3 DEF Lesser
  <2>2. /\ Store(i, s, n) /\ Returns(p)
        /\ UNCHANGED <<fileVars, status>>
        /\ first_waiters' \in [Pipes -> SUBSET Procs]
        /\ on_hold' \in [Procs -> BOOLEAN]
    BY <1>2, Zenon DEF SysWrite, Wakes, TypeOK
  <2> HIDE DEF n
  <2>3. /\ buffer' \in [Pipes -> [Cells -> Bytes]]
        /\ buffer_p_c' \in [Pipes -> Cells]
        /\ buffer_c_c' = buffer_c_c /\ signals' = signals
        /\ last' \in Seq(Bytes)
    BY <2>1, <2>2, StoreType, Zenon
  <2>4. call' \in [Procs -> CallStates] /\ sig_pending' \in [Procs -> BOOLEAN]
    BY <2>2, ReturnsType, Zenon
  <2> QED BY <2>2, <2>3, <2>4, Zenon DEF TypeOK, CallStates, fileVars
<1>3. ASSUME NEW p \in Procs, ReadInterrupted(p) PROVE TypeOK'
  BY <1>3, ReturnsType DEF ReadInterrupted, TypeOK, CallStates, ringVars, fileVars
<1>4. ASSUME NEW p \in Procs, ReadAgain(p) PROVE TypeOK'
  <2>1. call[p].pipe \in Pipes /\ call[p].left \in 0 .. MaxChunk
    BY <1>4, CallArgs, Zenon DEF ReadAgain
  <2>2. ReadLoop(p, call[p].pipe, call[p].left)
    BY <1>4, Zenon DEF ReadAgain
  <2> QED BY <2>1, <2>2, ReadLoopType, Zenon
<1>5. ASSUME NEW p \in Procs, ReadGoesOn(p) PROVE TypeOK'
  <2> DEFINE i == call[p].pipe
             n == Got(i, call[p].left)
  <2>1. i \in Pipes /\ call[p].left \in 0 .. MaxChunk
    BY <1>5, CallArgs, Zenon DEF ReadGoesOn
  <2>2. n \in 0 .. call[p].left
    BY <2>1, GotRange, Zenon DEF TypeOK
  <2>3. n \in 0 .. MaxChunk
    BY <2>1, <2>2, PipeAssumption
  <2>4. Take(i, n) /\ Returns(p) /\ UNCHANGED <<first_waiters, fileVars, status, on_hold>>
    BY <1>5, Zenon DEF ReadGoesOn
  <2> HIDE DEF i, n
  <2>5. /\ buffer' = buffer /\ buffer_p_c' = buffer_p_c /\ signals' = signals
        /\ buffer_c_c' \in [Pipes -> Cells] /\ last' \in Seq(Bytes)
    BY <2>1, <2>3, <2>4, TakeType, Zenon
  <2> QED BY <2>4, <2>5, ReturnsType, Zenon DEF TypeOK, CallStates, fileVars
<1>6. ASSUME NEW p \in Procs, NEW i \in Pipes, SysPipe(p, i) PROVE TypeOK'
  <2> DEFINE free == {f \in Fds : open_fd[p][f] = None}
             outfd == CHOOSE f \in free : \A g \in free : f <= g
             infd == CHOOSE f \in free \ {outfd} : \A g \in free \ {outfd} : f <= g
  <2>1. /\ Returns(p) /\ UNCHANGED <<ringVars, first_waiters, status, on_hold, signals>>
        /\ last' = <<>>
    BY <1>6, Zenon DEF SysPipe
  <2>2. /\ created' = created \cup {i}
        /\ open_count' = [open_count EXCEPT ![In(i)] = 1, ![Out(i)] = 1]
        /\ open_fd' = [open_fd EXCEPT ![p][outfd] = Out(i), ![p][infd] = In(i)]
    BY <1>6, Zenon DEF SysPipe
  <2> HIDE DEF free, outfd, infd
  <2>3. In(i) \in Entries /\ Out(i) \in Entries
    BY Zenon DEF In, Out, Entries
  <2>4. open_fd' \in [Procs -> [Fds -> Entries \cup {None}]]
    BY <2>2, <2>3, Zenon DEF TypeOK
  <2>5. open_count' \in [Entries -> Int] /\ created' \in SUBSET Pipes
    BY <2>2, <2>3 DEF TypeOK
  <2>6. call' \in [Procs -> CallStates] /\ sig_pending' \in [Procs -> BOOLEAN]
    BY <2>1, ReturnsType, Zenon
  <2> QED BY <2>1, <2>4, <2>5, <2>6 DEF TypeOK, CallStates, ringVars
<1>7. ASSUME NEW p \in Procs, NEW f \in Fds, SysClose(p, f) PROVE TypeOK'
  <2>1. open_count' \in [Entries -> Int]
    BY <1>7 DEF SysClose, Closed, TypeOK
  <2>2. open_fd' \in [Procs -> [Fds -> Entries \cup {None}]]
    BY <1>7, Zenon DEF SysClose, TypeOK
  <2>3. /\ Returns(p) /\ last' = <<>>
        /\ UNCHANGED <<ringVars, first_waiters, created, status, on_hold, signals>>
    BY <1>7, Zenon DEF SysClose
  <2> QED BY <2>1, <2>2, <2>3, ReturnsType DEF TypeOK, CallStates, ringVars
<1>8. ASSUME NEW p \in Procs, NEW old \in Fds, NEW new \in Fds, SysDup(p, old, new)
      PROVE  TypeOK'
  <2>1. open_count' \in [Entries -> Int]
    <3> DEFINE oc == IF open_fd[p][new] = None THEN open_count
                     ELSE Closed(open_fd[p][new])
    <3>1. oc \in [Entries -> Int]
      BY DEF Closed, TypeOK
    <3>2. open_count' = oc \/ open_count' = [oc EXCEPT ![open_fd[p][old]] = @ + 1]
      BY <1>8, Zenon DEF SysDup
    <3> HIDE DEF oc
    <3> QED BY <3>1, <3>2
  <2>2. open_fd' \in [Procs -> [Fds -> Entries \cup {None}]]
    <3>1. \E e \in {None, open_fd[p][old]} : open_fd' = [open_fd EXCEPT ![p][new] = e]
      BY <1>8, Zenon DEF SysDup
    <3> QED BY <3>1 DEF TypeOK
  <2>3. /\ Returns(p) /\ last' = <<>>
        /\ UNCHANGED <<ringVars, first_waiters, created, status, on_hold, signals>>
    BY <1>8, Zenon DEF SysDup
  <2> QED BY <2>1, <2>2, <2>3, ReturnsType DEF TypeOK, CallStates, ringVars
<1>9. ASSUME NEW p \in Procs, NEW c \in Procs, Fork(p, c) PROVE TypeOK'
  <2>1. open_count' \in [Entries -> Int]
    BY <1>9, RefsNat DEF Fork, ForkCounts, TypeOK
  <2> QED BY <1>9, <2>1, ReturnsType DEF Fork, TypeOK, CallStates, ringVars
<1>10. ASSUME NEW p \in Procs, Exit(p) PROVE TypeOK'
  BY <1>10 DEF Exit, TypeOK, ringVars, fileVars
<1>11. ASSUME NEW p \in Procs, Cleanup(p) PROVE TypeOK'
  <2>1. open_count' \in [Entries -> Int]
    BY <1>11, RefsNat DEF Cleanup, TypeOK
  <2> QED BY <1>11, <2>1 DEF Cleanup, TypeOK, ringVars
<1>12. ASSUME NEW p \in Procs, Signal(p) PROVE TypeOK'
  BY <1>12 DEF Signal, TypeOK, ringVars, fileVars
<1>13. CASE UNCHANGED vars
  BY <1>13, Zenon DEF TypeOK, vars, ringVars, procVars, fileVars
<1> QED BY <1>1, <1>2, <1>3, <1>4, <1>5, <1>6, <1>7, <1>8, <1>9, <1>10, <1>11,
           <1>12, <1>13, Zenon DEF Next

LEMMA TypeInit == Init => TypeOK
BY PipeAssumption DEF Init, TypeOK, Cells, Procs

\* Every variable keeps its type: no cursor leaves the ring and no waiter or
\* descriptor is anything else (file_read, file_write, sys_pipe, sys_dup).
THEOREM TypeCorrect == Spec => []TypeOK
BY TypeInit, TypeStep, PTL DEF Spec
-----------------------------------------------------------------------------
(***************************************************************************)
(* What the loops of file_read and file_write do to the bytes held.        *)
(***************************************************************************)
Distance(p, c) == Wrap(p - 1 - c + BufferSize)

LEMMA ReadArithmetic ==
  ASSUME NEW p \in Cells, NEW c \in Cells, NEW n \in 0 .. Distance(p, c)
  PROVE  /\ Wrap(c + n) \in Cells
         /\ Distance(p, Wrap(c + n)) = Distance(p, c) - n
         /\ \A j \in 1 .. Distance(p, c) - n : Wrap(Wrap(c + n) + j) = Wrap(c + (n + j))
BY PipeAssumption DEF Distance, Wrap, Cells

LEMMA WriteArithmetic ==
  ASSUME NEW p \in Cells, NEW c \in Cells,
         NEW n \in 0 .. BufferSize - 1 - Distance(p, c)
  PROVE  /\ Wrap(p + n) \in Cells
         /\ Distance(Wrap(p + n), c) = Distance(p, c) + n
         /\ \A j \in 1 .. Distance(p, c) :
              /\ Wrap(c + j) \in Cells
              /\ ~ (Wrap(Wrap(c + j) - p + BufferSize) + 1 <= n)
         /\ \A j \in Distance(p, c) + 1 .. Distance(p, c) + n :
              /\ Wrap(c + j) \in Cells
              /\ Wrap(Wrap(c + j) - p + BufferSize) + 1 = j - Distance(p, c)
BY PipeAssumption DEF Distance, Wrap, Cells

LEMMA QueueType ==
  ASSUME TypeOK, NEW i \in Pipes
  PROVE  /\ Queue[i] \in Seq(Bytes) /\ Len(Queue[i]) = Held(i)
         /\ \A j \in 1 .. Held(i) : Queue[i][j] = buffer[i][Wrap(buffer_c_c[i] + j)]
<1>1. Held(i) \in 0 .. BufferSize
  BY HeldRange, PipeAssumption DEF TypeOK
<1>2. Content(i, Held(i)) \in Seq(Bytes) /\ Len(Content(i, Held(i))) = Held(i)
  BY <1>1, ContentType, Zenon DEF TypeOK
<1> QED BY <1>2, Zenon DEF Queue, Content

LEMMA TakeRing ==
  ASSUME TypeOK, NEW i \in Pipes, NEW n \in 0 .. Held(i), Take(i, n)
  PROVE  /\ Held(i)' = Held(i) - n
         /\ \A j \in Pipes \ {i} : Held(j)' = Held(j) /\ Queue'[j] = Queue[j]
         /\ last' = SubSeq(Queue[i], 1, n)
         /\ Queue'[i] = SubSeq(Queue[i], n + 1, Len(Queue[i]))
<1> DEFINE p == buffer_p_c[i]
           c == buffer_c_c[i]
<1>0. p \in Cells /\ c \in Cells /\ Held(i) \in 0 .. BufferSize - 1
  BY HeldRange, Zenon DEF TypeOK
<1>1. Held(i) = Distance(p, c) /\ Held(i)' = Distance(p', c')
  BY Zenon DEF Held, Distance, Wrap
<1>2. buffer' = buffer /\ p' = p /\ c' = Wrap(c + n)
  BY Zenon DEF Take, TypeOK
<1>3. \A j \in Pipes \ {i} :
        buffer[j]' = buffer[j] /\ buffer_p_c'[j] = buffer_p_c[j] /\ buffer_c_c'[j] = buffer_c_c[j]
  BY Zenon DEF Take, TypeOK
<1>4. ASSUME NEW j \in Pipes \ {i} PROVE Held(j)' = Held(j) /\ Queue'[j] = Queue[j]
  BY <1>2, <1>3, Zenon DEF Held, Queue, Content, Wrap
<1> HIDE DEF p, c
<1>5. Held(i)' = Held(i) - n
  BY <1>0, <1>1, <1>2, ReadArithmetic
<1>6. /\ Queue[i] \in Seq(Bytes) /\ Len(Queue[i]) = Held(i)
      /\ \A j \in 1 .. Held(i) : Queue[i][j] = buffer[i][Wrap(c + j)]
  BY QueueType, Zenon DEF c
<1>7. last' = SubSeq(Queue[i], 1, n)
  <2>1. n \in 0 .. BufferSize
    BY <1>0, PipeAssumption
  <2>2. Content(i, n) \in Seq(Bytes) /\ Len(Content(i, n)) = n
    BY <2>1, ContentType, Zenon DEF TypeOK
  <2>3. \A j \in 1 .. n : Content(i, n)[j] = Queue[i][j]
    BY <1>0, <1>6 DEF Content, c
  <2>4. \A j \in 1 .. n : Queue[i][j] \in Bytes
    BY <1>0, <1>6
  <2>5. /\ SubSeq(Queue[i], 1, n) \in Seq(Bytes)
        /\ Len(SubSeq(Queue[i], 1, n)) = n
        /\ \A j \in 1 .. n : SubSeq(Queue[i], 1, n)[j] = Queue[i][j]
    BY <1>0, <2>4, SubSeqProperties
  <2>6. Content(i, n) = SubSeq(Queue[i], 1, n)
    BY <2>2, <2>3, <2>5, SeqEqual, Zenon
  <2> QED BY <2>6, Zenon DEF Take
<1>8. Queue'[i] = SubSeq(Queue[i], n + 1, Len(Queue[i]))
  <2> DEFINE h == Held(i)
             tail == SubSeq(Queue[i], n + 1, h)
             rest == Queue'[i]
  <2>1. h - n \in 0 .. BufferSize /\ h \in 0 .. BufferSize - 1
    BY <1>0, PipeAssumption
  <2>2. rest = [j \in 1 .. Held(i)' |-> buffer[i]'[Wrap(c' + j)]]
    BY Zenon DEF Queue, Content, c, Wrap
  <2>3. rest = [j \in 1 .. h - n |-> buffer[i][Wrap(Wrap(c + n) + j)]]
    BY <1>2, <1>5, <2>2, Zenon
  <2>4. ASSUME NEW j \in 1 .. h - n PROVE rest[j] = Queue[i][n + j]
    <3>1. Wrap(Wrap(c + n) + j) = Wrap(c + (n + j))
      BY <1>0, <1>1, ReadArithmetic
    <3>2. n + j \in 1 .. h
      BY <2>1
    <3> QED BY <1>6, <2>3, <3>1, <3>2
  <2>5. \A j \in n + 1 .. h : Queue[i][j] \in Bytes
    BY <1>6, <2>1
  <2> HIDE DEF rest, h
  <2>6. /\ tail \in Seq(Bytes)
        /\ Len(tail) = h - n
        /\ \A j \in 1 .. h - n : tail[j] = Queue[i][n + j]
    <3>1. n + 1 \in Int /\ h \in Int /\ h - (n + 1) + 1 = h - n
      BY <2>1
    <3>2. \A j \in 1 .. h - n : (n + 1) + j - 1 = n + j
      BY <2>1
    <3> QED BY <2>1, <2>5, <3>1, <3>2, SubSeqProperties DEF h
  <2>7. rest \in Seq(Bytes) /\ Len(rest) = h - n
    <3>1. \A j \in 1 .. h - n : rest[j] \in Bytes
      BY <1>6, <2>1, <2>4 DEF h
    <3> QED BY <2>1, <2>3, <3>1 DEF h
  <2>8. rest = tail
    BY <2>4, <2>6, <2>7, SeqEqual, Zenon DEF h
  <2> QED BY <1>6, <2>8, Zenon DEF h, rest
<1> QED BY <1>4, <1>5, <1>7, <1>8, Zenon

LEMMA StoreRing ==
  ASSUME TypeOK, NEW i \in Pipes, NEW s \in Seq(Bytes),
         NEW n \in 0 .. Len(s), n <= Room(i), Store(i, s, n)
  PROVE  /\ Held(i)' = Held(i) + n
         /\ \A j \in Pipes \ {i} : Held(j)' = Held(j) /\ Queue'[j] = Queue[j]
         /\ Queue'[i] = Queue[i] \o SubSeq(s, 1, n)
<1> DEFINE p == buffer_p_c[i]
           c == buffer_c_c[i]
           h == Held(i)
<1>0. p \in Cells /\ c \in Cells /\ h \in 0 .. BufferSize - 1
  BY HeldRange, Zenon DEF TypeOK
<1>1. h = Distance(p, c) /\ Held(i)' = Distance(p', c')
  BY Zenon DEF Held, Distance, Wrap
<1>2. c' = c /\ p' = Wrap(p + n)
  BY Zenon DEF Store, TypeOK
<1>3. \A b \in Cells : buffer[i]'[b] =
        IF Wrap(b - p + BufferSize) + 1 <= n THEN s[Wrap(b - p + BufferSize) + 1]
        ELSE buffer[i][b]
  BY Zenon DEF Store, TypeOK
<1>4. ASSUME NEW j \in Pipes \ {i} PROVE Held(j)' = Held(j) /\ Queue'[j] = Queue[j]
  <2>1. buffer[j]' = buffer[j] /\ buffer_p_c'[j] = buffer_p_c[j]
        /\ buffer_c_c'[j] = buffer_c_c[j]
    BY Zenon DEF Store, TypeOK
  <2> QED BY <2>1, Zenon DEF Held, Queue, Content, Wrap
<1>5. n \in 0 .. BufferSize - 1 - Distance(p, c)
  BY <1>0, <1>1 DEF Room
<1>6. /\ Queue[i] \in Seq(Bytes) /\ Len(Queue[i]) = h
      /\ \A j \in 1 .. h : Queue[i][j] = buffer[i][Wrap(c + j)]
  BY QueueType, Zenon
<1>7. Queue'[i] = [j \in 1 .. Held(i)' |-> buffer[i]'[Wrap(c' + j)]]
  BY Zenon DEF Queue, Content, Wrap
<1> HIDE DEF p, c
<1>8. Held(i)' = h + n
  BY <1>0, <1>1, <1>2, <1>5, WriteArithmetic
<1> HIDE DEF h
<1> DEFINE all == Queue'[i]
           head == SubSeq(s, 1, n)
           sum == Queue[i] \o head
<1>9. all = [j \in 1 .. h + n |-> buffer[i]'[Wrap(c + j)]]
  BY <1>2, <1>7, <1>8, Zenon
<1>10. head \in Seq(Bytes) /\ Len(head) = n /\ \A j \in 1 .. n : head[j] = s[j]
  <2>1. n \in Int /\ \A j \in 1 .. n : s[j] \in Bytes
    OBVIOUS
  <2> QED BY <2>1, SubSeqProperties
<1> HIDE DEF head, all
<1>11. /\ sum \in Seq(Bytes) /\ Len(sum) = h + n
       /\ \A j \in 1 .. h + n : sum[j] = IF j <= h THEN Queue[i][j] ELSE head[j - h]
  <2> DEFINE old == Queue[i]
  <2>1. old \in Seq(Bytes) /\ head \in Seq(Bytes) /\ Len(old) = h /\ Len(head) = n
    BY <1>6, <1>10, Zenon
  <2> HIDE DEF old
  <2>2. /\ old \o head \in Seq(Bytes) /\ Len(old \o head) = Len(old) + Len(head)
        /\ \A j \in 1 .. Len(old) + Len(head) :
             (old \o head)[j] = IF j <= Len(old) THEN old[j] ELSE head[j - Len(old)]
    BY <2>1, ConcatProperties, Zenon
  <2>3. /\ old \o head \in Seq(Bytes) /\ Len(old \o head) = h + n
        /\ \A j \in 1 .. h + n : (old \o head)[j] = IF j <= h THEN old[j] ELSE head[j - h]
    BY <2>1, <2>2, Zenon
  <2> QED BY <2>3, Zenon DEF old
<1> HIDE DEF sum
<1>12. ASSUME NEW j \in 1 .. h + n PROVE all[j] = sum[j]
  <2>1. all[j] = buffer[i]'[Wrap(c + j)]
    BY <1>9, Zenon
  <2>2. CASE j <= h
    <3>1. j \in 1 .. Distance(p, c) /\ j \in 1 .. h
      BY <1>0, <1>1, <2>2
    <3>2. Wrap(c + j) \in Cells /\ ~ (Wrap(Wrap(c + j) - p + BufferSize) + 1 <= n)
      BY <1>0, <1>5, <3>1, WriteArithmetic, Zenon
    <3>3. buffer[i]'[Wrap(c + j)] = buffer[i][Wrap(c + j)]
      BY <1>3, <3>2, Zenon
    <3>4. sum[j] = Queue[i][j]
      BY <1>11, <2>2, Zenon
    <3> QED BY <1>6, <2>1, <3>1, <3>3, <3>4, Zenon
  <2>3. CASE ~ (j <= h)
    <3>1. j \in Distance(p, c) + 1 .. Distance(p, c) + n /\ j - h \in 1 .. n
      BY <1>0, <1>1, <2>3
    <3>2. Wrap(c + j) \in Cells /\ Wrap(Wrap(c + j) - p + BufferSize) + 1 = j - h
      BY <1>0, <1>1, <1>5, <3>1, WriteArithmetic
    <3>3. buffer[i]'[Wrap(c + j)] = s[j - h]
      BY <1>3, <3>1, <3>2
    <3>4. sum[j] = head[j - h]
      BY <1>11, <2>3, Zenon
    <3> QED BY <1>10, <2>1, <3>1, <3>3, <3>4, Zenon
  <2> QED BY <2>2, <2>3, Zenon
<1>13. all \in Seq(Bytes) /\ Len(all) = h + n
  <2>1. \A j \in 1 .. h + n : all[j] \in Bytes
    BY <1>0, <1>11, <1>12
  <2> QED BY <1>0, <1>9, <2>1 DEF h
<1>14. all = sum
  BY <1>11, <1>12, <1>13, SeqEqual, Zenon
<1> QED BY <1>4, <1>8, <1>14, Zenon DEF all, sum, head, h
-----------------------------------------------------------------------------
(***************************************************************************)
(* Readers that sleep.  AsleepIsListed is inductive together with the fact *)
(* that only a live process is inside a call: a child starts in user mode. *)
(***************************************************************************)
OnlyLiveCall == \A p \in Procs : status[p] # "live" => call[p] = InUser

WaitInv == TypeOK /\ AsleepIsListed /\ OnlyLiveCall

LEMMA ReturnsKeeps ==
  ASSUME WaitInv, NEW p \in Procs, Returns(p),
         UNCHANGED <<first_waiters, status, on_hold>>
  PROVE  AsleepIsListed' /\ OnlyLiveCall'
BY DEF WaitInv, TypeOK, AsleepIsListed, OnlyLiveCall, Returns, InUser

LEMMA ReadLoopKeeps ==
  ASSUME WaitInv, NEW p \in Procs, Runs(p), NEW i \in Pipes, NEW n \in 0 .. MaxChunk,
         ReadLoop(p, i, n)
  PROVE  AsleepIsListed' /\ OnlyLiveCall'
<1>1. CASE ReadEnds(p, i)
  BY <1>1, ReturnsKeeps, Zenon DEF ReadEnds
<1>2. CASE ReadSleeps(p, i, n)
  BY <1>2 DEF ReadSleeps, Enlisted, Runs, WaitInv, TypeOK, AsleepIsListed, OnlyLiveCall
<1>3. CASE ReadDelivers(p, i, n)
  BY <1>3, ReturnsKeeps, Zenon DEF ReadDelivers
<1>4. ASSUME NEW k \in 1 .. MaxChunk, ReadFaults(p, i, n, k)
      PROVE  AsleepIsListed' /\ OnlyLiveCall'
  BY <1>4, Zenon DEF ReadFaults, Runs, WaitInv, TypeOK, AsleepIsListed, OnlyLiveCall
<1> QED BY <1>1, <1>2, <1>3, <1>4, Zenon DEF ReadLoop

LEMMA WaitStep == WaitInv /\ [Next]_vars => WaitInv'
<1> SUFFICES ASSUME WaitInv, [Next]_vars PROVE AsleepIsListed' /\ OnlyLiveCall'
  BY TypeStep, Zenon DEF WaitInv
<1>1. ASSUME NEW p \in Procs, NEW f \in Fds, NEW i \in Pipes,
             NEW n \in 1 .. MaxChunk, SysRead(p, f, i, n)
      PROVE  AsleepIsListed' /\ OnlyLiveCall'
  <2>1. n \in 0 .. MaxChunk /\ ReadLoop(p, i, n) /\ Runs(p)
    BY <1>1, PipeAssumption DEF SysRead, Reads, Calls
  <2> QED BY <2>1, ReadLoopKeeps, Zenon
<1>2. ASSUME NEW p \in Procs, NEW f \in Fds, NEW i \in Pipes,
             NEW s \in Chunks, SysWrite(p, f, i, s)
      PROVE  AsleepIsListed' /\ OnlyLiveCall'
  <2>1. Returns(p) /\ status' = status
        /\ (UNCHANGED <<first_waiters, on_hold>> \/ Wakes(i))
    BY <1>2, Zenon DEF SysWrite
  <2>2. CASE UNCHANGED <<first_waiters, on_hold>>
    BY <2>1, <2>2, ReturnsKeeps, Zenon
  <2>3. CASE Wakes(i)
    <3>1. \A q \in Procs : on_hold'[q] => on_hold[q] /\ q \notin first_waiters[i]
      BY <2>3, Zenon DEF Wakes
    <3>2. first_waiters' = [first_waiters EXCEPT ![i] = {}]
      BY <2>3, Zenon DEF Wakes
    <3>3. call' = [call EXCEPT ![p] = InUser]
      BY <2>1, Zenon DEF Returns
    <3>4. OnlyLiveCall'
      BY <2>1, <3>3, Zenon DEF WaitInv, TypeOK, OnlyLiveCall
    <3>5. \A q \in Procs : call'[q].at = "asleep" => q # p /\ call'[q] = call[q]
      BY <3>3, Zenon DEF WaitInv, TypeOK, InUser
    <3>6. \A k \in Pipes \ {i} : first_waiters'[k] = first_waiters[k]
      BY <3>2, Zenon DEF WaitInv, TypeOK
    <3>7. \A q \in Procs : call[q].at = "asleep" => call[q].pipe \in Pipes
      BY CallArgs, Zenon DEF WaitInv
    <3>8. status' = status /\ AsleepIsListed
      BY <2>1, Zenon DEF WaitInv
    <3>9. AsleepIsListed'
      <4> SUFFICES ASSUME NEW q \in Procs, call'[q].at = "asleep", on_hold'[q],
                          status'[q] = "live"
                   PROVE  q \in first_waiters'[call'[q].pipe]
        BY Zenon DEF AsleepIsListed
      <4>1. /\ call'[q] = call[q] /\ call[q].at = "asleep" /\ on_hold[q]
            /\ q \notin first_waiters[i] /\ status[q] = "live"
        BY <3>1, <3>5, <3>8, Zenon
      <4>2. q \in first_waiters[call[q].pipe] /\ call[q].pipe \in Pipes
        BY <4>1, <3>7, <3>8, Zenon DEF AsleepIsListed
      <4> QED BY <4>1, <4>2, <3>6, Zenon
    <3> QED BY <3>4, <3>9, Zenon
  <2> QED BY <2>1, <2>2, <2>3, Zenon
<1>3. ASSUME NEW p \in Procs, ReadInterrupted(p) PROVE AsleepIsListed' /\ OnlyLiveCall'
  BY <1>3, ReturnsKeeps, Zenon DEF ReadInterrupted
<1>4. ASSUME NEW p \in Procs, ReadAgain(p) PROVE AsleepIsListed' /\ OnlyLiveCall'
  <2>1. call[p].pipe \in Pipes /\ call[p].left \in 0 .. MaxChunk
    <3>1. call[p] \in [at : {"asleep", "fault"}, pipe : Pipes, left : 0 .. MaxChunk]
                        \cup {InUser}
      BY Zenon DEF WaitInv, TypeOK
    <3>2. call[p].at = "asleep"
      BY <1>4, Zenon DEF ReadAgain
    <3>3. call[p] # InUser
      BY <3>2 DEF InUser
    <3> QED BY <3>1, <3>3, Zenon
  <2>2. ReadLoop(p, call[p].pipe, call[p].left) /\ Runs(p)
    BY <1>4, Zenon DEF ReadAgain
  <2> QED BY <2>1, <2>2, ReadLoopKeeps, Zenon
<1>5. ASSUME NEW p \in Procs, ReadGoesOn(p) PROVE AsleepIsListed' /\ OnlyLiveCall'
  BY <1>5, ReturnsKeeps, Zenon DEF ReadGoesOn
<1>6. ASSUME NEW p \in Procs, NEW i \in Pipes, SysPipe(p, i)
      PROVE  AsleepIsListed' /\ OnlyLiveCall'
  BY <1>6, ReturnsKeeps, Zenon DEF SysPipe
<1>7. ASSUME NEW p \in Procs, NEW f \in Fds, SysClose(p, f)
      PROVE  AsleepIsListed' /\ OnlyLiveCall'
  BY <1>7, ReturnsKeeps, Zenon DEF SysClose
<1>8. ASSUME NEW p \in Procs, NEW old \in Fds, NEW new \in Fds, SysDup(p, old, new)
      PROVE  AsleepIsListed' /\ OnlyLiveCall'
  BY <1>8, ReturnsKeeps, Zenon DEF SysDup
<1>9. ASSUME NEW p \in Procs, NEW c \in Procs, Fork(p, c)
      PROVE  AsleepIsListed' /\ OnlyLiveCall'
  <2>1. /\ Returns(p) /\ UNCHANGED <<first_waiters, on_hold>>
        /\ status[c] = "unused" /\ status' = [status EXCEPT ![c] = "live"]
    BY <1>9, Zenon DEF Fork
  <2>2. call' = [call EXCEPT ![p] = InUser]
    BY <2>1, Zenon DEF Returns
  <2>3. \A q \in Procs : call'[q] = call[q] \/ call'[q] = InUser
    BY <2>2, Zenon DEF WaitInv, TypeOK
  <2>4. \A q \in Procs : status'[q] = status[q] \/ (q = c /\ status'[q] = "live")
    BY <2>1, Zenon DEF WaitInv, TypeOK
  <2>5. OnlyLiveCall'
    BY <2>3, <2>4, Zenon DEF WaitInv, OnlyLiveCall
  <2>6. InUser.at = "user"
    BY Zenon DEF InUser
  <2>7. \A q \in Procs : call'[q].at = "asleep" => call'[q] = call[q] /\ q # c
    BY <2>1, <2>3, <2>6, Zenon DEF WaitInv, OnlyLiveCall
  <2>8. AsleepIsListed'
    BY <2>1, <2>4, <2>7, Zenon DEF WaitInv, AsleepIsListed
  <2> QED BY <2>5, <2>8, Zenon
<1>10. ASSUME NEW p \in Procs, Exit(p) PROVE AsleepIsListed' /\ OnlyLiveCall'
  BY <1>10, Zenon DEF Exit, Calls, WaitInv, TypeOK, AsleepIsListed, OnlyLiveCall
<1>11. ASSUME NEW p \in Procs, Cleanup(p) PROVE AsleepIsListed' /\ OnlyLiveCall'
  BY <1>11, Zenon DEF Cleanup, WaitInv, TypeOK, AsleepIsListed, OnlyLiveCall
<1>12. ASSUME NEW p \in Procs, Signal(p) PROVE AsleepIsListed' /\ OnlyLiveCall'
  BY <1>12, Zenon DEF Signal, WaitInv, TypeOK, AsleepIsListed, OnlyLiveCall
<1>13. CASE UNCHANGED vars
  BY <1>13, Zenon DEF WaitInv, AsleepIsListed, OnlyLiveCall, vars, procVars
<1> QED BY <1>1, <1>2, <1>3, <1>4, <1>5, <1>6, <1>7, <1>8, <1>9, <1>10, <1>11,
           <1>12, <1>13, Zenon DEF Next

LEMMA WaitInvariance == Spec => []WaitInv
<1>1. Init => WaitInv
  BY TypeInit, Zenon DEF Init, WaitInv, AsleepIsListed, OnlyLiveCall
<1> QED BY <1>1, WaitStep, PTL DEF Spec

\* Whoever is asleep in sys_read is in the list that the next write wakes
\* (sys_read, file_read, file_write), for any number of processes and pipes.
THEOREM SleepersListed == Spec => []AsleepIsListed
<1>1. WaitInv => AsleepIsListed
  BY Zenon DEF WaitInv
<1> QED BY <1>1, WaitInvariance, PTL
-----------------------------------------------------------------------------
(***************************************************************************)
(* The ring implements the queue, when no program asks for more than the   *)
(* pipe holds while the producer cursor is 0 (OverreadAtWrap = FALSE): a   *)
(* step leaves the rings alone, takes from one, or writes into one.        *)
(***************************************************************************)
RestsRings == UNCHANGED ringVars /\ last' = <<>>
TakesSome == \E i \in Pipes : \E n \in 0 .. Held(i) : Take(i, n)
WritesSome ==
  \E p \in Procs, f \in Fds, i \in Pipes, s \in Chunks : SysWrite(p, f, i, s)

LEMMA ReadLoopOnRings ==
  ASSUME TypeOK, ~ OverreadAtWrap, NEW p \in Procs, NEW i \in Pipes,
         NEW n \in 0 .. MaxChunk, ReadLoop(p, i, n)
  PROVE  RestsRings \/ TakesSome
<1>0. Got(i, n) \in 0 .. n /\ Held(i) \in 0 .. BufferSize - 1
  BY GotRange, HeldRange, Zenon DEF TypeOK
<1>1. CASE ReadEnds(p, i)
  BY <1>1, Zenon DEF ReadEnds, RestsRings
<1>2. CASE ReadSleeps(p, i, n)
  BY <1>2, Zenon DEF ReadSleeps, RestsRings
<1>3. CASE ReadDelivers(p, i, n)
  <2>1. Got(i, n) <= Held(i) /\ Take(i, Got(i, n))
    BY <1>3, Zenon DEF ReadDelivers
  <2>2. Got(i, n) \in 0 .. Held(i)
    BY <1>0, <2>1
  <2> QED BY <2>1, <2>2, Zenon DEF TakesSome
<1>4. ASSUME NEW k \in 1 .. MaxChunk, ReadFaults(p, i, n, k) PROVE TakesSome
  <2>1. k \in 0 .. Held(i)
    BY <1>0, <1>4 DEF ReadFaults, Lesser
  <2>2. Take(i, k)
    BY <1>4, Zenon DEF ReadFaults
  <2> QED BY <2>1, <2>2, Zenon DEF TakesSome
<1> QED BY <1>1, <1>2, <1>3, <1>4, Zenon DEF ReadLoop

LEMMA StepOnRings ==
  ASSUME TypeOK, ~ OverreadAtWrap, Next
  PROVE  RestsRings \/ TakesSome \/ WritesSome
<1>1. ASSUME NEW p \in Procs, NEW f \in Fds, NEW i \in Pipes,
             NEW n \in 1 .. MaxChunk, SysRead(p, f, i, n)
      PROVE  RestsRings \/ TakesSome
  <2>1. n \in 0 .. MaxChunk /\ ReadLoop(p, i, n)
    BY <1>1, PipeAssumption DEF SysRead
  <2> QED BY <2>1, ReadLoopOnRings, Zenon
<1>2. ASSUME NEW p \in Procs, NEW f \in Fds, NEW i \in Pipes,
             NEW s \in Chunks, SysWrite(p, f, i, s)
      PROVE  WritesSome
  BY <1>2, Zenon DEF WritesSome
<1>3. ASSUME NEW p \in Procs, ReadAgain(p) PROVE RestsRings \/ TakesSome
  <2>1. call[p].pipe \in Pipes /\ call[p].left \in 0 .. MaxChunk
    BY <1>3, CallArgs, Zenon DEF ReadAgain
  <2>2. ReadLoop(p, call[p].pipe, call[p].left)
    BY <1>3, Zenon DEF ReadAgain
  <2> QED BY <2>1, <2>2, ReadLoopOnRings, Zenon
<1>4. ASSUME NEW p \in Procs, ReadGoesOn(p) PROVE TakesSome
  <2> DEFINE i == call[p].pipe
             n == Got(i, call[p].left)
  <2>1. i \in Pipes /\ call[p].left \in 0 .. MaxChunk
    BY <1>4, CallArgs, Zenon DEF ReadGoesOn
  <2>2. n \in 0 .. call[p].left /\ Held(i) \in 0 .. BufferSize - 1
    BY <2>1, GotRange, HeldRange, Zenon DEF TypeOK
  <2>3. n <= Held(i) /\ Take(i, n)
    BY <1>4, Zenon DEF ReadGoesOn
  <2>4. n \in 0 .. Held(i)
    BY <2>1, <2>2, <2>3
  <2> HIDE DEF i, n
  <2> QED BY <2>1, <2>3, <2>4, Zenon DEF TakesSome
<1>5. ASSUME NEW p \in Procs, ReadInterrupted(p) PROVE RestsRings
  BY <1>5, Zenon DEF ReadInterrupted, RestsRings
<1>6. ASSUME NEW p \in Procs, NEW i \in Pipes, SysPipe(p, i) PROVE RestsRings
  BY <1>6, Zenon DEF SysPipe, RestsRings
<1>7. ASSUME NEW p \in Procs, NEW f \in Fds, SysClose(p, f) PROVE RestsRings
  BY <1>7, Zenon DEF SysClose, RestsRings
<1>8. ASSUME NEW p \in Procs, NEW old \in Fds, NEW new \in Fds, SysDup(p, old, new)
      PROVE  RestsRings
  BY <1>8, Zenon DEF SysDup, RestsRings
<1>9. ASSUME NEW p \in Procs, NEW c \in Procs, Fork(p, c) PROVE RestsRings
  BY <1>9, Zenon DEF Fork, RestsRings
<1>10. ASSUME NEW p \in Procs, Exit(p) \/ Cleanup(p) \/ Signal(p) PROVE RestsRings
  BY <1>10, Zenon DEF Exit, Cleanup, Signal, RestsRings
<1> QED BY <1>1, <1>2, <1>3, <1>4, <1>5, <1>6, <1>7, <1>8, <1>9, <1>10, Zenon DEF Next

\* What file_write does in all: n bytes are appended, and the readers are woken
\* unless the ring filled up.
LEMMA WriteOnRing ==
  ASSUME TypeOK, NEW p \in Procs, NEW f \in Fds, NEW i \in Pipes, NEW s \in Chunks,
         SysWrite(p, f, i, s)
  PROVE  \E n \in 0 .. Len(s) :
           /\ s \in Seq(Bytes) /\ Len(s) \in Nat
           /\ n <= Room(i) /\ Store(i, s, n)
           /\ n = Room(i) \/ Wakes(i)
<1> DEFINE n == Lesser(Len(s), Room(i))
<1>1. PICK m \in 0 .. MaxChunk : s \in [1 .. m -> Bytes]
  BY Zenon DEF Chunks
<1>2. s \in Seq(Bytes) /\ Len(s) \in Nat
  BY <1>1, PipeAssumption
<1>3. Room(i) \in 0 .. BufferSize - 1
  BY HeldRange, Zenon DEF TypeOK
<1>4. n \in 0 .. Len(s) /\ n <= Room(i) /\ (n < Len(s) => n = Room(i))
  BY <1>2, <1>3 DEF Lesser
<1>5. Store(i, s, n) /\ (n < Len(s) \/ Wakes(i))
  BY <1>2, Zenon DEF SysWrite
<1> HIDE DEF n
<1> QED BY <1>2, <1>4, <1>5, Zenon

\* A write that leaves room in the ring leaves no reader of the pipe asleep
\* (file_write), for any number of readers and any size of the ring.
THEOREM WritesWake ==
  ASSUME ~ OverreadAtWrap
  PROVE  Spec => PutWakesReaders
<1> DEFINE A == \A i \in Pipes : Held(i)' > Held(i) /\ Room(i)' > 0 =>
                  ~ \E p \in Procs : call[p].at = "asleep" /\ call[p].pipe = i /\ on_hold'[p]
<1>1. ASSUME WaitInv, Next PROVE A
  <2> SUFFICES ASSUME NEW i \in Pipes, Held(i)' > Held(i), Room(i)' > 0,
                      NEW q \in Procs, call[q].at = "asleep", call[q].pipe = i, on_hold'[q]
               PROVE  FALSE
    BY Zenon DEF A
  <2>0. TypeOK /\ \A j \in Pipes : Held(j) \in 0 .. BufferSize - 1
    BY <1>1, HeldRange, Zenon DEF WaitInv, TypeOK
  <2>1. CASE RestsRings
    <3>1. Held(i)' = Held(i)
      BY <2>1, Zenon DEF RestsRings, ringVars, Held, Wrap
    <3> QED BY <2>0, <3>1
  <2>2. CASE TakesSome
    <3>1. PICK j \in Pipes : \E n \in 0 .. Held(j) : Take(j, n)
      BY <2>2, Zenon DEF TakesSome
    <3>2. PICK n \in 0 .. Held(j) : Take(j, n)
      BY <3>1, Zenon
    <3>3. Held(i)' = Held(i) \/ Held(i)' = Held(i) - n
      BY <2>0, <3>2, TakeRing, Zenon
    <3> QED BY <2>0, <3>2, <3>3
  <2>3. CASE WritesSome
    <3>1. PICK p \in Procs, f \in Fds, j \in Pipes, s \in Chunks : SysWrite(p, f, j, s)
      BY <2>3, Zenon DEF WritesSome
    <3>2. PICK n \in 0 .. Len(s) :
            /\ s \in Seq(Bytes) /\ Len(s) \in Nat
            /\ n <= Room(j) /\ Store(j, s, n)
            /\ n = Room(j) \/ Wakes(j)
      BY <2>0, <3>1, WriteOnRing, Zenon
    <3>3. Held(j)' = Held(j) + n /\ \A k \in Pipes \ {j} : Held(k)' = Held(k)
      BY <2>0, <3>2, StoreRing, Zenon
    <3>4. i = j
      BY <2>0, <3>3
    <3>5. Room(i)' = BufferSize - 1 - Held(i)'
      BY Zenon DEF Room
    <3>6. n # Room(j)
      BY <2>0, <3>2, <3>3, <3>4, <3>5, PipeAssumption DEF Room
    <3>7. on_hold[q] /\ q \notin first_waiters[i]
      BY <3>2, <3>4, <3>6, Zenon DEF Wakes
    <3>8. status[q] = "live"
      <4>1. status[q] # "live" => call[q] = InUser
        BY <1>1, Zenon DEF WaitInv, OnlyLiveCall
      <4>2. InUser.at = "user"
        BY Zenon DEF InUser
      <4> QED BY <1>1, <2>0, <4>1, <4>2, Zenon
    <3> QED BY <1>1, <3>7, <3>8, Zenon DEF WaitInv, AsleepIsListed
  <2> QED BY <1>1, <2>0, <2>1, <2>2, <2>3, StepOnRings, Zenon
<1>2. WaitInv /\ [Next]_vars => [A]_vars
  BY <1>1, Zenon
<1> HIDE DEF A
<1>3. Spec => [][A]_vars
  BY <1>2, WaitInvariance, PTL DEF Spec
<1> QED BY <1>3, PTL DEF PutWakesReaders, A

\* Bytes leave a pipe once, in the order of their writing, across every
\* interleaving of readers and writers, with reads cut in two by a page fault:
\* the rings implement Fifo (file_read, file_write, sys_read, sys_write).
THEOREM RingIsQueue ==
  ASSUME ~ OverreadAtWrap
  PROVE  Spec => InOrder
<1>1. Init => Fifos!Init
  <2> SUFFICES ASSUME Init PROVE Fifos!Init
    BY Zenon
  <2>1. ASSUME NEW i \in Pipes PROVE Queue[i] = <<>>
    <3>1. Held(i) = 0
      BY PipeAssumption DEF Init, Held, Wrap
    <3>2. TypeOK
      BY TypeInit, Zenon
    <3>3. Queue[i] \in Seq(Bytes) /\ Len(Queue[i]) = 0
      BY <3>1, <3>2, QueueType, Zenon
    <3> QED BY <3>3
  <2>2. Queue = [i \in Pipes |-> <<>>]
    BY <2>1, Zenon DEF Queue
  <2> QED BY <2>2, Zenon DEF Init, Fifos!Init
<1>2. ASSUME TypeOK, Next PROVE Fifos!Next
  <2>0. \A i \in Pipes : /\ Held(i) \in 0 .. BufferSize - 1
                         /\ Queue[i] \in Seq(Bytes) /\ Len(Queue[i]) = Held(i)
    BY <1>2, HeldRange, QueueType, Zenon DEF TypeOK
  <2>1. DOMAIN Queue = Pipes /\ Queue = [i \in Pipes |-> Queue[i]]
        /\ Queue' = [i \in Pipes |-> Queue'[i]]
    BY Zenon DEF Queue
  <2>2. CASE RestsRings
    <3>1. Queue' = Queue
      BY <2>2 DEF RestsRings, ringVars, Queue, Content, Held, Wrap
    <3> QED BY <2>2, <3>1, Zenon DEF RestsRings, Fifos!Next, Fifos!Other
  <2>3. CASE TakesSome
    <3>1. PICK i \in Pipes : \E n \in 0 .. Held(i) : Take(i, n)
      BY <2>3, Zenon DEF TakesSome
    <3>2. PICK n \in 0 .. Held(i) : Take(i, n)
      BY <3>1, Zenon
    <3>3. /\ \A j \in Pipes \ {i} : Queue'[j] = Queue[j]
          /\ last' = SubSeq(Queue[i], 1, n)
          /\ Queue'[i] = SubSeq(Queue[i], n + 1, Len(Queue[i]))
      BY <1>2, <3>2, TakeRing, Zenon
    <3>4. CASE n = 0
      <4>1. last' = <<>>
        BY <3>3, <3>4, SubSeqEmpty
      <4>2. Queue'[i] = Queue[i]
        BY <2>0, <3>3, <3>4, SubSeqFull
      <4>3. Queue' = Queue
        BY <2>1, <3>3, <4>2, Zenon
      <4> QED BY <4>1, <4>3, Zenon DEF Fifos!Next, Fifos!Other
    <3>5. CASE n # 0
      <4>1. n \in 1 .. Len(Queue[i])
        BY <2>0, <3>5
      <4>2. Queue' = [Queue EXCEPT ![i] = SubSeq(@, n + 1, Len(@))]
        BY <2>1, <3>3, Zenon
      <4>3. Fifos!Get(i, n)
        BY <3>3, <4>2, Zenon DEF Fifos!Get
      <4> QED BY <4>1, <4>3, Zenon DEF Fifos!Next
    <3> QED BY <3>4, <3>5, Zenon
  <2>4. CASE WritesSome
    <3>1. PICK p \in Procs, f \in Fds, i \in Pipes, s \in Chunks : SysWrite(p, f, i, s)
      BY <2>4, Zenon DEF WritesSome
    <3>2. PICK n \in 0 .. Len(s) :
            /\ s \in Seq(Bytes) /\ Len(s) \in Nat
            /\ n <= Room(i) /\ Store(i, s, n)
            /\ n = Room(i) \/ Wakes(i)
      BY <1>2, <3>1, WriteOnRing, Zenon
    <3> DEFINE new == SubSeq(s, 1, n)
    <3>3. /\ \A j \in Pipes \ {i} : Queue'[j] = Queue[j]
          /\ Queue'[i] = Queue[i] \o new
      BY <1>2, <3>2, StoreRing, Zenon
    <3>4. last' = <<>>
      BY <3>2, Zenon DEF Store
    <3>5. CASE n = 0
      <4>1. new = <<>>
        BY <3>5, SubSeqEmpty
      <4>2. Queue'[i] = Queue[i]
        BY <2>0, <3>3, <4>1, ConcatEmptySeq, Zenon
      <4>3. Queue' = Queue
        BY <2>1, <3>3, <4>2, Zenon
      <4> QED BY <3>4, <4>3, Zenon DEF Fifos!Next, Fifos!Other
    <3>6. CASE n # 0
      <4>1. new \in [1 .. n -> Bytes] /\ Len(new) = n
        <5>1. n \in Int /\ n >= 1 /\ \A j \in 1 .. n : s[j] \in Bytes
          BY <3>2, <3>6
        <5>2. new \in Seq(Bytes) /\ Len(new) = n
          BY <5>1, SubSeqProperties
        <5> HIDE DEF new
        <5> QED BY <5>2
      <4> HIDE DEF new
      <4>2. n \in 1 .. BufferSize - 1
        BY <2>0, <3>2, <3>6, PipeAssumption DEF Room
      <4>3. new \in Fifos!Chunks
        BY <4>1, <4>2, Zenon DEF Fifos!Chunks
      <4>4. Queue' = [Queue EXCEPT ![i] = @ \o new]
        BY <2>1, <3>3, Zenon
      <4>5. Len(Queue[i]) + Len(new) <= BufferSize - 1
        BY <2>0, <3>2, <4>1, PipeAssumption DEF Room
      <4>6. Fifos!Put(i, new)
        BY <3>4, <4>4, <4>5, Zenon DEF Fifos!Put
      <4> QED BY <4>3, <4>6, Zenon DEF Fifos!Next
    <3> QED BY <3>5, <3>6, Zenon
  <2> QED BY <1>2, <2>2, <2>3, <2>4, StepOnRings, Zenon
<1>3. UNCHANGED vars => UNCHANGED <<Queue, last>>
  BY Zenon DEF vars, ringVars, Queue, Content, Held, Wrap
<1>4. TypeOK /\ [Next]_vars => [Fifos!Next]_<<Queue, last>>
  BY <1>2, <1>3, Zenon
<1> QED BY <1>1, <1>4, TypeCorrect, PTL DEF Spec, InOrder, Fifos!Spec

-----------------------------------------------------------------------------
(***************************************************************************)
(* The counts of the descriptors.                                          *)
(***************************************************************************)
Uses(fd, e) == {pf \in Procs \X Fds : fd[pf[1]][pf[2]] = e}

LEMMA UsesFinite ==
  ASSUME NEW fd, NEW e
  PROVE  IsFiniteSet(Uses(fd, e)) /\ Cardinality(Uses(fd, e)) \in Nat
<1>1. IsFiniteSet(Procs) /\ IsFiniteSet(Fds)
  BY FS_Interval, PipeAssumption DEF Procs, Fds
<1>2. IsFiniteSet(Procs \X Fds)
  BY <1>1, FS_Product, Zenon
<1>3. Uses(fd, e) \in SUBSET (Procs \X Fds)
  BY Zenon DEF Uses
<1>4. IsFiniteSet(Uses(fd, e))
  BY <1>2, <1>3, FS_Subset, Zenon
<1> QED BY <1>4, FS_CardinalityType, Zenon

Descriptors == [Procs -> [Fds -> Entries \cup {None}]]
Counts == [Entries -> Int]
Exact(fd, oc) == \A e \in Entries : oc[e] = Cardinality(Uses(fd, e))

\* Closing a descriptor, and filling an empty one.
LEMMA CloseKeepsExact ==
  ASSUME NEW fd \in Descriptors, NEW oc \in Counts, Exact(fd, oc),
         NEW p \in Procs, NEW f \in Fds, fd[p][f] \in Entries
  PROVE  Exact([fd EXCEPT ![p][f] = None], [oc EXCEPT ![fd[p][f]] = @ - 1])
<1> DEFINE e0 == fd[p][f]
           fd1 == [fd EXCEPT ![p][f] = None]
<1>1. None \notin Entries
  BY PipeAssumption, Zenon DEF None, Entries
<1>2. ASSUME NEW e \in Entries, e # e0 PROVE Uses(fd1, e) = Uses(fd, e)
  BY <1>1, <1>2, Zenon DEF Uses, Descriptors
<1>3. Uses(fd1, e0) = Uses(fd, e0) \ {<<p, f>>} /\ <<p, f>> \in Uses(fd, e0)
  BY <1>1 DEF Uses, Descriptors
<1>4. Cardinality(Uses(fd1, e0)) = Cardinality(Uses(fd, e0)) - 1
  <2> DEFINE u == Uses(fd, e0)
  <2>1. IsFiniteSet(u)
    BY UsesFinite, Zenon
  <2> HIDE DEF u
  <2>2. Cardinality(u \ {<<p, f>>}) = Cardinality(u) - 1
    BY <1>3, <2>1, FS_RemoveElement, Zenon DEF u
  <2> QED BY <1>3, <2>2, Zenon DEF u
<1> HIDE DEF fd1
<1> QED BY <1>2, <1>4, Zenon DEF Exact, Counts, fd1

LEMMA OpenKeepsExact ==
  ASSUME NEW fd \in Descriptors, NEW oc \in Counts, Exact(fd, oc),
         NEW p \in Procs, NEW f \in Fds, fd[p][f] = None, NEW e0 \in Entries
  PROVE  Exact([fd EXCEPT ![p][f] = e0], [oc EXCEPT ![e0] = @ + 1])
<1> DEFINE fd1 == [fd EXCEPT ![p][f] = e0]
<1>1. None \notin Entries
  BY PipeAssumption, Zenon DEF None, Entries
<1>2. ASSUME NEW e \in Entries, e # e0 PROVE Uses(fd1, e) = Uses(fd, e)
  BY <1>1, <1>2, Zenon DEF Uses, Descriptors
<1>3. Uses(fd1, e0) = Uses(fd, e0) \cup {<<p, f>>} /\ <<p, f>> \notin Uses(fd, e0)
  BY <1>1 DEF Uses, Descriptors
<1>4. Cardinality(Uses(fd1, e0)) = Cardinality(Uses(fd, e0)) + 1
  BY <1>3, UsesFinite, FS_AddElement, Zenon
<1> HIDE DEF fd1
<1> QED BY <1>2, <1>4, Zenon DEF Exact, Counts, fd1

\* The lowest descriptor of a set exists.
LEMMA Lowest ==
  ASSUME NEW S \in SUBSET Fds, S # {}
  PROVE  \E f \in S : \A g \in S : f <= g
<1>1. S \subseteq Nat
  BY DEF Fds
<1>2. \E f \in S : \A g \in S : ~ (<<g, f>> \in OpToRel(<, Nat))
  BY <1>1, WFMin, NatLessThanWellFounded, Zenon
<1>3. PICK f \in S : \A g \in S : ~ (<<g, f>> \in OpToRel(<, Nat))
  BY <1>2, Zenon
<1>4. ASSUME NEW g \in S PROVE ~ (g < f)
  BY <1>1, <1>3, Zenon DEF OpToRel
<1> QED BY <1>1, <1>4

\* The descriptors for e that a process with the table t adds or takes away.
TableUses(c, t, e) == {pf \in Procs \X Fds : pf[1] = c /\ t[pf[2]] = e}

LEMMA TableCount ==
  ASSUME NEW c \in Procs, NEW t, NEW e
  PROVE  /\ IsFiniteSet(TableUses(c, t, e))
         /\ Cardinality(TableUses(c, t, e)) = Cardinality({f \in Fds : t[f] = e})
<1> DEFINE S == {f \in Fds : t[f] = e}
           T == TableUses(c, t, e)
           F == [f \in S |-> <<c, f>>]
<1>1. IsFiniteSet(Fds)
  BY FS_Interval, PipeAssumption DEF Fds
<1>2. IsFiniteSet(S)
  BY <1>1, FS_Subset, Zenon
<1>3. F \in [S -> T] /\ \A a, b \in S : F[a] = F[b] => a = b
  BY Zenon DEF TableUses
<1>4. ASSUME NEW x \in T PROVE \E a \in S : F[a] = x
  <2>1. x[2] \in S /\ x = <<c, x[2]>>
    BY DEF TableUses
  <2> QED BY <2>1, Zenon
<1> HIDE DEF S, T, F
<1>5. F \in Bijection(S, T)
  BY <1>3, <1>4, Fun_IsBij, Zenon
<1>6. ExistsBijection(S, T)
  BY <1>5, Zenon DEF ExistsBijection
<1>7. IsFiniteSet(T) /\ Cardinality(T) = Cardinality(S)
  BY <1>2, <1>6, FS_Bijection, Zenon
<1> QED BY <1>7, Zenon DEF S, T
-----------------------------------------------------------------------------
(***************************************************************************)
(* The invariant: besides the counts, a process that was not started or is *)
(* cleaned has no descriptor, and none is for a pipe not yet made.         *)
(***************************************************************************)
NoneUnlessAlive ==
  \A p \in Procs : status[p] \in {"unused", "cleaned"} =>
    \A f \in Fds : open_fd[p][f] = None

NoneUnlessMade ==
  \A p \in Procs, f \in Fds, i \in Pipes \ created :
    open_fd[p][f] # In(i) /\ open_fd[p][f] # Out(i)

CountInv == TypeOK /\ OpenCountExact /\ NoneUnlessAlive /\ NoneUnlessMade

LEMMA ExactIs == OpenCountExact <=> Exact(open_fd, open_count)
BY Zenon DEF OpenCountExact, Exact, Uses

LEMMA ExactIsNext == OpenCountExact' <=> Exact(open_fd', open_count')
BY Zenon DEF OpenCountExact, Exact, Uses, Procs, Fds, Entries

LEMMA RestKeeps ==
  ASSUME CountInv, UNCHANGED <<fileVars, status>>
  PROVE  OpenCountExact' /\ NoneUnlessAlive' /\ NoneUnlessMade'
BY Zenon DEF CountInv, OpenCountExact, NoneUnlessAlive, NoneUnlessMade, fileVars

LEMMA PipeKeeps ==
  ASSUME CountInv, NEW p \in Procs, NEW i \in Pipes, SysPipe(p, i)
  PROVE  OpenCountExact' /\ NoneUnlessAlive' /\ NoneUnlessMade'
<1> DEFINE free == {f \in Fds : open_fd[p][f] = None}
           outfd == CHOOSE f \in free : \A g \in free : f <= g
           infd == CHOOSE f \in free \ {outfd} : \A g \in free \ {outfd} : f <= g
<1>1. /\ status' = status /\ created' = created \cup {i} /\ i \notin created
      /\ status[p] = "live"
      /\ open_count' = [open_count EXCEPT ![In(i)] = 1, ![Out(i)] = 1]
      /\ Cardinality(free) >= 2
      /\ open_fd' = [open_fd EXCEPT ![p][outfd] = Out(i), ![p][infd] = In(i)]
  BY Zenon DEF SysPipe, Calls, Runs
<1>2. outfd \in free /\ infd \in free \ {outfd}
  <2>1. IsFiniteSet(free)
    <3>1. IsFiniteSet(Fds)
      BY FS_Interval, PipeAssumption DEF Fds
    <3> QED BY <3>1, FS_Subset, Zenon
  <2>2. free # {}
    <3>1. Cardinality({}) = 0
      BY FS_EmptySet, Zenon
    <3> HIDE DEF free, outfd, infd
    <3>2. Cardinality(free) # 0
      BY <1>1, <2>1, FS_CardinalityType
    <3> QED BY <3>1, <3>2, Zenon
  <2>3. outfd \in free
    BY <2>2, Lowest, Zenon
  <2>4. free \ {outfd} # {}
    <3> HIDE DEF outfd, free
    <3>1. Cardinality(free \ {outfd}) = Cardinality(free) - 1
      BY <2>1, <2>3, FS_RemoveElement, Zenon
    <3>2. Cardinality(free) \in Nat
      BY <2>1, FS_CardinalityType, Zenon
    <3>3. Cardinality(free \ {outfd}) # 0
      BY <1>1, <3>1, <3>2
    <3> QED BY <3>3, FS_EmptySet, Zenon
  <2> HIDE DEF outfd
  <2>5. infd \in free \ {outfd}
    BY <2>4, Lowest, Zenon
  <2> QED BY <2>3, <2>5, Zenon
<1>3. /\ outfd \in Fds /\ infd \in Fds /\ outfd # infd
      /\ open_fd[p][outfd] = None /\ open_fd[p][infd] = None
  BY <1>2, Zenon
<1> HIDE DEF free, outfd, infd
<1>4. In(i) \in Entries /\ Out(i) \in Entries /\ In(i) # Out(i)
  BY Zenon DEF In, Out, Entries
<1>5. open_fd \in Descriptors /\ open_count \in Counts /\ Exact(open_fd, open_count)
  BY ExactIs, Zenon DEF CountInv, TypeOK, Descriptors, Counts
<1>6. open_count[In(i)] = 0 /\ open_count[Out(i)] = 0
  <2>1. Uses(open_fd, In(i)) = {} /\ Uses(open_fd, Out(i)) = {}
    BY <1>1, Zenon DEF Uses, CountInv, NoneUnlessMade
  <2> QED BY <1>4, <1>5, <2>1, FS_EmptySet, Zenon DEF Exact
<1> DEFINE fd1 == [open_fd EXCEPT ![p][outfd] = Out(i)]
           oc1 == [open_count EXCEPT ![Out(i)] = @ + 1]
<1>7. Exact(fd1, oc1)
  BY <1>3, <1>4, <1>5, OpenKeepsExact, Zenon
<1>8. fd1 \in Descriptors /\ oc1 \in Counts /\ fd1[p][infd] = None
  BY <1>3, <1>4, <1>5 DEF Descriptors, Counts
<1>9. /\ open_fd' = [fd1 EXCEPT ![p][infd] = In(i)]
      /\ open_count' = [oc1 EXCEPT ![In(i)] = @ + 1]
  <2>1. open_fd' = [fd1 EXCEPT ![p][infd] = In(i)]
    BY <1>1, Zenon
  <2>2. open_count' \in Counts /\ [oc1 EXCEPT ![In(i)] = @ + 1] \in Counts
    BY <1>1, <1>4, <1>5, <1>8 DEF Counts
  <2>3. ASSUME NEW e \in Entries
        PROVE  open_count'[e] = [oc1 EXCEPT ![In(i)] = @ + 1][e]
    BY <1>1, <1>4, <1>5, <1>6 DEF Counts
  <2>4. open_count' = [oc1 EXCEPT ![In(i)] = @ + 1]
    BY <2>2, <2>3, Zenon DEF Counts
  <2> QED BY <2>1, <2>4, Zenon
<1> HIDE DEF fd1, oc1
<1>10. OpenCountExact'
  BY <1>3, <1>4, <1>7, <1>8, <1>9, OpenKeepsExact, ExactIsNext, Zenon
<1>11. NoneUnlessAlive'
  BY <1>1, <1>3, Zenon DEF CountInv, TypeOK, NoneUnlessAlive
<1>12. NoneUnlessMade'
  <2>1. ASSUME NEW q \in Procs, NEW g \in Fds
        PROVE  open_fd'[q][g] \in {open_fd[q][g], In(i), Out(i)}
    BY <1>1, <1>3, Zenon DEF CountInv, TypeOK
  <2>2. \A j \in Pipes \ created' : /\ j \in Pipes \ created
                                   /\ In(j) \notin {In(i), Out(i)}
                                   /\ Out(j) \notin {In(i), Out(i)}
    BY <1>1, Zenon DEF In, Out
  <2> QED BY <2>1, <2>2 DEF CountInv, NoneUnlessMade, In, Out
<1> QED BY <1>10, <1>11, <1>12, Zenon

LEMMA CloseKeeps ==
  ASSUME CountInv, NEW p \in Procs, NEW f \in Fds, SysClose(p, f)
  PROVE  OpenCountExact' /\ NoneUnlessAlive' /\ NoneUnlessMade'
<1>1. /\ UNCHANGED <<status, created>>
      /\ open_fd[p][f] \in Entries
      /\ open_count' = [open_count EXCEPT ![open_fd[p][f]] = @ - 1]
      /\ open_fd' = [open_fd EXCEPT ![p][f] = None]
  BY DEF SysClose, Closed, CountInv, TypeOK
<1>2. open_fd \in Descriptors /\ open_count \in Counts /\ Exact(open_fd, open_count)
  BY ExactIs, Zenon DEF CountInv, TypeOK, Descriptors, Counts
<1>3. OpenCountExact'
  BY <1>1, <1>2, CloseKeepsExact, ExactIsNext, Zenon
<1>4. \A i \in Pipes : None # In(i) /\ None # Out(i)
  BY PipeAssumption, Zenon DEF None, In, Out
<1>5. NoneUnlessAlive' /\ NoneUnlessMade'
  BY <1>1, <1>4 DEF CountInv, TypeOK, NoneUnlessAlive, NoneUnlessMade
<1> QED BY <1>3, <1>5, Zenon

LEMMA DupKeeps ==
  ASSUME CountInv, NEW p \in Procs, NEW old \in Fds, NEW new \in Fds,
         SysDup(p, old, new)
  PROVE  OpenCountExact' /\ NoneUnlessAlive' /\ NoneUnlessMade'
<1> DEFINE fd1 == [open_fd EXCEPT ![p][new] = None]
           oc1 == IF open_fd[p][new] = None THEN open_count ELSE Closed(open_fd[p][new])
<1>1. UNCHANGED <<status, created>> /\ status[p] = "live"
  BY Zenon DEF SysDup, Calls, Runs
<1>2. \/ open_fd' = fd1 /\ open_count' = oc1
      \/ /\ open_fd[p][old] # None /\ old # new
         /\ open_fd' = [open_fd EXCEPT ![p][new] = open_fd[p][old]]
         /\ open_count' = [oc1 EXCEPT ![open_fd[p][old]] = @ + 1]
  BY Zenon DEF SysDup
<1>3. open_fd \in Descriptors /\ open_count \in Counts /\ Exact(open_fd, open_count)
  BY ExactIs, Zenon DEF CountInv, TypeOK, Descriptors, Counts
<1>4. Exact(fd1, oc1) /\ oc1 \in Counts
  <2>1. CASE open_fd[p][new] = None
    <3>1. fd1 = open_fd
      BY <1>3, <2>1, Zenon DEF Descriptors
    <3> QED BY <1>3, <2>1, <3>1, Zenon
  <2>2. CASE open_fd[p][new] # None
    <3>1. open_fd[p][new] \in Entries
      BY <1>3, <2>2, Zenon DEF Descriptors
    <3>2. oc1 = [open_count EXCEPT ![open_fd[p][new]] = @ - 1]
      BY <2>2, Zenon DEF Closed
    <3>3. [open_count EXCEPT ![open_fd[p][new]] = @ - 1] \in Counts
      BY <1>3, <3>1 DEF Counts
    <3> QED BY <1>3, <3>1, <3>2, <3>3, CloseKeepsExact
  <2> QED BY <2>1, <2>2, Zenon
<1>5. fd1 \in Descriptors /\ fd1[p][new] = None
  BY <1>3, Zenon DEF Descriptors
<1>6. OpenCountExact'
  <2>1. CASE open_fd' = fd1 /\ open_count' = oc1
    BY <1>4, <2>1, ExactIsNext, Zenon
  <2>2. CASE /\ open_fd[p][old] # None /\ old # new
             /\ open_fd' = [open_fd EXCEPT ![p][new] = open_fd[p][old]]
             /\ open_count' = [oc1 EXCEPT ![open_fd[p][old]] = @ + 1]
    <3>1. open_fd[p][old] \in Entries
      BY <1>3, <2>2, Zenon DEF Descriptors
    <3>2. open_fd' = [fd1 EXCEPT ![p][new] = open_fd[p][old]]
      BY <1>3, <2>2, Zenon DEF Descriptors
    <3> HIDE DEF fd1, oc1
    <3>3. PICK e \in Entries : e = open_fd[p][old]
      BY <3>1, Zenon
    <3>4. Exact([fd1 EXCEPT ![p][new] = e], [oc1 EXCEPT ![e] = @ + 1])
      BY <1>4, <1>5, OpenKeepsExact, Zenon
    <3> QED BY <2>2, <3>2, <3>3, <3>4, ExactIsNext, Zenon
  <2> QED BY <1>2, <2>1, <2>2, Zenon
<1>7. \E e \in {None, open_fd[p][old]} : open_fd' = [open_fd EXCEPT ![p][new] = e]
  BY <1>2, Zenon
<1>8. \A i \in Pipes : None # In(i) /\ None # Out(i)
  BY PipeAssumption, Zenon DEF None, In, Out
<1>9. NoneUnlessAlive' /\ NoneUnlessMade'
  BY <1>1, <1>7, <1>8 DEF CountInv, TypeOK, NoneUnlessAlive, NoneUnlessMade
<1> QED BY <1>6, <1>9, Zenon

LEMMA ForkKeeps ==
  ASSUME CountInv, NEW p \in Procs, NEW c \in Procs, Fork(p, c)
  PROVE  OpenCountExact' /\ NoneUnlessAlive' /\ NoneUnlessMade'
<1>1. /\ created' = created /\ status' = [status EXCEPT ![c] = "live"]
      /\ open_fd' = [open_fd EXCEPT ![c] = open_fd[p]]
      /\ open_count' = [e \in Entries |-> open_count[e] + Refs(p, e)]
      /\ \A f \in Fds : open_fd[c][f] = None
  BY Zenon DEF Fork, ForkCounts, CountInv, NoneUnlessAlive
<1>2. ASSUME NEW e \in Entries
      PROVE  open_count'[e] = Cardinality(Uses(open_fd', e))
  <2> DEFINE T == TableUses(c, open_fd[p], e)
             U == Uses(open_fd, e)
  <2>1. IsFiniteSet(T) /\ Cardinality(T) = Refs(p, e)
    BY TableCount DEF Refs
  <2>2. IsFiniteSet(U) /\ Cardinality(U) = open_count[e]
    BY UsesFinite, ExactIs, Zenon DEF Exact, CountInv
  <2>3. e # None
    BY PipeAssumption DEF None, Entries
  <2>4. U \cap T = {}
    BY <1>1, <2>3, Zenon DEF Uses, TableUses
  <2>5. Uses(open_fd', e) = U \cup T
    BY <1>1, <2>3, Zenon DEF Uses, TableUses, CountInv, TypeOK
  <2>6. Refs(p, e) \in Nat /\ open_count[e] \in Int
    BY RefsNat, Zenon DEF CountInv, TypeOK
  <2> HIDE DEF T, U
  <2>7. Cardinality(U \cup T) = open_count[e] + Refs(p, e)
    <3>1. Cardinality(U \cap T) = 0
      BY <2>4, FS_EmptySet, Zenon
    <3>2. Cardinality(U \cup T) = Cardinality(U) + Cardinality(T) - Cardinality(U \cap T)
      BY <2>1, <2>2, FS_Union, Zenon
    <3> QED BY <2>1, <2>2, <2>6, <3>1, <3>2
  <2> QED BY <1>1, <2>5, <2>7, Zenon
<1>3. OpenCountExact'
  BY <1>2, ExactIsNext, Zenon DEF Exact
<1>4. NoneUnlessAlive' /\ NoneUnlessMade'
  BY <1>1 DEF CountInv, TypeOK, NoneUnlessAlive, NoneUnlessMade
<1> QED BY <1>3, <1>4, Zenon

LEMMA CleanupKeeps ==
  ASSUME CountInv, NEW p \in Procs, Cleanup(p)
  PROVE  OpenCountExact' /\ NoneUnlessAlive' /\ NoneUnlessMade'
<1>1. /\ created' = created /\ status' = [status EXCEPT ![p] = "cleaned"]
      /\ open_fd' = [open_fd EXCEPT ![p] = [f \in Fds |-> None]]
      /\ open_count' = [e \in Entries |-> open_count[e] - Refs(p, e)]
  BY Zenon DEF Cleanup
<1>2. ASSUME NEW e \in Entries
      PROVE  open_count'[e] = Cardinality(Uses(open_fd', e))
  <2> DEFINE T == TableUses(p, open_fd[p], e)
             U == Uses(open_fd, e)
  <2>1. IsFiniteSet(T) /\ Cardinality(T) = Refs(p, e)
    BY TableCount DEF Refs
  <2>2. IsFiniteSet(U) /\ Cardinality(U) = open_count[e]
    BY UsesFinite, ExactIs, Zenon DEF Exact, CountInv
  <2>3. e # None
    BY PipeAssumption DEF None, Entries
  <2>4. U \cap T = T
    BY Zenon DEF Uses, TableUses
  <2>5. Uses(open_fd', e) = U \ T
    BY <1>1, <2>3, Zenon DEF Uses, TableUses, CountInv, TypeOK
  <2> HIDE DEF T, U
  <2>6. Cardinality(U \ T) = open_count[e] - Refs(p, e)
    <3>1. Cardinality(U \ T) = Cardinality(U) - Cardinality(U \cap T)
      BY <2>2, FS_Difference, Zenon
    <3> QED BY <2>1, <2>2, <2>4, <3>1, Zenon
  <2> QED BY <1>1, <2>5, <2>6, Zenon
<1>3. OpenCountExact'
  BY <1>2, ExactIsNext, Zenon DEF Exact
<1>4. \A i \in Pipes : None # In(i) /\ None # Out(i)
  BY PipeAssumption, Zenon DEF None, In, Out
<1>5. NoneUnlessAlive' /\ NoneUnlessMade'
  BY <1>1, <1>4 DEF CountInv, TypeOK, NoneUnlessAlive, NoneUnlessMade
<1> QED BY <1>3, <1>5, Zenon

LEMMA ReadLoopRests ==
  ASSUME NEW p \in Procs, NEW i \in Pipes, NEW n, ReadLoop(p, i, n)
  PROVE  UNCHANGED <<fileVars, status>>
BY Zenon DEF ReadLoop, ReadEnds, ReadSleeps, ReadDelivers, ReadFaults

LEMMA CountStep == CountInv /\ [Next]_vars => CountInv'
<1> DEFINE Goal == OpenCountExact' /\ NoneUnlessAlive' /\ NoneUnlessMade'
<1> SUFFICES ASSUME CountInv, [Next]_vars PROVE Goal
  BY TypeStep, Zenon DEF CountInv
<1>1. ASSUME NEW p \in Procs, NEW f \in Fds, NEW i \in Pipes,
             NEW n \in 1 .. MaxChunk, SysRead(p, f, i, n)
      PROVE  Goal
  <2>1. UNCHANGED <<fileVars, status>>
    BY <1>1, ReadLoopRests, Zenon DEF SysRead
  <2> QED BY <2>1, RestKeeps, Zenon
<1>2. ASSUME NEW p \in Procs, NEW f \in Fds, NEW i \in Pipes,
             NEW s \in Chunks, SysWrite(p, f, i, s)
      PROVE  Goal
  <2>1. UNCHANGED <<fileVars, status>>
    BY <1>2, Zenon DEF SysWrite
  <2> QED BY <2>1, RestKeeps, Zenon
<1>3. ASSUME NEW p \in Procs, ReadAgain(p) PROVE Goal
  <2>1. call[p].pipe \in Pipes
    BY <1>3, CallArgs, Zenon DEF ReadAgain, CountInv
  <2>2. UNCHANGED <<fileVars, status>>
    BY <1>3, <2>1, ReadLoopRests, Zenon DEF ReadAgain
  <2> QED BY <2>2, RestKeeps, Zenon
<1>4. ASSUME NEW p \in Procs, ReadInterrupted(p) \/ ReadGoesOn(p) \/ Signal(p) PROVE Goal
  <2>1. UNCHANGED <<fileVars, status>>
    BY <1>4, Zenon DEF ReadInterrupted, ReadGoesOn, Signal
  <2> QED BY <2>1, RestKeeps, Zenon
<1>5. ASSUME NEW p \in Procs, Exit(p) PROVE Goal
  <2>1. UNCHANGED fileVars /\ status' = [status EXCEPT ![p] = "terminated"]
    BY <1>5, Zenon DEF Exit
  <2>2. open_fd' = open_fd /\ open_count' = open_count /\ created' = created
    BY <2>1, Zenon DEF fileVars
  <2>3. OpenCountExact' /\ NoneUnlessMade'
    BY <2>2, Zenon DEF CountInv, OpenCountExact, NoneUnlessMade
  <2>4. status \in [Procs -> {"unused", "live", "terminated", "cleaned"}]
    BY Zenon DEF CountInv, TypeOK
  <2>5. \A q \in Procs : status'[q] \in {"live", "terminated"} \/ status'[q] = status[q]
    BY <2>1, <2>4, Zenon
  <2>6. NoneUnlessAlive'
    BY <2>2, <2>5, Zenon DEF CountInv, NoneUnlessAlive
  <2> QED BY <2>3, <2>6, Zenon
<1>6. CASE UNCHANGED vars
  <2>1. UNCHANGED <<fileVars, status>>
    BY <1>6, Zenon DEF vars, procVars
  <2> QED BY <2>1, RestKeeps, Zenon
<1> HIDE DEF Goal
<1>7. ASSUME NEW p \in Procs, NEW i \in Pipes, SysPipe(p, i) PROVE Goal
  BY <1>7, PipeKeeps, Zenon DEF Goal
<1>8. ASSUME NEW p \in Procs, NEW f \in Fds, SysClose(p, f) PROVE Goal
  BY <1>8, CloseKeeps, Zenon DEF Goal
<1>9. ASSUME NEW p \in Procs, NEW f \in Fds, NEW g \in Fds, SysDup(p, f, g) PROVE Goal
  BY <1>9, DupKeeps, Zenon DEF Goal
<1>10. ASSUME NEW p \in Procs, NEW c \in Procs, Fork(p, c) PROVE Goal
  BY <1>10, ForkKeeps, Zenon DEF Goal
<1>11. ASSUME NEW p \in Procs, Cleanup(p) PROVE Goal
  BY <1>11, CleanupKeeps, Zenon DEF Goal
<1> QED BY <1>1, <1>2, <1>3, <1>4, <1>5, <1>6, <1>7, <1>8, <1>9, <1>10, <1>11, Zenon DEF Next

LEMMA CountInvariance == Spec => []CountInv
<1>1. ASSUME Init PROVE CountInv
  <2>1. \A p \in Procs, f \in Fds : open_fd[p][f] = None
    BY <1>1, Zenon DEF Init
  <2>2. \A e \in Entries : e # None /\ open_count[e] = 0
    BY <1>1, PipeAssumption DEF Init, None, Entries
  <2>3. \A e \in Entries : Uses(open_fd, e) = {}
    BY <2>1, <2>2, Zenon DEF Uses
  <2>4. OpenCountExact
    BY <2>2, <2>3, ExactIs, FS_EmptySet, Zenon DEF Exact
  <2>5. \A i \in Pipes : None # In(i) /\ None # Out(i)
    BY PipeAssumption, Zenon DEF None, In, Out
  <2> QED BY <1>1, <2>1, <2>4, <2>5, TypeInit, Zenon DEF CountInv, NoneUnlessAlive, NoneUnlessMade
<1> QED BY <1>1, CountStep, PTL DEF Spec

\* Through pipe, dup, fork, close and the cleanup of a process, open_count is
\* exactly the number of descriptors (file_close, fork_process, process_cleanup).
THEOREM CountsAreExact == Spec => []OpenCountExact
<1>1. CountInv => OpenCountExact
  BY Zenon DEF CountInv
<1> QED BY <1>1, CountInvariance, PTL

\* sys_read reports the end of a pipe only when it holds nothing and no process
\* holds its writing end (file_read).
THEOREM EndMeansEnd == Spec => []EndIsEnd
<1>1. ASSUME CountInv PROVE EndIsEnd
  <2> SUFFICES ASSUME NEW i \in created, AtEnd(i)
               PROVE  Held(i) = 0 /\ ~ \E p \in Procs, f \in Fds : open_fd[p][f] = In(i)
    BY Zenon DEF EndIsEnd
  <2>1. i \in Pipes /\ In(i) \in Entries
    BY <1>1, Zenon DEF CountInv, TypeOK, In, Entries
  <2>2. Held(i) = 0
    BY <1>1, <2>1, PipeAssumption
       DEF CountInv, TypeOK, AtEnd, SeemsEmpty, Held, Wrap, Cells
  <2>3. open_count[In(i)] = Cardinality(Uses(open_fd, In(i)))
    BY <1>1, <2>1, ExactIs, Zenon DEF Exact, CountInv
  <2>4. Cardinality(Uses(open_fd, In(i))) = 0
    BY <2>3, UsesFinite DEF AtEnd
  <2>5. Uses(open_fd, In(i)) = {}
    BY <2>4, UsesFinite, FS_EmptySet, Zenon
  <2>6. ASSUME NEW p \in Procs, NEW f \in Fds, open_fd[p][f] = In(i) PROVE FALSE
    <3>1. <<p, f>> \in Uses(open_fd, In(i))
      BY <2>6, Zenon DEF Uses
    <3> QED BY <2>5, <3>1, Zenon
  <2> QED BY <2>2, <2>6, Zenon
<1> QED BY <1>1, CountInvariance, PTL
=============================================================================
