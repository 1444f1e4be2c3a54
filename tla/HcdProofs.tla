----------------------------- MODULE HcdProofs ------------------------------
(***************************************************************************)
(* IInv is an invariant of the driver, for any number of pipes, IRPs and   *)
(* buffers.                                                                *)
(*                                                                         *)
(* The first part is about one pipe: each operator of PipeBuffers and      *)
(* HcdPipe takes a well-typed pipe whose ring and IRPs are consistent to   *)
(* another one.  The second lifts these lemmas to the pipes and the lists  *)
(* of the port, and proves the port's own part of the invariant action by  *)
(* action.                                                                 *)
(***************************************************************************)
EXTENDS HcdInvariant, FiniteSetTheorems, TLAPS

-----------------------------------------------------------------------------
(* Index arithmetic on the ring *)

\* Index arithmetic stays in the ring, and a distance is shorter than it.
LEMMA IdxClosed ==
    ASSUME NEW i \in Idx
    PROVE  /\ Inc(i) \in Idx
           /\ \A k \in 0 .. NumBuffers : Plus(i, k) \in Idx
           /\ \A j \in Idx : Dist(i, j) \in Nat /\ Dist(i, j) < NumBuffers
           /\ Plus(i, 0) = i
BY NumBuffersAssumption DEF Idx, Inc, Plus, Dist

\* One step forward from a window's end, or from its start.
LEMMA IncPlus ==
    ASSUME NEW i \in Idx, NEW k \in Nat, k < NumBuffers
    PROVE  /\ Inc(Plus(i, k)) = Plus(i, k + 1)
           /\ Plus(Inc(i), k) = Plus(i, k + 1)
BY NumBuffersAssumption DEF Idx, Inc, Plus

\* Dist and Plus are inverse to each other.
LEMMA DistPlus ==
    ASSUME NEW i \in Idx
    PROVE  /\ \A k \in 0 .. NumBuffers - 1 : Dist(i, Plus(i, k)) = k
           /\ \A j \in Idx : Plus(i, Dist(i, j)) = j
           /\ Dist(i, i) = 0
BY NumBuffersAssumption DEF Idx, Dist, Plus

\* Two windows, one behind the other.
LEMMA PlusPlus ==
    ASSUME NEW i \in Idx, NEW k \in Nat, NEW l \in Nat, k + l <= NumBuffers
    PROVE  Plus(Plus(i, k), l) = Plus(i, k + l)
BY NumBuffersAssumption DEF Idx, Plus

\* The buffer at a given distance is the one at that window's end.
LEMMA DistIsPlus ==
    ASSUME NEW i \in Idx, NEW j \in Idx, NEW k \in Nat, k < NumBuffers
    PROVE  Dist(i, j) = k <=> j = Plus(i, k)
BY NumBuffersAssumption DEF Idx, Dist, Plus

\* When a window's start moves forward every other buffer is one step closer.
LEMMA DistInc ==
    ASSUME NEW i \in Idx, NEW j \in Idx
    PROVE  /\ j # i => Dist(Inc(i), j) = Dist(i, j) - 1 /\ Dist(i, j) > 0
           /\ Dist(Inc(i), i) = NumBuffers - 1
BY NumBuffersAssumption DEF Idx, Dist, Inc

-----------------------------------------------------------------------------
(* The windows *)

\* The number of buffers that hold an IRP, and the place of the next one.
LEMMA WindowEnd ==
    ASSUME NEW p \in Pipe_t, Counted(p), Indexed(p)
    PROVE  /\ p.to_parse + p.to_exec \in Nat
           /\ p.to_parse + p.to_exec <= NumBuffers
           /\ p.to_fill > 0 => p.to_parse + p.to_exec < NumBuffers
           /\ p.wr_idx = Plus(p.fr_idx, p.to_parse + p.to_exec)
  <1> DEFINE k == p.to_parse
             l == p.to_exec
             f == p.to_fill
  <1>1. k \in Nat /\ l \in Nat /\ f \in Nat /\ f + l + k = NumBuffers /\ p.fr_idx \in Idx
    BY NumBuffersAssumption DEF Pipe_t, Counted
  <1>2. p.wr_idx = Plus(Plus(p.fr_idx, k), l)
    BY DEF Indexed
  <1> HIDE DEF k, l, f
  <1>3. k + l \in Nat /\ k + l <= NumBuffers /\ (f > 0 => k + l < NumBuffers)
    BY <1>1
  <1>4. p.wr_idx = Plus(p.fr_idx, k + l)
    BY <1>1, <1>2, <1>3, PlusPlus
  <1> QED BY <1>3, <1>4 DEF k, l, f

-----------------------------------------------------------------------------
(* _buffer_fill *)

\* Field by field, what filling a buffer does to the pipe p.
FillStep(p, q) ==
    /\ q.pending = Tail(p.pending)
    /\ q.buf = [p.buf EXCEPT ![p.wr_idx] = Head(p.pending)]
    /\ q.irp_state = [p.irp_state EXCEPT ![Head(p.pending)] = "INFLIGHT"]
    /\ q.wr_idx = Inc(p.wr_idx) /\ q.rd_idx = p.rd_idx /\ q.fr_idx = p.fr_idx
    /\ q.to_fill = p.to_fill - 1 /\ q.to_exec = p.to_exec + 1 /\ q.to_parse = p.to_parse
    /\ q.executing = p.executing /\ q.result = p.result /\ q.done = p.done
    /\ q.state = p.state /\ q.chan_busy = p.chan_busy /\ q.is_active = p.is_active

\* _buffer_fill keeps the types, and is a FillStep.
LEMMA FillFields ==
    ASSUME NEW p \in Pipe_t, CanFill(p), Counted(p)
    PROVE  BufferFill(p) \in Pipe_t /\ FillStep(p, BufferFill(p))
  <1> DEFINE rest == Tail(p.pending)
             buf == [p.buf EXCEPT ![p.wr_idx] = Head(p.pending)]
             stg == [p.cur_stg EXCEPT ![p.wr_idx] = 0]
             st == [p.irp_state EXCEPT ![Head(p.pending)] = "INFLIGHT"]
             wr == Inc(p.wr_idx)
             tf == p.to_fill - 1
             te == p.to_exec + 1
  <1>1. /\ p.pending \in Seq(Irp) /\ p.pending # << >>
        /\ p.to_fill \in 0 .. NumBuffers /\ p.to_exec \in 0 .. NumBuffers
        /\ p.to_parse \in 0 .. NumBuffers
        /\ p.to_fill > 0
        /\ p.wr_idx \in Idx
        /\ p.buf \in [Idx -> Irp \union {NoIrp}]
        /\ p.cur_stg \in [Idx -> 0 .. 2]
        /\ p.irp_state \in [Irp -> IrpState]
    BY DEF CanFill, Pipe_t
  <1>2. Head(p.pending) \in Irp /\ rest \in Seq(Irp)
    BY <1>1
  <1>3. tf \in 0 .. NumBuffers /\ te \in 0 .. NumBuffers
    BY <1>1, NumBuffersAssumption DEF Counted
  <1>4. wr \in Idx
    BY <1>1, IdxClosed
  <1>5. buf \in [Idx -> Irp \union {NoIrp}]
    BY <1>1, <1>2
  <1>6. stg \in [Idx -> 0 .. 2]
    BY <1>1
  <1>7. st \in [Irp -> IrpState]
    BY <1>1, <1>2 DEF IrpState
  <1>8. BufferFill(p) = [p EXCEPT !.pending = rest, !.buf = buf, !.cur_stg = stg, !.irp_state = st,
                                  !.wr_idx = wr, !.to_fill = tf, !.to_exec = te]
    BY DEF BufferFill
  <1> HIDE DEF rest, buf, stg, st, wr, tf, te
  <1>9. BufferFill(p) \in Pipe_t
    <2> DEFINE half == [p EXCEPT !.pending = rest, !.buf = buf, !.cur_stg = stg]
               more == [half EXCEPT !.irp_state = st, !.wr_idx = wr]
    <2>1. half \in Pipe_t
      BY <1>2, <1>5, <1>6 DEF Pipe_t
    <2>2. BufferFill(p) = [more EXCEPT !.to_fill = tf, !.to_exec = te]
      BY <1>8 DEF Pipe_t
    <2> HIDE DEF half
    <2>3. more \in Pipe_t
      BY <1>4, <1>7, <2>1 DEF Pipe_t
    <2> HIDE DEF more
    <2> QED BY <1>3, <2>2, <2>3 DEF Pipe_t
  <1>10. /\ BufferFill(p).pending = rest
         /\ BufferFill(p).buf = buf
         /\ BufferFill(p).irp_state = st
         /\ BufferFill(p).wr_idx = wr
         /\ BufferFill(p).to_fill = tf
         /\ BufferFill(p).to_exec = te
    BY <1>8 DEF Pipe_t
  <1> QED BY <1>8, <1>9, <1>10 DEF Pipe_t, FillStep, rest, buf, stg, st, wr, tf, te

\* Filling a buffer moves the write index over exactly one free buffer.
LEMMA FillRing ==
    ASSUME NEW p \in Pipe_t, NEW q \in Pipe_t, FillStep(p, q), CanFill(p), RingWindows(p)
    PROVE  RingWindows(q)
  <1>1. /\ p.fr_idx \in Idx /\ p.rd_idx \in Idx /\ p.wr_idx \in Idx
        /\ p.to_fill \in Nat /\ p.to_exec \in Nat /\ p.to_parse \in Nat
        /\ p.to_fill > 0
        /\ p.buf \in [Idx -> Irp \union {NoIrp}]
        /\ Head(p.pending) \in Irp
    BY NumBuffersAssumption DEF Pipe_t, CanFill
  <1>2. Counted(q)
    BY <1>1 DEF RingWindows, Counted, FillStep
  <1>3. Indexed(q)
    BY <1>1, IncPlus DEF RingWindows, Counted, Indexed, FillStep
  <1>4. Occupied(q)
    <2>1. p.to_parse + p.to_exec \in Nat /\ p.to_parse + p.to_exec < NumBuffers
      BY <1>1, WindowEnd DEF RingWindows
    <2>2. p.wr_idx = Plus(p.fr_idx, p.to_parse + p.to_exec)
      BY WindowEnd DEF RingWindows
    <2>3. SUFFICES ASSUME NEW j \in Idx
                   PROVE  q.buf[j] # NoIrp <=> Dist(q.fr_idx, j) < q.to_parse + q.to_exec
      BY DEF Occupied, Filled
    <2>4. Dist(p.fr_idx, j) \in Nat
      BY <1>1, IdxClosed
    <2>5. j = p.wr_idx <=> Dist(p.fr_idx, j) = p.to_parse + p.to_exec
      BY <1>1, <2>1, <2>2, DistIsPlus
    <2>6. p.buf[j] # NoIrp <=> Dist(p.fr_idx, j) < p.to_parse + p.to_exec
      BY DEF RingWindows, Occupied, Filled
    <2>7. q.buf[j] = IF j = p.wr_idx THEN Head(p.pending) ELSE p.buf[j]
      BY <1>1 DEF FillStep
    <2> QED BY <1>1, <2>1, <2>4, <2>5, <2>6, <2>7, IrpAssumption DEF FillStep
  <1>5. Reported(q)
    BY DEF RingWindows, FillStep, Reported
  <1> QED BY <1>1, <1>2, <1>3, <1>4, <1>5 DEF RingWindows, FillStep

\* The IRP that is filled leaves the pending queue for one buffer.
LEMMA FillIrps ==
    ASSUME NEW p \in Pipe_t, NEW q \in Pipe_t, FillStep(p, q), CanFill(p), RingWindows(p), IrpsOK(p)
    PROVE  IrpsOK(q)
  <1> DEFINE irp == Head(p.pending)
  <1>1. /\ p.fr_idx \in Idx /\ p.rd_idx \in Idx /\ p.wr_idx \in Idx
        /\ p.to_fill \in Nat /\ p.to_exec \in Nat /\ p.to_parse \in Nat
        /\ p.to_fill > 0
        /\ p.buf \in [Idx -> Irp \union {NoIrp}]
        /\ p.irp_state \in [Irp -> IrpState]
        /\ p.pending \in Seq(Irp) /\ p.pending # << >>
    BY NumBuffersAssumption DEF Pipe_t, CanFill
  <1>2. /\ irp \in Irp /\ irp = p.pending[1] /\ 1 \in 1 .. Len(p.pending)
        /\ Len(q.pending) = Len(p.pending) - 1
        /\ Len(q.pending) \in Nat
        /\ \A k \in 1 .. Len(q.pending) : q.pending[k] = p.pending[k + 1] /\ k + 1 \in 1 .. Len(p.pending)
    BY <1>1 DEF FillStep
  <1>3. p.irp_state[irp] = "PENDING"
    BY <1>2 DEF IrpsOK, PendingOK
  <1>4. \A j \in Idx : p.buf[j] # irp
    BY <1>2, <1>3 DEF IrpsOK, InFlightOK
  <1>5. p.buf[p.wr_idx] = NoIrp
    <2>1. p.to_parse + p.to_exec \in Nat /\ p.to_parse + p.to_exec < NumBuffers
      BY <1>1, WindowEnd DEF RingWindows
    <2>2. p.wr_idx = Plus(p.fr_idx, p.to_parse + p.to_exec)
      BY WindowEnd DEF RingWindows
    <2>3. Dist(p.fr_idx, p.wr_idx) = p.to_parse + p.to_exec
      BY <1>1, <2>1, <2>2, DistIsPlus
    <2> QED BY <1>1, <2>1, <2>3 DEF RingWindows, Occupied, Filled
  <1>6. \A i \in Irp : q.irp_state[i] = IF i = irp THEN "INFLIGHT" ELSE p.irp_state[i]
    BY <1>1, <1>2 DEF FillStep
  <1>7. \A j \in Idx : q.buf[j] = IF j = p.wr_idx THEN irp ELSE p.buf[j]
    BY <1>1 DEF FillStep
  <1> HIDE DEF irp
  <1>8. PendingOK(q)
    <2>1. \A k, l \in 1 .. Len(q.pending) : q.pending[k] = q.pending[l] => k = l
      BY <1>2 DEF IrpsOK, PendingOK
    <2>2. ASSUME NEW i \in Irp
          PROVE  q.irp_state[i] = "PENDING" <=> \E k \in 1 .. Len(q.pending) : q.pending[k] = i
      <3>1. CASE i = irp
        BY <3>1, <1>2, <1>6 DEF IrpsOK, PendingOK
      <3>2. CASE i # irp
        <4>1. q.irp_state[i] = p.irp_state[i] BY <3>2, <1>6
        <4>2. ASSUME NEW k \in 1 .. Len(p.pending), p.pending[k] = i
              PROVE  k - 1 \in 1 .. Len(q.pending) /\ q.pending[k - 1] = i
          BY <4>2, <3>2, <1>1, <1>2
        <4> QED BY <4>1, <4>2, <1>2 DEF IrpsOK, PendingOK
      <3> QED BY <3>1, <3>2
    <2> QED BY <2>1, <2>2 DEF PendingOK
  <1>9. InFlightOK(q)
    BY <1>1, <1>2, <1>3, <1>4, <1>5, <1>6, <1>7, IrpAssumption DEF IrpsOK, InFlightOK
  <1>10. DoneOK(q)
    BY <1>3, <1>6 DEF IrpsOK, DoneOK, FillStep
  <1> QED BY <1>8, <1>9, <1>10 DEF IrpsOK

-----------------------------------------------------------------------------
(* _buffer_done and _buffer_done_error: the buffer at rd_idx gets its result *)

\* Field by field, what marking the buffer at rd_idx as done does to the pipe p.
DoneStep(p, q) ==
    /\ \E res \in Status : q.result = [p.result EXCEPT ![p.rd_idx] = res]
    /\ q.rd_idx = Inc(p.rd_idx) /\ q.wr_idx = p.wr_idx /\ q.fr_idx = p.fr_idx
    /\ q.to_exec = p.to_exec - 1 /\ q.to_parse = p.to_parse + 1 /\ q.to_fill = p.to_fill
    /\ ~q.executing
    /\ q.pending = p.pending /\ q.buf = p.buf /\ q.done = p.done /\ q.irp_state = p.irp_state
    /\ q.is_active = p.is_active

\* A buffer that is done passes from the window to execute to the one to parse.
LEMMA DoneRing ==
    ASSUME NEW p \in Pipe_t, NEW q \in Pipe_t, DoneStep(p, q), p.to_exec > 0, RingWindows(p)
    PROVE  RingWindows(q)
  <1>1. /\ p.fr_idx \in Idx /\ p.rd_idx \in Idx /\ p.wr_idx \in Idx
        /\ p.to_fill \in Nat /\ p.to_exec \in Nat /\ p.to_parse \in Nat
        /\ p.result \in [Idx -> Status \union {"NONE"}]
    BY NumBuffersAssumption DEF Pipe_t
  <1>2. /\ p.to_parse < NumBuffers
        /\ p.to_exec - 1 \in Nat /\ p.to_exec - 1 < NumBuffers /\ (p.to_exec - 1) + 1 = p.to_exec
    BY <1>1, NumBuffersAssumption DEF RingWindows, Counted
  <1>3. Counted(q)
    BY <1>1 DEF RingWindows, Counted, DoneStep
  <1>4. Indexed(q)
    <2>1. q.rd_idx = Plus(q.fr_idx, q.to_parse)
      BY <1>1, <1>2, IncPlus DEF RingWindows, Indexed, DoneStep
    <2>2. Plus(Inc(p.rd_idx), p.to_exec - 1) = Plus(p.rd_idx, p.to_exec)
      BY <1>1, <1>2, IncPlus
    <2> QED BY <2>1, <2>2 DEF RingWindows, Indexed, DoneStep
  <1>5. Occupied(q)
    BY <1>1 DEF RingWindows, Occupied, Filled, DoneStep
  <1>6. Reported(q)
    <2>1. SUFFICES ASSUME NEW j \in Idx, q.result[j] # "NONE"
                   PROVE  Dist(p.fr_idx, j) < p.to_parse + 1
      BY DEF Reported, DoneStep
    <2>2. Dist(p.fr_idx, j) \in Nat
      BY <1>1, IdxClosed
    <2>3. CASE j = p.rd_idx
      BY <1>1, <1>2, <2>3, DistIsPlus DEF RingWindows, Indexed
    <2>4. CASE j # p.rd_idx
      BY <1>1, <2>1, <2>2, <2>4 DEF RingWindows, Reported, DoneStep
    <2> QED BY <2>3, <2>4
  <1> QED BY <1>3, <1>4, <1>5, <1>6 DEF RingWindows, DoneStep

\* No IRP moves when its buffer is marked as done.
LEMMA DoneIrps ==
    ASSUME NEW p, NEW q, DoneStep(p, q), IrpsOK(p)
    PROVE  IrpsOK(q)
BY DEF DoneStep, IrpsOK, PendingOK, InFlightOK, DoneOK

-----------------------------------------------------------------------------
(* The done queue: what is appended to it was not in it *)

\* q.done is p.done followed by the m IRPs of s.
Appended(p, q, n, m, s) ==
    /\ n \in Nat /\ m \in Nat
    /\ Len(p.done) = n
    /\ Len(q.done) = n + m
    /\ \A k \in 1 .. n : q.done[k].irp = p.done[k].irp
    /\ \A k \in 1 .. m : q.done[n + k].irp = s[k]
    /\ \A k \in 1 .. m : s[k] \in Irp /\ p.irp_state[s[k]] # "DONE"
    /\ \A k, l \in 1 .. m : s[k] = s[l] => k = l
    /\ \A i \in Irp : q.irp_state[i] = "DONE" <=>
           p.irp_state[i] = "DONE" \/ \E k \in 1 .. m : s[k] = i

\* IRPs that were elsewhere and are appended leave a consistent done queue.
LEMMA DoneAppended ==
    ASSUME NEW p, NEW q, NEW n, NEW m, NEW s, DoneOK(p), Appended(p, q, n, m, s)
    PROVE  DoneOK(q)
  <1> USE DEF Appended
  <1>1. \A k \in 1 .. n + m : k \in 1 .. n \/ (k - n \in 1 .. m /\ n + (k - n) = k)
    OBVIOUS
  <1>2. \A k \in 1 .. n : k \in 1 .. n + m
    OBVIOUS
  <1>3. \A k \in 1 .. m : n + k \in 1 .. n + m
    OBVIOUS
  <1>4. ASSUME NEW i \in Irp
        PROVE  q.irp_state[i] = "DONE" <=> \E k \in 1 .. Len(q.done) : q.done[k].irp = i
    <2>1. ASSUME q.irp_state[i] = "DONE"
          PROVE  \E k \in 1 .. n + m : q.done[k].irp = i
      <3>1. CASE p.irp_state[i] = "DONE"
        <4>1. PICK k \in 1 .. n : p.done[k].irp = i
          BY <3>1 DEF DoneOK
        <4> QED BY <4>1, <1>2
      <3>2. CASE \E k \in 1 .. m : s[k] = i
        <4>1. PICK k \in 1 .. m : s[k] = i
          BY <3>2
        <4>2. q.done[n + k].irp = i /\ n + k \in 1 .. n + m
          BY <4>1, <1>3
        <4> QED BY <4>2
      <3> QED BY <2>1, <3>1, <3>2
    <2>2. ASSUME NEW k \in 1 .. n + m, q.done[k].irp = i
          PROVE  q.irp_state[i] = "DONE"
      <3>1. CASE k \in 1 .. n
        <4>1. p.done[k].irp = i
          BY <2>2, <3>1
        <4>2. p.irp_state[i] = "DONE"
          BY <3>1, <4>1 DEF DoneOK
        <4> QED BY <4>2
      <3>2. CASE k - n \in 1 .. m /\ n + (k - n) = k
        <4>1. s[k - n] = i
          BY <2>2, <3>2
        <4> QED BY <3>2, <4>1
      <3> QED BY <1>1, <3>1, <3>2
    <2> QED BY <2>1, <2>2
  <1>5. ASSUME NEW k \in 1 .. n + m, NEW l \in 1 .. n + m, q.done[k].irp = q.done[l].irp
        PROVE  k = l
    <2>1. CASE k \in 1 .. n /\ l \in 1 .. n
      BY <1>5, <2>1 DEF DoneOK
    <2>2. CASE k \in 1 .. n /\ l - n \in 1 .. m
      <3>1. q.done[l].irp = s[l - n]
        BY <1>1, <2>2
      <3>2. p.done[k].irp = s[l - n]
        BY <1>5, <2>2, <3>1
      <3>3. p.irp_state[s[l - n]] = "DONE"
        BY <2>2, <3>2 DEF DoneOK
      <3> QED BY <2>2, <3>3
    <2>3. CASE l \in 1 .. n /\ k - n \in 1 .. m
      <3>1. q.done[k].irp = s[k - n]
        BY <1>1, <2>3
      <3>2. p.done[l].irp = s[k - n]
        BY <1>5, <2>3, <3>1
      <3>3. p.irp_state[s[k - n]] = "DONE"
        BY <2>3, <3>2 DEF DoneOK
      <3> QED BY <2>3, <3>3
    <2>4. CASE k - n \in 1 .. m /\ l - n \in 1 .. m
      <3>1. q.done[k].irp = s[k - n] /\ q.done[l].irp = s[l - n]
        <4>1. n + (k - n) = k /\ n + (l - n) = l
          BY <1>1, <1>5
        <4>2. q.done[n + (k - n)].irp = s[k - n] /\ q.done[n + (l - n)].irp = s[l - n]
          BY <2>4
        <4> QED BY <4>1, <4>2
      <3>2. s[k - n] = s[l - n]
        BY <1>5, <3>1
      <3>3. k - n = l - n
        BY <2>4, <3>2
      <3> QED BY <3>3
    <2> QED BY <1>1, <2>1, <2>2, <2>3, <2>4
  <1> QED BY <1>4, <1>5 DEF DoneOK

\* The same for one IRP.
LEMMA OneAppended ==
    ASSUME NEW p, NEW q, NEW irp \in Irp, NEW st,
           DoneOK(p),
           p.done \in Seq(DoneIrp),
           p.irp_state[irp] # "DONE",
           q.done = Append(p.done, [irp |-> irp, status |-> st]),
           \A i \in Irp : q.irp_state[i] = "DONE" <=> p.irp_state[i] = "DONE" \/ i = irp
    PROVE  DoneOK(q)
  <1> DEFINE n == Len(p.done)
  <1>1. /\ n \in Nat
        /\ Len(q.done) = n + 1
        /\ \A k \in 1 .. n : q.done[k] = p.done[k]
        /\ q.done[n + 1].irp = irp
    OBVIOUS
  <1> HIDE DEF n
  <1>2. \A k \in 1 .. n : k \in 1 .. n + 1 /\ p.done[k].irp # irp
    BY <1>1 DEF DoneOK, n
  <1>3. \A k \in 1 .. n + 1 : k \in 1 .. n \/ k = n + 1
    BY <1>1
  <1>4. n + 1 \in 1 .. n + 1
    BY <1>1
  <1>5. ASSUME NEW i \in Irp
        PROVE  q.irp_state[i] = "DONE" <=> \E k \in 1 .. n + 1 : q.done[k].irp = i
    <2>1. p.irp_state[i] = "DONE" <=> \E k \in 1 .. n : p.done[k].irp = i
      BY DEF DoneOK, n
    <2> QED BY <1>1, <1>2, <1>3, <1>4, <2>1
  <1>6. ASSUME NEW k \in 1 .. n + 1, NEW l \in 1 .. n + 1, q.done[k].irp = q.done[l].irp
        PROVE  k = l
    <2>1. \A x, y \in 1 .. n : p.done[x].irp = p.done[y].irp => x = y
      BY DEF DoneOK, n
    <2> QED BY <1>1, <1>2, <1>3, <1>6, <2>1
  <1> QED BY <1>1, <1>5, <1>6 DEF DoneOK

-----------------------------------------------------------------------------
(* _buffer_parse: the buffer at fr_idx is emptied into the done queue *)

\* Field by field, what parsing the buffer at fr_idx does to the pipe p.
ParseStep(p, q) ==
    /\ q.irp_state = [p.irp_state EXCEPT ![p.buf[p.fr_idx]] = "DONE"]
    /\ q.buf = [p.buf EXCEPT ![p.fr_idx] = NoIrp]
    /\ q.result = [p.result EXCEPT ![p.fr_idx] = "NONE"]
    /\ q.done = Append(p.done, [irp |-> p.buf[p.fr_idx], status |-> p.result[p.fr_idx]])
    /\ q.fr_idx = Inc(p.fr_idx) /\ q.rd_idx = p.rd_idx /\ q.wr_idx = p.wr_idx
    /\ q.to_parse = p.to_parse - 1 /\ q.to_fill = p.to_fill + 1 /\ q.to_exec = p.to_exec
    /\ q.executing = p.executing /\ q.pending = p.pending
    /\ q.state = p.state /\ q.chan_busy = p.chan_busy /\ q.is_active = p.is_active

\* The buffer to parse holds an IRP.
LEMMA ParseIrp ==
    ASSUME NEW p \in Pipe_t, p.to_parse > 0, RingWindows(p)
    PROVE  p.buf[p.fr_idx] \in Irp
  <1>1. p.fr_idx \in Idx /\ p.to_parse \in Nat /\ p.to_exec \in Nat /\ p.buf \in [Idx -> Irp \union {NoIrp}]
    BY NumBuffersAssumption DEF Pipe_t
  <1>2. Dist(p.fr_idx, p.fr_idx) = 0
    BY <1>1, DistPlus
  <1>3. p.buf[p.fr_idx] # NoIrp
    BY <1>1, <1>2 DEF RingWindows, Occupied, Filled
  <1> QED BY <1>1, <1>3

\* _buffer_parse keeps the types, and is a ParseStep.
LEMMA ParseFields ==
    ASSUME NEW p \in Pipe_t, p.to_parse > 0, RingWindows(p), p.result[p.fr_idx] # "NONE"
    PROVE  BufferParse(p) \in Pipe_t /\ ParseStep(p, BufferParse(p))
  <1> DEFINE irp == p.buf[p.fr_idx]
             st == [p.irp_state EXCEPT ![irp] = "DONE"]
             buf == [p.buf EXCEPT ![p.fr_idx] = NoIrp]
             res == [p.result EXCEPT ![p.fr_idx] = "NONE"]
             stg == [p.cur_stg EXCEPT ![p.fr_idx] = 0]
             don == Append(p.done, [irp |-> irp, status |-> p.result[p.fr_idx]])
             fr == Inc(p.fr_idx)
             tp == p.to_parse - 1
             tf == p.to_fill + 1
  <1>1. /\ p.to_fill \in 0 .. NumBuffers /\ p.to_exec \in 0 .. NumBuffers
        /\ p.to_parse \in 0 .. NumBuffers
        /\ p.fr_idx \in Idx
        /\ p.buf \in [Idx -> Irp \union {NoIrp}]
        /\ p.result \in [Idx -> Status \union {"NONE"}]
        /\ p.cur_stg \in [Idx -> 0 .. 2]
        /\ p.irp_state \in [Irp -> IrpState]
        /\ p.done \in Seq(DoneIrp)
    BY DEF Pipe_t
  <1>2. irp \in Irp
    BY ParseIrp
  <1>3. tp \in 0 .. NumBuffers /\ tf \in 0 .. NumBuffers
    BY <1>1, NumBuffersAssumption DEF RingWindows, Counted
  <1>4. fr \in Idx
    BY <1>1, IdxClosed
  <1>5. st \in [Irp -> IrpState]
    BY <1>1 DEF IrpState
  <1>6. buf \in [Idx -> Irp \union {NoIrp}] /\ res \in [Idx -> Status \union {"NONE"}]
    BY <1>1
  <1>7. stg \in [Idx -> 0 .. 2]
    BY <1>1
  <1>8. don \in Seq(DoneIrp)
    <2>1. p.result[p.fr_idx] \in Status
      BY <1>1
    <2>2. [irp |-> irp, status |-> p.result[p.fr_idx]] \in DoneIrp
      BY <1>2, <2>1 DEF DoneIrp
    <2> QED BY <1>1, <2>2
  <1>9. BufferParse(p) = [p EXCEPT !.irp_state = st, !.buf = buf, !.result = res, !.cur_stg = stg,
                                   !.done = don, !.fr_idx = fr, !.to_parse = tp, !.to_fill = tf]
    BY DEF BufferParse
  <1> HIDE DEF st, buf, res, stg, don, fr, tp, tf
  <1>10. BufferParse(p) \in Pipe_t
    <2> DEFINE half == [p EXCEPT !.irp_state = st, !.buf = buf, !.result = res, !.cur_stg = stg]
    <2>1. half \in Pipe_t
      BY <1>5, <1>6, <1>7 DEF Pipe_t
    <2> DEFINE more == [half EXCEPT !.done = don, !.fr_idx = fr]
    <2>2. BufferParse(p) = [more EXCEPT !.to_parse = tp, !.to_fill = tf]
      BY <1>9 DEF Pipe_t
    <2> HIDE DEF half
    <2>3. more \in Pipe_t
      BY <1>3, <1>4, <1>8, <2>1 DEF Pipe_t
    <2> HIDE DEF more
    <2> QED BY <1>3, <1>4, <2>2, <2>3 DEF Pipe_t
  <1>11. /\ BufferParse(p).irp_state = st
         /\ BufferParse(p).buf = buf
         /\ BufferParse(p).result = res
         /\ BufferParse(p).done = don
         /\ BufferParse(p).fr_idx = fr
         /\ BufferParse(p).to_parse = tp
         /\ BufferParse(p).to_fill = tf
    BY <1>9 DEF Pipe_t
  <1> QED BY <1>9, <1>10, <1>11 DEF Pipe_t, ParseStep, st, buf, res, stg, don, fr, tp, tf

\* A buffer that is parsed is free again.
LEMMA ParseRing ==
    ASSUME NEW p \in Pipe_t, NEW q \in Pipe_t, ParseStep(p, q), p.to_parse > 0, RingWindows(p)
    PROVE  RingWindows(q)
  <1>1. /\ p.fr_idx \in Idx /\ p.rd_idx \in Idx /\ p.wr_idx \in Idx
        /\ p.to_fill \in Nat /\ p.to_exec \in Nat /\ p.to_parse \in Nat
        /\ p.buf \in [Idx -> Irp \union {NoIrp}]
        /\ p.result \in [Idx -> Status \union {"NONE"}]
    BY NumBuffersAssumption DEF Pipe_t
  <1>2. /\ p.to_parse - 1 \in Nat /\ p.to_parse - 1 < NumBuffers /\ (p.to_parse - 1) + 1 = p.to_parse
        /\ p.to_parse + p.to_exec <= NumBuffers
    BY <1>1, NumBuffersAssumption DEF RingWindows, Counted
  <1>3. Counted(q)
    BY <1>1 DEF RingWindows, Counted, ParseStep
  <1>4. Indexed(q)
    <2>1. Plus(Inc(p.fr_idx), p.to_parse - 1) = Plus(p.fr_idx, p.to_parse)
      BY <1>1, <1>2, IncPlus
    <2> QED BY <2>1 DEF RingWindows, Indexed, ParseStep
  <1>5. ASSUME NEW j \in Idx
        PROVE  /\ q.buf[j] # NoIrp <=> Dist(q.fr_idx, j) < q.to_parse + q.to_exec
               /\ q.result[j] # "NONE" => Dist(q.fr_idx, j) < q.to_parse
    <2>1. CASE j = p.fr_idx
      <3>1. q.buf[j] = NoIrp /\ q.result[j] = "NONE"
        BY <1>1, <2>1 DEF ParseStep
      <3>2. Dist(q.fr_idx, j) = NumBuffers - 1
        BY <1>1, <2>1, DistInc DEF ParseStep
      <3> QED BY <1>1, <1>2, <3>1, <3>2, NumBuffersAssumption DEF ParseStep
    <2>2. CASE j # p.fr_idx
      <3>1. q.buf[j] = p.buf[j] /\ q.result[j] = p.result[j]
        BY <1>1, <2>2 DEF ParseStep
      <3>2. Dist(q.fr_idx, j) = Dist(p.fr_idx, j) - 1 /\ Dist(p.fr_idx, j) \in Nat
        <4>1. Dist(Inc(p.fr_idx), j) = Dist(p.fr_idx, j) - 1
          BY <1>1, <2>2, DistInc
        <4>2. Dist(p.fr_idx, j) \in Nat
          BY <1>1, IdxClosed
        <4> QED BY <4>1, <4>2 DEF ParseStep
      <3>3. /\ p.buf[j] # NoIrp <=> Dist(p.fr_idx, j) < p.to_parse + p.to_exec
            /\ p.result[j] # "NONE" => Dist(p.fr_idx, j) < p.to_parse
        BY DEF RingWindows, Occupied, Reported, Filled
      <3>4. q.to_parse = p.to_parse - 1 /\ q.to_exec = p.to_exec
        BY DEF ParseStep
      <3> QED BY <1>1, <3>1, <3>2, <3>3, <3>4
    <2> QED BY <2>1, <2>2
  <1>6. Occupied(q) /\ Reported(q)
    BY <1>5 DEF Occupied, Reported, Filled
  <1> QED BY <1>3, <1>4, <1>6 DEF RingWindows, ParseStep

\* The IRP of the parsed buffer is in the done queue, and nowhere else.
LEMMA ParseIrps ==
    ASSUME NEW p \in Pipe_t, NEW q \in Pipe_t, ParseStep(p, q), p.to_parse > 0, RingWindows(p), IrpsOK(p)
    PROVE  IrpsOK(q)
  <1> DEFINE irp == p.buf[p.fr_idx]
  <1>1. /\ p.fr_idx \in Idx
        /\ p.buf \in [Idx -> Irp \union {NoIrp}]
        /\ p.irp_state \in [Irp -> IrpState]
        /\ p.done \in Seq(DoneIrp)
    BY DEF Pipe_t
  <1>2. irp \in Irp
    BY ParseIrp
  <1>3. p.irp_state[irp] = "INFLIGHT"
    BY <1>1, <1>2 DEF IrpsOK, InFlightOK
  <1>4. \A i \in Irp : q.irp_state[i] = IF i = irp THEN "DONE" ELSE p.irp_state[i]
    BY <1>1, <1>2 DEF ParseStep
  <1>5. \A j \in Idx : q.buf[j] = IF j = p.fr_idx THEN NoIrp ELSE p.buf[j]
    BY <1>1 DEF ParseStep
  <1>6. PendingOK(q)
    BY <1>3, <1>4 DEF IrpsOK, PendingOK, ParseStep
  <1>7. InFlightOK(q)
    BY <1>1, <1>2, <1>3, <1>4, <1>5, IrpAssumption DEF IrpsOK, InFlightOK
  <1>8. DoneOK(q)
    <2>1. \A i \in Irp : q.irp_state[i] = "DONE" <=> p.irp_state[i] = "DONE" \/ i = irp
      BY <1>4
    <2>2. q.done = Append(p.done, [irp |-> irp, status |-> p.result[p.fr_idx]])
      BY DEF ParseStep
    <2> QED BY <1>1, <1>2, <1>3, <2>1, <2>2, OneAppended DEF IrpsOK
  <1> QED BY <1>6, <1>7, <1>8 DEF IrpsOK

-----------------------------------------------------------------------------
(* _buffer_flush_all and _pipe_retire *)

\* Both append finished IRPs to the done queue.
LEMMA FinishedSeq ==
    ASSUME NEW p \in Pipe_t, NEW n \in Nat, NEW s \in [1 .. n -> DoneIrp]
    PROVE  /\ p.done \o s \in Seq(DoneIrp)
           /\ Len(p.done) \in Nat
           /\ Len(p.done \o s) = Len(p.done) + n
           /\ \A k \in 1 .. Len(p.done) : (p.done \o s)[k] = p.done[k]
           /\ \A k \in 1 .. n : (p.done \o s)[Len(p.done) + k] = s[k]
  <1>1. p.done \in Seq(DoneIrp)
    BY DEF Pipe_t
  <1>2. s \in Seq(DoneIrp) /\ Len(s) = n
    OBVIOUS
  <1> QED BY <1>1, <1>2

\* Field by field, what flushing all buffers does to a pipe p with none to parse.
FlushStep(p, q) ==
    /\ \E s \in [1 .. p.to_exec -> DoneIrp] :
          /\ q.done = p.done \o s
          /\ \A k \in 1 .. p.to_exec : s[k].irp = p.buf[Plus(p.fr_idx, k - 1)]
    /\ q.irp_state = [i \in Irp |-> IF \E j \in Filled(p) : p.buf[j] = i
                                    THEN "DONE" ELSE p.irp_state[i]]
    /\ q.buf = [j \in Idx |-> IF j \in Filled(p) THEN NoIrp ELSE p.buf[j]]
    /\ q.result = [j \in Idx |-> IF j \in Filled(p) THEN "NONE" ELSE p.result[j]]
    /\ q.rd_idx = p.wr_idx /\ q.fr_idx = p.wr_idx /\ q.wr_idx = p.wr_idx
    /\ q.to_fill = p.to_fill + p.to_exec /\ q.to_exec = 0 /\ q.to_parse = 0
    /\ q.executing = IF p.to_exec > 0 THEN FALSE ELSE p.executing
    /\ q.pending = p.pending
    /\ q.state = p.state /\ q.chan_busy = p.chan_busy /\ q.is_active = p.is_active

\* The buffers to execute hold IRPs, each another one.
LEMMA ExecIrps ==
    ASSUME NEW p \in Pipe_t, RingOK(p), IrpsOK(p)
    PROVE  /\ \A k \in 1 .. p.to_exec : 
                 /\ Plus(p.fr_idx, k - 1) \in Filled(p)
                 /\ p.buf[Plus(p.fr_idx, k - 1)] \in Irp
           /\ \A j \in Filled(p) : /\ Dist(p.fr_idx, j) + 1 \in 1 .. p.to_exec
                                   /\ Plus(p.fr_idx, (Dist(p.fr_idx, j) + 1) - 1) = j
           /\ \A k, l \in 1 .. p.to_exec :
                 p.buf[Plus(p.fr_idx, k - 1)] = p.buf[Plus(p.fr_idx, l - 1)] => k = l
  <1>1. /\ p.fr_idx \in Idx /\ p.to_parse = 0 /\ p.to_exec \in Nat /\ p.to_exec <= NumBuffers
        /\ p.buf \in [Idx -> Irp \union {NoIrp}]
    BY NumBuffersAssumption DEF Pipe_t, RingOK
  <1>2. ASSUME NEW k \in 1 .. p.to_exec
        PROVE  /\ Plus(p.fr_idx, k - 1) \in Idx
               /\ Dist(p.fr_idx, Plus(p.fr_idx, k - 1)) = k - 1
               /\ k - 1 < p.to_exec
    <2>1. k - 1 \in 0 .. NumBuffers /\ k - 1 \in 0 .. NumBuffers - 1 /\ k - 1 < p.to_exec
      BY <1>1, NumBuffersAssumption
    <2> QED BY <1>1, <2>1, IdxClosed, DistPlus
  <1>3. ASSUME NEW k \in 1 .. p.to_exec
        PROVE  /\ Plus(p.fr_idx, k - 1) \in Filled(p)
               /\ p.buf[Plus(p.fr_idx, k - 1)] \in Irp /\ p.buf[Plus(p.fr_idx, k - 1)] # NoIrp
    <2>1. Plus(p.fr_idx, k - 1) \in Filled(p)
      BY <1>1, <1>2 DEF Filled
    <2> QED BY <1>1, <1>2, <2>1 DEF RingOK, RingWindows, Occupied
  <1>4. ASSUME NEW j \in Filled(p)
        PROVE  /\ Dist(p.fr_idx, j) + 1 \in 1 .. p.to_exec
               /\ Plus(p.fr_idx, (Dist(p.fr_idx, j) + 1) - 1) = j
    <2>1. j \in Idx /\ Dist(p.fr_idx, j) < p.to_exec
      BY <1>1 DEF Filled
    <2>2. Dist(p.fr_idx, j) \in Nat /\ Plus(p.fr_idx, Dist(p.fr_idx, j)) = j
      BY <1>1, <2>1, IdxClosed, DistPlus
    <2>3. (Dist(p.fr_idx, j) + 1) - 1 = Dist(p.fr_idx, j)
      BY <2>2
    <2> QED BY <1>1, <2>1, <2>2, <2>3
  <1>5. ASSUME NEW k \in 1 .. p.to_exec, NEW l \in 1 .. p.to_exec,
               p.buf[Plus(p.fr_idx, k - 1)] = p.buf[Plus(p.fr_idx, l - 1)]
        PROVE  k = l
    <2>1. Plus(p.fr_idx, k - 1) = Plus(p.fr_idx, l - 1)
      BY <1>2, <1>3, <1>5 DEF IrpsOK, InFlightOK
    <2>2. k - 1 = l - 1
      BY <1>2, <2>1
    <2> QED BY <1>1, <2>2
  <1> QED BY <1>3, <1>4, <1>5

\* _buffer_flush_all keeps the types, and is a FlushStep.
LEMMA FlushFields ==
    ASSUME NEW p \in Pipe_t, RingOK(p), IrpsOK(p), NEW cancelled \in BOOLEAN,
           cancelled \/ p.state = "INVALID"
    PROVE  BufferFlushAll(p, cancelled) \in Pipe_t /\ FlushStep(p, BufferFlushAll(p, cancelled))
  <1> DEFINE n == p.to_parse + p.to_exec
             st == ErrorStatus(cancelled, p.state, p.last_event)
             s == [k \in 1 .. n |->
                      [irp |-> InFlight(p)[k],
                       status |-> IF k <= p.to_parse THEN p.result[Plus(p.fr_idx, k - 1)] ELSE st]]
             don == p.done \o s
             irs == [i \in Irp |-> IF \E j \in Filled(p) : p.buf[j] = i THEN "DONE" ELSE p.irp_state[i]]
             buf == [j \in Idx |-> IF j \in Filled(p) THEN NoIrp ELSE p.buf[j]]
             res == [j \in Idx |-> IF j \in Filled(p) THEN "NONE" ELSE p.result[j]]
             stg == [j \in Idx |-> IF j \in Filled(p) THEN 0 ELSE p.cur_stg[j]]
             tf == p.to_fill + n
             exe == IF p.to_exec > 0 THEN FALSE ELSE p.executing
  <1>1. /\ p.to_fill \in 0 .. NumBuffers /\ p.to_exec \in 0 .. NumBuffers /\ p.to_parse = 0
        /\ p.wr_idx \in Idx /\ p.executing \in BOOLEAN
        /\ p.buf \in [Idx -> Irp \union {NoIrp}]
        /\ p.result \in [Idx -> Status \union {"NONE"}]
        /\ p.cur_stg \in [Idx -> 0 .. 2]
        /\ p.irp_state \in [Irp -> IrpState]
        /\ p.to_fill + p.to_exec = NumBuffers
    BY NumBuffersAssumption DEF Pipe_t, RingOK, RingWindows, Counted
  <1>2. n = p.to_exec /\ n \in Nat
    BY <1>1
  <1>3. st \in Status
    BY DEF ErrorStatus, Status
  <1>4. \A k \in 1 .. n : /\ InFlight(p)[k] = p.buf[Plus(p.fr_idx, k - 1)]
                          /\ InFlight(p)[k] \in Irp
                          /\ ~(k <= p.to_parse)
    BY <1>1, <1>2, ExecIrps DEF InFlight
  <1>5. s \in [1 .. n -> DoneIrp] /\ \A k \in 1 .. n : s[k].irp = p.buf[Plus(p.fr_idx, k - 1)]
    <2>1. ASSUME NEW k \in 1 .. n
          PROVE  [irp |-> InFlight(p)[k],
                  status |-> IF k <= p.to_parse THEN p.result[Plus(p.fr_idx, k - 1)] ELSE st] \in DoneIrp
      BY <1>3, <1>4 DEF DoneIrp
    <2> QED BY <1>4, <2>1
  <1>6. don \in Seq(DoneIrp)
    BY <1>2, <1>5, FinishedSeq
  <1>7. irs \in [Irp -> IrpState]
    BY <1>1 DEF IrpState
  <1>8. buf \in [Idx -> Irp \union {NoIrp}] /\ res \in [Idx -> Status \union {"NONE"}]
    BY <1>1
  <1>9. stg \in [Idx -> 0 .. 2]
    BY <1>1
  <1>10. tf \in 0 .. NumBuffers /\ exe \in BOOLEAN /\ 0 \in 0 .. NumBuffers
    <2>1. exe \in BOOLEAN
      BY <1>1
    <2>2. tf = NumBuffers
      BY <1>1, <1>2
    <2>3. NumBuffers \in 0 .. NumBuffers /\ 0 \in 0 .. NumBuffers
      BY NumBuffersAssumption
    <2> QED BY <2>1, <2>2, <2>3
  <1>11. BufferFlushAll(p, cancelled) =
             [p EXCEPT !.done = don, !.irp_state = irs, !.buf = buf, !.result = res, !.cur_stg = stg,
                       !.rd_idx = p.wr_idx, !.fr_idx = p.wr_idx, !.to_fill = tf, !.to_exec = 0,
                       !.to_parse = 0, !.executing = exe]
    BY DEF BufferFlushAll
  <1>12. don = p.done \o s
    OBVIOUS
  <1> HIDE DEF n, st, s, don, irs, buf, res, stg, tf, exe
  <1>13. BufferFlushAll(p, cancelled) \in Pipe_t
    <2> DEFINE half == [p EXCEPT !.done = don, !.irp_state = irs, !.buf = buf, !.result = res,
                                 !.cur_stg = stg]
               more == [half EXCEPT !.rd_idx = p.wr_idx, !.fr_idx = p.wr_idx]
               most == [more EXCEPT !.executing = exe, !.to_fill = tf]
    <2>1. half \in Pipe_t
      BY <1>6, <1>7, <1>8, <1>9 DEF Pipe_t
    <2>2. BufferFlushAll(p, cancelled) =
             [most EXCEPT !.to_exec = 0, !.to_parse = 0]
      BY <1>11 DEF Pipe_t
    <2> HIDE DEF half
    <2>3. p.wr_idx \in Idx
      BY <1>1
    <2>4. more \in Pipe_t
      BY <2>1, <2>3 DEF Pipe_t
    <2> HIDE DEF more
    <2>5. most \in Pipe_t
      BY <1>10, <2>4 DEF Pipe_t
    <2> HIDE DEF most
    <2> QED BY <1>10, <2>2, <2>5 DEF Pipe_t
  <1>14. /\ BufferFlushAll(p, cancelled).done = don
         /\ BufferFlushAll(p, cancelled).irp_state = irs
         /\ BufferFlushAll(p, cancelled).buf = buf
         /\ BufferFlushAll(p, cancelled).result = res
         /\ BufferFlushAll(p, cancelled).to_fill = tf
         /\ BufferFlushAll(p, cancelled).executing = exe
    BY <1>11 DEF Pipe_t
  <1>15. \E x \in [1 .. p.to_exec -> DoneIrp] :
             /\ BufferFlushAll(p, cancelled).done = p.done \o x
             /\ \A k \in 1 .. p.to_exec : x[k].irp = p.buf[Plus(p.fr_idx, k - 1)]
    BY <1>2, <1>5, <1>12, <1>14
  <1>16. tf = p.to_fill + p.to_exec
    BY <1>2 DEF tf
  <1> QED BY <1>11, <1>13, <1>14, <1>15, <1>16 DEF Pipe_t, FlushStep, irs, buf, res, exe

\* After a flush the ring is empty, and its IRPs are in the done queue.
LEMMA FlushSound ==
    ASSUME NEW p \in Pipe_t, NEW q \in Pipe_t, FlushStep(p, q), RingOK(p), IrpsOK(p)
    PROVE  RingOK(q) /\ IrpsOK(q)
  <1>1. /\ p.to_fill \in Nat /\ p.to_exec \in Nat /\ p.to_parse = 0
        /\ p.wr_idx \in Idx /\ p.fr_idx \in Idx
        /\ p.buf \in [Idx -> Irp \union {NoIrp}]
        /\ p.irp_state \in [Irp -> IrpState]
        /\ p.to_fill + p.to_exec = NumBuffers
    BY NumBuffersAssumption DEF Pipe_t, RingOK, RingWindows, Counted
  <1>2. \A j \in Idx : q.buf[j] = NoIrp
    BY DEF FlushStep, RingOK, RingWindows, Occupied
  <1>3. \A j \in Idx : q.result[j] = "NONE"
    <2>1. \A j \in Idx : Dist(p.fr_idx, j) \in Nat
      BY <1>1, IdxClosed
    <2>2. \A j \in Idx : p.result[j] = "NONE"
      BY <1>1, <2>1 DEF RingOK, RingWindows, Reported
    <2> QED BY <2>2 DEF FlushStep
  <1>4. RingOK(q)
    <2>1. Counted(q)
      BY <1>1 DEF Counted, FlushStep
    <2>2. Indexed(q)
      BY <1>1, IdxClosed DEF Indexed, FlushStep
    <2>3. Occupied(q)
      <3>1. \A j \in Idx : Dist(p.wr_idx, j) \in Nat
        BY <1>1, IdxClosed
      <3>2. \A j \in Idx : ~(Dist(p.wr_idx, j) < 0 + 0)
        BY <3>1
      <3> QED BY <1>2, <3>2 DEF Occupied, Filled, FlushStep
    <2>4. Reported(q)
      BY <1>3 DEF Reported
    <2>5. ~q.executing
      BY <1>1 DEF FlushStep, RingOK, RingWindows
    <2> QED BY <2>1, <2>2, <2>3, <2>4, <2>5 DEF RingOK, RingWindows, FlushStep
  <1>5. \A i \in Irp : q.irp_state[i] =
            IF p.irp_state[i] = "INFLIGHT" THEN "DONE" ELSE p.irp_state[i]
    <2>1. ASSUME NEW i \in Irp
          PROVE  (\E j \in Filled(p) : p.buf[j] = i) <=> p.irp_state[i] = "INFLIGHT"
      <3>1. \A j \in Filled(p) : j \in Idx
        BY DEF Filled
      <3>2. \A j \in Idx : p.buf[j] = i => j \in Filled(p)
        BY IrpAssumption DEF RingOK, RingWindows, Occupied
      <3> QED BY <3>1, <3>2 DEF IrpsOK, InFlightOK
    <2>2. \A i \in Irp : q.irp_state[i] = IF \E j \in Filled(p) : p.buf[j] = i
                                          THEN "DONE" ELSE p.irp_state[i]
      BY DEF FlushStep
    <2> QED BY <2>1, <2>2
  <1>6. PendingOK(q)
    BY <1>5 DEF FlushStep, IrpsOK, PendingOK
  <1>7. InFlightOK(q)
    BY <1>2, <1>5, IrpAssumption DEF InFlightOK
  <1>8. DoneOK(q)
    <2>1. PICK s \in [1 .. p.to_exec -> DoneIrp] :
              /\ q.done = p.done \o s
              /\ \A k \in 1 .. p.to_exec : s[k].irp = p.buf[Plus(p.fr_idx, k - 1)]
      BY DEF FlushStep
    <2> DEFINE n == Len(p.done)
               m == p.to_exec
               x == [k \in 1 .. m |-> p.buf[Plus(p.fr_idx, k - 1)]]
    <2>2. n \in Nat /\ m \in Nat
      BY <1>1, FinishedSeq
    <2>3. /\ Len(q.done) = n + m
          /\ \A k \in 1 .. n : q.done[k].irp = p.done[k].irp
          /\ \A k \in 1 .. m : q.done[n + k].irp = x[k]
      <3>1. /\ Len(p.done \o s) = n + m
            /\ \A k \in 1 .. n : (p.done \o s)[k] = p.done[k]
            /\ \A k \in 1 .. m : (p.done \o s)[n + k] = s[k]
        BY <2>2, FinishedSeq
      <3> HIDE DEF n, m
      <3> QED BY <2>1, <3>1 DEF m
    <2>4. \A k \in 1 .. m : x[k] \in Irp /\ p.irp_state[x[k]] = "INFLIGHT"
      BY ExecIrps DEF IrpsOK, InFlightOK, Filled
    <2>5. \A k, l \in 1 .. m : x[k] = x[l] => k = l
      BY ExecIrps
    <2>6. \A i \in Irp : q.irp_state[i] = "DONE" <=>
              p.irp_state[i] = "DONE" \/ \E k \in 1 .. m : x[k] = i
      <3>1. \A i \in Irp : p.irp_state[i] = "INFLIGHT" <=> \E j \in Filled(p) : p.buf[j] = i
        BY IrpAssumption DEF RingOK, RingWindows, Occupied, Filled, IrpsOK, InFlightOK
      <3>2. ASSUME NEW i \in Irp, NEW j \in Filled(p), p.buf[j] = i
            PROVE  \E k \in 1 .. m : x[k] = i
        <4>1. /\ Dist(p.fr_idx, j) + 1 \in 1 .. m
              /\ Plus(p.fr_idx, (Dist(p.fr_idx, j) + 1) - 1) = j
          BY ExecIrps
        <4> QED BY <3>2, <4>1
      <3>3. \A i \in Irp : p.irp_state[i] = "INFLIGHT" => \E k \in 1 .. m : x[k] = i
        BY <3>1, <3>2
      <3> QED BY <1>5, <2>4, <3>3
    <2>7. \A k \in 1 .. m : x[k] \in Irp /\ p.irp_state[x[k]] # "DONE"
      BY <2>4
    <2>8. DoneOK(p)
      BY DEF IrpsOK
    <2> HIDE DEF n, m, x
    <2>9. Len(p.done) = n
      BY DEF n
    <2>10. Appended(p, q, n, m, x)
      BY <2>2, <2>3, <2>5, <2>6, <2>7, <2>9 DEF Appended
    <2> QED BY <2>8, <2>10, DoneAppended
  <1> QED BY <1>4, <1>6, <1>7, <1>8 DEF IrpsOK

\* Field by field, what retiring the pending IRPs does to the pipe p.
RetireStep(p, q) ==
    /\ \E s \in [1 .. Len(p.pending) -> DoneIrp] :
          /\ q.done = p.done \o s
          /\ \A k \in 1 .. Len(p.pending) : s[k].irp = p.pending[k]
    /\ q.irp_state = [i \in Irp |-> IF \E k \in 1 .. Len(p.pending) : p.pending[k] = i
                                    THEN "DONE" ELSE p.irp_state[i]]
    /\ q.pending = << >>
    /\ q.buf = p.buf /\ q.result = p.result
    /\ q.rd_idx = p.rd_idx /\ q.fr_idx = p.fr_idx /\ q.wr_idx = p.wr_idx
    /\ q.to_fill = p.to_fill /\ q.to_exec = p.to_exec /\ q.to_parse = p.to_parse
    /\ q.executing = p.executing
    /\ q.state = p.state /\ q.chan_busy = p.chan_busy /\ q.is_active = p.is_active

\* _pipe_retire keeps the types, and is a RetireStep.
LEMMA RetireFields ==
    ASSUME NEW p \in Pipe_t, NEW self_initiated \in BOOLEAN
    PROVE  Retire(p, self_initiated) \in Pipe_t /\ RetireStep(p, Retire(p, self_initiated))
  <1> DEFINE n == Len(p.pending)
             st == IF self_initiated THEN "CANCELED" ELSE "NO_DEVICE"
             s == [k \in 1 .. n |-> [irp |-> p.pending[k], status |-> st]]
             don == p.done \o s
             irs == [i \in Irp |-> IF \E k \in 1 .. Len(p.pending) : p.pending[k] = i
                                   THEN "DONE" ELSE p.irp_state[i]]
  <1>1. /\ p.pending \in Seq(Irp) /\ n \in Nat
        /\ \A k \in 1 .. n : p.pending[k] \in Irp
        /\ p.irp_state \in [Irp -> IrpState]
    BY DEF Pipe_t
  <1>2. st \in Status
    BY DEF Status
  <1>3. s \in [1 .. n -> DoneIrp] /\ \A k \in 1 .. n : s[k].irp = p.pending[k]
    BY <1>1, <1>2 DEF DoneIrp
  <1>4. don \in Seq(DoneIrp)
    BY <1>1, <1>3, FinishedSeq
  <1>5. irs \in [Irp -> IrpState]
    BY <1>1 DEF IrpState
  <1>6. Retire(p, self_initiated) = [p EXCEPT !.done = don, !.irp_state = irs, !.pending = << >>]
    BY DEF Retire
  <1>7. \E x \in [1 .. Len(p.pending) -> DoneIrp] :
            /\ don = p.done \o x
            /\ \A k \in 1 .. Len(p.pending) : x[k].irp = p.pending[k]
    BY <1>3
  <1>8. << >> \in Seq(Irp)
    OBVIOUS
  <1> HIDE DEF don, irs
  <1>9. Retire(p, self_initiated) \in Pipe_t
    BY <1>4, <1>5, <1>6, <1>8 DEF Pipe_t
  <1>10. Retire(p, self_initiated).done = don
    BY <1>6 DEF Pipe_t
  <1> QED BY <1>6, <1>7, <1>9, <1>10 DEF Pipe_t, RetireStep, irs

\* After it the pending IRPs are in the done queue.
LEMMA RetireSound ==
    ASSUME NEW p \in Pipe_t, NEW q \in Pipe_t, RetireStep(p, q), RingOK(p), IrpsOK(p)
    PROVE  RingOK(q) /\ IrpsOK(q)
  <1>1. RingOK(q)
    BY DEF RetireStep, RingOK, RingWindows, Counted, Indexed, Occupied, Reported, Filled
  <1>2. /\ Len(p.pending) \in Nat
        /\ \A k \in 1 .. Len(p.pending) : p.pending[k] \in Irp
    BY DEF Pipe_t
  <1>3. \A i \in Irp : q.irp_state[i] =
            IF p.irp_state[i] = "PENDING" THEN "DONE" ELSE p.irp_state[i]
    <2>1. \A i \in Irp : p.irp_state[i] = "PENDING" <=> \E k \in 1 .. Len(p.pending) : p.pending[k] = i
      BY DEF IrpsOK, PendingOK
    <2>2. \A i \in Irp : q.irp_state[i] = IF \E k \in 1 .. Len(p.pending) : p.pending[k] = i
                                          THEN "DONE" ELSE p.irp_state[i]
      BY DEF RetireStep
    <2> QED BY <2>1, <2>2
  <1>4. PendingOK(q)
    <2>1. Len(q.pending) = 0 /\ \A k \in 1 .. 0 : FALSE
      BY DEF RetireStep
    <2> QED BY <1>3, <2>1 DEF PendingOK
  <1>5. InFlightOK(q)
    BY <1>3 DEF RetireStep, IrpsOK, InFlightOK
  <1>6. DoneOK(q)
    <2>1. PICK s \in [1 .. Len(p.pending) -> DoneIrp] :
              /\ q.done = p.done \o s
              /\ \A k \in 1 .. Len(p.pending) : s[k].irp = p.pending[k]
      BY DEF RetireStep
    <2> DEFINE n == Len(p.done)
               m == Len(p.pending)
               x == p.pending
    <2>2. n \in Nat /\ m \in Nat
      BY <1>2, <2>1, FinishedSeq
    <2>3. /\ Len(q.done) = n + m
          /\ \A k \in 1 .. n : q.done[k].irp = p.done[k].irp
          /\ \A k \in 1 .. m : q.done[n + k].irp = x[k]
      <3> DEFINE d == p.done \o s
      <3>1. /\ Len(d) = n + m
            /\ \A k \in 1 .. n : d[k] = p.done[k]
            /\ \A k \in 1 .. m : d[n + k] = s[k]
        BY <2>2, FinishedSeq
      <3> HIDE DEF d
      <3>2. q.done = d
        BY <2>1 DEF d
      <3> QED BY <2>1, <3>1, <3>2
    <2>4. \A k \in 1 .. m : x[k] \in Irp /\ p.irp_state[x[k]] = "PENDING"
      BY <1>2 DEF IrpsOK, PendingOK
    <2>5. \A k, l \in 1 .. m : x[k] = x[l] => k = l
      BY DEF IrpsOK, PendingOK
    <2>6. \A i \in Irp : q.irp_state[i] = "DONE" <=>
              p.irp_state[i] = "DONE" \/ \E k \in 1 .. m : x[k] = i
      BY <1>3 DEF IrpsOK, PendingOK
    <2>7. \A k \in 1 .. m : x[k] \in Irp /\ p.irp_state[x[k]] # "DONE"
      BY <2>4
    <2>8. DoneOK(p)
      BY DEF IrpsOK
    <2> HIDE DEF n, m, x
    <2>9. Len(p.done) = n
      BY DEF n
    <2>10. Appended(p, q, n, m, x)
      BY <2>2, <2>3, <2>5, <2>6, <2>7, <2>9 DEF Appended
    <2> QED BY <2>8, <2>10, DoneAppended
  <1> QED BY <1>1, <1>4, <1>5, <1>6 DEF IrpsOK

-----------------------------------------------------------------------------
(* Whole steps of a pipe *)

\* What holds of a pipe whenever hcd_lock is free.
Sound(p) ==
    /\ p \in Pipe_t
    /\ RingOK(p)
    /\ IrpsOK(p)
    /\ p.state = "INVALID" => Flushed(p)

\* The IRPs that the pipe holds, and what lists it belongs to, do not change.
SameIrps(p, q) ==
    /\ q.is_active = p.is_active
    /\ \A i \in Irp : q.irp_state[i] = "IDLE" <=> p.irp_state[i] = "IDLE"
    /\ p.state = "INVALID" => q.state = "INVALID"

\* A step that takes or gives back no IRP, and flushes no buffer in flight.
Follows(p, q) == Sound(q) /\ SameIrps(p, q) /\ (Stray(q) => Stray(p))

\* A pipe that holds nothing is one whose IRPs are all idle.
LEMMA HoldsNothingIffIdle ==
    ASSUME NEW p, Sound(p)
    PROVE  HoldsNothing(p) <=> \A i \in Irp : p.irp_state[i] = "IDLE"
  <1>1. /\ p.irp_state \in [Irp -> IrpState]
        /\ p.buf \in [Idx -> Irp \union {NoIrp}]
        /\ p.pending \in Seq(Irp) /\ p.done \in Seq(DoneIrp)
        /\ p.to_exec \in Nat /\ p.to_parse = 0 /\ p.fr_idx \in Idx
    BY NumBuffersAssumption DEF Sound, Pipe_t, RingOK
  <1>2. ASSUME HoldsNothing(p), NEW i \in Irp
        PROVE  p.irp_state[i] = "IDLE"
    <2>1. p.irp_state[i] # "PENDING" /\ p.irp_state[i] # "DONE"
      BY <1>1, <1>2 DEF HoldsNothing, Sound, IrpsOK, PendingOK, DoneOK
    <2>2. p.irp_state[i] # "INFLIGHT"
      <3>1. \A j \in Idx : ~(Dist(p.fr_idx, j) < 0 + 0)
        <4>1. \A j \in Idx : Dist(p.fr_idx, j) \in Nat
          BY <1>1, IdxClosed
        <4> QED BY <4>1
      <3>2. \A j \in Idx : p.buf[j] = NoIrp
        BY <1>2, <3>1 DEF HoldsNothing, Sound, RingOK, RingWindows, Occupied, Filled
      <3> QED BY <3>2, IrpAssumption DEF Sound, IrpsOK, InFlightOK
    <2> QED BY <1>1, <2>1, <2>2 DEF IrpState
  <1>3. ASSUME \A i \in Irp : p.irp_state[i] = "IDLE"
        PROVE  HoldsNothing(p)
    <2>1. p.pending = << >>
      <3>1. SUFFICES ASSUME p.pending # << >> PROVE FALSE
        OBVIOUS
      <3>2. 1 \in 1 .. Len(p.pending) /\ p.pending[1] \in Irp
        BY <1>1, <3>1
      <3> QED BY <1>3, <3>2 DEF Sound, IrpsOK, PendingOK
    <2>2. p.done = << >>
      <3>1. SUFFICES ASSUME p.done # << >> PROVE FALSE
        OBVIOUS
      <3>2. 1 \in 1 .. Len(p.done) /\ p.done[1] \in DoneIrp
        BY <1>1, <3>1
      <3>3. p.done[1].irp \in Irp
        BY <3>2 DEF DoneIrp
      <3> QED BY <1>3, <3>2, <3>3 DEF Sound, IrpsOK, DoneOK
    <2>3. p.to_exec = 0
      <3>1. SUFFICES ASSUME p.to_exec > 0 PROVE FALSE
        BY <1>1
      <3>2. Dist(p.fr_idx, p.fr_idx) = 0
        BY <1>1, DistPlus
      <3>3. p.buf[p.fr_idx] # NoIrp
        BY <1>1, <3>1, <3>2 DEF Sound, RingOK, RingWindows, Occupied, Filled
      <3>4. p.buf[p.fr_idx] \in Irp
        BY <1>1, <3>3
      <3> QED BY <1>1, <1>3, <3>4 DEF Sound, IrpsOK, InFlightOK
    <2> QED BY <1>1, <2>1, <2>2, <2>3 DEF HoldsNothing
  <1> QED BY <1>2, <1>3

\* A new pipe is sound, and holds nothing.
LEMMA NewPipeSound ==
    ASSUME NEW c \in BOOLEAN
    PROVE  /\ Sound(NewPipe(c))
           /\ ~NewPipe(c).is_active
           /\ ~Stray(NewPipe(c))
           /\ HoldsNothing(NewPipe(c))
           /\ \A i \in Irp : NewPipe(c).irp_state[i] = "IDLE"
           /\ NewPipe(c).state = "ACTIVE"
  <1> DEFINE p == NewPipe(c)
  <1>1. /\ [i \in Irp |-> "IDLE"] \in [Irp -> IrpState]
        /\ [j \in Idx |-> NoIrp] \in [Idx -> Irp \union {NoIrp}]
        /\ [j \in Idx |-> "NONE"] \in [Idx -> Status \union {"NONE"}]
        /\ [j \in Idx |-> 0] \in [Idx -> 0 .. 2]
        /\ 0 \in Idx /\ 0 \in 0 .. NumBuffers /\ NumBuffers \in 0 .. NumBuffers
    BY NumBuffersAssumption DEF IrpState, Idx
  <1>2. << >> \in Seq(Irp) /\ << >> \in Seq(DoneIrp)
    OBVIOUS
  <1>3. p \in Pipe_t
    BY <1>1, <1>2 DEF NewPipe, Pipe_t, PipeState, PipeEvent
  <1>4. /\ p.pending = << >> /\ p.done = << >>
        /\ p.to_exec = 0 /\ p.to_parse = 0 /\ p.to_fill = NumBuffers
        /\ p.rd_idx = 0 /\ p.wr_idx = 0 /\ p.fr_idx = 0
        /\ ~p.executing /\ ~p.chan_busy /\ ~p.is_active /\ p.state = "ACTIVE"
        /\ \A i \in Irp : p.irp_state[i] = "IDLE"
        /\ \A j \in Idx : p.buf[j] = NoIrp /\ p.result[j] = "NONE"
    BY DEF NewPipe
  <1> HIDE DEF p
  <1>5. RingOK(p)
    <2>1. Counted(p)
      BY <1>4, NumBuffersAssumption DEF Counted
    <2>2. Indexed(p)
      BY <1>1, <1>4, IdxClosed DEF Indexed
    <2>3. \A j \in Idx : ~(Dist(0, j) < 0 + 0)
      BY <1>1, IdxClosed
    <2>4. Occupied(p) /\ Reported(p)
      BY <1>4, <2>3 DEF Occupied, Reported, Filled
    <2> QED BY <1>4, <2>1, <2>2, <2>4 DEF RingOK, RingWindows
  <1>6. IrpsOK(p)
    BY <1>4, IrpAssumption DEF IrpsOK, PendingOK, InFlightOK, DoneOK
  <1> QED BY <1>3, <1>4, <1>5, <1>6 DEF Sound, Stray, HoldsNothing, p

\* Only the flags that say who waits and what the channel does have changed.
SameRing(p, q) ==
    /\ q.pending = p.pending /\ q.done = p.done /\ q.irp_state = p.irp_state
    /\ q.buf = p.buf /\ q.result = p.result
    /\ q.to_fill = p.to_fill /\ q.to_exec = p.to_exec /\ q.to_parse = p.to_parse
    /\ q.wr_idx = p.wr_idx /\ q.rd_idx = p.rd_idx /\ q.fr_idx = p.fr_idx
    /\ q.is_active = p.is_active

\* A step that changes flags only is a step of the pipe, if it invalidates no pipe
\* that still holds something back and starts no channel without a buffer.
LEMMA SameRingSound ==
    ASSUME NEW p, NEW q \in Pipe_t, Sound(p), SameRing(p, q),
           q.executing => p.executing,
           q.state = "INVALID" => Flushed(p),
           p.state = "INVALID" => q.state = "INVALID",
           q.chan_busy => q.executing \/ (p.chan_busy /\ ~p.executing)
    PROVE  Follows(p, q)
  <1>1. RingOK(q)
    BY DEF SameRing, Sound, RingOK, RingWindows, Counted, Indexed, Occupied, Reported, Filled
  <1>2. IrpsOK(q)
    BY DEF SameRing, Sound, IrpsOK, PendingOK, InFlightOK, DoneOK
  <1>3. SameIrps(p, q)
    BY DEF SameRing, SameIrps
  <1>4. q.state = "INVALID" => Flushed(q)
    BY DEF SameRing, Flushed
  <1>5. Stray(q) => Stray(p)
    BY DEF Stray
  <1> QED BY <1>1, <1>2, <1>3, <1>4, <1>5 DEF Follows, Sound

\* A pipe may stay as it is.
LEMMA FollowsReflexive ==
    ASSUME NEW p, Sound(p)
    PROVE  Follows(p, p)
BY DEF Follows, SameIrps

\* Two steps of a pipe make one.
LEMMA FollowsTransitive ==
    ASSUME NEW p, NEW q, NEW r, Follows(p, q), Follows(q, r)
    PROVE  Follows(p, r)
BY DEF Follows, SameIrps

\* _buffer_can_fill and _buffer_fill.
LEMMA FillIfCanFollows ==
    ASSUME NEW p, Sound(p)
    PROVE  Follows(p, FillIfCan(p))
  <1>1. CASE ~CanFill(p)
    BY <1>1, FollowsReflexive DEF FillIfCan
  <1>2. CASE CanFill(p)
    <2> DEFINE q == BufferFill(p)
    <2>1. p \in Pipe_t /\ RingWindows(p) /\ Counted(p) /\ IrpsOK(p) /\ p.to_parse = 0
      BY DEF Sound, RingOK, RingWindows
    <2>2. q \in Pipe_t /\ FillStep(p, q)
      BY <1>2, <2>1, FillFields
    <2> HIDE DEF q
    <2>3. RingWindows(q) /\ IrpsOK(q)
      BY <1>2, <2>1, <2>2, FillRing, FillIrps
    <2>4. RingOK(q)
      BY <2>1, <2>2, <2>3 DEF RingOK, FillStep
    <2>5. p.state # "INVALID" /\ q.state # "INVALID"
      BY <1>2, <2>2 DEF CanFill, Sound, Flushed, FillStep
    <2>6. \A i \in Irp : q.irp_state[i] = "IDLE" <=> p.irp_state[i] = "IDLE"
      <3>1. /\ p.pending \in Seq(Irp) /\ p.pending # << >> /\ p.irp_state \in [Irp -> IrpState]
        BY <1>2, <2>1 DEF CanFill, Pipe_t
      <3>2. Head(p.pending) = p.pending[1] /\ 1 \in 1 .. Len(p.pending) /\ Head(p.pending) \in Irp
        BY <3>1
      <3>3. p.irp_state[Head(p.pending)] = "PENDING"
        BY <2>1, <3>2 DEF IrpsOK, PendingOK
      <3> QED BY <2>2, <3>1, <3>2, <3>3 DEF FillStep
    <2>7. Stray(q) => Stray(p)
      BY <2>2 DEF Stray, FillStep
    <2>8. q.is_active = p.is_active
      BY <2>2 DEF FillStep
    <2>9. Follows(p, q)
      BY <2>2, <2>3, <2>4, <2>5, <2>6, <2>7, <2>8 DEF Follows, Sound, SameIrps
    <2> QED BY <1>2, <2>9 DEF FillIfCan, q
  <1> QED BY <1>1, <1>2

\* _buffer_exec, on a buffer that waits for it.
LEMMA ExecFields ==
    ASSUME NEW p \in Pipe_t
    PROVE  LET q == BufferExec(p) IN
           q \in Pipe_t /\ SameRing(p, q) /\ q.executing /\ q.state = p.state
BY DEF Pipe_t, BufferExec, SameRing

\* _buffer_can_exec and _buffer_exec: the channel gets a buffer.
LEMMA ExecFollows ==
    ASSUME NEW p, Sound(p), CanExec(p)
    PROVE  Follows(p, BufferExec(p))
  <1> DEFINE q == BufferExec(p)
  <1>1. p \in Pipe_t /\ p.to_exec > 0
    BY DEF Sound, CanExec
  <1>2. q \in Pipe_t /\ SameRing(p, q) /\ q.executing /\ q.state = p.state
    BY <1>1, ExecFields
  <1> HIDE DEF q
  <1>3. p.state # "INVALID"
    BY <1>1 DEF Sound, Flushed
  <1>4. RingOK(q)
    BY <1>1, <1>2 DEF SameRing, Sound, RingOK, RingWindows, Counted, Indexed, Occupied, Reported, Filled
  <1>5. IrpsOK(q)
    BY <1>2 DEF SameRing, Sound, IrpsOK, PendingOK, InFlightOK, DoneOK
  <1>6. SameIrps(p, q)
    BY <1>2 DEF SameRing, SameIrps
  <1>7. Follows(p, q)
    BY <1>2, <1>3, <1>4, <1>5, <1>6 DEF Follows, Sound, Stray
  <1> QED BY <1>7 DEF q

\* The pair of ifs that ends an enqueue, a clear and an unpause.
LEMMA FillAndExecFollows ==
    ASSUME NEW p, Sound(p)
    PROVE  Follows(p, FillAndExec(p))
  <1> DEFINE f == FillIfCan(p)
  <1>1. Follows(p, f)
    BY FillIfCanFollows
  <1>2. FillAndExec(p) = IF CanExec(f) THEN BufferExec(f) ELSE f
    BY DEF FillAndExec
  <1> HIDE DEF f
  <1>3. Sound(f)
    BY <1>1 DEF Follows
  <1>4. CASE CanExec(f)
    BY <1>1, <1>2, <1>3, <1>4, ExecFollows, FollowsTransitive
  <1>5. CASE ~CanExec(f)
    BY <1>1, <1>2, <1>5
  <1> QED BY <1>4, <1>5

\* What a command, or the loss of the device, does to the IRPs of a pipe.
LEMMA FlushRetire ==
    ASSUME NEW p \in Pipe_t, RingOK(p), IrpsOK(p), NEW cancelled \in BOOLEAN,
           cancelled \/ p.state = "INVALID"
    PROVE  LET q == Retire(BufferFlushAll(p, cancelled), cancelled) IN
           /\ Sound(q) /\ Flushed(q)
           /\ q.is_active = p.is_active
           /\ \A i \in Irp : q.irp_state[i] = "IDLE" <=> p.irp_state[i] = "IDLE"
           /\ q.state = p.state /\ q.chan_busy = p.chan_busy
  <1> DEFINE f == BufferFlushAll(p, cancelled)
             q == Retire(f, cancelled)
  <1>1. f \in Pipe_t /\ FlushStep(p, f)
    BY FlushFields
  <1> HIDE DEF f
  <1>2. RingOK(f) /\ IrpsOK(f)
    BY <1>1, FlushSound
  <1>3. q \in Pipe_t /\ RetireStep(f, q)
    BY <1>1, RetireFields
  <1> HIDE DEF q
  <1>4. RingOK(q) /\ IrpsOK(q)
    BY <1>1, <1>2, <1>3, RetireSound
  <1>5. Flushed(q)
    <2>1. q.pending = << >> /\ q.to_exec = 0
      BY <1>1, <1>3 DEF FlushStep, RetireStep
    <2>2. ~q.executing
      BY <1>4, <2>1 DEF RingOK, RingWindows
    <2> QED BY <2>1, <2>2 DEF Flushed
  <1>6. \A i \in Irp : f.irp_state[i] = "IDLE" <=> p.irp_state[i] = "IDLE"
    <2>1. ASSUME NEW i \in Irp
          PROVE  (\E j \in Filled(p) : p.buf[j] = i) => p.irp_state[i] = "INFLIGHT"
      BY DEF IrpsOK, InFlightOK, Filled
    <2>2. \A i \in Irp : f.irp_state[i] = IF \E j \in Filled(p) : p.buf[j] = i
                                          THEN "DONE" ELSE p.irp_state[i]
      BY <1>1 DEF FlushStep
    <2> QED BY <2>1, <2>2
  <1>7. \A i \in Irp : q.irp_state[i] = "IDLE" <=> f.irp_state[i] = "IDLE"
    <2>1. ASSUME NEW i \in Irp
          PROVE  (\E k \in 1 .. Len(f.pending) : f.pending[k] = i) => f.irp_state[i] = "PENDING"
      BY <1>2 DEF IrpsOK, PendingOK
    <2>2. \A i \in Irp : q.irp_state[i] = IF \E k \in 1 .. Len(f.pending) : f.pending[k] = i
                                          THEN "DONE" ELSE f.irp_state[i]
      BY <1>3 DEF RetireStep
    <2> QED BY <2>1, <2>2
  <1>8. q.state = p.state /\ q.chan_busy = p.chan_busy /\ q.is_active = p.is_active
    BY <1>1, <1>3 DEF FlushStep, RetireStep
  <1> QED BY <1>3, <1>4, <1>5, <1>6, <1>7, <1>8 DEF Sound, q, f

-----------------------------------------------------------------------------
(* The channel interrupt *)

\* Marking the buffer in flight as done.
LEMMA MarkDoneFields ==
    ASSUME NEW p, Sound(p), p.executing, NEW res \in Status
    PROVE  LET q == MarkDone(p, res) IN
           /\ q \in Pipe_t /\ DoneStep(p, q)
           /\ q.result[q.fr_idx] # "NONE"
           /\ q.to_parse = 1
           /\ q.state = p.state
  <1> DEFINE q == MarkDone(p, res)
             r == [p.result EXCEPT ![p.rd_idx] = res]
             rd == Inc(p.rd_idx)
             te == p.to_exec - 1
             tp == p.to_parse + 1
  <1>1. /\ p \in Pipe_t /\ p.to_exec > 0 /\ p.to_parse = 0
        /\ p.to_exec \in 0 .. NumBuffers /\ p.rd_idx \in Idx /\ p.fr_idx \in Idx
        /\ p.result \in [Idx -> Status \union {"NONE"}]
    BY DEF Sound, Pipe_t, RingOK, RingWindows
  <1>2. te \in 0 .. NumBuffers /\ tp \in 0 .. NumBuffers
    BY <1>1, NumBuffersAssumption
  <1>3. rd \in Idx
    BY <1>1, IdxClosed
  <1>4. r \in [Idx -> Status \union {"NONE"}]
    BY <1>1
  <1>5. r[p.rd_idx] = res /\ res # "NONE"
    BY <1>1 DEF Status, Fatal
  <1>6. p.rd_idx = p.fr_idx
    BY <1>1, IdxClosed DEF Sound, RingOK, RingWindows, Indexed
  <1>7. q = [p EXCEPT !.result = r, !.rd_idx = rd, !.to_exec = te, !.to_parse = tp, !.executing = FALSE]
    BY DEF MarkDone
  <1> HIDE DEF q, r, rd, te, tp
  <1>8. q \in Pipe_t
    <2> DEFINE half == [p EXCEPT !.result = r, !.rd_idx = rd, !.executing = FALSE]
    <2>1. p \in Pipe_t
      BY <1>1
    <2>2. half \in Pipe_t
      BY <1>3, <1>4, <2>1 DEF Pipe_t
    <2>3. q = [half EXCEPT !.to_exec = te, !.to_parse = tp]
      BY <1>7, <2>1 DEF Pipe_t
    <2> HIDE DEF half
    <2> QED BY <1>2, <2>2, <2>3 DEF Pipe_t
  <1>9. /\ q.result = r /\ q.rd_idx = rd /\ q.to_exec = te /\ q.to_parse = tp
        /\ ~q.executing
        /\ q.fr_idx = p.fr_idx
        /\ q.wr_idx = p.wr_idx /\ q.to_fill = p.to_fill
        /\ q.pending = p.pending /\ q.buf = p.buf /\ q.done = p.done /\ q.irp_state = p.irp_state
        /\ q.is_active = p.is_active
        /\ q.state = p.state
    BY <1>1, <1>7 DEF Pipe_t
  <1>10. DoneStep(p, q)
    BY <1>9 DEF DoneStep, r, rd, te, tp
  <1>11. q.result[q.fr_idx] # "NONE" /\ q.to_parse = 1
    BY <1>1, <1>5, <1>6, <1>9 DEF tp
  <1> QED BY <1>8, <1>9, <1>10, <1>11 DEF q

\* The flags that an interrupt sets between the completion and the parsing.
SameQueues(p, q) ==
    /\ q \in Pipe_t
    /\ SameRing(p, q)
    /\ q.state # "INVALID"
    /\ q.executing => q.to_exec > 0
    /\ q.chan_busy => q.executing

\* The flags that none of this changes.
SameFlags(p, q) ==
    /\ q.state = p.state /\ q.paused = p.paused
    /\ q.pipe_cmd_processing = p.pipe_cmd_processing
    /\ q.waiting_xfer_done = p.waiting_xfer_done

\* A completed buffer that is parsed leaves a sound pipe.
LEMMA ParsedSound ==
    ASSUME NEW p, Sound(p), p.executing, NEW res \in Status, NEW e, SameQueues(MarkDone(p, res), e)
    PROVE  LET r == BufferParse(e) IN
           /\ Sound(r) /\ SameIrps(p, r) /\ ~Stray(r)
           /\ r.waiting_xfer_done = e.waiting_xfer_done
  <1> DEFINE d == MarkDone(p, res)
             r == BufferParse(e)
  <1>1. /\ d \in Pipe_t /\ DoneStep(p, d)
        /\ d.result[d.fr_idx] # "NONE" /\ d.to_parse = 1
    BY MarkDoneFields
  <1> HIDE DEF d
  <1>2. /\ p \in Pipe_t /\ p.to_exec > 0 /\ RingWindows(p) /\ IrpsOK(p) /\ p.state # "INVALID"
        /\ p.irp_state \in [Irp -> IrpState]
    BY DEF Sound, RingOK, RingWindows, Pipe_t, Flushed
  <1>3. RingWindows(d) /\ IrpsOK(d)
    BY <1>1, <1>2, DoneRing, DoneIrps
  <1>4. e \in Pipe_t /\ SameRing(d, e) /\ e.state # "INVALID"
        /\ (e.executing => e.to_exec > 0) /\ (e.chan_busy => e.executing)
    BY DEF SameQueues, d
  <1>5. /\ RingWindows(e) /\ IrpsOK(e)
        /\ e.to_parse = 1
        /\ e.result[e.fr_idx] # "NONE"
    <2>1. RingWindows(e)
      BY <1>3, <1>4 DEF SameRing, RingWindows, Counted, Indexed, Occupied, Reported, Filled
    <2>2. IrpsOK(e)
      BY <1>3, <1>4 DEF SameRing, IrpsOK, PendingOK, InFlightOK, DoneOK
    <2> QED BY <1>1, <1>4, <2>1, <2>2 DEF SameRing
  <1>6. r \in Pipe_t /\ ParseStep(e, r)
    BY <1>4, <1>5, ParseFields
  <1>7. r.waiting_xfer_done = e.waiting_xfer_done
    BY <1>4 DEF BufferParse, Pipe_t
  <1> HIDE DEF r
  <1>8. RingWindows(r) /\ IrpsOK(r) /\ r.to_parse = 0
    <2>1. e.to_parse > 0
      BY <1>5
    <2>2. r.to_parse = 0
      BY <1>5, <1>6 DEF ParseStep
    <2> QED BY <1>4, <1>5, <1>6, <2>1, <2>2, ParseRing, ParseIrps
  <1>9. r.state # "INVALID" /\ ~Stray(r)
    BY <1>4, <1>6 DEF ParseStep, Stray
  <1>10. \A i \in Irp : r.irp_state[i] = "IDLE" <=> p.irp_state[i] = "IDLE"
    <2>1. e.irp_state = p.irp_state
      BY <1>1, <1>4 DEF DoneStep, SameRing
    <2>2. e.buf[e.fr_idx] \in Irp
      BY <1>4, <1>5, ParseIrp
    <2>3. e.irp_state[e.buf[e.fr_idx]] = "INFLIGHT"
      BY <1>4, <1>5, <2>2 DEF IrpsOK, InFlightOK, Pipe_t
    <2> QED BY <1>2, <1>6, <2>1, <2>2, <2>3 DEF ParseStep
  <1>11. r.is_active = p.is_active
    BY <1>1, <1>4, <1>6 DEF DoneStep, SameRing, ParseStep
  <1> QED BY <1>2, <1>6, <1>7, <1>8, <1>9, <1>10, <1>11 DEF Sound, SameIrps, RingOK, r

\* The interrupt of a completed transfer marks its buffer as done, sets flags,
\* parses the buffer and may refill it.
LEMMA CompletedParses ==
    ASSUME NEW p, Sound(p), p.executing
    PROVE  \E e : /\ SameQueues(MarkDone(p, "COMPLETED"), e)
                  /\ SameFlags(p, e) /\ (e.chan_busy <=> e.executing)
                  /\ e.executing <=> ~p.waiting_xfer_done /\ p.to_exec > 1
                  /\ LET r == BufferParse(e) IN
                     Completed(p) = IF r.waiting_xfer_done THEN r ELSE FillIfCan(r)
  <1> DEFINE m == MarkDone(p, "COMPLETED")
             d == [m EXCEPT !.last_event = "IRP_DONE", !.chan_busy = FALSE]
             e == IF CanExec(d) /\ ~d.waiting_xfer_done THEN BufferExec(d) ELSE d
             r == BufferParse(e)
  <1>1. "COMPLETED" \in Status
    BY DEF Status
  <1>2. m \in Pipe_t /\ DoneStep(p, m) /\ m.state = p.state
    BY <1>1, MarkDoneFields
  <1>7. SameFlags(p, m) /\ m.to_exec = p.to_exec - 1 /\ p.to_exec \in Nat
    BY NumBuffersAssumption DEF MarkDone, Sound, Pipe_t, SameFlags
  <1>3. Completed(p) = IF r.waiting_xfer_done THEN r ELSE FillIfCan(r)
    BY DEF Completed, BufferDone, MarkDone
  <1> HIDE DEF m
  <1>4. /\ d \in Pipe_t /\ SameRing(m, d) /\ ~d.executing /\ ~d.chan_busy /\ d.state = m.state
    <2>1. d \in Pipe_t
      BY <1>2 DEF Pipe_t, PipeEvent
    <2> QED BY <1>2, <2>1 DEF Pipe_t, SameRing, DoneStep
  <1>5. d.state # "INVALID"
    BY <1>2, <1>4 DEF Sound, Flushed
  <1>8. SameFlags(p, d) /\ d.to_exec = p.to_exec - 1
    BY <1>2, <1>4, <1>7 DEF SameFlags, SameRing, Pipe_t
  <1> HIDE DEF d
  <1>6. SameQueues(m, e)
    <2>1. CASE CanExec(d) /\ ~d.waiting_xfer_done
      <3>1. BufferExec(d) \in Pipe_t /\ SameRing(d, BufferExec(d)) /\ BufferExec(d).executing
            /\ BufferExec(d).state = d.state
        BY <1>4, ExecFields
      <3> QED BY <1>4, <1>5, <2>1, <3>1 DEF SameQueues, SameRing, CanExec
    <2>2. CASE ~(CanExec(d) /\ ~d.waiting_xfer_done)
      BY <1>4, <1>5, <2>2 DEF SameQueues
    <2> QED BY <2>1, <2>2
  <1>9. /\ SameFlags(p, e) /\ (e.chan_busy <=> e.executing)
        /\ e.executing <=> ~p.waiting_xfer_done /\ p.to_exec > 1
    <2>1. CASE CanExec(d) /\ ~d.waiting_xfer_done
      <3>1. /\ SameFlags(d, BufferExec(d))
            /\ BufferExec(d).executing /\ BufferExec(d).chan_busy
        BY <1>4 DEF BufferExec, Pipe_t, SameFlags
      <3> QED BY <1>7, <1>8, <2>1, <3>1 DEF SameFlags, CanExec
    <2>2. CASE ~(CanExec(d) /\ ~d.waiting_xfer_done)
      BY <1>4, <1>7, <1>8, <2>2 DEF SameFlags, CanExec
    <2> QED BY <2>1, <2>2
  <1> HIDE DEF e
  <1> QED BY <1>3, <1>6, <1>9 DEF m

\* It is a step of its pipe.
LEMMA CompletedFollows ==
    ASSUME NEW p, Sound(p), p.executing
    PROVE  Follows(p, Completed(p))
  <1>1. PICK e : /\ SameQueues(MarkDone(p, "COMPLETED"), e)
                 /\ LET r == BufferParse(e) IN
                    Completed(p) = IF r.waiting_xfer_done THEN r ELSE FillIfCan(r)
    BY CompletedParses
  <1> DEFINE r == BufferParse(e)
  <1>2. Sound(r) /\ SameIrps(p, r) /\ ~Stray(r)
    BY <1>1, ParsedSound DEF Status
  <1>3. Follows(p, r)
    BY <1>2 DEF Follows
  <1> HIDE DEF r
  <1>4. Follows(r, FillIfCan(r))
    BY <1>2, FillIfCanFollows
  <1> QED BY <1>1, <1>3, <1>4, FollowsTransitive DEF r

\* The interrupt of a failed one halts the pipe, and parses the buffer with the
\* status of the error.
LEMMA FailedParses ==
    ASSUME NEW p, Sound(p), p.executing, NEW error \in ChanError
    PROVE  \E h, res :
              /\ res \in {"ERROR", "STALL", "OVERFLOW"} \union Fatal
              /\ Sound(h) /\ SameIrps(p, h) /\ h.executing
              /\ SameRing(p, h) /\ h.state = "HALTED" /\ ~h.chan_busy
              /\ SameFlags([p EXCEPT !.state = "HALTED"], h)
              /\ SameQueues(MarkDone(h, res), MarkDone(h, res))
              /\ Failed(p, error) = BufferParse(MarkDone(h, res))
  <1> DEFINE h == [p EXCEPT !.last_event = error, !.state = "HALTED", !.chan_busy = FALSE]
             res == ErrorStatus(FALSE, "HALTED", error)
  <1>1. p \in Pipe_t /\ p.state # "INVALID"
    BY DEF Sound, Flushed
  <1>2. res \in {"ERROR", "STALL", "OVERFLOW"} \union Fatal /\ res \in Status
    BY ChanErrorAssumption DEF ErrorStatus, ErrorEvent, Fatal, Status
  <1>3. /\ h \in Pipe_t
        /\ SameRing(p, h) /\ h.executing /\ ~h.chan_busy
        /\ h.state = "HALTED" /\ h.last_event = error
    <2>1. h \in Pipe_t
      BY <1>1 DEF Pipe_t, PipeEvent, PipeState
    <2> QED BY <1>1, <2>1 DEF Pipe_t, SameRing
  <1>10. SameFlags([p EXCEPT !.state = "HALTED"], h)
    BY <1>1 DEF Pipe_t, SameFlags
  <1>4. Failed(p, error) = BufferParse(BufferDoneError(h, FALSE))
    BY DEF Failed
  <1> HIDE DEF h
  <1>5. Sound(h) /\ SameIrps(p, h)
    <2>1. RingOK(h)
      BY <1>3 DEF SameRing, Sound, RingOK, RingWindows, Counted, Indexed, Occupied, Reported, Filled
    <2>2. IrpsOK(h)
      BY <1>3 DEF SameRing, Sound, IrpsOK, PendingOK, InFlightOK, DoneOK
    <2> QED BY <1>1, <1>3, <2>1, <2>2 DEF Sound, SameIrps, SameRing
  <1>6. BufferDoneError(h, FALSE) = MarkDone(h, res)
    BY <1>3 DEF BufferDoneError, MarkDone
  <1> DEFINE m == MarkDone(h, res)
  <1> HIDE DEF res
  <1>7. m \in Pipe_t /\ DoneStep(h, m) /\ m.state = "HALTED"
    BY <1>2, <1>3, <1>5, MarkDoneFields
  <1>8. m.chan_busy = FALSE
    BY <1>3 DEF MarkDone, Pipe_t
  <1>9. SameQueues(m, m)
    BY <1>7, <1>8 DEF SameQueues, SameRing, DoneStep
  <1> QED BY <1>2, <1>3, <1>4, <1>5, <1>6, <1>9, <1>10

\* So is this one.
LEMMA FailedFollows ==
    ASSUME NEW p, Sound(p), p.executing, NEW error \in ChanError
    PROVE  Follows(p, Failed(p, error))
  <1>1. PICK h, res :
            /\ res \in Status
            /\ Sound(h) /\ SameIrps(p, h) /\ h.executing
            /\ SameQueues(MarkDone(h, res), MarkDone(h, res))
            /\ Failed(p, error) = BufferParse(MarkDone(h, res))
    BY FailedParses DEF Status
  <1> DEFINE r == BufferParse(MarkDone(h, res))
  <1>2. Sound(r) /\ SameIrps(h, r) /\ ~Stray(r)
    BY <1>1, ParsedSound
  <1> HIDE DEF r
  <1> QED BY <1>1, <1>2 DEF Follows, SameIrps, r

-----------------------------------------------------------------------------
(* Lists *)

\* Nothing is twice in the queue q.
NoDuplicates(q) == \A k, l \in 1 .. Len(q) : q[k] = q[l] => k = l

\* What TAILQ_INSERT_TAIL does to a queue.
LEMMA AppendList ==
    ASSUME NEW S, NEW q \in Seq(S), NEW x \in S
    PROVE  /\ Append(q, x) \in Seq(S)
           /\ \A y : InQueue(Append(q, x), y) <=> InQueue(q, y) \/ y = x
           /\ NoDuplicates(q) /\ ~InQueue(q, x) => NoDuplicates(Append(q, x))
  <1> DEFINE n == Len(q)
             r == Append(q, x)
  <1>1. /\ n \in Nat /\ r \in Seq(S) /\ Len(r) = n + 1
        /\ \A k \in 1 .. n : r[k] = q[k]
        /\ r[n + 1] = x
    OBVIOUS
  <1> HIDE DEF r, n
  <1>2. \A k \in 1 .. n + 1 : k \in 1 .. n \/ k = n + 1
    BY <1>1
  <1>3. /\ \A k \in 1 .. n : k \in 1 .. n + 1
        /\ n + 1 \in 1 .. n + 1
    BY <1>1
  <1>4. ASSUME NEW y
        PROVE  (\E k \in 1 .. n + 1 : r[k] = y) <=> (\E k \in 1 .. n : q[k] = y) \/ y = x
    BY <1>1, <1>2, <1>3
  <1>5. ASSUME \A k, l \in 1 .. n : q[k] = q[l] => k = l, ~\E k \in 1 .. n : q[k] = x,
               NEW k \in 1 .. n + 1, NEW l \in 1 .. n + 1, r[k] = r[l]
        PROVE  k = l
    BY <1>1, <1>2, <1>5
  <1>6. NoDuplicates(q) /\ ~InQueue(q, x) => NoDuplicates(r)
    BY <1>1, <1>5 DEF NoDuplicates, InQueue, n
  <1>7. \A y : InQueue(r, y) <=> InQueue(q, y) \/ y = x
    BY <1>1, <1>4 DEF InQueue, n
  <1> QED BY <1>1, <1>6, <1>7 DEF r

\* What TAILQ_REMOVE does to a queue.
LEMMA WithoutList ==
    ASSUME NEW S, NEW q \in Seq(S), NEW x, InQueue(q, x), NoDuplicates(q)
    PROVE  /\ Without(q, x) \in Seq(S)
           /\ \A y : InQueue(Without(q, x), y) <=> InQueue(q, y) /\ y # x
           /\ NoDuplicates(Without(q, x))
  <1> DEFINE n == Len(q)
             c == CHOOSE k \in 1 .. Len(q) : q[k] = x
             r == Without(q, x)
  <1>1. n \in Nat /\ \A k \in 1 .. n : q[k] \in S
    OBVIOUS
  <1>2. c \in 1 .. n /\ q[c] = x
    BY DEF InQueue
  <1>3. r = [l \in 1 .. n - 1 |-> IF l < c THEN q[l] ELSE q[l + 1]]
    BY DEF Without
  <1> HIDE DEF c, r, n
  <1>4. \A l \in 1 .. n - 1 : l \in 1 .. n /\ l + 1 \in 1 .. n
    BY <1>1
  <1>5. n - 1 \in Nat
    BY <1>1, <1>2
  <1>6. r \in Seq(S) /\ Len(r) = n - 1
    <2>1. r \in [1 .. n - 1 -> S]
      BY <1>1, <1>3, <1>4
    <2> QED BY <1>5, <2>1
  <1>7. \A l \in 1 .. n - 1 : r[l] = IF l < c THEN q[l] ELSE q[l + 1]
    BY <1>3
  <1>8. \A k, l \in 1 .. n : q[k] = q[l] => k = l
    BY DEF NoDuplicates, n
  <1>9. ASSUME NEW y
        PROVE  (\E l \in 1 .. n - 1 : r[l] = y) <=> (\E k \in 1 .. n : q[k] = y) /\ y # x
    <2>1. ASSUME NEW l \in 1 .. n - 1, r[l] = y
          PROVE  (\E k \in 1 .. n : q[k] = y) /\ y # x
      <3>1. CASE l < c
        <4>1. l \in 1 .. n /\ q[l] = y /\ l # c
          BY <1>2, <1>4, <1>7, <2>1, <3>1
        <4> QED BY <1>2, <1>8, <4>1
      <3>2. CASE ~(l < c)
        <4>1. l + 1 \in 1 .. n /\ q[l + 1] = y /\ l + 1 # c
          BY <1>1, <1>2, <1>4, <1>7, <2>1, <3>2
        <4> QED BY <1>2, <1>8, <4>1
      <3> QED BY <3>1, <3>2
    <2>2. ASSUME NEW k \in 1 .. n, q[k] = y, y # x
          PROVE  \E l \in 1 .. n - 1 : r[l] = y
      <3>1. CASE k < c
        <4>1. k \in 1 .. n - 1
          BY <1>1, <1>2, <3>1
        <4> QED BY <1>7, <2>2, <3>1, <4>1
      <3>2. CASE k > c
        <4>1. k - 1 \in 1 .. n - 1 /\ ~(k - 1 < c) /\ (k - 1) + 1 = k
          BY <1>1, <1>2, <3>2
        <4> QED BY <1>7, <2>2, <4>1
      <3>3. k # c
        BY <1>2, <2>2
      <3> QED BY <1>1, <1>2, <3>1, <3>2, <3>3
    <2> QED BY <2>1, <2>2
  <1>10. ASSUME NEW k \in 1 .. n - 1, NEW l \in 1 .. n - 1, r[k] = r[l]
         PROVE  k = l
    <2>1. CASE k < c /\ l < c
      BY <1>4, <1>7, <1>8, <1>10, <2>1
    <2>2. CASE k < c /\ ~(l < c)
      <3>1. q[k] = q[l + 1] /\ k \in 1 .. n /\ l + 1 \in 1 .. n
        BY <1>4, <1>7, <1>10, <2>2
      <3>2. k = l + 1
        BY <1>8, <3>1
      <3> QED BY <1>1, <1>2, <2>2, <3>2
    <2>3. CASE ~(k < c) /\ l < c
      <3>1. q[k + 1] = q[l] /\ l \in 1 .. n /\ k + 1 \in 1 .. n
        BY <1>4, <1>7, <1>10, <2>3
      <3>2. k + 1 = l
        BY <1>8, <3>1
      <3> QED BY <1>1, <1>2, <2>3, <3>2
    <2>4. CASE ~(k < c) /\ ~(l < c)
      <3>1. q[k + 1] = q[l + 1] /\ l + 1 \in 1 .. n /\ k + 1 \in 1 .. n
        BY <1>4, <1>7, <1>10, <2>4
      <3>2. k + 1 = l + 1
        BY <1>8, <3>1
      <3> QED BY <1>1, <3>2
    <2> QED BY <2>1, <2>2, <2>3, <2>4
  <1>11. NoDuplicates(r)
    BY <1>6, <1>10 DEF NoDuplicates
  <1>12. \A y : InQueue(r, y) <=> InQueue(q, y) /\ y # x
    BY <1>6, <1>9 DEF InQueue, n
  <1> QED BY <1>6, <1>11, <1>12 DEF r

-----------------------------------------------------------------------------
(* IRPs that come and go *)

\* hcd_irp_enqueue up to the filling of a buffer.
EnqueuedFirst(pipe, irp) ==
    [pipe EXCEPT !.irp_state[irp] = "PENDING",
                 !.pending = Append(@, irp),
                 !.is_active = TRUE]

\* Takes the IRP irp: the pipe p becomes q.
Takes(p, q, irp) ==
    /\ Sound(q)
    /\ q.is_active
    /\ \A i \in Irp : q.irp_state[i] = "IDLE" <=> p.irp_state[i] = "IDLE" /\ i # irp
    /\ p.state = "INVALID" => q.state = "INVALID"
    /\ Stray(q) => Stray(p)

\* An IRP that was idle is pending, and nothing else has changed.
LEMMA EnqueuedFirstSound ==
    ASSUME NEW p, Sound(p), NEW irp \in Irp, p.irp_state[irp] = "IDLE", p.state = "ACTIVE"
    PROVE  Takes(p, EnqueuedFirst(p, irp), irp)
  <1> DEFINE q == EnqueuedFirst(p, irp)
             st == [p.irp_state EXCEPT ![irp] = "PENDING"]
             pend == Append(p.pending, irp)
  <1>1. /\ p \in Pipe_t /\ p.pending \in Seq(Irp) /\ p.irp_state \in [Irp -> IrpState]
        /\ RingOK(p) /\ IrpsOK(p)
    BY DEF Sound, Pipe_t
  <1>2. st \in [Irp -> IrpState] /\ pend \in Seq(Irp)
    BY <1>1 DEF IrpState
  <1>3. q = [p EXCEPT !.irp_state = st, !.pending = pend, !.is_active = TRUE]
    BY DEF EnqueuedFirst
  <1> HIDE DEF st, pend, q
  <1>4. q \in Pipe_t
    BY <1>1, <1>2, <1>3 DEF Pipe_t
  <1>5. /\ q.irp_state = st /\ q.pending = pend /\ q.is_active
        /\ q.done = p.done /\ q.buf = p.buf /\ q.result = p.result
        /\ q.to_fill = p.to_fill /\ q.to_exec = p.to_exec /\ q.to_parse = p.to_parse
        /\ q.wr_idx = p.wr_idx /\ q.rd_idx = p.rd_idx /\ q.fr_idx = p.fr_idx
        /\ q.executing = p.executing /\ q.chan_busy = p.chan_busy /\ q.state = p.state
    BY <1>1, <1>3 DEF Pipe_t
  <1>6. RingOK(q)
    BY <1>1, <1>5 DEF RingOK, RingWindows, Counted, Indexed, Occupied, Reported, Filled
  <1>7. \A i \in Irp : q.irp_state[i] = IF i = irp THEN "PENDING" ELSE p.irp_state[i]
    BY <1>1, <1>5 DEF st
  <1>8. IrpsOK(q)
    <2>1. PendingOK(q)
      <3>1. ~InQueue(p.pending, irp) /\ NoDuplicates(p.pending)
        BY <1>1 DEF IrpsOK, PendingOK, InQueue, NoDuplicates
      <3>2. /\ NoDuplicates(q.pending)
            /\ \A i : InQueue(q.pending, i) <=> InQueue(p.pending, i) \/ i = irp
        BY <1>1, <1>5, <3>1, AppendList DEF pend
      <3>3. \A i \in Irp : p.irp_state[i] = "PENDING" <=> InQueue(p.pending, i)
        BY <1>1 DEF IrpsOK, PendingOK, InQueue
      <3>4. \A i \in Irp : q.irp_state[i] = "PENDING" <=> InQueue(q.pending, i)
        BY <1>7, <3>2, <3>3
      <3> QED BY <3>2, <3>4 DEF PendingOK, InQueue, NoDuplicates
    <2>2. InFlightOK(q)
      BY <1>1, <1>5, <1>7 DEF IrpsOK, InFlightOK
    <2>3. DoneOK(q)
      BY <1>1, <1>5, <1>7 DEF IrpsOK, DoneOK
    <2> QED BY <2>1, <2>2, <2>3 DEF IrpsOK
  <1>9. Takes(p, q, irp)
    BY <1>4, <1>5, <1>6, <1>7, <1>8 DEF Takes, Sound, Stray
  <1> QED BY <1>9 DEF q

\* hcd_irp_enqueue takes the IRP.
LEMMA EnqueuedTakes ==
    ASSUME NEW p, Sound(p), NEW irp \in Irp, p.irp_state[irp] = "IDLE", p.state = "ACTIVE"
    PROVE  Takes(p, Enqueued(p, irp), irp)
  <1> DEFINE q == EnqueuedFirst(p, irp)
  <1>1. Takes(p, q, irp)
    BY EnqueuedFirstSound
  <1>2. Enqueued(p, irp) = FillAndExec(q)
    BY DEF Enqueued, EnqueuedFirst
  <1> HIDE DEF q
  <1>3. Follows(q, FillAndExec(q))
    BY <1>1, FillAndExecFollows DEF Takes
  <1> QED BY <1>1, <1>2, <1>3 DEF Takes, Follows, SameIrps

\* Gives an IRP back: the pipe p becomes q, and goes to the idle list if it was
\* the last one.
GivesBack(p, q) ==
    /\ Sound(q)
    /\ q.is_active <=> p.is_active /\ ~HoldsNothing(q)
    /\ \A i \in Irp : p.irp_state[i] = "IDLE" => q.irp_state[i] = "IDLE"
    /\ p.state = "INVALID" => q.state = "INVALID"
    /\ Stray(q) => Stray(p)

\* hcd_irp_dequeue gives an IRP back.
LEMMA DequeuedGivesBack ==
    ASSUME NEW p, Sound(p), p.done # << >>
    PROVE  GivesBack(p, Dequeued(p))
  <1> DEFINE irp == Head(p.done).irp
             rest == Tail(p.done)
             st == [p.irp_state EXCEPT ![irp] = "IDLE"]
             d == [p EXCEPT !.irp_state[Head(p.done).irp] = "IDLE", !.done = Tail(@)]
             q == Dequeued(p)
  <1>1. /\ p \in Pipe_t /\ p.done \in Seq(DoneIrp) /\ p.irp_state \in [Irp -> IrpState]
        /\ RingOK(p) /\ IrpsOK(p)
    BY DEF Sound, Pipe_t
  <1>2. /\ Head(p.done) \in DoneIrp /\ Head(p.done) = p.done[1] /\ 1 \in 1 .. Len(p.done)
        /\ rest \in Seq(DoneIrp) /\ Len(rest) = Len(p.done) - 1 /\ Len(p.done) \in Nat
        /\ \A k \in 1 .. Len(rest) : rest[k] = p.done[k + 1]
    BY <1>1
  <1>3. irp \in Irp /\ st \in [Irp -> IrpState]
    BY <1>1, <1>2 DEF DoneIrp, IrpState
  <1>4. d = [p EXCEPT !.irp_state = st, !.done = rest]
    OBVIOUS
  <1>5. q = [d EXCEPT !.is_active = d.is_active /\ ~HoldsNothing(d)]
    BY DEF Dequeued
  <1> HIDE DEF irp, rest, st, d, q
  <1>6. d \in Pipe_t
    BY <1>1, <1>2, <1>3, <1>4 DEF Pipe_t
  <1>7. q \in Pipe_t
    <2>1. (d.is_active /\ ~HoldsNothing(d)) \in BOOLEAN
      BY DEF HoldsNothing
    <2> QED BY <1>5, <1>6, <2>1 DEF Pipe_t
  <1>8. /\ d.irp_state = st /\ d.done = rest /\ d.is_active = p.is_active
        /\ d.pending = p.pending /\ d.buf = p.buf /\ d.result = p.result
        /\ d.to_fill = p.to_fill /\ d.to_exec = p.to_exec /\ d.to_parse = p.to_parse
        /\ d.wr_idx = p.wr_idx /\ d.rd_idx = p.rd_idx /\ d.fr_idx = p.fr_idx
        /\ d.executing = p.executing /\ d.chan_busy = p.chan_busy /\ d.state = p.state
    BY <1>1, <1>4 DEF Pipe_t
  <1>9. /\ q.irp_state = st /\ q.done = rest
        /\ q.pending = p.pending /\ q.buf = p.buf /\ q.result = p.result
        /\ q.to_fill = p.to_fill /\ q.to_exec = p.to_exec /\ q.to_parse = p.to_parse
        /\ q.wr_idx = p.wr_idx /\ q.rd_idx = p.rd_idx /\ q.fr_idx = p.fr_idx
        /\ q.executing = p.executing /\ q.chan_busy = p.chan_busy /\ q.state = p.state
        /\ q.is_active <=> d.is_active /\ ~HoldsNothing(d)
    BY <1>5, <1>6, <1>8 DEF Pipe_t
  <1>10. HoldsNothing(q) <=> HoldsNothing(d)
    BY <1>8, <1>9 DEF HoldsNothing
  <1>11. RingOK(q)
    BY <1>1, <1>9 DEF RingOK, RingWindows, Counted, Indexed, Occupied, Reported, Filled
  <1>12. p.irp_state[irp] = "DONE"
    BY <1>1, <1>2, <1>3 DEF IrpsOK, DoneOK, irp
  <1>13. \A i \in Irp : q.irp_state[i] = IF i = irp THEN "IDLE" ELSE p.irp_state[i]
    BY <1>1, <1>9 DEF st
  <1>14. PendingOK(q) /\ InFlightOK(q)
    BY <1>1, <1>9, <1>12, <1>13 DEF IrpsOK, PendingOK, InFlightOK
  <1>15. DoneOK(q)
    <2>1. \A k \in 1 .. Len(rest) : k + 1 \in 1 .. Len(p.done) /\ k + 1 # 1
      BY <1>2
    <2>2. \A k, l \in 1 .. Len(p.done) : p.done[k].irp = p.done[l].irp => k = l
      BY <1>1 DEF IrpsOK, DoneOK
    <2>3. \A k \in 1 .. Len(rest) : rest[k].irp # irp
      BY <1>2, <2>1, <2>2 DEF irp
    <2>4. ASSUME NEW i \in Irp
          PROVE  q.irp_state[i] = "DONE" <=> \E k \in 1 .. Len(rest) : rest[k].irp = i
      <3>1. CASE i = irp
        BY <1>13, <2>3, <3>1
      <3>2. CASE i # irp
        <4>1. q.irp_state[i] = "DONE" <=> \E k \in 1 .. Len(p.done) : p.done[k].irp = i
          BY <1>1, <1>13, <3>2 DEF IrpsOK, DoneOK
        <4>2. ASSUME NEW k \in 1 .. Len(p.done), p.done[k].irp = i
              PROVE  k - 1 \in 1 .. Len(rest) /\ rest[k - 1].irp = i
          <5>1. k # 1
            BY <1>2, <3>2, <4>2 DEF irp
          <5>2. k - 1 \in 1 .. Len(rest) /\ (k - 1) + 1 = k
            BY <1>2, <5>1
          <5> QED BY <1>2, <4>2, <5>2
        <4> QED BY <1>2, <2>1, <4>1, <4>2
      <3> QED BY <3>1, <3>2
    <2>5. ASSUME NEW k \in 1 .. Len(rest), NEW l \in 1 .. Len(rest), rest[k].irp = rest[l].irp
          PROVE  k = l
      <3>1. p.done[k + 1].irp = p.done[l + 1].irp
        BY <1>2, <2>5
      <3>2. k + 1 = l + 1
        BY <2>1, <2>2, <3>1
      <3> QED BY <1>2, <3>2
    <2> QED BY <1>9, <2>4, <2>5 DEF DoneOK
  <1>16. Sound(q)
    BY <1>7, <1>9, <1>11, <1>14, <1>15 DEF Sound, IrpsOK, Flushed
  <1> QED BY <1>8, <1>9, <1>10, <1>13, <1>16 DEF GivesBack, Stray, q

\* An IRP that is taken back goes from the pending to the done queue.
LEMMA AbortedFollows ==
    ASSUME NEW p, Sound(p), NEW irp \in Irp, p.irp_state[irp] = "PENDING"
    PROVE  Follows(p, Aborted(p, irp))
  <1> DEFINE q == Aborted(p, irp)
             pend == Without(p.pending, irp)
             st == [p.irp_state EXCEPT ![irp] = "DONE"]
             don == Append(p.done, [irp |-> irp, status |-> "CANCELED"])
  <1>1. /\ p \in Pipe_t /\ p.done \in Seq(DoneIrp) /\ p.irp_state \in [Irp -> IrpState]
        /\ p.pending \in Seq(Irp) /\ RingOK(p) /\ IrpsOK(p)
    BY DEF Sound, Pipe_t
  <1>2. InQueue(p.pending, irp) /\ NoDuplicates(p.pending)
    BY <1>1 DEF IrpsOK, PendingOK, InQueue, NoDuplicates
  <1>3. /\ pend \in Seq(Irp) /\ NoDuplicates(pend)
        /\ \A i : InQueue(pend, i) <=> InQueue(p.pending, i) /\ i # irp
    BY <1>1, <1>2, WithoutList
  <1>4. st \in [Irp -> IrpState]
    BY <1>1 DEF IrpState
  <1>5. don \in Seq(DoneIrp)
    BY <1>1 DEF DoneIrp, Status
  <1>6. q = [p EXCEPT !.pending = pend, !.done = don, !.irp_state = st]
    BY DEF Aborted
  <1> HIDE DEF q, pend, st, don
  <1>7. q \in Pipe_t
    BY <1>1, <1>3, <1>4, <1>5, <1>6 DEF Pipe_t
  <1>8. /\ q.irp_state = st /\ q.done = don /\ q.pending = pend
        /\ q.is_active = p.is_active /\ q.buf = p.buf /\ q.result = p.result
        /\ q.to_fill = p.to_fill /\ q.to_exec = p.to_exec /\ q.to_parse = p.to_parse
        /\ q.wr_idx = p.wr_idx /\ q.rd_idx = p.rd_idx /\ q.fr_idx = p.fr_idx
        /\ q.executing = p.executing /\ q.chan_busy = p.chan_busy /\ q.state = p.state
    BY <1>1, <1>6 DEF Pipe_t
  <1>9. RingOK(q)
    BY <1>1, <1>8 DEF RingOK, RingWindows, Counted, Indexed, Occupied, Reported, Filled
  <1>10. \A i \in Irp : q.irp_state[i] = IF i = irp THEN "DONE" ELSE p.irp_state[i]
    BY <1>1, <1>8 DEF st
  <1>11. PendingOK(q)
    <2>1. \A i \in Irp : p.irp_state[i] = "PENDING" <=> InQueue(p.pending, i)
      BY <1>1 DEF IrpsOK, PendingOK, InQueue
    <2>2. \A i \in Irp : q.irp_state[i] = "PENDING" <=> InQueue(q.pending, i)
      BY <1>3, <1>8, <1>10, <2>1
    <2> QED BY <1>3, <1>8, <2>2 DEF PendingOK, InQueue, NoDuplicates
  <1>12. InFlightOK(q)
    BY <1>1, <1>8, <1>10 DEF IrpsOK, InFlightOK
  <1>13. DoneOK(q)
    <2>1. \A i \in Irp : q.irp_state[i] = "DONE" <=> p.irp_state[i] = "DONE" \/ i = irp
      BY <1>10
    <2>2. q.done = Append(p.done, [irp |-> irp, status |-> "CANCELED"])
      BY <1>8 DEF don
    <2> QED BY <1>1, <2>1, <2>2, OneAppended DEF IrpsOK
  <1>14. p.state = "INVALID" => q.state = "INVALID" /\ Flushed(q)
    <2>1. p.pending # << >>
      BY <1>1, <1>2 DEF InQueue
    <2> QED BY <2>1 DEF Sound, Flushed
  <1>15. Follows(p, q)
    BY <1>7, <1>8, <1>9, <1>10, <1>11, <1>12, <1>13, <1>14 DEF Follows, SameIrps, Sound, IrpsOK, Stray
  <1> QED BY <1>15 DEF q

-----------------------------------------------------------------------------
(* Commands and flags *)

\* The flush of a command is a step of a pipe whose channel is at rest.
LEMMA FlushAndRetireFollows ==
    ASSUME NEW p, Sound(p), ~p.executing \/ ~p.chan_busy
    PROVE  LET q == FlushAndRetire(p) IN
           Follows(p, q) /\ Flushed(q) /\ q.state = p.state
  <1> DEFINE q == FlushAndRetire(p)
  <1>1. /\ Sound(q) /\ Flushed(q) /\ q.is_active = p.is_active
        /\ \A i \in Irp : q.irp_state[i] = "IDLE" <=> p.irp_state[i] = "IDLE"
        /\ q.state = p.state /\ q.chan_busy = p.chan_busy
    BY FlushRetire DEF Sound, FlushAndRetire
  <1> QED BY <1>1 DEF Follows, SameIrps, Stray

\* The flags that the port sets in a pipe.
LEMMA PortFlags ==
    ASSUME NEW p, Sound(p), NEW b \in BOOLEAN
    PROVE  /\ Follows(p, [p EXCEPT !.waiting_xfer_done = b])
           /\ Follows(p, [p EXCEPT !.paused = b])
           /\ Follows(p, [p EXCEPT !.chan_busy = FALSE])
           /\ ~Stray([p EXCEPT !.chan_busy = FALSE])
  <1>1. p \in Pipe_t
    BY DEF Sound
  <1>2. ASSUME NEW q, q \in Pipe_t, SameRing(p, q), q.executing = p.executing, q.state = p.state,
               q.chan_busy => p.chan_busy
        PROVE  Follows(p, q)
    <2>1. q.executing \in BOOLEAN /\ p.executing \in BOOLEAN
      BY <1>1, <1>2 DEF Pipe_t
    <2> QED BY <1>2, <2>1, SameRingSound DEF Sound
  <1> DEFINE q == [p EXCEPT !.waiting_xfer_done = b]
             r == [p EXCEPT !.paused = b]
             s == [p EXCEPT !.chan_busy = FALSE]
  <1>3. q \in Pipe_t /\ SameRing(p, q) /\ q.executing = p.executing /\ q.state = p.state
        /\ q.chan_busy = p.chan_busy
    BY <1>1 DEF Pipe_t, SameRing
  <1>4. r \in Pipe_t /\ SameRing(p, r) /\ r.executing = p.executing /\ r.state = p.state
        /\ r.chan_busy = p.chan_busy
    BY <1>1 DEF Pipe_t, SameRing
  <1>5. s \in Pipe_t /\ SameRing(p, s) /\ s.executing = p.executing /\ s.state = p.state
        /\ s.chan_busy = FALSE
    BY <1>1 DEF Pipe_t, SameRing
  <1>6. ~Stray(s)
    BY <1>5 DEF Stray
  <1> HIDE DEF q, r, s
  <1>7. Follows(p, q) /\ Follows(p, r) /\ Follows(p, s)
    BY <1>2, <1>3, <1>4, <1>5
  <1> QED BY <1>6, <1>7 DEF q, r, s

\* So is every command that has nothing in flight to wait for.
LEMMA CommandedFollows ==
    ASSUME NEW p, Sound(p), p.state # "INVALID", NEW cmd \in PipeCmd,
           cmd # "CLEAR" => ~p.executing \/ ~p.chan_busy
    PROVE  Follows(p, Commanded(p, cmd))
  <1>1. p \in Pipe_t
    BY DEF Sound
  <1>2. CASE cmd = "ABORT"
    <2>1. Follows(p, FlushAndRetire(p))
      BY <1>2, FlushAndRetireFollows
    <2> QED BY <1>2, <2>1 DEF Commanded
  <1>3. CASE cmd = "RESET"
    <2> DEFINE f == FlushAndRetire(p)
               q == [f EXCEPT !.state = "ACTIVE"]
    <2>1. Follows(p, f) /\ f.state = p.state
      BY <1>3, FlushAndRetireFollows
    <2> HIDE DEF f
    <2>2. Sound(f) /\ f \in Pipe_t
      BY <2>1 DEF Follows, Sound
    <2>3. q \in Pipe_t
      BY <2>2 DEF Pipe_t, PipeState
    <2>4. /\ SameRing(f, q) /\ q.executing = f.executing /\ q.chan_busy = f.chan_busy
          /\ q.state = "ACTIVE"
      BY <2>2, <2>3 DEF Pipe_t, SameRing
    <2> HIDE DEF q
    <2>5. Follows(f, q)
      BY <2>1, <2>2, <2>3, <2>4, SameRingSound
    <2>6. Follows(p, q)
      BY <2>1, <2>5, FollowsTransitive
    <2> QED BY <1>3, <2>6 DEF Commanded, q, f
  <1>4. CASE cmd = "HALT"
    <2> DEFINE q == [p EXCEPT !.state = "HALTED"]
    <2>1. q \in Pipe_t
      BY <1>1 DEF Pipe_t, PipeState
    <2>2. /\ SameRing(p, q) /\ q.executing = p.executing /\ q.chan_busy = p.chan_busy
          /\ q.state = "HALTED"
      BY <1>1, <2>1 DEF Pipe_t, SameRing
    <2> HIDE DEF q
    <2>3. Follows(p, q)
      BY <2>1, <2>2, SameRingSound
    <2> QED BY <1>4, <2>3 DEF Commanded, q
  <1>5. CASE cmd = "CLEAR" /\ p.state = "HALTED"
    <2> DEFINE q == [p EXCEPT !.state = "ACTIVE"]
    <2>1. q \in Pipe_t
      BY <1>1 DEF Pipe_t, PipeState
    <2>2. /\ SameRing(p, q) /\ q.executing = p.executing /\ q.chan_busy = p.chan_busy
          /\ q.state = "ACTIVE"
      BY <1>1, <2>1 DEF Pipe_t, SameRing
    <2> HIDE DEF q
    <2>3. Follows(p, q)
      BY <2>1, <2>2, SameRingSound
    <2>4. Follows(q, FillAndExec(q))
      BY <2>3, FillAndExecFollows DEF Follows
    <2>5. Follows(p, FillAndExec(q))
      BY <2>3, <2>4, FollowsTransitive
    <2> QED BY <1>5, <2>5 DEF Commanded, q
  <1>6. CASE cmd = "CLEAR" /\ p.state # "HALTED"
    <2>1. Follows(p, p)
      BY FollowsReflexive
    <2> QED BY <1>6, <2>1 DEF Commanded
  <1> QED BY <1>2, <1>3, <1>4, <1>5, <1>6 DEF PipeCmd

\* A command that waited goes on as a step of its pipe, valid or not.
LEMMA ResumedFollows ==
    ASSUME NEW p, Sound(p), NEW cmd \in WaitingCmd, cmd # "NONE",
           p.state = "INVALID" \/ ~p.chan_busy
    PROVE  Follows(p, Resumed(p, cmd))
  <1> DEFINE stop == [p EXCEPT !.waiting_xfer_done = FALSE]
             r == CASE p.state # "INVALID" -> Commanded(p, cmd)
                    [] p.state = "INVALID" /\ cmd = "ABORT" -> FlushAndRetire(stop)
                    [] OTHER -> stop
             q == [r EXCEPT !.pipe_cmd_processing = FALSE]
  <1>1. Follows(p, stop) /\ stop.state = p.state /\ stop.executing = p.executing
    <2>1. p \in Pipe_t
      BY DEF Sound
    <2>2. stop \in Pipe_t
      BY <2>1 DEF Pipe_t
    <2>3. /\ SameRing(p, stop) /\ stop.executing = p.executing /\ stop.chan_busy = p.chan_busy
          /\ stop.state = p.state
      BY <2>1, <2>2 DEF Pipe_t, SameRing
    <2> HIDE DEF stop
    <2> QED BY <2>2, <2>3, SameRingSound DEF Sound
  <1> HIDE DEF stop
  <1>2. Follows(p, r)
    <2>1. CASE p.state # "INVALID"
      BY <2>1, CommandedFollows DEF WaitingCmd, PipeCmd
    <2>2. CASE p.state = "INVALID" /\ cmd = "ABORT"
      <3>1. Sound(stop) /\ ~stop.executing
        BY <1>1, <2>2 DEF Follows, Sound, Flushed
      <3>2. Follows(stop, FlushAndRetire(stop))
        BY <3>1, FlushAndRetireFollows
      <3>3. Follows(p, FlushAndRetire(stop))
        BY <1>1, <3>2, FollowsTransitive
      <3> QED BY <2>2, <3>3
    <2>3. CASE p.state = "INVALID" /\ cmd # "ABORT"
      BY <1>1, <2>3
    <2> QED BY <2>1, <2>2, <2>3
  <1>3. Resumed(p, cmd) = q
    BY DEF Resumed, stop
  <1> HIDE DEF r
  <1>4. Follows(r, q)
    <2>1. r \in Pipe_t /\ Sound(r)
      BY <1>2 DEF Follows, Sound
    <2>2. q \in Pipe_t
      BY <2>1 DEF Pipe_t
    <2>3. /\ SameRing(r, q) /\ q.executing = r.executing /\ q.chan_busy = r.chan_busy
          /\ q.state = r.state
      BY <2>1, <2>2 DEF Pipe_t, SameRing
    <2> HIDE DEF q
    <2> QED BY <2>1, <2>2, <2>3, SameRingSound DEF Sound
  <1> QED BY <1>2, <1>3, <1>4, FollowsTransitive

-----------------------------------------------------------------------------
(* The invariant of the driver: of its pipes and lists, and of its port *)

\* The part of the invariant that is about pipes and lists.
PipePart ==
    /\ pipes \in [Pipe -> Pipe_t]
    /\ idle_tailq \in Seq(Pipe)
    /\ active_tailq \in Seq(Pipe)
    /\ RingConsistent
    /\ IrpConservation
    /\ IrpOwnedOnce
    /\ ListsConsistent
    /\ InvalidPipesFlushed

\* The part that is about the port.
PortPart ==
    /\ pipe_cmd \in [Pipe -> WaitingCmd]
    /\ pipe_notified \in [Pipe -> BOOLEAN]
    /\ port \in Port_t
    /\ port_op \in PortOp
    /\ hw \in Hw
    /\ StraysUnheard
    /\ NoDeviceToInvalidate
    /\ EnabledByReset
    /\ WaitCounted
    /\ CursorListed

\* The invariant is the two parts.
LEMMA IInvParts == IInv <=> PipePart /\ PortPart
BY DEF IInv, TypeOK, PipePart, PortPart

\* The same of the next state.
LEMMA NextParts == PipePart' /\ PortPart' => IInv'
BY DEF IInv, TypeOK, PipePart, PortPart

\* The pipes are sound.
LEMMA PipesSound ==
    ASSUME PipePart
    PROVE  \A p \in Pipe : Sound(pipes[p])
BY DEF PipePart, RingConsistent, IrpConservation, InvalidPipesFlushed, Sound

\* The lists, in terms of the operators above.
LEMMA ListsNamed ==
    ListsConsistent <=>
        /\ \A p \in Pipe :
              /\ InQueue(active_tailq, p) <=> pipes[p].is_active
              /\ pipes[p].is_active <=> ~HoldsNothing(pipes[p])
              /\ ~(InQueue(active_tailq, p) /\ InQueue(idle_tailq, p))
        /\ NoDuplicates(idle_tailq)
        /\ NoDuplicates(active_tailq)
BY DEF ListsConsistent, NoDuplicates

\* A step that is one of each pipe, or leaves it alone, and moves no pipe from
\* list to list.
LEMMA AllFollow ==
    ASSUME PipePart, DOMAIN pipes' = Pipe, pipes' = [p \in Pipe |-> pipes'[p]],
           \A p \in Pipe : Sound(pipes'[p]) /\ SameIrps(pipes[p], pipes'[p]),
           UNCHANGED <<idle_tailq, active_tailq>>
    PROVE  PipePart'
  <1>1. \A p \in Pipe : Sound(pipes[p])
    BY PipesSound
  <1>2. pipes' \in [Pipe -> Pipe_t]
    BY DEF Sound
  <1>3. RingConsistent' /\ IrpConservation' /\ InvalidPipesFlushed'
    BY DEF Sound, RingConsistent, IrpConservation, InvalidPipesFlushed
  <1>4. \A p \in Pipe, i \in Irp : pipes'[p].irp_state[i] = "IDLE" <=> pipes[p].irp_state[i] = "IDLE"
    BY DEF SameIrps
  <1>5. \A p \in Pipe : HoldsNothing(pipes'[p]) <=> HoldsNothing(pipes[p])
    BY <1>1, <1>4, HoldsNothingIffIdle
  <1>6. \A p \in Pipe : pipes'[p].is_active = pipes[p].is_active
    BY DEF SameIrps
  <1>7. ListsConsistent'
    BY <1>5, <1>6 DEF PipePart, ListsConsistent, InQueue, HoldsNothing
  <1>8. IrpOwnedOnce'
    BY <1>4 DEF PipePart, IrpOwnedOnce, Allocated, InQueue
  <1> QED BY <1>2, <1>3, <1>7, <1>8 DEF PipePart

\* The same when the step touches one pipe only.
LEMMA OneFollows ==
    ASSUME PipePart, NEW p \in Pipe, NEW q, Follows(pipes[p], q),
           pipes' = [pipes EXCEPT ![p] = q],
           UNCHANGED <<idle_tailq, active_tailq>>
    PROVE  /\ PipePart'
           /\ \A x \in Pipe : Stray(pipes'[x]) => Stray(pipes[x])
           /\ \A x \in Pipe : pipes[x].state = "INVALID" => pipes'[x].state = "INVALID"
  <1>1. pipes \in [Pipe -> Pipe_t]
    BY DEF PipePart
  <1>2. \A x \in Pipe : Follows(pipes[x], pipes[x])
    BY PipesSound, FollowsReflexive
  <1>3. \A x \in Pipe : Follows(pipes[x], pipes'[x])
    BY <1>1, <1>2
  <1>4. PipePart'
    BY <1>1, <1>3, AllFollow DEF Follows
  <1> QED BY <1>3, <1>4 DEF Follows, SameIrps

-----------------------------------------------------------------------------
(* The initial state and the port alone *)

\* The port has as many pipes to wait for as there are pipes, at most.
LEMMA PipeCount == Cardinality(Pipe) \in Nat
BY PipeAssumption, FS_CardinalityType

\* The invariant holds of the port after hcd_port_init.
LEMMA InitIInv == Init => IInv
  <1> SUFFICES ASSUME Init PROVE IInv
    OBVIOUS
  <1>1. \A p \in Pipe : (p \in CtrlPipe) \in BOOLEAN /\ pipes[p] = NewPipe(p \in CtrlPipe)
    BY DEF Init
  <1>2. \A p \in Pipe :
           /\ Sound(pipes[p]) /\ ~pipes[p].is_active /\ ~Stray(pipes[p]) /\ HoldsNothing(pipes[p])
           /\ pipes[p].state = "ACTIVE"
           /\ \A i \in Irp : pipes[p].irp_state[i] = "IDLE"
    BY <1>1, NewPipeSound
  <1>3. pipes \in [Pipe -> Pipe_t]
    BY <1>2 DEF Init, Sound
  <1>4. idle_tailq \in Seq(Pipe) /\ active_tailq \in Seq(Pipe)
    BY DEF Init
  <1>5. ListsConsistent
    BY <1>2 DEF Init, ListsConsistent, InQueue
  <1>6. PipePart
    BY <1>2, <1>3, <1>4, <1>5
       DEF PipePart, Sound, RingConsistent, IrpConservation, IrpOwnedOnce, InvalidPipesFlushed
  <1>7. port \in Port_t /\ port_op \in PortOp /\ hw \in Hw
    BY PipeCount DEF Init, Port_t, PortState, PortEvent, PortOp, PortOpAt, Hw, Idle, At
  <1>8. PortPart
    BY <1>2, <1>7
       DEF Init, PortPart, WaitingCmd, StraysUnheard, NoDeviceToInvalidate, EnabledByReset,
           WaitCounted, CursorListed, LostPending, Invalidating, InReset, Idle, At
  <1> QED BY <1>6, <1>8, IInvParts

\* A step that leaves the pipes and the lists alone.
LEMMA PipesKept ==
    ASSUME PipePart, UNCHANGED <<pipes, idle_tailq, active_tailq>>
    PROVE  PipePart'
BY DEF PipePart, RingConsistent, IrpConservation, IrpOwnedOnce, ListsConsistent,
       InvalidPipesFlushed, Allocated, InQueue

\* A step of the port alone: no device is enabled but at the end of a reset,
\* and no pipe is invalidated.
LEMMA PortStep ==
    ASSUME IInv, UNCHANGED pipeVars,
           port' \in Port_t, port_op' \in PortOp, hw' \in Hw,
           port'.conn_devc_ena \/ InReset' => port.conn_devc_ena \/ InReset,
           Invalidating' => port_op' = port_op,
           NoDeviceToInvalidate', EnabledByReset', WaitCounted'
    PROVE  IInv'
  <1>1. PipePart /\ PortPart
    BY IInvParts
  <1>2. UNCHANGED <<pipes, idle_tailq, active_tailq, pipe_cmd, pipe_notified>>
    BY DEF pipeVars
  <1>3. PipePart'
    BY <1>1, <1>2, PipesKept
  <1>4. StraysUnheard'
    BY <1>1, <1>2 DEF PortPart, StraysUnheard
  <1>5. CursorListed'
    BY <1>1, <1>2 DEF PortPart, CursorListed, Invalidating, Allocated, InQueue
  <1>6. PortPart'
    BY <1>1, <1>2, <1>4, <1>5 DEF PortPart
  <1> QED BY <1>3, <1>6, NextParts

-----------------------------------------------------------------------------
(* The port interrupt *)

\* A device appears.
LEMMA IntrConnStep == IInv /\ IntrConn => IInv'
  <1> SUFFICES ASSUME IInv, IntrConn PROVE IInv'
    OBVIOUS
  <1>1. PortPart
    BY IInvParts
  <1>2. port' \in Port_t /\ hw' \in Hw
    BY <1>1 DEF PortPart, IntrConn, Raise, Port_t, PortEvent, Hw
  <1>3. NoDeviceToInvalidate' /\ EnabledByReset' /\ WaitCounted'
    BY <1>1 DEF PortPart, IntrConn, Raise, NoDeviceToInvalidate, EnabledByReset, WaitCounted,
                LostPending, Invalidating, Port_t, Hw
  <1>4. port'.conn_devc_ena = port.conn_devc_ena
    BY <1>1 DEF PortPart, IntrConn, Raise, Port_t
  <1> QED BY <1>1, <1>2, <1>3, <1>4, PortStep DEF PortPart, IntrConn, InReset

\* A device disappears.
LEMMA IntrDisconnStep == IInv /\ IntrDisconn => IInv'
  <1> SUFFICES ASSUME IInv, IntrDisconn PROVE IInv'
    OBVIOUS
  <1>1. PortPart
    BY IInvParts
  <1>2. port' \in Port_t /\ hw' \in Hw
    BY <1>1 DEF PortPart, IntrDisconn, Raise, Port_t, PortEvent, PortState, Hw
  <1>3. NoDeviceToInvalidate' /\ EnabledByReset' /\ WaitCounted'
    BY <1>1 DEF PortPart, IntrDisconn, Raise, NoDeviceToInvalidate, EnabledByReset, WaitCounted,
                LostPending, Invalidating, Port_t, Hw
  <1>4. port'.conn_devc_ena => port.conn_devc_ena
    BY <1>1 DEF PortPart, IntrDisconn, Raise, Port_t
  <1> QED BY <1>1, <1>2, <1>3, <1>4, PortStep DEF PortPart, IntrDisconn, InReset

\* The enable bit is set at the end of a reset.
LEMMA IntrEnabledStep == IInv /\ IntrEnabled => IInv'
  <1> SUFFICES ASSUME IInv, IntrEnabled PROVE IInv'
    OBVIOUS
  <1>1. PortPart
    BY IInvParts
  <1>2. port' \in Port_t /\ hw' \in Hw
    BY <1>1 DEF PortPart, IntrEnabled, Port_t, PortState, Hw
  <1>3. port_op.at = "reset_recovery" /\ ~LostPending
    BY <1>1 DEF PortPart, IntrEnabled, EnabledByReset
  <1>4. NoDeviceToInvalidate' /\ EnabledByReset' /\ WaitCounted'
    BY <1>1, <1>3 DEF PortPart, IntrEnabled, NoDeviceToInvalidate, EnabledByReset, WaitCounted,
                LostPending, Invalidating, Port_t, Hw
  <1> QED BY <1>1, <1>2, <1>3, <1>4, PortStep DEF PortPart, IntrEnabled, InReset

\* The enable bit is cleared.
LEMMA IntrDisabledStep == IInv /\ IntrDisabled => IInv'
  <1> SUFFICES ASSUME IInv, IntrDisabled PROVE IInv'
    OBVIOUS
  <1>1. PortPart
    BY IInvParts
  <1>2. port' \in Port_t /\ hw' \in Hw
    BY <1>1 DEF PortPart, IntrDisabled, PortDisabled, Raise, Port_t, PortEvent, PortState, Hw
  <1>3. /\ ~port'.conn_devc_ena
        /\ port'.waiting_all_pipes_pause = port.waiting_all_pipes_pause
        /\ port'.num_pipes_waiting_pause = port.num_pipes_waiting_pause
        /\ port'.state = "RESETTING" => LostPending' = LostPending /\ port.state = "RESETTING"
        /\ hw'.change = "NONE"
    BY <1>1 DEF PortPart, IntrDisabled, PortDisabled, Raise, Port_t, LostPending, Hw
  <1>4. NoDeviceToInvalidate' /\ EnabledByReset' /\ WaitCounted'
    BY <1>1, <1>3 DEF PortPart, IntrDisabled, NoDeviceToInvalidate, EnabledByReset, WaitCounted
  <1> QED BY <1>1, <1>2, <1>3, <1>4, PortStep DEF PortPart, IntrDisabled, InReset

\* The port draws too much current, and loses its power.
LEMMA IntrOvercurrentStep == IInv /\ IntrOvercurrent => IInv'
  <1> SUFFICES ASSUME IInv, IntrOvercurrent PROVE IInv'
    OBVIOUS
  <1>1. PortPart
    BY IInvParts
  <1>2. port' \in Port_t /\ hw' \in Hw
    <2>1. port \in Port_t /\ hw \in Hw
      BY <1>1 DEF PortPart
    <2>2. hw' \in Hw
      BY <2>1 DEF IntrOvercurrent, PoweredOff, Hw
    <2>3. port' \in Port_t
      BY <2>1 DEF IntrOvercurrent, Raise, Port_t, PortEvent, PortState
    <2> QED BY <2>2, <2>3
  <1>3. /\ ~port'.conn_devc_ena
        /\ port'.waiting_all_pipes_pause = port.waiting_all_pipes_pause
        /\ port'.num_pipes_waiting_pause = port.num_pipes_waiting_pause
        /\ port'.state = "NOT_POWERED"
    BY <1>1 DEF PortPart, IntrOvercurrent, Raise, Port_t
  <1>4. hw'.change = "ENABLED" => hw.change = "ENABLED" /\ LostPending' = LostPending
    BY <1>1 DEF PortPart, IntrOvercurrent, PoweredOff, Raise, Port_t, LostPending, Hw
  <1>5. NoDeviceToInvalidate' /\ EnabledByReset' /\ WaitCounted'
    BY <1>1, <1>3, <1>4 DEF PortPart, IntrOvercurrent, NoDeviceToInvalidate, EnabledByReset, WaitCounted
  <1> QED BY <1>1, <1>2, <1>3, <1>5, PortStep DEF PortPart, IntrOvercurrent, InReset

-----------------------------------------------------------------------------
(* Port commands that leave the pipes alone, and the delays *)

\* Power on.
LEMMA PowerOnStep == IInv /\ PowerOn => IInv'
  <1> SUFFICES ASSUME IInv, PowerOn PROVE IInv'
    OBVIOUS
  <1>1. PortPart
    BY IInvParts
  <1>2. port' \in Port_t /\ hw' \in Hw
    BY <1>1 DEF PortPart, PowerOn, Port_t, PortState, Hw
  <1>3. NoDeviceToInvalidate' /\ EnabledByReset' /\ WaitCounted'
    BY <1>1 DEF PortPart, PowerOn, CommandAllowed, NoDeviceToInvalidate, EnabledByReset,
                WaitCounted, LostPending, Invalidating, Port_t, Hw
  <1>4. port'.conn_devc_ena = port.conn_devc_ena
    BY <1>1 DEF PortPart, PowerOn, Port_t
  <1> QED BY <1>1, <1>2, <1>3, <1>4, PortStep DEF PortPart, PowerOn, InReset

\* Power off.
LEMMA PowerOffStep == IInv /\ PowerOff => IInv'
  <1> SUFFICES ASSUME IInv, PowerOff PROVE IInv'
    OBVIOUS
  <1>1. PortPart
    BY IInvParts
  <1>2. port' \in Port_t /\ hw' \in Hw
    BY <1>1 DEF PortPart, PowerOff, PoweredOff, Port_t, PortState, Hw
  <1>3. NoDeviceToInvalidate' /\ EnabledByReset' /\ WaitCounted'
    BY <1>1 DEF PortPart, PowerOff, PoweredOff, CommandAllowed, NoDeviceToInvalidate, EnabledByReset,
                WaitCounted, LostPending, Invalidating, Port_t, Hw
  <1>4. port'.conn_devc_ena = port.conn_devc_ena
    BY <1>1 DEF PortPart, PowerOff, Port_t
  <1> QED BY <1>1, <1>2, <1>3, <1>4, PortStep DEF PortPart, PowerOff, InReset

\* The bus reset is released: the device is enabled if it is still there.
LEMMA ResetReleaseStep == IInv /\ ResetRelease => IInv'
  <1> SUFFICES ASSUME IInv, ResetRelease PROVE IInv'
    OBVIOUS
  <1>1. PortPart
    BY IInvParts
  <1>2. port' \in Port_t /\ port_op' \in PortOp /\ hw' \in Hw
    <2>1. port' \in Port_t /\ hw' \in Hw
      BY <1>1 DEF PortPart, ResetRelease, Hw
    <2>2. port_op' \in PortOp
      BY DEF ResetRelease, PortOp, PortOpAt, Idle, At
    <2> QED BY <2>1, <2>2
  <1>3. NoDeviceToInvalidate' /\ EnabledByReset' /\ WaitCounted'
    BY <1>1 DEF PortPart, ResetRelease, Idle, At, NoDeviceToInvalidate, EnabledByReset,
                WaitCounted, LostPending, Invalidating, Hw
  <1>4. InReset' => InReset
    BY DEF ResetRelease, InReset
  <1>5. ~Invalidating'
    BY DEF ResetRelease, Invalidating, Idle, At
  <1> QED BY <1>1, <1>2, <1>3, <1>4, <1>5, PortStep DEF PortPart, ResetRelease

\* The reset command returns.
LEMMA ResetEndStep == IInv /\ ResetEnd => IInv'
  <1> SUFFICES ASSUME IInv, ResetEnd PROVE IInv'
    OBVIOUS
  <1>1. PortPart
    BY IInvParts
  <1>2. port' \in Port_t /\ port_op' \in PortOp /\ hw' \in Hw
    BY <1>1 DEF PortPart, ResetEnd, PortOp, PortOpAt, Idle, At
  <1>3. /\ NoDeviceToInvalidate' /\ EnabledByReset' /\ WaitCounted'
        /\ ~InReset' /\ ~Invalidating'
    BY <1>1 DEF PortPart, ResetEnd, Idle, At, NoDeviceToInvalidate, EnabledByReset,
                WaitCounted, LostPending, Invalidating, InReset
  <1> QED BY <1>1, <1>2, <1>3, PortStep DEF PortPart, ResetEnd

\* The pipes have stopped, and the port is suspended.
LEMMA SuspendWakeStep == IInv /\ SuspendWake => IInv'
  <1> SUFFICES ASSUME IInv, SuspendWake PROVE IInv'
    OBVIOUS
  <1>1. PortPart
    BY IInvParts
  <1>2. port' \in Port_t /\ port_op' \in PortOp /\ hw' \in Hw
    BY <1>1 DEF PortPart, SuspendWake, Port_t, PortState, PortOp, PortOpAt, Idle, At
  <1>3. /\ port'.conn_devc_ena = port.conn_devc_ena
        /\ LostPending' = LostPending
        /\ port'.waiting_all_pipes_pause = port.waiting_all_pipes_pause
        /\ port'.num_pipes_waiting_pause = port.num_pipes_waiting_pause
    BY <1>1 DEF PortPart, SuspendWake, Port_t, LostPending
  <1>4. ~InReset' /\ ~Invalidating' /\ port_op'.at = "idle" /\ hw' = hw /\ port_op.at = "suspend_wait"
    BY DEF SuspendWake, Idle, At, Invalidating, InReset
  <1>5. NoDeviceToInvalidate' /\ EnabledByReset' /\ WaitCounted'
    BY <1>1, <1>3, <1>4 DEF PortPart, NoDeviceToInvalidate, EnabledByReset, WaitCounted
  <1> QED BY <1>1, <1>2, <1>3, <1>4, <1>5, PortStep DEF PortPart, SuspendWake

\* The port starts to resume the bus.
LEMMA ResumeStep == IInv /\ Resume => IInv'
  <1> SUFFICES ASSUME IInv, Resume PROVE IInv'
    OBVIOUS
  <1>1. PortPart
    BY IInvParts
  <1>2. port' \in Port_t /\ port_op' \in PortOp /\ hw' \in Hw
    BY <1>1 DEF PortPart, Resume, Port_t, PortState, PortOp, PortOpAt, At
  <1>3. /\ port'.conn_devc_ena = port.conn_devc_ena
        /\ LostPending' = LostPending
        /\ port'.waiting_all_pipes_pause = port.waiting_all_pipes_pause
        /\ port'.num_pipes_waiting_pause = port.num_pipes_waiting_pause
    BY <1>1 DEF PortPart, Resume, Port_t, LostPending
  <1>4. ~InReset' /\ ~Invalidating' /\ port_op'.at = "resume_hold" /\ hw' = hw /\ port_op.at = "idle"
    BY DEF Resume, CommandAllowed, At, Invalidating, InReset
  <1>5. NoDeviceToInvalidate' /\ EnabledByReset' /\ WaitCounted'
    BY <1>1, <1>3, <1>4 DEF PortPart, NoDeviceToInvalidate, EnabledByReset, WaitCounted
  <1> QED BY <1>1, <1>2, <1>3, <1>4, <1>5, PortStep DEF PortPart, Resume

\* The port goes on resuming the bus, or gives up.
LEMMA ResumeReleaseStep == IInv /\ ResumeRelease => IInv'
  <1> SUFFICES ASSUME IInv, ResumeRelease PROVE IInv'
    OBVIOUS
  <1>1. PortPart
    BY IInvParts
  <1>2. port_op' \in PortOp
    BY DEF ResumeRelease, PortOp, PortOpAt, Idle, At
  <1>3. ~InReset' /\ ~Invalidating' /\ port_op'.at \in {"idle", "resume_recovery"}
        /\ port_op.at = "resume_hold"
    BY DEF ResumeRelease, Idle, At, Invalidating, InReset
  <1>4. NoDeviceToInvalidate' /\ EnabledByReset' /\ WaitCounted'
    BY <1>1, <1>3 DEF PortPart, ResumeRelease, NoDeviceToInvalidate, EnabledByReset, WaitCounted, LostPending
  <1> QED BY <1>1, <1>2, <1>3, <1>4, PortStep DEF PortPart, ResumeRelease

\* The driver asks for the disabling of the port.
LEMMA RequestDisableStep ==
    ASSUME IInv, port_op.at \in {"idle", "disable_wait"}, NEW pt \in Port_t, RequestDisable(pt), UNCHANGED pipeVars,
           pt.state # "DISABLED",
           pt.conn_devc_ena = port.conn_devc_ena,
           pt.event_pending = port.event_pending,
           pt.last_event = port.last_event,
           pt.waiting_all_pipes_pause = port.waiting_all_pipes_pause,
           pt.num_pipes_waiting_pause = port.num_pipes_waiting_pause
    PROVE  IInv'
  <1>1. PortPart
    BY IInvParts
  <1>2. port' \in Port_t /\ port_op' \in PortOp /\ hw' \in Hw
    BY <1>1 DEF PortPart, RequestDisable, NoLongerEnabled, Port_t, PortOp, PortOpAt, At, Hw
  <1>3. /\ port'.conn_devc_ena = port.conn_devc_ena
        /\ LostPending' = LostPending
        /\ hw'.change = "ENABLED" => hw.change = "ENABLED"
        /\ port'.waiting_all_pipes_pause = port.waiting_all_pipes_pause
        /\ port'.num_pipes_waiting_pause = port.num_pipes_waiting_pause
        /\ port'.state # "DISABLED"
    BY <1>1 DEF RequestDisable, NoLongerEnabled, Port_t, Hw, PortPart, LostPending
  <1>4. ~InReset' /\ ~Invalidating' /\ port_op'.at = "disable_ack"
    BY DEF RequestDisable, At, Invalidating, InReset
  <1>5. NoDeviceToInvalidate' /\ EnabledByReset' /\ WaitCounted'
    BY <1>1, <1>3, <1>4 DEF PortPart, NoDeviceToInvalidate, EnabledByReset, WaitCounted
  <1> QED BY <1>1, <1>2, <1>3, <1>4, <1>5, PortStep DEF PortPart

\* The pipes have stopped, and the port is disabled.
LEMMA DisableWakeStep == IInv /\ DisableWake => IInv'
  <1> SUFFICES ASSUME IInv, DisableWake PROVE IInv'
    OBVIOUS
  <1> DEFINE awake == [port EXCEPT !.notified = FALSE]
  <1>1. PortPart
    BY IInvParts
  <1>2. /\ awake \in Port_t
        /\ awake.state = port.state
        /\ awake.conn_devc_ena = port.conn_devc_ena
        /\ awake.event_pending = port.event_pending
        /\ awake.last_event = port.last_event
        /\ awake.waiting_all_pipes_pause = port.waiting_all_pipes_pause
        /\ awake.num_pipes_waiting_pause = port.num_pipes_waiting_pause
    BY <1>1 DEF PortPart, Port_t
  <1>3. CASE PortStillEnabled
    <2>1. RequestDisable(awake) /\ UNCHANGED pipeVars /\ port_op.at = "disable_wait"
          /\ awake.state = "ENABLED"
      BY <1>2, <1>3 DEF DisableWake, PortStillEnabled
    <2> HIDE DEF awake
    <2> QED BY <1>2, <2>1, RequestDisableStep
  <1>4. CASE ~PortStillEnabled
    <2>1. port' = awake /\ port_op' = Idle /\ UNCHANGED <<hw, pipeVars>>
      BY <1>4 DEF DisableWake
    <2> HIDE DEF awake
    <2>2. port' \in Port_t /\ port_op' \in PortOp /\ hw' \in Hw
      BY <1>1, <1>2, <2>1 DEF PortPart, PortOp, PortOpAt, Idle, At
    <2>3. LostPending' = LostPending
      BY <1>2, <2>1 DEF LostPending
    <2>4. ~InReset' /\ ~Invalidating' /\ port_op'.at = "idle" /\ port_op.at = "disable_wait"
      BY <2>1 DEF DisableWake, Idle, At, Invalidating, InReset
    <2>5. NoDeviceToInvalidate' /\ EnabledByReset' /\ WaitCounted'
      BY <1>1, <1>2, <2>1, <2>3, <2>4 DEF PortPart, NoDeviceToInvalidate, EnabledByReset, WaitCounted
    <2> QED BY <1>2, <2>1, <2>2, <2>4, <2>5, PortStep
  <1> QED BY <1>3, <1>4

\* A connection or a disconnection is handled.
LEMMA HandleDebouncedStep == IInv /\ HandleDebounced => IInv'
  <1> SUFFICES ASSUME IInv, HandleDebounced PROVE IInv'
    OBVIOUS
  <1>1. PortPart
    BY IInvParts
  <1>2. port' \in Port_t /\ port_op' \in PortOp
    <2>1. port' \in Port_t
      BY <1>1 DEF PortPart, HandleDebounced, Port_t, PortState
    <2>2. port_op' \in PortOp
      BY <1>1 DEF PortPart, HandleDebounced, PortOp, PortOpAt, At
    <2> QED BY <2>1, <2>2
  <1>3. /\ port'.conn_devc_ena = port.conn_devc_ena
        /\ ~LostPending'
        /\ port'.waiting_all_pipes_pause = port.waiting_all_pipes_pause
        /\ port'.num_pipes_waiting_pause = port.num_pipes_waiting_pause
    BY <1>1 DEF PortPart, HandleDebounced, Port_t, LostPending
  <1>4. ~InReset' /\ ~Invalidating' /\ port_op'.at \in {"idle", "debounce"} /\ port_op.at = "idle"
        /\ hw' = hw
    BY DEF HandleDebounced, At, Invalidating, InReset
  <1>5. NoDeviceToInvalidate' /\ EnabledByReset' /\ WaitCounted'
    BY <1>1, <1>3, <1>4 DEF PortPart, NoDeviceToInvalidate, EnabledByReset, WaitCounted
  <1> QED BY <1>1, <1>2, <1>3, <1>4, <1>5, PortStep DEF PortPart, HandleDebounced

\* The debounce delay is over.
LEMMA DebouncedStep == IInv /\ Debounced => IInv'
  <1> SUFFICES ASSUME IInv, Debounced PROVE IInv'
    OBVIOUS
  <1>1. PortPart
    BY IInvParts
  <1>2. port' \in Port_t /\ port_op' \in PortOp /\ hw' \in Hw
    <2>1. port' \in Port_t /\ hw' \in Hw
      BY <1>1 DEF PortPart, Debounced, Port_t, PortState, Hw
    <2>2. port_op' \in PortOp
      BY DEF Debounced, PortOp, PortOpAt, Idle, At
    <2> QED BY <2>1, <2>2
  <1>3. /\ port'.conn_devc_ena = port.conn_devc_ena
        /\ LostPending' = LostPending
        /\ port'.waiting_all_pipes_pause = port.waiting_all_pipes_pause
        /\ port'.num_pipes_waiting_pause = port.num_pipes_waiting_pause
        /\ hw'.change = hw.change
    BY <1>1 DEF PortPart, Debounced, Port_t, LostPending, Hw
  <1>4. ~InReset' /\ ~Invalidating' /\ port_op'.at = "idle" /\ port_op.at = "debounce"
    BY DEF Debounced, Idle, At, Invalidating, InReset
  <1>5. NoDeviceToInvalidate' /\ EnabledByReset' /\ WaitCounted'
    BY <1>1, <1>3, <1>4 DEF PortPart, NoDeviceToInvalidate, EnabledByReset, WaitCounted
  <1> QED BY <1>1, <1>2, <1>3, <1>4, <1>5, PortStep DEF PortPart, Debounced

\* The port is recovered.
LEMMA RecoverStep == IInv /\ Recover => IInv'
  <1> SUFFICES ASSUME IInv, Recover PROVE IInv'
    OBVIOUS
  <1>1. PortPart
    BY IInvParts
  <1>2. port' \in Port_t /\ hw' \in Hw
    BY <1>1 DEF PortPart, Recover, Port_t, PortState, PortEvent, Hw
  <1>3. /\ port'.conn_devc_ena = port.conn_devc_ena
        /\ ~LostPending'
        /\ port'.waiting_all_pipes_pause = port.waiting_all_pipes_pause
        /\ port'.num_pipes_waiting_pause = port.num_pipes_waiting_pause
        /\ hw'.change = "NONE"
    BY <1>1 DEF PortPart, Recover, Port_t, LostPending
  <1>4. ~InReset' /\ ~Invalidating' /\ port_op' = port_op /\ port_op.at = "idle"
    BY DEF Recover, Invalidating, InReset
  <1>5. NoDeviceToInvalidate' /\ EnabledByReset' /\ WaitCounted'
    BY <1>1, <1>3, <1>4 DEF PortPart, NoDeviceToInvalidate, EnabledByReset, WaitCounted
  <1> QED BY <1>1, <1>2, <1>3, <1>4, <1>5, PortStep DEF PortPart, Recover

-----------------------------------------------------------------------------
(* Port commands that change all pipes *)

\* A step that is one of each pipe and of the port, as PortStep and AllFollow say.
LEMMA PipesStep ==
    ASSUME IInv, PipePart', UNCHANGED <<idle_tailq, active_tailq>>,
           pipe_cmd' \in [Pipe -> WaitingCmd], pipe_notified' \in [Pipe -> BOOLEAN],
           port' \in Port_t, port_op' \in PortOp, hw' \in Hw,
           \A p \in Pipe : Stray(pipes'[p]) =>
               /\ Stray(pipes[p])
               /\ port'.conn_devc_ena \/ InReset' => port.conn_devc_ena \/ InReset,
           \A p \in Pipe : pipes[p].state = "INVALID" => pipes'[p].state = "INVALID",
           Invalidating' => port_op' = port_op,
           NoDeviceToInvalidate', EnabledByReset', WaitCounted'
    PROVE  IInv'
  <1>1. PipePart /\ PortPart
    BY IInvParts
  <1>2. StraysUnheard'
    BY <1>1 DEF PortPart, StraysUnheard
  <1>3. CursorListed'
    BY <1>1 DEF PortPart, CursorListed, Invalidating, Allocated, InQueue
  <1>4. PortPart'
    BY <1>1, <1>2, <1>3 DEF PortPart
  <1> QED BY <1>4, NextParts

\* A reset stops the channels.
LEMMA ResetStep == IInv /\ Reset => IInv'
  <1> SUFFICES ASSUME IInv, Reset PROVE IInv'
    OBVIOUS
  <1>1. PipePart /\ PortPart /\ \A p \in Pipe : Sound(pipes[p])
    BY IInvParts, PipesSound
  <1>2. \A p \in Pipe : Follows(pipes[p], pipes'[p]) /\ ~Stray(pipes'[p])
    <2>1. \A p \in Pipe : pipes'[p] = [pipes[p] EXCEPT !.chan_busy = FALSE]
      BY DEF Reset
    <2> QED BY <1>1, <2>1, PortFlags
  <1>3. PipePart'
    <2>1. DOMAIN pipes' = Pipe /\ pipes' = [p \in Pipe |-> pipes'[p]]
      BY DEF Reset
    <2> QED BY <1>1, <1>2, <2>1, AllFollow DEF Follows, Reset
  <1>4. port' \in Port_t /\ port_op' \in PortOp /\ hw' \in Hw
    <2>1. port' \in Port_t /\ port_op' \in PortOp
      BY <1>1 DEF PortPart, Reset, Port_t, PortState, PortOp, PortOpAt, At
    <2>2. hw' \in Hw
      BY <1>1 DEF PortPart, Reset, NoLongerEnabled, Hw
    <2> QED BY <2>1, <2>2
  <1>5. /\ port'.conn_devc_ena = port.conn_devc_ena
        /\ ~LostPending'
        /\ port'.waiting_all_pipes_pause = port.waiting_all_pipes_pause
        /\ port'.num_pipes_waiting_pause = port.num_pipes_waiting_pause
        /\ hw'.change = "ENABLED" => hw.change = "ENABLED"
    BY <1>1 DEF PortPart, Reset, CommandAllowed, NoLongerEnabled, Port_t, LostPending, Hw
  <1>6. ~Invalidating' /\ port_op'.at = "reset_hold" /\ port_op.at = "idle"
    BY DEF Reset, CommandAllowed, At, Invalidating
  <1>7. NoDeviceToInvalidate' /\ EnabledByReset' /\ WaitCounted'
    BY <1>1, <1>5, <1>6 DEF PortPart, NoDeviceToInvalidate, EnabledByReset, WaitCounted
  <1>8. \A p \in Pipe : pipes[p].state = "INVALID" => pipes'[p].state = "INVALID"
    BY <1>2 DEF Follows, SameIrps
  <1>9. /\ pipe_cmd' \in [Pipe -> WaitingCmd] /\ pipe_notified' \in [Pipe -> BOOLEAN]
        /\ UNCHANGED <<idle_tailq, active_tailq>>
    BY <1>1 DEF PortPart, Reset
  <1> QED BY <1>2, <1>3, <1>4, <1>6, <1>7, <1>8, <1>9, PipesStep

\* The pipes are resumed with the port.
LEMMA ResumeEndStep == IInv /\ ResumeEnd => IInv'
  <1> SUFFICES ASSUME IInv, ResumeEnd PROVE IInv'
    OBVIOUS
  <1>1. PipePart /\ PortPart /\ \A p \in Pipe : Sound(pipes[p])
    BY IInvParts, PipesSound
  <1>2. /\ pipe_cmd' \in [Pipe -> WaitingCmd] /\ pipe_notified' \in [Pipe -> BOOLEAN]
        /\ UNCHANGED <<idle_tailq, active_tailq, hw>>
        /\ port_op'.at = "idle" /\ port_op.at = "resume_recovery"
        /\ ~Invalidating' /\ ~InReset'
    BY <1>1 DEF PortPart, ResumeEnd, Idle, At, Invalidating, InReset
  <1>3. port' \in Port_t /\ port_op' \in PortOp /\ hw' \in Hw
    <2>1. port' \in Port_t
      BY <1>1 DEF PortPart, ResumeEnd, Port_t, PortState
    <2>2. port_op' \in PortOp /\ hw' \in Hw
      BY <1>1 DEF PortPart, ResumeEnd, PortOp, PortOpAt, Idle, At
    <2> QED BY <2>1, <2>2
  <1>4. /\ port'.conn_devc_ena = port.conn_devc_ena
        /\ LostPending' = LostPending
        /\ port'.waiting_all_pipes_pause = port.waiting_all_pipes_pause
        /\ port'.num_pipes_waiting_pause = port.num_pipes_waiting_pause
    BY <1>1 DEF PortPart, ResumeEnd, Port_t, LostPending
  <1>5. NoDeviceToInvalidate' /\ EnabledByReset' /\ WaitCounted'
    BY <1>1, <1>2, <1>4 DEF PortPart, NoDeviceToInvalidate, EnabledByReset, WaitCounted
  <1>6. PipePart' /\ \A p \in Pipe : Follows(pipes[p], pipes'[p])
    <2>1. CASE UNCHANGED pipes
      <3>1. \A p \in Pipe : Follows(pipes[p], pipes'[p])
        BY <1>1, <2>1, FollowsReflexive
      <3> QED BY <1>1, <1>2, <2>1, <3>1, PipesKept
    <2>2. CASE UnpauseAllPipes
      <3>1. \A p \in Pipe : Follows(pipes[p], pipes'[p])
        <4> SUFFICES ASSUME NEW p \in Pipe PROVE Follows(pipes[p], pipes'[p])
          OBVIOUS
        <4> DEFINE b == pipes[p].paused /\ ~Allocated(p)
                   r == [pipes[p] EXCEPT !.paused = b]
        <4>1. pipes'[p] = IF InQueue(active_tailq, p) THEN FillAndExec(r) ELSE r
          BY <2>2 DEF UnpauseAllPipes
        <4>2. b \in BOOLEAN
          OBVIOUS
        <4> HIDE DEF b
        <4>3. Follows(pipes[p], r)
          BY <1>1, <4>2, PortFlags
        <4> HIDE DEF r
        <4>4. Follows(r, FillAndExec(r))
          BY <4>3, FillAndExecFollows DEF Follows
        <4> QED BY <4>1, <4>3, <4>4, FollowsTransitive
      <3>2. DOMAIN pipes' = Pipe /\ pipes' = [p \in Pipe |-> pipes'[p]]
        BY <2>2 DEF UnpauseAllPipes
      <3> QED BY <1>1, <1>2, <3>1, <3>2, AllFollow DEF Follows
    <2> QED BY <2>1, <2>2 DEF ResumeEnd
  <1>7. \A p \in Pipe : /\ Stray(pipes'[p]) => Stray(pipes[p])
                        /\ pipes[p].state = "INVALID" => pipes'[p].state = "INVALID"
    BY <1>6 DEF Follows, SameIrps
  <1> QED BY <1>2, <1>3, <1>4, <1>5, <1>6, <1>7, PipesStep

\* The pipes are paused, or told to stop, before a suspend or a disable.
LEMMA PausedPipes ==
    ASSUME IInv, NEW at, PauseAllPipes(TRUE, at)
    PROVE  /\ PipePart'
           /\ \A p \in Pipe : Follows(pipes[p], pipes'[p])
  <1>1. PipePart /\ \A p \in Pipe : Sound(pipes[p])
    BY IInvParts, PipesSound
  <1>2. \A p \in Pipe : Follows(pipes[p], pipes'[p])
    <2> SUFFICES ASSUME NEW p \in Pipe PROVE Follows(pipes[p], pipes'[p])
      OBVIOUS
    <2> DEFINE b == pipes[p].paused \/ Allocated(p)
               q == [pipes[p] EXCEPT !.waiting_xfer_done = TRUE]
               r == [pipes[p] EXCEPT !.paused = b]
    <2>1. pipes'[p] = IF p \in Transferring THEN q ELSE r
      BY DEF PauseAllPipes
    <2>2. b \in BOOLEAN
      OBVIOUS
    <2> HIDE DEF b
    <2>3. Follows(pipes[p], q) /\ Follows(pipes[p], r)
      BY <1>1, <2>2, PortFlags
    <2> HIDE DEF q, r
    <2> QED BY <2>1, <2>3
  <1>3. DOMAIN pipes' = Pipe /\ pipes' = [p \in Pipe |-> pipes'[p]]
    BY DEF PauseAllPipes
  <1> QED BY <1>1, <1>2, <1>3, AllFollow DEF Follows, PauseAllPipes

\* The port that has a pipe to wait for blocks.
LEMMA PauseWaits ==
    ASSUME IInv, NEW at \in {"suspend_wait", "disable_wait"}, PauseAllPipes(TRUE, at),
           Transferring # {}, port_op.at = "idle"
    PROVE  IInv'
  <1>1. PortPart
    BY IInvParts
  <1>2. PipePart' /\ \A p \in Pipe : Follows(pipes[p], pipes'[p])
    BY PausedPipes
  <1>3. Cardinality(Transferring) \in 0 .. Cardinality(Pipe) /\ Cardinality(Transferring) > 0
    <2>1. Transferring \in SUBSET Pipe
      BY DEF Transferring
    <2>2. IsFiniteSet(Transferring) /\ Cardinality(Transferring) <= Cardinality(Pipe)
      BY <2>1, PipeAssumption, FS_Subset
    <2>3. Cardinality(Transferring) \in Nat /\ Cardinality(Transferring) # 0
      BY <2>2, FS_CardinalityType, FS_EmptySet
    <2> QED BY <2>2, <2>3, PipeCount
  <1>4. /\ port' = [port EXCEPT !.waiting_all_pipes_pause = TRUE,
                                !.num_pipes_waiting_pause = Cardinality(Transferring)]
        /\ port_op' = At(at) /\ UNCHANGED <<hw, idle_tailq, active_tailq, pipe_cmd, pipe_notified>>
    BY DEF PauseAllPipes
  <1>5. port' \in Port_t /\ port_op' \in PortOp /\ hw' \in Hw
    BY <1>1, <1>3, <1>4 DEF PortPart, Port_t, PortOp, PortOpAt, At
  <1>6. /\ port'.conn_devc_ena = port.conn_devc_ena
        /\ LostPending' = LostPending
        /\ port'.num_pipes_waiting_pause > 0
    BY <1>1, <1>3, <1>4 DEF PortPart, Port_t, LostPending
  <1>7. ~Invalidating' /\ ~InReset' /\ port_op'.at \in {"suspend_wait", "disable_wait"}
    BY <1>4 DEF At, Invalidating, InReset
  <1>8. NoDeviceToInvalidate' /\ EnabledByReset' /\ WaitCounted'
    BY <1>1, <1>4, <1>6, <1>7 DEF PortPart, NoDeviceToInvalidate, EnabledByReset, WaitCounted
  <1>9. \A p \in Pipe : /\ Stray(pipes'[p]) => Stray(pipes[p])
                        /\ pipes[p].state = "INVALID" => pipes'[p].state = "INVALID"
    BY <1>2 DEF Follows, SameIrps
  <1> QED BY <1>1, <1>2, <1>4, <1>5, <1>6, <1>7, <1>8, <1>9, PipesStep DEF PortPart

\* Suspend.
LEMMA SuspendStep == IInv /\ Suspend => IInv'
  <1> SUFFICES ASSUME IInv, Suspend PROVE IInv'
    OBVIOUS
  <1>1. PortPart /\ port_op.at = "idle" /\ port.state = "ENABLED"
    BY IInvParts DEF Suspend, CommandAllowed
  <1>2. CASE Transferring # {}
    <2>1. PauseAllPipes(TRUE, "suspend_wait")
      BY <1>2 DEF Suspend, PauseAllPipes
    <2> QED BY <1>1, <1>2, <2>1, PauseWaits
  <1>3. CASE Transferring = {}
    <2>1. /\ PauseAllPipes(TRUE, "suspend_wait")
          /\ port' = [port EXCEPT !.state = "SUSPENDED"]
          /\ UNCHANGED <<port_op, hw, idle_tailq, active_tailq, pipe_cmd, pipe_notified>>
      BY <1>3 DEF Suspend, PauseAllPipes
    <2>2. PipePart' /\ \A p \in Pipe : Follows(pipes[p], pipes'[p])
      BY <2>1, PausedPipes
    <2>3. port' \in Port_t
      BY <1>1, <2>1 DEF PortPart, Port_t, PortState
    <2>4. /\ port'.conn_devc_ena = port.conn_devc_ena
          /\ LostPending' = LostPending
          /\ port'.waiting_all_pipes_pause = port.waiting_all_pipes_pause
          /\ port'.num_pipes_waiting_pause = port.num_pipes_waiting_pause
      BY <1>1, <2>1 DEF PortPart, Port_t, LostPending
    <2>5. ~Invalidating' /\ ~InReset'
      BY <1>1, <2>1 DEF Invalidating, InReset
    <2>6. NoDeviceToInvalidate' /\ EnabledByReset' /\ WaitCounted'
      BY <1>1, <2>1, <2>4, <2>5 DEF PortPart, NoDeviceToInvalidate, EnabledByReset, WaitCounted
    <2>7. \A p \in Pipe : /\ Stray(pipes'[p]) => Stray(pipes[p])
                          /\ pipes[p].state = "INVALID" => pipes'[p].state = "INVALID"
      BY <2>2 DEF Follows, SameIrps
    <2> QED BY <1>1, <2>1, <2>2, <2>3, <2>4, <2>5, <2>6, <2>7, PipesStep DEF PortPart
  <1> QED BY <1>2, <1>3

\* Disable.
LEMMA DisableStep == IInv /\ Disable => IInv'
  <1> SUFFICES ASSUME IInv, Disable PROVE IInv'
    OBVIOUS
  <1>1. PortPart /\ port_op.at = "idle"
    BY IInvParts DEF Disable, CommandAllowed
  <1>2. CASE Transferring # {} /\ port.state = "ENABLED"
    <2>1. PauseAllPipes(TRUE, "disable_wait")
      BY <1>2 DEF Disable, PauseAllPipes
    <2> QED BY <1>1, <1>2, <2>1, PauseWaits
  <1>3. CASE Transferring = {} /\ port.state = "ENABLED"
    <2>1. /\ PauseAllPipes(TRUE, "disable_wait")
          /\ RequestDisable(port)
          /\ UNCHANGED <<idle_tailq, active_tailq, pipe_cmd, pipe_notified>>
      BY <1>3 DEF Disable, PauseAllPipes
    <2>2. PipePart' /\ \A p \in Pipe : Follows(pipes[p], pipes'[p])
      BY <2>1, PausedPipes
    <2>3. port' \in Port_t /\ port_op' \in PortOp /\ hw' \in Hw
      BY <1>1, <2>1 DEF PortPart, RequestDisable, NoLongerEnabled, Port_t, PortOp, PortOpAt, At, Hw
    <2>4. /\ port'.conn_devc_ena = port.conn_devc_ena
          /\ LostPending' = LostPending
          /\ port'.state = port.state
          /\ port'.waiting_all_pipes_pause = port.waiting_all_pipes_pause
          /\ port'.num_pipes_waiting_pause = port.num_pipes_waiting_pause
          /\ hw'.change = "ENABLED" => hw.change = "ENABLED"
      BY <1>1, <2>1 DEF PortPart, RequestDisable, NoLongerEnabled, Port_t, Hw, LostPending
    <2>5. ~Invalidating' /\ ~InReset' /\ port_op'.at = "disable_ack"
      BY <2>1 DEF RequestDisable, At, Invalidating, InReset
    <2>6. NoDeviceToInvalidate' /\ EnabledByReset' /\ WaitCounted'
      BY <1>1, <1>3, <2>4, <2>5 DEF PortPart, NoDeviceToInvalidate, EnabledByReset, WaitCounted
    <2>7. \A p \in Pipe : /\ Stray(pipes'[p]) => Stray(pipes[p])
                          /\ pipes[p].state = "INVALID" => pipes'[p].state = "INVALID"
      BY <2>2 DEF Follows, SameIrps
    <2> QED BY <1>1, <2>1, <2>2, <2>3, <2>4, <2>5, <2>6, <2>7, PipesStep DEF PortPart
  <1>4. CASE port.state = "SUSPENDED"
    <2>1. RequestDisable(port) /\ UNCHANGED pipeVars /\ port \in Port_t
      BY <1>1, <1>4 DEF Disable, PortPart
    <2> QED BY <1>1, <1>4, <2>1, RequestDisableStep
  <1> QED BY <1>2, <1>3, <1>4 DEF Disable

-----------------------------------------------------------------------------
(* The invalidation of the pipes *)

\* A pipe that is invalidated is flushed, and keeps its place.
LEMMA InvalidatedFollows ==
    ASSUME NEW p, Sound(p)
    PROVE  LET q == Invalidated(p) IN
           Sound(q) /\ SameIrps(p, q) /\ q.state = "INVALID"
  <1> DEFINE r == [p EXCEPT !.state = "INVALID", !.last_event = "INVALID"]
  <1>1. p \in Pipe_t
    BY DEF Sound
  <1>2. r \in Pipe_t /\ SameRing(p, r) /\ r.state = "INVALID" /\ r.executing = p.executing
    BY <1>1 DEF Pipe_t, SameRing, PipeState, PipeEvent
  <1>3. Invalidated(p) = Retire(BufferFlushAll(r, FALSE), FALSE)
    BY DEF Invalidated
  <1> HIDE DEF r
  <1>4. RingOK(r) /\ IrpsOK(r)
    <2>1. RingOK(r)
      BY <1>2 DEF SameRing, Sound, RingOK, RingWindows, Counted, Indexed, Occupied, Reported, Filled
    <2>2. IrpsOK(r)
      BY <1>2 DEF SameRing, Sound, IrpsOK, PendingOK, InFlightOK, DoneOK
    <2> QED BY <2>1, <2>2
  <1> DEFINE q == Retire(BufferFlushAll(r, FALSE), FALSE)
  <1>5. /\ Sound(q) /\ q.is_active = r.is_active /\ q.state = r.state
        /\ \A i \in Irp : q.irp_state[i] = "IDLE" <=> r.irp_state[i] = "IDLE"
    BY <1>2, <1>4, FlushRetire
  <1> HIDE DEF q
  <1>6. SameIrps(p, q)
    BY <1>2, <1>5 DEF SameIrps, SameRing
  <1> QED BY <1>2, <1>3, <1>5, <1>6 DEF q

\* An idle pipe has nothing to flush.
LEMMA InvalidatedIdleFollows ==
    ASSUME NEW p, Sound(p), HoldsNothing(p)
    PROVE  LET q == InvalidatedIdle(p) IN
           Sound(q) /\ SameIrps(p, q) /\ q.state = "INVALID"
  <1> DEFINE q == InvalidatedIdle(p)
  <1>1. p \in Pipe_t /\ p.executing \in BOOLEAN /\ p.chan_busy \in BOOLEAN /\ p.to_exec = 0
    BY DEF Sound, Pipe_t, HoldsNothing
  <1>2. /\ q \in Pipe_t /\ SameRing(p, q) /\ q.state = "INVALID"
        /\ q.executing = p.executing /\ q.chan_busy = p.chan_busy
    <2>1. p \in Pipe_t
      BY <1>1
    <2>2. q \in Pipe_t
      BY <2>1 DEF InvalidatedIdle, Pipe_t, PipeState, PipeEvent
    <2>3. SameRing(p, q)
      BY <2>1 DEF InvalidatedIdle, Pipe_t, SameRing
    <2>4. q.state = "INVALID" /\ q.executing = p.executing /\ q.chan_busy = p.chan_busy
      BY <2>1 DEF InvalidatedIdle, Pipe_t
    <2> QED BY <2>2, <2>3, <2>4
  <1>3. Flushed(p)
    BY <1>1 DEF HoldsNothing, Flushed, Sound, RingOK, RingWindows
  <1> HIDE DEF q
  <1>4. Follows(p, q)
    BY <1>1, <1>2, <1>3, SameRingSound
  <1> QED BY <1>2, <1>4 DEF Follows, q

\* One pipe is made invalid.
LEMMA OneInvalidated ==
    ASSUME PipePart, NEW p \in Pipe, NEW q,
           Sound(q), SameIrps(pipes[p], q),
           pipes' = [pipes EXCEPT ![p] = q], UNCHANGED <<idle_tailq, active_tailq>>
    PROVE  PipePart'
  <1>1. \A x \in Pipe : Sound(pipes[x]) /\ SameIrps(pipes[x], pipes[x])
    BY PipesSound DEF SameIrps
  <1>2. pipes \in [Pipe -> Pipe_t]
    BY DEF PipePart
  <1>3. \A x \in Pipe : Sound(pipes'[x]) /\ SameIrps(pipes[x], pipes'[x])
    BY <1>1, <1>2
  <1>4. DOMAIN pipes' = Pipe /\ pipes' = [x \in Pipe |-> pipes'[x]]
    BY <1>2
  <1> QED BY <1>3, <1>4, AllFollow

\* Where the invalidation of the pipes leaves the port.
LEMMA InvalidatedPort ==
    ASSUME IInv, PipePart',
           UNCHANGED <<idle_tailq, active_tailq, pipe_cmd, hw>>,
           pipe_notified' \in [Pipe -> BOOLEAN], port' \in Port_t, hw.change # "ENABLED",
           ~port'.conn_devc_ena, WaitCounted', port_op' \in PortOp,
           port_op'.at \in {"idle", "invalidate_active", "invalidate_idle"},
           Invalidating' => port_op'.cur \in Pipe /\ Allocated(port_op'.cur),
           port_op'.at = "invalidate_idle" =>
               InQueue(idle_tailq, port_op'.cur) /\ pipes'[port_op'.cur].state = "INVALID"
    PROVE  IInv'
  <1>1. PortPart
    BY IInvParts
  <1>2. StraysUnheard'
    BY DEF StraysUnheard, InReset
  <1>3. NoDeviceToInvalidate' /\ EnabledByReset'
    BY DEF NoDeviceToInvalidate, EnabledByReset
  <1>4. CursorListed'
    BY DEF CursorListed, Allocated, InQueue
  <1>5. PortPart'
    BY <1>1, <1>2, <1>3, <1>4 DEF PortPart
  <1> QED BY <1>5, NextParts

\* The first pipe of a list is in it.
LEMMA FirstListed ==
    ASSUME NEW q \in Seq(Pipe)
    PROVE  First(q) # NoPipe => First(q) \in Pipe /\ InQueue(q, First(q))
  <1>1. CASE q = << >>
    BY <1>1 DEF First
  <1>2. CASE q # << >>
    <2>1. 1 \in 1 .. Len(q) /\ q[1] \in Pipe /\ First(q) = q[1]
      BY <1>2 DEF First
    <2> QED BY <2>1 DEF InQueue
  <1> QED BY <1>1, <1>2

\* The next one is in the same list.
LEMMA NextListed ==
    ASSUME NEW p \in Pipe, PipePart, Allocated(p)
    PROVE  /\ NextInList(p) # NoPipe => NextInList(p) \in Pipe /\ Allocated(NextInList(p))
           /\ InQueue(idle_tailq, p) /\ NextInList(p) # NoPipe => InQueue(idle_tailq, NextInList(p))
  <1> DEFINE NextIn(q) == LET k == CHOOSE k \in 1 .. Len(q) : q[k] = p
                          IN  IF k < Len(q) THEN q[k + 1] ELSE NoPipe
  <1>1. ASSUME NEW q \in Seq(Pipe), InQueue(q, p), NextIn(q) # NoPipe
        PROVE  NextIn(q) \in Pipe /\ InQueue(q, NextIn(q))
    <2> DEFINE k == CHOOSE k \in 1 .. Len(q) : q[k] = p
    <2>1. k \in 1 .. Len(q)
      BY <1>1 DEF InQueue
    <2>2. NextIn(q) = IF k < Len(q) THEN q[k + 1] ELSE NoPipe
      OBVIOUS
    <2> HIDE DEF k, NextIn
    <2>3. k < Len(q) /\ NextIn(q) = q[k + 1]
      BY <1>1, <2>2
    <2>4. k + 1 \in 1 .. Len(q)
      BY <2>1, <2>3
    <2>5. q[k + 1] \in Pipe
      BY <2>4
    <2> QED BY <2>3, <2>4, <2>5 DEF InQueue
  <1>2. NextInList(p) = IF InQueue(active_tailq, p) THEN NextIn(active_tailq) ELSE NextIn(idle_tailq)
    BY DEF NextInList
  <1> HIDE DEF NextIn
  <1>3. /\ idle_tailq \in Seq(Pipe) /\ active_tailq \in Seq(Pipe)
        /\ ~(InQueue(active_tailq, p) /\ InQueue(idle_tailq, p))
    BY DEF PipePart, ListsConsistent
  <1> QED BY <1>1, <1>2, <1>3 DEF Allocated

\* One round of the first loop.
LEMMA InvalidateStep ==
    ASSUME IInv, NEW p \in Pipe \union {NoPipe}, p # NoPipe => Allocated(p), InvalidateActive(p),
           UNCHANGED <<idle_tailq, active_tailq, pipe_cmd, hw>>,
           port' \in Port_t, hw.change # "ENABLED", ~port'.conn_devc_ena, WaitCounted'
    PROVE  IInv'
  <1>1. PipePart /\ PortPart /\ \A x \in Pipe : Sound(pipes[x])
    BY IInvParts, PipesSound
  <1>2. pipe_notified \in [Pipe -> BOOLEAN] /\ port_op \in PortOp
    BY <1>1 DEF PortPart
  <1>3. CASE p # NoPipe
    <2>1. /\ p \in Pipe
          /\ pipes' = [pipes EXCEPT ![p] = Invalidated(@)]
          /\ pipe_notified' = [pipe_notified EXCEPT ![p] = @ \/ pipe_cmd[p] # "NONE"]
          /\ port_op' = [port_op EXCEPT !.at = "invalidate_active", !.cur = p]
      BY <1>3 DEF InvalidateActive, WaiterNotified
    <2>2. PipePart'
      <3>1. pipes' = [pipes EXCEPT ![p] = Invalidated(pipes[p])]
        BY <2>1
      <3>2. Sound(Invalidated(pipes[p])) /\ SameIrps(pipes[p], Invalidated(pipes[p]))
        BY <1>1, <2>1, InvalidatedFollows
      <3> QED BY <1>1, <2>1, <3>1, <3>2, OneInvalidated
    <2>3. pipe_notified' \in [Pipe -> BOOLEAN]
      BY <1>2, <2>1
    <2>4. port_op' \in PortOp /\ port_op'.at = "invalidate_active" /\ port_op'.cur = p
      BY <1>2, <2>1 DEF PortOp, PortOpAt
    <2> QED BY <1>3, <2>1, <2>2, <2>3, <2>4, InvalidatedPort
  <1>4. CASE p = NoPipe /\ First(idle_tailq) = NoPipe
    <2>1. UNCHANGED <<pipes, pipe_notified>> /\ port_op' = Idle
      BY <1>4 DEF InvalidateActive
    <2>2. PipePart'
      BY <1>1, <2>1, PipesKept
    <2>3. port_op' \in PortOp /\ port_op'.at = "idle" /\ ~Invalidating'
      BY <2>1 DEF PortOp, PortOpAt, Idle, At, Invalidating
    <2> QED BY <1>2, <2>1, <2>2, <2>3, InvalidatedPort
  <1>5. CASE p = NoPipe /\ First(idle_tailq) # NoPipe
    <2> DEFINE q == First(idle_tailq)
    <2>1. /\ UNCHANGED pipe_notified
          /\ pipes' = [pipes EXCEPT ![q] = InvalidatedIdle(@)]
          /\ port_op' = [port_op EXCEPT !.at = "invalidate_idle", !.cur = q]
      BY <1>5 DEF InvalidateActive
    <2>2. q \in Pipe /\ InQueue(idle_tailq, q)
      BY <1>1, <1>5, FirstListed DEF PipePart
    <2> HIDE DEF q
    <2>3. HoldsNothing(pipes[q])
      BY <1>1, <2>2 DEF PipePart, ListsConsistent
    <2>4. LET r == InvalidatedIdle(pipes[q]) IN
          Sound(r) /\ SameIrps(pipes[q], r) /\ r.state = "INVALID"
      BY <1>1, <2>2, <2>3, InvalidatedIdleFollows
    <2>5. pipes' = [pipes EXCEPT ![q] = InvalidatedIdle(pipes[q])]
      BY <2>1
    <2>6. PipePart'
      BY <1>1, <2>2, <2>4, <2>5, OneInvalidated
    <2>7. pipes'[q].state = "INVALID"
      BY <1>1, <2>2, <2>4, <2>5 DEF PipePart
    <2>8. port_op' \in PortOp /\ port_op'.at = "invalidate_idle" /\ port_op'.cur = q
      BY <1>2, <2>1, <2>2 DEF PortOp, PortOpAt
    <2> QED BY <1>2, <2>1, <2>2, <2>6, <2>7, <2>8, InvalidatedPort DEF Allocated
  <1> QED BY <1>3, <1>4, <1>5

\* The first loop goes on.
LEMMA InvalidateNextActiveStep == IInv /\ InvalidateNextActive => IInv'
  <1> SUFFICES ASSUME IInv, InvalidateNextActive PROVE IInv'
    OBVIOUS
  <1>1. PipePart /\ PortPart
    BY IInvParts
  <1>2. port_op.cur \in Pipe /\ Allocated(port_op.cur) /\ ~port.conn_devc_ena /\ hw.change # "ENABLED"
    BY <1>1 DEF InvalidateNextActive, PortPart, CursorListed, NoDeviceToInvalidate, Invalidating,
                EnabledByReset
  <1> DEFINE p == NextInList(port_op.cur)
  <1>3. p \in Pipe \union {NoPipe} /\ (p # NoPipe => Allocated(p))
    BY <1>1, <1>2, NextListed
  <1>4. InvalidateActive(p) /\ UNCHANGED <<idle_tailq, active_tailq, pipe_cmd, port, hw>>
    BY DEF InvalidateNextActive
  <1> HIDE DEF p
  <1>5. port' \in Port_t /\ ~port'.conn_devc_ena /\ WaitCounted'
    BY <1>1, <1>2, <1>4 DEF PortPart, WaitCounted
  <1> QED BY <1>2, <1>3, <1>4, <1>5, InvalidateStep

\* The second loop goes on.
LEMMA InvalidateNextIdleStep == IInv /\ InvalidateNextIdle => IInv'
  <1> SUFFICES ASSUME IInv, InvalidateNextIdle PROVE IInv'
    OBVIOUS
  <1>1. PipePart /\ PortPart /\ \A x \in Pipe : Sound(pipes[x])
    BY IInvParts, PipesSound
  <1>2. /\ port_op.cur \in Pipe /\ Allocated(port_op.cur) /\ ~port.conn_devc_ena /\ hw.change # "ENABLED"
        /\ InQueue(idle_tailq, port_op.cur)
    BY <1>1 DEF InvalidateNextIdle, PortPart, CursorListed, NoDeviceToInvalidate, Invalidating,
                EnabledByReset
  <1> DEFINE q == NextInList(port_op.cur)
  <1>3. /\ q # NoPipe => q \in Pipe /\ Allocated(q) /\ InQueue(idle_tailq, q)
        /\ UNCHANGED <<idle_tailq, active_tailq, pipe_cmd, pipe_notified, port, hw>>
        /\ IF q = NoPipe
           THEN UNCHANGED pipes /\ port_op' = Idle
           ELSE /\ pipes' = [pipes EXCEPT ![q] = InvalidatedIdle(@)]
                /\ port_op' = [port_op EXCEPT !.cur = q]
    BY <1>1, <1>2, NextListed DEF InvalidateNextIdle
  <1> HIDE DEF q
  <1>4. /\ port' \in Port_t /\ ~port'.conn_devc_ena /\ WaitCounted'
        /\ pipe_notified' \in [Pipe -> BOOLEAN] /\ port_op \in PortOp
    BY <1>1, <1>2, <1>3 DEF PortPart, WaitCounted
  <1>5. CASE q = NoPipe
    <2>1. UNCHANGED pipes /\ port_op' = Idle
      BY <1>3, <1>5
    <2>2. PipePart'
      BY <1>1, <1>3, <2>1, PipesKept
    <2>3. port_op' \in PortOp /\ port_op'.at = "idle" /\ ~Invalidating'
      BY <2>1 DEF PortOp, PortOpAt, Idle, At, Invalidating
    <2> QED BY <1>2, <1>3, <1>4, <2>2, <2>3, InvalidatedPort
  <1>6. CASE q # NoPipe
    <2>1. HoldsNothing(pipes[q])
      BY <1>1, <1>3, <1>6 DEF PipePart, ListsConsistent
    <2>2. LET r == InvalidatedIdle(pipes[q]) IN
          Sound(r) /\ SameIrps(pipes[q], r) /\ r.state = "INVALID"
      BY <1>1, <1>3, <1>6, <2>1, InvalidatedIdleFollows
    <2>3. pipes' = [pipes EXCEPT ![q] = InvalidatedIdle(pipes[q])]
      BY <1>3, <1>6
    <2>4. PipePart'
      BY <1>1, <1>3, <1>6, <2>2, <2>3, OneInvalidated
    <2>5. pipes'[q].state = "INVALID"
      BY <1>1, <1>3, <1>6, <2>2, <2>3 DEF PipePart
    <2>6. port_op' \in PortOp /\ port_op'.at = "invalidate_idle" /\ port_op'.cur = q
      BY <1>3, <1>4, <1>6 DEF PortOp, InvalidateNextIdle
    <2> QED BY <1>2, <1>3, <1>4, <1>6, <2>4, <2>5, <2>6, InvalidatedPort
  <1> QED BY <1>5, <1>6

\* The device is lost.
LEMMA HandleDeviceLostStep == IInv /\ HandleDeviceLost => IInv'
  <1> SUFFICES ASSUME IInv, HandleDeviceLost PROVE IInv'
    OBVIOUS
  <1>1. PipePart /\ PortPart
    BY IInvParts
  <1>2. ~port.conn_devc_ena /\ hw.change # "ENABLED"
    BY <1>1 DEF HandleDeviceLost, PortPart, NoDeviceToInvalidate, LostPending, EnabledByReset
  <1> DEFINE p == First(active_tailq)
  <1>3. p \in Pipe \union {NoPipe} /\ (p # NoPipe => Allocated(p))
    BY <1>1, FirstListed DEF PipePart, Allocated
  <1>4. InvalidateActive(p) /\ UNCHANGED <<idle_tailq, active_tailq, pipe_cmd, hw>>
    BY DEF HandleDeviceLost
  <1> HIDE DEF p
  <1>5. port' \in Port_t /\ ~port'.conn_devc_ena /\ WaitCounted'
    BY <1>1, <1>2 DEF HandleDeviceLost, PortPart, Port_t, WaitCounted
  <1> QED BY <1>2, <1>3, <1>4, <1>5, InvalidateStep

\* The port is disabled.
LEMMA DisableEndStep == IInv /\ DisableEnd => IInv'
  <1> SUFFICES ASSUME IInv, DisableEnd PROVE IInv'
    OBVIOUS
  <1>1. PipePart /\ PortPart
    BY IInvParts
  <1>2. /\ port' \in Port_t
        /\ port'.conn_devc_ena = port.conn_devc_ena
        /\ LostPending' = LostPending
        /\ port'.waiting_all_pipes_pause = port.waiting_all_pipes_pause
        /\ port'.num_pipes_waiting_pause = port.num_pipes_waiting_pause
    BY <1>1 DEF PortPart, DisableEnd, Port_t, LostPending
  <1>3. /\ port_op.at = "disable_ack" /\ hw.change # "ENABLED"
        /\ UNCHANGED <<idle_tailq, active_tailq, pipe_cmd, hw>>
        /\ WaitCounted'
    BY <1>1, <1>2 DEF DisableEnd, PortPart, EnabledByReset, WaitCounted
  <1>4. CASE port.state = "DISABLED"
    <2> DEFINE p == First(active_tailq)
    <2>1. p \in Pipe \union {NoPipe} /\ (p # NoPipe => Allocated(p))
      BY <1>1, FirstListed DEF PipePart, Allocated
    <2>2. InvalidateActive(p)
      BY <1>4 DEF DisableEnd
    <2>3. ~port'.conn_devc_ena
      BY <1>1, <1>2, <1>3, <1>4 DEF PortPart, NoDeviceToInvalidate
    <2> HIDE DEF p
    <2> QED BY <1>2, <1>3, <2>1, <2>2, <2>3, InvalidateStep
  <1>5. CASE port.state # "DISABLED"
    <2>1. port_op' = Idle /\ UNCHANGED pipeVars
      BY <1>3, <1>5 DEF DisableEnd, pipeVars
    <2>2. port_op' \in PortOp /\ port_op'.at = "idle" /\ ~Invalidating' /\ ~InReset'
      BY <2>1 DEF PortOp, PortOpAt, Idle, At, Invalidating, InReset
    <2>3. NoDeviceToInvalidate' /\ EnabledByReset'
      BY <1>1, <1>2, <1>3, <2>2 DEF PortPart, NoDeviceToInvalidate, EnabledByReset
    <2> QED BY <1>1, <1>2, <1>3, <2>1, <2>2, <2>3, PortStep DEF PortPart
  <1> QED BY <1>4, <1>5

-----------------------------------------------------------------------------
(* Pipe actions that move no pipe from list to list *)

\* A step of one pipe that the port does not see.
LEMMA PipeAlone ==
    ASSUME IInv, NEW p \in Pipe, NEW q, Follows(pipes[p], q), pipes' = [pipes EXCEPT ![p] = q],
           UNCHANGED <<idle_tailq, active_tailq, port, port_op, hw>>,
           pipe_cmd' \in [Pipe -> WaitingCmd], pipe_notified' \in [Pipe -> BOOLEAN]
    PROVE  IInv'
  <1>1. PipePart /\ PortPart
    BY IInvParts
  <1>2. /\ PipePart'
        /\ \A x \in Pipe : Stray(pipes'[x]) => Stray(pipes[x])
        /\ \A x \in Pipe : pipes[x].state = "INVALID" => pipes'[x].state = "INVALID"
    BY <1>1, OneFollows
  <1>3. /\ port' \in Port_t /\ port_op' \in PortOp /\ hw' \in Hw
        /\ NoDeviceToInvalidate' /\ EnabledByReset' /\ WaitCounted'
    BY <1>1 DEF PortPart, NoDeviceToInvalidate, EnabledByReset, WaitCounted, LostPending, Invalidating
  <1>4. InReset' = InReset
    BY DEF InReset
  <1> QED BY <1>2, <1>3, <1>4, PipesStep

\* An IRP is taken back before it is in a buffer.
LEMMA IrpAbortStep ==
    ASSUME IInv, NEW p \in Pipe, NEW irp \in Irp, IrpAbort(p, irp), UNCHANGED <<port_op, hw>>
    PROVE  IInv'
  <1>1. Sound(pipes[p]) /\ PortPart
    BY IInvParts, PipesSound
  <1>2. Follows(pipes[p], Aborted(pipes[p], irp))
    BY <1>1, AbortedFollows DEF IrpAbort
  <1>3. pipes' = [pipes EXCEPT ![p] = Aborted(pipes[p], irp)]
    BY DEF IrpAbort
  <1> QED BY <1>1, <1>2, <1>3, PipeAlone DEF IrpAbort, PortPart

\* The client reads the last event.
LEMMA PipeGetEventStep ==
    ASSUME IInv, NEW p \in Pipe, PipeGetEvent(p), UNCHANGED <<port_op, hw>>
    PROVE  IInv'
  <1> DEFINE q == [pipes[p] EXCEPT !.last_event = "NONE"]
  <1>1. Sound(pipes[p]) /\ PortPart /\ pipes[p] \in Pipe_t
    BY IInvParts, PipesSound DEF Sound
  <1>2. /\ q \in Pipe_t /\ SameRing(pipes[p], q)
        /\ q.executing = pipes[p].executing /\ q.chan_busy = pipes[p].chan_busy
        /\ q.state = pipes[p].state /\ pipes[p].executing \in BOOLEAN
    BY <1>1 DEF Pipe_t, SameRing, PipeEvent
  <1>3. pipes' = [pipes EXCEPT ![p] = q]
    BY DEF PipeGetEvent
  <1> HIDE DEF q
  <1>4. Follows(pipes[p], q)
    BY <1>1, <1>2, SameRingSound DEF Sound
  <1> QED BY <1>1, <1>3, <1>4, PipeAlone DEF PipeGetEvent, PortPart

\* A pipe that executes has its channel to wait for or a command that waits.
LEMMA PipeCommandStep ==
    ASSUME IInv, NEW p \in Pipe, NEW cmd \in PipeCmd, PipeCommand(p, cmd), UNCHANGED <<port_op, hw>>
    PROVE  IInv'
  <1>1. Sound(pipes[p]) /\ PortPart /\ pipes[p] \in Pipe_t
    BY IInvParts, PipesSound DEF Sound
  <1>2. CASE cmd # "CLEAR" /\ pipes[p].executing
    <2> DEFINE q == [pipes[p] EXCEPT !.pipe_cmd_processing = TRUE, !.waiting_xfer_done = TRUE]
    <2>1. /\ pipes' = [pipes EXCEPT ![p] = q]
          /\ pipe_cmd' = [pipe_cmd EXCEPT ![p] = cmd]
      BY <1>2 DEF PipeCommand
    <2>2. /\ q \in Pipe_t /\ SameRing(pipes[p], q)
          /\ q.executing = pipes[p].executing /\ q.chan_busy = pipes[p].chan_busy
          /\ q.state = pipes[p].state /\ pipes[p].executing \in BOOLEAN
      BY <1>1 DEF Pipe_t, SameRing
    <2> HIDE DEF q
    <2>3. Follows(pipes[p], q)
      BY <1>1, <2>2, SameRingSound DEF Sound
    <2>4. pipe_cmd' \in [Pipe -> WaitingCmd]
      BY <1>1, <1>2, <2>1 DEF PortPart, PipeCmd, WaitingCmd
    <2> QED BY <1>1, <2>1, <2>3, <2>4, PipeAlone DEF PipeCommand, PortPart
  <1>3. CASE ~(cmd # "CLEAR" /\ pipes[p].executing)
    <2>1. pipes' = [pipes EXCEPT ![p] = Commanded(pipes[p], cmd)] /\ UNCHANGED pipe_cmd
      BY <1>3 DEF PipeCommand
    <2>2. Follows(pipes[p], Commanded(pipes[p], cmd))
      BY <1>1, <1>3, CommandedFollows DEF PipeCommand
    <2> QED BY <1>1, <2>1, <2>2, PipeAlone DEF PipeCommand, PortPart
  <1> QED BY <1>2, <1>3

\* A command that waited goes on.
LEMMA PipeCommandReturnStep ==
    ASSUME IInv, NEW p \in Pipe, PipeCommandReturn(p), UNCHANGED <<port_op, hw>>
    PROVE  IInv'
  <1>1. Sound(pipes[p]) /\ PortPart
    BY IInvParts, PipesSound
  <1>2. pipe_cmd[p] \in WaitingCmd /\ pipe_cmd[p] # "NONE"
    BY <1>1 DEF PortPart, PipeCommandReturn
  <1>3. Follows(pipes[p], Resumed(pipes[p], pipe_cmd[p]))
    BY <1>1, <1>2, ResumedFollows DEF PipeCommandReturn
  <1>4. pipes' = [pipes EXCEPT ![p] = Resumed(pipes[p], pipe_cmd[p])]
    BY DEF PipeCommandReturn
  <1>5. pipe_cmd' \in [Pipe -> WaitingCmd] /\ pipe_notified' \in [Pipe -> BOOLEAN]
    BY <1>1 DEF PortPart, PipeCommandReturn, WaitingCmd
  <1> QED BY <1>3, <1>4, <1>5, PipeAlone DEF PipeCommandReturn

-----------------------------------------------------------------------------
(* The channel interrupt *)

\* A transfer that the interrupt finds has its buffer.
LEMMA InterruptFindsTransfer ==
    ASSUME IInv, NEW p \in Pipe, ChanInterrupt(p)
    PROVE  pipes[p].executing
BY IInvParts DEF PortPart, StraysUnheard, Stray, ChanInterrupt

\* The next stage of a control transfer starts.
LEMMA ChanStageStep ==
    ASSUME IInv, NEW p \in Pipe, ChanStage(p), UNCHANGED <<port_op, hw>>
    PROVE  IInv'
  <1> DEFINE q == NextStage(pipes[p])
  <1>1. Sound(pipes[p]) /\ PortPart /\ pipes[p] \in Pipe_t /\ pipes[p].executing
    BY IInvParts, PipesSound, InterruptFindsTransfer DEF Sound, ChanStage
  <1>2. pipes' = [pipes EXCEPT ![p] = q]
    BY DEF ChanStage
  <1>3. q \in Pipe_t
    <2>1. pipes[p].cur_stg \in [Idx -> 0 .. 2]
      BY <1>1 DEF Pipe_t
    <2> DEFINE rd == pipes[p].rd_idx
               next == IF pipes[p].cur_stg[rd] = 1 \/ pipes[p].buf[rd] \in NoDataStage THEN 2 ELSE 1
               stg == [pipes[p].cur_stg EXCEPT ![rd] = next]
    <2>4. next \in 0 .. 2
      OBVIOUS
    <2>3. q = [pipes[p] EXCEPT !.cur_stg = stg, !.chan_busy = TRUE]
      BY DEF NextStage
    <2> HIDE DEF next
    <2>2. stg \in [Idx -> 0 .. 2]
      BY <2>1, <2>4
    <2> HIDE DEF stg, q
    <2> QED BY <1>1, <2>2, <2>3 DEF Pipe_t
  <1>4. /\ SameRing(pipes[p], q)
        /\ q.executing = pipes[p].executing
        /\ q.state = pipes[p].state
    BY <1>1 DEF NextStage, SameRing, Pipe_t
  <1> HIDE DEF q
  <1>5. Follows(pipes[p], q)
    BY <1>1, <1>3, <1>4, SameRingSound DEF Sound
  <1> QED BY <1>1, <1>2, <1>5, PipeAlone DEF ChanStage, PortPart

\* An interrupt that is thrown away.
LEMMA ChanIgnoredStep ==
    ASSUME IInv, NEW p \in Pipe, ChanIgnored(p), UNCHANGED <<port_op, hw>>
    PROVE  IInv'
  <1>1. Sound(pipes[p]) /\ PortPart
    BY IInvParts, PipesSound
  <1>2. Follows(pipes[p], [pipes[p] EXCEPT !.chan_busy = FALSE])
    BY <1>1, PortFlags
  <1>3. pipes' = [pipes EXCEPT ![p] = [pipes[p] EXCEPT !.chan_busy = FALSE]]
    BY DEF ChanIgnored
  <1> QED BY <1>1, <1>2, <1>3, PipeAlone DEF ChanIgnored, PortPart

\* The end of an interrupt, whatever it left of the pipe.
LEMMA WakeWaiterStep ==
    ASSUME IInv, NEW p \in Pipe, NEW r, Follows(pipes[p], r), WakeWaiter(p, r),
           UNCHANGED <<idle_tailq, active_tailq, pipe_cmd, port_op, hw>>
    PROVE  IInv'
  <1>1. PipePart /\ PortPart /\ pipe_cmd' \in [Pipe -> WaitingCmd]
    BY IInvParts DEF PortPart
  <1>2. CASE ~r.waiting_xfer_done
    <2>1. pipes' = [pipes EXCEPT ![p] = r] /\ UNCHANGED <<pipe_notified, port>>
      BY <1>2 DEF WakeWaiter
    <2> QED BY <1>1, <2>1, PipeAlone DEF PortPart
  <1> DEFINE q == [r EXCEPT !.waiting_xfer_done = FALSE]
             s == [q EXCEPT !.paused = TRUE]
  <1>3. Follows(pipes[p], q) /\ Follows(pipes[p], s)
    <2>1. Follows(r, q)
      BY PortFlags DEF Follows
    <2>2. Sound(q)
      BY <2>1 DEF Follows
    <2> HIDE DEF q
    <2>3. Follows(q, s)
      BY <2>2, PortFlags
    <2> HIDE DEF s
    <2> QED BY <2>1, <2>3, FollowsTransitive
  <1>4. CASE r.waiting_xfer_done /\ ~port.waiting_all_pipes_pause
    <2>1. /\ pipes' = [pipes EXCEPT ![p] = q]
          /\ pipe_notified' = [pipe_notified EXCEPT ![p] = TRUE]
          /\ UNCHANGED port
      BY <1>4 DEF WakeWaiter
    <2>2. pipe_notified' \in [Pipe -> BOOLEAN]
      BY <1>1, <2>1 DEF PortPart
    <2> HIDE DEF q
    <2> QED BY <1>1, <1>3, <2>1, <2>2, PipeAlone
  <1>5. CASE r.waiting_xfer_done /\ port.waiting_all_pipes_pause
    <2> DEFINE n == port.num_pipes_waiting_pause - 1
               last == port.num_pipes_waiting_pause = 1
               notified == port.notified \/ last
               waiting == ~last
    <2>1. r \in Pipe_t
      BY DEF Follows, Sound
    <2>2. s = [r EXCEPT !.waiting_xfer_done = FALSE, !.paused = TRUE]
      BY <2>1 DEF Pipe_t
    <2>3. /\ pipes' = [pipes EXCEPT ![p] = s]
          /\ port' = [port EXCEPT !.num_pipes_waiting_pause = n,
                                  !.waiting_all_pipes_pause = waiting,
                                  !.notified = notified]
          /\ UNCHANGED pipe_notified
      BY <1>5, <2>2 DEF WakeWaiter, PausedNow
    <2>4. n \in 0 .. Cardinality(Pipe) /\ (waiting => n > 0)
      <3>1. port.num_pipes_waiting_pause \in 0 .. Cardinality(Pipe) /\ port.num_pipes_waiting_pause > 0
        BY <1>1, <1>5 DEF PortPart, Port_t, WaitCounted
      <3> QED BY <3>1, PipeCount
    <2>5. waiting \in BOOLEAN /\ notified \in BOOLEAN
      BY <1>1 DEF PortPart, Port_t
    <2> HIDE DEF n, notified, waiting, s
    <2>6. port' \in Port_t
      BY <1>1, <2>3, <2>4, <2>5 DEF PortPart, Port_t
    <2>7. /\ port'.conn_devc_ena = port.conn_devc_ena
          /\ port'.state = port.state
          /\ LostPending' = LostPending
          /\ port'.waiting_all_pipes_pause = waiting
          /\ port'.num_pipes_waiting_pause = n
      BY <1>1, <2>3 DEF PortPart, Port_t, LostPending
    <2>8. NoDeviceToInvalidate' /\ EnabledByReset' /\ WaitCounted'
      BY <1>1, <2>4, <2>7 DEF PortPart, NoDeviceToInvalidate, EnabledByReset, WaitCounted, Invalidating
    <2>9. /\ PipePart'
          /\ \A x \in Pipe : Stray(pipes'[x]) => Stray(pipes[x])
          /\ \A x \in Pipe : pipes[x].state = "INVALID" => pipes'[x].state = "INVALID"
      BY <1>1, <1>3, <2>3, OneFollows
    <2>10. InReset' = InReset
      BY DEF InReset
    <2> QED BY <1>1, <2>3, <2>6, <2>7, <2>8, <2>9, <2>10, PipesStep DEF PortPart
  <1> QED BY <1>2, <1>4, <1>5

\* A transfer completes.
LEMMA ChanCompleteStep ==
    ASSUME IInv, NEW p \in Pipe, ChanComplete(p), UNCHANGED <<port_op, hw>>
    PROVE  IInv'
  <1>1. Sound(pipes[p]) /\ pipes[p].executing
    BY IInvParts, PipesSound, InterruptFindsTransfer DEF ChanComplete
  <1>2. Follows(pipes[p], Completed(pipes[p]))
    BY <1>1, CompletedFollows
  <1> QED BY <1>2, WakeWaiterStep DEF ChanComplete

\* A transfer fails.
LEMMA ChanFailStep ==
    ASSUME IInv, NEW p \in Pipe, NEW error \in ChanError, ChanFail(p, error), UNCHANGED <<port_op, hw>>
    PROVE  IInv'
  <1>1. Sound(pipes[p]) /\ pipes[p].executing /\ error \in ChanError
    BY IInvParts, PipesSound, InterruptFindsTransfer, PipeAssumption DEF ChanFail
  <1>2. Follows(pipes[p], Failed(pipes[p], error))
    BY <1>1, FailedFollows
  <1> QED BY <1>2, WakeWaiterStep DEF ChanFail

-----------------------------------------------------------------------------
(* Pipe actions that move a pipe from list to list *)

\* A step of the pipes and their lists that the port does not see.
LEMMA ListStep ==
    ASSUME IInv, PipePart', UNCHANGED <<pipe_cmd, pipe_notified, port, port_op, hw>>,
           \A x \in Pipe : Stray(pipes'[x]) => Stray(pipes[x]),
           Invalidating => \A x \in Pipe :
               Allocated(x) => InQueue(idle_tailq', x) \/ InQueue(active_tailq', x),
           port_op.at = "invalidate_idle" =>
               \A x \in Pipe : InQueue(idle_tailq, x) /\ pipes[x].state = "INVALID" =>
                   InQueue(idle_tailq', x) /\ pipes'[x].state = "INVALID"
    PROVE  IInv'
  <1>1. PortPart
    BY IInvParts
  <1>2. StraysUnheard' /\ NoDeviceToInvalidate' /\ EnabledByReset' /\ WaitCounted'
    BY <1>1 DEF PortPart, StraysUnheard, NoDeviceToInvalidate, EnabledByReset, WaitCounted,
                LostPending, Invalidating, InReset
  <1>3. CursorListed'
    <2>1. Invalidating' =>
              /\ port_op'.cur \in Pipe
              /\ InQueue(idle_tailq', port_op'.cur) \/ InQueue(active_tailq', port_op'.cur)
      BY <1>1 DEF PortPart, CursorListed, Invalidating
    <2>2. port_op'.at = "invalidate_idle" =>
              InQueue(idle_tailq', port_op'.cur) /\ pipes'[port_op'.cur].state = "INVALID"
      BY <1>1 DEF PortPart, CursorListed, Invalidating
    <2> QED BY <2>1, <2>2 DEF CursorListed, Allocated, InQueue
  <1>4. PortPart'
    BY <1>1, <1>2, <1>3 DEF PortPart
  <1> QED BY <1>4, NextParts

\* What the pipes and the lists must be after the step, in terms of the operators
\* above.
LEMMA PipePartNext ==
    ASSUME NEW i, NEW a, idle_tailq' = i, active_tailq' = a,
           i \in Seq(Pipe), a \in Seq(Pipe), NoDuplicates(i), NoDuplicates(a),
           DOMAIN pipes' = Pipe, pipes' = [p \in Pipe |-> pipes'[p]],
           \A p \in Pipe :
              /\ Sound(pipes'[p])
              /\ InQueue(a, p) <=> pipes'[p].is_active
              /\ pipes'[p].is_active <=> ~HoldsNothing(pipes'[p])
              /\ ~(InQueue(a, p) /\ InQueue(i, p)),
           \A irp \in Irp, p, q \in Pipe :
              pipes'[p].irp_state[irp] # "IDLE" =>
                  /\ InQueue(i, p) \/ InQueue(a, p)
                  /\ pipes'[q].irp_state[irp] # "IDLE" => p = q
    PROVE  PipePart'
  <1>1. pipes' \in [Pipe -> Pipe_t]
    BY DEF Sound
  <1>2. RingConsistent' /\ IrpConservation' /\ InvalidPipesFlushed'
    BY DEF Sound, RingConsistent, IrpConservation, InvalidPipesFlushed
  <1>3. ListsConsistent'
    BY DEF ListsConsistent, NoDuplicates, InQueue, HoldsNothing
  <1>4. IrpOwnedOnce'
    BY DEF IrpOwnedOnce, Allocated, InQueue
  <1> QED BY <1>1, <1>2, <1>3, <1>4 DEF PipePart

\* What holds of the pipes and the lists, in the same terms.
LEMMA PipePartNow ==
    ASSUME PipePart
    PROVE  /\ idle_tailq \in Seq(Pipe) /\ active_tailq \in Seq(Pipe)
           /\ NoDuplicates(idle_tailq) /\ NoDuplicates(active_tailq)
           /\ pipes \in [Pipe -> Pipe_t]
           /\ \A p \in Pipe :
                 /\ Sound(pipes[p])
                 /\ InQueue(active_tailq, p) <=> pipes[p].is_active
                 /\ pipes[p].is_active <=> ~HoldsNothing(pipes[p])
                 /\ ~(InQueue(active_tailq, p) /\ InQueue(idle_tailq, p))
           /\ \A irp \in Irp, p, q \in Pipe :
                 pipes[p].irp_state[irp] # "IDLE" =>
                     /\ InQueue(idle_tailq, p) \/ InQueue(active_tailq, p)
                     /\ pipes[q].irp_state[irp] # "IDLE" => p = q
BY PipesSound, ListsNamed DEF PipePart, IrpOwnedOnce, Allocated

\* A pipe is allocated.
LEMMA PipeAllocStep ==
    ASSUME IInv, NEW p \in Pipe, PipeAlloc(p), UNCHANGED <<port_op, hw>>
    PROVE  IInv'
  <1> DEFINE q == NewPipe(p \in CtrlPipe)
             i == Append(idle_tailq, p)
  <1>1. PipePart /\ PortPart
    BY IInvParts
  <1>2. /\ ~InQueue(idle_tailq, p) /\ ~InQueue(active_tailq, p)
        /\ pipes' = [pipes EXCEPT ![p] = q]
        /\ idle_tailq' = i /\ active_tailq' = active_tailq
    BY DEF PipeAlloc, Allocated
  <1>3. /\ Sound(q) /\ ~q.is_active /\ ~Stray(q) /\ HoldsNothing(q)
        /\ \A x \in Irp : q.irp_state[x] = "IDLE"
    <2>1. (p \in CtrlPipe) \in BOOLEAN
      OBVIOUS
    <2> QED BY <2>1, NewPipeSound
  <1> HIDE DEF q
  <1>4. /\ i \in Seq(Pipe) /\ NoDuplicates(i)
        /\ \A x \in Pipe : InQueue(i, x) <=> InQueue(idle_tailq, x) \/ x = p
    BY <1>1, <1>2, PipePartNow, AppendList
  <1> HIDE DEF i
  <1>5. \A x \in Pipe : pipes'[x] = IF x = p THEN q ELSE pipes[x]
    BY <1>1, <1>2, PipePartNow
  <1>6. DOMAIN pipes' = Pipe /\ pipes' = [x \in Pipe |-> pipes'[x]]
    BY <1>1, <1>2, PipePartNow
  <1>7. PipePart'
    <2>1. \A x \in Pipe :
             /\ Sound(pipes'[x])
             /\ InQueue(active_tailq, x) <=> pipes'[x].is_active
             /\ pipes'[x].is_active <=> ~HoldsNothing(pipes'[x])
             /\ ~(InQueue(active_tailq, x) /\ InQueue(i, x))
      BY <1>1, <1>2, <1>3, <1>4, <1>5, PipePartNow
    <2>2. \A irp \in Irp, x, y \in Pipe :
             pipes'[x].irp_state[irp] # "IDLE" =>
                 /\ InQueue(i, x) \/ InQueue(active_tailq, x)
                 /\ pipes'[y].irp_state[irp] # "IDLE" => x = y
      BY <1>1, <1>3, <1>4, <1>5, PipePartNow
    <2>3. active_tailq \in Seq(Pipe) /\ NoDuplicates(active_tailq)
      BY <1>1, PipePartNow
    <2> QED BY <1>2, <1>4, <1>6, <2>1, <2>2, <2>3, PipePartNext
  <1>8. \A x \in Pipe : Stray(pipes'[x]) => Stray(pipes[x])
    BY <1>3, <1>5
  <1>9. \A x \in Pipe : /\ Allocated(x) => InQueue(idle_tailq', x) \/ InQueue(active_tailq', x)
                        /\ InQueue(idle_tailq, x) => InQueue(idle_tailq', x) /\ pipes'[x] = pipes[x]
    BY <1>2, <1>4, <1>5 DEF Allocated, InQueue
  <1> QED BY <1>7, <1>8, <1>9, ListStep DEF PipeAlloc

\* A pipe is freed.
LEMMA PipeFreeStep ==
    ASSUME IInv, NEW p \in Pipe, PipeFree(p), port_op.at = "idle", UNCHANGED <<port_op, hw>>
    PROVE  IInv'
  <1> DEFINE q == NewPipe(p \in CtrlPipe)
             i == Without(idle_tailq, p)
  <1>1. PipePart /\ PortPart
    BY IInvParts
  <1>2. /\ pipes' = [pipes EXCEPT ![p] = q]
        /\ idle_tailq' = i /\ active_tailq' = active_tailq
    BY DEF PipeFree
  <1>3. /\ Sound(q) /\ ~q.is_active /\ ~Stray(q) /\ HoldsNothing(q)
        /\ \A x \in Irp : q.irp_state[x] = "IDLE"
    <2>1. (p \in CtrlPipe) \in BOOLEAN
      OBVIOUS
    <2> QED BY <2>1, NewPipeSound
  <1> HIDE DEF q
  <1>4. InQueue(idle_tailq, p) /\ ~InQueue(active_tailq, p)
    BY <1>1, PipePartNow DEF PipeFree, Allocated
  <1>5. /\ i \in Seq(Pipe) /\ NoDuplicates(i)
        /\ \A x : InQueue(i, x) <=> InQueue(idle_tailq, x) /\ x # p
    BY <1>1, <1>4, PipePartNow, WithoutList
  <1> HIDE DEF i
  <1>6. \A x \in Pipe : pipes'[x] = IF x = p THEN q ELSE pipes[x]
    BY <1>1, <1>2, PipePartNow
  <1>7. DOMAIN pipes' = Pipe /\ pipes' = [x \in Pipe |-> pipes'[x]]
    BY <1>1, <1>2, PipePartNow
  <1>8. PipePart'
    <2>1. \A x \in Pipe :
             /\ Sound(pipes'[x])
             /\ InQueue(active_tailq, x) <=> pipes'[x].is_active
             /\ pipes'[x].is_active <=> ~HoldsNothing(pipes'[x])
             /\ ~(InQueue(active_tailq, x) /\ InQueue(i, x))
      BY <1>1, <1>3, <1>4, <1>5, <1>6, PipePartNow
    <2>2. \A irp \in Irp, x, y \in Pipe :
             pipes'[x].irp_state[irp] # "IDLE" =>
                 /\ InQueue(i, x) \/ InQueue(active_tailq, x)
                 /\ pipes'[y].irp_state[irp] # "IDLE" => x = y
      BY <1>1, <1>3, <1>5, <1>6, PipePartNow
    <2>3. active_tailq \in Seq(Pipe) /\ NoDuplicates(active_tailq)
      BY <1>1, PipePartNow
    <2> QED BY <1>2, <1>5, <1>7, <2>1, <2>2, <2>3, PipePartNext
  <1>9. \A x \in Pipe : Stray(pipes'[x]) => Stray(pipes[x])
    BY <1>3, <1>6
  <1>10. ~Invalidating /\ port_op.at # "invalidate_idle"
    BY DEF Invalidating
  <1> QED BY <1>8, <1>9, <1>10, ListStep DEF PipeFree

\* An IRP is accepted.
LEMMA IrpEnqueueStep ==
    ASSUME IInv, NEW p \in Pipe, NEW irp \in Irp, IrpEnqueue(p, irp), UNCHANGED <<port_op, hw>>
    PROVE  IInv'
  <1> DEFINE q == Enqueued(pipes[p], irp)
             i == IF pipes[p].is_active THEN idle_tailq ELSE Without(idle_tailq, p)
             a == IF pipes[p].is_active THEN active_tailq ELSE Append(active_tailq, p)
  <1>1. PipePart /\ PortPart
    BY IInvParts
  <1>2. /\ InQueue(idle_tailq, p) \/ InQueue(active_tailq, p)
        /\ \A x \in Pipe : pipes[x].irp_state[irp] = "IDLE"
        /\ pipes' = [pipes EXCEPT ![p] = q]
        /\ idle_tailq' = i /\ active_tailq' = a
        /\ pipes[p].state = "ACTIVE"
    BY DEF IrpEnqueue, IrpIsIdle, Allocated
  <1>3. Takes(pipes[p], q, irp)
    BY <1>1, <1>2, PipePartNow, EnqueuedTakes
  <1> HIDE DEF q
  <1>4. /\ i \in Seq(Pipe) /\ a \in Seq(Pipe) /\ NoDuplicates(i) /\ NoDuplicates(a)
        /\ \A x \in Pipe : /\ InQueue(i, x) <=> InQueue(idle_tailq, x) /\ x # p
                           /\ InQueue(a, x) <=> InQueue(active_tailq, x) \/ x = p
    <2>1. CASE pipes[p].is_active
      BY <1>1, <2>1, PipePartNow
    <2>2. CASE ~pipes[p].is_active
      <3>1. InQueue(idle_tailq, p) /\ ~InQueue(active_tailq, p)
        BY <1>1, <1>2, <2>2, PipePartNow
      <3>2. /\ i \in Seq(Pipe) /\ NoDuplicates(i)
            /\ \A x : InQueue(i, x) <=> InQueue(idle_tailq, x) /\ x # p
        BY <1>1, <2>2, <3>1, PipePartNow, WithoutList
      <3>3. /\ a \in Seq(Pipe) /\ NoDuplicates(a)
            /\ \A x : InQueue(a, x) <=> InQueue(active_tailq, x) \/ x = p
        BY <1>1, <2>2, <3>1, PipePartNow, AppendList
      <3> QED BY <3>2, <3>3
    <2> QED BY <2>1, <2>2
  <1> HIDE DEF i, a
  <1>5. \A x \in Pipe : pipes'[x] = IF x = p THEN q ELSE pipes[x]
    BY <1>1, <1>2, PipePartNow
  <1>6. DOMAIN pipes' = Pipe /\ pipes' = [x \in Pipe |-> pipes'[x]]
    BY <1>1, <1>2, PipePartNow
  <1>7. /\ Sound(q) /\ q.is_active
        /\ \A x \in Irp : q.irp_state[x] = "IDLE" <=> pipes[p].irp_state[x] = "IDLE" /\ x # irp
        /\ Stray(q) => Stray(pipes[p])
    BY <1>3 DEF Takes
  <1>8. ~HoldsNothing(q)
    BY <1>7, HoldsNothingIffIdle
  <1>9. PipePart'
    <2>1. \A x \in Pipe :
             /\ Sound(pipes'[x])
             /\ InQueue(a, x) <=> pipes'[x].is_active
             /\ pipes'[x].is_active <=> ~HoldsNothing(pipes'[x])
             /\ ~(InQueue(a, x) /\ InQueue(i, x))
      BY <1>1, <1>4, <1>5, <1>7, <1>8, PipePartNow
    <2>2. \A j \in Irp, x, y \in Pipe :
             pipes'[x].irp_state[j] # "IDLE" =>
                 /\ InQueue(i, x) \/ InQueue(a, x)
                 /\ pipes'[y].irp_state[j] # "IDLE" => x = y
      <3>1. \A j \in Irp, x \in Pipe :
               pipes'[x].irp_state[j] # "IDLE" <=>
                   pipes[x].irp_state[j] # "IDLE" \/ (x = p /\ j = irp)
        BY <1>5, <1>7
      <3> QED BY <1>1, <1>2, <1>4, <3>1, PipePartNow
    <2> QED BY <1>2, <1>4, <1>6, <2>1, <2>2, PipePartNext
  <1>10. \A x \in Pipe : Stray(pipes'[x]) => Stray(pipes[x])
    BY <1>5, <1>7
  <1>11. \A x \in Pipe : Allocated(x) => InQueue(idle_tailq', x) \/ InQueue(active_tailq', x)
    BY <1>2, <1>4 DEF Allocated, InQueue
  <1>12. \A x \in Pipe : InQueue(idle_tailq, x) /\ pipes[x].state = "INVALID" =>
             InQueue(idle_tailq', x) /\ pipes'[x].state = "INVALID"
    BY <1>2, <1>4, <1>5
  <1> QED BY <1>9, <1>10, <1>11, <1>12, ListStep DEF IrpEnqueue

\* An IRP is given back.
LEMMA IrpDequeueStep ==
    ASSUME IInv, NEW p \in Pipe, IrpDequeue(p), UNCHANGED <<port_op, hw>>
    PROVE  IInv'
  <1> DEFINE q == Dequeued(pipes[p])
             leaves == pipes[p].is_active /\ ~q.is_active
             i == IF leaves THEN Append(idle_tailq, p) ELSE idle_tailq
             a == IF leaves THEN Without(active_tailq, p) ELSE active_tailq
  <1>1. PipePart /\ PortPart
    BY IInvParts
  <1>2. /\ pipes[p].done # << >>
        /\ pipes' = [pipes EXCEPT ![p] = q]
        /\ pipes'[p] = q
    BY <1>1, PipePartNow DEF IrpDequeue
  <1>3. idle_tailq' = i /\ active_tailq' = a
    BY <1>2 DEF IrpDequeue
  <1>4. GivesBack(pipes[p], q) /\ ~HoldsNothing(pipes[p]) /\ InQueue(active_tailq, p)
        /\ pipes[p].is_active
    BY <1>1, <1>2, PipePartNow, DequeuedGivesBack DEF HoldsNothing
  <1> HIDE DEF q
  <1>5. /\ i \in Seq(Pipe) /\ a \in Seq(Pipe) /\ NoDuplicates(i) /\ NoDuplicates(a)
        /\ \A x \in Pipe : /\ InQueue(i, x) <=> InQueue(idle_tailq, x) \/ (leaves /\ x = p)
                           /\ InQueue(a, x) <=> InQueue(active_tailq, x) /\ ~(leaves /\ x = p)
    <2>1. CASE ~leaves
      BY <1>1, <2>1, PipePartNow
    <2>2. CASE leaves
      <3>1. ~InQueue(idle_tailq, p)
        BY <1>1, <1>4, PipePartNow
      <3>2. /\ i \in Seq(Pipe) /\ NoDuplicates(i)
            /\ \A x : InQueue(i, x) <=> InQueue(idle_tailq, x) \/ x = p
        BY <1>1, <2>2, <3>1, PipePartNow, AppendList
      <3>3. /\ a \in Seq(Pipe) /\ NoDuplicates(a)
            /\ \A x : InQueue(a, x) <=> InQueue(active_tailq, x) /\ x # p
        BY <1>1, <1>4, <2>2, PipePartNow, WithoutList
      <3> QED BY <2>2, <3>2, <3>3
    <2> QED BY <2>1, <2>2
  <1>6. leaves <=> HoldsNothing(q)
    BY <1>4 DEF GivesBack
  <1>7. /\ Sound(q) /\ (q.is_active <=> ~HoldsNothing(q))
        /\ \A x \in Irp : pipes[p].irp_state[x] = "IDLE" => q.irp_state[x] = "IDLE"
        /\ pipes[p].state = "INVALID" => q.state = "INVALID"
        /\ Stray(q) => Stray(pipes[p])
    BY <1>4 DEF GivesBack
  <1>8. \A x \in Pipe : pipes'[x] = IF x = p THEN q ELSE pipes[x]
    BY <1>1, <1>2, PipePartNow
  <1>9. DOMAIN pipes' = Pipe /\ pipes' = [x \in Pipe |-> pipes'[x]]
    BY <1>1, <1>2, PipePartNow
  <1> HIDE DEF i, a, leaves
  <1>10. PipePart'
    <2>1. \A x \in Pipe :
             /\ Sound(pipes'[x])
             /\ InQueue(a, x) <=> pipes'[x].is_active
             /\ pipes'[x].is_active <=> ~HoldsNothing(pipes'[x])
             /\ ~(InQueue(a, x) /\ InQueue(i, x))
      BY <1>1, <1>4, <1>5, <1>6, <1>7, <1>8, PipePartNow
    <2>2. \A j \in Irp, x, y \in Pipe :
             pipes'[x].irp_state[j] # "IDLE" =>
                 /\ InQueue(i, x) \/ InQueue(a, x)
                 /\ pipes'[y].irp_state[j] # "IDLE" => x = y
      <3>1. \A j \in Irp, x \in Pipe :
               pipes'[x].irp_state[j] # "IDLE" => pipes[x].irp_state[j] # "IDLE"
        BY <1>7, <1>8
      <3> QED BY <1>1, <1>5, <3>1, PipePartNow
    <2> QED BY <1>3, <1>5, <1>9, <2>1, <2>2, PipePartNext
  <1>11. \A x \in Pipe : Stray(pipes'[x]) => Stray(pipes[x])
    BY <1>7, <1>8
  <1>12. \A x \in Pipe : Allocated(x) => InQueue(idle_tailq', x) \/ InQueue(active_tailq', x)
    BY <1>3, <1>5 DEF Allocated, InQueue
  <1>13. \A x \in Pipe : InQueue(idle_tailq, x) /\ pipes[x].state = "INVALID" =>
             InQueue(idle_tailq', x) /\ pipes'[x].state = "INVALID"
    BY <1>3, <1>5, <1>7, <1>8
  <1> QED BY <1>10, <1>11, <1>12, <1>13, ListStep DEF IrpDequeue

-----------------------------------------------------------------------------
(* The theorems *)

\* Every step of the driver, of its clients and of the hardware preserves IInv.
LEMMA IInvInductive == IInv /\ [Next]_vars => IInv'
  <1> SUFFICES ASSUME IInv, [Next]_vars PROVE IInv'
    OBVIOUS
  <1>1. CASE PipeNext
    <2> PICK p \in Pipe : PipeStep(p)
      BY <1>1 DEF PipeNext
    <2>1. UNCHANGED <<port_op, hw>>
      BY <1>1 DEF PipeNext
    <2>2. CASE PipeAlloc(p) \/ (PipeFree(p) /\ port_op.at = "idle")
      BY <2>1, <2>2, PipeAllocStep, PipeFreeStep
    <2>3. ASSUME NEW irp \in Irp, IrpEnqueue(p, irp) \/ IrpAbort(p, irp)
          PROVE  IInv'
      BY <2>1, <2>3, IrpEnqueueStep, IrpAbortStep
    <2>4. CASE IrpDequeue(p) \/ PipeGetEvent(p) \/ PipeCommandReturn(p)
      BY <2>1, <2>4, IrpDequeueStep, PipeGetEventStep, PipeCommandReturnStep
    <2>5. ASSUME NEW cmd \in PipeCmd, PipeCommand(p, cmd)
          PROVE  IInv'
      BY <2>1, <2>5, PipeCommandStep
    <2>6. CASE ChanStage(p) \/ ChanComplete(p) \/ ChanIgnored(p)
      BY <2>1, <2>6, ChanStageStep, ChanCompleteStep, ChanIgnoredStep
    <2>7. ASSUME NEW error \in ChanError, ChanFail(p, error)
          PROVE  IInv'
      BY <2>1, <2>7, ChanFailStep
    <2> QED BY <2>2, <2>3, <2>4, <2>5, <2>6, <2>7 DEF PipeStep, ChanTransfer
  <1>2. CASE PortInterrupt
    BY <1>2, IntrConnStep, IntrDisconnStep, IntrEnabledStep, IntrDisabledStep, IntrOvercurrentStep
       DEF PortInterrupt
  <1>3. CASE PowerOn \/ PowerOff \/ Reset \/ PauseCommand
    BY <1>3, PowerOnStep, PowerOffStep, ResetStep, SuspendStep, ResumeStep, DisableStep
       DEF PauseCommand
  <1>4. CASE PortOpStep
    BY <1>4, ResetReleaseStep, ResetEndStep, SuspendWakeStep, ResumeReleaseStep, ResumeEndStep,
       DisableWakeStep, DisableEndStep, InvalidateNextActiveStep, InvalidateNextIdleStep,
       DebouncedStep
       DEF PortOpStep
  <1>5. CASE HandleEvent \/ Recover
    BY <1>5, HandleDebouncedStep, HandleDeviceLostStep, RecoverStep DEF HandleEvent
  <1>6. CASE UNCHANGED vars
    <2>1. UNCHANGED <<pipeVars, port, port_op, hw>>
      BY <1>6 DEF vars
    <2>2. /\ port' \in Port_t /\ port_op' \in PortOp /\ hw' \in Hw
          /\ NoDeviceToInvalidate' /\ EnabledByReset' /\ WaitCounted' /\ InReset' = InReset
      BY <2>1, IInvParts DEF PortPart, NoDeviceToInvalidate, EnabledByReset, WaitCounted,
                             LostPending, Invalidating, InReset
    <2> QED BY <2>1, <2>2, PortStep
  <1> QED BY <1>1, <1>2, <1>3, <1>4, <1>5, <1>6 DEF Next, UnpausedNext

\* The inductive invariant holds in every state of every behaviour of the driver.
THEOREM InvariantHolds == Spec => []IInv
  <1>1. Init => IInv
    BY InitIInv
  <1>2. IInv /\ [Next]_vars => IInv'
    BY IInvInductive
  <1> QED BY <1>1, <1>2, PTL DEF Spec

\* The driver's state keeps its types, whatever errors the channels report: the
\* abort() of _buffer_parse_error is reached for a channel's ERROR_IRP_NOT_AVAIL
\* alone, and a driver whose channels never report it gives an IRP no status but
\* the six of the HCD.
THEOREM TypeCorrect == Spec => []TypeOK
  <1>1. IInv => TypeOK
    BY DEF IInv
  <1> QED BY <1>1, InvariantHolds, PTL

\* The double buffering of every pipe is consistent whenever hcd_lock is free.
THEOREM DoubleBuffering == Spec => []RingConsistent
  <1>1. IInv => RingConsistent
    BY DEF IInv
  <1> QED BY <1>1, InvariantHolds, PTL

\* No IRP is lost or duplicated, and its IRP_STATE flag names the place it is in.
THEOREM IrpsConserved == Spec => []IrpConservation
  <1>1. IInv => IrpConservation
    BY DEF IInv
  <1> QED BY <1>1, InvariantHolds, PTL

\* No IRP belongs to two pipes, or to a pipe that is not allocated.
THEOREM OneOwner == Spec => []IrpOwnedOnce
  <1>1. IInv => IrpOwnedOnce
    BY DEF IInv
  <1> QED BY <1>1, InvariantHolds, PTL

\* A pipe is in the list of the port that its IRPs call for, and in no other.
THEOREM ListsHold == Spec => []ListsConsistent
  <1>1. IInv => ListsConsistent
    BY DEF IInv
  <1> QED BY <1>1, InvariantHolds, PTL

\* Whatever losses, flushes and commands came before, a channel interrupt that
\* the driver processes finds the buffer of its transfer.
THEOREM InterruptsFindTransfers == Spec => []InterruptHasTransfer
  <1>1. IInv => InterruptHasTransfer
    BY DEF IInv, StraysUnheard, Stray, InterruptHasTransfer
  <1> QED BY <1>1, InvariantHolds, PTL

=============================================================================
