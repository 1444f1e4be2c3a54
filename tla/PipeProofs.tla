----------------------------- MODULE PipeProofs -----------------------------
(***************************************************************************)
(* What a client may expect of a pipe, for any number of pipes and IRPs.   *)
(*                                                                         *)
(* The driver implements IrpQueue for every pipe (PipesKeepPromise).  The  *)
(* queue that a client sees is the done queue of the pipe, then its        *)
(* buffers, then its pending queue: most steps of the driver move an IRP   *)
(* from one of the three to the next, and IrpQueue stutters.  What a step  *)
(* does to that queue is said of one pipe first, function by function of   *)
(* the driver, and then of all the pipes, action by action.                *)
(*                                                                         *)
(* The pipes work when they may and stop when they must (WorkConserving,   *)
(* StoppedWhenWoken, PauseCounted).  The first two of these speak of one   *)
(* pipe, of the command that waits on it and of the notification of its    *)
(* task; so the steps of the driver are sorted by what one pipe sees of    *)
(* them.  While the port waits for its pipes, it counts those that have a  *)
(* transfer in flight: the next part counts them, on the same sorting.     *)
(*                                                                         *)
(* Then the flush: what the model does to a pipe in one step is what the   *)
(* code's two loops do buffer by buffer.                                   *)
(*                                                                         *)
(* The last parts are the driver under the host layer, for any number of   *)
(* pipes, IRPs and buffers.  HostHolds is its invariant, which says that   *)
(* every pipe is told of the loss of the device (LostMeansInvalid; with    *)
(* one pipe it is told whatever its client does).  On it rests that the    *)
(* driver is, to the host layer, the one that HcdView describes            *)
(* (ViewHolds): what a step makes of a pipe is said of one pipe first      *)
(* (Seen), function by function, and then action by action of all the      *)
(* pipes and the port.                                                     *)
(***************************************************************************)
EXTENDS HcdSession, HcdHostUse, HcdProofs, SequenceTheorems, WellFoundedInduction

-----------------------------------------------------------------------------
(* Sequences *)

\* An element appended to the second of two sequences ends both.
LEMMA ConcatAppend ==
    ASSUME NEW S, NEW s \in Seq(S), NEW t \in Seq(S), NEW x \in S
    PROVE  s \o Append(t, x) = Append(s \o t, x)
  <1>1. Append(t, x) \in Seq(S) /\ s \o t \in Seq(S)
    BY AppendProperties, ConcatProperties
  <1>2. s \o Append(t, x) \in Seq(S) /\ Append(s \o t, x) \in Seq(S)
    BY <1>1, AppendProperties, ConcatProperties
  <1>3. Len(s) \in Nat /\ Len(t) \in Nat
    BY LenProperties
  <1>4. /\ Len(s \o Append(t, x)) = Len(s) + Len(t) + 1
        /\ Len(Append(s \o t, x)) = Len(s) + Len(t) + 1
    BY <1>1, <1>3, AppendProperties, ConcatProperties
  <1>5. ASSUME NEW k \in 1 .. Len(s) + Len(t) + 1
        PROVE  (s \o Append(t, x))[k] = Append(s \o t, x)[k]
    <2>1. (s \o Append(t, x))[k] = IF k <= Len(s) THEN s[k] ELSE Append(t, x)[k - Len(s)]
      BY <1>1, <1>3, AppendProperties, ConcatProperties
    <2>2. CASE k <= Len(s) + Len(t)
      <3>1. Append(s \o t, x)[k] = (s \o t)[k]
        BY <1>1, <1>3, <2>2, AppendProperties, ConcatProperties
      <3>2. (s \o t)[k] = IF k <= Len(s) THEN s[k] ELSE t[k - Len(s)]
        BY <1>3, <2>2, ConcatProperties
      <3>3. k > Len(s) => Append(t, x)[k - Len(s)] = t[k - Len(s)]
        BY <1>3, <2>2, AppendProperties
      <3> QED BY <1>3, <2>1, <3>1, <3>2, <3>3
    <2>3. CASE k = Len(s) + Len(t) + 1
      <3>1. Append(s \o t, x)[k] = x
        BY <1>1, <1>3, <2>3, AppendProperties, ConcatProperties
      <3>2. Append(t, x)[k - Len(s)] = x
        BY <1>3, <2>3, AppendProperties
      <3> QED BY <1>3, <2>1, <2>3, <3>1, <3>2
    <2> QED BY <1>3, <2>2, <2>3
  <1> QED BY <1>2, <1>4, <1>5, SeqEqual

\* An element that passes from the head of one sequence to the end of the one
\* before it.
LEMMA HeadMoves ==
    ASSUME NEW S, NEW s \in Seq(S), NEW t \in Seq(S), t # << >>
    PROVE  Append(s, Head(t)) \o Tail(t) = s \o t
  <1>1. /\ Head(t) \in S /\ Tail(t) \in Seq(S) /\ Len(Tail(t)) = Len(t) - 1
        /\ \A k \in 1 .. Len(t) - 1 : Tail(t)[k] = t[k + 1]
    BY HeadTailProperties
  <1>2. Head(t) = t[1]
    OBVIOUS
  <1>3. Len(s) \in Nat /\ Len(t) \in Nat /\ Len(t) > 0
    BY LenProperties, EmptySeq
  <1>4. /\ Append(s, Head(t)) \in Seq(S)
        /\ Len(Append(s, Head(t))) = Len(s) + 1
        /\ \A k \in 1 .. Len(s) : Append(s, Head(t))[k] = s[k]
        /\ Append(s, Head(t))[Len(s) + 1] = t[1]
    BY <1>1, <1>2, AppendProperties
  <1>5. /\ Append(s, Head(t)) \o Tail(t) \in Seq(S)
        /\ Len(Append(s, Head(t)) \o Tail(t)) = Len(s) + Len(t)
        /\ \A k \in 1 .. Len(s) + Len(t) :
              (Append(s, Head(t)) \o Tail(t))[k] =
                  IF k <= Len(s) + 1 THEN Append(s, Head(t))[k] ELSE Tail(t)[k - (Len(s) + 1)]
    BY <1>1, <1>3, <1>4, ConcatProperties
  <1>6. /\ s \o t \in Seq(S)
        /\ Len(s \o t) = Len(s) + Len(t)
        /\ \A k \in 1 .. Len(s) + Len(t) :
              (s \o t)[k] = IF k <= Len(s) THEN s[k] ELSE t[k - Len(s)]
    BY ConcatProperties
  <1>7. ASSUME NEW k \in 1 .. Len(s) + Len(t)
        PROVE  (Append(s, Head(t)) \o Tail(t))[k] = (s \o t)[k]
    <2>1. CASE k <= Len(s)
      BY <1>3, <1>4, <1>5, <1>6, <2>1
    <2>2. CASE k = Len(s) + 1
      BY <1>3, <1>4, <1>5, <1>6, <2>2
    <2>3. CASE k > Len(s) + 1
      <3>1. Tail(t)[k - (Len(s) + 1)] = t[(k - (Len(s) + 1)) + 1]
        BY <1>1, <1>3, <2>3
      <3> QED BY <1>3, <1>5, <1>6, <2>3, <3>1
    <2> QED BY <1>3, <2>1, <2>2, <2>3
  <1> QED BY <1>5, <1>6, <1>7, SeqEqual

\* The first element of two sequences is that of the first one.
LEMMA TailConcat ==
    ASSUME NEW S, NEW s \in Seq(S), NEW t \in Seq(S), s # << >>
    PROVE  Tail(s \o t) = Tail(s) \o t
  <1>1. /\ Tail(s) \in Seq(S) /\ Len(Tail(s)) = Len(s) - 1
        /\ \A k \in 1 .. Len(s) - 1 : Tail(s)[k] = s[k + 1]
    BY HeadTailProperties
  <1>2. Len(s) \in Nat /\ Len(t) \in Nat /\ Len(s) > 0
    BY LenProperties, EmptySeq
  <1>3. /\ s \o t \in Seq(S)
        /\ Len(s \o t) = Len(s) + Len(t)
        /\ \A k \in 1 .. Len(s) + Len(t) :
              (s \o t)[k] = IF k <= Len(s) THEN s[k] ELSE t[k - Len(s)]
    BY ConcatProperties
  <1>4. s \o t # << >>
    BY <1>2, <1>3
  <1>5. /\ Tail(s \o t) \in Seq(S) /\ Len(Tail(s \o t)) = Len(s) + Len(t) - 1
        /\ \A k \in 1 .. Len(s) + Len(t) - 1 : Tail(s \o t)[k] = (s \o t)[k + 1]
    BY <1>3, <1>4, HeadTailProperties
  <1>6. /\ Tail(s) \o t \in Seq(S)
        /\ Len(Tail(s) \o t) = Len(s) + Len(t) - 1
        /\ \A k \in 1 .. Len(s) + Len(t) - 1 :
              (Tail(s) \o t)[k] = IF k <= Len(s) - 1 THEN Tail(s)[k] ELSE t[k - (Len(s) - 1)]
    BY <1>1, <1>2, ConcatProperties
  <1>7. ASSUME NEW k \in 1 .. Len(s) + Len(t) - 1
        PROVE  Tail(s \o t)[k] = (Tail(s) \o t)[k]
    <2>1. CASE k <= Len(s) - 1
      BY <1>1, <1>2, <1>3, <1>5, <1>6, <2>1
    <2>2. CASE k > Len(s) - 1
      <3>1. (k + 1) - Len(s) = k - (Len(s) - 1)
        BY <1>2
      <3>2. (s \o t)[k + 1] = t[(k + 1) - Len(s)]
        BY <1>2, <1>3, <2>2
      <3> QED BY <1>2, <1>5, <1>6, <2>2, <3>1, <3>2
    <2> QED BY <1>2, <2>1, <2>2
  <1> QED BY <1>2, <1>5, <1>6, <1>7, SeqEqual

\* The same element n times and then m times.
LEMMA ConstantConcat ==
    ASSUME NEW c, NEW n \in Nat, NEW m \in Nat
    PROVE  [k \in 1 .. n |-> c] \o [k \in 1 .. m |-> c] = [k \in 1 .. n + m |-> c]
  <1>1. /\ [k \in 1 .. n |-> c] \in Seq({c}) /\ Len([k \in 1 .. n |-> c]) = n
        /\ [k \in 1 .. m |-> c] \in Seq({c}) /\ Len([k \in 1 .. m |-> c]) = m
        /\ [k \in 1 .. n + m |-> c] \in Seq({c}) /\ Len([k \in 1 .. n + m |-> c]) = n + m
    OBVIOUS
  <1>2. /\ [k \in 1 .. n |-> c] \o [k \in 1 .. m |-> c] \in Seq({c})
        /\ Len([k \in 1 .. n |-> c] \o [k \in 1 .. m |-> c]) = n + m
    BY <1>1, ConcatProperties
  <1>3. \A l \in 1 .. n + m : ([k \in 1 .. n |-> c] \o [k \in 1 .. m |-> c])[l] = c
    BY <1>2, ElementOfSeq
  <1> QED BY <1>1, <1>2, <1>3, SeqEqual

\* Three sequences in a row, place by place.
LEMMA ThreeParts ==
    ASSUME NEW S, NEW s \in Seq(S), NEW t \in Seq(S), NEW u \in Seq(S)
    PROVE  LET w == (s \o t) \o u IN
           /\ Len(s) \in Nat /\ Len(t) \in Nat /\ Len(u) \in Nat
           /\ Len(w) = Len(s) + Len(t) + Len(u)
           /\ \A k \in 1 .. Len(s) : w[k] = s[k]
           /\ \A k \in 1 .. Len(t) : w[Len(s) + k] = t[k]
           /\ \A k \in 1 .. Len(u) : w[Len(s) + Len(t) + k] = u[k]
  <1> DEFINE w == (s \o t) \o u
             l == Len(s)
             m == Len(t)
             n == Len(u)
  <1>1. l \in Nat /\ m \in Nat /\ n \in Nat
    BY LenProperties
  <1>2. /\ s \o t \in Seq(S)
        /\ Len(s \o t) = l + m
        /\ \A k \in 1 .. l + m : (s \o t)[k] = IF k <= l THEN s[k] ELSE t[k - l]
    BY ConcatProperties
  <1>3. /\ Len(w) = (l + m) + n
        /\ \A k \in 1 .. (l + m) + n : w[k] = IF k <= l + m THEN (s \o t)[k] ELSE u[k - (l + m)]
    BY <1>2, ConcatProperties
  <1> HIDE DEF l, m, n, w
  <1>4. ASSUME NEW k \in 1 .. l
        PROVE  w[k] = s[k]
    <2>1. k \in 1 .. l + m /\ k \in 1 .. (l + m) + n /\ k <= l /\ k <= l + m
      BY <1>1
    <2> QED BY <1>2, <1>3, <2>1
  <1>5. ASSUME NEW k \in 1 .. m
        PROVE  w[l + k] = t[k]
    <2>1. l + k \in 1 .. l + m /\ l + k \in 1 .. (l + m) + n /\ (l + k) - l = k
          /\ ~(l + k <= l) /\ l + k <= l + m
      BY <1>1
    <2> QED BY <1>2, <1>3, <2>1
  <1>6. ASSUME NEW k \in 1 .. n
        PROVE  w[l + m + k] = u[k]
    <2>1. l + m + k \in 1 .. (l + m) + n /\ (l + m + k) - (l + m) = k /\ ~(l + m + k <= l + m)
      BY <1>1
    <2> QED BY <1>3, <2>1
  <1> QED BY <1>1, <1>3, <1>4, <1>5, <1>6 DEF l, m, n, w

-----------------------------------------------------------------------------
(* What a client sees of a pipe *)

\* The IRPs of the done queue, and their statuses.
Over(p) == [k \in 1 .. Len(p.done) |-> p.done[k].irp]

Statuses(p) == [k \in 1 .. Len(p.done) |-> p.done[k].status]

\* How many of the pipe's IRPs are not over.
Unfinished(p) == Len(InOrder(p)) - Len(Statuses(p))

\* The done queue is the IRPs and their statuses.
LEMMA OverParts ==
    ASSUME NEW p \in Pipe_t
    PROVE  /\ Over(p) \in Seq(Irp) /\ Len(Over(p)) = Len(p.done)
           /\ Statuses(p) \in Seq(Status) /\ Len(Statuses(p)) = Len(p.done)
           /\ Len(p.done) \in Nat
           /\ \A k \in 1 .. Len(p.done) : Over(p)[k] = p.done[k].irp
  <1>1. p.done \in Seq(DoneIrp)
    BY DEF Pipe_t
  <1>2. \A k \in 1 .. Len(p.done) : p.done[k].irp \in Irp /\ p.done[k].status \in Status
    <2>1. \A k \in 1 .. Len(p.done) : p.done[k] \in DoneIrp
      BY <1>1, ElementOfSeq
    <2> QED BY <2>1 DEF DoneIrp
  <1>3. Len(p.done) \in Nat
    BY <1>1
  <1> QED BY <1>2, <1>3 DEF Over, Statuses

\* The IRPs in the buffers.
LEMMA InFlightParts ==
    ASSUME NEW p \in Pipe_t, RingWindows(p)
    PROVE  /\ InFlight(p) \in Seq(Irp)
           /\ Len(InFlight(p)) = p.to_parse + p.to_exec
           /\ \A k \in 1 .. p.to_parse + p.to_exec : InFlight(p)[k] = p.buf[Plus(p.fr_idx, k - 1)]
  <1>1. /\ p.fr_idx \in Idx /\ p.buf \in [Idx -> Irp \union {NoIrp}]
        /\ p.to_parse \in Nat /\ p.to_exec \in Nat /\ p.to_fill \in Nat
    BY NumBuffersAssumption DEF Pipe_t
  <1>2. p.to_parse + p.to_exec <= NumBuffers
    BY <1>1, NumBuffersAssumption DEF RingWindows, Counted
  <1>3. ASSUME NEW k \in 1 .. p.to_parse + p.to_exec
        PROVE  p.buf[Plus(p.fr_idx, k - 1)] \in Irp
    <2>1. k - 1 \in 0 .. NumBuffers - 1
      BY <1>1, <1>2, NumBuffersAssumption
    <2>2. Plus(p.fr_idx, k - 1) \in Idx /\ Dist(p.fr_idx, Plus(p.fr_idx, k - 1)) = k - 1
      BY <1>1, <2>1, NumBuffersAssumption, IdxClosed, DistPlus
    <2>3. Plus(p.fr_idx, k - 1) \in Filled(p)
      BY <1>1, <2>2 DEF Filled
    <2> QED BY <1>1, <2>2, <2>3 DEF RingWindows, Occupied
  <1>4. p.to_parse + p.to_exec \in Nat
    BY <1>1
  <1> QED BY <1>3, <1>4 DEF InFlight

\* The three parts of the queue that the client sees.
LEMMA InOrderParts ==
    ASSUME NEW p \in Pipe_t, RingWindows(p)
    PROVE  /\ InOrder(p) = (Over(p) \o InFlight(p)) \o p.pending
           /\ Over(p) \in Seq(Irp) /\ InFlight(p) \in Seq(Irp) /\ p.pending \in Seq(Irp)
           /\ Over(p) \o InFlight(p) \in Seq(Irp)
           /\ InOrder(p) \in Seq(Irp)
           /\ Len(InOrder(p)) = Len(p.done) + (p.to_parse + p.to_exec) + Len(p.pending)
           /\ Unfinished(p) = p.to_parse + p.to_exec + Len(p.pending)
  <1>1. /\ Over(p) \in Seq(Irp) /\ Len(Over(p)) = Len(p.done)
        /\ Len(Statuses(p)) = Len(p.done) /\ Len(p.done) \in Nat
    BY OverParts
  <1>2. InFlight(p) \in Seq(Irp) /\ Len(InFlight(p)) = p.to_parse + p.to_exec
    BY InFlightParts
  <1>3. p.pending \in Seq(Irp) /\ p.to_parse \in Nat /\ p.to_exec \in Nat /\ Len(p.pending) \in Nat
    BY NumBuffersAssumption DEF Pipe_t
  <1>4. InOrder(p) = (Over(p) \o InFlight(p)) \o p.pending
    BY DEF InOrder, Over
  <1>5. /\ Over(p) \o InFlight(p) \in Seq(Irp)
        /\ Len(Over(p) \o InFlight(p)) = Len(p.done) + (p.to_parse + p.to_exec)
    BY <1>1, <1>2, ConcatProperties
  <1>6. /\ InOrder(p) \in Seq(Irp)
        /\ Len(InOrder(p)) = Len(p.done) + (p.to_parse + p.to_exec) + Len(p.pending)
    <2>1. /\ (Over(p) \o InFlight(p)) \o p.pending \in Seq(Irp)
          /\ Len((Over(p) \o InFlight(p)) \o p.pending) =
                 Len(Over(p) \o InFlight(p)) + Len(p.pending)
      BY ONLY <1>3, <1>5, ConcatProperties
    <2> QED BY <1>4, <1>5, <2>1
  <1>7. Unfinished(p) = p.to_parse + p.to_exec + Len(p.pending)
    BY <1>1, <1>3, <1>6 DEF Unfinished
  <1> QED BY ONLY <1>1, <1>2, <1>3, <1>4, <1>5, <1>6, <1>7

\* An IRP that is put behind those that are done.
LEMMA OneOver ==
    ASSUME NEW p \in Pipe_t, NEW q \in Pipe_t, NEW irp \in Irp, NEW st \in Status,
           q.done = Append(p.done, [irp |-> irp, status |-> st])
    PROVE  Over(q) = Append(Over(p), irp) /\ Statuses(q) = Append(Statuses(p), st)
  <1> DEFINE d == Len(p.done)
             rec == [irp |-> irp, status |-> st]
  <1>1. p.done \in Seq(DoneIrp) /\ rec \in DoneIrp
    BY DEF Pipe_t, DoneIrp
  <1>2. rec.irp = irp /\ rec.status = st
    OBVIOUS
  <1>3. q.done = Append(p.done, rec)
    OBVIOUS
  <1> HIDE DEF rec
  <1>4. /\ d \in Nat /\ Len(q.done) = d + 1
        /\ \A k \in 1 .. d : q.done[k] = p.done[k]
        /\ q.done[d + 1] = rec
    BY <1>1, <1>3, AppendProperties, LenProperties
  <1>5. /\ Over(p) \in Seq(Irp) /\ Len(Over(p)) = d
        /\ Over(q) \in Seq(Irp) /\ Len(Over(q)) = d + 1
        /\ Statuses(p) \in Seq(Status) /\ Len(Statuses(p)) = d
        /\ Statuses(q) \in Seq(Status) /\ Len(Statuses(q)) = d + 1
    BY <1>4, OverParts
  <1>6. /\ Append(Over(p), irp) \in Seq(Irp)
        /\ Len(Append(Over(p), irp)) = d + 1
        /\ \A k \in 1 .. d : Append(Over(p), irp)[k] = Over(p)[k]
        /\ Append(Over(p), irp)[d + 1] = irp
        /\ Append(Statuses(p), st) \in Seq(Status)
        /\ Len(Append(Statuses(p), st)) = d + 1
        /\ \A k \in 1 .. d : Append(Statuses(p), st)[k] = Statuses(p)[k]
        /\ Append(Statuses(p), st)[d + 1] = st
    BY <1>5, AppendProperties
  <1>7. /\ \A k \in 1 .. d : Over(p)[k] = p.done[k].irp /\ Statuses(p)[k] = p.done[k].status
        /\ \A k \in 1 .. d + 1 : Over(q)[k] = q.done[k].irp /\ Statuses(q)[k] = q.done[k].status
    BY <1>4 DEF Over, Statuses
  <1> HIDE DEF d
  <1>8. ASSUME NEW k \in 1 .. d + 1
        PROVE  Over(q)[k] = Append(Over(p), irp)[k] /\ Statuses(q)[k] = Append(Statuses(p), st)[k]
    <2>1. CASE k = d + 1
      BY <1>2, <1>4, <1>6, <1>7, <2>1
    <2>2. CASE k # d + 1
      <3>1. k \in 1 .. d
        BY <1>4, <2>2
      <3> QED BY <1>4, <1>6, <1>7, <3>1
    <2> QED BY <2>1, <2>2
  <1> QED BY <1>5, <1>6, <1>8, SeqEqual

-----------------------------------------------------------------------------
(* The steps of IrpQueue, of a pipe that was p and is q *)

\* The client sees no difference.
Keeps(p, q) ==
    /\ InOrder(q) = InOrder(p)
    /\ Statuses(q) = Statuses(p)
    /\ q.state = "INVALID" <=> p.state = "INVALID"

Accepts(p, q, irp) ==
    /\ p.state # "INVALID" /\ q.state # "INVALID"
    /\ \A k \in 1 .. Len(InOrder(p)) : InOrder(p)[k] # irp
    /\ InOrder(q) = Append(InOrder(p), irp)
    /\ Statuses(q) = Statuses(p)

Ends(p, q, s) ==
    /\ p.state # "INVALID" /\ q.state # "INVALID"
    /\ s # "NO_DEVICE"
    /\ Unfinished(p) > 0
    /\ InOrder(q) = InOrder(p)
    /\ Statuses(q) = Append(Statuses(p), s)

\* Every IRP that is left ends with the status s.
EndsAll(p, q, s) ==
    /\ InOrder(q) = InOrder(p)
    /\ Statuses(q) = Statuses(p) \o [k \in 1 .. Unfinished(p) |-> s]

CancelsAll(p, q) ==
    /\ p.state # "INVALID" /\ q.state # "INVALID"
    /\ EndsAll(p, q, "CANCELED")

Cancels(p, q, k) ==
    /\ k > Len(Statuses(p))
    /\ LET from == Len(Statuses(p)) + 1 IN
       InOrder(q) = [l \in 1 .. Len(InOrder(p)) |->
                        IF l = from THEN InOrder(p)[k]
                        ELSE IF l > from /\ l <= k THEN InOrder(p)[l - 1] ELSE InOrder(p)[l]]
    /\ Statuses(q) = Append(Statuses(p), "CANCELED")
    /\ q.state = "INVALID" <=> p.state = "INVALID"

Loses(p, q) == q.state = "INVALID" /\ EndsAll(p, q, "NO_DEVICE")

Returns(p, q) ==
    /\ Statuses(p) # << >>
    /\ InOrder(q) = Tail(InOrder(p))
    /\ Statuses(q) = Tail(Statuses(p))
    /\ q.state = "INVALID" <=> p.state = "INVALID"

Reopens(p, q) ==
    /\ InOrder(p) = << >> /\ InOrder(q) = << >>
    /\ Statuses(q) = Statuses(p)
    /\ q.state # "INVALID"

\* The pipe makes one step of IrpQueue, or none.
Honest(p, q) ==
    \/ Keeps(p, q)
    \/ \E irp \in Irp : Accepts(p, q, irp)
    \/ \E s \in Status : Ends(p, q, s)
    \/ CancelsAll(p, q)
    \/ \E k \in 1 .. Len(InOrder(p)) : Cancels(p, q, k)
    \/ Loses(p, q)
    \/ Returns(p, q)
    \/ Reopens(p, q)

\* An honest step of a pipe is a step of its promise.
LEMMA HonestStep ==
    ASSUME NEW p \in Pipe, Honest(pipes[p], pipes'[p])
    PROVE  [Promise(p)!Next]_(Promise(p)!vars)
  <1>1. CASE Keeps(pipes[p], pipes'[p])
    BY <1>1 DEF Keeps, Statuses, Promise!vars
  <1>2. ASSUME NEW irp \in Irp, Accepts(pipes[p], pipes'[p], irp)
        PROVE  Promise(p)!Accept(irp)
    BY <1>2 DEF Accepts, Statuses, Promise!Accept
  <1>3. ASSUME NEW s \in Status, Ends(pipes[p], pipes'[p], s)
        PROVE  Promise(p)!End(s)
    BY <1>3 DEF Ends, Unfinished, Statuses, Promise!End, Promise!Rest, Promise!NumOver
  <1>4. CASE CancelsAll(pipes[p], pipes'[p])
    <2>1. Promise(p)!CancelAll
      BY <1>4 DEF CancelsAll, EndsAll, Unfinished, Statuses, Promise!CancelAll, Promise!EndRest,
                  Promise!Rest, Promise!NumOver
    <2> QED BY <2>1 DEF Promise!Next
  <1>5. ASSUME NEW k \in 1 .. Len(InOrder(pipes[p])), Cancels(pipes[p], pipes'[p], k)
        PROVE  Promise(p)!Cancel(k)
    BY <1>5 DEF Cancels, Statuses, Promise!Cancel, Promise!NumOver
  <1>6. CASE Loses(pipes[p], pipes'[p])
    <2>1. Promise(p)!Lose
      BY <1>6 DEF Loses, EndsAll, Unfinished, Statuses, Promise!Lose, Promise!EndRest,
                  Promise!Rest, Promise!NumOver
    <2> QED BY <2>1 DEF Promise!Next
  <1>7. CASE Returns(pipes[p], pipes'[p])
    <2>1. Promise(p)!GiveBack
      BY <1>7 DEF Returns, Statuses, Promise!GiveBack
    <2> QED BY <2>1 DEF Promise!Next
  <1>8. CASE Reopens(pipes[p], pipes'[p])
    <2>1. Promise(p)!Reopen
      BY <1>8 DEF Reopens, Statuses, Promise!Reopen
    <2> QED BY <2>1 DEF Promise!Next
  <1> QED BY <1>1, <1>2, <1>3, <1>4, <1>5, <1>6, <1>7, <1>8 DEF Honest, Promise!Next

-----------------------------------------------------------------------------
(* Steps that the client does not see *)

\* A pipe that stays as it is.
LEMMA KeepsReflexive == \A p : Keeps(p, p)
BY DEF Keeps

\* Two such steps are one, before and after a step that the client sees.
LEMMA KeepsTransitive ==
    ASSUME NEW p, NEW q, NEW r, Keeps(q, r)
    PROVE  /\ Keeps(p, q) => Keeps(p, r)
           /\ \A irp : Accepts(p, q, irp) => Accepts(p, r, irp)
           /\ \A s : Ends(p, q, s) => Ends(p, r, s)
           /\ CancelsAll(p, q) => CancelsAll(p, r)
BY DEF Keeps, Accepts, Ends, CancelsAll, EndsAll

\* A step that changes flags only, and invalidates no pipe.
LEMMA SameRingKeeps ==
    ASSUME NEW p, NEW q, SameRing(p, q), q.state = "INVALID" <=> p.state = "INVALID"
    PROVE  Keeps(p, q)
BY DEF Keeps, SameRing, InOrder, InFlight, Statuses

\* _buffer_fill puts the first IRP that waits behind those in the buffers.
LEMMA FillMoves ==
    ASSUME NEW p, Sound(p), CanFill(p)
    PROVE  LET q == BufferFill(p) IN
           /\ q \in Pipe_t /\ FillStep(p, q) /\ RingWindows(q)
           /\ InFlight(p) \in Seq(Irp) /\ Len(InFlight(p)) < NumBuffers
           /\ p.pending \in Seq(Irp) /\ p.pending # << >>
           /\ InFlight(q) = Append(InFlight(p), Head(p.pending))
  <1> DEFINE q == BufferFill(p)
             n == p.to_parse + p.to_exec
  <1>1. p \in Pipe_t /\ RingWindows(p) /\ Counted(p) /\ Indexed(p)
    BY DEF Sound, RingOK, RingWindows
  <1>2. q \in Pipe_t /\ FillStep(p, q)
    BY <1>1, FillFields
  <1>3. RingWindows(q)
    BY <1>1, <1>2, FillRing
  <1>4. /\ p.to_parse \in Nat /\ p.to_exec \in Nat /\ p.to_fill > 0
        /\ p.fr_idx \in Idx /\ p.buf \in [Idx -> Irp \union {NoIrp}]
        /\ p.pending \in Seq(Irp) /\ p.pending # << >>
    BY <1>1, NumBuffersAssumption DEF Pipe_t, CanFill
  <1>5. n \in Nat /\ n < NumBuffers /\ p.wr_idx = Plus(p.fr_idx, n)
    BY <1>1, <1>4, WindowEnd
  <1>6. q.to_parse + q.to_exec = n + 1
    BY <1>2, <1>4 DEF FillStep
  <1> HIDE DEF q, n
  <1>7. /\ InFlight(p) \in Seq(Irp) /\ Len(InFlight(p)) = n
        /\ \A k \in 1 .. n : InFlight(p)[k] = p.buf[Plus(p.fr_idx, k - 1)]
    BY <1>1, InFlightParts DEF n
  <1>8. /\ InFlight(q) \in Seq(Irp) /\ Len(InFlight(q)) = n + 1
        /\ \A k \in 1 .. n + 1 : InFlight(q)[k] = q.buf[Plus(p.fr_idx, k - 1)]
    <2>1. q.fr_idx = p.fr_idx
      BY <1>2 DEF FillStep
    <2> QED BY <1>2, <1>3, <1>6, <2>1, InFlightParts
  <1>9. Head(p.pending) \in Irp /\ Tail(p.pending) \in Seq(Irp)
    BY <1>4, HeadTailProperties
  <1>10. /\ Append(InFlight(p), Head(p.pending)) \in Seq(Irp)
         /\ Len(Append(InFlight(p), Head(p.pending))) = n + 1
         /\ \A k \in 1 .. n : Append(InFlight(p), Head(p.pending))[k] = InFlight(p)[k]
         /\ Append(InFlight(p), Head(p.pending))[n + 1] = Head(p.pending)
    BY <1>7, <1>9, AppendProperties
  <1>11. ASSUME NEW k \in 1 .. n + 1
         PROVE  InFlight(q)[k] = Append(InFlight(p), Head(p.pending))[k]
    <2>1. /\ k - 1 \in 0 .. NumBuffers - 1 /\ n \in 0 .. NumBuffers - 1
          /\ k - 1 \in 0 .. NumBuffers
          /\ k = n + 1 \/ k \in 1 .. n
      BY <1>5, NumBuffersAssumption
    <2>2. Plus(p.fr_idx, k - 1) = Plus(p.fr_idx, n) <=> k - 1 = n
      BY <1>4, <2>1, DistPlus
    <2>3. Plus(p.fr_idx, k - 1) \in Idx
      BY <1>4, <2>1, IdxClosed
    <2>4. q.buf[Plus(p.fr_idx, k - 1)] =
              IF k - 1 = n THEN Head(p.pending) ELSE p.buf[Plus(p.fr_idx, k - 1)]
      BY <1>2, <1>4, <1>5, <2>2, <2>3 DEF FillStep
    <2>5. CASE k = n + 1
      BY <1>5, <1>8, <1>10, <2>4, <2>5
    <2>6. CASE k \in 1 .. n
      BY <1>5, <1>7, <1>8, <1>10, <2>4, <2>6
    <2> QED BY <2>1, <2>5, <2>6
  <1>12. InFlight(q) = Append(InFlight(p), Head(p.pending))
    BY <1>8, <1>10, <1>11, SeqEqual
  <1> QED BY <1>2, <1>3, <1>4, <1>5, <1>7, <1>12 DEF q

\* _buffer_fill, if it can.
LEMMA FillIfCanKeeps ==
    ASSUME NEW p, Sound(p)
    PROVE  Keeps(p, FillIfCan(p))
  <1>1. CASE ~CanFill(p)
    BY <1>1, KeepsReflexive DEF FillIfCan
  <1>2. CASE CanFill(p)
    <2> DEFINE q == BufferFill(p)
    <2>1. p \in Pipe_t /\ RingWindows(p)
      BY DEF Sound, RingOK
    <2>2. /\ q \in Pipe_t /\ FillStep(p, q) /\ RingWindows(q)
          /\ InFlight(p) \in Seq(Irp) /\ p.pending \in Seq(Irp) /\ p.pending # << >>
          /\ InFlight(q) = Append(InFlight(p), Head(p.pending))
      BY <1>2, FillMoves
    <2> HIDE DEF q
    <2>3. Head(p.pending) \in Irp /\ Tail(p.pending) \in Seq(Irp)
      BY <2>2, HeadTailProperties
    <2>4. Over(q) = Over(p) /\ Statuses(q) = Statuses(p) /\ q.pending = Tail(p.pending)
          /\ q.state = p.state
      BY <2>2 DEF FillStep, Over, Statuses
    <2>5. /\ InOrder(p) = (Over(p) \o InFlight(p)) \o p.pending
          /\ InOrder(q) = (Over(p) \o Append(InFlight(p), Head(p.pending))) \o Tail(p.pending)
          /\ Over(p) \in Seq(Irp) /\ Over(p) \o InFlight(p) \in Seq(Irp)
      BY <2>1, <2>2, <2>4, InOrderParts
    <2>6. Over(p) \o Append(InFlight(p), Head(p.pending)) =
              Append(Over(p) \o InFlight(p), Head(p.pending))
      BY <2>2, <2>3, <2>5, ConcatAppend
    <2>7. InOrder(q) = InOrder(p)
      BY <2>2, <2>5, <2>6, HeadMoves
    <2> QED BY <1>2, <2>4, <2>7 DEF Keeps, FillIfCan, q
  <1> QED BY <1>1, <1>2

\* _buffer_can_exec and _buffer_exec.
LEMMA ExecKeeps ==
    ASSUME NEW p \in Pipe_t
    PROVE  Keeps(p, BufferExec(p))
BY ExecFields, SameRingKeeps

\* The pair of ifs that ends an enqueue, a clear and an unpause.
LEMMA FillAndExecKeeps ==
    ASSUME NEW p, Sound(p)
    PROVE  Keeps(p, FillAndExec(p))
  <1> DEFINE f == FillIfCan(p)
  <1>1. Keeps(p, f) /\ Follows(p, f)
    BY FillIfCanKeeps, FillIfCanFollows
  <1>2. FillAndExec(p) = IF CanExec(f) THEN BufferExec(f) ELSE f
    BY DEF FillAndExec
  <1> HIDE DEF f
  <1>3. Keeps(f, BufferExec(f))
    BY <1>1, ExecKeeps DEF Follows, Sound
  <1> QED BY <1>1, <1>2, <1>3, KeepsTransitive

-----------------------------------------------------------------------------
(* Steps of the client on an IRP *)

\* The queue that the client sees, place by place.
LEMMA InOrderAt ==
    ASSUME NEW p \in Pipe_t, RingWindows(p)
    PROVE  LET d == Len(p.done)
               n == p.to_parse + p.to_exec
           IN  /\ d \in Nat /\ n \in Nat /\ Len(p.pending) \in Nat
               /\ Len(InOrder(p)) = d + n + Len(p.pending)
               /\ \A k \in 1 .. d : InOrder(p)[k] = Over(p)[k]
               /\ \A k \in 1 .. n : InOrder(p)[d + k] = InFlight(p)[k]
               /\ \A k \in 1 .. Len(p.pending) : InOrder(p)[d + n + k] = p.pending[k]
  <1>1. /\ Over(p) \in Seq(Irp) /\ Len(Over(p)) = Len(p.done)
        /\ InFlight(p) \in Seq(Irp) /\ Len(InFlight(p)) = p.to_parse + p.to_exec
        /\ p.pending \in Seq(Irp)
        /\ InOrder(p) = (Over(p) \o InFlight(p)) \o p.pending
    BY OverParts, InFlightParts, InOrderParts
  <1> DEFINE s == Over(p)
             t == InFlight(p)
             u == p.pending
             w == (s \o t) \o u
  <1>2. s \in Seq(Irp) /\ t \in Seq(Irp) /\ u \in Seq(Irp)
    BY <1>1
  <1> HIDE DEF s, t, u
  <1>3. /\ Len(s) \in Nat /\ Len(t) \in Nat /\ Len(u) \in Nat
        /\ Len(w) = Len(s) + Len(t) + Len(u)
        /\ \A k \in 1 .. Len(s) : w[k] = s[k]
        /\ \A k \in 1 .. Len(t) : w[Len(s) + k] = t[k]
        /\ \A k \in 1 .. Len(u) : w[Len(s) + Len(t) + k] = u[k]
    BY <1>2, ThreeParts
  <1> QED BY <1>1, <1>3 DEF s, t, u

\* An idle IRP is nowhere in the pipe.
LEMMA IdleNotHeld ==
    ASSUME NEW p, Sound(p), NEW irp \in Irp, p.irp_state[irp] = "IDLE"
    PROVE  \A k \in 1 .. Len(InOrder(p)) : InOrder(p)[k] # irp
  <1> DEFINE d == Len(p.done)
             n == p.to_parse + p.to_exec
  <1>1. p \in Pipe_t /\ RingWindows(p) /\ RingOK(p) /\ IrpsOK(p)
    BY DEF Sound, RingOK
  <1>2. /\ d \in Nat /\ n \in Nat /\ Len(p.pending) \in Nat
        /\ Len(InOrder(p)) = d + n + Len(p.pending)
        /\ \A k \in 1 .. d : InOrder(p)[k] = Over(p)[k]
        /\ \A k \in 1 .. n : InOrder(p)[d + k] = InFlight(p)[k]
        /\ \A k \in 1 .. Len(p.pending) : InOrder(p)[d + n + k] = p.pending[k]
    BY <1>1, InOrderAt
  <1>3. \A k \in 1 .. d : Over(p)[k] # irp
    BY <1>1, OverParts DEF IrpsOK, DoneOK
  <1>4. \A k \in 1 .. n : InFlight(p)[k] # irp
    <2>1. \A j \in Idx : p.buf[j] # irp
      BY <1>1 DEF IrpsOK, InFlightOK
    <2>2. \A k \in 1 .. n : Plus(p.fr_idx, k - 1) \in Idx
      <3>1. n <= NumBuffers /\ p.fr_idx \in Idx
        BY <1>1, WindowEnd DEF RingWindows, Pipe_t
      <3> HIDE DEF n
      <3>2. \A k \in 1 .. n : k - 1 \in 0 .. NumBuffers
        BY <1>2, <3>1, NumBuffersAssumption
      <3> QED BY <3>1, <3>2, IdxClosed
    <2> QED BY <1>1, <2>1, <2>2, InFlightParts
  <1>5. \A k \in 1 .. Len(p.pending) : p.pending[k] # irp
    BY <1>1 DEF IrpsOK, PendingOK
  <1> HIDE DEF d, n
  <1>6. ASSUME NEW k \in 1 .. Len(InOrder(p))
        PROVE  InOrder(p)[k] # irp
    <2> DEFINE m == Len(p.pending)
    <2>1. d \in Nat /\ n \in Nat /\ m \in Nat /\ k \in 1 .. d + n + m
      BY <1>2
    <2> HIDE DEF m
    <2>2. CASE k <= d
      <3>1. k \in 1 .. d
        BY <2>1, <2>2
      <3> QED BY <1>2, <1>3, <3>1
    <2>3. CASE d < k /\ k <= d + n
      <3>1. k - d \in 1 .. n /\ d + (k - d) = k
        BY <2>1, <2>3
      <3> QED BY <1>2, <1>4, <3>1
    <2>4. CASE d + n < k
      <3>1. k - (d + n) \in 1 .. m /\ d + n + (k - (d + n)) = k
        BY <2>1, <2>4
      <3> QED BY <1>2, <1>5, <3>1 DEF m
    <2> QED BY <2>1, <2>2, <2>3, <2>4
  <1> QED BY <1>6

\* hcd_irp_enqueue accepts the IRP.
LEMMA EnqueuedAccepts ==
    ASSUME NEW p, Sound(p), NEW irp \in Irp, p.irp_state[irp] = "IDLE", p.state = "ACTIVE"
    PROVE  Accepts(p, Enqueued(p, irp), irp)
  <1> DEFINE q == EnqueuedFirst(p, irp)
  <1>1. p \in Pipe_t /\ RingWindows(p)
    BY DEF Sound, RingOK
  <1>2. /\ q.pending = Append(p.pending, irp)
        /\ q.done = p.done /\ q.buf = p.buf
        /\ q.to_exec = p.to_exec /\ q.to_parse = p.to_parse /\ q.fr_idx = p.fr_idx
        /\ q.state = p.state
    BY <1>1 DEF EnqueuedFirst, Pipe_t
  <1>3. Sound(q)
    BY EnqueuedFirstSound DEF Takes
  <1>4. Enqueued(p, irp) = FillAndExec(q)
    BY DEF Enqueued, EnqueuedFirst
  <1> HIDE DEF q
  <1>5. Statuses(q) = Statuses(p)
    BY <1>2 DEF Statuses
  <1>6. InOrder(q) = (Over(p) \o InFlight(p)) \o Append(p.pending, irp)
    BY <1>2 DEF InOrder, Over, InFlight
  <1>7. InOrder(q) = Append(InOrder(p), irp)
    <2>1. /\ InOrder(p) = (Over(p) \o InFlight(p)) \o p.pending
          /\ Over(p) \o InFlight(p) \in Seq(Irp) /\ p.pending \in Seq(Irp)
      BY <1>1, InOrderParts
    <2> DEFINE s == Over(p) \o InFlight(p)
    <2>2. s \in Seq(Irp)
      BY <2>1
    <2> HIDE DEF s
    <2>3. s \o Append(p.pending, irp) = Append(s \o p.pending, irp)
      BY <2>1, <2>2, ConcatAppend
    <2> QED BY <1>6, <2>1, <2>3 DEF s
  <1>8. Accepts(p, q, irp)
    BY <1>2, <1>5, <1>7, IdleNotHeld DEF Accepts
  <1>9. Keeps(q, FillAndExec(q))
    BY <1>3, FillAndExecKeeps
  <1> QED BY <1>4, <1>8, <1>9, KeepsTransitive

\* hcd_irp_dequeue gives back the oldest IRP.
LEMMA DequeuedReturns ==
    ASSUME NEW p, Sound(p), p.done # << >>
    PROVE  Returns(p, Dequeued(p))
  <1> DEFINE q == Dequeued(p)
  <1>1. p \in Pipe_t /\ RingWindows(p) /\ p.done \in Seq(DoneIrp)
    BY DEF Sound, RingOK, Pipe_t
  <1>2. /\ q.done = Tail(p.done) /\ q.pending = p.pending /\ q.buf = p.buf
        /\ q.to_exec = p.to_exec /\ q.to_parse = p.to_parse /\ q.fr_idx = p.fr_idx
        /\ q.state = p.state
    BY <1>1 DEF Dequeued, Pipe_t
  <1> HIDE DEF q
  <1>3. /\ Len(p.done) \in Nat /\ Len(p.done) > 0
        /\ Len(Tail(p.done)) = Len(p.done) - 1
        /\ \A k \in 1 .. Len(p.done) - 1 : Tail(p.done)[k] = p.done[k + 1]
    BY <1>1
  <1>4. /\ Over(p) \in Seq(Irp) /\ Len(Over(p)) = Len(p.done)
        /\ Statuses(p) \in Seq(Status) /\ Len(Statuses(p)) = Len(p.done)
    BY <1>1, OverParts
  <1>5. Over(p) # << >> /\ Statuses(p) # << >>
    BY <1>3, <1>4
  <1>6. Over(q) = Tail(Over(p))
    BY <1>2, <1>3 DEF Over
  <1>7. Statuses(q) = Tail(Statuses(p))
    BY <1>2, <1>3 DEF Statuses
  <1>8. InOrder(q) = (Tail(Over(p)) \o InFlight(p)) \o p.pending
    BY <1>2, <1>6 DEF InOrder, InFlight, Over
  <1>9. /\ InFlight(p) \in Seq(Irp) /\ p.pending \in Seq(Irp)
        /\ Over(p) \o InFlight(p) \in Seq(Irp)
        /\ InOrder(p) = (Over(p) \o InFlight(p)) \o p.pending
    BY <1>1, InOrderParts
  <1>10. Over(p) \o InFlight(p) # << >>
    BY <1>4, <1>5, <1>9, ConcatEqualIffEmpty
  <1>11. InOrder(q) = Tail(InOrder(p))
    BY <1>4, <1>5, <1>8, <1>9, <1>10, TailConcat
  <1>12. Returns(p, q)
    BY <1>2, <1>5, <1>7, <1>11 DEF Returns
  <1> QED BY <1>12 DEF q

\* hcd_irp_abort takes an IRP out of the pending queue and puts it behind the IRPs
\* that are done.
LEMMA AbortedCancels ==
    ASSUME NEW p, Sound(p), NEW irp \in Irp, p.irp_state[irp] = "PENDING"
    PROVE  \E k \in 1 .. Len(InOrder(p)) : Cancels(p, Aborted(p, irp), k)
  <1> DEFINE q == Aborted(p, irp)
             d == Len(p.done)
             n == p.to_parse + p.to_exec
             m == Len(p.pending)
             j == CHOOSE j \in 1 .. Len(p.pending) : p.pending[j] = irp
             k == d + n + j
             from == d + 1
             Moved(l) == IF l = from THEN InOrder(p)[k]
                         ELSE IF l > from /\ l <= k THEN InOrder(p)[l - 1] ELSE InOrder(p)[l]
  <1>1. /\ p \in Pipe_t /\ RingWindows(p)
        /\ \E i \in 1 .. m : p.pending[i] = irp
    BY DEF Sound, RingOK, IrpsOK, PendingOK
  <1>2. q \in Pipe_t /\ RingWindows(q)
    BY AbortedFollows DEF Follows, Sound, RingOK
  <1>3. /\ q.done = Append(p.done, [irp |-> irp, status |-> "CANCELED"])
        /\ q.pending = [l \in 1 .. m - 1 |-> IF l < j THEN p.pending[l] ELSE p.pending[l + 1]]
        /\ q.to_parse = p.to_parse /\ q.to_exec = p.to_exec
        /\ q.buf = p.buf /\ q.fr_idx = p.fr_idx /\ q.state = p.state
    BY <1>1 DEF Aborted, Without, Pipe_t
  <1>4. j \in 1 .. m /\ p.pending[j] = irp
    BY <1>1
  <1>5. /\ d \in Nat /\ n \in Nat /\ m \in Nat
        /\ Len(InOrder(p)) = d + n + m
        /\ \A l \in 1 .. d : InOrder(p)[l] = Over(p)[l]
        /\ \A l \in 1 .. n : InOrder(p)[d + l] = InFlight(p)[l]
        /\ \A l \in 1 .. m : InOrder(p)[d + n + l] = p.pending[l]
    BY <1>1, InOrderAt
  <1>6. Over(q) = Append(Over(p), irp) /\ Statuses(q) = Append(Statuses(p), "CANCELED")
    BY <1>1, <1>2, <1>3, OneOver DEF Status
  <1>7. Over(p) \in Seq(Irp) /\ Len(Over(p)) = d /\ Len(Statuses(p)) = d
    BY <1>1, OverParts
  <1>8. /\ Len(Over(q)) = d + 1
        /\ \A l \in 1 .. d : Over(q)[l] = Over(p)[l]
        /\ Over(q)[d + 1] = irp
    BY <1>6, <1>7, AppendProperties
  <1>9. InFlight(q) = InFlight(p)
    BY <1>3 DEF InFlight
  <1>10. Len(q.done) = d + 1
    BY <1>2, <1>8, OverParts
  <1> HIDE DEF q, d, n, m, j
  <1>11. Len(q.pending) = m - 1
    BY <1>3, <1>4, <1>5
  <1>12. /\ InOrder(q) \in Seq(Irp)
         /\ Len(InOrder(q)) = d + 1 + n + (m - 1)
         /\ \A l \in 1 .. d + 1 : InOrder(q)[l] = Over(q)[l]
         /\ \A l \in 1 .. n : InOrder(q)[d + 1 + l] = InFlight(p)[l]
         /\ \A l \in 1 .. m - 1 : InOrder(q)[d + 1 + n + l] = q.pending[l]
    <2>1. q.to_parse + q.to_exec = n
      BY <1>3 DEF n
    <2>2. /\ Len(InOrder(q)) = Len(q.done) + (q.to_parse + q.to_exec) + Len(q.pending)
          /\ \A l \in 1 .. Len(q.done) : InOrder(q)[l] = Over(q)[l]
          /\ \A l \in 1 .. q.to_parse + q.to_exec : InOrder(q)[Len(q.done) + l] = InFlight(q)[l]
          /\ \A l \in 1 .. Len(q.pending) :
                InOrder(q)[Len(q.done) + (q.to_parse + q.to_exec) + l] = q.pending[l]
      BY <1>2, InOrderAt
    <2>3. InOrder(q) \in Seq(Irp)
      BY <1>2, InOrderParts
    <2> QED BY <1>9, <1>10, <1>11, <2>1, <2>2, <2>3
  <1>13. ASSUME NEW l \in 1 .. d + n + m
         PROVE  InOrder(q)[l] = Moved(l)
    <2>1. CASE l <= d
      <3>1. l \in 1 .. d /\ l \in 1 .. d + 1 /\ ~(l >= from)
        BY <1>5, <2>1
      <3> QED BY <1>5, <1>8, <1>12, <3>1
    <2>2. CASE l = d + 1
      <3>1. l \in 1 .. d + 1
        BY <1>5, <2>2
      <3>2. InOrder(p)[k] = irp
        BY <1>4, <1>5
      <3>3. InOrder(q)[l] = irp
        BY <1>8, <1>12, <2>2, <3>1
      <3> QED BY <1>5, <2>2, <3>2, <3>3
    <2>3. CASE d + 1 < l /\ l <= d + 1 + n
      <3> DEFINE i == l - (d + 1)
      <3>1. i \in 1 .. n /\ d + 1 + i = l /\ d + i = l - 1
        BY <1>5, <2>3
      <3>2. l > from /\ l <= k /\ l # from
        BY <1>4, <1>5, <2>3
      <3> HIDE DEF i
      <3>3. InOrder(q)[l] = InFlight(p)[i]
        BY <1>12, <3>1
      <3>4. InOrder(p)[l - 1] = InFlight(p)[i]
        BY <1>5, <3>1
      <3> QED BY <3>2, <3>3, <3>4
    <2>4. CASE d + 1 + n < l
      <3> DEFINE i == l - (d + 1 + n)
      <3>1. /\ i \in 1 .. m - 1 /\ d + 1 + n + i = l
            /\ i \in 1 .. m /\ i + 1 \in 1 .. m
            /\ d + n + i = l - 1 /\ d + n + (i + 1) = l
            /\ i < j <=> l <= k
            /\ l > from /\ l # from
        BY <1>4, <1>5, <2>4
      <3> HIDE DEF i
      <3>2. InOrder(q)[l] = IF i < j THEN p.pending[i] ELSE p.pending[i + 1]
        BY <1>3, <1>12, <3>1
      <3>3. InOrder(p)[l - 1] = p.pending[i] /\ InOrder(p)[l] = p.pending[i + 1]
        BY <1>5, <3>1
      <3> QED BY <3>1, <3>2, <3>3
    <2> QED BY <1>5, <2>1, <2>2, <2>3, <2>4
  <1> HIDE DEF Moved
  <1>14. InOrder(q) = [l \in 1 .. d + n + m |-> Moved(l)]
    <2>1. Len(InOrder(q)) = d + n + m
      BY <1>5, <1>12
    <2>2. InOrder(q) = [l \in 1 .. d + n + m |-> InOrder(q)[l]]
      BY <1>12, <2>1, LenProperties
    <2> QED BY <1>13, <2>2
  <1>15. k \in 1 .. d + n + m /\ k > d
    BY <1>4, <1>5
  <1>16. Cancels(p, q, k)
    <2>1. InOrder(q) = [l \in 1 .. Len(InOrder(p)) |->
                          IF l = d + 1 THEN InOrder(p)[k]
                          ELSE IF l > d + 1 /\ l <= k THEN InOrder(p)[l - 1] ELSE InOrder(p)[l]]
      BY <1>5, <1>14 DEF Moved
    <2> QED BY <1>3, <1>6, <1>7, <1>15, <2>1 DEF Cancels
  <1> HIDE DEF k
  <1> QED BY <1>5, <1>15, <1>16 DEF q

-----------------------------------------------------------------------------
(* The end of a transfer *)

\* A buffer that is marked as done keeps its IRP, and has its result.
LEMMA MarkDoneKeeps ==
    ASSUME NEW p, Sound(p), p.executing, NEW res \in Status
    PROVE  LET q == MarkDone(p, res) IN
           /\ Keeps(p, q)
           /\ q.result[q.fr_idx] = res
  <1> DEFINE q == MarkDone(p, res)
  <1>1. /\ p \in Pipe_t /\ p.to_parse = 0
        /\ p.fr_idx \in Idx /\ p.result \in [Idx -> Status \union {"NONE"}]
        /\ p.to_exec \in Nat
    BY NumBuffersAssumption DEF Sound, RingOK, Pipe_t
  <1>2. DoneStep(p, q) /\ q.state = p.state
    BY MarkDoneFields
  <1>3. p.rd_idx = p.fr_idx
    BY <1>1, IdxClosed DEF Sound, RingOK, RingWindows, Indexed
  <1>4. q.result = [p.result EXCEPT ![p.rd_idx] = res] /\ q.fr_idx = p.fr_idx
    BY <1>1 DEF MarkDone, Pipe_t
  <1>5. q.result[q.fr_idx] = res
    BY <1>1, <1>3, <1>4
  <1> HIDE DEF q
  <1>6. q.to_parse + q.to_exec = p.to_parse + p.to_exec
    BY <1>1, <1>2 DEF DoneStep
  <1>7. Keeps(p, q)
    BY <1>2, <1>6 DEF Keeps, DoneStep, InOrder, InFlight, Statuses
  <1> QED BY <1>5, <1>7 DEF q

\* _buffer_parse takes the oldest IRP out of the buffers.
LEMMA ParseHead ==
    ASSUME NEW p \in Pipe_t, NEW q \in Pipe_t, ParseStep(p, q), p.to_parse > 0,
           RingWindows(p), RingWindows(q)
    PROVE  /\ InFlight(p) \in Seq(Irp) /\ InFlight(p) # << >>
           /\ Head(InFlight(p)) = p.buf[p.fr_idx] /\ InFlight(q) = Tail(InFlight(p))
  <1> DEFINE irp == p.buf[p.fr_idx]
             n == p.to_parse + p.to_exec
  <1>1. /\ p.fr_idx \in Idx /\ p.buf \in [Idx -> Irp \union {NoIrp}]
        /\ p.to_parse \in Nat /\ p.to_exec \in Nat
    BY NumBuffersAssumption DEF Pipe_t
  <1>2. n \in Nat /\ n > 0 /\ n <= NumBuffers /\ q.to_parse + q.to_exec = n - 1
    BY <1>1, WindowEnd DEF RingWindows, ParseStep
  <1>3. q.buf = [p.buf EXCEPT ![p.fr_idx] = NoIrp] /\ q.fr_idx = Inc(p.fr_idx)
    BY DEF ParseStep
  <1> HIDE DEF irp, n
  <1>4. /\ InFlight(p) \in Seq(Irp) /\ Len(InFlight(p)) = n
       /\ \A k \in 1 .. n : InFlight(p)[k] = p.buf[Plus(p.fr_idx, k - 1)]
    BY InFlightParts DEF n
  <1>5. /\ InFlight(q) \in Seq(Irp) /\ Len(InFlight(q)) = n - 1
       /\ \A k \in 1 .. n - 1 : InFlight(q)[k] = q.buf[Plus(q.fr_idx, k - 1)]
    BY <1>2, InFlightParts
  <1>6. InFlight(p) # << >>
    BY <1>2, <1>4
  <1>7. Head(InFlight(p)) = irp
    <2>1. 1 \in 1 .. n /\ Plus(p.fr_idx, 1 - 1) = p.fr_idx
      BY <1>1, <1>2, IdxClosed
    <2> QED BY <1>4, <2>1 DEF irp
  <1>8. ASSUME NEW k \in 1 .. n - 1
        PROVE  InFlight(q)[k] = InFlight(p)[k + 1]
    <2>1. /\ k - 1 \in Nat /\ k - 1 < NumBuffers /\ k \in 0 .. NumBuffers - 1
          /\ 0 \in 0 .. NumBuffers - 1 /\ k \in 0 .. NumBuffers /\ k + 1 \in 1 .. n
          /\ (k - 1) + 1 = k /\ (k + 1) - 1 = k /\ k # 0
      BY <1>2, NumBuffersAssumption
    <2>2. Plus(q.fr_idx, k - 1) = Plus(p.fr_idx, k)
      BY <1>1, <1>3, <2>1, IncPlus
    <2>3. Plus(p.fr_idx, k) # p.fr_idx /\ Plus(p.fr_idx, k) \in Idx
      BY <1>1, <2>1, DistPlus, IdxClosed
    <2> QED BY <1>1, <1>3, <1>4, <1>5, <2>1, <2>2, <2>3
  <1>9. /\ Tail(InFlight(p)) \in Seq(Irp) /\ Len(Tail(InFlight(p))) = n - 1
       /\ \A k \in 1 .. n - 1 : Tail(InFlight(p))[k] = InFlight(p)[k + 1]
    BY <1>4, <1>6, HeadTailProperties
  <1> QED BY <1>4, <1>5, <1>6, <1>7, <1>8, <1>9, SeqEqual DEF irp

\* _buffer_parse puts the oldest IRP of the buffers behind the done ones.
LEMMA ParseMoves ==
    ASSUME NEW p \in Pipe_t, NEW q \in Pipe_t, ParseStep(p, q), p.to_parse > 0,
           RingWindows(p), RingWindows(q), p.result[p.fr_idx] \in Status
    PROVE  /\ InOrder(q) = InOrder(p)
           /\ Statuses(q) = Append(Statuses(p), p.result[p.fr_idx])
  <1> DEFINE irp == p.buf[p.fr_idx]
             n == p.to_parse + p.to_exec
  <1>1. irp \in Irp
    BY ParseIrp
  <1>2. /\ p.fr_idx \in Idx /\ p.buf \in [Idx -> Irp \union {NoIrp}]
        /\ p.to_parse \in Nat /\ p.to_exec \in Nat /\ p.done \in Seq(DoneIrp)
        /\ p.pending \in Seq(Irp)
    BY NumBuffersAssumption DEF Pipe_t
  <1>3. n \in Nat /\ n > 0 /\ n <= NumBuffers /\ q.to_parse + q.to_exec = n - 1
    BY <1>2, WindowEnd DEF RingWindows, ParseStep
  <1>4. /\ q.done = Append(p.done, [irp |-> irp, status |-> p.result[p.fr_idx]])
        /\ q.buf = [p.buf EXCEPT ![p.fr_idx] = NoIrp]
        /\ q.fr_idx = Inc(p.fr_idx) /\ q.pending = p.pending
    BY DEF ParseStep
  <1> HIDE DEF irp, n
  <1>5. Len(p.done) \in Nat /\ Len(q.done) = Len(p.done) + 1
        /\ \A k \in 1 .. Len(p.done) : q.done[k] = p.done[k]
        /\ q.done[Len(p.done) + 1] = [irp |-> irp, status |-> p.result[p.fr_idx]]
    BY <1>2, <1>4
  <1>7. Over(q) = Append(Over(p), irp) /\ Statuses(q) = Append(Statuses(p), p.result[p.fr_idx])
    BY <1>1, <1>4, OneOver
  <1>8. Head(InFlight(p)) = irp /\ InFlight(q) = Tail(InFlight(p)) /\ InFlight(p) # << >>
    BY ParseHead DEF irp
  <1>9. /\ InOrder(p) = (Over(p) \o InFlight(p)) \o p.pending
        /\ InOrder(q) = (Over(q) \o InFlight(q)) \o q.pending
        /\ Over(p) \in Seq(Irp) /\ InFlight(p) \in Seq(Irp)
    BY InOrderParts
  <1>10. Over(q) \o InFlight(q) = Over(p) \o InFlight(p)
    BY <1>7, <1>8, <1>9, HeadMoves
  <1> QED BY <1>4, <1>7, <1>9, <1>10

\* A buffer that is marked as done and then parsed ends the oldest IRP that is left.
LEMMA ParsedEnds ==
    ASSUME NEW p, Sound(p), p.executing, NEW res \in Status, res # "NO_DEVICE",
           NEW e, SameQueues(MarkDone(p, res), e)
    PROVE  Ends(p, BufferParse(e), res)
  <1> DEFINE m == MarkDone(p, res)
             r == BufferParse(e)
  <1>1. /\ p \in Pipe_t /\ RingWindows(p) /\ p.to_exec > 0 /\ p.to_parse = 0 /\ p.state # "INVALID"
        /\ p.to_exec \in Nat /\ p.pending \in Seq(Irp)
    BY NumBuffersAssumption DEF Sound, RingOK, RingWindows, Flushed, Pipe_t
  <1>2. /\ m \in Pipe_t /\ DoneStep(p, m) /\ m.to_parse = 1
        /\ Keeps(p, m) /\ m.result[m.fr_idx] = res
    BY MarkDoneFields, MarkDoneKeeps
  <1>3. e \in Pipe_t /\ SameRing(m, e) /\ e.state # "INVALID"
    BY DEF SameQueues
  <1>4. Sound(r)
    BY ParsedSound
  <1> HIDE DEF m
  <1>5. RingWindows(e)
    <2>1. RingWindows(m)
      BY <1>1, <1>2, DoneRing
    <2>2. e.executing => e.to_exec > 0
      BY DEF SameQueues, m
    <2> QED BY <1>3, <2>1, <2>2 DEF SameRing, RingWindows, Counted, Indexed, Occupied, Reported, Filled
  <1>6. e.to_parse = 1 /\ e.result[e.fr_idx] = res
    BY <1>2, <1>3 DEF SameRing
  <1>7. e.result[e.fr_idx] # "NONE" /\ e.to_parse > 0
    BY <1>6 DEF Status, Fatal
  <1>8. ParseStep(e, r)
    BY <1>3, <1>5, <1>7, ParseFields
  <1> HIDE DEF r
  <1>9. InOrder(r) = InOrder(e) /\ Statuses(r) = Append(Statuses(e), res)
    BY <1>3, <1>4, <1>5, <1>6, <1>7, <1>8, ParseMoves DEF Sound, RingOK
  <1>10. InOrder(e) = InOrder(m) /\ Statuses(e) = Statuses(m)
    BY <1>3 DEF SameRing, InOrder, InFlight, Statuses
  <1>11. Unfinished(p) > 0
    <2>1. Len(p.pending) \in Nat
      BY <1>1
    <2>2. Unfinished(p) = p.to_parse + p.to_exec + Len(p.pending)
      BY <1>1, InOrderParts
    <2> QED BY <1>1, <2>1, <2>2
  <1>12. r.state # "INVALID"
    BY <1>3, <1>8 DEF ParseStep
  <1> QED BY <1>1, <1>2, <1>9, <1>10, <1>11, <1>12 DEF Ends, Keeps, r

\* The interrupt of a completed transfer.
LEMMA CompletedEnds ==
    ASSUME NEW p, Sound(p), p.executing
    PROVE  Ends(p, Completed(p), "COMPLETED")
  <1> DEFINE m == MarkDone(p, "COMPLETED")
  <1>1. PICK e : /\ SameQueues(m, e)
                 /\ LET r == BufferParse(e) IN
                    Completed(p) = IF r.waiting_xfer_done THEN r ELSE FillIfCan(r)
    BY CompletedParses
  <1> DEFINE r == BufferParse(e)
  <1>2. "COMPLETED" \in Status /\ "COMPLETED" # "NO_DEVICE"
    BY DEF Status
  <1>3. Sound(r) /\ Ends(p, r, "COMPLETED")
    BY <1>1, <1>2, ParsedSound, ParsedEnds
  <1> HIDE DEF r
  <1>4. Keeps(r, FillIfCan(r))
    BY <1>3, FillIfCanKeeps
  <1> QED BY <1>1, <1>3, <1>4, KeepsTransitive DEF r

\* The interrupt of a failed one.
LEMMA FailedEnds ==
    ASSUME NEW p, Sound(p), p.executing, NEW error \in ChanError
    PROVE  \E s \in Status : Ends(p, Failed(p, error), s)
  <1>1. PICK h, res :
            /\ res \in {"ERROR", "STALL", "OVERFLOW"} \union Fatal
            /\ Sound(h) /\ SameIrps(p, h) /\ h.executing
            /\ SameRing(p, h) /\ h.state = "HALTED" /\ ~h.chan_busy
            /\ SameFlags([p EXCEPT !.state = "HALTED"], h)
            /\ SameQueues(MarkDone(h, res), MarkDone(h, res))
            /\ Failed(p, error) = BufferParse(MarkDone(h, res))
    BY FailedParses, Zenon
  <1>2. res \in Status /\ res # "NO_DEVICE" /\ h.state # "INVALID"
    BY <1>1 DEF Status, Fatal
  <1>6. Ends(h, Failed(p, error), res)
    BY <1>1, <1>2, ParsedEnds
  <1>3. p.state # "INVALID"
    BY DEF Sound, Flushed
  <1>4. InOrder(h) = InOrder(p) /\ Statuses(h) = Statuses(p) /\ Unfinished(h) = Unfinished(p)
    BY <1>1 DEF SameRing, InOrder, InFlight, Statuses, Unfinished
  <1>5. Ends(p, Failed(p, error), res)
    BY <1>6, <1>3, <1>4 DEF Ends
  <1> QED BY <1>2, <1>5

-----------------------------------------------------------------------------
(* Flush and retire *)

\* The same status for n IRPs.
Alike(n, st) == [k \in 1 .. n |-> st]

\* n IRPs are put behind those that are done, all with one status.
PutOver(p, q, s, n, st) ==
    q.done = p.done \o [k \in 1 .. n |-> [irp |-> s[k], status |-> st]]

\* The same status is a sequence of statuses.
LEMMA AlikeParts ==
    ASSUME NEW n \in Nat, NEW st \in Status
    PROVE  /\ Alike(n, st) \in Seq(Status) /\ Len(Alike(n, st)) = n
           /\ \A k \in 1 .. n : Alike(n, st)[k] = st
  BY DEF Alike

\* What the client sees of IRPs that are put behind those that are done.
LEMMA AllOver ==
    ASSUME NEW p \in Pipe_t, NEW q \in Pipe_t, NEW st \in Status,
           NEW s \in Seq(Irp), NEW n \in Nat, Len(s) = n,
           PutOver(p, q, s, n, st)
    PROVE  /\ Over(q) = Over(p) \o s
           /\ Statuses(q) = Statuses(p) \o Alike(n, st)
  <1> DEFINE d == Len(p.done)
             recs == [k \in 1 .. n |-> [irp |-> s[k], status |-> st]]
             sts == Alike(n, st)
  <1>1. \A k \in 1 .. n : s[k] \in Irp
    BY ElementOfSeq
  <1>2. recs \in [1 .. n -> DoneIrp]
    BY <1>1 DEF DoneIrp
  <1>3. \A k \in 1 .. n : recs[k].irp = s[k] /\ recs[k].status = st
    OBVIOUS
  <1>14. sts \in Seq(Status) /\ Len(sts) = n /\ \A k \in 1 .. n : sts[k] = st
    BY AlikeParts
  <1>4. q.done = p.done \o recs
    BY DEF PutOver
  <1> HIDE DEF recs, sts
  <1>5. /\ d \in Nat /\ Len(q.done) = d + n
        /\ \A k \in 1 .. d : q.done[k] = p.done[k]
        /\ \A k \in 1 .. n : q.done[d + k] = recs[k]
    BY <1>1, <1>2, <1>4, FinishedSeq
  <1>6. /\ Over(p) \in Seq(Irp) /\ Len(Over(p)) = d
        /\ Over(q) \in Seq(Irp) /\ Len(Over(q)) = d + n
        /\ Statuses(p) \in Seq(Status) /\ Len(Statuses(p)) = d
        /\ Statuses(q) \in Seq(Status) /\ Len(Statuses(q)) = d + n
    BY <1>5, OverParts
  <1>7. /\ \A k \in 1 .. d : Over(p)[k] = p.done[k].irp /\ Statuses(p)[k] = p.done[k].status
        /\ \A k \in 1 .. d + n : Over(q)[k] = q.done[k].irp /\ Statuses(q)[k] = q.done[k].status
    BY <1>5 DEF Over, Statuses
  <1> HIDE DEF d
  <1>8. /\ Over(p) \o s \in Seq(Irp) /\ Len(Over(p) \o s) = d + n
        /\ \A k \in 1 .. d + n : (Over(p) \o s)[k] = IF k <= d THEN Over(p)[k] ELSE s[k - d]
    <2> DEFINE a == Over(p)
    <2>1. a \in Seq(Irp) /\ Len(a) = d /\ d \in Nat /\ s \in Seq(Irp) /\ Len(s) = n /\ n \in Nat
      BY <1>5, <1>6
    <2> HIDE DEF a
    <2>2. /\ a \o s \in Seq(Irp) /\ Len(a \o s) = d + n
          /\ \A k \in 1 .. d + n : (a \o s)[k] = IF k <= d THEN a[k] ELSE s[k - d]
      <3>1. a \o s \in Seq(Irp) /\ Len(a \o s) = d + n
        BY ONLY <2>1, ConcatProperties
      <3>2. \A k \in 1 .. d + n : (a \o s)[k] = IF k <= d THEN a[k] ELSE s[k - d]
        BY ONLY <2>1, ConcatProperties
      <3> QED BY <3>1, <3>2
    <2> QED BY <2>2 DEF a
  <1>9. /\ Statuses(p) \o sts \in Seq(Status) /\ Len(Statuses(p) \o sts) = d + n
        /\ \A k \in 1 .. d + n :
              (Statuses(p) \o sts)[k] = IF k <= d THEN Statuses(p)[k] ELSE sts[k - d]
    <2> DEFINE a == Statuses(p)
    <2>1. /\ a \in Seq(Status) /\ Len(a) = d /\ d \in Nat
          /\ sts \in Seq(Status) /\ Len(sts) = n /\ n \in Nat
      BY <1>5, <1>6, <1>14
    <2> HIDE DEF a
    <2>2. /\ a \o sts \in Seq(Status) /\ Len(a \o sts) = d + n
          /\ \A k \in 1 .. d + n : (a \o sts)[k] = IF k <= d THEN a[k] ELSE sts[k - d]
      <3>1. a \o sts \in Seq(Status) /\ Len(a \o sts) = d + n
        BY ONLY <2>1, ConcatProperties
      <3>2. \A k \in 1 .. d + n : (a \o sts)[k] = IF k <= d THEN a[k] ELSE sts[k - d]
        BY ONLY <2>1, ConcatProperties
      <3> QED BY <3>1, <3>2
    <2> QED BY <2>2 DEF a
  <1>10. ASSUME NEW k \in 1 .. d + n
         PROVE  Over(q)[k] = (Over(p) \o s)[k] /\ Statuses(q)[k] = (Statuses(p) \o sts)[k]
    <2>1. CASE k <= d
      <3>1. k \in 1 .. d /\ q.done[k] = p.done[k]
        BY <1>1, <1>5, <2>1
      <3>2. Over(q)[k] = Over(p)[k] /\ Statuses(q)[k] = Statuses(p)[k]
        BY <1>7, <3>1
      <3>3. (Over(p) \o s)[k] = Over(p)[k] /\ (Statuses(p) \o sts)[k] = Statuses(p)[k]
        BY <1>8, <1>9, <2>1
      <3> QED BY <3>2, <3>3
    <2>2. CASE ~(k <= d)
      <3>1. k - d \in 1 .. n /\ d + (k - d) = k
        BY <1>1, <1>5, <2>2
      <3> DEFINE j == k - d
      <3>2. j \in 1 .. n /\ q.done[k] = recs[j] /\ recs[j].irp = s[j] /\ recs[j].status = st
            /\ sts[j] = st
        BY <1>3, <1>5, <1>14, <3>1
      <3>3. Over(q)[k] = s[j] /\ Statuses(q)[k] = st
        BY <1>7, <3>2
      <3>4. (Over(p) \o s)[k] = s[j] /\ (Statuses(p) \o sts)[k] = sts[j]
        BY <1>8, <1>9, <2>2
      <3> QED BY <3>2, <3>3, <3>4
    <2> QED BY <2>1, <2>2
  <1>11. Over(q) = Over(p) \o s
    BY <1>6, <1>8, <1>10, SeqEqual
  <1>12. Statuses(q) = Statuses(p) \o sts
    BY <1>6, <1>9, <1>10, SeqEqual
  <1> QED BY <1>11, <1>12 DEF sts

\* A flush puts the IRPs of the buffers and then those that wait behind the done ones.
LEMMA FlushRetirePuts ==
    ASSUME NEW p \in Pipe_t, RingOK(p), IrpsOK(p), NEW cancelled \in BOOLEAN,
           cancelled \/ p.state = "INVALID"
    PROVE  LET f == BufferFlushAll(p, cancelled)
               q == Retire(f, cancelled)
               st == IF cancelled THEN "CANCELED" ELSE "NO_DEVICE"
           IN  /\ f \in Pipe_t /\ q \in Pipe_t /\ RingOK(q) /\ q.state = p.state
               /\ PutOver(p, f, InFlight(p), Len(InFlight(p)), st)
               /\ PutOver(f, q, p.pending, Len(p.pending), st)
               /\ InFlight(q) = << >> /\ q.pending = << >>
  <1> DEFINE f == BufferFlushAll(p, cancelled)
             q == Retire(f, cancelled)
             st == IF cancelled THEN "CANCELED" ELSE "NO_DEVICE"
             n == p.to_parse + p.to_exec
             m == Len(p.pending)
  <1>1. /\ RingWindows(p) /\ p.to_parse = 0 /\ p.to_exec \in Nat /\ p.pending \in Seq(Irp)
        /\ n \in Nat /\ m \in Nat
    BY NumBuffersAssumption DEF RingOK, Pipe_t
  <1>2. st \in Status /\ ErrorStatus(cancelled, p.state, p.last_event) = st
    BY DEF Status, ErrorStatus
  <1>3. f \in Pipe_t /\ FlushStep(p, f)
    BY FlushFields
  <1>4. PutOver(p, f, InFlight(p), n, st)
    <2> DEFINE StatusAt(k) == IF k <= p.to_parse THEN p.result[Plus(p.fr_idx, k - 1)]
                              ELSE ErrorStatus(cancelled, p.state, p.last_event)
    <2>1. f.done = p.done \o [k \in 1 .. n |-> [irp |-> InFlight(p)[k], status |-> StatusAt(k)]]
      BY DEF BufferFlushAll, Pipe_t
    <2>2. \A k \in 1 .. n : StatusAt(k) = st
      BY <1>1, <1>2
    <2> HIDE DEF StatusAt
    <2>3. [k \in 1 .. n |-> [irp |-> InFlight(p)[k], status |-> StatusAt(k)]] =
              [k \in 1 .. n |-> [irp |-> InFlight(p)[k], status |-> st]]
      BY <2>2
    <2> QED BY <2>1, <2>3 DEF PutOver
  <1>5. q \in Pipe_t /\ RetireStep(f, q)
    BY <1>3, RetireFields
  <1>6. RingOK(f) /\ IrpsOK(f)
    BY <1>3, FlushSound
  <1>7. RingOK(q)
    BY <1>3, <1>5, <1>6, RetireSound
  <1>8. PutOver(f, q, p.pending, m, st)
    <2>1. f.pending = p.pending
      BY <1>3 DEF FlushStep
    <2> HIDE DEF f
    <2>2. q.done = f.done \o [k \in 1 .. Len(f.pending) |-> [irp |-> f.pending[k], status |-> st]]
      BY <1>3 DEF Retire, Pipe_t
    <2> QED BY <2>1, <2>2 DEF PutOver
  <1> HIDE DEF f, q, st
  <1>9. InFlight(p) \in Seq(Irp) /\ Len(InFlight(p)) = n
    BY <1>1, InFlightParts
  <1>10. InFlight(q) = << >> /\ q.pending = << >>
    <2>1. q.to_parse + q.to_exec = 0 /\ q.pending = << >>
      BY <1>3, <1>5 DEF FlushStep, RetireStep
    <2>2. InFlight(q) \in Seq(Irp) /\ Len(InFlight(q)) = 0
      BY <1>5, <1>7, <2>1, InFlightParts DEF RingOK
    <2> QED BY <2>1, <2>2, EmptySeq
  <1>11. q.state = p.state
    BY <1>3, <1>5 DEF FlushStep, RetireStep
  <1> HIDE DEF n
  <1> QED BY <1>3, <1>4, <1>5, <1>7, <1>8, <1>9, <1>10, <1>11 DEF f, q, st

\* _buffer_flush_all and _pipe_retire, one after the other, end every IRP that is left.
LEMMA FlushRetireEnds ==
    ASSUME NEW p \in Pipe_t, RingOK(p), IrpsOK(p), NEW cancelled \in BOOLEAN,
           cancelled \/ p.state = "INVALID"
    PROVE  EndsAll(p, Retire(BufferFlushAll(p, cancelled), cancelled),
                   IF cancelled THEN "CANCELED" ELSE "NO_DEVICE")
  <1> DEFINE f == BufferFlushAll(p, cancelled)
             q == Retire(f, cancelled)
             st == IF cancelled THEN "CANCELED" ELSE "NO_DEVICE"
             n == p.to_parse + p.to_exec
             m == Len(p.pending)
  <1>1. /\ RingWindows(p) /\ p.to_parse = 0 /\ p.to_exec \in Nat /\ p.pending \in Seq(Irp)
        /\ n \in Nat /\ m \in Nat
    BY NumBuffersAssumption DEF RingOK, Pipe_t
  <1>2. st \in Status
    BY DEF Status
  <1>3. InFlight(p) \in Seq(Irp) /\ Len(InFlight(p)) = n
    BY <1>1, InFlightParts
  <1>4. /\ f \in Pipe_t /\ q \in Pipe_t /\ RingOK(q)
        /\ PutOver(p, f, InFlight(p), Len(InFlight(p)), st) /\ PutOver(f, q, p.pending, m, st)
        /\ InFlight(q) = << >> /\ q.pending = << >>
    BY FlushRetirePuts
  <1> HIDE DEF f, q, st
  <1>5. PutOver(p, f, InFlight(p), n, st)
    BY <1>3, <1>4
  <1>6. Over(f) = Over(p) \o InFlight(p) /\ Statuses(f) = Statuses(p) \o Alike(n, st)
    <2> DEFINE s == InFlight(p)
    <2>1. /\ Len(s) = n /\ s \in Seq(Irp) /\ n \in Nat /\ st \in Status
          /\ p \in Pipe_t /\ f \in Pipe_t /\ PutOver(p, f, s, n, st)
      BY <1>1, <1>2, <1>3, <1>4, <1>5
    <2> HIDE DEF n, s
    <2>2. Over(f) = Over(p) \o s /\ Statuses(f) = Statuses(p) \o Alike(n, st)
      BY ONLY <2>1, AllOver
    <2> QED BY <2>2 DEF s
  <1>7. Over(q) = Over(f) \o p.pending /\ Statuses(q) = Statuses(f) \o Alike(m, st)
    <2> DEFINE s == p.pending
    <2>1. /\ Len(s) = m /\ s \in Seq(Irp) /\ m \in Nat /\ st \in Status
          /\ f \in Pipe_t /\ q \in Pipe_t /\ PutOver(f, q, s, m, st)
      BY <1>1, <1>2, <1>4
    <2> HIDE DEF n, m, s
    <2>2. Over(q) = Over(f) \o s /\ Statuses(q) = Statuses(f) \o Alike(m, st)
      BY ONLY <2>1, AllOver
    <2> QED BY <2>2 DEF s
  <1>8. /\ InOrder(p) = (Over(p) \o InFlight(p)) \o p.pending
         /\ InOrder(q) = (Over(q) \o InFlight(q)) \o q.pending
         /\ Over(q) \in Seq(Irp)
         /\ Unfinished(p) = n + m
    BY <1>1, <1>4, InOrderParts DEF RingOK
  <1>9. InOrder(q) = InOrder(p)
    BY <1>6, <1>7, <1>4, <1>8, ConcatEmptySeq
  <1> HIDE DEF n, m
  <1>10. Statuses(q) = Statuses(p) \o Alike(Unfinished(p), st)
    <2>1. Alike(n, st) \o Alike(m, st) = Alike(n + m, st)
      BY <1>1, ConstantConcat DEF Alike
    <2>2. /\ Statuses(p) \in Seq(Status)
          /\ Alike(n, st) \in Seq(Status) /\ Alike(m, st) \in Seq(Status)
      BY <1>1, <1>2, OverParts, AlikeParts
    <2>3. (Statuses(p) \o Alike(n, st)) \o Alike(m, st) =
              Statuses(p) \o (Alike(n, st) \o Alike(m, st))
      BY <2>2, ConcatAssociative
    <2> QED BY <1>6, <1>7, <1>8, <2>1, <2>3
  <1> QED BY <1>9, <1>10 DEF EndsAll, Alike, q, f, st

\* A step that changes flags only shows the client the same queue.
LEMMA SameRingSees ==
    ASSUME NEW p, NEW q, SameRing(p, q)
    PROVE  /\ InOrder(q) = InOrder(p) /\ Statuses(q) = Statuses(p)
           /\ Unfinished(q) = Unfinished(p)
           /\ \A r, s : EndsAll(q, r, s) => EndsAll(p, r, s)
BY DEF SameRing, InOrder, InFlight, Statuses, Unfinished, EndsAll

\* Of a pipe that is flushed nothing is left to end.
LEMMA NothingLeft ==
    ASSUME NEW p, Sound(p), Flushed(p), NEW st \in Status
    PROVE  Unfinished(p) = 0 /\ \A q : EndsAll(p, q, st) <=>
                                           InOrder(q) = InOrder(p) /\ Statuses(q) = Statuses(p)
  <1>1. p \in Pipe_t /\ RingWindows(p) /\ p.to_parse = 0 /\ p.to_exec = 0 /\ p.pending = << >>
    BY DEF Sound, RingOK, Flushed
  <1>2. Unfinished(p) = 0
    <2>1. Len(p.pending) = 0
      BY <1>1
    <2>2. Unfinished(p) = p.to_parse + p.to_exec + Len(p.pending)
      BY <1>1, InOrderParts
    <2> QED BY <1>1, <2>1, <2>2
  <1>3. Alike(0, st) = << >>
    <2>1. Alike(0, st) \in Seq(Status) /\ Len(Alike(0, st)) = 0
      BY AlikeParts
    <2> QED BY <2>1, EmptySeq
  <1>4. Statuses(p) \o Alike(Unfinished(p), st) = Statuses(p)
    <2>1. Statuses(p) \in Seq(Status)
      BY <1>1, OverParts
    <2> QED BY <1>2, <1>3, <2>1, ConcatEmptySeq
  <1> QED BY <1>2, <1>4 DEF EndsAll, Alike

\* The flush of a command cancels what is left of a valid pipe.
LEMMA FlushAndRetireCancels ==
    ASSUME NEW p, Sound(p)
    PROVE  LET q == FlushAndRetire(p) IN
           /\ p.state # "INVALID" => CancelsAll(p, q)
           /\ p.state = "INVALID" => Keeps(p, q)
  <1> DEFINE q == FlushAndRetire(p)
  <1>1. q.state = p.state
    BY FlushRetire DEF Sound, FlushAndRetire
  <1>2. EndsAll(p, q, "CANCELED")
    BY FlushRetireEnds DEF Sound, FlushAndRetire
  <1> HIDE DEF q
  <1>3. CASE p.state # "INVALID"
    BY <1>1, <1>2, <1>3 DEF CancelsAll, q
  <1>4. CASE p.state = "INVALID"
    <2>1. Flushed(p) /\ "CANCELED" \in Status
      BY <1>4 DEF Sound, Status
    <2>2. InOrder(q) = InOrder(p) /\ Statuses(q) = Statuses(p)
      BY <1>2, <2>1, NothingLeft
    <2> QED BY <1>1, <1>4, <2>2 DEF Keeps, q
  <1> QED BY <1>3, <1>4

\* A command leaves the IRPs of a valid pipe as they are or cancels those that are left.
LEMMA CommandedIsHonest ==
    ASSUME NEW p, Sound(p), p.state # "INVALID", NEW cmd \in PipeCmd
    PROVE  Keeps(p, Commanded(p, cmd)) \/ CancelsAll(p, Commanded(p, cmd))
  <1>1. p \in Pipe_t
    BY DEF Sound
  <1>2. CASE cmd = "ABORT"
    BY <1>2, FlushAndRetireCancels DEF Commanded
  <1>3. CASE cmd = "RESET"
    <2> DEFINE f == FlushAndRetire(p)
               q == [f EXCEPT !.state = "ACTIVE"]
    <2>1. CancelsAll(p, f)
      BY FlushAndRetireCancels
    <2>2. f \in Pipe_t
      BY FlushRetire DEF Sound, FlushAndRetire
    <2> HIDE DEF f
    <2>3. SameRing(f, q) /\ q.state = "ACTIVE"
      BY <2>2 DEF Pipe_t, SameRing
    <2> HIDE DEF q
    <2>4. Keeps(f, q)
      BY <2>1, <2>3, SameRingKeeps DEF CancelsAll
    <2>5. CancelsAll(p, q)
      BY <2>1, <2>4, KeepsTransitive
    <2> QED BY <1>3, <2>5 DEF Commanded, q, f
  <1>4. CASE cmd = "HALT"
    <2> DEFINE q == [p EXCEPT !.state = "HALTED"]
    <2>1. SameRing(p, q) /\ q.state = "HALTED"
      BY <1>1 DEF Pipe_t, SameRing
    <2> HIDE DEF q
    <2>2. Keeps(p, q)
      BY <2>1, SameRingKeeps
    <2> QED BY <1>4, <2>2 DEF Commanded, q
  <1>5. CASE cmd = "CLEAR" /\ p.state = "HALTED"
    <2> DEFINE q == [p EXCEPT !.state = "ACTIVE"]
    <2>1. q \in Pipe_t
      BY <1>1 DEF Pipe_t, PipeState
    <2>2. /\ SameRing(p, q) /\ q.executing = p.executing /\ q.chan_busy = p.chan_busy
          /\ q.state = "ACTIVE"
      BY <1>1, <2>1 DEF Pipe_t, SameRing
    <2> HIDE DEF q
    <2>3. Sound(q)
      BY <2>1, <2>2, SameRingSound DEF Follows
    <2>4. Keeps(p, q) /\ Keeps(q, FillAndExec(q))
      BY <2>2, <2>3, SameRingKeeps, FillAndExecKeeps
    <2>5. Keeps(p, FillAndExec(q))
      BY <2>4, KeepsTransitive
    <2> QED BY <1>5, <2>5 DEF Commanded, q
  <1>6. CASE cmd = "CLEAR" /\ p.state # "HALTED"
    BY <1>6, KeepsReflexive DEF Commanded
  <1> QED BY <1>2, <1>3, <1>4, <1>5, <1>6 DEF PipeCmd

\* So does a command that waited, of any pipe.
LEMMA ResumedIsHonest ==
    ASSUME NEW p, Sound(p), NEW cmd \in WaitingCmd, cmd # "NONE"
    PROVE  Keeps(p, Resumed(p, cmd)) \/ CancelsAll(p, Resumed(p, cmd))
  <1> DEFINE stop == [p EXCEPT !.waiting_xfer_done = FALSE]
             r == CASE p.state # "INVALID" -> Commanded(p, cmd)
                    [] p.state = "INVALID" /\ cmd = "ABORT" -> FlushAndRetire(stop)
                    [] OTHER -> stop
             q == [r EXCEPT !.pipe_cmd_processing = FALSE]
  <1>1. p \in Pipe_t
    BY DEF Sound
  <1>2. Sound(stop) /\ Keeps(p, stop) /\ stop.state = p.state
    <2>1. /\ Follows(p, stop) /\ SameRing(p, stop) /\ stop.state = p.state
      BY <1>1, PortFlags DEF Pipe_t, SameRing
    <2> HIDE DEF stop
    <2> QED BY <2>1, SameRingKeeps DEF Follows
  <1> HIDE DEF stop
  <1>3. r \in Pipe_t /\ (Keeps(p, r) \/ CancelsAll(p, r))
    <2>1. CASE p.state # "INVALID"
      <3>1. cmd \in PipeCmd
        BY DEF WaitingCmd, PipeCmd
      <3>2. Commanded(p, cmd) \in Pipe_t
        <4>1. FlushAndRetire(p) \in Pipe_t
          BY FlushRetire DEF Sound, FlushAndRetire
        <4>2. [FlushAndRetire(p) EXCEPT !.state = "ACTIVE"] \in Pipe_t
          BY <4>1 DEF Pipe_t, PipeState
        <4>3. [p EXCEPT !.state = "HALTED"] \in Pipe_t
          BY <1>1 DEF Pipe_t, PipeState
        <4> QED BY <4>1, <4>2, <4>3 DEF Commanded, WaitingCmd
      <3> QED BY <2>1, <3>1, <3>2, CommandedIsHonest
    <2>2. CASE p.state = "INVALID" /\ cmd = "ABORT"
      <3>1. Keeps(stop, FlushAndRetire(stop)) /\ FlushAndRetire(stop) \in Pipe_t
        BY <1>2, <2>2, FlushAndRetireCancels, FlushRetire DEF Sound, FlushAndRetire
      <3>2. Keeps(p, FlushAndRetire(stop))
        BY <1>2, <3>1, KeepsTransitive
      <3> QED BY <2>2, <3>1, <3>2
    <2>3. CASE p.state = "INVALID" /\ cmd # "ABORT"
      BY <1>2, <2>3 DEF Sound
    <2> QED BY <2>1, <2>2, <2>3
  <1>4. Resumed(p, cmd) = q
    BY DEF Resumed, stop
  <1> HIDE DEF r
  <1>5. SameRing(r, q) /\ q.state = r.state
    BY <1>3 DEF Pipe_t, SameRing
  <1> HIDE DEF q
  <1>6. Keeps(r, q)
    BY <1>5, SameRingKeeps
  <1> QED BY <1>3, <1>4, <1>6, KeepsTransitive

\* The loss of the device ends what is left.
LEMMA InvalidatedLoses ==
    ASSUME NEW p, Sound(p)
    PROVE  Loses(p, Invalidated(p))
  <1> DEFINE r == [p EXCEPT !.state = "INVALID", !.last_event = "INVALID"]
  <1>1. p \in Pipe_t
    BY DEF Sound
  <1>2. r \in Pipe_t /\ SameRing(p, r) /\ r.state = "INVALID" /\ r.executing = p.executing
    BY <1>1 DEF Pipe_t, SameRing, PipeState, PipeEvent
  <1>3. Invalidated(p) = Retire(BufferFlushAll(r, FALSE), FALSE)
    BY DEF Invalidated
  <1> HIDE DEF r
  <1>4. RingOK(r) /\ IrpsOK(r)
    <2>1. RingOK(r)
      BY <1>2 DEF SameRing, Sound, RingOK, RingWindows, Counted, Indexed, Occupied, Reported, Filled
    <2>2. IrpsOK(r)
      BY <1>2 DEF SameRing, Sound, IrpsOK, PendingOK, InFlightOK, DoneOK
    <2> QED BY <2>1, <2>2
  <1>5. EndsAll(r, Invalidated(p), "NO_DEVICE") /\ Invalidated(p).state = "INVALID"
    BY <1>2, <1>3, <1>4, FlushRetireEnds, FlushRetire
  <1> QED BY <1>2, <1>5, SameRingSees DEF Loses

\* An idle pipe has nothing left.
LEMMA InvalidatedIdleLoses ==
    ASSUME NEW p, Sound(p), HoldsNothing(p)
    PROVE  Loses(p, InvalidatedIdle(p))
  <1> DEFINE q == InvalidatedIdle(p)
  <1>1. Flushed(p) /\ "NO_DEVICE" \in Status /\ p \in Pipe_t
    BY DEF HoldsNothing, Flushed, Sound, RingOK, RingWindows, Status
  <1>2. SameRing(p, q) /\ q.state = "INVALID"
    BY <1>1 DEF InvalidatedIdle, Pipe_t, SameRing
  <1> HIDE DEF q
  <1>3. EndsAll(p, q, "NO_DEVICE")
    BY <1>1, <1>2, SameRingSees, NothingLeft
  <1> QED BY <1>2, <1>3 DEF Loses, q

\* A pipe that holds nothing shows the client an empty queue.
LEMMA NothingShown ==
    ASSUME NEW p, Sound(p), HoldsNothing(p)
    PROVE  InOrder(p) = << >> /\ Statuses(p) = << >>
  <1>1. /\ p \in Pipe_t /\ RingWindows(p) /\ p.to_parse = 0 /\ p.to_exec = 0
        /\ p.pending = << >> /\ p.done = << >>
    BY DEF Sound, RingOK, HoldsNothing
  <1>2. /\ InOrder(p) \in Seq(Irp) /\ Len(InOrder(p)) = 0
        /\ Statuses(p) \in Seq(Status) /\ Len(Statuses(p)) = 0
    <2>1. Len(p.pending) = 0 /\ Len(p.done) = 0
      BY <1>1
    <2>2. /\ InOrder(p) \in Seq(Irp)
          /\ Len(InOrder(p)) = Len(p.done) + (p.to_parse + p.to_exec) + Len(p.pending)
          /\ Statuses(p) \in Seq(Status) /\ Len(Statuses(p)) = Len(p.done)
      BY <1>1, InOrderParts, OverParts
    <2> QED BY <1>1, <2>1, <2>2
  <1> QED BY <1>2, EmptySeq

\* A pipe that is allocated or freed is new: its queue was empty and is.
LEMMA NewPipeReopens ==
    ASSUME NEW p, Sound(p), HoldsNothing(p), NEW c \in BOOLEAN
    PROVE  Reopens(p, NewPipe(c))
BY NewPipeSound, NothingShown DEF Reopens

-----------------------------------------------------------------------------
(* The steps of the driver *)

\* Every pipe makes one step of its promise, or none.
EachHonest == \A p \in Pipe : Honest(pipes[p], pipes'[p])

\* Steps that leave the pipes alone.
LEMMA PipesKeptHonest == UNCHANGED pipes => EachHonest
BY KeepsReflexive DEF EachHonest, Honest

\* Steps that touch one pipe.
LEMMA OneHonest ==
    ASSUME PipePart, NEW p \in Pipe, NEW q, Honest(pipes[p], q), pipes' = [pipes EXCEPT ![p] = q]
    PROVE  EachHonest
  <1>1. \A x \in Pipe : pipes'[x] = IF x = p THEN q ELSE pipes[x]
    BY DEF PipePart
  <1>2. \A x \in Pipe : Honest(pipes[x], pipes[x])
    BY KeepsReflexive DEF Honest
  <1> QED BY <1>1, <1>2 DEF EachHonest

\* Steps that change flags of one pipe.
LEMMA FlagsHonest ==
    ASSUME PipePart, NEW p \in Pipe, NEW q, SameRing(pipes[p], q), q.state = pipes[p].state,
           pipes' = [pipes EXCEPT ![p] = q]
    PROVE  EachHonest
  <1>1. Honest(pipes[p], q)
    BY SameRingKeeps DEF Honest
  <1> QED BY <1>1, OneHonest

\* Allocating and freeing.
LEMMA AllocHonest ==
    ASSUME IInv, NEW p \in Pipe, PipeAlloc(p) \/ PipeFree(p)
    PROVE  EachHonest
  <1> DEFINE q == NewPipe(p \in CtrlPipe)
  <1>1. PipePart /\ Sound(pipes[p]) /\ HoldsNothing(pipes[p])
    <2>1. PipePart
      BY IInvParts
    <2> QED BY <2>1, PipePartNow DEF PipeAlloc, PipeFree, Allocated
  <1>2. pipes' = [pipes EXCEPT ![p] = q]
    BY DEF PipeAlloc, PipeFree
  <1>3. (p \in CtrlPipe) \in BOOLEAN
    OBVIOUS
  <1>4. Reopens(pipes[p], q)
    BY <1>1, <1>3, NewPipeReopens
  <1> HIDE DEF q
  <1> QED BY <1>1, <1>2, <1>4, OneHonest DEF Honest

\* The client's calls on an IRP.
LEMMA IrpHonest ==
    ASSUME IInv, NEW p \in Pipe
    PROVE  /\ \A irp \in Irp : IrpEnqueue(p, irp) => EachHonest
           /\ \A irp \in Irp : IrpAbort(p, irp) => EachHonest
           /\ IrpDequeue(p) => EachHonest
  <1>1. PipePart /\ Sound(pipes[p])
    BY IInvParts, PipesSound
  <1>2. ASSUME NEW irp \in Irp, IrpEnqueue(p, irp)
        PROVE  EachHonest
    <2>1. Accepts(pipes[p], Enqueued(pipes[p], irp), irp)
      BY <1>1, <1>2, EnqueuedAccepts DEF IrpEnqueue, IrpIsIdle
    <2>2. pipes' = [pipes EXCEPT ![p] = Enqueued(pipes[p], irp)]
      BY <1>2 DEF IrpEnqueue
    <2> QED BY <1>1, <2>1, <2>2, OneHonest DEF Honest
  <1>3. ASSUME NEW irp \in Irp, IrpAbort(p, irp)
        PROVE  EachHonest
    <2>1. \E k \in 1 .. Len(InOrder(pipes[p])) : Cancels(pipes[p], Aborted(pipes[p], irp), k)
      BY <1>1, <1>3, AbortedCancels DEF IrpAbort
    <2>2. pipes' = [pipes EXCEPT ![p] = Aborted(pipes[p], irp)]
      BY <1>3 DEF IrpAbort
    <2> QED BY <1>1, <2>1, <2>2, OneHonest DEF Honest
  <1>4. ASSUME IrpDequeue(p)
        PROVE  EachHonest
    <2>1. Returns(pipes[p], Dequeued(pipes[p]))
      BY <1>1, <1>4, DequeuedReturns DEF IrpDequeue
    <2>2. pipes' = [pipes EXCEPT ![p] = Dequeued(pipes[p])]
      BY <1>4 DEF IrpDequeue
    <2> QED BY <1>1, <2>1, <2>2, OneHonest DEF Honest
  <1> QED BY <1>2, <1>3, <1>4

\* The client reads an event, and the commands.
LEMMA CommandHonest ==
    ASSUME IInv, NEW p \in Pipe
    PROVE  /\ PipeGetEvent(p) => EachHonest
           /\ \A cmd \in PipeCmd : PipeCommand(p, cmd) => EachHonest
           /\ PipeCommandReturn(p) => EachHonest
  <1>1. PipePart /\ PortPart /\ Sound(pipes[p]) /\ pipes[p] \in Pipe_t
    BY IInvParts, PipesSound DEF Sound
  <1>2. ASSUME PipeGetEvent(p)
        PROVE  EachHonest
    <2> DEFINE q == [pipes[p] EXCEPT !.last_event = "NONE"]
    <2>1. SameRing(pipes[p], q) /\ q.state = pipes[p].state
      BY <1>1 DEF Pipe_t, SameRing
    <2>2. pipes' = [pipes EXCEPT ![p] = q]
      BY <1>2 DEF PipeGetEvent
    <2> HIDE DEF q
    <2> QED BY <1>1, <2>1, <2>2, FlagsHonest
  <1>3. ASSUME NEW cmd \in PipeCmd, PipeCommand(p, cmd)
        PROVE  EachHonest
    <2>1. CASE cmd # "CLEAR" /\ pipes[p].executing
      <3> DEFINE q == [pipes[p] EXCEPT !.pipe_cmd_processing = TRUE, !.waiting_xfer_done = TRUE]
      <3>1. SameRing(pipes[p], q) /\ q.state = pipes[p].state
        BY <1>1 DEF Pipe_t, SameRing
      <3>2. pipes' = [pipes EXCEPT ![p] = q]
        BY <1>3, <2>1 DEF PipeCommand
      <3> HIDE DEF q
      <3> QED BY <1>1, <3>1, <3>2, FlagsHonest
    <2>2. CASE ~(cmd # "CLEAR" /\ pipes[p].executing)
      <3>1. pipes' = [pipes EXCEPT ![p] = Commanded(pipes[p], cmd)]
        BY <1>3, <2>2 DEF PipeCommand
      <3>2. Honest(pipes[p], Commanded(pipes[p], cmd))
        BY <1>1, <1>3, CommandedIsHonest DEF PipeCommand, Honest
      <3> QED BY <1>1, <3>1, <3>2, OneHonest
    <2> QED BY <2>1, <2>2
  <1>4. ASSUME PipeCommandReturn(p)
        PROVE  EachHonest
    <2>1. pipe_cmd[p] \in WaitingCmd /\ pipe_cmd[p] # "NONE"
      BY <1>1, <1>4 DEF PortPart, PipeCommandReturn
    <2>2. Honest(pipes[p], Resumed(pipes[p], pipe_cmd[p]))
      BY <1>1, <2>1, ResumedIsHonest DEF Honest
    <2>3. pipes' = [pipes EXCEPT ![p] = Resumed(pipes[p], pipe_cmd[p])]
      BY <1>4 DEF PipeCommandReturn
    <2> QED BY <1>1, <2>2, <2>3, OneHonest
  <1> QED BY <1>2, <1>3, <1>4

\* The end of an interrupt after which the pipe is r: the flags of whoever waits.
LEMMA WakeWaiterHonest ==
    ASSUME IInv, NEW p \in Pipe, NEW r, r \in Pipe_t, NEW s \in Status, Ends(pipes[p], r, s),
           WakeWaiter(p, r)
    PROVE  EachHonest
  <1> DEFINE t == [r EXCEPT !.waiting_xfer_done = FALSE]
  <1>1. PipePart
    BY IInvParts
  <1>2. Keeps(r, r) /\ Keeps(r, t) /\ Keeps(r, PausedNow(r))
    <2>1. SameRing(r, t) /\ t.state = r.state
      BY DEF Pipe_t, SameRing
    <2>2. SameRing(r, PausedNow(r)) /\ PausedNow(r).state = r.state
      BY DEF Pipe_t, SameRing, PausedNow
    <2> HIDE DEF t
    <2> QED BY <2>1, <2>2, SameRingKeeps, KeepsReflexive
  <1>3. \/ pipes' = [pipes EXCEPT ![p] = r]
        \/ pipes' = [pipes EXCEPT ![p] = t]
        \/ pipes' = [pipes EXCEPT ![p] = PausedNow(r)]
    BY DEF WakeWaiter
  <1> HIDE DEF t
  <1>4. Ends(pipes[p], r, s) /\ Ends(pipes[p], t, s) /\ Ends(pipes[p], PausedNow(r), s)
    BY <1>2, KeepsTransitive
  <1>5. Honest(pipes[p], r) /\ Honest(pipes[p], t) /\ Honest(pipes[p], PausedNow(r))
    BY <1>4 DEF Honest
  <1> QED BY <1>1, <1>3, <1>5, OneHonest

\* The channel interrupt.
LEMMA ChanHonest ==
    ASSUME IInv, NEW p \in Pipe, ChanTransfer(p) \/ ChanIgnored(p)
    PROVE  EachHonest
  <1>1. PipePart /\ Sound(pipes[p]) /\ pipes[p] \in Pipe_t
    BY IInvParts, PipesSound DEF Sound
  <1>2. CASE ChanStage(p)
    <2> DEFINE q == NextStage(pipes[p])
    <2>1. SameRing(pipes[p], q) /\ q.state = pipes[p].state
      BY <1>1 DEF NextStage, SameRing, Pipe_t
    <2>2. pipes' = [pipes EXCEPT ![p] = q]
      BY <1>2 DEF ChanStage
    <2> HIDE DEF q
    <2> QED BY <1>1, <2>1, <2>2, FlagsHonest
  <1>3. CASE ChanComplete(p)
    <2>1. pipes[p].executing
      BY <1>3, InterruptFindsTransfer DEF ChanComplete
    <2>2. Completed(pipes[p]) \in Pipe_t
      BY <1>1, <2>1, CompletedFollows DEF Follows, Sound
    <2>3. Ends(pipes[p], Completed(pipes[p]), "COMPLETED") /\ "COMPLETED" \in Status
      BY <1>1, <2>1, CompletedEnds DEF Status
    <2> QED BY <1>3, <2>2, <2>3, WakeWaiterHonest DEF ChanComplete
  <1>4. ASSUME NEW error \in ChanError, ChanFail(p, error)
        PROVE  EachHonest
    <2>1. pipes[p].executing /\ error \in ChanError
      BY <1>4, InterruptFindsTransfer, PipeAssumption DEF ChanFail
    <2>2. Failed(pipes[p], error) \in Pipe_t
      BY <1>1, <2>1, FailedFollows DEF Follows, Sound
    <2>3. PICK s \in Status : Ends(pipes[p], Failed(pipes[p], error), s)
      BY <1>1, <2>1, FailedEnds
    <2> QED BY <1>4, <2>2, <2>3, WakeWaiterHonest DEF ChanFail
  <1>5. CASE ChanIgnored(p)
    <2> DEFINE q == [pipes[p] EXCEPT !.chan_busy = FALSE]
    <2>1. SameRing(pipes[p], q) /\ q.state = pipes[p].state
      BY <1>1 DEF SameRing, Pipe_t
    <2>2. pipes' = [pipes EXCEPT ![p] = q]
      BY <1>5 DEF ChanIgnored
    <2> HIDE DEF q
    <2> QED BY <1>1, <2>1, <2>2, FlagsHonest
  <1> QED BY <1>2, <1>3, <1>4, <1>5 DEF ChanTransfer

\* The port commands that change all pipes change their flags only.
LEMMA PauseHonest ==
    ASSUME IInv, Reset \/ Suspend \/ Disable
    PROVE  EachHonest
  <1>1. PipePart /\ \A p \in Pipe : Sound(pipes[p])
    BY IInvParts, PipesSound
  <1>2. CASE Disable /\ UNCHANGED pipes
    BY <1>2, PipesKeptHonest
  <1>3. CASE Reset \/ (\E at : PauseAllPipes(TRUE, at))
    <2> SUFFICES ASSUME NEW p \in Pipe PROVE Keeps(pipes[p], pipes'[p])
      BY DEF EachHonest, Honest
    <2> DEFINE b == pipes[p].paused \/ Allocated(p)
               q == [pipes[p] EXCEPT !.waiting_xfer_done = TRUE]
               r == [pipes[p] EXCEPT !.paused = b]
               s == [pipes[p] EXCEPT !.chan_busy = FALSE]
    <2>1. pipes'[p] = q \/ pipes'[p] = r \/ pipes'[p] = s
      BY <1>3 DEF Reset, PauseAllPipes
    <2>2. pipes[p] \in Pipe_t
      BY <1>1 DEF Sound
    <2> HIDE DEF b
    <2>3. /\ SameRing(pipes[p], q) /\ q.state = pipes[p].state
          /\ SameRing(pipes[p], r) /\ r.state = pipes[p].state
          /\ SameRing(pipes[p], s) /\ s.state = pipes[p].state
      BY <2>2 DEF SameRing, Pipe_t
    <2> HIDE DEF q, r, s
    <2> QED BY <2>1, <2>3, SameRingKeeps
  <1>4. Reset \/ (\E at : PauseAllPipes(TRUE, at)) \/ (Disable /\ UNCHANGED pipes)
    <2>1. Suspend => PauseAllPipes(TRUE, "suspend_wait")
      BY DEF Suspend, PauseAllPipes
    <2>2. Disable => PauseAllPipes(TRUE, "disable_wait") \/ UNCHANGED pipes
      BY DEF Disable, PauseAllPipes, pipeVars
    <2> QED BY <2>1, <2>2
  <1> QED BY <1>2, <1>3, <1>4

\* The pipes are resumed with the port: their oldest IRPs go to the buffers.
LEMMA ResumeHonest ==
    ASSUME IInv, ResumeEnd
    PROVE  EachHonest
  <1>1. PipePart /\ \A p \in Pipe : Sound(pipes[p])
    BY IInvParts, PipesSound
  <1>2. CASE UNCHANGED pipes
    BY <1>2, PipesKeptHonest
  <1>3. CASE UnpauseAllPipes
    <2> SUFFICES ASSUME NEW p \in Pipe PROVE Keeps(pipes[p], pipes'[p])
      BY DEF EachHonest, Honest
    <2> DEFINE b == pipes[p].paused /\ ~Allocated(p)
               r == [pipes[p] EXCEPT !.paused = b]
    <2>1. pipes'[p] = IF InQueue(active_tailq, p) THEN FillAndExec(r) ELSE r
      BY <1>3 DEF UnpauseAllPipes
    <2>2. b \in BOOLEAN /\ pipes[p] \in Pipe_t
      BY <1>1 DEF Sound
    <2> HIDE DEF b
    <2>3. Sound(r) /\ SameRing(pipes[p], r) /\ r.state = pipes[p].state
      BY <1>1, <2>2, PortFlags DEF Follows, SameRing, Pipe_t
    <2> HIDE DEF r
    <2>4. Keeps(pipes[p], r) /\ Keeps(r, FillAndExec(r))
      BY <2>3, SameRingKeeps, FillAndExecKeeps
    <2> QED BY <2>1, <2>4, KeepsTransitive
  <1> QED BY <1>2, <1>3 DEF ResumeEnd

\* An idle pipe is made invalid.
LEMMA IdleHonest ==
    ASSUME PipePart, NEW q \in Pipe, InQueue(idle_tailq, q),
           pipes' = [pipes EXCEPT ![q] = InvalidatedIdle(@)]
    PROVE  EachHonest
  <1>1. Sound(pipes[q]) /\ HoldsNothing(pipes[q])
    BY PipePartNow
  <1>2. Loses(pipes[q], InvalidatedIdle(pipes[q]))
    BY <1>1, InvalidatedIdleLoses
  <1>3. pipes' = [pipes EXCEPT ![q] = InvalidatedIdle(pipes[q])]
    OBVIOUS
  <1> QED BY <1>2, <1>3, OneHonest DEF Honest

\* One round of the loops that make the pipes invalid.
LEMMA InvalidateHonest ==
    ASSUME IInv, NEW p \in Pipe \union {NoPipe}, InvalidateActive(p)
    PROVE  EachHonest
  <1>1. PipePart /\ \A x \in Pipe : Sound(pipes[x])
    BY IInvParts, PipesSound
  <1>2. CASE p # NoPipe
    <2>1. p \in Pipe /\ pipes' = [pipes EXCEPT ![p] = Invalidated(pipes[p])]
      BY <1>2 DEF InvalidateActive
    <2>2. Loses(pipes[p], Invalidated(pipes[p]))
      BY <1>1, <2>1, InvalidatedLoses
    <2> QED BY <1>1, <2>1, <2>2, OneHonest DEF Honest
  <1>3. CASE p = NoPipe /\ First(idle_tailq) = NoPipe
    BY <1>3, PipesKeptHonest DEF InvalidateActive
  <1>4. CASE p = NoPipe /\ First(idle_tailq) # NoPipe
    <2>1. pipes' = [pipes EXCEPT ![First(idle_tailq)] = InvalidatedIdle(@)]
      BY <1>4 DEF InvalidateActive
    <2>2. First(idle_tailq) \in Pipe /\ InQueue(idle_tailq, First(idle_tailq))
      BY <1>1, <1>4, FirstListed DEF PipePart
    <2> QED BY <1>1, <2>1, <2>2, IdleHonest
  <1> QED BY <1>2, <1>3, <1>4

\* The steps of the port that run those loops.
LEMMA LossHonest ==
    ASSUME IInv,
           DisableEnd \/ HandleDeviceLost \/ InvalidateNextActive \/ InvalidateNextIdle
    PROVE  EachHonest
  <1>1. PipePart /\ PortPart
    BY IInvParts
  <1>2. CASE DisableEnd \/ HandleDeviceLost
    <2>1. First(active_tailq) \in Pipe \union {NoPipe}
      BY <1>1, FirstListed DEF PipePart
    <2>2. InvalidateActive(First(active_tailq)) \/ UNCHANGED pipes
      BY <1>2 DEF DisableEnd, HandleDeviceLost
    <2> QED BY <2>1, <2>2, InvalidateHonest, PipesKeptHonest
  <1>3. CASE InvalidateNextActive \/ InvalidateNextIdle
    <2> DEFINE q == NextInList(port_op.cur)
    <2>1. /\ port_op.cur \in Pipe /\ Allocated(port_op.cur)
          /\ InvalidateNextIdle => InQueue(idle_tailq, port_op.cur)
      BY <1>1, <1>3 DEF InvalidateNextActive, InvalidateNextIdle, PortPart, CursorListed, Invalidating
    <2>2. /\ q # NoPipe => q \in Pipe
          /\ InvalidateNextIdle /\ q # NoPipe => InQueue(idle_tailq, q)
      BY <1>1, <2>1, NextListed
    <2>3. CASE InvalidateNextActive
      BY <2>2, <2>3, InvalidateHonest DEF InvalidateNextActive
    <2>4. CASE InvalidateNextIdle
      <3>1. \/ UNCHANGED pipes
            \/ q # NoPipe /\ pipes' = [pipes EXCEPT ![q] = InvalidatedIdle(@)]
        BY <2>4 DEF InvalidateNextIdle
      <3> HIDE DEF q
      <3> QED BY <1>1, <2>2, <2>4, <3>1, IdleHonest, PipesKeptHonest
    <2> QED BY <1>3, <2>3, <2>4
  <1> QED BY <1>2, <1>3

\* Every step of the driver, of its clients and of the hardware is one of the
\* promise of each pipe, or none.
LEMMA NextHonest == IInv /\ [Next]_vars => EachHonest
  <1> SUFFICES ASSUME IInv, [Next]_vars PROVE EachHonest
    OBVIOUS
  <1>1. CASE PipeNext
    <2> PICK p \in Pipe : PipeStep(p)
      BY <1>1 DEF PipeNext
    <2> QED BY AllocHonest, IrpHonest, CommandHonest, ChanHonest DEF PipeStep
  <1>2. CASE PortInterrupt \/ PowerOn \/ PowerOff \/ Recover \/ Resume
    <2>1. UNCHANGED pipes
      BY <1>2 DEF PortInterrupt, IntrConn, IntrDisconn, IntrEnabled, IntrDisabled, IntrOvercurrent,
                  PowerOn, PowerOff, Recover, Resume, pipeVars
    <2> QED BY <2>1, PipesKeptHonest
  <1>3. CASE Reset \/ Suspend \/ Disable
    BY <1>3, PauseHonest
  <1>4. CASE PortOpStep
    <2>1. CASE ResetRelease \/ ResetEnd \/ SuspendWake \/ ResumeRelease \/ DisableWake \/ Debounced
      <3>1. UNCHANGED pipes
        BY <2>1 DEF ResetRelease, ResetEnd, SuspendWake, ResumeRelease, DisableWake, Debounced, pipeVars
      <3> QED BY <3>1, PipesKeptHonest
    <2>2. CASE ResumeEnd
      BY <2>2, ResumeHonest
    <2>3. CASE DisableEnd \/ InvalidateNextActive \/ InvalidateNextIdle
      BY <2>3, LossHonest
    <2> QED BY <1>4, <2>1, <2>2, <2>3 DEF PortOpStep
  <1>5. CASE HandleEvent
    <2>1. CASE HandleDebounced
      <3>1. UNCHANGED pipes
        BY <2>1 DEF HandleDebounced, pipeVars
      <3> QED BY <3>1, PipesKeptHonest
    <2>2. CASE HandleDeviceLost
      BY <2>2, LossHonest
    <2> QED BY <1>5, <2>1, <2>2 DEF HandleEvent
  <1>6. CASE UNCHANGED vars
    BY <1>6, PipesKeptHonest DEF vars, pipeVars
  <1> QED BY <1>1, <1>2, <1>3, <1>4, <1>5, <1>6 DEF Next, UnpausedNext, PauseCommand

-----------------------------------------------------------------------------
(* The theorem *)

\* The driver implements IrpQueue for every pipe: every IRP that hcd_irp_enqueue
\* accepts is given back once, with one status and in order, and the loss of the
\* device ends them all and lets none in.
THEOREM PromiseKept == Spec => PipesKeepPromise
  <1>1. Init => \A p \in Pipe : Promise(p)!Init
    <2> SUFFICES ASSUME Init, NEW p \in Pipe PROVE Promise(p)!Init
      OBVIOUS
    <2>1. pipes[p] = NewPipe(p \in CtrlPipe) /\ (p \in CtrlPipe) \in BOOLEAN
      BY DEF Init
    <2>2. Sound(pipes[p]) /\ HoldsNothing(pipes[p]) /\ pipes[p].state = "ACTIVE"
      BY <2>1, NewPipeSound
    <2>3. InOrder(pipes[p]) = << >> /\ Statuses(pipes[p]) = << >>
      BY <2>2, NothingShown
    <2> QED BY <2>2, <2>3 DEF Promise!Init, Statuses
  <1>2. IInv /\ [Next]_vars => [\A p \in Pipe : [Promise(p)!Next]_(Promise(p)!vars)]_vars
    <2> SUFFICES ASSUME IInv, [Next]_vars
                 PROVE  \A p \in Pipe : [Promise(p)!Next]_(Promise(p)!vars)
      OBVIOUS
    <2>1. EachHonest
      BY NextHonest
    <2> QED BY <2>1, HonestStep DEF EachHonest
  <1> QED BY <1>1, <1>2, InvariantHolds, PTL DEF Spec, PipesKeepPromise

-----------------------------------------------------------------------------
(* What one pipe sees of a step *)

\* Nobody gives, ends or wakes a command of the pipe p.
SameWait(p) == pipe_cmd'[p] = pipe_cmd[p] /\ pipe_notified'[p] = pipe_notified[p]

\* Allocated or freed.
Reopened(p) ==
    /\ PipeAlloc(p) \/ PipeFree(p)
    /\ pipes'[p] = NewPipe(p \in CtrlPipe)
    /\ SameWait(p)
    /\ Allocated(p) => pipe_cmd[p] = "NONE"

\* An IRP is taken, given back or aborted, or the event is read.
ClientTurn(p) ==
    /\ SameWait(p)
    /\ \/ /\ pipes[p].state = "ACTIVE" /\ ~pipes[p].pipe_cmd_processing
          /\ \E irp \in Irp : pipes'[p] = Enqueued(pipes[p], irp)
       \/ pipes[p].done # << >> /\ pipes'[p] = Dequeued(pipes[p])
       \/ \E irp \in Irp :
             pipes[p].irp_state[irp] = "PENDING" /\ pipes'[p] = Aborted(pipes[p], irp)
       \/ pipes'[p] = [pipes[p] EXCEPT !.last_event = "NONE"]

\* A command that has to wait.
WaitTurn(p) ==
    /\ pipes[p].executing /\ ~pipes[p].pipe_cmd_processing
    /\ Allocated(p) /\ port.conn_devc_ena
    /\ pipes'[p] = [pipes[p] EXCEPT !.pipe_cmd_processing = TRUE, !.waiting_xfer_done = TRUE]
    /\ pipe_cmd'[p] # "NONE" /\ pipe_notified'[p] = pipe_notified[p]

\* A command that has not.
CommandTurn(p) ==
    /\ SameWait(p)
    /\ ~pipes[p].pipe_cmd_processing /\ pipes[p].state # "INVALID"
    /\ \E cmd \in PipeCmd :
          /\ cmd # "CLEAR" => ~pipes[p].executing
          /\ pipes'[p] = Commanded(pipes[p], cmd)

\* A command returns.
ReturnTurn(p) ==
    /\ pipe_cmd[p] # "NONE" /\ pipe_cmd[p] \in WaitingCmd /\ pipe_notified[p]
    /\ pipes[p].state = "INVALID" \/ ~pipes[p].chan_busy
    /\ pipes'[p] = Resumed(pipes[p], pipe_cmd[p])
    /\ pipe_cmd'[p] = "NONE" /\ pipe_notified'[p] = FALSE

\* A transfer ends and leaves the pipe as r; then whoever waits is told.
EndTurn(p, r) ==
    /\ pipe_cmd'[p] = pipe_cmd[p]
    /\ \/ /\ ~r.waiting_xfer_done
          /\ pipes'[p] = r /\ pipe_notified'[p] = pipe_notified[p]
       \/ /\ r.waiting_xfer_done /\ port.waiting_all_pipes_pause
          /\ pipes'[p] = PausedNow(r) /\ pipe_notified'[p] = pipe_notified[p]
       \/ /\ r.waiting_xfer_done /\ ~port.waiting_all_pipes_pause
          /\ pipe_cmd[p] # "NONE"
          /\ pipes'[p] = [r EXCEPT !.waiting_xfer_done = FALSE] /\ pipe_notified'[p] = TRUE

\* A stage or a transfer ends on an enabled device.
ChannelTurn(p) ==
    /\ pipes[p].chan_busy /\ port.conn_devc_ena /\ pipes[p].executing
    /\ \/ pipes'[p] = NextStage(pipes[p]) /\ SameWait(p)
       \/ EndTurn(p, Completed(pipes[p]))
       \/ \E error \in ChanError : EndTurn(p, Failed(pipes[p], error))

\* The channel stops: the interrupt was ignored, or the bus is reset.
StopTurn(p) ==
    /\ SameWait(p)
    /\ ~port.conn_devc_ena \/ Reset
    /\ pipes'[p] = [pipes[p] EXCEPT !.chan_busy = FALSE]

\* The port pauses.
PauseTurn(p) ==
    /\ SameWait(p)
    /\ Suspend \/ Disable
    /\ pipes'[p] = IF p \in Transferring
                   THEN [pipes[p] EXCEPT !.waiting_xfer_done = TRUE]
                   ELSE [pipes[p] EXCEPT !.paused = @ \/ Allocated(p)]

\* The port resumes.
ResumeTurn(p) ==
    /\ SameWait(p)
    /\ port_op.at = "resume_recovery" /\ ResumeEnd
    /\ LET r == [pipes[p] EXCEPT !.paused = @ /\ ~Allocated(p)]
       IN  pipes'[p] = IF InQueue(active_tailq, p) THEN FillAndExec(r) ELSE r

\* The device is lost.
LossTurn(p) ==
    /\ ~port.conn_devc_ena
    /\ pipe_cmd'[p] = pipe_cmd[p]
    /\ pipe_notified'[p] => pipe_notified[p] \/ pipe_cmd[p] # "NONE"
    /\ pipes'[p] \in {Invalidated(pipes[p]), InvalidatedIdle(pipes[p])}

Kept(p) == pipes'[p] = pipes[p] /\ SameWait(p)

\* It stays allocated, but when it is freed.
StaysAllocated(p) == Allocated(p) => InQueue(idle_tailq', p) \/ InQueue(active_tailq', p)

PipeTurn(p) ==
    \/ Reopened(p)
    \/ /\ StaysAllocated(p)
       /\ \/ Kept(p) \/ ClientTurn(p)
          \/ WaitTurn(p) \/ CommandTurn(p) \/ ReturnTurn(p)
          \/ ChannelTurn(p) \/ StopTurn(p)
          \/ PauseTurn(p) \/ ResumeTurn(p) \/ LossTurn(p)

\* The lists do not change.
LEMMA ListsKept ==
    ASSUME UNCHANGED <<idle_tailq, active_tailq>>
    PROVE  \A p : StaysAllocated(p)
BY DEF StaysAllocated, Allocated, InQueue

\* Of a step of one pipe, the others see nothing.
LEMMA OthersKept ==
    ASSUME PipePart, PortPart, NEW p \in Pipe, NEW q, pipes' = [pipes EXCEPT ![p] = q],
           UNCHANGED pipe_cmd \/ (\E c : pipe_cmd' = [pipe_cmd EXCEPT ![p] = c]),
           UNCHANGED pipe_notified \/ (\E n : pipe_notified' = [pipe_notified EXCEPT ![p] = n])
    PROVE  pipes'[p] = q /\ \A x \in Pipe : x # p => Kept(x)
BY DEF PipePart, PortPart, Kept, SameWait

\* A pipe is allocated or freed.
LEMMA AllocTurn ==
    ASSUME IInv, NEW p \in Pipe, PipeAlloc(p) \/ PipeFree(p)
    PROVE  \A x \in Pipe : PipeTurn(x)
  <1>1. PipePart /\ PortPart
    BY IInvParts
  <1>2. /\ pipes' = [pipes EXCEPT ![p] = NewPipe(p \in CtrlPipe)]
        /\ UNCHANGED <<active_tailq, pipe_cmd, pipe_notified>>
        /\ Allocated(p) => pipe_cmd[p] = "NONE"
    BY DEF PipeAlloc, PipeFree
  <1>3. pipes'[p] = NewPipe(p \in CtrlPipe) /\ \A x \in Pipe : x # p => Kept(x)
    BY <1>1, <1>2, OthersKept
  <1>4. \A x \in Pipe : x # p => StaysAllocated(x)
    <2>1. CASE PipeAlloc(p)
      <3>1. \A x : InQueue(idle_tailq, x) => InQueue(Append(idle_tailq, p), x)
        BY <1>1, PipePartNow, AppendList
      <3> QED BY <2>1, <3>1, <1>2 DEF PipeAlloc, StaysAllocated, Allocated, InQueue
    <2>2. CASE PipeFree(p)
      <3>1. InQueue(idle_tailq, p)
        BY <1>1, <2>2, PipePartNow DEF PipeFree, Allocated
      <3>2. \A x : InQueue(idle_tailq, x) /\ x # p => InQueue(Without(idle_tailq, p), x)
        BY <1>1, <3>1, PipePartNow, WithoutList
      <3> QED BY <2>2, <3>2, <1>2 DEF PipeFree, StaysAllocated, Allocated, InQueue
    <2> QED BY <2>1, <2>2
  <1> QED BY <1>2, <1>3, <1>4 DEF PipeTurn, Reopened, SameWait

\* An IRP comes or goes.
LEMMA IrpTurn ==
    ASSUME IInv, NEW p \in Pipe,
           (\E irp \in Irp : IrpEnqueue(p, irp) \/ IrpAbort(p, irp)) \/ IrpDequeue(p) \/ PipeGetEvent(p)
    PROVE  \A x \in Pipe : PipeTurn(x)
  <1>1. PipePart /\ PortPart
    BY IInvParts
  <1>2. UNCHANGED <<pipe_cmd, pipe_notified>>
    BY DEF IrpEnqueue, IrpAbort, IrpDequeue, PipeGetEvent
  <1>3. PICK q : pipes' = [pipes EXCEPT ![p] = q]
    BY DEF IrpEnqueue, IrpAbort, IrpDequeue, PipeGetEvent
  <1>4. pipes'[p] = q /\ \A x \in Pipe : x # p => Kept(x)
    BY <1>1, <1>2, <1>3, OthersKept
  <1>5. ClientTurn(p)
    BY <1>1, <1>2 DEF PipePart, ClientTurn, SameWait, IrpEnqueue, IrpAbort, IrpDequeue, PipeGetEvent
  <1>6. \A x \in Pipe : StaysAllocated(x)
    <2>1. CASE UNCHANGED <<idle_tailq, active_tailq>>
      BY <2>1, ListsKept
    <2>2. CASE /\ idle_tailq' = Without(idle_tailq, p) /\ active_tailq' = Append(active_tailq, p)
               /\ Allocated(p) /\ ~pipes[p].is_active
      <3>1. InQueue(idle_tailq, p)
        BY <1>1, <2>2, PipePartNow DEF Allocated
      <3>2. \A x : InQueue(idle_tailq, x) /\ x # p => InQueue(Without(idle_tailq, p), x)
        BY <1>1, <3>1, PipePartNow, WithoutList
      <3>3. \A x : InQueue(active_tailq, x) \/ x = p => InQueue(Append(active_tailq, p), x)
        BY <1>1, PipePartNow, AppendList
      <3> QED BY <2>2, <3>2, <3>3 DEF StaysAllocated, Allocated
    <2>3. CASE /\ active_tailq' = Without(active_tailq, p) /\ idle_tailq' = Append(idle_tailq, p)
               /\ pipes[p].is_active
      <3>1. InQueue(active_tailq, p)
        BY <1>1, <2>3, PipePartNow
      <3>2. \A x : InQueue(active_tailq, x) /\ x # p => InQueue(Without(active_tailq, p), x)
        BY <1>1, <3>1, PipePartNow, WithoutList
      <3>3. \A x : InQueue(idle_tailq, x) \/ x = p => InQueue(Append(idle_tailq, p), x)
        BY <1>1, PipePartNow, AppendList
      <3> QED BY <2>3, <3>2, <3>3 DEF StaysAllocated, Allocated
    <2> QED BY <2>1, <2>2, <2>3 DEF IrpEnqueue, IrpAbort, IrpDequeue, PipeGetEvent
  <1> QED BY <1>4, <1>5, <1>6 DEF PipeTurn

\* A command is given, or returns.
LEMMA CommandTurns ==
    ASSUME IInv, NEW p \in Pipe, (\E cmd \in PipeCmd : PipeCommand(p, cmd)) \/ PipeCommandReturn(p)
    PROVE  \A x \in Pipe : PipeTurn(x)
  <1>1. PipePart /\ PortPart
    BY IInvParts
  <1>2. UNCHANGED <<idle_tailq, active_tailq>>
    BY DEF PipeCommand, PipeCommandReturn
  <1>3. \A x \in Pipe : StaysAllocated(x)
    BY <1>2, ListsKept
  <1>4. ASSUME NEW cmd \in PipeCmd, PipeCommand(p, cmd)
        PROVE  \A x \in Pipe : PipeTurn(x)
    <2>1. CASE cmd # "CLEAR" /\ pipes[p].executing
      <3> DEFINE q == [pipes[p] EXCEPT !.pipe_cmd_processing = TRUE, !.waiting_xfer_done = TRUE]
      <3>1. /\ pipes' = [pipes EXCEPT ![p] = q]
            /\ pipe_cmd' = [pipe_cmd EXCEPT ![p] = cmd] /\ UNCHANGED pipe_notified
            /\ ~pipes[p].pipe_cmd_processing /\ Allocated(p) /\ port.conn_devc_ena
        BY <1>4, <2>1 DEF PipeCommand
      <3>2. pipes'[p] = q /\ \A x \in Pipe : x # p => Kept(x)
        BY <1>1, <3>1, OthersKept
      <3>3. pipe_cmd'[p] # "NONE"
        BY <1>1, <1>4, <3>1 DEF PortPart, PipeCmd
      <3>4. WaitTurn(p)
        BY <2>1, <3>1, <3>2, <3>3 DEF WaitTurn
      <3> QED BY <1>3, <3>2, <3>4 DEF PipeTurn
    <2>2. CASE ~(cmd # "CLEAR" /\ pipes[p].executing)
      <3>1. /\ pipes' = [pipes EXCEPT ![p] = Commanded(pipes[p], cmd)]
            /\ UNCHANGED <<pipe_cmd, pipe_notified>>
            /\ ~pipes[p].pipe_cmd_processing /\ pipes[p].state # "INVALID"
        BY <1>4, <2>2 DEF PipeCommand
      <3>2. pipes'[p] = Commanded(pipes[p], cmd) /\ \A x \in Pipe : x # p => Kept(x)
        BY <1>1, <3>1, OthersKept
      <3>3. CommandTurn(p)
        BY <2>2, <3>1, <3>2 DEF CommandTurn, SameWait
      <3> QED BY <1>3, <3>2, <3>3 DEF PipeTurn
    <2> QED BY <2>1, <2>2
  <1>5. CASE PipeCommandReturn(p)
    <2>1. /\ pipes' = [pipes EXCEPT ![p] = Resumed(pipes[p], pipe_cmd[p])]
          /\ pipe_cmd' = [pipe_cmd EXCEPT ![p] = "NONE"]
          /\ pipe_notified' = [pipe_notified EXCEPT ![p] = FALSE]
      BY <1>5 DEF PipeCommandReturn
    <2>2. /\ pipes'[p] = Resumed(pipes[p], pipe_cmd[p]) /\ \A x \in Pipe : x # p => Kept(x)
      BY <1>1, <2>1, OthersKept
    <2>3. ReturnTurn(p)
      BY <1>1, <1>5, <2>1, <2>2 DEF PortPart, PipeCommandReturn, ReturnTurn
    <2> QED BY <1>3, <2>2, <2>3 DEF PipeTurn
  <1> QED BY <1>4, <1>5

\* The end of an interrupt.
LEMMA WakeTurn ==
    ASSUME PipePart, PortPart, NEW p \in Pipe, NEW r, WakeWaiter(p, r), UNCHANGED pipe_cmd
    PROVE  EndTurn(p, r) /\ \A x \in Pipe : x # p => Kept(x)
  <1>1. CASE ~r.waiting_xfer_done
    <2>1. pipes' = [pipes EXCEPT ![p] = r] /\ UNCHANGED pipe_notified
      BY <1>1 DEF WakeWaiter
    <2> QED BY <1>1, <2>1, OthersKept DEF EndTurn
  <1>2. CASE r.waiting_xfer_done /\ port.waiting_all_pipes_pause
    <2>1. pipes' = [pipes EXCEPT ![p] = PausedNow(r)] /\ UNCHANGED pipe_notified
      BY <1>2 DEF WakeWaiter
    <2> QED BY <1>2, <2>1, OthersKept DEF EndTurn
  <1>3. CASE r.waiting_xfer_done /\ ~port.waiting_all_pipes_pause
    <2> DEFINE q == [r EXCEPT !.waiting_xfer_done = FALSE]
    <2>1. /\ pipes' = [pipes EXCEPT ![p] = q] /\ pipe_cmd[p] # "NONE"
          /\ pipe_notified' = [pipe_notified EXCEPT ![p] = TRUE]
      BY <1>3 DEF WakeWaiter
    <2>2. pipes'[p] = q /\ \A x \in Pipe : x # p => Kept(x)
      BY <2>1, OthersKept
    <2>3. pipe_notified'[p] = TRUE
      BY <2>1 DEF PortPart
    <2> QED BY <1>3, <2>1, <2>2, <2>3 DEF EndTurn
  <1> QED BY <1>1, <1>2, <1>3

\* The channel interrupt.
LEMMA ChanTurn ==
    ASSUME IInv, NEW p \in Pipe, ChanTransfer(p) \/ ChanIgnored(p)
    PROVE  \A x \in Pipe : PipeTurn(x)
  <1>1. PipePart /\ PortPart
    BY IInvParts
  <1>2. UNCHANGED <<idle_tailq, active_tailq, pipe_cmd>>
    BY DEF ChanTransfer, ChanIgnored, ChanStage, ChanComplete, ChanFail
  <1>3. \A x \in Pipe : StaysAllocated(x)
    BY <1>2, ListsKept
  <1>4. CASE ChanIgnored(p)
    <2> DEFINE q == [pipes[p] EXCEPT !.chan_busy = FALSE]
    <2>1. /\ pipes' = [pipes EXCEPT ![p] = q]
          /\ UNCHANGED pipe_notified /\ ~port.conn_devc_ena
      BY <1>4 DEF ChanIgnored
    <2>2. pipes'[p] = q /\ \A x \in Pipe : x # p => Kept(x)
      BY <1>1, <1>2, <2>1, OthersKept
    <2>3. StopTurn(p)
      BY <1>2, <2>1, <2>2 DEF StopTurn, SameWait
    <2> QED BY <1>3, <2>2, <2>3 DEF PipeTurn
  <1>5. CASE ChanTransfer(p)
    <2>1. ChanInterrupt(p) /\ pipes[p].executing
      BY <1>5, InterruptFindsTransfer DEF ChanTransfer, ChanStage, ChanComplete, ChanFail
    <2>2. CASE ChanStage(p)
      <3>1. pipes' = [pipes EXCEPT ![p] = NextStage(pipes[p])] /\ UNCHANGED pipe_notified
        BY <2>2 DEF ChanStage
      <3>2. pipes'[p] = NextStage(pipes[p]) /\ \A x \in Pipe : x # p => Kept(x)
        BY <1>1, <1>2, <3>1, OthersKept
      <3>3. ChannelTurn(p)
        BY <1>2, <2>1, <3>1, <3>2 DEF ChannelTurn, SameWait, ChanInterrupt
      <3> QED BY <1>3, <3>2, <3>3 DEF PipeTurn
    <2>3. CASE ChanComplete(p)
      <3>1. EndTurn(p, Completed(pipes[p])) /\ \A x \in Pipe : x # p => Kept(x)
        BY <1>1, <1>2, <2>3, WakeTurn DEF ChanComplete
      <3>2. ChannelTurn(p)
        BY <2>1, <3>1 DEF ChannelTurn, ChanInterrupt
      <3> QED BY <1>3, <3>1, <3>2 DEF PipeTurn
    <2>4. ASSUME NEW error \in ChanError, ChanFail(p, error)
          PROVE  \A x \in Pipe : PipeTurn(x)
      <3>1. EndTurn(p, Failed(pipes[p], error)) /\ \A x \in Pipe : x # p => Kept(x)
        BY <1>1, <1>2, <2>4, WakeTurn DEF ChanFail
      <3>2. ChannelTurn(p)
        BY <2>1, <3>1, PipeAssumption DEF ChannelTurn, ChanInterrupt
      <3> QED BY <1>3, <3>1, <3>2 DEF PipeTurn
    <2> QED BY <1>5, <2>2, <2>3, <2>4 DEF ChanTransfer
  <1> QED BY <1>4, <1>5

\* The port's commands that change all pipes.
LEMMA PauseTurns ==
    ASSUME IInv, Reset \/ Suspend \/ Disable
    PROVE  \A x \in Pipe : PipeTurn(x)
  <1>1. UNCHANGED <<idle_tailq, active_tailq, pipe_cmd, pipe_notified>>
    BY DEF Reset, Suspend, Disable, PauseAllPipes, pipeVars
  <1>2. \A x \in Pipe : StaysAllocated(x) /\ SameWait(x)
    BY <1>1, ListsKept DEF SameWait
  <1>3. CASE Reset
    <2>1. \A x \in Pipe : pipes'[x] = [pipes[x] EXCEPT !.chan_busy = FALSE]
      BY <1>3 DEF Reset
    <2> QED BY <1>2, <1>3, <2>1 DEF PipeTurn, StopTurn
  <1>4. CASE Disable /\ UNCHANGED pipes
    BY <1>2, <1>4 DEF PipeTurn, Kept
  <1>5. CASE (Suspend \/ Disable) /\ (\E at : PauseAllPipes(TRUE, at))
    <2>1. \A x \in Pipe : pipes'[x] = IF x \in Transferring
                                      THEN [pipes[x] EXCEPT !.waiting_xfer_done = TRUE]
                                      ELSE [pipes[x] EXCEPT !.paused = @ \/ Allocated(x)]
      BY <1>5 DEF PauseAllPipes
    <2> QED BY <1>2, <1>5, <2>1 DEF PipeTurn, PauseTurn
  <1>6. Reset \/ (Disable /\ UNCHANGED pipes)
              \/ ((Suspend \/ Disable) /\ (\E at : PauseAllPipes(TRUE, at)))
    <2>1. Suspend => PauseAllPipes(TRUE, "suspend_wait")
      BY DEF Suspend, PauseAllPipes
    <2>2. Disable => PauseAllPipes(TRUE, "disable_wait") \/ UNCHANGED pipes
      BY DEF Disable, PauseAllPipes, pipeVars
    <2> QED BY <2>1, <2>2
  <1> QED BY <1>3, <1>4, <1>5, <1>6

\* The port resumes.
LEMMA ResumeTurns ==
    ASSUME IInv, ResumeEnd
    PROVE  \A x \in Pipe : PipeTurn(x)
  <1>1. UNCHANGED <<idle_tailq, active_tailq, pipe_cmd, pipe_notified>>
    BY DEF ResumeEnd
  <1>2. \A x \in Pipe : StaysAllocated(x) /\ SameWait(x)
    BY <1>1, ListsKept DEF SameWait
  <1>3. CASE UNCHANGED pipes
    BY <1>2, <1>3 DEF PipeTurn, Kept
  <1>4. CASE UnpauseAllPipes
    <2>1. \A x \in Pipe :
             LET r == [pipes[x] EXCEPT !.paused = @ /\ ~Allocated(x)]
             IN  pipes'[x] = IF InQueue(active_tailq, x) THEN FillAndExec(r) ELSE r
      BY <1>4 DEF UnpauseAllPipes
    <2> QED BY <1>2, <2>1 DEF PipeTurn, ResumeTurn, ResumeEnd
  <1> QED BY <1>3, <1>4 DEF ResumeEnd

\* One round of the loops that make the pipes invalid.
LEMMA InvalidateTurns ==
    ASSUME IInv, NEW p \in Pipe \union {NoPipe}, InvalidateActive(p),
           UNCHANGED <<idle_tailq, active_tailq, pipe_cmd>>, ~port.conn_devc_ena
    PROVE  \A x \in Pipe : PipeTurn(x)
  <1>1. PipePart /\ PortPart
    BY IInvParts
  <1>2. \A x \in Pipe : StaysAllocated(x)
    BY ListsKept
  <1>3. CASE p # NoPipe
    <2>1. /\ p \in Pipe /\ pipes' = [pipes EXCEPT ![p] = Invalidated(pipes[p])]
          /\ pipe_notified' = [pipe_notified EXCEPT ![p] = pipe_notified[p] \/ pipe_cmd[p] # "NONE"]
      BY <1>3 DEF InvalidateActive, WaiterNotified
    <2>2. pipes'[p] = Invalidated(pipes[p]) /\ \A x \in Pipe : x # p => Kept(x)
      BY <1>1, <2>1, OthersKept
    <2>3. pipe_notified'[p] = (pipe_notified[p] \/ pipe_cmd[p] # "NONE")
      BY <1>1, <2>1 DEF PortPart
    <2>4. LossTurn(p)
      BY <2>2, <2>3 DEF LossTurn
    <2> QED BY <1>2, <2>2, <2>4 DEF PipeTurn
  <1>4. CASE p = NoPipe /\ First(idle_tailq) = NoPipe
    BY <1>2, <1>4 DEF InvalidateActive, PipeTurn, Kept, SameWait
  <1>5. CASE p = NoPipe /\ First(idle_tailq) # NoPipe
    <2> DEFINE q == First(idle_tailq)
    <2>1. q \in Pipe
      BY <1>1, <1>5, FirstListed DEF PipePart
    <2>2. pipes' = [pipes EXCEPT ![q] = InvalidatedIdle(pipes[q])] /\ UNCHANGED pipe_notified
      BY <1>5 DEF InvalidateActive
    <2> HIDE DEF q
    <2>3. pipes'[q] = InvalidatedIdle(pipes[q]) /\ \A x \in Pipe : x # q => Kept(x)
      BY <1>1, <2>1, <2>2, OthersKept
    <2>4. LossTurn(q)
      BY <2>2, <2>3 DEF LossTurn
    <2> QED BY <1>2, <2>1, <2>3, <2>4 DEF PipeTurn
  <1> QED BY <1>3, <1>4, <1>5

\* The steps of the port that run those loops.
LEMMA LossTurns ==
    ASSUME IInv,
           DisableEnd \/ HandleDeviceLost \/ InvalidateNextActive \/ InvalidateNextIdle
    PROVE  \A x \in Pipe : PipeTurn(x)
  <1>1. PipePart /\ PortPart
    BY IInvParts
  <1>2. UNCHANGED <<idle_tailq, active_tailq, pipe_cmd>>
    BY DEF DisableEnd, HandleDeviceLost, InvalidateNextActive, InvalidateNextIdle
  <1>3. CASE UNCHANGED <<pipes, pipe_notified>>
    BY <1>2, <1>3, ListsKept DEF PipeTurn, Kept, SameWait
  <1>4. CASE DisableEnd \/ HandleDeviceLost
    <2>1. First(active_tailq) \in Pipe \union {NoPipe}
      BY <1>1, FirstListed DEF PipePart
    <2>2. \/ InvalidateActive(First(active_tailq)) /\ ~port.conn_devc_ena
          \/ UNCHANGED <<pipes, pipe_notified>>
      BY <1>1, <1>4 DEF DisableEnd, HandleDeviceLost, PortPart, NoDeviceToInvalidate, LostPending
    <2> QED BY <1>2, <1>3, <2>1, <2>2, InvalidateTurns
  <1>5. CASE InvalidateNextActive \/ InvalidateNextIdle
    <2> DEFINE q == NextInList(port_op.cur)
    <2>1. /\ port_op.cur \in Pipe /\ Allocated(port_op.cur) /\ ~port.conn_devc_ena
      BY <1>1, <1>5 DEF InvalidateNextActive, InvalidateNextIdle, PortPart, CursorListed,
                        NoDeviceToInvalidate, Invalidating
    <2>2. q \in Pipe \union {NoPipe}
      BY <1>1, <2>1, NextListed
    <2>3. CASE InvalidateNextActive
      BY <1>2, <2>1, <2>2, <2>3, InvalidateTurns DEF InvalidateNextActive
    <2>4. CASE InvalidateNextIdle /\ q # NoPipe
      <3>1. pipes' = [pipes EXCEPT ![q] = InvalidatedIdle(pipes[q])] /\ UNCHANGED pipe_notified
        BY <2>4 DEF InvalidateNextIdle
      <3> HIDE DEF q
      <3>2. q \in Pipe
        BY <2>2, <2>4
      <3>3. pipes'[q] = InvalidatedIdle(pipes[q]) /\ \A x \in Pipe : x # q => Kept(x)
        BY <1>1, <1>2, <3>1, <3>2, OthersKept
      <3>4. LossTurn(q)
        BY <1>2, <2>1, <3>1, <3>3 DEF LossTurn
      <3> QED BY <1>2, <3>2, <3>3, <3>4, ListsKept DEF PipeTurn
    <2>5. CASE InvalidateNextIdle /\ q = NoPipe
      BY <1>3, <2>5 DEF InvalidateNextIdle
    <2> QED BY <1>5, <2>3, <2>4, <2>5
  <1> QED BY <1>4, <1>5

\* Every step of the driver, of its clients and of the hardware, as each pipe sees it.
LEMMA TurnsTaken == IInv /\ [Next]_vars => \A x \in Pipe : PipeTurn(x)
  <1> SUFFICES ASSUME IInv, [Next]_vars PROVE \A x \in Pipe : PipeTurn(x)
    OBVIOUS
  <1>1. ASSUME UNCHANGED pipeVars PROVE \A x \in Pipe : PipeTurn(x)
    BY <1>1, ListsKept DEF pipeVars, PipeTurn, Kept, SameWait
  <1>2. CASE PipeNext
    <2> PICK p \in Pipe : PipeStep(p)
      BY <1>2 DEF PipeNext
    <2> QED BY AllocTurn, IrpTurn, CommandTurns, ChanTurn DEF PipeStep
  <1>3. CASE PortInterrupt \/ PowerOn \/ PowerOff \/ Recover \/ Resume \/ HandleDebounced
    <2>1. UNCHANGED pipeVars
      BY <1>3 DEF PortInterrupt, IntrConn, IntrDisconn, IntrEnabled, IntrDisabled, IntrOvercurrent,
                  PowerOn, PowerOff, Recover, Resume, HandleDebounced
    <2> QED BY <1>1, <2>1
  <1>4. CASE Reset \/ Suspend \/ Disable
    BY <1>4, PauseTurns
  <1>5. CASE PortOpStep
    <2>1. CASE ResetRelease \/ ResetEnd \/ SuspendWake \/ ResumeRelease \/ DisableWake \/ Debounced
      <3>1. UNCHANGED pipeVars
        BY <2>1 DEF ResetRelease, ResetEnd, SuspendWake, ResumeRelease, DisableWake, Debounced
      <3> QED BY <1>1, <3>1
    <2>2. CASE ResumeEnd
      BY <2>2, ResumeTurns
    <2>3. CASE DisableEnd \/ InvalidateNextActive \/ InvalidateNextIdle
      BY <2>3, LossTurns
    <2> QED BY <1>5, <2>1, <2>2, <2>3 DEF PortOpStep
  <1>6. CASE HandleDeviceLost
    BY <1>6, LossTurns
  <1>7. CASE UNCHANGED vars
    BY <1>1, <1>7 DEF vars
  <1> QED BY <1>2, <1>3, <1>4, <1>5, <1>6, <1>7 DEF Next, UnpausedNext, PauseCommand, HandleEvent

-----------------------------------------------------------------------------
(* The operators, as far as work is concerned *)

\* A pipe executes whatever it has.
Works(p) == p.pending # << >> \/ p.to_exec > 0 => p.executing

\* _buffer_fill changes none of the flags.
LEMMA FillFlags ==
    ASSUME NEW p \in Pipe_t
    PROVE  SameFlags(p, FillIfCan(p)) /\ FillIfCan(p).chan_busy = p.chan_busy
BY DEF Pipe_t, FillIfCan, BufferFill, SameFlags

\* _buffer_fill, when no more than one IRP waits for its buffer.
LEMMA FillAhead ==
    ASSUME NEW p \in Pipe_t, Counted(p),
           Ahead(p) \/ Len(p.pending) = 1
    PROVE  LET f == FillIfCan(p) IN
           /\ f \in Pipe_t /\ Counted(f) /\ f.to_parse = p.to_parse
           /\ f.executing = p.executing
           /\ f.pending # << >> => f.to_fill = 0
           /\ f.to_exec >= p.to_exec
  <1> DEFINE f == FillIfCan(p)
  <1>1. /\ p.pending \in Seq(Irp)
        /\ p.to_fill \in Nat /\ p.to_exec \in Nat /\ p.to_parse \in Nat
    BY NumBuffersAssumption DEF Pipe_t
  <1>2. CASE ~CanFill(p)
    <2>1. f = p
      BY <1>2 DEF FillIfCan
    <2> QED BY <1>1, <1>2, <2>1 DEF CanFill
  <1>3. CASE CanFill(p)
    <2>1. f = BufferFill(p)
      BY <1>3 DEF FillIfCan
    <2>2. f \in Pipe_t /\ FillStep(p, f)
      BY <1>3, <2>1, FillFields
    <2> SUFFICES /\ f \in Pipe_t /\ Counted(f) /\ f.to_parse = p.to_parse
                 /\ f.executing = p.executing
                 /\ f.pending # << >> => f.to_fill = 0
                 /\ f.to_exec >= p.to_exec
      OBVIOUS
    <2> HIDE DEF f
    <2>3. /\ f.to_fill = p.to_fill - 1 /\ f.to_exec = p.to_exec + 1 /\ f.to_parse = p.to_parse
          /\ f.executing = p.executing /\ f.pending = Tail(p.pending)
      BY <2>2 DEF FillStep
    <2>4. p.pending # << >> /\ p.to_fill > 0
      BY <1>3 DEF CanFill
    <2>7. Counted(f) /\ f.to_exec >= p.to_exec
      BY <1>1, <2>3 DEF Counted
    <2>5. CASE Len(p.pending) = 1
      <3>1. Tail(p.pending) = << >>
        <4>1. Tail(p.pending) \in Seq(Irp) /\ Len(Tail(p.pending)) = 0
          BY <1>1, <2>4, <2>5
        <4> QED BY <4>1, EmptySeq
      <3> QED BY <1>1, <2>2, <2>3, <2>7, <3>1
    <2>6. CASE Ahead(p)
      <3>1. p.to_fill = 1
        BY <1>1, <2>4, <2>6 DEF Ahead
      <3> QED BY <1>1, <2>2, <2>3, <2>7, <3>1
    <2> QED BY <2>5, <2>6, <2>2
  <1> QED BY <1>2, <1>3

\* After the pair of ifs that ends an enqueue, a clear and an unpause, the pipe
\* executes whatever it has.
LEMMA FillAndExecWorks ==
    ASSUME NEW p \in Pipe_t, Counted(p), p.to_parse = 0,
           Ahead(p) \/ Len(p.pending) = 1
    PROVE  LET q == FillAndExec(p) IN
           Ahead(q) /\ Works(q) /\ SameFlags(p, q)
  <1> DEFINE f == FillIfCan(p)
             q == FillAndExec(p)
  <1>1. /\ f \in Pipe_t /\ Counted(f) /\ f.to_parse = 0
        /\ f.pending # << >> => f.to_fill = 0
        /\ SameFlags(p, f)
    BY FillAhead, FillFlags
  <1>2. q = IF CanExec(f) THEN BufferExec(f) ELSE f
    BY DEF FillAndExec
  <1> SUFFICES Ahead(q) /\ Works(q) /\ SameFlags(p, q)
    OBVIOUS
  <1> HIDE DEF f, q
  <1>3. /\ f.to_fill \in Nat /\ f.to_exec \in Nat
        /\ f.to_fill + f.to_exec = NumBuffers
    BY <1>1, NumBuffersAssumption DEF Pipe_t, Counted
  <1>4. f.pending # << >> => f.to_exec > 0
    BY <1>1, <1>3, NumBuffersAssumption
  <1>5. CASE ~CanExec(f)
    <2>1. q = f
      BY <1>2, <1>5
    <2>2. Ahead(f)
      BY <1>1 DEF Ahead
    <2>3. Works(f)
      BY <1>3, <1>4, <1>5 DEF CanExec, Works
    <2> QED BY <1>1, <2>1, <2>2, <2>3
  <1>6. CASE CanExec(f)
    <2>1. /\ q.executing /\ q.pending = f.pending /\ q.to_fill = f.to_fill
          /\ SameFlags(f, q)
      BY <1>1, <1>2, <1>6 DEF Pipe_t, BufferExec, SameFlags
    <2>2. Ahead(q)
      BY <1>1, <2>1 DEF Ahead
    <2>3. Works(q)
      BY <2>1 DEF Works
    <2>4. SameFlags(p, q)
      BY <1>1, <2>1 DEF SameFlags
    <2> QED BY <2>2, <2>3, <2>4
  <1> QED BY <1>5, <1>6

\* The interrupt of a completed transfer: it goes on with the next buffer unless
\* someone waits for the pipe to stop.
LEMMA CompletedWorks ==
    ASSUME NEW p, Sound(p), p.executing, Ahead(p)
    PROVE  LET q == Completed(p) IN
           /\ SameFlags(p, q) /\ Ahead(q)
           /\ q.waiting_xfer_done => ~q.executing /\ ~q.chan_busy
           /\ ~q.waiting_xfer_done => (q.executing <=> q.chan_busy)
           /\ ~q.waiting_xfer_done /\ NumBuffers > 1 => Works(q)
  <1>1. PICK e : /\ SameQueues(MarkDone(p, "COMPLETED"), e)
                 /\ SameFlags(p, e) /\ (e.chan_busy <=> e.executing)
                 /\ e.executing <=> ~p.waiting_xfer_done /\ p.to_exec > 1
                 /\ LET r == BufferParse(e) IN
                    Completed(p) = IF r.waiting_xfer_done THEN r ELSE FillIfCan(r)
    BY CompletedParses
  <1> DEFINE r == BufferParse(e)
             q == Completed(p)
             m == MarkDone(p, "COMPLETED")
  <1>2. /\ p.to_fill \in Nat /\ p.to_exec \in Nat /\ p.to_exec > 0 /\ p.to_parse = 0
        /\ p.to_fill + p.to_exec = NumBuffers
    BY NumBuffersAssumption DEF Sound, Pipe_t, RingOK, RingWindows, Counted
  <1>3. Sound(r)
    BY <1>1, ParsedSound DEF Status
  <1>4. /\ e.to_fill = p.to_fill /\ e.to_exec = p.to_exec - 1 /\ e.pending = p.pending
        /\ e \in Pipe_t
    <2>1. m \in Pipe_t /\ DoneStep(p, m)
      BY MarkDoneFields DEF Status
    <2> HIDE DEF m
    <2> QED BY <1>1, <2>1 DEF SameQueues, SameRing, DoneStep, m
  <1>5. /\ r.to_fill = p.to_fill + 1 /\ r.to_exec = p.to_exec - 1 /\ r.pending = p.pending
        /\ r.executing = e.executing /\ r.chan_busy = e.executing
        /\ SameFlags(p, r)
    BY <1>1, <1>4 DEF BufferParse, Pipe_t, SameFlags
  <1>6. /\ q = IF r.waiting_xfer_done THEN r ELSE FillIfCan(r)
        /\ r.executing <=> ~r.waiting_xfer_done /\ p.to_exec > 1
        /\ e.executing \in BOOLEAN
    BY <1>1, <1>4, <1>5 DEF SameFlags, Pipe_t
  <1> SUFFICES /\ SameFlags(p, q) /\ Ahead(q)
               /\ q.waiting_xfer_done => ~q.executing /\ ~q.chan_busy
               /\ ~q.waiting_xfer_done => (q.executing <=> q.chan_busy)
               /\ ~q.waiting_xfer_done /\ NumBuffers > 1 => Works(q)
    OBVIOUS
  <1> HIDE DEF r, q
  <1>7. p.pending # << >> => p.to_fill = 0
    BY DEF Ahead
  <1>8. CASE r.waiting_xfer_done
    <2>1. q = r /\ ~r.executing /\ ~r.chan_busy
      BY <1>5, <1>6, <1>8
    <2>2. Ahead(r)
      BY <1>2, <1>5, <1>7, <2>1 DEF Ahead
    <2> QED BY <1>5, <1>8, <2>1, <2>2
  <1>9. CASE ~r.waiting_xfer_done
    <2>1. q = FillIfCan(r)
      BY <1>6, <1>9
    <2>2. r \in Pipe_t /\ Counted(r)
      BY <1>3 DEF Sound, RingOK, RingWindows
    <2>3. SameFlags(r, q) /\ q.chan_busy = r.chan_busy
      BY <2>1, <2>2, FillFlags
    <2>4. q.executing = r.executing
      BY <2>1, <2>2 DEF FillIfCan, BufferFill, Pipe_t
    <2>5. ~q.waiting_xfer_done /\ (q.executing <=> q.chan_busy) /\ SameFlags(p, q)
      BY <1>5, <1>9, <2>3, <2>4 DEF SameFlags
    <2>6. Ahead(q) /\ (NumBuffers > 1 => Works(q))
      <3>1. CASE r.pending = << >>
        <4>1. q = r
          BY <2>1, <3>1 DEF FillIfCan, CanFill
        <4> QED BY <1>2, <1>5, <1>6, <1>9, <3>1, <4>1 DEF Ahead, Works
      <3>2. CASE r.pending # << >>
        <4>1. r.to_fill = 1 /\ p.to_exec = NumBuffers
          BY <1>2, <1>5, <1>7, <3>2
        <4>2. q = BufferFill(r) /\ CanFill(r)
          BY <2>1, <3>2, <4>1 DEF FillIfCan, CanFill
        <4>3. FillStep(r, q)
          BY <2>2, <4>2, FillFields
        <4>4. q.to_fill = 0
          BY <4>1, <4>3 DEF FillStep
        <4> QED BY <1>5, <1>6, <1>9, <2>4, <4>1, <4>4 DEF Ahead, Works
      <3> QED BY <3>1, <3>2
    <2> QED BY <2>5, <2>6
  <1> QED BY <1>8, <1>9

\* The interrupt of a failed one halts the pipe.
LEMMA FailedWorks ==
    ASSUME NEW p, Sound(p), p.executing, Ahead(p), NEW error \in ChanError
    PROVE  LET q == Failed(p, error) IN
           /\ q.state = "HALTED" /\ q.paused = p.paused
           /\ q.pipe_cmd_processing = p.pipe_cmd_processing
           /\ q.waiting_xfer_done = p.waiting_xfer_done
           /\ ~q.executing /\ ~q.chan_busy
           /\ Ahead(q)
  <1>1. PICK h, res :
            /\ res \in {"ERROR", "STALL", "OVERFLOW"} \union Fatal
            /\ Sound(h) /\ SameIrps(p, h) /\ h.executing
            /\ SameRing(p, h) /\ h.state = "HALTED" /\ ~h.chan_busy
            /\ SameFlags([p EXCEPT !.state = "HALTED"], h)
            /\ SameQueues(MarkDone(h, res), MarkDone(h, res))
            /\ Failed(p, error) = BufferParse(MarkDone(h, res))
    BY FailedParses, Zenon
  <1> DEFINE m == MarkDone(h, res)
             q == Failed(p, error)
  <1>2. p \in Pipe_t /\ p.to_fill \in Nat /\ h \in Pipe_t /\ res \in Status
    BY <1>1, NumBuffersAssumption DEF Sound, Pipe_t, Status, Fatal
  <1>3. /\ h.paused = p.paused /\ h.pipe_cmd_processing = p.pipe_cmd_processing
        /\ h.waiting_xfer_done = p.waiting_xfer_done
    BY <1>1, <1>2 DEF SameFlags, Pipe_t
  <1>4. m \in Pipe_t /\ DoneStep(h, m)
    BY <1>1, <1>2, MarkDoneFields
  <1>5. m.chan_busy = h.chan_busy /\ SameFlags(h, m)
    BY <1>2 DEF MarkDone, Pipe_t, SameFlags
  <1> HIDE DEF m
  <1>6. ~m.executing /\ m.to_fill = p.to_fill /\ m.pending = p.pending
    BY <1>1, <1>4 DEF DoneStep, SameRing
  <1>7. /\ q.executing = m.executing /\ q.to_fill = m.to_fill + 1 /\ q.pending = m.pending
        /\ q.chan_busy = m.chan_busy /\ SameFlags(m, q)
    BY <1>1, <1>4 DEF BufferParse, Pipe_t, SameFlags, m
  <1> HIDE DEF q
  <1>8. Ahead(q)
    BY <1>2, <1>6, <1>7 DEF Ahead
  <1> QED BY <1>1, <1>3, <1>5, <1>6, <1>7, <1>8 DEF SameFlags, q

-----------------------------------------------------------------------------
(* Where the turns of a pipe leave its waiting IRPs and its flags *)

\* A new pipe has nothing to do.
LEMMA NewWorks ==
    ASSUME NEW b \in BOOLEAN
    PROVE  LET q == NewPipe(b) IN
           /\ Ahead(q) /\ Works(q) /\ ~q.executing /\ ~q.chan_busy
           /\ ~q.pipe_cmd_processing /\ ~q.waiting_xfer_done
           /\ q.state = "ACTIVE"
BY DEF NewPipe, Ahead, Works

\* An IRP is taken.
LEMMA EnqueuedWorks ==
    ASSUME NEW p, Sound(p), Ahead(p), NEW irp \in Irp
    PROVE  LET q == Enqueued(p, irp) IN SameFlags(p, q) /\ Ahead(q) /\ Works(q)
  <1> DEFINE e == [p EXCEPT !.irp_state[irp] = "PENDING",
                            !.pending = Append(@, irp),
                            !.is_active = TRUE]
             q == Enqueued(p, irp)
  <1>1. /\ p \in Pipe_t /\ p.pending \in Seq(Irp) /\ p.to_parse = 0 /\ Counted(p)
        /\ Append(p.pending, irp) \in Seq(Irp)
    BY DEF Sound, Pipe_t, RingOK, RingWindows
  <1>2. /\ e.pending = Append(p.pending, irp)
        /\ e.to_fill = p.to_fill /\ e.to_exec = p.to_exec /\ e.to_parse = p.to_parse
        /\ e.executing = p.executing /\ SameFlags(p, e)
    BY <1>1 DEF Pipe_t, SameFlags
  <1>3. e \in Pipe_t
    BY <1>1 DEF Pipe_t, IrpState
  <1>4. q = FillAndExec(e)
    BY DEF Enqueued
  <1> SUFFICES SameFlags(p, q) /\ Ahead(q) /\ Works(q)
    OBVIOUS
  <1> HIDE DEF e, q
  <1>5. Counted(e) /\ e.to_parse = 0
    BY <1>1, <1>2 DEF Counted
  <1>6. Ahead(e) \/ Len(e.pending) = 1
    <2>1. CASE p.pending = << >>
      <3>1. Len(Append(p.pending, irp)) = 1
        BY <1>1, <2>1
      <3> QED BY <1>2, <3>1
    <2>2. CASE p.pending # << >>
      BY <1>2, <2>2 DEF Ahead
    <2> QED BY <2>1, <2>2
  <1>7. Ahead(q) /\ Works(q) /\ SameFlags(e, q)
    BY <1>3, <1>4, <1>5, <1>6, FillAndExecWorks
  <1> QED BY <1>2, <1>7 DEF SameFlags

\* An IRP is given back, or the event read: nothing that waits is touched.
LEMMA DequeuedWaits ==
    ASSUME NEW p \in Pipe_t
    PROVE  LET q == Dequeued(p) IN
           /\ SameFlags(p, q) /\ q.pending = p.pending
           /\ q.to_fill = p.to_fill /\ q.to_exec = p.to_exec
           /\ q.executing = p.executing /\ q.chan_busy = p.chan_busy
BY DEF Dequeued, Pipe_t, SameFlags

\* A waiting IRP is taken back.
LEMMA AbortedWaits ==
    ASSUME NEW p \in Pipe_t, NEW irp \in Irp
    PROVE  LET q == Aborted(p, irp) IN
           /\ SameFlags(p, q) /\ q.pending = Without(p.pending, irp)
           /\ q.to_fill = p.to_fill /\ q.to_exec = p.to_exec
           /\ q.executing = p.executing /\ q.chan_busy = p.chan_busy
BY DEF Aborted, Pipe_t, SameFlags

\* A flush, and the return of what waits.
LEMMA FlushFlags ==
    ASSUME NEW p \in Pipe_t, RingOK(p), IrpsOK(p), NEW cancelled \in BOOLEAN,
           cancelled \/ p.state = "INVALID"
    PROVE  LET q == Retire(BufferFlushAll(p, cancelled), cancelled) IN
           SameFlags(p, q) /\ Flushed(q) /\ q.chan_busy = p.chan_busy
  <1> DEFINE f == BufferFlushAll(p, cancelled)
             q == Retire(f, cancelled)
  <1>1. f \in Pipe_t
    BY FlushFields
  <1>2. SameFlags(p, f)
    BY DEF Pipe_t, BufferFlushAll, SameFlags
  <1>3. SameFlags(f, q)
    <2> HIDE DEF f
    <2> QED BY <1>1 DEF Pipe_t, Retire, SameFlags
  <1>4. Flushed(q) /\ q.chan_busy = p.chan_busy
    BY FlushRetire
  <1> SUFFICES SameFlags(p, q) /\ Flushed(q) /\ q.chan_busy = p.chan_busy
    OBVIOUS
  <1> HIDE DEF f, q
  <1> QED BY <1>2, <1>3, <1>4 DEF SameFlags

\* Two pipes that differ in flags only.
SameWork(p, q) ==
    /\ q.pending = p.pending /\ q.to_fill = p.to_fill /\ q.to_exec = p.to_exec
    /\ q.executing = p.executing

\* One is ahead, or works, if the other does.
LEMMA SameWorkAhead ==
    ASSUME NEW p, NEW q, SameWork(p, q)
    PROVE  /\ Ahead(p) => Ahead(q)
           /\ Works(p) => Works(q)
BY DEF SameWork, Ahead, Works

\* A pipe that was flushed has nothing to do.
LEMMA FlushedIdles == ASSUME NEW p, Flushed(p) PROVE Ahead(p) /\ Works(p)
BY DEF Flushed, Ahead, Works

\* A command, once nothing that it waits for is in flight.
LEMMA CommandedWorks ==
    ASSUME NEW p, Sound(p), Ahead(p), NEW cmd \in PipeCmd
    PROVE  LET q == Commanded(p, cmd) IN
           /\ Ahead(q)
           /\ q.paused = p.paused /\ q.pipe_cmd_processing = p.pipe_cmd_processing
           /\ q.waiting_xfer_done = p.waiting_xfer_done
           /\ q.state = "ACTIVE" => Works(q) \/ (cmd = "CLEAR" /\ q = p)
  <1> DEFINE q == Commanded(p, cmd)
             f == FlushAndRetire(p)
  <1>1. /\ p \in Pipe_t /\ Counted(p) /\ p.to_parse = 0
    BY DEF Sound, RingOK, RingWindows
  <1>2. SameFlags(p, f) /\ Flushed(f)
    BY FlushFlags DEF FlushAndRetire, Sound
  <1>3. f \in Pipe_t
    <2>1. Sound(f)
      BY FlushRetire DEF FlushAndRetire, Sound
    <2> QED BY <2>1 DEF Sound
  <1>4. /\ cmd = "ABORT" => q = f
        /\ cmd = "RESET" => q = [f EXCEPT !.state = "ACTIVE"]
        /\ cmd = "HALT" => q = [p EXCEPT !.state = "HALTED"]
        /\ cmd = "CLEAR" => q = IF p.state = "HALTED"
                               THEN FillAndExec([p EXCEPT !.state = "ACTIVE"])
                               ELSE p
    BY DEF Commanded
  <1> SUFFICES /\ Ahead(q)
               /\ q.paused = p.paused /\ q.pipe_cmd_processing = p.pipe_cmd_processing
               /\ q.waiting_xfer_done = p.waiting_xfer_done
               /\ q.state = "ACTIVE" => Works(q) \/ (cmd = "CLEAR" /\ q = p)
    OBVIOUS
  <1> HIDE DEF f, q
  <1>5. CASE cmd = "ABORT"
    BY <1>2, <1>4, <1>5, FlushedIdles DEF SameFlags
  <1>6. CASE cmd = "RESET"
    <2>1. /\ SameWork(f, q) /\ q.paused = f.paused /\ q.pipe_cmd_processing = f.pipe_cmd_processing
          /\ q.waiting_xfer_done = f.waiting_xfer_done
      BY <1>3, <1>4, <1>6 DEF SameWork, Pipe_t
    <2> QED BY <1>2, <2>1, FlushedIdles, SameWorkAhead DEF SameFlags
  <1>7. CASE cmd = "HALT"
    <2>1. /\ SameWork(p, q) /\ q.paused = p.paused /\ q.pipe_cmd_processing = p.pipe_cmd_processing
          /\ q.waiting_xfer_done = p.waiting_xfer_done /\ q.state = "HALTED"
      BY <1>1, <1>4, <1>7 DEF SameWork, Pipe_t
    <2> QED BY <2>1, SameWorkAhead
  <1>8. CASE cmd = "CLEAR" /\ p.state # "HALTED"
    BY <1>4, <1>8
  <1>9. CASE cmd = "CLEAR" /\ p.state = "HALTED"
    <2> DEFINE a == [p EXCEPT !.state = "ACTIVE"]
    <2>1. /\ a \in Pipe_t /\ SameWork(p, a) /\ a.to_parse = p.to_parse
          /\ a.paused = p.paused /\ a.pipe_cmd_processing = p.pipe_cmd_processing
          /\ a.waiting_xfer_done = p.waiting_xfer_done
      BY <1>1 DEF Pipe_t, SameWork, PipeState
    <2>2. q = FillAndExec(a)
      BY <1>4, <1>9
    <2> HIDE DEF a
    <2>3. Counted(a) /\ a.to_parse = 0 /\ Ahead(a)
      BY <1>1, <2>1, SameWorkAhead DEF Counted, SameWork
    <2>4. Ahead(q) /\ Works(q) /\ SameFlags(a, q)
      BY <2>1, <2>2, <2>3, FillAndExecWorks
    <2> QED BY <2>1, <2>4 DEF SameFlags
  <1> QED BY <1>5, <1>6, <1>7, <1>8, <1>9 DEF PipeCmd

\* A command that returns.
LEMMA ResumedWorks ==
    ASSUME NEW p, Sound(p), Ahead(p), NEW cmd \in WaitingCmd, cmd # "NONE",
           p.state = "INVALID" \/ ~p.chan_busy
    PROVE  LET q == Resumed(p, cmd) IN
           Ahead(q) /\ (q.state = "ACTIVE" => Works(q))
  <1> DEFINE q == Resumed(p, cmd)
             c == Commanded(p, cmd)
  <1>1. p \in Pipe_t
    BY DEF Sound
  <1>2. CASE p.state # "INVALID"
    <2>1. q = [c EXCEPT !.pipe_cmd_processing = FALSE]
      BY <1>2 DEF Resumed
    <2>2. Ahead(c) /\ (c.state = "ACTIVE" => Works(c))
      <3>1. cmd \in PipeCmd /\ cmd # "CLEAR"
        BY DEF WaitingCmd, PipeCmd
      <3> QED BY <3>1, CommandedWorks
    <2>3. c \in Pipe_t
      <3>1. Sound(c)
        BY <1>2, CommandedFollows DEF Follows, WaitingCmd, PipeCmd
      <3> QED BY <3>1 DEF Sound
    <2> SUFFICES Ahead(q) /\ (q.state = "ACTIVE" => Works(q))
      OBVIOUS
    <2> HIDE DEF c, q
    <2>4. SameWork(c, q) /\ q.state = c.state
      BY <2>1, <2>3 DEF SameWork, Pipe_t
    <2> QED BY <2>2, <2>4, SameWorkAhead
  <1>3. CASE p.state = "INVALID"
    <2>1. Sound(q) /\ q.state = "INVALID"
      BY <1>3, ResumedFollows DEF Follows, SameIrps
    <2> QED BY <2>1, FlushedIdles DEF Sound
  <1> QED BY <1>2, <1>3

\* A pipe that is invalidated, from either list.
LEMMA InvalidatedWorks ==
    ASSUME NEW p, Sound(p), Ahead(p), NEW q \in {Invalidated(p), InvalidatedIdle(p)}
    PROVE  /\ Ahead(q) /\ q.state = "INVALID"
           /\ q.pipe_cmd_processing = p.pipe_cmd_processing
  <1> DEFINE i == InvalidatedIdle(p)
  <1>1. p \in Pipe_t
    BY DEF Sound
  <1>2. /\ i \in Pipe_t /\ SameWork(p, i) /\ SameRing(p, i) /\ i.state = "INVALID"
        /\ i.pipe_cmd_processing = p.pipe_cmd_processing
    BY <1>1 DEF InvalidatedIdle, Pipe_t, SameWork, SameRing, PipeState, PipeEvent
  <1>3. Invalidated(p) = Retire(BufferFlushAll(i, FALSE), FALSE)
    BY DEF Invalidated, InvalidatedIdle
  <1>4. q = i \/ q = Retire(BufferFlushAll(i, FALSE), FALSE)
    BY <1>3
  <1> HIDE DEF i
  <1>5. CASE q = i
    BY <1>2, <1>5, SameWorkAhead
  <1>6. CASE q = Retire(BufferFlushAll(i, FALSE), FALSE)
    <2>1. RingOK(i)
      BY <1>2 DEF SameRing, Sound, RingOK, RingWindows, Counted, Indexed, Occupied, Reported, Filled,
                  SameWork
    <2>2. IrpsOK(i)
      BY <1>2 DEF SameRing, Sound, IrpsOK, PendingOK, InFlightOK, DoneOK
    <2>3. SameFlags(i, q) /\ Flushed(q)
      BY <1>2, <1>6, <2>1, <2>2, FlushFlags
    <2> QED BY <1>2, <2>3, FlushedIdles DEF SameFlags
  <1> QED BY <1>4, <1>5, <1>6

-----------------------------------------------------------------------------
(* What the turns keep *)

\* The pipe of a task that is woken has stopped.
Stopped(p) ==
    pipe_notified[p] /\ pipes[p].state # "INVALID" => ~pipes[p].chan_busy /\ ~pipes[p].executing

\* Only the end of a resume starts a channel under a task that was woken.
GoodTurn(p) ==
    /\ Ahead(pipes'[p]) /\ CommandWaits(p)'
    /\ NumBuffers > 1 /\ Diligent(pipes[p]) => Diligent(pipes'[p])
    /\ Stopped(p) /\ port_op.at # "resume_recovery" => Stopped(p)'

\* What the turns start from.
LEMMA PipeNow ==
    ASSUME IInv, WaitInv, NEW p \in Pipe
    PROVE  /\ Sound(pipes[p]) /\ pipes[p] \in Pipe_t
           /\ Ahead(pipes[p]) /\ CommandWaits(p)
           /\ pipe_cmd[p] \in WaitingCmd /\ pipe_notified[p] \in BOOLEAN
           /\ pipes[p].state = "INVALID" => ~pipes[p].executing
  <1>1. Sound(pipes[p])
    BY IInvParts, PipesSound
  <1>2. pipe_cmd[p] \in WaitingCmd /\ pipe_notified[p] \in BOOLEAN
    BY DEF IInv, TypeOK
  <1> QED BY <1>1, <1>2 DEF WaitInv, Sound, Flushed

\* Allocated or freed.
LEMMA ReopenedKeeps ==
    ASSUME IInv, WaitInv, NEW p \in Pipe, Reopened(p)
    PROVE  GoodTurn(p)
  <1>1. pipes'[p] = NewPipe(p \in CtrlPipe) /\ pipe_cmd'[p] = "NONE" /\ ~pipe_notified'[p]
    BY PipeNow DEF Reopened, SameWait, CommandWaits
  <1>2. Ahead(pipes'[p]) /\ Works(pipes'[p])
    <2>1. (p \in CtrlPipe) \in BOOLEAN
      OBVIOUS
    <2> QED BY <1>1, <2>1, NewWorks
  <1> QED BY <1>1, <1>2 DEF GoodTurn, CommandWaits, Diligent, Works, Stopped

\* A task goes on waiting.
LEMMA StillWaits ==
    ASSUME IInv, WaitInv, NEW p \in Pipe, StaysAllocated(p), pipe_cmd'[p] = pipe_cmd[p],
           pipe_notified'[p] => pipe_notified[p] \/ pipe_cmd[p] # "NONE",
           pipes[p].pipe_cmd_processing => pipes'[p].pipe_cmd_processing
    PROVE  CommandWaits(p)'
BY PipeNow DEF CommandWaits, StaysAllocated, Allocated

\* A turn that leaves alone all that work depends on.
LEMMA IdleTurn ==
    ASSUME IInv, WaitInv, NEW p \in Pipe, StaysAllocated(p), SameWait(p),
           SameFlags(pipes[p], pipes'[p]),
           pipes'[p].pending # << >> => pipes[p].pending # << >>,
           pipes'[p].to_fill = pipes[p].to_fill, pipes'[p].to_exec = pipes[p].to_exec,
           pipes'[p].executing = pipes[p].executing,
           pipes'[p].chan_busy => pipes[p].chan_busy \/ pipes[p].executing
    PROVE  GoodTurn(p)
  <1>1. CommandWaits(p)'
    BY StillWaits DEF SameWait, SameFlags
  <1>2. Ahead(pipes'[p])
    BY PipeNow DEF Ahead
  <1>3. Diligent(pipes[p]) => Diligent(pipes'[p])
    BY DEF Diligent, SameFlags
  <1>4. Stopped(p) => Stopped(p)'
    BY DEF Stopped, SameWait, SameFlags
  <1> QED BY <1>1, <1>2, <1>3, <1>4 DEF GoodTurn

\* A step of the client, or one that does not reach the pipe.
LEMMA ClientKeeps ==
    ASSUME IInv, WaitInv, NEW p \in Pipe, StaysAllocated(p), Kept(p) \/ ClientTurn(p)
    PROVE  GoodTurn(p)
  <1> DEFINE q == pipes'[p]
  <1>1. SameWait(p)
    BY DEF Kept, ClientTurn
  <1>2. /\ Sound(pipes[p]) /\ pipes[p] \in Pipe_t /\ Ahead(pipes[p]) /\ CommandWaits(p)
        /\ pipe_notified[p] \in BOOLEAN
    BY PipeNow
  <1>3. CASE Kept(p)
    BY <1>1, <1>3, IdleTurn DEF Kept, SameFlags
  <1>4. ASSUME ~pipes[p].pipe_cmd_processing, NEW irp \in Irp, q = Enqueued(pipes[p], irp)
        PROVE  GoodTurn(p)
    <2>1. SameFlags(pipes[p], q) /\ Ahead(q) /\ Works(q)
      BY <1>2, <1>4, EnqueuedWorks
    <2>2. CommandWaits(p)'
      BY <1>1, <2>1, StillWaits DEF SameWait, SameFlags
    <2>3. ~pipe_notified'[p]
      BY <1>1, <1>2, <1>4 DEF SameWait, CommandWaits
    <2> QED BY <2>1, <2>2, <2>3 DEF GoodTurn, Diligent, Works, Stopped
  <1>5. CASE q = Dequeued(pipes[p])
    BY <1>1, <1>2, <1>5, DequeuedWaits, IdleTurn
  <1>6. ASSUME NEW irp \in Irp, pipes[p].irp_state[irp] = "PENDING", q = Aborted(pipes[p], irp)
        PROVE  GoodTurn(p)
    <2>1. PICK k \in 1 .. Len(pipes[p].pending) : pipes[p].pending[k] = irp
      BY <1>2, <1>6 DEF Sound, IrpsOK, PendingOK
    <2>2. pipes[p].pending # << >>
      BY <2>1
    <2> QED BY <1>1, <1>2, <1>6, <2>2, AbortedWaits, IdleTurn
  <1>7. CASE q = [pipes[p] EXCEPT !.last_event = "NONE"]
    <2>1. SameWork(pipes[p], q) /\ SameFlags(pipes[p], q) /\ q.chan_busy = pipes[p].chan_busy
      BY <1>2, <1>7 DEF Pipe_t, SameWork, SameFlags
    <2> QED BY <1>1, <2>1, IdleTurn DEF SameWork
  <1> QED BY <1>3, <1>4, <1>5, <1>6, <1>7 DEF ClientTurn

\* A command, and its return.
LEMMA CommandKeeps ==
    ASSUME IInv, WaitInv, NEW p \in Pipe, StaysAllocated(p),
           WaitTurn(p) \/ CommandTurn(p) \/ ReturnTurn(p)
    PROVE  GoodTurn(p)
  <1> DEFINE q == pipes'[p]
  <1>1. /\ Sound(pipes[p]) /\ pipes[p] \in Pipe_t /\ Ahead(pipes[p]) /\ CommandWaits(p)
        /\ pipe_notified[p] \in BOOLEAN
    BY PipeNow
  <1>2. CASE WaitTurn(p)
    <2>1. SameWork(pipes[p], q) /\ q.pipe_cmd_processing
      BY <1>1, <1>2 DEF WaitTurn, SameWork, Pipe_t
    <2>2. CommandWaits(p)'
      BY <1>2, <2>1 DEF WaitTurn, CommandWaits, StaysAllocated, Allocated
    <2>3. ~pipe_notified'[p]
      BY <1>1, <1>2 DEF WaitTurn, CommandWaits
    <2> QED BY <1>1, <2>1, <2>2, <2>3, SameWorkAhead DEF GoodTurn, Diligent, Stopped
  <1>3. CASE CommandTurn(p)
    <2>1. PICK cmd \in PipeCmd : q = Commanded(pipes[p], cmd)
      BY <1>3 DEF CommandTurn
    <2>2. /\ Ahead(q)
          /\ q.paused = pipes[p].paused
          /\ q.pipe_cmd_processing = pipes[p].pipe_cmd_processing
          /\ q.state = "ACTIVE" => Works(q) \/ q = pipes[p]
      BY <1>1, <2>1, CommandedWorks
    <2>3. SameWait(p) /\ ~pipe_notified'[p]
      BY <1>1, <1>3 DEF CommandTurn, CommandWaits, SameWait
    <2>4. CommandWaits(p)'
      BY <2>2, <2>3, StillWaits DEF SameWait
    <2> QED BY <2>2, <2>3, <2>4 DEF GoodTurn, Diligent, Works, Stopped
  <1>4. CASE ReturnTurn(p)
    <2>1. Ahead(q) /\ (q.state = "ACTIVE" => Works(q))
      BY <1>1, <1>4, ResumedWorks DEF ReturnTurn
    <2>2. pipe_cmd'[p] = "NONE" /\ ~pipe_notified'[p]
      BY <1>4 DEF ReturnTurn
    <2> QED BY <2>1, <2>2 DEF GoodTurn, CommandWaits, Diligent, Works, Stopped
  <1> QED BY <1>2, <1>3, <1>4

\* What the interrupt makes of the pipe whose transfer has ended, for whoever waits.
LEMMA EndKeeps ==
    ASSUME IInv, WaitInv, NEW p \in Pipe, StaysAllocated(p), pipes[p].executing,
           NEW r \in Pipe_t, EndTurn(p, r), Ahead(r),
           r.pipe_cmd_processing = pipes[p].pipe_cmd_processing,
           r.waiting_xfer_done => ~r.executing /\ ~r.chan_busy,
           NumBuffers > 1 /\ ~r.waiting_xfer_done /\ r.state = "ACTIVE" => Works(r)
    PROVE  GoodTurn(p)
  <1> DEFINE q == pipes'[p]
  <1>1. CommandWaits(p) /\ pipe_notified[p] \in BOOLEAN /\ pipes[p].state # "INVALID"
    BY PipeNow
  <1>2. pipe_cmd'[p] = pipe_cmd[p]
    BY DEF EndTurn
  <1>3. CASE ~r.waiting_xfer_done
    <2>1. q = r /\ pipe_notified'[p] = pipe_notified[p]
      BY <1>3 DEF EndTurn
    <2>2. CommandWaits(p)'
      BY <1>2, <2>1, StillWaits
    <2>3. Stopped(p) => Stopped(p)'
      BY <1>1, <2>1 DEF Stopped
    <2> QED BY <1>3, <2>1, <2>2, <2>3 DEF GoodTurn, Diligent, Works
  <1>4. CASE r.waiting_xfer_done /\ port.waiting_all_pipes_pause
    <2>1. q = PausedNow(r) /\ pipe_notified'[p] = pipe_notified[p]
      BY <1>4 DEF EndTurn
    <2>2. SameWork(r, q) /\ q.paused /\ q.pipe_cmd_processing = r.pipe_cmd_processing
      BY <2>1 DEF PausedNow, SameWork, Pipe_t
    <2>3. CommandWaits(p)'
      BY <1>2, <2>1, <2>2, StillWaits
    <2>4. Stopped(p) => Stopped(p)'
      BY <1>1, <2>1 DEF Stopped
    <2> QED BY <2>2, <2>3, <2>4, SameWorkAhead DEF GoodTurn, Diligent
  <1>5. CASE r.waiting_xfer_done /\ ~port.waiting_all_pipes_pause
    <2>1. q = [r EXCEPT !.waiting_xfer_done = FALSE] /\ pipe_cmd[p] # "NONE"
      BY <1>5 DEF EndTurn
    <2>2. /\ SameWork(r, q) /\ q.chan_busy = r.chan_busy
          /\ q.pipe_cmd_processing = r.pipe_cmd_processing
      BY <2>1 DEF SameWork, Pipe_t
    <2>3. q.pipe_cmd_processing
      BY <1>1, <2>1, <2>2 DEF CommandWaits
    <2>4. CommandWaits(p)'
      BY <1>2, <2>1, <2>2, StillWaits
    <2>5. Stopped(p)'
      BY <1>5, <2>2 DEF Stopped, SameWork
    <2> QED BY <2>2, <2>3, <2>4, <2>5, SameWorkAhead DEF GoodTurn, Diligent
  <1> QED BY <1>3, <1>4, <1>5

\* The channel interrupt.
LEMMA ChannelKeeps ==
    ASSUME IInv, WaitInv, NEW p \in Pipe, StaysAllocated(p), ChannelTurn(p)
    PROVE  GoodTurn(p)
  <1>1. /\ Sound(pipes[p]) /\ pipes[p] \in Pipe_t /\ Ahead(pipes[p]) /\ pipes[p].executing
    BY PipeNow DEF ChannelTurn
  <1>2. CASE pipes'[p] = NextStage(pipes[p]) /\ SameWait(p)
    <2>1. SameWork(pipes[p], pipes'[p]) /\ SameFlags(pipes[p], pipes'[p])
      BY <1>1, <1>2 DEF NextStage, SameWork, SameFlags, Pipe_t
    <2> QED BY <1>1, <1>2, <2>1, IdleTurn DEF SameWork
  <1>3. CASE EndTurn(p, Completed(pipes[p]))
    <2> DEFINE r == Completed(pipes[p])
    <2>1. r \in Pipe_t
      <3>1. Sound(r)
        BY <1>1, CompletedFollows DEF Follows
      <3> QED BY <3>1 DEF Sound
    <2>2. /\ SameFlags(pipes[p], r) /\ Ahead(r)
          /\ r.waiting_xfer_done => ~r.executing /\ ~r.chan_busy
          /\ ~r.waiting_xfer_done /\ NumBuffers > 1 => Works(r)
      BY <1>1, CompletedWorks
    <2>3. EndTurn(p, r)
      BY <1>3
    <2> HIDE DEF r
    <2> QED BY <1>1, <2>1, <2>2, <2>3, EndKeeps DEF SameFlags
  <1>4. ASSUME NEW error \in ChanError, EndTurn(p, Failed(pipes[p], error))
        PROVE  GoodTurn(p)
    <2> DEFINE r == Failed(pipes[p], error)
    <2>1. r \in Pipe_t
      <3>1. Sound(r)
        BY <1>1, FailedFollows DEF Follows
      <3> QED BY <3>1 DEF Sound
    <2>2. /\ r.state = "HALTED" /\ Ahead(r) /\ ~r.executing /\ ~r.chan_busy
          /\ r.pipe_cmd_processing = pipes[p].pipe_cmd_processing
      BY <1>1, FailedWorks
    <2>3. EndTurn(p, r)
      BY <1>4
    <2> HIDE DEF r
    <2> QED BY <1>1, <2>1, <2>2, <2>3, EndKeeps
  <1> QED BY <1>2, <1>3, <1>4 DEF ChannelTurn

\* The channel stops, or the port pauses the pipe.
LEMMA PauseKeeps ==
    ASSUME IInv, WaitInv, NEW p \in Pipe, StaysAllocated(p), StopTurn(p) \/ PauseTurn(p)
    PROVE  GoodTurn(p)
  <1>1. Ahead(pipes[p]) /\ pipes[p] \in Pipe_t /\ SameWait(p)
    BY PipeNow DEF StopTurn, PauseTurn
  <1>2. /\ SameWork(pipes[p], pipes'[p])
        /\ pipes'[p].state = pipes[p].state
        /\ pipes'[p].pipe_cmd_processing = pipes[p].pipe_cmd_processing
        /\ pipes[p].paused => pipes'[p].paused
        /\ pipes'[p].chan_busy => pipes[p].chan_busy
    <2>1. CASE StopTurn(p)
      BY <1>1, <2>1 DEF StopTurn, Pipe_t, SameWork
    <2>2. CASE PauseTurn(p) /\ p \in Transferring
      BY <1>1, <2>2 DEF PauseTurn, Pipe_t, SameWork
    <2>3. CASE PauseTurn(p) /\ p \notin Transferring
      BY <1>1, <2>3 DEF PauseTurn, Pipe_t, SameWork
    <2> QED BY <2>1, <2>2, <2>3
  <1>3. CommandWaits(p)'
    BY <1>1, <1>2, StillWaits DEF SameWait
  <1>4. Ahead(pipes'[p])
    BY <1>1, <1>2, SameWorkAhead
  <1>5. Diligent(pipes[p]) => Diligent(pipes'[p])
    BY <1>2 DEF Diligent, SameWork
  <1>6. Stopped(p) => Stopped(p)'
    BY <1>1, <1>2 DEF Stopped, SameWait, SameWork
  <1> QED BY <1>3, <1>4, <1>5, <1>6 DEF GoodTurn

\* The port resumes.
LEMMA ResumeKeeps ==
    ASSUME IInv, WaitInv, NEW p \in Pipe, StaysAllocated(p), ResumeTurn(p)
    PROVE  GoodTurn(p)
  <1> DEFINE r == [pipes[p] EXCEPT !.paused = @ /\ ~Allocated(p)]
             q == pipes'[p]
  <1>1. /\ Sound(pipes[p]) /\ pipes[p] \in Pipe_t /\ Ahead(pipes[p]) /\ CommandWaits(p)
        /\ SameWait(p) /\ port_op.at = "resume_recovery"
    BY PipeNow DEF ResumeTurn
  <1>2. /\ r \in Pipe_t /\ SameWork(pipes[p], r) /\ r.to_parse = pipes[p].to_parse
        /\ r.pipe_cmd_processing = pipes[p].pipe_cmd_processing
    BY <1>1 DEF Pipe_t, SameWork
  <1>3. q = IF InQueue(active_tailq, p) THEN FillAndExec(r) ELSE r
    BY DEF ResumeTurn
  <1> HIDE DEF r, q
  <1>4. Counted(r) /\ r.to_parse = 0 /\ Ahead(r)
    <2>1. Counted(pipes[p]) /\ pipes[p].to_parse = 0
      BY <1>1 DEF Sound, RingOK, RingWindows
    <2> QED BY <1>1, <1>2, <2>1, SameWorkAhead DEF Counted, SameWork
  <1>5. Ahead(q) /\ Works(q) /\ q.pipe_cmd_processing = pipes[p].pipe_cmd_processing
    <2>1. CASE InQueue(active_tailq, p)
      BY <1>2, <1>3, <1>4, <2>1, FillAndExecWorks DEF SameFlags
    <2>2. CASE ~InQueue(active_tailq, p)
      <3>1. HoldsNothing(pipes[p])
        BY <2>2 DEF IInv, ListsConsistent
      <3>2. q = r /\ Works(r)
        BY <1>2, <1>3, <2>2, <3>1 DEF HoldsNothing, SameWork, Works
      <3> QED BY <1>2, <1>4, <3>2
    <2> QED BY <2>1, <2>2
  <1>6. CommandWaits(p)'
    BY <1>1, <1>5, StillWaits DEF SameWait, q
  <1> QED BY <1>1, <1>5, <1>6 DEF GoodTurn, Diligent, Works, q

\* The device is lost.
LEMMA LossKeeps ==
    ASSUME IInv, WaitInv, NEW p \in Pipe, StaysAllocated(p), LossTurn(p)
    PROVE  GoodTurn(p)
  <1>1. /\ Ahead(pipes'[p]) /\ pipes'[p].state = "INVALID"
        /\ pipes'[p].pipe_cmd_processing = pipes[p].pipe_cmd_processing
    BY PipeNow, InvalidatedWorks DEF LossTurn
  <1>2. CommandWaits(p)'
    BY <1>1, StillWaits DEF LossTurn
  <1> QED BY <1>1, <1>2 DEF GoodTurn, Diligent, Stopped

\* Every step is a good turn for every pipe.
LEMMA GoodTurns == IInv /\ WaitInv /\ [Next]_vars => \A p \in Pipe : GoodTurn(p)
BY TurnsTaken, ReopenedKeeps, ClientKeeps, CommandKeeps, ChannelKeeps, PauseKeeps, ResumeKeeps,
   LossKeeps DEF PipeTurn

-----------------------------------------------------------------------------
(* The theorems of one pipe *)

\* At the start nothing is allocated, and no task waits.
LEMMA InitWaits ==
    Init => WaitInv /\ StoppedWhenWoken /\ \A p \in Pipe : Diligent(pipes[p])
  <1> SUFFICES ASSUME Init, NEW p \in Pipe
               PROVE  CommandWaits(p) /\ Ahead(pipes[p]) /\ Diligent(pipes[p]) /\ ~pipe_notified[p]
    BY DEF WaitInv, StoppedWhenWoken
  <1>1. (p \in CtrlPipe) \in BOOLEAN
    OBVIOUS
  <1>2. pipes[p] = NewPipe(p \in CtrlPipe) /\ pipe_cmd[p] = "NONE" /\ ~pipe_notified[p]
    BY DEF Init
  <1>3. Ahead(pipes[p]) /\ Works(pipes[p])
    BY <1>1, <1>2, NewWorks
  <1> QED BY <1>2, <1>3 DEF CommandWaits, Diligent, Works

\* WaitInv is inductive, on top of IInv.
LEMMA WaitInductive == IInv /\ WaitInv /\ [Next]_vars => WaitInv'
BY GoodTurns DEF WaitInv, GoodTurn

\* StopInv is inductive, on top of IInv, when no command pauses the port.
LEMMA StopInductive == IInv /\ StopInv /\ [UnpausedNext]_vars => StopInv'
  <1> SUFFICES ASSUME IInv, StopInv, [UnpausedNext]_vars PROVE StopInv'
    OBVIOUS
  <1>1. [Next]_vars
    BY DEF Next
  <1>2. WaitInv /\ WaitInv'
    BY <1>1, WaitInductive DEF StopInv
  <1>3. StoppedWhenWoken'
    BY <1>1, <1>2, GoodTurns DEF StopInv, StoppedWhenWoken, GoodTurn, Stopped
  <1>4. port_op'.at \notin {"suspend_wait", "resume_hold", "resume_recovery"}
    <2> DEFINE paused == {"suspend_wait", "resume_hold", "resume_recovery"}
    <2>1. port_op.at \notin paused /\ port_op \in PortOp
      BY DEF StopInv, IInv, TypeOK
    <2>2. CASE UNCHANGED port_op
      BY <2>1, <2>2
    <2>3. ASSUME NEW place \in PortOpAt \ paused, port_op' = At(place)
          PROVE  port_op'.at \notin paused
      BY <2>3 DEF At
    <2>4. ASSUME NEW p, InvalidateActive(p)
          PROVE  port_op'.at \notin paused
      <3>1. \/ port_op' = At("idle")
            \/ \E q : \/ port_op' = [port_op EXCEPT !.at = "invalidate_active", !.cur = q]
                     \/ port_op' = [port_op EXCEPT !.at = "invalidate_idle", !.cur = q]
        BY <2>4 DEF InvalidateActive, Idle
      <3> QED BY <2>1, <2>3, <3>1 DEF PortOp, PortOpAt
    <2>5. CASE PipeNext \/ PortInterrupt \/ PowerOn \/ PowerOff \/ Recover \/ UNCHANGED vars
      BY <2>2, <2>5 DEF PipeNext, PortInterrupt, IntrConn, IntrDisconn, IntrEnabled, IntrDisabled,
                IntrOvercurrent, PowerOn, PowerOff, Recover, vars
    <2>6. CASE Reset \/ HandleDebounced
      BY <2>1, <2>6 DEF Reset, HandleDebounced, At
    <2>7. CASE HandleDeviceLost
      BY <2>4, <2>7 DEF HandleDeviceLost
    <2>8. CASE PortOpStep
      <3>1. CASE ResetRelease \/ ResetEnd \/ SuspendWake \/ ResumeRelease \/ ResumeEnd \/ Debounced
        BY <2>1, <3>1 DEF ResetRelease, ResetEnd, SuspendWake, ResumeRelease, ResumeEnd, Debounced,
                          Idle, At
      <3>2. CASE DisableWake
        BY <3>2 DEF DisableWake, RequestDisable, Idle, At
      <3>3. CASE DisableEnd
        BY <2>4, <3>3 DEF DisableEnd, Idle, At
      <3>4. CASE InvalidateNextActive
        BY <2>4, <3>4 DEF InvalidateNextActive
      <3>5. CASE InvalidateNextIdle
        BY <2>1, <3>5 DEF InvalidateNextIdle, Idle, At, PortOp
      <3> QED BY <2>8, <3>1, <3>2, <3>3, <3>4, <3>5 DEF PortOpStep
    <2> QED BY <2>5, <2>6, <2>7, <2>8 DEF UnpausedNext, HandleEvent
  <1> QED BY <1>2, <1>3, <1>4 DEF StopInv

\* With two buffers at least, a pipe that nobody pauses, halts or commands is
\* never left idle with an IRP in its queue, whatever the interrupt, its clients
\* and the port do and in whatever order.
THEOREM WorkDone == ASSUME NumBuffers > 1 PROVE Spec => []WorkConserving
  <1>1. Init => WorkInv
    BY InitWaits DEF WorkInv
  <1>2. IInv /\ WorkInv /\ [Next]_vars => WorkInv'
    BY GoodTurns, WaitInductive DEF WorkInv, GoodTurn
  <1>3. WorkInv => WorkConserving
    BY DEF WorkInv, WorkConserving, Diligent
  <1> QED BY <1>1, <1>2, <1>3, InvariantHolds, PTL DEF Spec

\* As long as the port is not suspended or disabled by a command, nothing is started
\* under a pipe command between the end of the transfer it waits for and its
\* return, so the assertion of the driver that the channel has stopped holds.
THEOREM WokenStopped == Init /\ [][UnpausedNext]_vars => []StoppedWhenWoken
  <1>1. Init => StopInv /\ IInv
    BY InitWaits, InitIInv DEF StopInv, Init, Idle, At
  <1>2. StopInv => StoppedWhenWoken
    BY DEF StopInv
  <1>3. IInv /\ [UnpausedNext]_vars => IInv'
    BY IInvInductive DEF Next
  <1> QED BY <1>1, <1>2, <1>3, StopInductive, PTL

-----------------------------------------------------------------------------
(* The flags that the port counts: the operators *)

\* A new pipe.
LEMMA NewServed == ASSUME NEW b \in BOOLEAN PROVE FlagServed(NewPipe(b))
BY DEF NewPipe, FlagServed

\* The pair of ifs that ends an enqueue, a clear and an unpause.
LEMMA FillAndExecServed ==
    ASSUME NEW p \in Pipe_t, Counted(p), FlagServed(p)
    PROVE  FlagServed(FillAndExec(p))
  <1> DEFINE f == FillIfCan(p)
             q == FillAndExec(p)
  <1>1. f \in Pipe_t
    BY FillFields DEF FillIfCan
  <1>2. SameFlags(p, f) /\ f.chan_busy = p.chan_busy /\ f.executing = p.executing
    BY FillFlags DEF FillIfCan, BufferFill, Pipe_t
  <1>3. q = IF CanExec(f) THEN BufferExec(f) ELSE f
    BY DEF FillAndExec
  <1> HIDE DEF f, q
  <1>4. q = f \/ (q.executing /\ q.chan_busy /\ SameFlags(f, q))
    BY <1>1, <1>3 DEF Pipe_t, BufferExec, SameFlags
  <1>5. FlagServed(q)
    BY <1>2, <1>4 DEF FlagServed, SameFlags
  <1> QED BY <1>5 DEF q

\* An IRP is taken.
LEMMA EnqueuedServed ==
    ASSUME NEW p, Sound(p), FlagServed(p), NEW irp \in Irp
    PROVE  FlagServed(Enqueued(p, irp))
  <1> DEFINE e == [p EXCEPT !.irp_state[irp] = "PENDING",
                            !.pending = Append(@, irp),
                            !.is_active = TRUE]
  <1>1. p \in Pipe_t /\ Counted(p) /\ Append(p.pending, irp) \in Seq(Irp)
    BY DEF Sound, Pipe_t, RingOK, RingWindows
  <1>2. /\ e.to_fill = p.to_fill /\ e.to_exec = p.to_exec /\ e.to_parse = p.to_parse
        /\ e.executing = p.executing /\ e.chan_busy = p.chan_busy /\ SameFlags(p, e)
    BY <1>1 DEF Pipe_t, SameFlags
  <1>3. e \in Pipe_t
    BY <1>1 DEF Pipe_t, IrpState
  <1>4. Enqueued(p, irp) = FillAndExec(e)
    BY DEF Enqueued
  <1> HIDE DEF e
  <1>5. Counted(e) /\ FlagServed(e)
    BY <1>1, <1>2 DEF Counted, FlagServed, SameFlags
  <1> QED BY <1>3, <1>4, <1>5, FillAndExecServed

\* A command, once nothing that it waits for is in flight.
LEMMA CommandedServed ==
    ASSUME NEW p, Sound(p), FlagServed(p), NEW cmd \in PipeCmd, cmd # "CLEAR" => ~p.executing
    PROVE  FlagServed(Commanded(p, cmd))
  <1> DEFINE q == Commanded(p, cmd)
             f == FlushAndRetire(p)
             a == [p EXCEPT !.state = "ACTIVE"]
  <1>1. p \in Pipe_t /\ Counted(p)
    BY DEF Sound, RingOK, RingWindows
  <1>2. SameFlags(p, f) /\ Flushed(f)
    BY FlushFlags DEF FlushAndRetire, Sound
  <1>3. f \in Pipe_t
    <2>1. Sound(f)
      BY FlushRetire DEF FlushAndRetire, Sound
    <2> QED BY <2>1 DEF Sound
  <1>4. /\ a \in Pipe_t /\ a.state = "ACTIVE"
        /\ a.to_fill = p.to_fill /\ a.to_exec = p.to_exec /\ a.to_parse = p.to_parse
        /\ a.executing = p.executing /\ a.chan_busy = p.chan_busy
        /\ a.waiting_xfer_done = p.waiting_xfer_done
    BY <1>1 DEF Pipe_t, PipeState
  <1>5. /\ cmd = "ABORT" => q = f
        /\ cmd = "RESET" => q = [f EXCEPT !.state = "ACTIVE"]
        /\ cmd = "HALT" => q = [p EXCEPT !.state = "HALTED"]
        /\ cmd = "CLEAR" => q = IF p.state = "HALTED" THEN FillAndExec(a) ELSE p
    BY DEF Commanded
  <1> SUFFICES FlagServed(q)
    OBVIOUS
  <1> HIDE DEF f, q, a
  <1>6. CASE cmd = "ABORT" \/ cmd = "RESET"
    <2>1. /\ q.state # "INVALID" /\ ~q.executing
          /\ q.waiting_xfer_done = p.waiting_xfer_done
      BY <1>2, <1>3, <1>5, <1>6 DEF Pipe_t, SameFlags, Flushed, FlagServed
    <2> QED BY <1>6, <2>1 DEF FlagServed
  <1>7. CASE cmd = "HALT"
    <2>1. /\ q.state = "HALTED" /\ q.executing = p.executing /\ q.chan_busy = p.chan_busy
          /\ q.waiting_xfer_done = p.waiting_xfer_done
      BY <1>1, <1>5, <1>7 DEF Pipe_t
    <2> QED BY <2>1 DEF FlagServed
  <1>8. CASE cmd = "CLEAR"
    <2>1. Counted(a) /\ FlagServed(a)
      BY <1>1, <1>4 DEF Counted, FlagServed
    <2> QED BY <1>4, <1>5, <1>8, <2>1, FillAndExecServed
  <1> QED BY <1>6, <1>7, <1>8 DEF PipeCmd

\* A command that returns on a pipe that is not invalid.
LEMMA ResumedServed ==
    ASSUME NEW p, Sound(p), Ahead(p), FlagServed(p), NEW cmd \in WaitingCmd, cmd # "NONE", ~p.chan_busy
    PROVE  /\ FlagServed(Resumed(p, cmd))
           /\ Resumed(p, cmd).waiting_xfer_done = p.waiting_xfer_done
  <1> DEFINE c == Commanded(p, cmd)
             q == Resumed(p, cmd)
  <1>1. p.state # "INVALID" /\ ~p.executing /\ cmd \in PipeCmd
    BY DEF FlagServed, WaitingCmd, PipeCmd
  <1>2. q = [c EXCEPT !.pipe_cmd_processing = FALSE]
    BY <1>1 DEF Resumed
  <1>3. FlagServed(c) /\ c.waiting_xfer_done = p.waiting_xfer_done
    BY <1>1, CommandedServed, CommandedWorks
  <1>4. c \in Pipe_t
    BY <1>1, CommandedFollows DEF Follows, Sound
  <1> HIDE DEF c, q
  <1>5. /\ q.state = c.state /\ q.executing = c.executing /\ q.chan_busy = c.chan_busy
        /\ q.waiting_xfer_done = c.waiting_xfer_done
    BY <1>2, <1>4 DEF Pipe_t
  <1> QED BY <1>3, <1>5 DEF FlagServed, q

-----------------------------------------------------------------------------
(* What the flags of one pipe become *)

\* The interrupt, for whoever waits.
LEMMA EndServed ==
    ASSUME NEW p \in Pipe, NEW r \in Pipe_t, EndTurn(p, r), r.state # "INVALID",
           r.waiting_xfer_done => ~r.executing /\ ~r.chan_busy,
           ~r.waiting_xfer_done => (r.executing => r.chan_busy)
    PROVE  FlagServed(pipes'[p])
  <1> DEFINE q == pipes'[p]
  <1>1. /\ q.state = r.state /\ q.executing = r.executing /\ q.chan_busy = r.chan_busy
        /\ ~q.waiting_xfer_done
    <2>1. \/ ~r.waiting_xfer_done /\ q = r
          \/ q = PausedNow(r)
          \/ q = [r EXCEPT !.waiting_xfer_done = FALSE]
      BY DEF EndTurn
    <2> QED BY <2>1 DEF PausedNow, Pipe_t
  <1> QED BY <1>1 DEF FlagServed

\* A turn, on an enabled device that is not reset.
LEMMA ServedTurn ==
    ASSUME IInv, WaitInv, port.conn_devc_ena, ~Reset,
           NEW p \in Pipe, FlagServed(pipes[p]), PipeTurn(p)
    PROVE  FlagServed(pipes'[p])
  <1> DEFINE q == pipes'[p]
  <1>1. /\ Sound(pipes[p]) /\ pipes[p] \in Pipe_t /\ Ahead(pipes[p]) /\ CommandWaits(p)
    BY PipeNow
  <1>2. ASSUME SameFlags(pipes[p], q), q.executing = pipes[p].executing,
               pipes[p].chan_busy => q.chan_busy
        PROVE  FlagServed(q)
    BY <1>2 DEF SameFlags, FlagServed
  <1>3. CASE Reopened(p)
    <2>1. (p \in CtrlPipe) \in BOOLEAN
      OBVIOUS
    <2> QED BY <1>3, <2>1, NewServed DEF Reopened
  <1>4. CASE Kept(p)
    BY <1>4 DEF Kept
  <1>5. CASE ClientTurn(p)
    <2>1. ASSUME NEW irp \in Irp, q = Enqueued(pipes[p], irp)
          PROVE  FlagServed(q)
      BY <1>1, <2>1, EnqueuedServed
    <2>2. CASE q = Dequeued(pipes[p])
      BY <1>1, <1>2, <2>2, DequeuedWaits
    <2>3. ASSUME NEW irp \in Irp, q = Aborted(pipes[p], irp)
          PROVE  FlagServed(q)
      BY <1>1, <1>2, <2>3, AbortedWaits
    <2>4. CASE q = [pipes[p] EXCEPT !.last_event = "NONE"]
      <3>1. SameFlags(pipes[p], q) /\ q.executing = pipes[p].executing /\ q.chan_busy = pipes[p].chan_busy
        BY <1>1, <2>4 DEF Pipe_t, SameFlags
      <3> QED BY <1>2, <3>1
    <2> QED BY <1>5, <2>1, <2>2, <2>3, <2>4 DEF ClientTurn
  <1>6. CASE WaitTurn(p)
    <2>1. /\ q.state = pipes[p].state /\ q.executing = pipes[p].executing
          /\ q.chan_busy = pipes[p].chan_busy /\ pipes[p].executing
      BY <1>1, <1>6 DEF WaitTurn, Pipe_t
    <2> QED BY <2>1 DEF FlagServed
  <1>7. CASE CommandTurn(p)
    BY <1>1, <1>7, CommandedServed DEF CommandTurn
  <1>8. CASE ReturnTurn(p)
    BY <1>1, <1>8, ResumedServed DEF ReturnTurn, FlagServed
  <1>9. CASE ChannelTurn(p)
    <2>1. CASE q = NextStage(pipes[p])
      <3>1. SameFlags(pipes[p], q) /\ q.executing = pipes[p].executing /\ q.chan_busy
        BY <1>1, <2>1 DEF NextStage, SameFlags, Pipe_t
      <3> QED BY <1>2, <3>1
    <2>2. CASE EndTurn(p, Completed(pipes[p]))
      <3> DEFINE r == Completed(pipes[p])
      <3>1. r \in Pipe_t
        BY <1>1, <1>9, CompletedFollows DEF Follows, Sound, ChannelTurn
      <3>2. /\ SameFlags(pipes[p], r)
            /\ r.waiting_xfer_done => ~r.executing /\ ~r.chan_busy
            /\ ~r.waiting_xfer_done => (r.executing <=> r.chan_busy)
        BY <1>1, <1>9, CompletedWorks DEF ChannelTurn
      <3>3. EndTurn(p, r)
        BY <2>2
      <3> HIDE DEF r
      <3> QED BY <3>1, <3>2, <3>3, EndServed DEF SameFlags, FlagServed
    <2>3. ASSUME NEW error \in ChanError, EndTurn(p, Failed(pipes[p], error))
          PROVE  FlagServed(q)
      <3> DEFINE r == Failed(pipes[p], error)
      <3>1. r \in Pipe_t
        BY <1>1, <1>9, FailedFollows DEF Follows, Sound, ChannelTurn
      <3>2. r.state = "HALTED" /\ ~r.executing /\ ~r.chan_busy
        BY <1>1, <1>9, FailedWorks DEF ChannelTurn
      <3>3. EndTurn(p, r)
        BY <2>3
      <3> HIDE DEF r
      <3> QED BY <3>1, <3>2, <3>3, EndServed
    <2> QED BY <1>9, <2>1, <2>2, <2>3 DEF ChannelTurn
  <1>10. CASE StopTurn(p)
    BY <1>10 DEF StopTurn
  <1>11. CASE PauseTurn(p)
    <2>1. /\ q.state = pipes[p].state /\ q.executing = pipes[p].executing
          /\ q.chan_busy = pipes[p].chan_busy
          /\ q.waiting_xfer_done => pipes[p].waiting_xfer_done \/ pipes[p].executing
      <3>1. CASE p \in Transferring
        BY <1>1, <1>11, <3>1 DEF PauseTurn, Pipe_t, Transferring
      <3>2. CASE p \notin Transferring
        BY <1>1, <1>11, <3>2 DEF PauseTurn, Pipe_t
      <3> QED BY <3>1, <3>2
    <2> QED BY <2>1 DEF FlagServed
  <1>12. CASE ResumeTurn(p)
    <2> DEFINE r == [pipes[p] EXCEPT !.paused = @ /\ ~Allocated(p)]
    <2>1. /\ r \in Pipe_t /\ r.state = pipes[p].state /\ r.executing = pipes[p].executing
          /\ r.chan_busy = pipes[p].chan_busy /\ r.waiting_xfer_done = pipes[p].waiting_xfer_done
          /\ r.to_fill = pipes[p].to_fill /\ r.to_exec = pipes[p].to_exec
          /\ r.to_parse = pipes[p].to_parse
      BY <1>1 DEF Pipe_t
    <2>2. q = IF InQueue(active_tailq, p) THEN FillAndExec(r) ELSE r
      BY <1>12 DEF ResumeTurn
    <2> HIDE DEF r
    <2>3. FlagServed(r) /\ Counted(r)
      BY <1>1, <2>1 DEF FlagServed, Sound, RingOK, RingWindows, Counted
    <2> QED BY <2>1, <2>2, <2>3, FillAndExecServed
  <1>13. CASE LossTurn(p)
    BY <1>13 DEF LossTurn
  <1> QED BY <1>3, <1>4, <1>5, <1>6, <1>7, <1>8, <1>9, <1>10, <1>11, <1>12, <1>13 DEF PipeTurn

\* A session knows no reset.
LEMMA NoReset == IInv /\ [SessionNext]_vars => ~Reset
  <1> SUFFICES ASSUME IInv, [SessionNext]_vars, port.state # "RESETTING"
               PROVE  port'.state # "RESETTING"
    BY DEF Reset, IInv, TypeOK, Port_t
  <1>1. port \in Port_t
    BY DEF IInv, TypeOK
  <1>2. CASE UNCHANGED port
    BY <1>2
  <1>3. ASSUME NEW p \in Pipe, ClientStep(p)
        PROVE  port'.state = port.state
    <2>1. CASE UNCHANGED port
      BY <2>1
    <2>2. ASSUME NEW r, WakeWaiter(p, r)
          PROVE  port'.state = port.state
      BY <1>1, <2>2 DEF WakeWaiter, Port_t
    <2> QED BY <1>3, <2>1, <2>2 DEF ClientStep, IrpEnqueue, IrpAbort, IrpDequeue, PipeCommand,
               PipeCommandReturn, ChanTransfer, ChanStage, ChanComplete, ChanFail, ChanIgnored
  <1>4. CASE DeviceLost
    BY <1>1, <1>4 DEF DeviceLost, IntrDisconn, Raise, Port_t
  <1>5. CASE PortFault \/ DisableDone
    BY <1>1, <1>5 DEF PortFault, DisableDone, IntrDisabled, PortDisabled, Raise, Port_t
  <1>6. CASE Suspend
    BY <1>1, <1>6 DEF Suspend, PauseAllPipes, Port_t
  <1>7. CASE Resume
    BY <1>1, <1>7 DEF Resume, Port_t
  <1>8. CASE Disable
    BY <1>1, <1>8 DEF Disable, PauseAllPipes, RequestDisable, Port_t
  <1>9. CASE PortOpStep
    <2>1. CASE ResetRelease \/ ResetEnd \/ ResumeRelease \/ InvalidateNextActive \/ InvalidateNextIdle
      BY <2>1 DEF ResetRelease, ResetEnd, ResumeRelease, InvalidateNextActive, InvalidateNextIdle
    <2>2. CASE SuspendWake
      BY <1>1, <2>2 DEF SuspendWake, Port_t
    <2>3. CASE ResumeEnd
      BY <1>1, <2>3 DEF ResumeEnd, Port_t
    <2>4. CASE DisableWake \/ DisableEnd
      BY <1>1, <2>4 DEF DisableWake, DisableEnd, RequestDisable, Port_t
    <2>5. CASE Debounced
      BY <1>1, <2>5 DEF Debounced, Port_t
    <2> QED BY <1>9, <2>1, <2>2, <2>3, <2>4, <2>5 DEF PortOpStep
  <1>10. CASE HandleEvent
    BY <1>1, <1>10 DEF HandleEvent, HandleDebounced, HandleDeviceLost, Port_t
  <1> QED BY <1>2, <1>3, <1>4, <1>5, <1>6, <1>7, <1>8, <1>9, <1>10 DEF SessionNext, PauseCommand, vars

-----------------------------------------------------------------------------
(* How many flags are set *)

\* Sets of pipes are finite.
LEMMA PipesFinite ==
    /\ IsFiniteSet(Flagged) /\ Cardinality(Flagged) \in Nat
    /\ IsFiniteSet(Owed) /\ Cardinality(Owed) \in Nat
    /\ IsFiniteSet(Flagged') /\ Cardinality(Flagged') \in Nat
    /\ IsFiniteSet(Owed') /\ Cardinality(Owed') \in Nat
  <1>1. Flagged \in SUBSET Pipe /\ Owed \in SUBSET Pipe
        /\ Flagged' \in SUBSET Pipe /\ Owed' \in SUBSET Pipe
    BY DEF Flagged, Owed
  <1>2. IsFiniteSet(Flagged) /\ IsFiniteSet(Owed) /\ IsFiniteSet(Flagged') /\ IsFiniteSet(Owed')
    BY <1>1, PipeAssumption, FS_Subset
  <1> QED BY <1>2, FS_CardinalityType

\* What the port waits for.
Waits == IF port.waiting_all_pipes_pause THEN port.num_pipes_waiting_pause ELSE 0

\* A step that sets or clears no flag.
LEMMA CountKept ==
    ASSUME FlagsCounted, Waits' = Waits,
           \A x \in Pipe :
              /\ pipes'[x].waiting_xfer_done <=> pipes[x].waiting_xfer_done
              /\ (pipe_cmd'[x] # "NONE" /\ ~pipe_notified'[x])
                     <=> (pipe_cmd[x] # "NONE" /\ ~pipe_notified[x])
    PROVE  FlagsCounted'
  <1>1. Flagged' = Flagged
    BY DEF Flagged
  <1>2. Owed' = Owed
    BY DEF Owed
  <1> QED BY <1>1, <1>2 DEF FlagsCounted, Waits

\* A step of one pipe.
LEMMA OnePipeCounts ==
    ASSUME NEW p \in Pipe, \A x \in Pipe \ {p} : pipes'[x] = pipes[x] /\ SameWait(x)
    PROVE  /\ Flagged' = IF pipes'[p].waiting_xfer_done THEN Flagged \union {p} ELSE Flagged \ {p}
           /\ Owed' = IF pipe_cmd'[p] # "NONE" /\ ~pipe_notified'[p]
                      THEN Owed \union {p} ELSE Owed \ {p}
  <1>1. \A x \in Pipe : x # p => (x \in Flagged' <=> x \in Flagged) /\ (x \in Owed' <=> x \in Owed)
    BY DEF Flagged, Owed, SameWait
  <1>2. /\ p \in Flagged' <=> pipes'[p].waiting_xfer_done
        /\ p \in Owed' <=> pipe_cmd'[p] # "NONE" /\ ~pipe_notified'[p]
    BY DEF Flagged, Owed
  <1>3. Flagged \subseteq Pipe /\ Owed \subseteq Pipe /\ Flagged' \subseteq Pipe /\ Owed' \subseteq Pipe
    BY DEF Flagged, Owed
  <1> QED BY <1>1, <1>2, <1>3

\* The transfer in flight has ended.
LEMMA WakeCounts ==
    ASSUME IInv, WaitInv, FlagsCounted, NEW p \in Pipe, NEW r \in Pipe_t,
           r.waiting_xfer_done <=> pipes[p].waiting_xfer_done,
           WakeWaiter(p, r), UNCHANGED pipe_cmd
    PROVE  FlagsCounted'
  <1>1. /\ port \in Port_t /\ pipes \in [Pipe -> Pipe_t] /\ pipe_notified \in [Pipe -> BOOLEAN]
        /\ port.waiting_all_pipes_pause => port.num_pipes_waiting_pause > 0
        /\ port.num_pipes_waiting_pause \in Nat
    BY PipeCount DEF IInv, TypeOK, WaitCounted, Port_t
  <1>2. \A x \in Pipe \ {p} : pipes'[x] = pipes[x] /\ SameWait(x)
    BY <1>1 DEF WakeWaiter, SameWait
  <1>3. CASE ~r.waiting_xfer_done
    <2>1. /\ pipes'[p] = r /\ UNCHANGED <<pipe_notified, port>>
      BY <1>1, <1>3 DEF WakeWaiter
    <2> QED BY <1>2, <2>1, CountKept DEF SameWait, Waits
  <1>4. CASE r.waiting_xfer_done /\ port.waiting_all_pipes_pause
    <2>1. /\ pipes'[p] = PausedNow(r) /\ pipe_notified' = pipe_notified
          /\ port'.num_pipes_waiting_pause = port.num_pipes_waiting_pause - 1
          /\ port'.waiting_all_pipes_pause <=> port.num_pipes_waiting_pause # 1
      BY <1>1, <1>4 DEF WakeWaiter, Port_t
    <2>2. ~pipes'[p].waiting_xfer_done
      BY <2>1 DEF PausedNow, Pipe_t
    <2>3. Flagged' = Flagged \ {p} /\ p \in Flagged
      BY <1>2, <1>4, <2>2, OnePipeCounts DEF Flagged
    <2>4. Owed' = Owed
      BY <2>1 DEF Owed
    <2>5. Cardinality(Flagged') = Cardinality(Flagged) - 1
      BY <2>3, PipesFinite, FS_RemoveElement
    <2>6. Waits = port.num_pipes_waiting_pause /\ Waits' = Waits - 1
      BY <1>1, <1>4, <2>1 DEF Waits
    <2> QED BY <1>1, <2>4, <2>5, <2>6, PipesFinite DEF FlagsCounted, Waits
  <1>5. CASE r.waiting_xfer_done /\ ~port.waiting_all_pipes_pause
    <2>1. /\ pipes'[p] = [r EXCEPT !.waiting_xfer_done = FALSE] /\ pipe_notified'[p]
          /\ UNCHANGED port
      BY <1>1, <1>5 DEF WakeWaiter
    <2>2. ~pipes'[p].waiting_xfer_done
      BY <2>1 DEF Pipe_t
    <2>3. Flagged' = Flagged \ {p} /\ p \in Flagged /\ Owed' = Owed \ {p}
      BY <1>2, <1>5, <2>1, <2>2, OnePipeCounts DEF Flagged
    <2>4. /\ Cardinality(Flagged') = Cardinality(Flagged) - 1
          /\ Cardinality(Owed') >= Cardinality(Owed) - 1
      BY <2>3, PipesFinite, FS_RemoveElement
    <2>5. Waits = 0 /\ Waits' = 0
      BY <1>5, <2>1 DEF Waits
    <2> QED BY <2>4, <2>5, PipesFinite DEF FlagsCounted, Waits
  <1> QED BY <1>3, <1>4, <1>5

\* A step of a client or of a channel.
LEMMA ClientCounts ==
    ASSUME IInv, WaitInv, FlagsCounted, port.conn_devc_ena, NEW p \in Pipe, FlagServed(pipes[p]),
           ClientStep(p)
    PROVE  FlagsCounted'
  <1>1. /\ Sound(pipes[p]) /\ pipes[p] \in Pipe_t /\ Ahead(pipes[p]) /\ CommandWaits(p)
        /\ pipe_cmd[p] \in WaitingCmd /\ pipe_notified[p] \in BOOLEAN
    BY PipeNow
  <1>2. /\ pipes \in [Pipe -> Pipe_t] /\ pipe_cmd \in [Pipe -> WaitingCmd]
        /\ pipe_notified \in [Pipe -> BOOLEAN]
    BY DEF IInv, TypeOK
  <1>3. ASSUME NEW q, pipes' = [pipes EXCEPT ![p] = q],
               q.waiting_xfer_done <=> pipes[p].waiting_xfer_done,
               UNCHANGED <<pipe_cmd, pipe_notified, port>>
        PROVE  FlagsCounted'
    BY <1>2, <1>3, CountKept DEF Waits
  <1>4. ASSUME NEW irp \in Irp, IrpEnqueue(p, irp)
        PROVE  FlagsCounted'
    <2>1. Enqueued(pipes[p], irp).waiting_xfer_done = pipes[p].waiting_xfer_done
      BY <1>1, EnqueuedWorks DEF SameFlags
    <2> QED BY <1>3, <1>4, <2>1 DEF IrpEnqueue
  <1>5. ASSUME NEW irp \in Irp, IrpAbort(p, irp)
        PROVE  FlagsCounted'
    BY <1>1, <1>3, <1>5, AbortedWaits DEF IrpAbort, SameFlags
  <1>6. CASE IrpDequeue(p)
    BY <1>1, <1>3, <1>6, DequeuedWaits DEF IrpDequeue, SameFlags
  <1>7. ASSUME NEW cmd \in PipeCmd, PipeCommand(p, cmd)
        PROVE  FlagsCounted'
    <2>1. CASE cmd # "CLEAR" /\ pipes[p].executing
      <3>1. /\ pipes' = [pipes EXCEPT ![p].pipe_cmd_processing = TRUE,
                                      ![p].waiting_xfer_done = TRUE]
            /\ pipe_cmd' = [pipe_cmd EXCEPT ![p] = cmd] /\ cmd # "NONE"
            /\ ~pipes[p].pipe_cmd_processing /\ UNCHANGED <<pipe_notified, port>>
        BY <1>7, <2>1 DEF PipeCommand, PipeCmd
      <3>2. pipes'[p].waiting_xfer_done /\ pipe_cmd'[p] # "NONE" /\ ~pipe_notified'[p]
            /\ p \notin Owed
        BY <1>1, <1>2, <3>1 DEF CommandWaits, Pipe_t, Owed
      <3>3. \A x \in Pipe \ {p} : pipes'[x] = pipes[x] /\ SameWait(x)
        BY <1>2, <3>1 DEF SameWait
      <3>4. Flagged' = Flagged \union {p} /\ Owed' = Owed \union {p}
        BY <3>2, <3>3, OnePipeCounts
      <3>5. /\ Cardinality(Flagged') >= Cardinality(Flagged)
            /\ Cardinality(Flagged') <= Cardinality(Flagged) + 1
            /\ Cardinality(Owed') = Cardinality(Owed) + 1
        BY <3>2, <3>4, PipesFinite, FS_AddElement
      <3>6. Waits' = Waits /\ Waits \in Nat
        BY <3>1, PipeCount DEF Waits, IInv, TypeOK, Port_t
      <3> QED BY <3>5, <3>6, PipesFinite DEF FlagsCounted, Waits
    <2>2. CASE ~(cmd # "CLEAR" /\ pipes[p].executing)
      <3>1. /\ pipes' = [pipes EXCEPT ![p] = Commanded(pipes[p], cmd)]
            /\ UNCHANGED <<pipe_cmd, pipe_notified, port>>
        BY <1>7, <2>2 DEF PipeCommand
      <3>2. Commanded(pipes[p], cmd).waiting_xfer_done = pipes[p].waiting_xfer_done
        BY <1>1, CommandedWorks
      <3> QED BY <1>3, <3>1, <3>2
    <2> QED BY <2>1, <2>2
  <1>8. CASE PipeCommandReturn(p)
    <2>1. /\ pipe_cmd[p] # "NONE" /\ pipe_notified[p] /\ ~pipes[p].chan_busy
          /\ pipes' = [pipes EXCEPT ![p] = Resumed(pipes[p], pipe_cmd[p])]
          /\ pipe_cmd' = [pipe_cmd EXCEPT ![p] = "NONE"]
          /\ pipe_notified' = [pipe_notified EXCEPT ![p] = FALSE]
          /\ UNCHANGED port
      BY <1>8 DEF PipeCommandReturn, FlagServed
    <2>2. Resumed(pipes[p], pipe_cmd[p]).waiting_xfer_done = pipes[p].waiting_xfer_done
      BY <1>1, <2>1, ResumedServed
    <2> QED BY <1>2, <2>1, <2>2, CountKept DEF Waits
  <1>9. CASE ChanTransfer(p)
    <2>1. pipes[p].executing
      BY <1>9, InterruptFindsTransfer DEF ChanTransfer, ChanStage, ChanComplete, ChanFail, ChanInterrupt
    <2>2. CASE ChanStage(p)
      <3>1. NextStage(pipes[p]).waiting_xfer_done = pipes[p].waiting_xfer_done
        BY <1>1 DEF NextStage, Pipe_t
      <3> QED BY <1>3, <2>2, <3>1 DEF ChanStage
    <2>3. CASE ChanComplete(p)
      <3>1. Completed(pipes[p]) \in Pipe_t
        BY <1>1, <2>1, CompletedFollows DEF Follows, Sound
      <3>2. SameFlags(pipes[p], Completed(pipes[p]))
        BY <1>1, <2>1, CompletedWorks
      <3> QED BY <2>3, <3>1, <3>2, WakeCounts DEF ChanComplete, SameFlags
    <2>4. ASSUME NEW error \in ChanError, ChanFail(p, error)
          PROVE  FlagsCounted'
      <3>1. error \in ChanError
        BY PipeAssumption
      <3>2. Failed(pipes[p], error) \in Pipe_t
        BY <1>1, <2>1, <3>1, FailedFollows DEF Follows, Sound
      <3>3. Failed(pipes[p], error).waiting_xfer_done = pipes[p].waiting_xfer_done
        BY <1>1, <2>1, <3>1, FailedWorks
      <3> QED BY <2>4, <3>2, <3>3, WakeCounts DEF ChanFail
    <2> QED BY <1>9, <2>2, <2>3, <2>4 DEF ChanTransfer
  <1>10. CASE ChanIgnored(p)
    BY <1>10 DEF ChanIgnored
  <1> QED BY <1>4, <1>5, <1>6, <1>7, <1>8, <1>9, <1>10 DEF ClientStep

\* The port pauses: it waits for every pipe whose flag is set.
LEMMA PauseCounts ==
    ASSUME IInv, FlagsCounted, \A x \in Pipe : FlagServed(pipes[x]), Suspend \/ Disable
    PROVE  FlagsCounted'
  <1>1. /\ pipes \in [Pipe -> Pipe_t] /\ port \in Port_t
        /\ UNCHANGED <<pipe_cmd, pipe_notified>>
    BY DEF IInv, TypeOK, Suspend, Disable, PauseAllPipes, pipeVars
  <1>2. Transferring \in SUBSET Pipe /\ Cardinality(Transferring) \in Nat
    <2>1. Transferring \in SUBSET Pipe
      BY DEF Transferring
    <2> QED BY <2>1, PipeAssumption, FS_Subset, FS_CardinalityType
  <1>3. Flagged \subseteq Transferring
    <2> SUFFICES ASSUME NEW x \in Pipe, pipes[x].executing PROVE InQueue(active_tailq, x)
      BY DEF Flagged, Transferring, FlagServed
    <2>1. pipes[x].to_exec > 0
      BY IInvParts, PipesSound DEF Sound, RingOK, RingWindows
    <2>2. ~HoldsNothing(pipes[x])
      BY <2>1 DEF HoldsNothing
    <2> QED BY <2>2 DEF IInv, ListsConsistent
  <1> DEFINE P == [p \in Pipe |->
                     IF p \in Transferring
                     THEN [pipes[p] EXCEPT !.waiting_xfer_done = TRUE]
                     ELSE [pipes[p] EXCEPT !.paused = @ \/ Allocated(p)]]
             W == [port EXCEPT !.waiting_all_pipes_pause = TRUE,
                               !.num_pipes_waiting_pause = Cardinality(Transferring)]
  <1>4. ASSUME pipes' = pipes \/ (pipes' = P /\ Transferring = {}),
               \E state \in PortState, b \in BOOLEAN :
                  port' = [port EXCEPT !.state = state, !.disable_requested = b]
        PROVE  FlagsCounted'
    <2>1. Waits' = Waits
      BY <1>1, <1>4 DEF Waits, Port_t
    <2>2. \A x \in Pipe : pipes'[x].waiting_xfer_done <=> pipes[x].waiting_xfer_done
      <3>1. CASE pipes' = P /\ Transferring = {}
        <4>1. \A x \in Pipe : pipes'[x] = [pipes[x] EXCEPT !.paused = @ \/ Allocated(x)]
          BY <3>1
        <4>2. \A x \in Pipe : pipes[x] \in Pipe_t
          BY <1>1
        <4> QED BY <4>1, <4>2 DEF Pipe_t
      <3> QED BY <1>4, <3>1
    <2> QED BY <1>1, <2>1, <2>2, CountKept
  <1>5. ASSUME pipes' = P, port' = W
        PROVE  FlagsCounted'
    <2>1. \A x \in Pipe : pipes'[x].waiting_xfer_done <=> x \in Transferring
      BY <1>1, <1>3, <1>5 DEF Flagged, Pipe_t
    <2>2. Flagged' = Transferring
      BY <1>2, <2>1 DEF Flagged
    <2>3. Waits' = Cardinality(Transferring)
      BY <1>1, <1>5 DEF Waits, Port_t
    <2> QED BY <1>2, <2>2, <2>3, PipesFinite DEF FlagsCounted, Waits
  <1>6. CASE Suspend
    <2>1. /\ pipes' = P
          /\ Transferring = {} => port' = [port EXCEPT !.state = "SUSPENDED"]
          /\ Transferring # {} => port' = W
      BY <1>6 DEF Suspend, PauseAllPipes
    <2>2. CASE Transferring = {}
      <3>1. port' = [port EXCEPT !.state = "SUSPENDED", !.disable_requested = port.disable_requested]
        BY <1>1, <2>1, <2>2 DEF Port_t
      <3> QED BY <1>1, <1>4, <2>1, <2>2, <3>1 DEF Port_t, PortState
    <2> QED BY <1>5, <2>1, <2>2
  <1>7. CASE Disable
    <2>1. \/ /\ pipes' = P
             /\ Transferring = {} => port' = [port EXCEPT !.disable_requested = TRUE]
             /\ Transferring # {} => port' = W
          \/ pipes' = pipes /\ port' = [port EXCEPT !.disable_requested = TRUE]
      BY <1>7 DEF Disable, PauseAllPipes, RequestDisable, pipeVars
    <2>2. CASE port' = [port EXCEPT !.disable_requested = TRUE]
      <3>1. port' = [port EXCEPT !.state = port.state, !.disable_requested = TRUE]
        BY <1>1, <2>2 DEF Port_t
      <3>2. port.state \in PortState
        BY <1>1 DEF Port_t
      <3> QED BY <1>4, <1>5, <2>1, <3>1, <3>2
    <2> QED BY <1>5, <2>1, <2>2
  <1> QED BY <1>6, <1>7

\* The port resumes.
LEMMA ResumeCounts ==
    ASSUME IInv, FlagsCounted, UnpauseAllPipes, Waits' = Waits,
           UNCHANGED <<pipe_cmd, pipe_notified>>
    PROVE  FlagsCounted'
  <1> SUFFICES ASSUME NEW x \in Pipe
               PROVE  pipes'[x].waiting_xfer_done <=> pipes[x].waiting_xfer_done
    BY CountKept
  <1> DEFINE r == [pipes[x] EXCEPT !.paused = @ /\ ~Allocated(x)]
  <1>1. Sound(pipes[x]) /\ pipes[x] \in Pipe_t
    BY IInvParts, PipesSound DEF Sound
  <1>2. /\ r \in Pipe_t /\ r.waiting_xfer_done = pipes[x].waiting_xfer_done
        /\ r.to_fill = pipes[x].to_fill /\ r.to_exec = pipes[x].to_exec
        /\ r.to_parse = pipes[x].to_parse
    BY <1>1 DEF Pipe_t
  <1>3. pipes'[x] = IF InQueue(active_tailq, x) THEN FillAndExec(r) ELSE r
    BY DEF UnpauseAllPipes
  <1> HIDE DEF r
  <1>4. Counted(r)
    BY <1>1, <1>2 DEF Counted, Sound, RingOK, RingWindows
  <1>5. FillAndExec(r).waiting_xfer_done = r.waiting_xfer_done
    <2> DEFINE f == FillIfCan(r)
    <2>1. f \in Pipe_t /\ f.waiting_xfer_done = r.waiting_xfer_done
      BY <1>2, <1>4, FillFields, FillFlags DEF FillIfCan, SameFlags
    <2>2. FillAndExec(r) = IF CanExec(f) THEN BufferExec(f) ELSE f
      BY DEF FillAndExec
    <2> HIDE DEF f
    <2> QED BY <2>1, <2>2 DEF BufferExec, Pipe_t
  <1> QED BY <1>2, <1>3, <1>5

-----------------------------------------------------------------------------
(* The theorems of the count *)

\* At the start no flag is set.
LEMMA SessionInitPause == SessionInit => PauseInv /\ WaitInv
  <1> SUFFICES ASSUME SessionInit PROVE PauseInv /\ WaitInv
    OBVIOUS
  <1>1. \A p \in Pipe : (p \in CtrlPipe) \in BOOLEAN /\ pipes[p] = NewPipe(p \in CtrlPipe)
    BY DEF SessionInit
  <1>2. \A p \in Pipe : FlagServed(pipes[p]) /\ Ahead(pipes[p]) /\ ~pipes[p].waiting_xfer_done
    BY <1>1, NewServed, NewWorks
  <1>3. Flagged = {}
    BY <1>2 DEF Flagged
  <1>4. ~port.waiting_all_pipes_pause /\ \A p \in Pipe : pipe_cmd[p] = "NONE" /\ ~pipe_notified[p]
    BY DEF SessionInit
  <1>5. FlagsCounted
    BY <1>3, <1>4, PipesFinite, FS_EmptySet DEF FlagsCounted
  <1> QED BY <1>2, <1>4, <1>5 DEF PauseInv, WaitInv, CommandWaits

\* The list in which the pipes start holds each of them once.
LEMMA SessionInitIInv == SessionInit => IInv
  <1> SUFFICES ASSUME SessionInit PROVE IInv
    OBVIOUS
  <1> DEFINE n == Cardinality(Pipe)
  <1>1. n \in Nat
    BY PipeCount
  <1>2. idle_tailq \in [1 .. n -> Pipe] /\ \A p \in Pipe : InQueue(idle_tailq, p)
    BY DEF SessionInit
  <1>3. idle_tailq \in Seq(Pipe) /\ Len(idle_tailq) = n
    BY <1>1, <1>2
  <1>4. \A k, l \in 1 .. n : idle_tailq[k] = idle_tailq[l] => k = l
    <2>1. idle_tailq \in Surjection(1 .. n, Pipe)
      BY <1>2, <1>3 DEF Surjection, InQueue
    <2>2. IsFiniteSet(1 .. n) /\ Cardinality(1 .. n) = n
      BY <1>1, FS_Interval
    <2>3. idle_tailq \in Injection(1 .. n, Pipe)
      BY <2>1, <2>2, FS_SurjSameCardinalityImpliesInj
    <2> QED BY <2>3 DEF Injection, IsInjective
  <1>5. \A p \in Pipe : (p \in CtrlPipe) \in BOOLEAN /\ pipes[p] = NewPipe(p \in CtrlPipe)
    BY DEF SessionInit
  <1>6. \A p \in Pipe :
           /\ Sound(pipes[p]) /\ ~pipes[p].is_active /\ ~Stray(pipes[p]) /\ HoldsNothing(pipes[p])
           /\ pipes[p].state = "ACTIVE"
           /\ \A i \in Irp : pipes[p].irp_state[i] = "IDLE"
    BY <1>5, NewPipeSound
  <1>7. pipes \in [Pipe -> Pipe_t] /\ active_tailq \in Seq(Pipe) /\ Len(active_tailq) = 0
    BY <1>6 DEF SessionInit, Sound
  <1>8. ListsConsistent
    BY <1>3, <1>4, <1>6, <1>7 DEF ListsConsistent, InQueue
  <1>9. PipePart
    BY <1>3, <1>6, <1>7, <1>8
       DEF PipePart, Sound, RingConsistent, IrpConservation, IrpOwnedOnce, InvalidPipesFlushed
  <1>10. port \in Port_t /\ port_op \in PortOp /\ hw \in Hw
    BY PipeCount DEF SessionInit, Port_t, PortState, PortEvent, PortOp, PortOpAt, Hw, Idle, At
  <1>11. PortPart
    BY <1>6, <1>10
       DEF SessionInit, PortPart, WaitingCmd, StraysUnheard, NoDeviceToInvalidate, EnabledByReset,
           WaitCounted, CursorListed, LostPending, Invalidating, InReset, Idle, At
  <1> QED BY <1>9, <1>11, IInvParts

\* What a session does, the driver does.
LEMMA SessionSteps == [SessionNext]_vars => [Next]_vars
BY DEF SessionNext, Next, UnpausedNext, ClientStep, PipeNext, PipeStep, DeviceLost, PortFault,
       DisableDone, PortInterrupt

\* No step of a session enables a device.
LEMMA PauseInductive == IInv /\ WaitInv /\ PauseInv /\ [SessionNext]_vars => PauseInv'
  <1> SUFFICES ASSUME IInv, WaitInv, PauseInv, [SessionNext]_vars, port'.conn_devc_ena
               PROVE  (\A x \in Pipe : FlagServed(pipes'[x])) /\ FlagsCounted'
    BY DEF PauseInv
  <1>1. port \in Port_t /\ NoDeviceToInvalidate
    BY DEF IInv, TypeOK
  <1> DEFINE Steady == /\ UNCHANGED <<pipes, pipe_cmd, pipe_notified>>
                       /\ port'.conn_devc_ena <=> port.conn_devc_ena
                       /\ Waits' = Waits
             Goal == port.conn_devc_ena /\ FlagsCounted'
  <1>2. ASSUME Steady PROVE Goal
    <2>1. port.conn_devc_ena /\ FlagsCounted
      BY <1>2 DEF PauseInv
    <2> QED BY <1>2, <2>1, CountKept
  <1> HIDE DEF Steady
  <1>3. ASSUME NEW p \in Pipe, ClientStep(p) PROVE Goal
    <2>1. port.conn_devc_ena
      <3>1. CASE UNCHANGED port
        BY <3>1
      <3>2. ASSUME NEW r, WakeWaiter(p, r)
            PROVE  port.conn_devc_ena
        BY <1>1, <3>2 DEF WakeWaiter, Port_t
      <3> QED BY <1>3, <3>1, <3>2 DEF ClientStep, IrpEnqueue, IrpAbort, IrpDequeue, PipeCommand,
                 PipeCommandReturn, ChanTransfer, ChanStage, ChanComplete, ChanFail, ChanIgnored
    <2> QED BY <1>3, <2>1, ClientCounts DEF PauseInv
  <1>4. ASSUME UNCHANGED vars PROVE Goal
    BY <1>2, <1>4 DEF Steady, vars, pipeVars, Waits
  <1>5. ASSUME DeviceLost PROVE Goal
    BY <1>1, <1>2, <1>5 DEF Steady, DeviceLost, IntrDisconn, Raise, Port_t, pipeVars, Waits
  <1>6. ASSUME PortFault \/ DisableDone PROVE Goal
    BY <1>1, <1>6 DEF PortFault, DisableDone, IntrDisabled, PortDisabled, Raise, Port_t
  <1>7. ASSUME Suspend \/ Disable PROVE Goal
    <2>1. port.conn_devc_ena
      BY <1>1, <1>7 DEF Suspend, Disable, PauseAllPipes, RequestDisable, Port_t
    <2> QED BY <1>7, <2>1, PauseCounts DEF PauseInv
  <1>8. ASSUME Resume \/ SuspendWake \/ Debounced \/ DisableWake \/ HandleDebounced PROVE Goal
    <2>1. CASE Resume
      BY <1>1, <1>2, <2>1 DEF Steady, Resume, Port_t, pipeVars, Waits
    <2>2. CASE SuspendWake
      BY <1>1, <1>2, <2>2 DEF Steady, SuspendWake, Port_t, pipeVars, Waits
    <2>3. CASE Debounced
      BY <1>1, <1>2, <2>3 DEF Steady, Debounced, Port_t, pipeVars, Waits
    <2>4. CASE DisableWake
      BY <1>1, <1>2, <2>4 DEF Steady, DisableWake, RequestDisable, Port_t, pipeVars, Waits
    <2>5. CASE HandleDebounced
      BY <1>1, <1>2, <2>5 DEF Steady, HandleDebounced, Port_t, pipeVars, Waits
    <2> QED BY <1>8, <2>1, <2>2, <2>3, <2>4, <2>5
  <1>9. ASSUME ResetRelease \/ ResetEnd \/ ResumeRelease PROVE Goal
    BY <1>2, <1>9 DEF Steady, ResetRelease, ResetEnd, ResumeRelease, pipeVars, Waits
  <1>10. ASSUME ResumeEnd PROVE Goal
    <2>1. CASE StillResuming
      <3>1. port.conn_devc_ena /\ Waits' = Waits /\ UnpauseAllPipes
        BY <1>1, <1>10, <2>1 DEF ResumeEnd, StillResuming, Port_t, Waits
      <3> QED BY <1>10, <3>1, ResumeCounts DEF ResumeEnd, PauseInv
    <2>2. CASE ~StillResuming
      BY <1>2, <1>10, <2>2 DEF Steady, ResumeEnd, Waits
    <2> QED BY <2>1, <2>2
  <1>11. ASSUME InvalidateNextActive \/ InvalidateNextIdle \/ HandleDeviceLost PROVE Goal
    BY <1>1, <1>11 DEF InvalidateNextActive, InvalidateNextIdle, HandleDeviceLost,
                       NoDeviceToInvalidate, Invalidating, LostPending, Port_t
  <1>12. ASSUME DisableEnd PROVE Goal
    <2>1. CASE port.state = "DISABLED"
      BY <1>1, <1>12, <2>1 DEF DisableEnd, NoDeviceToInvalidate, Port_t
    <2>2. CASE port.state # "DISABLED"
      BY <1>1, <1>2, <1>12, <2>2 DEF Steady, DisableEnd, Port_t, Waits
    <2> QED BY <2>1, <2>2
  <1>13. Goal
    BY <1>3, <1>4, <1>5, <1>6, <1>7, <1>8, <1>9, <1>10, <1>11, <1>12
       DEF SessionNext, PauseCommand, PortOpStep, HandleEvent
  <1>14. \A x \in Pipe : FlagServed(pipes'[x])
    BY <1>13, NoReset, SessionSteps, TurnsTaken, ServedTurn DEF PauseInv
  <1> QED BY <1>13, <1>14

\* The port wakes when the last of its pipes has stopped and not before, as long as
\* no pipe has a command of its own: the counter agrees with the flags of the pipes
\* through every transfer that ends, every command and every loss in between.
THEOREM PauseCountsPipes == Session => []PauseCounted
  <1>1. SessionInit => IInv /\ WaitInv /\ PauseInv
    BY SessionInitIInv, SessionInitPause
  <1>2. IInv /\ WaitInv /\ PauseInv /\ [SessionNext]_vars => (IInv /\ WaitInv /\ PauseInv)'
    BY SessionSteps, IInvInductive, WaitInductive, PauseInductive
  <1>3. IInv /\ PauseInv => PauseCounted
    <2> SUFFICES ASSUME IInv, PauseInv, port.waiting_all_pipes_pause, port.conn_devc_ena,
                        \A p \in Pipe : pipe_cmd[p] = "NONE"
                 PROVE  port.num_pipes_waiting_pause = Cardinality(Flagged)
      BY DEF PauseCounted, Flagged
    <2>1. Owed = {}
      BY DEF Owed
    <2>2. /\ port.num_pipes_waiting_pause <= Cardinality(Flagged)
          /\ Cardinality(Flagged) <= port.num_pipes_waiting_pause + Cardinality(Owed)
      BY DEF PauseInv, FlagsCounted
    <2>3. port.num_pipes_waiting_pause \in Nat
      BY PipeCount DEF IInv, TypeOK, Port_t
    <2> QED BY <2>1, <2>2, <2>3, PipesFinite, FS_EmptySet
  <1> QED BY <1>1, <1>2, <1>3, PTL DEF Session

\* From an enabled device with its pipes allocated, too, nothing is started
\* under a pipe command that is about to return, whether or not the device is lost
\* meanwhile, as long as no command pauses the port.
THEOREM SessionStopped == SessionInit /\ [][UnpausedNext]_vars => []StoppedWhenWoken
  <1>1. SessionInit => StopInv /\ IInv
    <2>1. SessionInit => StoppedWhenWoken /\ port_op.at = "idle"
      BY DEF SessionInit, StoppedWhenWoken, Idle, At
    <2> QED BY <2>1, SessionInitPause, SessionInitIInv DEF StopInv
  <1>2. StopInv => StoppedWhenWoken
    BY DEF StopInv
  <1>3. IInv /\ [UnpausedNext]_vars => IInv'
    BY IInvInductive DEF Next
  <1> QED BY <1>1, <1>2, <1>3, StopInductive, PTL

-----------------------------------------------------------------------------
(* The flush, buffer by buffer *)

\* A set of natural numbers that is not empty has a least one.  An induction on how
\* often a loop ran is made with it: the least number for which a fact fails.
LEMMA LeastOne ==
    ASSUME NEW T \in SUBSET Nat, T # {}
    PROVE  \E x \in T : \A y \in T : x <= y
  <1>1. \E x \in T : \A y \in T : ~ (<<y, x>> \in OpToRel(<, Nat))
    BY NatLessThanWellFounded, WFMin, Zenon
  <1>2. PICK x \in T : \A y \in T : ~ (<<y, x>> \in OpToRel(<, Nat))
    BY <1>1
  <1>3. \A y \in T : ~(y < x)
    BY <1>2, Zenon DEF OpToRel
  <1> QED BY <1>3

\* The pipe p with other values of what a flush changes.
With(p, queue, states, bufs, results, stages, fill, exec, parse, rd, fr, running) ==
    [is_ctrl             |-> p.is_ctrl,
     pending             |-> p.pending,
     done                |-> queue,
     irp_state           |-> states,
     buf                 |-> bufs,
     result              |-> results,
     cur_stg             |-> stages,
     to_fill             |-> fill,
     to_exec             |-> exec,
     to_parse            |-> parse,
     wr_idx              |-> p.wr_idx,
     rd_idx              |-> rd,
     fr_idx              |-> fr,
     executing           |-> running,
     chan_busy           |-> p.chan_busy,
     state               |-> p.state,
     last_event          |-> p.last_event,
     waiting_xfer_done   |-> p.waiting_xfer_done,
     paused              |-> p.paused,
     pipe_cmd_processing |-> p.pipe_cmd_processing,
     is_active           |-> p.is_active]

\* The names of its fields.
Names ==
    {"is_ctrl", "pending", "done", "irp_state", "buf", "result", "cur_stg", "to_fill", "to_exec",
     "to_parse", "wr_idx", "rd_idx", "fr_idx", "executing", "chan_busy", "state", "last_event",
     "waiting_xfer_done", "paused", "pipe_cmd_processing", "is_active"}

IsRecord(q) == q = [f \in Names |-> q[f]]

SameFields(q, r) ==
    /\ q.is_ctrl = r.is_ctrl /\ q.pending = r.pending /\ q.done = r.done
    /\ q.irp_state = r.irp_state /\ q.buf = r.buf /\ q.result = r.result
    /\ q.cur_stg = r.cur_stg /\ q.to_fill = r.to_fill /\ q.to_exec = r.to_exec
    /\ q.to_parse = r.to_parse /\ q.wr_idx = r.wr_idx /\ q.rd_idx = r.rd_idx
    /\ q.fr_idx = r.fr_idx /\ q.executing = r.executing /\ q.chan_busy = r.chan_busy
    /\ q.state = r.state /\ q.last_event = r.last_event
    /\ q.waiting_xfer_done = r.waiting_xfer_done /\ q.paused = r.paused
    /\ q.pipe_cmd_processing = r.pipe_cmd_processing /\ q.is_active = r.is_active

\* Two pipes with the same values are the same.
LEMMA SameValues ==
    ASSUME NEW q, NEW r, IsRecord(q), IsRecord(r), SameFields(q, r)
    PROVE  q = r
  <1>1. \A f \in Names : q[f] = r[f]
    BY DEF Names, SameFields
  <1> QED BY <1>1 DEF IsRecord

\* With makes a pipe.
LEMMA WithIsRecord ==
    ASSUME NEW p, NEW d, NEW s, NEW b, NEW r, NEW c, NEW f, NEW e, NEW x, NEW rd, NEW fr, NEW run
    PROVE  IsRecord(With(p, d, s, b, r, c, f, e, x, rd, fr, run))
BY DEF With, IsRecord, Names

\* A pipe is what With makes of its own values.
LEMMA WithItself ==
    ASSUME NEW p \in Pipe_t
    PROVE  p = With(p, p.done, p.irp_state, p.buf, p.result, p.cur_stg, p.to_fill, p.to_exec,
                    p.to_parse, p.rd_idx, p.fr_idx, p.executing)
BY DEF Pipe_t, With

\* The values that a flush leaves alone.
SameRest(q, r) ==
    /\ q.is_ctrl = r.is_ctrl /\ q.pending = r.pending /\ q.wr_idx = r.wr_idx
    /\ q.chan_busy = r.chan_busy /\ q.state = r.state /\ q.last_event = r.last_event
    /\ q.waiting_xfer_done = r.waiting_xfer_done /\ q.paused = r.paused
    /\ q.pipe_cmd_processing = r.pipe_cmd_processing /\ q.is_active = r.is_active

\* v is q with the buffer at rd_idx marked done.
Marks(q, st, v) ==
    /\ IsRecord(v) /\ SameRest(q, v)
    /\ v.done = q.done /\ v.irp_state = q.irp_state /\ v.buf = q.buf
    /\ v.cur_stg = q.cur_stg /\ v.to_fill = q.to_fill /\ v.fr_idx = q.fr_idx
    /\ v.result = [q.result EXCEPT ![q.rd_idx] = st]
    /\ v.rd_idx = Inc(q.rd_idx)
    /\ v.to_exec = q.to_exec - 1 /\ v.to_parse = q.to_parse + 1
    /\ v.executing = FALSE

\* What marks the buffer at rd_idx done changes five of the other values.
LEMMA MarkValues ==
    ASSUME NEW q, IsRecord(q), NEW st
    PROVE  Marks(q, st, MarkDone(q, st))
  <1> DEFINE r1 == [q.result EXCEPT ![q.rd_idx] = st]
             e1 == q.to_exec - 1
             x1 == q.to_parse + 1
             rd1 == Inc(q.rd_idx)
             v == [q EXCEPT !.result = r1, !.rd_idx = rd1, !.to_exec = e1, !.to_parse = x1,
                            !.executing = FALSE]
  <1>1. MarkDone(q, st) = v
    BY DEF MarkDone
  <1> HIDE DEF r1, e1, x1, rd1
  <1>2. IsRecord(v)
    BY DEF IsRecord
  <1>3. /\ SameRest(q, v)
        /\ v.done = q.done /\ v.irp_state = q.irp_state /\ v.buf = q.buf
        /\ v.cur_stg = q.cur_stg /\ v.to_fill = q.to_fill /\ v.fr_idx = q.fr_idx
        /\ v.result = r1 /\ v.rd_idx = rd1 /\ v.to_exec = e1 /\ v.to_parse = x1
        /\ v.executing = FALSE
    BY DEF SameRest, IsRecord, Names
  <1> HIDE DEF v
  <1> QED BY <1>1, <1>2, <1>3 DEF Marks, r1, e1, x1, rd1

\* v is q with the buffer at fr_idx parsed.
Parses(q, v) ==
    /\ IsRecord(v) /\ SameRest(q, v)
    /\ v.done = Append(q.done, [irp |-> q.buf[q.fr_idx], status |-> q.result[q.fr_idx]])
    /\ v.irp_state = [q.irp_state EXCEPT ![q.buf[q.fr_idx]] = "DONE"]
    /\ v.buf = [q.buf EXCEPT ![q.fr_idx] = NoIrp]
    /\ v.result = [q.result EXCEPT ![q.fr_idx] = "NONE"]
    /\ v.cur_stg = [q.cur_stg EXCEPT ![q.fr_idx] = 0]
    /\ v.fr_idx = Inc(q.fr_idx)
    /\ v.to_fill = q.to_fill + 1 /\ v.to_parse = q.to_parse - 1
    /\ v.to_exec = q.to_exec /\ v.rd_idx = q.rd_idx /\ v.executing = q.executing

\* What parses the buffer at fr_idx changes eight of them.
LEMMA ParseValues ==
    ASSUME NEW q, IsRecord(q)
    PROVE  Parses(q, BufferParse(q))
  <1> DEFINE d1 == Append(q.done, [irp |-> q.buf[q.fr_idx], status |-> q.result[q.fr_idx]])
             s1 == [q.irp_state EXCEPT ![q.buf[q.fr_idx]] = "DONE"]
             b1 == [q.buf EXCEPT ![q.fr_idx] = NoIrp]
             r1 == [q.result EXCEPT ![q.fr_idx] = "NONE"]
             c1 == [q.cur_stg EXCEPT ![q.fr_idx] = 0]
             f1 == q.to_fill + 1
             x1 == q.to_parse - 1
             fr1 == Inc(q.fr_idx)
             v == [q EXCEPT !.irp_state = s1, !.buf = b1, !.result = r1, !.cur_stg = c1,
                            !.done = d1, !.fr_idx = fr1, !.to_parse = x1, !.to_fill = f1]
  <1>1. BufferParse(q) = v
    BY DEF BufferParse
  <1> HIDE DEF d1, s1, b1, r1, c1, f1, x1, fr1
  <1>2. IsRecord(v)
    BY DEF IsRecord
  <1>3. /\ SameRest(q, v)
        /\ v.done = d1 /\ v.irp_state = s1 /\ v.buf = b1 /\ v.result = r1 /\ v.cur_stg = c1
        /\ v.fr_idx = fr1 /\ v.to_fill = f1 /\ v.to_parse = x1
        /\ v.to_exec = q.to_exec /\ v.rd_idx = q.rd_idx /\ v.executing = q.executing
    BY DEF SameRest, IsRecord, Names
  <1> HIDE DEF v
  <1> QED BY <1>1, <1>2, <1>3 DEF Parses, d1, s1, b1, r1, c1, f1, x1, fr1
-----------------------------------------------------------------------------

\* The results after k buffers behind those to parse were marked done with st.
ResultsMarked(p, st, k) ==
    [j \in Idx |-> IF p.to_parse <= Dist(p.fr_idx, j) /\ Dist(p.fr_idx, j) < p.to_parse + k
                   THEN st ELSE p.result[j]]

\* The pipe then.
Marked(p, st, k) ==
    With(p, p.done, p.irp_state, p.buf, ResultsMarked(p, st, k), p.cur_stg, p.to_fill,
         p.to_exec - k, p.to_parse + k, Plus(p.rd_idx, k), p.fr_idx, IF k = 0 THEN p.executing ELSE FALSE)

\* The loop begins at the pipe itself.
LEMMA MarkedFirst ==
    ASSUME NEW p \in Pipe_t, RingWindows(p), NEW st
    PROVE  Marked(p, st, 0) = p
  <1>1. /\ p.fr_idx \in Idx /\ p.rd_idx \in Idx /\ p.to_parse \in Nat /\ p.to_exec \in Nat
        /\ p.result \in [Idx -> Status \union {"NONE"}] /\ p.executing \in BOOLEAN
    BY DEF Pipe_t
  <1>2. ResultsMarked(p, st, 0) = p.result
    <2>1. \A j \in Idx : Dist(p.fr_idx, j) \in Nat
      BY <1>1, IdxClosed
    <2> QED BY <1>1, <2>1 DEF ResultsMarked
  <1>3. Plus(p.rd_idx, 0) = p.rd_idx
    BY <1>1, IdxClosed
  <1>4. p.to_exec - 0 = p.to_exec /\ p.to_parse + 0 = p.to_parse
    BY <1>1
  <1>5. (IF 0 = 0 THEN p.executing ELSE FALSE) = p.executing
    OBVIOUS
  <1> QED BY <1>2, <1>3, <1>4, <1>5, WithItself DEF Marked

\* One round of it marks one buffer more.
LEMMA MarkedNext ==
    ASSUME NEW p \in Pipe_t, RingWindows(p), NEW st, NEW k \in Nat, k < p.to_exec
    PROVE  MarkDone(Marked(p, st, k), st) = Marked(p, st, k + 1)
  <1>1. /\ p.fr_idx \in Idx /\ p.rd_idx \in Idx /\ p.to_parse \in Nat /\ p.to_exec \in Nat
        /\ p.to_fill \in Nat
    BY DEF Pipe_t
  <1>2. /\ p.to_parse + p.to_exec <= NumBuffers /\ p.rd_idx = Plus(p.fr_idx, p.to_parse)
        /\ p.to_parse + k \in Nat /\ p.to_parse + k < NumBuffers /\ k < NumBuffers
    BY <1>1 DEF RingWindows, Counted, Indexed
  <1>3. Plus(p.rd_idx, k) = Plus(p.fr_idx, p.to_parse + k)
    <2>1. p.to_parse + k <= NumBuffers
      BY <1>1, <1>2, NumBuffersAssumption
    <2>2. Plus(Plus(p.fr_idx, p.to_parse), k) = Plus(p.fr_idx, p.to_parse + k)
      BY <1>1, <2>1, PlusPlus
    <2> QED BY <1>2, <2>2
  <1>4. Plus(p.rd_idx, k) \in Idx
    BY <1>1, <1>2, IdxClosed, NumBuffersAssumption
  <1>5. [ResultsMarked(p, st, k) EXCEPT ![Plus(p.rd_idx, k)] = st] = ResultsMarked(p, st, k + 1)
    <2>1. \A j \in Idx : /\ Dist(p.fr_idx, j) \in Nat
                         /\ Dist(p.fr_idx, j) = p.to_parse + k <=> j = Plus(p.rd_idx, k)
      BY <1>1, <1>2, <1>3, IdxClosed, DistIsPlus
    <2> DEFINE x == Plus(p.rd_idx, k)
               D(j) == Dist(p.fr_idx, j)
    <2> HIDE DEF x, D
    <2>2. \A j \in Idx : D(j) \in Nat /\ (D(j) = p.to_parse + k <=> j = x)
      BY <2>1 DEF D, x
    <2>3. x \in Idx
      BY <1>4 DEF x
    <2>4. /\ ResultsMarked(p, st, k)
                 = [j \in Idx |-> IF p.to_parse <= D(j) /\ D(j) < p.to_parse + k
                                  THEN st ELSE p.result[j]]
          /\ ResultsMarked(p, st, k + 1)
                 = [j \in Idx |-> IF p.to_parse <= D(j) /\ D(j) < p.to_parse + (k + 1)
                                  THEN st ELSE p.result[j]]
      BY DEF ResultsMarked, D
    <2>5. \A j \in Idx : (p.to_parse <= D(j) /\ D(j) < p.to_parse + (k + 1))
                             <=> (j = x \/ (p.to_parse <= D(j) /\ D(j) < p.to_parse + k))
      BY <1>1, <2>2
    <2>6. [ResultsMarked(p, st, k) EXCEPT ![x] = st] = ResultsMarked(p, st, k + 1)
      BY <2>3, <2>4, <2>5
    <2> QED BY <2>6 DEF x
  <1>6. Inc(Plus(p.rd_idx, k)) = Plus(p.rd_idx, k + 1)
    BY <1>1, <1>2, IncPlus
  <1>7. /\ (p.to_exec - k) - 1 = p.to_exec - (k + 1)
        /\ (p.to_parse + k) + 1 = p.to_parse + (k + 1)
        /\ k + 1 # 0
    BY <1>1
  <1> DEFINE m == Marked(p, st, k)
             u == MarkDone(m, st)
             n == Marked(p, st, k + 1)
  <1>8. /\ IsRecord(m) /\ SameRest(p, m)
        /\ m.done = p.done /\ m.irp_state = p.irp_state /\ m.buf = p.buf
        /\ m.cur_stg = p.cur_stg /\ m.to_fill = p.to_fill /\ m.fr_idx = p.fr_idx
        /\ m.result = ResultsMarked(p, st, k) /\ m.rd_idx = Plus(p.rd_idx, k)
        /\ m.to_exec = p.to_exec - k /\ m.to_parse = p.to_parse + k
    BY WithIsRecord DEF Marked, With, SameRest
  <1>9. /\ IsRecord(n) /\ SameRest(p, n)
        /\ n.done = p.done /\ n.irp_state = p.irp_state /\ n.buf = p.buf
        /\ n.cur_stg = p.cur_stg /\ n.to_fill = p.to_fill /\ n.fr_idx = p.fr_idx
        /\ n.result = ResultsMarked(p, st, k + 1) /\ n.rd_idx = Plus(p.rd_idx, k + 1)
        /\ n.to_exec = p.to_exec - (k + 1) /\ n.to_parse = p.to_parse + (k + 1)
        /\ n.executing = FALSE
    BY <1>7, WithIsRecord DEF Marked, With, SameRest
  <1> HIDE DEF m, n
  <1>10. Marks(m, st, u)
    BY <1>8, MarkValues
  <1> HIDE DEF u
  <1>11. SameFields(u, n)
    <2>1. u.result = n.result
      <3>1. u.result = [m.result EXCEPT ![m.rd_idx] = st]
        BY <1>10 DEF Marks
      <3> QED BY <1>5, <1>8, <1>9, <3>1
    <2>2. u.rd_idx = n.rd_idx
      BY <1>6, <1>8, <1>9, <1>10 DEF Marks
    <2>3. u.to_exec = n.to_exec /\ u.to_parse = n.to_parse
      BY <1>7, <1>8, <1>9, <1>10 DEF Marks
    <2>4. /\ u.done = n.done /\ u.irp_state = n.irp_state /\ u.buf = n.buf
          /\ u.cur_stg = n.cur_stg /\ u.to_fill = n.to_fill /\ u.fr_idx = n.fr_idx
          /\ u.executing = n.executing
      BY <1>8, <1>9, <1>10 DEF Marks
    <2>5. SameRest(u, n)
      BY <1>8, <1>9, <1>10 DEF Marks, SameRest
    <2> QED BY <2>1, <2>2, <2>3, <2>4, <2>5 DEF SameFields, SameRest
  <1>12. IsRecord(u)
    BY <1>10 DEF Marks
  <1> QED BY <1>9, <1>11, <1>12, SameValues DEF m, n, u

\* The first loop marks all that is to execute, oldest first, with the one status
\* that the pipe's state and its last event call for.
LEMMA AllMarked ==
    ASSUME NEW p \in Pipe_t, RingWindows(p), NEW cancelled
    PROVE  MarkAllDone(p, cancelled)
               = Marked(p, ErrorStatus(cancelled, p.state, p.last_event), p.to_exec)
  <1> DEFINE st == ErrorStatus(cancelled, p.state, p.last_event)
             n == p.to_exec
             g == [k \in 0 .. n |-> Marked(p, st, k)]
             f == CHOOSE f : f = [k \in 0 .. n |-> IF k = 0 THEN p
                                                   ELSE BufferDoneError(f[k - 1], cancelled)]
  <1>1. n \in Nat
    BY DEF Pipe_t
  <1>2. \A k \in 1 .. n : BufferDoneError(Marked(p, st, k - 1), cancelled) = Marked(p, st, k)
    <2> TAKE k \in 1 .. n
    <2> DEFINE m == Marked(p, st, k - 1)
    <2>1. m.state = p.state /\ m.last_event = p.last_event
      BY DEF Marked, With
    <2>2. MarkDone(m, st) = Marked(p, st, (k - 1) + 1)
      BY <1>1, MarkedNext
    <2>3. (k - 1) + 1 = k
      BY <1>1
    <2> HIDE DEF m
    <2>4. BufferDoneError(m, cancelled) = MarkDone(m, st)
      BY <2>1 DEF BufferDoneError
    <2> QED BY <2>2, <2>3, <2>4 DEF m
  <1>3. Marked(p, st, 0) = p
    BY MarkedFirst
  <1> HIDE DEF n, st
  <1>4. \A k \in 0 .. n : k # 0 => k \in 1 .. n /\ k - 1 \in 0 .. n
    BY <1>1
  <1>5. g = [k \in 0 .. n |-> IF k = 0 THEN p ELSE BufferDoneError(g[k - 1], cancelled)]
    <2>1. \A k \in 0 .. n : Marked(p, st, k) = IF k = 0 THEN p ELSE BufferDoneError(g[k - 1], cancelled)
      BY <1>2, <1>3, <1>4
    <2> QED BY <2>1, Zenon
  <1> HIDE DEF g
  <1>6. f = [k \in 0 .. n |-> IF k = 0 THEN p ELSE BufferDoneError(f[k - 1], cancelled)]
    BY <1>5, Zenon
  <1>7. MarkAllDone(p, cancelled) = f[n]
    BY Zenon DEF MarkAllDone, n
  <1> HIDE DEF f
  <1>8. /\ \A k \in 0 .. n : f[k] = IF k = 0 THEN p ELSE BufferDoneError(f[k - 1], cancelled)
        /\ \A k \in 0 .. n : g[k] = IF k = 0 THEN p ELSE BufferDoneError(g[k - 1], cancelled)
    BY <1>5, <1>6, Zenon
  <1> DEFINE T == {k \in 0 .. n : f[k] # g[k]}
  <1>9. T = {}
    <2> SUFFICES ASSUME T # {} PROVE FALSE
      OBVIOUS
    <2>1. T \in SUBSET Nat
      BY <1>1
    <2> HIDE DEF T
    <2>a. PICK x \in T : \A y \in T : x <= y
      BY <2>1, LeastOne
    <2> USE DEF T
    <2>2. x \in 0 .. n /\ f[x] # g[x] /\ x # 0
      BY <1>8, <2>a
    <2>3. x - 1 \in 0 .. n /\ x - 1 \notin T
      BY <1>1, <2>a, <2>2
    <2> QED BY <1>8, <2>2, <2>3
  <1>10. f[n] = g[n]
    BY <1>1, <1>9
  <1>11. g[n] = Marked(p, st, n)
    BY <1>1 DEF g
  <1> QED BY <1>7, <1>10, <1>11 DEF st, n

\* What the parsing of the k oldest buffers puts into the done queue.
Reports(q, k) ==
    [l \in 1 .. k |-> [irp    |-> q.buf[Plus(q.fr_idx, l - 1)],
                       status |-> q.result[Plus(q.fr_idx, l - 1)]]]

\* The states of the IRPs then.
StatesParsed(q, k) ==
    [i \in Irp |-> IF \E j \in Idx : Dist(q.fr_idx, j) < k /\ q.buf[j] = i
                   THEN "DONE" ELSE q.irp_state[i]]

\* What an array of the buffers holds when the entries of the k oldest are cleared.
ClearedTo(q, k, array, nil) ==
    [j \in Idx |-> IF Dist(q.fr_idx, j) < k THEN nil ELSE array[j]]

\* The pipe after k buffers were parsed.
Parsed(q, k) ==
    With(q, q.done \o Reports(q, k), StatesParsed(q, k), ClearedTo(q, k, q.buf, NoIrp),
         ClearedTo(q, k, q.result, "NONE"), ClearedTo(q, k, q.cur_stg, 0),
         q.to_fill + k, q.to_exec, q.to_parse - k, q.rd_idx, Plus(q.fr_idx, k), q.executing)

\* A pipe whose buffers that wait to be parsed hold IRPs.
CanParse(q) ==
    /\ q \in Pipe_t
    /\ \A k \in Nat : k < q.to_parse => q.buf[Plus(q.fr_idx, k)] \in Irp

\* A cleared array with one more entry cleared.
LEMMA ClearedNext ==
    ASSUME NEW q, q.fr_idx \in Idx, NEW k \in Nat, k < NumBuffers, NEW array, NEW nil
    PROVE  [ClearedTo(q, k, array, nil) EXCEPT ![Plus(q.fr_idx, k)] = nil]
               = ClearedTo(q, k + 1, array, nil)
  <1> DEFINE x == Plus(q.fr_idx, k)
             D(j) == Dist(q.fr_idx, j)
  <1>1. \A j \in Idx : D(j) \in Nat /\ (D(j) = k <=> j = x)
    BY IdxClosed, DistIsPlus
  <1>2. x \in Idx
    BY IdxClosed, NumBuffersAssumption
  <1>3. /\ ClearedTo(q, k, array, nil) = [j \in Idx |-> IF D(j) < k THEN nil ELSE array[j]]
        /\ ClearedTo(q, k + 1, array, nil) = [j \in Idx |-> IF D(j) < k + 1 THEN nil ELSE array[j]]
    BY DEF ClearedTo
  <1> HIDE DEF x, D
  <1>4. \A j \in Idx : D(j) < k + 1 <=> j = x \/ D(j) < k
    <2>1. \A j \in Idx : D(j) < k + 1 <=> D(j) = k \/ D(j) < k
      BY <1>1
    <2> QED BY <1>1, <2>1
  <1>5. [ClearedTo(q, k, array, nil) EXCEPT ![x] = nil] = ClearedTo(q, k + 1, array, nil)
    BY <1>2, <1>3, <1>4
  <1> QED BY <1>5 DEF x

\* One more report.
LEMMA ReportsNext ==
    ASSUME NEW q, NEW k \in Nat
    PROVE  Reports(q, k + 1)
               = Append(Reports(q, k), [irp    |-> q.buf[Plus(q.fr_idx, k)],
                                        status |-> q.result[Plus(q.fr_idx, k)]])
  <1> DEFINE R(l) == [irp |-> q.buf[Plus(q.fr_idx, l - 1)], status |-> q.result[Plus(q.fr_idx, l - 1)]]
             S == {R(l) : l \in 1 .. k + 1}
  <1>1. /\ Reports(q, k) = [l \in 1 .. k |-> R(l)]
        /\ Reports(q, k + 1) = [l \in 1 .. k + 1 |-> R(l)]
    BY DEF Reports
  <1>2. R(k + 1) = [irp |-> q.buf[Plus(q.fr_idx, k)], status |-> q.result[Plus(q.fr_idx, k)]]
    <2>1. (k + 1) - 1 = k
      OBVIOUS
    <2> QED BY <2>1
  <1> HIDE DEF R
  <1>3. R(k + 1) \in S /\ \A l \in 1 .. k : R(l) \in S
    OBVIOUS
  <1> HIDE DEF S
  <1>4. Reports(q, k) \in Seq(S) /\ Len(Reports(q, k)) = k
    BY <1>1, <1>3
  <1>5. Append(Reports(q, k), R(k + 1)) = [l \in 1 .. k + 1 |-> R(l)]
    <2>1. \A l \in 1 .. k + 1 : Append(Reports(q, k), R(k + 1))[l] = R(l)
      BY <1>1, <1>3, <1>4, AppendProperties
    <2>2. Append(Reports(q, k), R(k + 1)) \in Seq(S) /\ Len(Append(Reports(q, k), R(k + 1))) = k + 1
      BY <1>3, <1>4, AppendProperties
    <2> QED BY <2>1, <2>2
  <1> QED BY <1>1, <1>2, <1>5

\* The loop begins at the pipe itself.
LEMMA ParsedFirst ==
    ASSUME NEW q \in Pipe_t
    PROVE  Parsed(q, 0) = q
  <1>1. /\ q.fr_idx \in Idx /\ q.to_parse \in Nat /\ q.to_fill \in Nat
        /\ q.done \in Seq(DoneIrp) /\ q.irp_state \in [Irp -> IrpState]
        /\ q.buf \in [Idx -> Irp \union {NoIrp}]
        /\ q.result \in [Idx -> Status \union {"NONE"}]
        /\ q.cur_stg \in [Idx -> 0 .. 2]
    BY DEF Pipe_t
  <1>2. \A j \in Idx : Dist(q.fr_idx, j) \in Nat
    BY <1>1, IdxClosed
  <1>3. /\ ClearedTo(q, 0, q.buf, NoIrp) = q.buf
        /\ ClearedTo(q, 0, q.result, "NONE") = q.result
        /\ ClearedTo(q, 0, q.cur_stg, 0) = q.cur_stg
    BY <1>1, <1>2 DEF ClearedTo
  <1>4. StatesParsed(q, 0) = q.irp_state
    BY <1>1, <1>2 DEF StatesParsed
  <1>5. Reports(q, 0) = << >>
    BY DEF Reports
  <1>6. q.done \o << >> = q.done
    BY <1>1
  <1>7. Plus(q.fr_idx, 0) = q.fr_idx /\ q.to_fill + 0 = q.to_fill /\ q.to_parse - 0 = q.to_parse
    BY <1>1, IdxClosed
  <1> QED BY <1>3, <1>4, <1>5, <1>6, <1>7, WithItself DEF Parsed

\* One round of it parses one buffer more.
LEMMA ParsedNext ==
    ASSUME NEW q, CanParse(q), NEW k \in Nat, k < q.to_parse
    PROVE  BufferParse(Parsed(q, k)) = Parsed(q, k + 1)
  <1> DEFINE x == Plus(q.fr_idx, k)
             m == Parsed(q, k)
             u == BufferParse(m)
             n == Parsed(q, k + 1)
  <1>1. /\ q.fr_idx \in Idx /\ q.to_parse \in Nat /\ q.to_parse <= NumBuffers /\ q.to_fill \in Nat
        /\ q.done \in Seq(DoneIrp) /\ q.irp_state \in [Irp -> IrpState]
        /\ q.buf[x] \in Irp /\ q.buf \in [Idx -> Irp \union {NoIrp}]
    BY NumBuffersAssumption DEF CanParse, Pipe_t
  <1>2. k < NumBuffers
    BY <1>1, NumBuffersAssumption
  <1>3. x \in Idx /\ Dist(q.fr_idx, x) = k /\ Inc(x) = Plus(q.fr_idx, k + 1)
    <2>1. x \in Idx
      <3>1. k \in 0 .. NumBuffers
        BY <1>2, NumBuffersAssumption
      <3> QED BY <1>1, <3>1, IdxClosed
    <2>2. Dist(q.fr_idx, x) = k
      BY <1>1, <1>2, <2>1, DistIsPlus
    <2>3. Inc(x) = Plus(q.fr_idx, k + 1)
      BY <1>1, <1>2, IncPlus
    <2> QED BY <2>1, <2>2, <2>3
  <1>4. /\ IsRecord(m) /\ SameRest(q, m)
        /\ m.done = q.done \o Reports(q, k) /\ m.irp_state = StatesParsed(q, k)
        /\ m.buf = ClearedTo(q, k, q.buf, NoIrp) /\ m.result = ClearedTo(q, k, q.result, "NONE")
        /\ m.cur_stg = ClearedTo(q, k, q.cur_stg, 0) /\ m.to_fill = q.to_fill + k
        /\ m.to_exec = q.to_exec /\ m.to_parse = q.to_parse - k /\ m.rd_idx = q.rd_idx
        /\ m.fr_idx = x /\ m.executing = q.executing
    BY WithIsRecord DEF Parsed, With, SameRest
  <1>5. /\ IsRecord(n) /\ SameRest(q, n)
        /\ n.done = q.done \o Reports(q, k + 1) /\ n.irp_state = StatesParsed(q, k + 1)
        /\ n.buf = ClearedTo(q, k + 1, q.buf, NoIrp)
        /\ n.result = ClearedTo(q, k + 1, q.result, "NONE")
        /\ n.cur_stg = ClearedTo(q, k + 1, q.cur_stg, 0) /\ n.to_fill = q.to_fill + (k + 1)
        /\ n.to_exec = q.to_exec /\ n.to_parse = q.to_parse - (k + 1) /\ n.rd_idx = q.rd_idx
        /\ n.fr_idx = Plus(q.fr_idx, k + 1) /\ n.executing = q.executing
    BY WithIsRecord DEF Parsed, With, SameRest
  <1> HIDE DEF m, n
  <1>6. Parses(m, u)
    BY <1>4, ParseValues
  <1> HIDE DEF u
  <1>7. m.buf[x] = q.buf[x] /\ m.result[x] = q.result[x]
    BY <1>3, <1>4 DEF ClearedTo
  <1>8. u.done = n.done
    <2> DEFINE r == [irp |-> q.buf[x], status |-> q.result[x]]
               S == {r} \union DoneIrp \union {Reports(q, k)[l] : l \in 1 .. k}
    <2>1. u.done = Append(m.done, r)
      BY <1>4, <1>6, <1>7 DEF Parses
    <2>2. Reports(q, k + 1) = Append(Reports(q, k), r)
      BY ReportsNext
    <2>3. Reports(q, k) = [l \in 1 .. k |-> Reports(q, k)[l]]
      BY DEF Reports
    <2>4. r \in S /\ (\A l \in 1 .. k : Reports(q, k)[l] \in S) /\ DoneIrp \subseteq S
      OBVIOUS
    <2> HIDE DEF r, S
    <2>5. Reports(q, k) \in Seq(S)
      BY <2>3, <2>4
    <2>6. q.done \in Seq(S)
      BY <1>1, <2>4
    <2>7. q.done \o Append(Reports(q, k), r) = Append(q.done \o Reports(q, k), r)
      <3> DEFINE R == Reports(q, k)
                 d == q.done
      <3>1. R \in Seq(S) /\ d \in Seq(S)
        BY <2>5, <2>6
      <3> HIDE DEF R, d
      <3>2. d \o Append(R, r) = Append(d \o R, r)
        BY <2>4, <3>1, ConcatAppend
      <3> QED BY <3>2 DEF R, d
    <2> QED BY <1>4, <1>5, <2>1, <2>2, <2>7
  <1>9. u.irp_state = n.irp_state
    <2> DEFINE Held(i, l) == \E j \in Idx : Dist(q.fr_idx, j) < l /\ q.buf[j] = i
    <2>1. \A j \in Idx : Dist(q.fr_idx, j) \in Nat /\ (Dist(q.fr_idx, j) = k <=> j = x)
      <3> TAKE j \in Idx
      <3>1. Dist(q.fr_idx, j) \in Nat
        BY <1>1, IdxClosed
      <3>2. Dist(q.fr_idx, j) = k <=> j = x
        BY <1>1, <1>2, DistIsPlus
      <3> QED BY <3>1, <3>2
    <2>2. \A i \in Irp : Held(i, k + 1) <=> Held(i, k) \/ q.buf[x] = i
      BY <1>3, <2>1
    <2>3. /\ m.irp_state = [i \in Irp |-> IF Held(i, k) THEN "DONE" ELSE q.irp_state[i]]
          /\ n.irp_state = [i \in Irp |-> IF Held(i, k + 1) THEN "DONE" ELSE q.irp_state[i]]
      BY <1>4, <1>5 DEF StatesParsed
    <2> DEFINE A(i) == Held(i, k)
               B(i) == Held(i, k + 1)
               z == q.buf[x]
    <2> HIDE DEF Held
    <2>4. u.irp_state = [m.irp_state EXCEPT ![z] = "DONE"]
      BY <1>4, <1>6, <1>7 DEF Parses
    <2>5. z \in Irp /\ \A i \in Irp : B(i) <=> A(i) \/ z = i
      BY <1>1, <2>2
    <2>6. /\ m.irp_state = [i \in Irp |-> IF A(i) THEN "DONE" ELSE q.irp_state[i]]
          /\ n.irp_state = [i \in Irp |-> IF B(i) THEN "DONE" ELSE q.irp_state[i]]
      BY <2>3
    <2> HIDE DEF A, B, z
    <2> QED BY <2>4, <2>5, <2>6
  <1>10. u.buf = n.buf
    BY <1>1, <1>2, <1>4, <1>5, <1>6, ClearedNext DEF Parses
  <1>11. u.result = n.result
    BY <1>1, <1>2, <1>4, <1>5, <1>6, ClearedNext DEF Parses
  <1>12. u.cur_stg = n.cur_stg
    BY <1>1, <1>2, <1>4, <1>5, <1>6, ClearedNext DEF Parses
  <1>13. u.fr_idx = n.fr_idx /\ u.to_fill = n.to_fill /\ u.to_parse = n.to_parse
    BY <1>1, <1>3, <1>4, <1>5, <1>6 DEF Parses
  <1>14. u.to_exec = n.to_exec /\ u.rd_idx = n.rd_idx /\ u.executing = n.executing
    BY <1>4, <1>5, <1>6 DEF Parses
  <1>15. SameRest(u, n) /\ IsRecord(u)
    BY <1>4, <1>5, <1>6 DEF Parses, SameRest
  <1>16. SameFields(u, n)
    BY <1>8, <1>9, <1>10, <1>11, <1>12, <1>13, <1>14, <1>15 DEF SameFields, SameRest
  <1> QED BY <1>5, <1>15, <1>16, SameValues DEF m, n, u

\* The second loop parses all that is to parse, oldest first.
LEMMA AllParsed ==
    ASSUME NEW q, CanParse(q)
    PROVE  ParseAll(q) = Parsed(q, q.to_parse)
  <1> DEFINE n == q.to_parse
             g == [k \in 0 .. n |-> Parsed(q, k)]
             f == CHOOSE f : f = [k \in 0 .. n |-> IF k = 0 THEN q ELSE BufferParse(f[k - 1])]
  <1>1. n \in Nat
    BY NumBuffersAssumption DEF CanParse, Pipe_t
  <1>2. \A k \in 1 .. n : BufferParse(Parsed(q, k - 1)) = Parsed(q, k)
    <2> TAKE k \in 1 .. n
    <2>1. BufferParse(Parsed(q, k - 1)) = Parsed(q, (k - 1) + 1)
      BY <1>1, ParsedNext
    <2>2. (k - 1) + 1 = k
      BY <1>1
    <2> QED BY <2>1, <2>2
  <1>3. Parsed(q, 0) = q
    BY ParsedFirst DEF CanParse
  <1> HIDE DEF n
  <1>4. \A k \in 0 .. n : k # 0 => k \in 1 .. n /\ k - 1 \in 0 .. n
    BY <1>1
  <1>5. g = [k \in 0 .. n |-> IF k = 0 THEN q ELSE BufferParse(g[k - 1])]
    <2>1. \A k \in 0 .. n : Parsed(q, k) = IF k = 0 THEN q ELSE BufferParse(g[k - 1])
      BY <1>2, <1>3, <1>4
    <2> QED BY <2>1, Zenon
  <1> HIDE DEF g
  <1>6. f = [k \in 0 .. n |-> IF k = 0 THEN q ELSE BufferParse(f[k - 1])]
    BY <1>5, Zenon
  <1>7. ParseAll(q) = f[n]
    BY Zenon DEF ParseAll, n
  <1> HIDE DEF f
  <1>8. /\ \A k \in 0 .. n : f[k] = IF k = 0 THEN q ELSE BufferParse(f[k - 1])
        /\ \A k \in 0 .. n : g[k] = IF k = 0 THEN q ELSE BufferParse(g[k - 1])
    BY <1>5, <1>6, Zenon
  <1> DEFINE T == {k \in 0 .. n : f[k] # g[k]}
  <1>9. T = {}
    <2> SUFFICES ASSUME T # {} PROVE FALSE
      OBVIOUS
    <2>1. T \in SUBSET Nat
      BY <1>1
    <2> HIDE DEF T
    <2>2. PICK x \in T : \A y \in T : x <= y
      BY <2>1, LeastOne
    <2> USE DEF T
    <2>3. x \in 0 .. n /\ f[x] # g[x] /\ x # 0
      BY <1>8, <2>2
    <2>4. x - 1 \in 0 .. n /\ x - 1 \notin T
      BY <1>1, <2>2, <2>3
    <2> QED BY <1>8, <2>3, <2>4
  <1>10. f[n] = g[n]
    BY <1>1, <1>9
  <1>11. g[n] = Parsed(q, n)
    BY <1>1 DEF g
  <1> QED BY <1>7, <1>10, <1>11 DEF n

\* What the flush of one step leaves.
FlushValues(p, st, v) ==
    LET n == p.to_parse + p.to_exec
        StatusAt(k) == IF k <= p.to_parse THEN p.result[Plus(p.fr_idx, k - 1)] ELSE st
    IN  /\ IsRecord(v) /\ SameRest(p, v)
        /\ v.done = p.done \o [k \in 1 .. n |-> [irp |-> InFlight(p)[k], status |-> StatusAt(k)]]
        /\ v.irp_state = [i \in Irp |-> IF \E j \in Filled(p) : p.buf[j] = i
                                        THEN "DONE" ELSE p.irp_state[i]]
        /\ v.buf = [j \in Idx |-> IF j \in Filled(p) THEN NoIrp ELSE p.buf[j]]
        /\ v.result = [j \in Idx |-> IF j \in Filled(p) THEN "NONE" ELSE p.result[j]]
        /\ v.cur_stg = [j \in Idx |-> IF j \in Filled(p) THEN 0 ELSE p.cur_stg[j]]
        /\ v.rd_idx = p.wr_idx /\ v.fr_idx = p.wr_idx
        /\ v.to_fill = p.to_fill + n /\ v.to_exec = 0 /\ v.to_parse = 0
        /\ v.executing = IF p.to_exec > 0 THEN FALSE ELSE p.executing

\* The values are those of BufferFlushAll.
LEMMA FlushedValues ==
    ASSUME NEW p \in Pipe_t, NEW cancelled
    PROVE  FlushValues(p, ErrorStatus(cancelled, p.state, p.last_event), BufferFlushAll(p, cancelled))
  <1> DEFINE n == p.to_parse + p.to_exec
             st == ErrorStatus(cancelled, p.state, p.last_event)
             StatusAt(k) == IF k <= p.to_parse THEN p.result[Plus(p.fr_idx, k - 1)] ELSE st
             d1 == p.done \o [k \in 1 .. n |-> [irp |-> InFlight(p)[k], status |-> StatusAt(k)]]
             s1 == [i \in Irp |-> IF \E j \in Filled(p) : p.buf[j] = i
                                  THEN "DONE" ELSE p.irp_state[i]]
             b1 == [j \in Idx |-> IF j \in Filled(p) THEN NoIrp ELSE p.buf[j]]
             r1 == [j \in Idx |-> IF j \in Filled(p) THEN "NONE" ELSE p.result[j]]
             c1 == [j \in Idx |-> IF j \in Filled(p) THEN 0 ELSE p.cur_stg[j]]
             f1 == p.to_fill + n
             x1 == IF p.to_exec > 0 THEN FALSE ELSE p.executing
             v == [p EXCEPT !.done = d1, !.irp_state = s1, !.buf = b1, !.result = r1, !.cur_stg = c1,
                            !.rd_idx = p.wr_idx, !.fr_idx = p.wr_idx, !.to_fill = f1,
                            !.to_exec = 0, !.to_parse = 0, !.executing = x1]
  <1>1. BufferFlushAll(p, cancelled) = v
    BY DEF BufferFlushAll
  <1>2. IsRecord(p)
    BY DEF IsRecord, Names, Pipe_t
  <1> HIDE DEF d1, s1, b1, r1, c1, f1, x1
  <1>3. IsRecord(v)
    BY <1>2 DEF IsRecord
  <1>4. /\ SameRest(p, v)
        /\ v.done = d1 /\ v.irp_state = s1 /\ v.buf = b1 /\ v.result = r1 /\ v.cur_stg = c1
        /\ v.rd_idx = p.wr_idx /\ v.fr_idx = p.wr_idx
        /\ v.to_fill = f1 /\ v.to_exec = 0 /\ v.to_parse = 0 /\ v.executing = x1
    BY <1>2 DEF SameRest, IsRecord, Names
  <1> HIDE DEF v
  <1> QED BY <1>1, <1>3, <1>4 DEF FlushValues, d1, s1, b1, r1, c1, f1, x1

\* Marking leaves a pipe that can be parsed.
LEMMA MarkedCanParse ==
    ASSUME NEW p \in Pipe_t, RingWindows(p), NEW st \in Status \union {"NONE"}
    PROVE  CanParse(Marked(p, st, p.to_exec))
  <1> DEFINE q == Marked(p, st, p.to_exec)
             rs == ResultsMarked(p, st, p.to_exec)
             te == p.to_exec - p.to_exec
             tp == p.to_parse + p.to_exec
             rd == Plus(p.rd_idx, p.to_exec)
             run == IF p.to_exec = 0 THEN p.executing ELSE FALSE
  <1>1. /\ p.fr_idx \in Idx /\ p.rd_idx \in Idx /\ p.to_parse \in Nat /\ p.to_exec \in Nat
        /\ p.to_exec \in 0 .. NumBuffers /\ p.to_fill \in Nat
        /\ p.result \in [Idx -> Status \union {"NONE"}] /\ p.executing \in BOOLEAN
        /\ p.buf \in [Idx -> Irp \union {NoIrp}]
    BY DEF Pipe_t
  <1>2. te \in 0 .. NumBuffers /\ tp \in 0 .. NumBuffers
    BY <1>1, NumBuffersAssumption DEF RingWindows, Counted
  <1>3. rd \in Idx
    BY <1>1, IdxClosed
  <1>4. rs \in [Idx -> Status \union {"NONE"}]
    BY <1>1 DEF ResultsMarked
  <1>5. run \in BOOLEAN
    BY <1>1
  <1>6. q = With(p, p.done, p.irp_state, p.buf, rs, p.cur_stg, p.to_fill, te, tp, rd, p.fr_idx, run)
    BY DEF Marked
  <1> HIDE DEF q, rs, te, rd, run
  <1>7. q \in Pipe_t
    BY <1>2, <1>3, <1>4, <1>5, <1>6 DEF With, Pipe_t
  <1>8. q.buf = p.buf /\ q.fr_idx = p.fr_idx /\ q.to_parse = tp
    BY <1>6 DEF With
  <1>9. ASSUME NEW k \in Nat, k < tp PROVE p.buf[Plus(p.fr_idx, k)] \in Irp
    <2>1. k < NumBuffers /\ k \in 0 .. NumBuffers
      BY <1>2, <1>9, NumBuffersAssumption
    <2>2. Plus(p.fr_idx, k) \in Idx
      BY <1>1, <2>1, IdxClosed
    <2>3. Dist(p.fr_idx, Plus(p.fr_idx, k)) = k
      BY <1>1, <2>1, <2>2, DistIsPlus
    <2>4. p.buf[Plus(p.fr_idx, k)] # NoIrp
      BY <1>9, <2>2, <2>3 DEF RingWindows, Occupied, Filled
    <2> QED BY <1>1, <2>2, <2>4
  <1>10. \A k \in Nat : k < q.to_parse => q.buf[Plus(q.fr_idx, k)] \in Irp
    BY <1>8, <1>9
  <1> QED BY <1>7, <1>10 DEF CanParse, q

\* The flush of one step is what the two loops make.
LEMMA FlushIsLoops ==
    ASSUME NEW p \in Pipe_t, RingWindows(p), NEW cancelled \in BOOLEAN
    PROVE  BufferFlushAll(p, cancelled) = ParseAll(MarkAllDone(p, cancelled))
  <1> DEFINE st == ErrorStatus(cancelled, p.state, p.last_event)
             n == p.to_parse + p.to_exec
             rs == ResultsMarked(p, st, p.to_exec)
             q == Marked(p, st, p.to_exec)
             v == BufferFlushAll(p, cancelled)
             u == Parsed(q, n)
             D(j) == Dist(p.fr_idx, j)
  <1>1. st \in Status \union {"NONE"}
    <2>1. p.last_event \in PipeEvent
      BY DEF Pipe_t
    <2> QED BY <2>1 DEF ErrorStatus, Status, Fatal, PipeEvent
  <1>2. /\ p.fr_idx \in Idx /\ p.rd_idx \in Idx /\ p.to_parse \in Nat /\ p.to_exec \in Nat
        /\ p.to_fill \in Nat /\ p.result \in [Idx -> Status \union {"NONE"}]
        /\ n \in Nat /\ n <= NumBuffers /\ p.wr_idx = Plus(p.fr_idx, n)
        /\ p.wr_idx = Plus(p.rd_idx, p.to_exec)
    BY WindowEnd DEF Pipe_t, RingWindows, Indexed
  <1>3. /\ SameRest(p, q)
        /\ q.done = p.done /\ q.irp_state = p.irp_state /\ q.buf = p.buf /\ q.cur_stg = p.cur_stg
        /\ q.result = rs /\ q.fr_idx = p.fr_idx /\ q.rd_idx = p.wr_idx
        /\ q.to_fill = p.to_fill /\ q.to_exec = 0 /\ q.to_parse = n
        /\ q.executing = IF p.to_exec = 0 THEN p.executing ELSE FALSE
    BY <1>2 DEF Marked, With, SameRest
  <1>4. ParseAll(MarkAllDone(p, cancelled)) = u
    <2>1. CanParse(q)
      BY <1>1, MarkedCanParse
    <2>2. MarkAllDone(p, cancelled) = q
      BY AllMarked
    <2> HIDE DEF q
    <2> QED BY <1>3, <2>1, <2>2, AllParsed
  <1> HIDE DEF q
  <1>5. /\ IsRecord(u) /\ SameRest(q, u)
        /\ u.done = q.done \o Reports(q, n) /\ u.irp_state = StatesParsed(q, n)
        /\ u.buf = ClearedTo(q, n, q.buf, NoIrp) /\ u.result = ClearedTo(q, n, q.result, "NONE")
        /\ u.cur_stg = ClearedTo(q, n, q.cur_stg, 0) /\ u.to_fill = q.to_fill + n
        /\ u.to_exec = q.to_exec /\ u.to_parse = q.to_parse - n /\ u.rd_idx = q.rd_idx
        /\ u.fr_idx = Plus(q.fr_idx, n) /\ u.executing = q.executing
    BY WithIsRecord DEF Parsed, With, SameRest
  <1>6. FlushValues(p, st, v)
    BY FlushedValues
  <1> HIDE DEF u, v, st, rs
  <1>7. \A j \in Idx : D(j) \in Nat /\ (j \in Filled(p) <=> D(j) < n)
    BY <1>2, IdxClosed DEF Filled
  <1>8. u.done = v.done
    <2> DEFINE StatusAt(k) == IF k <= p.to_parse THEN p.result[Plus(p.fr_idx, k - 1)] ELSE st
               b(k) == p.buf[Plus(p.fr_idx, k - 1)]
               t(k) == rs[Plus(p.fr_idx, k - 1)]
    <2>1. v.done = p.done \o [k \in 1 .. n |-> [irp |-> InFlight(p)[k], status |-> StatusAt(k)]]
      BY <1>6 DEF FlushValues
    <2>2. Reports(q, n) = [k \in 1 .. n |-> [irp |-> b(k), status |-> t(k)]]
      BY <1>3 DEF Reports
    <2>3. \A k \in 1 .. n : InFlight(p)[k] = b(k)
      BY DEF InFlight
    <2>4. ASSUME NEW k \in 1 .. n PROVE t(k) = StatusAt(k)
      <3> DEFINE x == Plus(p.fr_idx, k - 1)
      <3>1. k - 1 \in Nat /\ k - 1 < NumBuffers /\ k - 1 \in 0 .. NumBuffers
        BY <1>2, NumBuffersAssumption
      <3>2. x \in Idx
        BY <1>2, <3>1, IdxClosed
      <3>3. Dist(p.fr_idx, x) = k - 1
        BY <1>2, <3>1, <3>2, DistIsPlus
      <3>4. rs[x] = IF p.to_parse <= k - 1 /\ k - 1 < p.to_parse + p.to_exec THEN st ELSE p.result[x]
        BY <3>2, <3>3 DEF rs, ResultsMarked
      <3>5. k <= p.to_parse <=> ~(p.to_parse <= k - 1 /\ k - 1 < p.to_parse + p.to_exec)
        BY <1>2
      <3> HIDE DEF x
      <3>6. t(k) = rs[x] /\ StatusAt(k) = IF k <= p.to_parse THEN p.result[x] ELSE st
        BY DEF x
      <3> QED BY <3>4, <3>5, <3>6
    <2> HIDE DEF b, t, StatusAt
    <2>5. [k \in 1 .. n |-> [irp |-> b(k), status |-> t(k)]]
              = [k \in 1 .. n |-> [irp |-> InFlight(p)[k], status |-> StatusAt(k)]]
      BY <2>3, <2>4
    <2> QED BY <1>3, <1>5, <2>1, <2>2, <2>5
  <1>9. u.irp_state = v.irp_state
    <2> DEFINE A(i) == \E j \in Idx : D(j) < n /\ p.buf[j] = i
               B(i) == \E j \in Filled(p) : p.buf[j] = i
    <2>1. \A i \in Irp : A(i) <=> B(i)
      BY <1>7 DEF Filled
    <2>2. u.irp_state = [i \in Irp |-> IF A(i) THEN "DONE" ELSE p.irp_state[i]]
      BY <1>3, <1>5 DEF StatesParsed
    <2>3. v.irp_state = [i \in Irp |-> IF B(i) THEN "DONE" ELSE p.irp_state[i]]
      BY <1>6 DEF FlushValues
    <2> HIDE DEF A, B
    <2> QED BY <2>1, <2>2, <2>3
  <1>10. u.buf = v.buf
    <2>1. u.buf = [j \in Idx |-> IF D(j) < n THEN NoIrp ELSE p.buf[j]]
      BY <1>3, <1>5 DEF ClearedTo
    <2>2. v.buf = [j \in Idx |-> IF j \in Filled(p) THEN NoIrp ELSE p.buf[j]]
      BY <1>6 DEF FlushValues
    <2> HIDE DEF D
    <2> QED BY <1>7, <2>1, <2>2
  <1>11. u.cur_stg = v.cur_stg
    <2>1. u.cur_stg = [j \in Idx |-> IF D(j) < n THEN 0 ELSE p.cur_stg[j]]
      BY <1>3, <1>5 DEF ClearedTo
    <2>2. v.cur_stg = [j \in Idx |-> IF j \in Filled(p) THEN 0 ELSE p.cur_stg[j]]
      BY <1>6 DEF FlushValues
    <2> HIDE DEF D
    <2> QED BY <1>7, <2>1, <2>2
  <1>12. u.result = v.result
    <2>1. u.result = [j \in Idx |-> IF D(j) < n THEN "NONE" ELSE rs[j]]
      BY <1>3, <1>5 DEF ClearedTo
    <2>2. v.result = [j \in Idx |-> IF j \in Filled(p) THEN "NONE" ELSE p.result[j]]
      BY <1>6 DEF FlushValues
    <2>3. \A j \in Idx : D(j) < n \/ rs[j] = p.result[j]
      BY <1>2, <1>7 DEF rs, ResultsMarked
    <2> HIDE DEF D
    <2> QED BY <1>7, <2>1, <2>2, <2>3
  <1>13. u.rd_idx = v.rd_idx /\ u.fr_idx = v.fr_idx
    BY <1>2, <1>3, <1>5, <1>6 DEF FlushValues
  <1>14. u.to_fill = v.to_fill /\ u.to_exec = v.to_exec /\ u.to_parse = v.to_parse
    BY <1>2, <1>3, <1>5, <1>6 DEF FlushValues
  <1>15. u.executing = v.executing
    <2>1. v.executing = IF p.to_exec > 0 THEN FALSE ELSE p.executing
      BY <1>6 DEF FlushValues
    <2>2. p.to_exec > 0 <=> p.to_exec # 0
      BY <1>2
    <2> QED BY <1>3, <1>5, <2>1, <2>2
  <1>16. SameRest(u, v) /\ IsRecord(v)
    BY <1>3, <1>5, <1>6 DEF FlushValues, SameRest
  <1>17. SameFields(u, v)
    BY <1>8, <1>9, <1>10, <1>11, <1>12, <1>13, <1>14, <1>15, <1>16 DEF SameFields, SameRest
  <1> QED BY <1>4, <1>5, <1>16, <1>17, SameValues DEF u, v

\* A completed transfer leaves a pipe whose ring is consistent, too, before its
\* buffer is parsed.
LEMMA CompletedRing ==
    ASSUME NEW p \in Pipe_t, RingOK(p), p.to_exec > 0
    PROVE  BufferDone(p) \in Pipe_t /\ RingWindows(BufferDone(p))
  <1> DEFINE q == BufferDone(p)
             r == [p.result EXCEPT ![p.rd_idx] = "COMPLETED"]
             rd == Inc(p.rd_idx)
             te == p.to_exec - 1
             tp == p.to_parse + 1
  <1>1. /\ p.to_parse = 0 /\ p.to_exec \in 0 .. NumBuffers /\ p.rd_idx \in Idx
        /\ p.result \in [Idx -> Status \union {"NONE"}]
    BY DEF Pipe_t, RingOK
  <1>2. te \in 0 .. NumBuffers /\ tp \in 0 .. NumBuffers /\ rd \in Idx
    BY <1>1, NumBuffersAssumption, IdxClosed
  <1>3. r \in [Idx -> Status \union {"NONE"}] /\ "COMPLETED" \in Status
    BY <1>1 DEF Status
  <1>4. q = [p EXCEPT !.result = r, !.rd_idx = rd, !.to_exec = te, !.to_parse = tp, !.executing = FALSE]
    BY DEF BufferDone, MarkDone
  <1>5. /\ q.result = r /\ q.rd_idx = rd /\ q.to_exec = te /\ q.to_parse = tp /\ ~q.executing
        /\ q.fr_idx = p.fr_idx /\ q.wr_idx = p.wr_idx /\ q.to_fill = p.to_fill
        /\ q.pending = p.pending /\ q.buf = p.buf /\ q.done = p.done /\ q.irp_state = p.irp_state
        /\ q.is_active = p.is_active
    BY <1>4 DEF Pipe_t
  <1> HIDE DEF q, r, rd, te, tp
  <1>6. q \in Pipe_t
    BY <1>2, <1>3, <1>4 DEF Pipe_t
  <1>7. DoneStep(p, q)
    BY <1>3, <1>5 DEF DoneStep, r, rd, te, tp
  <1> QED BY <1>6, <1>7, DoneRing DEF RingOK, q

\* The flush of one step is what the code's two loops make, buffer by buffer, of every
\* pipe that is reached, whatever mix of executed, executing and filled buffers it
\* has, and for any number of buffers.
THEOREM FlushInOneStep == Spec => []FlushAgrees
  <1>1. IInv => FlushAgrees
    <2> SUFFICES ASSUME IInv, NEW p \in Pipe, NEW cancelled \in BOOLEAN,
                        NEW pipe \in {pipes[p]} \union
                                     (IF pipes[p].to_exec > 0 THEN {BufferDone(pipes[p])} ELSE {})
                 PROVE  BufferFlushAll(pipe, cancelled) = ParseAll(MarkAllDone(pipe, cancelled))
      BY DEF FlushAgrees
    <2>1. pipes[p] \in Pipe_t /\ RingOK(pipes[p])
      BY DEF IInv, TypeOK, RingConsistent
    <2>2. pipe \in Pipe_t /\ RingWindows(pipe)
      <3>1. CASE pipe = pipes[p]
        BY <2>1, <3>1 DEF RingOK
      <3>2. CASE pipe # pipes[p]
        <4>1. pipes[p].to_exec > 0 /\ pipe = BufferDone(pipes[p])
          BY <3>2
        <4> QED BY <2>1, <4>1, CompletedRing
      <3> QED BY <3>1, <3>2
    <2> QED BY <2>2, FlushIsLoops
  <1> QED BY <1>1, InvariantHolds, PTL

-----------------------------------------------------------------------------
(* The loss of the device, as the port sees it *)

\* A step of a pipe, of its client or of its channel.
LEMMA PortOfPipeStep ==
    ASSUME IInv, PipeNext
    PROVE  /\ port'.state = port.state /\ port'.event_pending = port.event_pending
           /\ port'.last_event = port.last_event /\ port'.conn_devc_ena = port.conn_devc_ena
           /\ port'.disable_requested = port.disable_requested
           /\ ~port.waiting_all_pipes_pause => port' = port
           /\ UNCHANGED <<port_op, hw>>
  <1>1. port \in Port_t
    BY DEF IInv, TypeOK
  <1>2. PICK p \in Pipe : PipeStep(p)
    BY DEF PipeNext
  <1>3. ASSUME NEW r, WakeWaiter(p, r)
        PROVE  /\ port'.state = port.state /\ port'.event_pending = port.event_pending
               /\ port'.last_event = port.last_event /\ port'.conn_devc_ena = port.conn_devc_ena
               /\ port'.disable_requested = port.disable_requested
               /\ ~port.waiting_all_pipes_pause => port' = port
    BY <1>1, <1>3 DEF WakeWaiter, Port_t
  <1>4. UNCHANGED port \/ (\E r : WakeWaiter(p, r))
    BY <1>2 DEF PipeStep, ChanTransfer, PipeAlloc, PipeFree, IrpEnqueue, IrpAbort, IrpDequeue,
                PipeGetEvent, PipeCommand, PipeCommandReturn, ChanStage, ChanComplete, ChanFail,
                ChanIgnored
  <1> QED BY <1>3, <1>4 DEF PipeNext

\* Where a round of the invalidation leaves the port.
LEMMA LoopPlaces ==
    ASSUME port_op \in PortOp, NEW p, InvalidateActive(p)
    PROVE  port_op'.at \in {"idle", "invalidate_active", "invalidate_idle"}
  <1>1. CASE p # NoPipe
    <2>1. port_op' = [port_op EXCEPT !.at = "invalidate_active", !.cur = p]
      BY <1>1 DEF InvalidateActive
    <2> QED BY <2>1 DEF PortOp
  <1>2. CASE p = NoPipe
    <2> DEFINE q == First(idle_tailq)
    <2>1. \/ port_op' = Idle
          \/ port_op' = [port_op EXCEPT !.at = "invalidate_idle", !.cur = q]
      BY <1>2 DEF InvalidateActive
    <2> HIDE DEF q
    <2>2. CASE port_op' = Idle
      BY <2>2 DEF Idle, At
    <2>3. CASE port_op' = [port_op EXCEPT !.at = "invalidate_idle", !.cur = q]
      BY <2>3 DEF PortOp
    <2> QED BY <2>1, <2>2, <2>3
  <1> QED BY <1>1, <1>2

\* LossSeen is inductive, on top of IInv.
LEMMA LossSeenInductive == IInv /\ LossSeen /\ [Next]_vars => LossSeen'
  <1> SUFFICES ASSUME IInv, LossSeen, [Next]_vars PROVE LossSeen'
    OBVIOUS
  <1>1. port \in Port_t /\ hw \in Hw /\ port_op \in PortOp
    BY DEF IInv, TypeOK
  <1>2. CASE PipeNext
    BY <1>2, PortOfPipeStep DEF LossSeen, DebouncePending
  <1>3. CASE IntrConn
    BY <1>1, <1>3 DEF IntrConn, Raise, LossSeen, DebouncePending, Port_t, Hw
  <1>4. CASE IntrDisconn
    BY <1>1, <1>4 DEF IntrDisconn, Raise, LossSeen, DebouncePending, Port_t, Hw
  <1>5. CASE IntrEnabled
    BY <1>1, <1>5 DEF IntrEnabled, LossSeen, DebouncePending, Port_t, Hw
  <1>6. CASE IntrDisabled
    BY <1>1, <1>6 DEF IntrDisabled, PortDisabled, Raise, LossSeen, DebouncePending, Port_t, Hw
  <1>7. CASE IntrOvercurrent
    BY <1>1, <1>7 DEF IntrOvercurrent, PoweredOff, Raise, LossSeen, DebouncePending, Port_t, Hw
  <1>8. CASE PowerOn \/ PowerOff \/ Recover
    BY <1>1, <1>8 DEF PowerOn, PowerOff, Recover, PoweredOff, CommandAllowed, LossSeen,
                      DebouncePending, Port_t, Hw
  <1>9. CASE Reset \/ ResetRelease \/ ResetEnd
    <2>1. /\ port'.state # "RECOVERY" \/ UNCHANGED <<port, hw>>
          /\ port'.event_pending = port.event_pending /\ port'.last_event = port.last_event
      BY <1>1, <1>9 DEF Reset, ResetRelease, ResetEnd, Port_t
    <2>2. port_op'.at # "debounce"
      BY <1>9 DEF Reset, ResetRelease, ResetEnd, Idle, At
    <2>3. hw'.debouncing = hw.debouncing
      BY <1>1, <1>9 DEF Reset, ResetRelease, ResetEnd, NoLongerEnabled, Hw
    <2> QED BY <2>1, <2>2, <2>3 DEF LossSeen, DebouncePending
  <1>10. CASE Resume \/ ResumeRelease \/ ResumeEnd \/ SuspendWake
    <2>1. /\ port'.state # "RECOVERY" \/ port'.state = port.state
          /\ port'.event_pending = port.event_pending /\ port'.last_event = port.last_event
          /\ port'.conn_devc_ena = port.conn_devc_ena /\ UNCHANGED hw
      BY <1>1, <1>10 DEF Resume, ResumeRelease, ResumeEnd, SuspendWake, Port_t
    <2>2. port_op'.at # "debounce"
      BY <1>10 DEF Resume, ResumeRelease, ResumeEnd, SuspendWake, Idle, At
    <2> QED BY <2>1, <2>2 DEF LossSeen, DebouncePending
  <1>11. CASE Suspend
    <2>1. /\ port'.state # "RECOVERY"
          /\ port'.event_pending = port.event_pending /\ port'.last_event = port.last_event
      <3>1. \/ port' = [port EXCEPT !.state = "SUSPENDED"]
            \/ port' = [port EXCEPT !.waiting_all_pipes_pause = TRUE,
                                    !.num_pipes_waiting_pause = Cardinality(Transferring)]
        BY <1>11 DEF Suspend, PauseAllPipes
      <3> QED BY <1>1, <1>11, <3>1 DEF Suspend, Port_t
    <2>2. port_op'.at # "debounce" /\ UNCHANGED hw
      BY <1>11 DEF Suspend, PauseAllPipes, CommandAllowed, At
    <2> QED BY <2>1, <2>2 DEF LossSeen, DebouncePending
  <1>12. CASE Disable \/ DisableWake
    <2>1. ASSUME NEW pt \in Port_t, RequestDisable(pt), pt.state = "ENABLED" \/ pt.state = "SUSPENDED",
                 pt.event_pending = port.event_pending, pt.last_event = port.last_event
          PROVE  LossSeen'
      <3>1. port'.state # "RECOVERY" /\ port'.event_pending = port.event_pending
            /\ port'.last_event = port.last_event /\ port_op'.at = "disable_ack"
        BY <2>1 DEF RequestDisable, At, Port_t
      <3>2. hw'.debouncing = hw.debouncing
        BY <1>1, <2>1 DEF RequestDisable, NoLongerEnabled, Hw
      <3> QED BY <3>1, <3>2 DEF LossSeen, DebouncePending
    <2>2. CASE Disable /\ ~RequestDisable(port)
      <3>1. PauseAllPipes(FALSE, "disable_wait") /\ port.state = "ENABLED"
        BY <2>2 DEF Disable, PauseAllPipes
      <3>2. /\ port' = [port EXCEPT !.waiting_all_pipes_pause = TRUE,
                                    !.num_pipes_waiting_pause = Cardinality(Transferring)]
            /\ port_op'.at = "disable_wait" /\ UNCHANGED hw
        BY <3>1 DEF PauseAllPipes, At
      <3>3. /\ port'.state = port.state /\ port'.event_pending = port.event_pending
            /\ port'.last_event = port.last_event /\ port'.conn_devc_ena = port.conn_devc_ena
        BY <1>1, <3>2 DEF Port_t
      <3> QED BY <3>2, <3>3 DEF LossSeen, DebouncePending
    <2>3. CASE Disable /\ RequestDisable(port)
      BY <1>1, <2>1, <2>3 DEF Disable
    <2>4. CASE DisableWake
      <3> DEFINE awake == [port EXCEPT !.notified = FALSE]
      <3>1. /\ awake \in Port_t /\ awake.state = port.state
            /\ awake.event_pending = port.event_pending /\ awake.last_event = port.last_event
            /\ awake.conn_devc_ena = port.conn_devc_ena
        BY <1>1 DEF Port_t
      <3>2. \/ RequestDisable(awake) /\ port.state = "ENABLED"
            \/ port' = awake /\ port_op' = Idle /\ UNCHANGED hw
        BY <2>4 DEF DisableWake, PortStillEnabled
      <3> HIDE DEF awake
      <3>3. CASE RequestDisable(awake) /\ port.state = "ENABLED"
        BY <2>1, <3>1, <3>3
      <3>4. CASE port' = awake /\ port_op' = Idle /\ UNCHANGED hw
        BY <3>1, <3>4 DEF LossSeen, DebouncePending, Idle, At
      <3> QED BY <3>2, <3>3, <3>4
    <2> QED BY <1>12, <2>2, <2>3, <2>4
  <1>13. CASE HandleDebounced
    BY <1>1, <1>13 DEF HandleDebounced, LossSeen, DebouncePending, At, Port_t
  <1>14. CASE Debounced
    BY <1>1, <1>14 DEF Debounced, LossSeen, DebouncePending, Idle, At, Port_t, Hw
  <1>15. CASE DisableEnd \/ HandleDeviceLost
    BY <1>1, <1>15, LoopPlaces DEF DisableEnd, HandleDeviceLost, LossSeen, DebouncePending, Idle, At, Port_t
  <1>16. CASE InvalidateNextActive \/ InvalidateNextIdle
    <2>1. UNCHANGED <<port, hw>>
      BY <1>16 DEF InvalidateNextActive, InvalidateNextIdle
    <2>2. port_op'.at # "debounce"
      BY <1>1, <1>16, LoopPlaces DEF InvalidateNextActive, InvalidateNextIdle, Idle, At, PortOp
    <2> QED BY <2>1, <2>2 DEF LossSeen, DebouncePending
  <1>17. CASE UNCHANGED vars
    BY <1>17 DEF vars, LossSeen, DebouncePending
  <1> QED BY <1>2, <1>3, <1>4, <1>5, <1>6, <1>7, <1>8, <1>9, <1>10, <1>11, <1>12, <1>13, <1>14, <1>15,
             <1>16, <1>17 DEF Next, UnpausedNext, PortInterrupt, PortOpStep, HandleEvent, PauseCommand

-----------------------------------------------------------------------------
(* Invalid pipes *)

\* Only hcd_pipe_alloc and hcd_pipe_free give an invalid pipe another state.
LEMMA InvalidStays ==
    ASSUME IInv, [Next]_vars, NEW p \in Pipe, pipes[p].state = "INVALID"
    PROVE  pipes'[p].state = "INVALID" \/ PipeAlloc(p) \/ PipeFree(p)
  <1> DEFINE x == pipes[p]
             y == pipes'[p]
  <1>1. PipeTurn(p)
    BY TurnsTaken
  <1>2. Sound(x) /\ x.state = "INVALID" /\ x \in Pipe_t
    <2>1. Sound(x)
      BY IInvParts, PipesSound
    <2> QED BY <2>1 DEF Sound
  <1>3. ~x.executing
    BY <1>2 DEF Sound, Flushed
  <1>4. Kept(p) \/ WaitTurn(p) \/ CommandTurn(p) \/ ChannelTurn(p) => y.state = "INVALID"
    BY <1>2, <1>3 DEF Kept, WaitTurn, CommandTurn, ChannelTurn
  <1>5. StopTurn(p) \/ PauseTurn(p) => y.state = "INVALID"
    BY <1>2 DEF StopTurn, PauseTurn, Pipe_t
  <1>6. ASSUME ClientTurn(p) PROVE y.state = "INVALID"
    <2>1. SameFlags(x, Dequeued(x)) /\ \A irp \in Irp : SameFlags(x, Aborted(x, irp))
      BY <1>2, DequeuedWaits, AbortedWaits
    <2>2. [x EXCEPT !.last_event = "NONE"].state = x.state
      BY <1>2 DEF Pipe_t
    <2> QED BY <1>2, <1>6, <2>1, <2>2 DEF ClientTurn, SameFlags
  <1>7. ASSUME ReturnTurn(p) PROVE y.state = "INVALID"
    <2>1. y = Resumed(x, pipe_cmd[p]) /\ pipe_cmd[p] \in WaitingCmd /\ pipe_cmd[p] # "NONE"
      BY <1>7 DEF ReturnTurn
    <2> QED BY <1>2, <2>1, ResumedFollows DEF Follows, SameIrps
  <1>8. ASSUME ResumeTurn(p) PROVE y.state = "INVALID"
    <2> DEFINE r == [x EXCEPT !.paused = @ /\ ~Allocated(p)]
    <2>1. r.state = "INVALID" /\ r.pending = << >> /\ r.to_exec = 0
      BY <1>2 DEF Pipe_t, Sound, Flushed
    <2>2. y = r \/ y = FillAndExec(r)
      BY <1>8 DEF ResumeTurn
    <2> HIDE DEF r
    <2>3. FillAndExec(r) = r
      BY <2>1 DEF FillAndExec, FillIfCan, CanFill, CanExec
    <2> QED BY <2>1, <2>2, <2>3
  <1>9. ASSUME LossTurn(p) PROVE y.state = "INVALID"
    <2>1. Invalidated(x).state = "INVALID"
      BY <1>2, InvalidatedFollows
    <2>2. InvalidatedIdle(x).state = "INVALID"
      BY <1>2 DEF InvalidatedIdle, Pipe_t
    <2> QED BY <1>9, <2>1, <2>2 DEF LossTurn
  <1> QED BY <1>1, <1>4, <1>5, <1>6, <1>7, <1>8, <1>9 DEF PipeTurn, Reopened

\* A pipe is in a list of the port since it was allocated.
LEMMA AllocatedBefore ==
    ASSUME IInv, [Next]_vars, NEW p \in Pipe, Allocated(p)'
    PROVE  Allocated(p) \/ PipeAlloc(p)
  <1>1. PipePart
    BY IInvParts
  <1>2. UNCHANGED <<idle_tailq, active_tailq>> => Allocated(p)
    BY DEF Allocated, InQueue
  <1>3. ASSUME NEW x \in Pipe, PipeAlloc(x) PROVE Allocated(p) \/ PipeAlloc(p)
    <2>1. \A y : InQueue(Append(idle_tailq, x), y) <=> InQueue(idle_tailq, y) \/ y = x
      BY <1>1, PipePartNow, AppendList
    <2> QED BY <1>3, <2>1 DEF PipeAlloc, Allocated
  <1>4. ASSUME NEW x \in Pipe, PipeFree(x) PROVE Allocated(p)
    <2>1. InQueue(idle_tailq, x)
      BY <1>1, <1>4, PipePartNow DEF PipeFree, Allocated
    <2>2. \A y : InQueue(Without(idle_tailq, x), y) <=> InQueue(idle_tailq, y) /\ y # x
      BY <1>1, <2>1, PipePartNow, WithoutList
    <2> QED BY <1>4, <2>2 DEF PipeFree, Allocated
  <1>5. ASSUME NEW x \in Pipe, NEW irp \in Irp, IrpEnqueue(x, irp) PROVE Allocated(p)
    <2>1. CASE ~pipes[x].is_active
      <3>1. InQueue(idle_tailq, x)
        BY <1>1, <1>5, <2>1, PipePartNow DEF IrpEnqueue, Allocated
      <3>2. \A y : InQueue(Without(idle_tailq, x), y) <=> InQueue(idle_tailq, y) /\ y # x
        BY <1>1, <3>1, PipePartNow, WithoutList
      <3>3. \A y : InQueue(Append(active_tailq, x), y) <=> InQueue(active_tailq, y) \/ y = x
        BY <1>1, PipePartNow, AppendList
      <3> QED BY <1>5, <2>1, <3>1, <3>2, <3>3 DEF IrpEnqueue, Allocated
    <2> QED BY <1>2, <1>5, <2>1 DEF IrpEnqueue
  <1>6. ASSUME NEW x \in Pipe, IrpDequeue(x) PROVE Allocated(p)
    <2>1. CASE pipes[x].is_active /\ ~pipes'[x].is_active
      <3>1. InQueue(active_tailq, x)
        BY <1>1, <2>1, PipePartNow
      <3>2. \A y : InQueue(Without(active_tailq, x), y) <=> InQueue(active_tailq, y) /\ y # x
        BY <1>1, <3>1, PipePartNow, WithoutList
      <3>3. \A y : InQueue(Append(idle_tailq, x), y) <=> InQueue(idle_tailq, y) \/ y = x
        BY <1>1, PipePartNow, AppendList
      <3> QED BY <1>6, <2>1, <3>1, <3>2, <3>3 DEF IrpDequeue, Allocated
    <2> QED BY <1>2, <1>6, <2>1 DEF IrpDequeue
  <1>7. CASE PipeNext
    <2>1. PICK x \in Pipe : PipeStep(x)
      BY <1>7 DEF PipeNext
    <2>2. ASSUME IrpDequeue(x) \/ (\E irp \in Irp : IrpEnqueue(x, irp)) PROVE Allocated(p)
      BY <1>5, <1>6, <2>2
    <2>3. ASSUME ~PipeAlloc(x), ~PipeFree(x), ~IrpDequeue(x), ~(\E irp \in Irp : IrpEnqueue(x, irp))
          PROVE  UNCHANGED <<idle_tailq, active_tailq>>
      BY <2>1, <2>3 DEF PipeStep, ChanTransfer, IrpAbort, PipeGetEvent, PipeCommand,
                        PipeCommandReturn, ChanStage, ChanComplete, ChanFail, ChanIgnored
    <2> QED BY <1>2, <1>3, <1>4, <2>2, <2>3
  <1>8. ASSUME ~PipeNext PROVE UNCHANGED <<idle_tailq, active_tailq>>
    <2>1. PortInterrupt \/ PowerOn \/ PowerOff \/ Reset => UNCHANGED <<idle_tailq, active_tailq>>
      BY DEF PortInterrupt, PowerOn, PowerOff, Reset, IntrConn, IntrDisconn, IntrEnabled,
             IntrDisabled, IntrOvercurrent, pipeVars
    <2>2. PortOpStep => UNCHANGED <<idle_tailq, active_tailq>>
      BY DEF PortOpStep, ResetRelease, ResetEnd, SuspendWake, ResumeRelease, ResumeEnd, DisableWake,
             DisableEnd, InvalidateNextActive, InvalidateNextIdle, Debounced, pipeVars
    <2>3. HandleEvent \/ Recover \/ PauseCommand => UNCHANGED <<idle_tailq, active_tailq>>
      BY DEF HandleEvent, Recover, PauseCommand, HandleDebounced, HandleDeviceLost, Suspend, Resume,
             Disable, PauseAllPipes, pipeVars
    <2>4. UNCHANGED vars => UNCHANGED <<idle_tailq, active_tailq>>
      BY DEF vars, pipeVars
    <2> QED BY <1>8, <2>1, <2>2, <2>3, <2>4 DEF Next, UnpausedNext
  <1> QED BY <1>2, <1>7, <1>8

\* A pipe that is freed is in no list.
LEMMA FreedGone ==
    ASSUME IInv, NEW p \in Pipe, PipeFree(p)
    PROVE  ~Allocated(p)'
  <1>1. PipePart
    BY IInvParts
  <1>2. InQueue(idle_tailq, p) /\ ~InQueue(active_tailq, p)
    BY <1>1, PipePartNow DEF PipeFree, Allocated
  <1>3. ~InQueue(Without(idle_tailq, p), p)
    BY <1>1, <1>2, PipePartNow, WithoutList
  <1> QED BY <1>2, <1>3 DEF PipeFree, Allocated

\* A port that is in recovery with nothing to handle was in recovery before; if it
\* had an event, that event is handled now.
LEMMA RecoveryBefore ==
    ASSUME IInv, LossSeen, [Next]_vars, port'.state = "RECOVERY", ~port'.event_pending
    PROVE  /\ port.state = "RECOVERY"
           /\ port.event_pending => HandleDeviceLost
  <1>1. port \in Port_t
    BY DEF IInv, TypeOK
  <1>2. CASE PipeNext
    BY <1>2, PortOfPipeStep
  <1>3. CASE PortInterrupt
    BY <1>1, <1>3 DEF PortInterrupt, IntrConn, IntrDisconn, IntrEnabled, IntrDisabled,
                      IntrOvercurrent, PortDisabled, Raise, Port_t
  <1>4. CASE PowerOn \/ PowerOff \/ Reset \/ Recover
    BY <1>1, <1>4 DEF PowerOn, PowerOff, Reset, Recover, Port_t
  <1>5. CASE ResetRelease \/ ResetEnd \/ SuspendWake \/ ResumeRelease \/ ResumeEnd
    BY <1>1, <1>5 DEF ResetRelease, ResetEnd, SuspendWake, ResumeRelease, ResumeEnd, Port_t
  <1>6. CASE DisableWake
    <2> DEFINE awake == [port EXCEPT !.notified = FALSE]
    <2>1. /\ awake \in Port_t /\ awake.state = port.state
          /\ awake.event_pending = port.event_pending
      BY <1>1 DEF Port_t
    <2>2. port' = awake \/ port' = [awake EXCEPT !.disable_requested = TRUE]
      BY <1>6 DEF DisableWake, RequestDisable
    <2> HIDE DEF awake
    <2>3. port'.state = port.state /\ port'.event_pending = port.event_pending
      BY <2>1, <2>2 DEF Port_t
    <2> QED BY <2>3
  <1>7. CASE DisableEnd \/ InvalidateNextActive \/ InvalidateNextIdle \/ Debounced
    BY <1>1, <1>7 DEF DisableEnd, InvalidateNextActive, InvalidateNextIdle, Debounced, Port_t
  <1>8. CASE HandleDebounced
    BY <1>1, <1>8 DEF HandleDebounced, LossSeen, DebouncePending, Port_t
  <1>9. CASE HandleDeviceLost
    BY <1>1, <1>9 DEF HandleDeviceLost, Port_t
  <1>10. CASE Suspend \/ Resume \/ Disable
    BY <1>1, <1>10 DEF Suspend, Resume, Disable, PauseAllPipes, RequestDisable, Port_t
  <1>11. CASE UNCHANGED vars
    BY <1>11 DEF vars
  <1> QED BY <1>2, <1>3, <1>4, <1>5, <1>6, <1>7, <1>8, <1>9, <1>10, <1>11
          DEF Next, UnpausedNext, PortOpStep, HandleEvent, PauseCommand

\* A port with no pipe in its lists is done with the invalidation at once.
LEMMA NobodyToInvalidate ==
    ASSUME IInv, HandleDeviceLost, ~Invalidating'
    PROVE  \A p \in Pipe : ~Allocated(p)'
  <1>1. /\ idle_tailq \in Seq(Pipe) /\ active_tailq \in Seq(Pipe) /\ port_op \in PortOp
        /\ UNCHANGED <<idle_tailq, active_tailq>>
        /\ InvalidateActive(First(active_tailq))
    BY DEF IInv, TypeOK, HandleDeviceLost
  <1>2. First(active_tailq) = NoPipe
    <2> DEFINE f == First(active_tailq)
    <2>1. f # NoPipe => port_op' = [port_op EXCEPT !.at = "invalidate_active", !.cur = f]
      BY <1>1 DEF InvalidateActive
    <2> HIDE DEF f
    <2> QED BY <1>1, <2>1 DEF PortOp, Invalidating, f
  <1>3. First(idle_tailq) = NoPipe
    <2> DEFINE f == First(idle_tailq)
    <2>1. f # NoPipe => port_op' = [port_op EXCEPT !.at = "invalidate_idle", !.cur = f]
      BY <1>1, <1>2 DEF InvalidateActive
    <2> HIDE DEF f
    <2> QED BY <1>1, <2>1 DEF PortOp, Invalidating, f
  <1>4. ASSUME NEW q \in Seq(Pipe), First(q) = NoPipe PROVE q = << >>
    <2>1. q # << >> => Head(q) \in Pipe
      OBVIOUS
    <2> QED BY <1>4, <2>1, NoPipeAssumption DEF First
  <1>5. idle_tailq = << >> /\ active_tailq = << >>
    BY <1>1, <1>2, <1>3, <1>4
  <1> QED BY <1>1, <1>5 DEF Allocated, InQueue

\* Once the invalidation leaves no pipe out, the loss of the device is known to all.
LEMMA LostInvalidStep ==
    ASSUME IInv, LossSeen, LostInvalid, [Next]_vars,
           Invalidating /\ ~Invalidating'
               => \A p \in Pipe : Allocated(p)' => pipes'[p].state = "INVALID"
    PROVE  LostInvalid'
  <1> SUFFICES ASSUME port'.state = "RECOVERY", ~port'.event_pending, ~Invalidating',
                      NEW p \in Pipe, Allocated(p)'
               PROVE  pipes'[p].state = "INVALID"
    BY DEF LostInvalid
  <1>1. port.state = "RECOVERY" /\ (port.event_pending => HandleDeviceLost)
    BY RecoveryBefore
  <1>2. CASE Invalidating
    BY <1>2
  <1>3. CASE port.event_pending
    BY <1>1, <1>3, NobodyToInvalidate
  <1>4. CASE ~Invalidating /\ ~port.event_pending
    <2>1. ~port.conn_devc_ena
      BY <1>1 DEF LossSeen
    <2>2. ~PipeAlloc(p)
      BY <2>1 DEF PipeAlloc
    <2>3. Allocated(p) /\ pipes[p].state = "INVALID"
      BY <1>1, <1>4, <2>2, AllocatedBefore DEF LostInvalid
    <2>4. ~PipeFree(p)
      BY FreedGone
    <2> QED BY <2>2, <2>3, <2>4, InvalidStays
  <1> QED BY <1>2, <1>3, <1>4

\* The callback of a pipe runs when the pipe is invalid, and it stays so.
LEMMA CursorStays == IInv /\ CursorInvalid /\ [Next]_vars => CursorInvalid'
  <1> SUFFICES ASSUME IInv, CursorInvalid, [Next]_vars, Invalidating'
               PROVE  pipes'[port_op'.cur].state = "INVALID"
    BY DEF CursorInvalid
  <1>1. PipePart /\ PortPart /\ port_op \in PortOp
    BY IInvParts DEF IInv, TypeOK
  <1>2. ASSUME NEW q \in Pipe, NEW r, pipes' = [pipes EXCEPT ![q] = r],
               r \in {Invalidated(pipes[q]), InvalidatedIdle(pipes[q])}, port_op'.cur = q
        PROVE  pipes'[port_op'.cur].state = "INVALID"
    <2>1. Sound(pipes[q])
      BY <1>1, PipesSound
    <2>2. Invalidated(pipes[q]).state = "INVALID"
      BY <2>1, InvalidatedFollows
    <2>3. InvalidatedIdle(pipes[q]).state = "INVALID"
      BY <2>1 DEF InvalidatedIdle, Sound, Pipe_t
    <2>4. pipes'[q] = r
      BY <1>1, <1>2 DEF PipePart
    <2> QED BY <1>2, <2>2, <2>3, <2>4
  <1>3. ASSUME NEW q \in Pipe \union {NoPipe}, InvalidateActive(q)
        PROVE  pipes'[port_op'.cur].state = "INVALID"
    <2>1. CASE q # NoPipe
      <3>1. /\ pipes' = [pipes EXCEPT ![q] = Invalidated(pipes[q])]
            /\ port_op' = [port_op EXCEPT !.at = "invalidate_active", !.cur = q]
        BY <1>3, <2>1 DEF InvalidateActive
      <3>2. port_op'.cur = q /\ q \in Pipe
        BY <1>1, <1>3, <2>1, <3>1 DEF PortOp
      <3> QED BY <1>2, <3>1, <3>2
    <2>2. CASE q = NoPipe
      <3> DEFINE f == First(idle_tailq)
      <3>1. f # NoPipe => f \in Pipe
        BY <1>1, FirstListed DEF PipePart
      <3>2. \/ f = NoPipe /\ port_op' = Idle
            \/ /\ f # NoPipe
               /\ pipes' = [pipes EXCEPT ![f] = InvalidatedIdle(pipes[f])]
               /\ port_op' = [port_op EXCEPT !.at = "invalidate_idle", !.cur = f]
        BY <1>3, <2>2 DEF InvalidateActive
      <3> HIDE DEF f
      <3>3. f # NoPipe
        BY <3>2 DEF Idle, At, Invalidating
      <3>4. port_op'.cur = f
        BY <1>1, <3>2, <3>3 DEF PortOp
      <3> QED BY <1>2, <3>1, <3>2, <3>3, <3>4
    <2> QED BY <2>1, <2>2
  <1>4. CASE HandleDeviceLost \/ (DisableEnd /\ port.state = "DISABLED")
    <2>1. First(active_tailq) \in Pipe \union {NoPipe}
      BY <1>1, FirstListed DEF PipePart
    <2> QED BY <1>3, <1>4, <2>1 DEF HandleDeviceLost, DisableEnd
  <1>5. CASE InvalidateNextActive
    <2>1. port_op.cur \in Pipe /\ Allocated(port_op.cur)
      BY <1>1, <1>5 DEF PortPart, CursorListed, Invalidating, InvalidateNextActive
    <2>2. NextInList(port_op.cur) \in Pipe \union {NoPipe}
      BY <1>1, <2>1, NextListed
    <2> QED BY <1>3, <1>5, <2>2 DEF InvalidateNextActive
  <1>6. CASE InvalidateNextIdle
    <2> DEFINE f == NextInList(port_op.cur)
    <2>1. port_op.cur \in Pipe /\ Allocated(port_op.cur)
      BY <1>1, <1>6 DEF PortPart, CursorListed, Invalidating, InvalidateNextIdle
    <2>2. f # NoPipe => f \in Pipe
      BY <1>1, <2>1, NextListed
    <2>3. \/ port_op' = Idle
          \/ /\ f # NoPipe
             /\ pipes' = [pipes EXCEPT ![f] = InvalidatedIdle(pipes[f])]
             /\ port_op' = [port_op EXCEPT !.cur = f]
      BY <1>6 DEF InvalidateNextIdle
    <2> HIDE DEF f
    <2>4. port_op' # Idle
      BY DEF Idle, At, Invalidating
    <2>5. port_op'.cur = f
      BY <1>1, <2>3, <2>4 DEF PortOp
    <2> QED BY <1>2, <2>2, <2>3, <2>4, <2>5
  <1>7. CASE UNCHANGED port_op
    <2>1. PICK c \in Pipe : /\ c = port_op.cur /\ Allocated(c) /\ port_op'.cur = c
                            /\ pipes[c].state = "INVALID"
      BY <1>1, <1>7 DEF PortPart, CursorListed, CursorInvalid, Invalidating
    <2>2. Allocated(c)'
      <3>1. IInv'
        BY IInvInductive
      <3> QED BY <2>1, <3>1 DEF IInv, CursorListed
    <2>3. ~PipeAlloc(c) /\ ~PipeFree(c)
      BY <2>1, <2>2, FreedGone DEF PipeAlloc
    <2> QED BY <2>1, <2>3, InvalidStays
  <1>8. CASE PipeNext \/ PortInterrupt \/ PowerOn \/ PowerOff \/ Recover \/ UNCHANGED vars
    BY <1>7, <1>8 DEF PipeNext, PortInterrupt, IntrConn, IntrDisconn, IntrEnabled, IntrDisabled,
                      IntrOvercurrent, PowerOn, PowerOff, Recover, vars
  <1>9. ~(Reset \/ ResetRelease \/ ResetEnd \/ SuspendWake \/ ResumeRelease \/ ResumeEnd \/ Resume)
    BY DEF Reset, ResetRelease, ResetEnd, SuspendWake, ResumeRelease, ResumeEnd, Resume, Idle, At,
           Invalidating
  <1>10. ~(DisableWake \/ (DisableEnd /\ port.state # "DISABLED") \/ Debounced)
    BY DEF DisableWake, RequestDisable, DisableEnd, Debounced, Idle, At, Invalidating
  <1>11. CASE HandleDebounced \/ Suspend \/ Disable
    BY <1>7, <1>11 DEF HandleDebounced, Suspend, Disable, PauseAllPipes, RequestDisable, At,
                       Invalidating
  <1> QED BY <1>4, <1>5, <1>6, <1>8, <1>9, <1>10, <1>11
          DEF Next, UnpausedNext, PortOpStep, HandleEvent, PauseCommand

\* Before anything is lost.
LEMMA InitLoss == Init \/ SessionInit => LossInv
BY DEF Init, SessionInit, LossInv, LossSeen, LostInvalid, CursorInvalid, DebouncePending, Invalidating,
       Idle, At

\* With one pipe, the loop that invalidates the pipes cannot miss one: the pipe whose
\* callback ends the loop is that pipe.
LEMMA LossInductive ==
    ASSUME \A p, q \in Pipe : p = q
    PROVE  IInv /\ LossInv /\ [Next]_vars => LossInv'
  <1> SUFFICES ASSUME IInv, LossInv, [Next]_vars PROVE LossInv'
    OBVIOUS
  <1>1. LossSeen' /\ CursorInvalid'
    BY LossSeenInductive, CursorStays DEF LossInv
  <1>2. ASSUME Invalidating, ~Invalidating', NEW p \in Pipe, Allocated(p)'
        PROVE  pipes'[p].state = "INVALID"
    <2>1. port_op.cur \in Pipe /\ Allocated(port_op.cur) /\ pipes[port_op.cur].state = "INVALID"
      BY <1>2 DEF IInv, CursorListed, LossInv, CursorInvalid
    <2>2. p = port_op.cur
      BY <2>1
    <2>3. ~PipeAlloc(p) /\ ~PipeFree(p)
      BY <1>2, <2>1, <2>2, FreedGone DEF PipeAlloc
    <2> QED BY <2>1, <2>2, <2>3, InvalidStays
  <1>3. LostInvalid'
    BY <1>2, LostInvalidStep DEF LossInv
  <1> QED BY <1>1, <1>3 DEF LossInv

\* "Each pipe will be put into the invalid state" (_port_invalidate_all_pipes): a
\* port in recovery has told its pipe, whichever list the pipe is in and whatever its
\* client does meanwhile.  With two pipes, a client that moves one to the other list
\* between two rounds can hide it from both loops: see HostUseLost.
THEOREM OnePipeLost ==
    ASSUME \A p, q \in Pipe : p = q
    PROVE  (Init \/ SessionInit) /\ [][Next]_vars => []LostMeansInvalid
  <1>1. Init \/ SessionInit => IInv /\ LossInv
    BY InitIInv, SessionInitIInv, InitLoss
  <1>2. IInv /\ LossInv /\ [Next]_vars => (IInv /\ LossInv)'
    BY IInvInductive, LossInductive
  <1>3. IInv /\ LossInv => LostMeansInvalid
    BY DEF LossInv, LostInvalid, LostMeansInvalid, Invalidating
  <1> QED BY <1>1, <1>2, <1>3, PTL

-----------------------------------------------------------------------------
(* The loops of the invalidation *)

\* At the first pipe of a list, only that one is reached.
LEMMA ReachFirst ==
    ASSUME NEW q \in Seq(Pipe), NoDuplicates(q), First(q) # NoPipe
    PROVE  \A p : Reached(q, p, First(q)) => p = First(q)
  <1>1. q # << >> /\ First(q) = q[1] /\ 1 \in 1 .. Len(q)
    BY DEF First
  <1>2. ASSUME NEW p, NEW k \in 1 .. Len(q), NEW l \in 1 .. Len(q), k <= l, q[k] = p, q[l] = First(q)
        PROVE  p = First(q)
    <2>1. l = 1
      BY <1>1, <1>2 DEF NoDuplicates
    <2>2. k = 1
      BY <1>2, <2>1
    <2> QED BY <1>1, <1>2, <2>2
  <1> QED BY <1>2 DEF Reached

\* After the last pipe of a list all are reached; before it, one more at a time.
LEMMA ReachNext ==
    ASSUME NEW q \in Seq(Pipe), NoDuplicates(q), NEW c, NEW k \in 1 .. Len(q), q[k] = c,
           NEW n, n = IF k < Len(q) THEN q[k + 1] ELSE NoPipe
    PROVE  /\ n = NoPipe => \A p : InQueue(q, p) => Reached(q, p, c)
           /\ n # NoPipe => /\ InQueue(q, n)
                            /\ \A p : Reached(q, p, n) => p = n \/ Reached(q, p, c)
  <1>1. \A l \in 1 .. Len(q) : q[l] \in Pipe
    OBVIOUS
  <1>2. CASE k < Len(q)
    <2>1. k + 1 \in 1 .. Len(q) /\ n = q[k + 1] /\ n # NoPipe
      BY <1>1, <1>2, NoPipeAssumption
    <2>2. ASSUME NEW p, NEW i \in 1 .. Len(q), NEW l \in 1 .. Len(q), i <= l, q[i] = p, q[l] = n
          PROVE  p = n \/ Reached(q, p, c)
      <3>1. l = k + 1
        BY <2>1, <2>2 DEF NoDuplicates
      <3>2. i = k + 1 \/ i <= k
        BY <2>2, <3>1
      <3> QED BY <2>1, <2>2, <3>2 DEF Reached
    <2> QED BY <2>1, <2>2 DEF Reached, InQueue
  <1>3. CASE ~(k < Len(q))
    <2>1. k = Len(q) /\ n = NoPipe
      BY <1>3
    <2> QED BY <2>1 DEF Reached, InQueue
  <1> QED BY <1>2, <1>3

\* The pipe after the one that the loop is at.
LEMMA ReachNextInList ==
    ASSUME PipePart, NEW c, Allocated(c), NEW q \in {idle_tailq, active_tailq}, InQueue(q, c)
    PROVE  LET n == NextInList(c) IN
           /\ n = NoPipe => \A p : InQueue(q, p) => Reached(q, p, c)
           /\ n # NoPipe => /\ InQueue(q, n)
                            /\ \A p : Reached(q, p, n) => p = n \/ Reached(q, p, c)
  <1> DEFINE k == CHOOSE k \in 1 .. Len(q) : q[k] = c
             n == NextInList(c)
  <1>1. k \in 1 .. Len(q) /\ q[k] = c
    BY DEF InQueue
  <1>2. /\ idle_tailq \in Seq(Pipe) /\ active_tailq \in Seq(Pipe)
        /\ NoDuplicates(idle_tailq) /\ NoDuplicates(active_tailq)
    BY PipePartNow
  <1>3. c \in Pipe
    BY <1>1, <1>2
  <1>4. ~(InQueue(active_tailq, c) /\ InQueue(idle_tailq, c))
    BY <1>3 DEF PipePart, ListsConsistent
  <1>5. n = IF k < Len(q) THEN q[k + 1] ELSE NoPipe
    <2> DEFINE NextIn(s) == LET j == CHOOSE j \in 1 .. Len(s) : s[j] = c
                            IN  IF j < Len(s) THEN s[j + 1] ELSE NoPipe
    <2>1. n = IF InQueue(active_tailq, c) THEN NextIn(active_tailq) ELSE NextIn(idle_tailq)
      BY DEF NextInList
    <2>2. NextIn(q) = IF k < Len(q) THEN q[k + 1] ELSE NoPipe
      OBVIOUS
    <2> HIDE DEF NextIn, k, n
    <2>3. n = NextIn(q)
      BY <1>4, <2>1
    <2> QED BY <2>2, <2>3
  <1> HIDE DEF k, n
  <1>6. /\ n = NoPipe => \A p : InQueue(q, p) => Reached(q, p, c)
        /\ n # NoPipe => /\ InQueue(q, n)
                         /\ \A p : Reached(q, p, n) => p = n \/ Reached(q, p, c)
    BY <1>1, <1>2, <1>5, ReachNext
  <1> QED BY <1>6 DEF n

\* A pipe that the loop makes invalid, and the others.
LEMMA InvalidatedOne ==
    ASSUME IInv, NEW q \in Pipe, NEW r, pipes' = [pipes EXCEPT ![q] = r],
           r \in {Invalidated(pipes[q]), InvalidatedIdle(pipes[q])}
    PROVE  /\ pipes'[q].state = "INVALID"
           /\ \A x \in Pipe : x # q => pipes'[x] = pipes[x]
  <1>1. Sound(pipes[q]) /\ pipes \in [Pipe -> Pipe_t]
    BY IInvParts, PipesSound DEF PipePart
  <1>2. Invalidated(pipes[q]).state = "INVALID"
    BY <1>1, InvalidatedFollows
  <1>3. InvalidatedIdle(pipes[q]).state = "INVALID"
    BY <1>1 DEF InvalidatedIdle, Sound, Pipe_t
  <1> QED BY <1>1, <1>2, <1>3

\* No pipe is left out, if the loops end.
NoneLeft == ~Invalidating' => \A x \in Pipe : Allocated(x)' => pipes'[x].state = "INVALID"

\* A round that begins in the active list.
LEMMA LoopRound ==
    ASSUME IInv, NEW p \in Pipe \union {NoPipe}, InvalidateActive(p),
           UNCHANGED <<idle_tailq, active_tailq>>,
           p # NoPipe =>
               /\ InQueue(active_tailq, p)
               /\ \A x \in Pipe : Reached(active_tailq, x, p) => x = p \/ pipes[x].state = "INVALID",
           p = NoPipe => \A x \in Pipe : InQueue(active_tailq, x) => pipes[x].state = "INVALID"
    PROVE  LoopsReach' /\ NoneLeft
  <1>1. PipePart /\ port_op \in PortOp
    BY IInvParts DEF IInv, TypeOK
  <1>2. idle_tailq \in Seq(Pipe) /\ NoDuplicates(idle_tailq)
    BY <1>1, PipePartNow
  <1>3. CASE p # NoPipe
    <2>1. /\ pipes' = [pipes EXCEPT ![p] = Invalidated(pipes[p])] /\ p \in Pipe
          /\ port_op' = [port_op EXCEPT !.at = "invalidate_active", !.cur = p]
      BY <1>3 DEF InvalidateActive
    <2>2. port_op'.at = "invalidate_active" /\ port_op'.cur = p
      BY <1>1, <2>1 DEF PortOp
    <2>3. pipes'[p].state = "INVALID" /\ \A x \in Pipe : x # p => pipes'[x] = pipes[x]
      BY <2>1, InvalidatedOne
    <2> QED BY <1>3, <2>2, <2>3 DEF LoopsReach, NoneLeft, Invalidating, InQueue, Reached
  <1>4. CASE p = NoPipe
    <2> DEFINE f == First(idle_tailq)
    <2>1. \/ f = NoPipe /\ UNCHANGED pipes /\ port_op' = Idle
          \/ /\ f # NoPipe
             /\ pipes' = [pipes EXCEPT ![f] = InvalidatedIdle(pipes[f])]
             /\ port_op' = [port_op EXCEPT !.at = "invalidate_idle", !.cur = f]
      BY <1>4 DEF InvalidateActive
    <2>2. f # NoPipe => f \in Pipe /\ \A x : Reached(idle_tailq, x, f) => x = f
      BY <1>2, FirstListed, ReachFirst
    <2>3. f = NoPipe => idle_tailq = << >>
      <3>1. idle_tailq # << >> => Head(idle_tailq) \in Pipe
        BY <1>2
      <3> QED BY <3>1, NoPipeAssumption DEF First
    <2> HIDE DEF f
    <2>4. CASE f = NoPipe
      <3>1. UNCHANGED pipes /\ port_op'.at = "idle"
        BY <2>1, <2>4 DEF Idle, At
      <3>2. \A x : ~InQueue(idle_tailq, x)
        BY <2>3, <2>4 DEF InQueue
      <3> QED BY <1>4, <3>1, <3>2 DEF LoopsReach, NoneLeft, Allocated, InQueue
    <2>5. CASE f # NoPipe
      <3>1. port_op'.at = "invalidate_idle" /\ port_op'.cur = f
        BY <1>1, <2>1, <2>5 DEF PortOp
      <3>2. pipes'[f].state = "INVALID" /\ \A x \in Pipe : x # f => pipes'[x] = pipes[x]
        BY <2>1, <2>2, <2>5, InvalidatedOne
      <3> QED BY <1>4, <2>2, <2>5, <3>1, <3>2 DEF LoopsReach, NoneLeft, Invalidating, InQueue, Reached
    <2> QED BY <2>4, <2>5
  <1> QED BY <1>3, <1>4

\* The rounds of the invalidation.
LEMMA LoopRounds ==
    ASSUME IInv, LoopsReach, HandleDeviceLost \/ InvalidateNextActive \/ InvalidateNextIdle
    PROVE  LoopsReach' /\ NoneLeft
  <1>1. PipePart /\ port_op \in PortOp
    BY IInvParts DEF IInv, TypeOK
  <1>2. /\ active_tailq \in Seq(Pipe) /\ NoDuplicates(active_tailq)
        /\ UNCHANGED <<idle_tailq, active_tailq>>
    BY <1>1, PipePartNow DEF HandleDeviceLost, InvalidateNextActive, InvalidateNextIdle
  <1>3. CASE HandleDeviceLost
    <2> DEFINE f == First(active_tailq)
    <2>1. InvalidateActive(f)
      BY <1>3 DEF HandleDeviceLost
    <2>2. f # NoPipe => /\ f \in Pipe /\ InQueue(active_tailq, f)
                        /\ \A x : Reached(active_tailq, x, f) => x = f
      BY <1>2, FirstListed, ReachFirst
    <2>3. f = NoPipe => \A x : ~InQueue(active_tailq, x)
      <3>1. active_tailq # << >> => Head(active_tailq) \in Pipe
        BY <1>2
      <3> QED BY <3>1, NoPipeAssumption DEF First, InQueue
    <2> HIDE DEF f
    <2> QED BY <1>2, <2>1, <2>2, <2>3, LoopRound
  <1>5. CASE InvalidateNextActive
    <2>1. PICK c \in Pipe : c = port_op.cur
      BY <1>5 DEF IInv, CursorListed, Invalidating, InvalidateNextActive
    <2> DEFINE n == NextInList(c)
    <2>2. InvalidateActive(n) /\ port_op.at = "invalidate_active"
      BY <1>5, <2>1 DEF InvalidateNextActive
    <2>3. /\ InQueue(active_tailq, c) /\ Allocated(c)
          /\ \A x \in Pipe : Reached(active_tailq, x, c) => pipes[x].state = "INVALID"
      BY <2>1, <2>2 DEF LoopsReach, Allocated
    <2>4. /\ n = NoPipe => \A p : InQueue(active_tailq, p) => Reached(active_tailq, p, c)
          /\ n # NoPipe => /\ InQueue(active_tailq, n)
                           /\ \A p : Reached(active_tailq, p, n) => p = n \/ Reached(active_tailq, p, c)
      BY <1>1, <2>3, ReachNextInList
    <2>5. n # NoPipe => n \in Pipe
      BY <1>1, <2>3, NextListed
    <2> HIDE DEF n
    <2> QED BY <1>2, <2>2, <2>3, <2>4, <2>5, LoopRound
  <1>6. CASE InvalidateNextIdle
    <2>1. PICK c \in Pipe : c = port_op.cur /\ InQueue(idle_tailq, c) /\ Allocated(c)
      BY <1>6 DEF IInv, CursorListed, Invalidating, InvalidateNextIdle
    <2> DEFINE n == NextInList(c)
    <2>2. /\ port_op.at = "invalidate_idle"
          /\ \/ n = NoPipe /\ UNCHANGED pipes /\ port_op' = Idle
             \/ /\ n # NoPipe
                /\ pipes' = [pipes EXCEPT ![n] = InvalidatedIdle(pipes[n])]
                /\ port_op' = [port_op EXCEPT !.cur = n]
      BY <1>6, <2>1 DEF InvalidateNextIdle
    <2>3. /\ \A x \in Pipe : InQueue(active_tailq, x) => pipes[x].state = "INVALID"
          /\ \A x \in Pipe : Reached(idle_tailq, x, c) => pipes[x].state = "INVALID"
      BY <2>1, <2>2 DEF LoopsReach
    <2>4. /\ n = NoPipe => \A p : InQueue(idle_tailq, p) => Reached(idle_tailq, p, c)
          /\ n # NoPipe => /\ InQueue(idle_tailq, n)
                           /\ \A p : Reached(idle_tailq, p, n) => p = n \/ Reached(idle_tailq, p, c)
      BY <1>1, <2>1, ReachNextInList
    <2>5. n # NoPipe => n \in Pipe
      BY <1>1, <2>1, NextListed
    <2> HIDE DEF n
    <2>6. CASE n = NoPipe
      <3>1. UNCHANGED pipes /\ port_op'.at = "idle"
        BY <2>2, <2>6 DEF Idle, At
      <3> QED BY <1>2, <2>3, <2>4, <2>6, <3>1 DEF LoopsReach, NoneLeft, Allocated, InQueue
    <2>7. CASE n # NoPipe
      <3>1. port_op'.at = "invalidate_idle" /\ port_op'.cur = n
        BY <1>1, <2>2, <2>7 DEF PortOp
      <3>2. pipes'[n].state = "INVALID" /\ \A x \in Pipe : x # n => pipes'[x] = pipes[x]
        BY <2>2, <2>5, <2>7, InvalidatedOne
      <3>3. \A x \in Pipe : InQueue(active_tailq, x) => pipes'[x].state = "INVALID"
        BY <2>3, <3>2
      <3>4. \A x \in Pipe : Reached(idle_tailq, x, n) => pipes'[x].state = "INVALID"
        BY <2>3, <2>4, <2>7, <3>2
      <3> QED BY <1>2, <3>1, <3>3, <3>4 DEF LoopsReach, NoneLeft, Invalidating
    <2> QED BY <2>6, <2>7
  <1> QED BY <1>3, <1>5, <1>6

-----------------------------------------------------------------------------
(* The driver under the host layer *)

\* What the host layer does is a part of what clients may do, and none of its
\* commands waits.
LEMMA HostSteps ==
    [HostNext]_vars => [Next]_vars /\ UNCHANGED pipe_cmd
  <1>1. ASSUME NEW p \in Pipe, HostPipeStep(p) \/ ChanTransfer(p) \/ ChanIgnored(p)
        PROVE  PipeStep(p) /\ UNCHANGED pipe_cmd
    <2>1. CASE HostPipeStep(p)
      BY <2>1 DEF HostPipeStep, PipeStep, PipeCmd, PipeAlloc, PipeFree, IrpEnqueue, IrpDequeue, PipeCommand
    <2>2. CASE ChanTransfer(p) \/ ChanIgnored(p)
      BY <2>2 DEF PipeStep, ChanTransfer, ChanStage, ChanComplete, ChanFail, ChanIgnored
    <2> QED BY <1>1, <2>1, <2>2
  <1>2. PortInterrupt \/ PowerOn \/ PowerOff \/ Reset \/ HandleEvent \/ Recover => UNCHANGED pipe_cmd
    BY DEF PortInterrupt, IntrConn, IntrDisconn, IntrEnabled, IntrDisabled, IntrOvercurrent,
           PowerOn, PowerOff, Reset, HandleEvent, HandleDebounced, HandleDeviceLost, Recover, pipeVars
  <1>3. PortOpStep => UNCHANGED pipe_cmd
    BY DEF PortOpStep, ResetRelease, ResetEnd, SuspendWake, ResumeRelease, ResumeEnd, DisableWake,
           DisableEnd, InvalidateNextActive, InvalidateNextIdle, Debounced, pipeVars
  <1> QED BY <1>1, <1>2, <1>3 DEF HostNext, Next, UnpausedNext, PipeNext, vars, pipeVars

\* Of the port: nobody waits for the pipes.
PortQuiet ==
    /\ ~port.waiting_all_pipes_pause /\ ~port.disable_requested
    /\ port.state \notin {"SUSPENDED", "RESUMING"}
    /\ port_op.at \in {"idle", "debounce"} \/ InReset \/ Invalidating

\* It stays so: the host layer suspends and disables nothing.
LEMMA QuietPort == IInv /\ PortQuiet /\ [HostNext]_vars => PortQuiet'
  <1> SUFFICES ASSUME IInv, PortQuiet, [HostNext]_vars PROVE PortQuiet'
    OBVIOUS
  <1>1. port \in Port_t /\ port_op \in PortOp
    BY DEF IInv, TypeOK
  <1>2. ASSUME NEW p \in Pipe, HostPipeStep(p) \/ ChanTransfer(p) \/ ChanIgnored(p),
               UNCHANGED <<port_op, hw>>
        PROVE  PortQuiet'
    <2>1. PipeNext
      BY <1>2 DEF HostPipeStep, PipeNext, PipeStep, PipeCmd
    <2>2. UNCHANGED <<port, port_op>>
      BY <2>1, PortOfPipeStep DEF PortQuiet
    <2> QED BY <2>2 DEF PortQuiet, InReset, Invalidating
  <1>3. CASE PortInterrupt
    <2>1. UNCHANGED port_op
      BY <1>3 DEF PortInterrupt, IntrConn, IntrDisconn, IntrEnabled, IntrDisabled, IntrOvercurrent
    <2>2. /\ ~port'.waiting_all_pipes_pause /\ ~port'.disable_requested
          /\ port'.state \notin {"SUSPENDED", "RESUMING"}
      BY <1>1, <1>3 DEF PortQuiet, PortInterrupt, IntrConn, IntrDisconn, IntrEnabled, IntrDisabled,
                        IntrOvercurrent, PortDisabled, Raise, Port_t
    <2> QED BY <2>1, <2>2 DEF PortQuiet, InReset, Invalidating
  <1>4. CASE PowerOn \/ PowerOff \/ Reset \/ Recover
    <2>1. /\ port'.state \in {"DISCONNECTED", "NOT_POWERED", "RESETTING"}
          /\ port'.waiting_all_pipes_pause = port.waiting_all_pipes_pause
          /\ port'.disable_requested = port.disable_requested
      BY <1>1, <1>4 DEF PowerOn, PowerOff, Reset, Recover, Port_t
    <2>2. UNCHANGED port_op \/ port_op'.at = "reset_hold"
      BY <1>4 DEF PowerOn, PowerOff, Reset, Recover, At
    <2> QED BY <2>1, <2>2 DEF PortQuiet, InReset, Invalidating
  <1>5. CASE ResetRelease \/ ResetEnd
    BY <1>1, <1>5 DEF PortQuiet, ResetRelease, ResetEnd, Idle, At, InReset, Invalidating
  <1>6. ~(SuspendWake \/ ResumeRelease \/ ResumeEnd \/ DisableWake \/ DisableEnd)
    BY DEF PortQuiet, SuspendWake, ResumeRelease, ResumeEnd, DisableWake, DisableEnd, InReset, Invalidating
  <1>7. CASE InvalidateNextActive
    BY <1>1, <1>7, LoopPlaces DEF PortQuiet, InvalidateNextActive, InReset, Invalidating
  <1>8. CASE InvalidateNextIdle
    BY <1>1, <1>8 DEF PortQuiet, InvalidateNextIdle, InReset, Invalidating, Idle, At, PortOp
  <1>9. CASE Debounced
    BY <1>1, <1>9 DEF PortQuiet, Debounced, Idle, At, Port_t
  <1>10. CASE HandleDebounced
    <2>1. /\ port'.state = port.state \/ port'.state = "DISCONNECTED"
          /\ port'.waiting_all_pipes_pause = port.waiting_all_pipes_pause
          /\ port'.disable_requested = port.disable_requested
      BY <1>1, <1>10 DEF HandleDebounced, Port_t
    <2>2. port_op'.at = "idle" \/ port_op'.at = "debounce"
      BY <1>10 DEF HandleDebounced, At
    <2> QED BY <2>1, <2>2 DEF PortQuiet
  <1>11. CASE HandleDeviceLost
    <2>1. port_op'.at \in {"idle", "invalidate_active", "invalidate_idle"}
      BY <1>1, <1>11, LoopPlaces DEF HandleDeviceLost
    <2>2. port' = [port EXCEPT !.event_pending = FALSE]
      BY <1>11 DEF HandleDeviceLost
    <2> QED BY <1>1, <2>1, <2>2 DEF PortQuiet, Invalidating, Port_t
  <1>12. CASE UNCHANGED vars
    BY <1>12 DEF vars, PortQuiet, InReset, Invalidating
  <1> QED BY <1>2, <1>3, <1>4, <1>5, <1>6, <1>7, <1>8, <1>9, <1>10, <1>11, <1>12
          DEF HostNext, PortOpStep, HandleEvent

\* The enable bit is set for a device that the driver knows.
LEMMA EnableStaysKnown == IInv /\ PortQuiet /\ LossSeen /\ EnableKnown /\ [HostNext]_vars => EnableKnown'
  <1> SUFFICES ASSUME IInv, PortQuiet, LossSeen, EnableKnown, [HostNext]_vars PROVE EnableKnown'
    OBVIOUS
  <1>1. port \in Port_t /\ port_op \in PortOp /\ hw \in Hw
    BY DEF IInv, TypeOK
  <1>2. ASSUME NEW p \in Pipe, HostPipeStep(p) \/ ChanTransfer(p) \/ ChanIgnored(p),
               UNCHANGED <<port_op, hw>>
        PROVE  EnableKnown'
    <2>1. PipeNext
      BY <1>2 DEF HostPipeStep, PipeNext, PipeStep, PipeCmd
    <2>2. UNCHANGED <<port, port_op>>
      BY <2>1, PortOfPipeStep DEF PortQuiet
    <2> QED BY <1>2, <2>2 DEF EnableKnown, InReset
  <1>3. CASE IntrConn
    BY <1>1, <1>3 DEF EnableKnown, IntrConn, Hw, InReset
  <1>4. CASE IntrDisconn
    BY <1>1, <1>4 DEF EnableKnown, IntrDisconn, Hw
  <1>5. CASE IntrEnabled
    BY <1>1, <1>5 DEF EnableKnown, IntrEnabled, Hw, Port_t
  <1>6. CASE IntrDisabled \/ IntrOvercurrent
    BY <1>1, <1>6 DEF EnableKnown, IntrDisabled, IntrOvercurrent, PoweredOff, Hw
  <1>7. CASE PowerOn
    BY <1>1, <1>7 DEF EnableKnown, PowerOn, InReset, Port_t, Hw
  <1>8. CASE PowerOff \/ Recover
    <2>1. \/ hw' = [hw EXCEPT !.powered = FALSE, !.enabled = FALSE, !.change = "NONE"]
          \/ hw' = [powered |-> FALSE, connected |-> FALSE, enabled |-> FALSE,
                    debouncing |-> FALSE, change |-> "NONE"]
      BY <1>8 DEF PowerOff, Recover, PoweredOff
    <2>2. hw'.enabled = FALSE /\ hw'.change = "NONE"
      <3>1. CASE hw' = [hw EXCEPT !.powered = FALSE, !.enabled = FALSE, !.change = "NONE"]
        BY <1>1, <3>1 DEF Hw
      <3>2. CASE hw' = [powered |-> FALSE, connected |-> FALSE, enabled |-> FALSE,
                        debouncing |-> FALSE, change |-> "NONE"]
        BY <3>2
      <3> QED BY <2>1, <3>1, <3>2
    <2> QED BY <2>2 DEF EnableKnown
  <1>9. CASE Reset
    BY <1>1, <1>9 DEF EnableKnown, Reset, NoLongerEnabled, CommandAllowed, InReset, At, Port_t, Hw
  <1>10. CASE ResetRelease
    <2>1. CASE port.state # "RESETTING"
      BY <1>10, <2>1 DEF EnableKnown, ResetRelease
    <2>2. CASE port.state = "RESETTING"
      <3>1. InReset' /\ UNCHANGED port /\ hw.change = "NONE"
        BY <1>10, <2>2 DEF ResetRelease, InReset, At
      <3>2. \/ hw' = hw
            \/ hw.connected /\ hw' = [hw EXCEPT !.enabled = TRUE, !.change = "ENABLED"]
        BY <1>10, <2>2 DEF ResetRelease
      <3> QED BY <1>1, <2>2, <3>1, <3>2 DEF EnableKnown, Hw
    <2> QED BY <2>1, <2>2
  <1>11. CASE ResetEnd
    BY <1>1, <1>11 DEF EnableKnown, ResetEnd, InReset, Idle, At, Hw
  <1>12. ~(SuspendWake \/ ResumeRelease \/ ResumeEnd \/ DisableWake \/ DisableEnd)
    BY DEF PortQuiet, SuspendWake, ResumeRelease, ResumeEnd, DisableWake, DisableEnd, InReset, Invalidating
  <1>13. CASE InvalidateNextActive \/ InvalidateNextIdle
    BY <1>13 DEF EnableKnown, InvalidateNextActive, InvalidateNextIdle, InReset
  <1>14. CASE Debounced
    <2>1. hw.change # "ENABLED" /\ ~InReset
      BY <1>14 DEF Debounced, IInv, EnabledByReset, InReset
    <2> QED BY <1>1, <1>14, <2>1 DEF EnableKnown, Debounced, Hw, Port_t
  <1>15. CASE HandleDebounced \/ HandleDeviceLost
    BY <1>1, <1>15 DEF EnableKnown, HandleDebounced, HandleDeviceLost, InReset, Port_t
  <1>16. CASE UNCHANGED vars
    BY <1>16 DEF EnableKnown, vars, InReset
  <1> QED BY <1>2, <1>3, <1>4, <1>5, <1>6, <1>7, <1>8, <1>9, <1>10, <1>11, <1>12, <1>13, <1>14, <1>15,
             <1>16 DEF HostNext, PortInterrupt, PortOpStep, HandleEvent

\* Of a pipe: nobody waits for it, and it is active if it transfers.
Quiet(pipe) ==
    /\ ~pipe.waiting_xfer_done /\ ~pipe.pipe_cmd_processing /\ ~pipe.paused
    /\ pipe.executing => pipe.state = "ACTIVE"

\* A pipe that is invalidated is not paused by that, nor waited for.
LEMMA InvalidatedFlags ==
    ASSUME NEW p, Sound(p), NEW q \in {Invalidated(p), InvalidatedIdle(p)}
    PROVE  /\ q.waiting_xfer_done = p.waiting_xfer_done /\ q.paused = p.paused
           /\ q.pipe_cmd_processing = p.pipe_cmd_processing
  <1> DEFINE i == InvalidatedIdle(p)
  <1>1. p \in Pipe_t
    BY DEF Sound
  <1>2. /\ i \in Pipe_t /\ SameRing(p, i) /\ i.state = "INVALID" /\ i.executing = p.executing
        /\ i.waiting_xfer_done = p.waiting_xfer_done /\ i.paused = p.paused
        /\ i.pipe_cmd_processing = p.pipe_cmd_processing
    BY <1>1 DEF InvalidatedIdle, Pipe_t, SameRing, PipeState, PipeEvent
  <1>3. Invalidated(p) = Retire(BufferFlushAll(i, FALSE), FALSE)
    BY DEF Invalidated, InvalidatedIdle
  <1>4. q = i \/ q = Retire(BufferFlushAll(i, FALSE), FALSE)
    BY <1>3
  <1> HIDE DEF i
  <1>5. RingOK(i) /\ IrpsOK(i)
    <2>1. RingOK(i)
      BY <1>2 DEF SameRing, Sound, RingOK, RingWindows, Counted, Indexed, Occupied, Reported, Filled
    <2>2. IrpsOK(i)
      BY <1>2 DEF SameRing, Sound, IrpsOK, PendingOK, InFlightOK, DoneOK
    <2> QED BY <2>1, <2>2
  <1>6. SameFlags(i, Retire(BufferFlushAll(i, FALSE), FALSE))
    BY <1>2, <1>5, FlushFlags
  <1> QED BY <1>2, <1>4, <1>6 DEF SameFlags

\* A command that finds nothing in flight leaves the pipe quiet.
LEMMA CommandedQuiet ==
    ASSUME NEW p, Sound(p), Ahead(p), Quiet(p), NEW cmd \in PipeCmd, p.state # "INVALID",
           cmd # "CLEAR" => ~p.executing
    PROVE  Quiet(Commanded(p, cmd))
  <1> DEFINE q == Commanded(p, cmd)
             f == FlushAndRetire(p)
  <1>1. p \in Pipe_t
    BY DEF Sound
  <1>2. ~q.waiting_xfer_done /\ ~q.pipe_cmd_processing /\ ~q.paused
    BY CommandedWorks DEF Quiet
  <1>3. f \in Pipe_t /\ ~f.executing
    <2>1. Sound(f) /\ Flushed(f)
      BY FlushRetire, FlushFlags DEF FlushAndRetire, Sound
    <2> QED BY <2>1 DEF Sound, Flushed
  <1>4. /\ cmd = "ABORT" => q = f
        /\ cmd = "RESET" => q = [f EXCEPT !.state = "ACTIVE"]
        /\ cmd = "HALT" => q = [p EXCEPT !.state = "HALTED"]
        /\ cmd = "CLEAR" => q = IF p.state = "HALTED"
                               THEN FillAndExec([p EXCEPT !.state = "ACTIVE"])
                               ELSE p
    BY DEF Commanded
  <1>5. ASSUME cmd = "CLEAR", p.state = "HALTED" PROVE q.state = "ACTIVE"
    <2> DEFINE a == [p EXCEPT !.state = "ACTIVE"]
    <2>1. /\ a \in Pipe_t /\ a.state = "ACTIVE" /\ SameWork(p, a) /\ a.to_parse = p.to_parse
      BY <1>1 DEF Pipe_t, SameWork, PipeState
    <2>2. q = FillAndExec(a)
      BY <1>4, <1>5
    <2> HIDE DEF a, q
    <2>3. Counted(a) /\ a.to_parse = 0 /\ Ahead(a)
      BY <2>1, SameWorkAhead DEF Counted, SameWork, Sound, RingOK, RingWindows
    <2> QED BY <2>1, <2>2, <2>3, FillAndExecWorks DEF SameFlags
  <1> SUFFICES Quiet(q)
    OBVIOUS
  <1> HIDE DEF q, f
  <1>6. q.executing => q.state = "ACTIVE"
    <2>1. CASE cmd = "ABORT"
      BY <1>3, <1>4, <2>1
    <2>2. CASE cmd = "RESET"
      BY <1>3, <1>4, <2>2 DEF Pipe_t
    <2>3. CASE cmd = "HALT"
      BY <1>1, <1>4, <2>3 DEF Pipe_t
    <2>4. CASE cmd = "CLEAR"
      BY <1>4, <1>5, <2>4 DEF Quiet
    <2> QED BY <2>1, <2>2, <2>3, <2>4 DEF PipeCmd
  <1> QED BY <1>2, <1>6 DEF Quiet

\* No step of the host layer, of a channel or of the port makes a pipe wait.
LEMMA QuietTurn ==
    ASSUME IInv, WaitInv, PortQuiet, PortQuiet', IInv', [Next]_vars, UNCHANGED pipe_cmd,
           NEW p \in Pipe, Quiet(pipes[p]), pipe_cmd[p] = "NONE"
    PROVE  Quiet(pipes'[p])
  <1> DEFINE x == pipes[p]
             y == pipes'[p]
  <1>1. PipeTurn(p)
    BY TurnsTaken
  <1>2. Sound(x) /\ x \in Pipe_t /\ Ahead(x)
    BY PipeNow
  <1>3. ASSUME Reopened(p) PROVE Quiet(y)
    BY <1>3 DEF Reopened, NewPipe, Quiet
  <1>4. Kept(p) => Quiet(y)
    BY DEF Kept
  <1>5. ASSUME ClientTurn(p) PROVE Quiet(y)
    <2>1. ASSUME NEW irp \in Irp, x.state = "ACTIVE", y = Enqueued(x, irp) PROVE Quiet(y)
      BY <1>2, <2>1, EnqueuedWorks DEF Quiet, SameFlags
    <2>2. CASE y = Dequeued(x)
      BY <1>2, <2>2, DequeuedWaits DEF Quiet, SameFlags
    <2>3. ASSUME NEW irp \in Irp, y = Aborted(x, irp) PROVE Quiet(y)
      BY <1>2, <2>3, AbortedWaits DEF Quiet, SameFlags
    <2>4. CASE y = [x EXCEPT !.last_event = "NONE"]
      BY <1>2, <2>4 DEF Quiet, Pipe_t
    <2> QED BY <1>5, <2>1, <2>2, <2>3, <2>4 DEF ClientTurn
  <1>6. ~WaitTurn(p) /\ ~ReturnTurn(p)
    BY DEF WaitTurn, ReturnTurn
  <1>7. ASSUME CommandTurn(p) PROVE Quiet(y)
    BY <1>2, <1>7, CommandedQuiet DEF CommandTurn
  <1>8. ASSUME ChannelTurn(p) PROVE Quiet(y)
    <2>1. x.executing /\ x.state = "ACTIVE"
      BY <1>8 DEF ChannelTurn, Quiet
    <2>2. CASE y = NextStage(x)
      BY <1>2, <2>2 DEF NextStage, Quiet, Pipe_t
    <2>3. CASE EndTurn(p, Completed(x))
      <3>1. SameFlags(x, Completed(x))
        BY <1>2, <2>1, CompletedWorks
      <3> QED BY <2>1, <2>3, <3>1 DEF EndTurn, Quiet, SameFlags
    <2>4. ASSUME NEW error \in ChanError, EndTurn(p, Failed(x, error)) PROVE Quiet(y)
      <3> DEFINE f == Failed(x, error)
      <3>1. /\ ~f.executing /\ f.paused = x.paused /\ f.waiting_xfer_done = x.waiting_xfer_done
            /\ f.pipe_cmd_processing = x.pipe_cmd_processing
        BY <1>2, <2>1, FailedWorks
      <3> HIDE DEF f
      <3>2. y = f
        BY <2>4, <3>1 DEF EndTurn, Quiet, f
      <3> QED BY <3>1, <3>2 DEF Quiet
    <2> QED BY <1>8, <2>2, <2>3, <2>4 DEF ChannelTurn
  <1>9. ASSUME StopTurn(p) PROVE Quiet(y)
    BY <1>2, <1>9 DEF StopTurn, Quiet, Pipe_t
  <1>10. ~PauseTurn(p)
    <2>1. port \in Port_t
      BY DEF IInv, TypeOK
    <2>2. ~Suspend
      BY <2>1 DEF PortQuiet, Suspend, PauseAllPipes, Port_t
    <2>3. ~Disable
      BY DEF PortQuiet, Disable, PauseAllPipes, RequestDisable, At, InReset, Invalidating
    <2> QED BY <2>2, <2>3 DEF PauseTurn
  <1>11. ~ResumeTurn(p)
    BY DEF ResumeTurn, PortQuiet, InReset, Invalidating
  <1>12. ASSUME LossTurn(p) PROVE Quiet(y)
    <2>1. /\ y.waiting_xfer_done = x.waiting_xfer_done /\ y.paused = x.paused
          /\ y.pipe_cmd_processing = x.pipe_cmd_processing
      BY <1>2, <1>12, InvalidatedFlags DEF LossTurn
    <2>2. y.state = "INVALID"
      BY <1>2, <1>12, InvalidatedWorks DEF LossTurn
    <2>3. ~y.executing
      BY <2>2 DEF IInv, InvalidPipesFlushed, Flushed
    <2> QED BY <2>1, <2>3 DEF Quiet
  <1> QED BY <1>1, <1>3, <1>4, <1>5, <1>6, <1>7, <1>8, <1>9, <1>10, <1>11, <1>12 DEF PipeTurn

\* Between two rounds the pipes stay in their lists, and the invalid ones invalid.
LEMMA LoopsKept ==
    ASSUME IInv, LoopsReach, [Next]_vars, UNCHANGED <<idle_tailq, active_tailq, port_op>>
    PROVE  LoopsReach'
  <1>1. ASSUME NEW p \in Pipe, Allocated(p), pipes[p].state = "INVALID"
        PROVE  pipes'[p].state = "INVALID"
    <2>1. Allocated(p)'
      BY <1>1 DEF Allocated, InQueue
    <2> QED BY <1>1, <2>1, InvalidStays, FreedGone DEF PipeAlloc
  <1>2. ASSUME NEW p \in Pipe, NEW c, NEW q \in {idle_tailq, active_tailq}, Reached(q, p, c)
        PROVE  Allocated(p)
    BY <1>2 DEF Reached, Allocated, InQueue
  <1>3. port_op.at = "invalidate_active" => LoopsReach'
    BY <1>1, <1>2 DEF LoopsReach, InQueue, Reached
  <1>4. port_op.at = "invalidate_idle" => LoopsReach'
    <2>1. ASSUME NEW p \in Pipe, InQueue(active_tailq, p) PROVE Allocated(p)
      BY <2>1 DEF Allocated
    <2> QED BY <1>1, <1>2, <2>1 DEF LoopsReach, InQueue, Reached
  <1> QED BY <1>3, <1>4 DEF LoopsReach

\* The loops reach every pipe, as long as no client runs between two rounds.
LEMMA LoopsStep ==
    ASSUME IInv, PortQuiet, LoopsReach, [HostNext]_vars
    PROVE  /\ LoopsReach'
           /\ Invalidating /\ ~Invalidating'
                  => \A x \in Pipe : Allocated(x)' => pipes'[x].state = "INVALID"
  <1> DEFINE Goal == /\ LoopsReach'
                     /\ Invalidating /\ ~Invalidating'
                            => \A x \in Pipe : Allocated(x)' => pipes'[x].state = "INVALID"
  <1> SUFFICES Goal
    OBVIOUS
  <1>1. [Next]_vars
    BY HostSteps
  <1>2. ASSUME UNCHANGED <<idle_tailq, active_tailq, port_op>> PROVE Goal
    BY <1>1, <1>2, LoopsKept DEF Invalidating
  <1>3. ASSUME ~Invalidating, ~Invalidating' PROVE Goal
    BY <1>3 DEF LoopsReach, Invalidating
  <1>4. ASSUME HandleDeviceLost \/ InvalidateNextActive \/ InvalidateNextIdle PROVE Goal
    BY <1>4, LoopRounds DEF NoneLeft
  <1> HIDE DEF Goal
  <1>5. ASSUME NEW p \in Pipe, HostPipeStep(p) \/ ChanTransfer(p) \/ ChanIgnored(p),
               UNCHANGED <<port_op, hw>>
        PROVE  Goal
    <2>1. CASE HostPipeStep(p)
      <3>1. ~Invalidating /\ ~Invalidating'
        BY <1>5, <2>1 DEF HostPipeStep, Invalidating
      <3> QED BY <1>3, <3>1
    <2>2. CASE ChanTransfer(p) \/ ChanIgnored(p)
      <3>1. UNCHANGED <<idle_tailq, active_tailq, port_op>>
        BY <1>5, <2>2 DEF ChanTransfer, ChanStage, ChanComplete, ChanFail, ChanIgnored
      <3> QED BY <1>2, <3>1
    <2> QED BY <1>5, <2>1, <2>2
  <1>6. ASSUME PortInterrupt \/ PowerOn \/ PowerOff \/ Recover \/ UNCHANGED vars PROVE Goal
    <2>1. UNCHANGED <<idle_tailq, active_tailq, port_op>>
      BY <1>6 DEF PortInterrupt, IntrConn, IntrDisconn, IntrEnabled, IntrDisabled, IntrOvercurrent,
                  PowerOn, PowerOff, Recover, pipeVars, vars
    <2> QED BY <1>2, <2>1
  <1>7. ASSUME Reset \/ ResetRelease \/ ResetEnd \/ Debounced PROVE Goal
    <2>1. ~Invalidating /\ ~Invalidating'
      BY <1>7 DEF Reset, ResetRelease, ResetEnd, Debounced, CommandAllowed, Idle, At, Invalidating
    <2> QED BY <1>3, <2>1
  <1>8. ASSUME HandleDebounced PROVE Goal
    <2>1. ~Invalidating /\ ~Invalidating'
      BY <1>8 DEF HandleDebounced, At, Invalidating
    <2> QED BY <1>3, <2>1
  <1>9. ~(SuspendWake \/ ResumeRelease \/ ResumeEnd \/ DisableWake \/ DisableEnd)
    BY DEF PortQuiet, SuspendWake, ResumeRelease, ResumeEnd, DisableWake, DisableEnd, InReset, Invalidating
  <1> QED BY <1>4, <1>5, <1>6, <1>7, <1>8, <1>9 DEF HostNext, PortOpStep, HandleEvent

\* Nothing waits.
LEMMA QuietParts ==
    NothingWaits /\ HaltedStops
        <=> PortQuiet /\ \A p \in Pipe : Quiet(pipes[p]) /\ pipe_cmd[p] = "NONE"
BY DEF NothingWaits, HaltedStops, PortQuiet, Quiet, InReset, Invalidating

\* HostInv is inductive.
LEMMA HostInductive == IInv /\ WaitInv /\ HostInv /\ [HostNext]_vars => HostInv'
  <1> SUFFICES ASSUME IInv, WaitInv, HostInv, [HostNext]_vars PROVE HostInv'
    OBVIOUS
  <1>1. [Next]_vars /\ UNCHANGED pipe_cmd /\ IInv'
    BY HostSteps, IInvInductive
  <1>2. PortQuiet /\ \A p \in Pipe : Quiet(pipes[p]) /\ pipe_cmd[p] = "NONE"
    BY QuietParts DEF HostInv
  <1>3. PortQuiet'
    BY <1>2, QuietPort
  <1>4. \A p \in Pipe : Quiet(pipes'[p]) /\ pipe_cmd'[p] = "NONE"
    BY <1>1, <1>2, <1>3, QuietTurn
  <1>5. (NothingWaits /\ HaltedStops)'
    BY <1>3, <1>4 DEF NothingWaits, HaltedStops, PortQuiet, Quiet, InReset, Invalidating
  <1>6. EnableKnown' /\ LossSeen'
    BY <1>1, <1>2, EnableStaysKnown, LossSeenInductive DEF HostInv
  <1>7. LoopsReach' /\ LostInvalid'
    BY <1>1, <1>2, LoopsStep, LostInvalidStep DEF HostInv
  <1> QED BY <1>5, <1>6, <1>7 DEF HostInv

\* Before anything happens.
LEMMA InitHost == Init => IInv /\ WaitInv /\ HostInv
  <1> SUFFICES ASSUME Init PROVE HostInv
    BY InitIInv, InitWaits
  <1>1. LossSeen /\ LostInvalid
    BY InitLoss DEF LossInv
  <1>2. NothingWaits /\ HaltedStops /\ EnableKnown /\ LoopsReach
    BY DEF Init, NothingWaits, HaltedStops, EnableKnown, LoopsReach, NewPipe, Idle, At
  <1> QED BY <1>1, <1>2 DEF HostInv

\* Every state of the driver under the host layer.
LEMMA HostHolds == HostUse => [](IInv /\ WaitInv /\ HostInv)
  <1>1. IInv /\ WaitInv /\ HostInv /\ [HostNext]_vars => (IInv /\ WaitInv /\ HostInv)'
    BY HostSteps, IInvInductive, WaitInductive, HostInductive
  <1> QED BY <1>1, InitHost, PTL DEF HostUse

\* A port in recovery has told every pipe, however many there are, for the host layer
\* runs no client of a pipe between two rounds of the loops that tell them.
THEOREM HostUseLost == HostUse => []LostMeansInvalid
  <1>1. IInv /\ WaitInv /\ HostInv => LostMeansInvalid
    BY DEF HostInv, LostInvalid, LostMeansInvalid, Invalidating
  <1> QED BY <1>1, HostHolds, PTL

-----------------------------------------------------------------------------
(* One pipe, as HcdView sees it: p is a pipe, a whether it is allocated *)

\* A pipe of HcdView, field by field: the provers compare no record that changes
\* in two fields with one that is written out.
Driver(a, state, moving, pending, done) ==
    [alloc |-> a, state |-> state, moving |-> moving, pending |-> pending, done |-> done]

\* View!Filled, field by field.
LEMMA FilledDriver ==
    ASSUME NEW a, NEW state, NEW moving, NEW pending, NEW done,
           pending # << >>, Len(moving) < NumBuffers
    PROVE  View!Filled(Driver(a, state, moving, pending, done)) =
               Driver(a, state, Append(moving, Head(pending)), Tail(pending), done)
  <1> DEFINE d == Driver(a, state, moving, pending, done)
             x == Append(moving, Head(pending))
             y == Tail(pending)
  <1>1. d.moving = moving /\ d.pending = pending
    BY DEF Driver
  <1>2. View!Filled(d) = [d EXCEPT !.moving = x, !.pending = y]
    BY <1>1 DEF View!Filled
  <1> HIDE DEF x, y
  <1>3. [d EXCEPT !.moving = x] = Driver(a, state, x, pending, done)
    BY DEF Driver
  <1>4. [Driver(a, state, x, pending, done) EXCEPT !.pending = y] = Driver(a, state, x, y, done)
    BY DEF Driver
  <1> HIDE DEF d
  <1>5. [d EXCEPT !.moving = x, !.pending = y] = [[d EXCEPT !.moving = x] EXCEPT !.pending = y]
    OBVIOUS
  <1>6. View!Filled(d) = Driver(a, state, x, y, done)
    BY <1>2, <1>3, <1>4, <1>5
  <1> QED BY <1>6 DEF d, x, y

\* View!Oldest, field by field.
LEMMA OldestDriver ==
    ASSUME NEW a, NEW state, NEW moving, NEW pending, NEW done, NEW s
    PROVE  View!Oldest(Driver(a, state, moving, pending, done), s) =
               Driver(a, state, Tail(moving), pending,
                      Append(done, [irp |-> Head(moving), status |-> s]))
  <1> DEFINE d == Driver(a, state, moving, pending, done)
             x == Append(done, [irp |-> Head(moving), status |-> s])
             y == Tail(moving)
  <1>1. d.moving = moving /\ d.done = done
    BY DEF Driver
  <1>2. View!Oldest(d, s) = [d EXCEPT !.done = x, !.moving = y]
    BY <1>1 DEF View!Oldest
  <1> HIDE DEF x, y
  <1>3. [d EXCEPT !.done = x] = Driver(a, state, moving, pending, x)
    BY DEF Driver
  <1>4. [Driver(a, state, moving, pending, x) EXCEPT !.moving = y] = Driver(a, state, y, pending, x)
    BY DEF Driver
  <1> HIDE DEF d
  <1>5. [d EXCEPT !.done = x, !.moving = y] = [[d EXCEPT !.done = x] EXCEPT !.moving = y]
    OBVIOUS
  <1>6. View!Oldest(d, s) = Driver(a, state, y, pending, x)
    BY <1>2, <1>3, <1>4, <1>5
  <1> QED BY <1>6 DEF d, x, y

\* View!Flush, field by field.
LEMMA FlushDriver ==
    ASSUME NEW a, NEW state, NEW moving, NEW pending, NEW done, NEW s
    PROVE  View!Flush(Driver(a, state, moving, pending, done), s) =
               Driver(a, state, << >>, << >>, done \o View!EndWith(moving \o pending, s))
  <1> DEFINE d == Driver(a, state, moving, pending, done)
             x == done \o View!EndWith(moving \o pending, s)
             y == << >>
  <1>1. d.moving = moving /\ d.pending = pending /\ d.done = done
    BY DEF Driver
  <1>2. View!Flush(d, s) = [d EXCEPT !.done = x, !.moving = y, !.pending = y]
    BY <1>1 DEF View!Flush
  <1> HIDE DEF x, y
  <1>3. [d EXCEPT !.done = x] = Driver(a, state, moving, pending, x)
    BY DEF Driver
  <1>4. [Driver(a, state, moving, pending, x) EXCEPT !.moving = y] = Driver(a, state, y, pending, x)
    BY DEF Driver
  <1>5. [Driver(a, state, y, pending, x) EXCEPT !.pending = y] = Driver(a, state, y, y, x)
    BY DEF Driver
  <1> HIDE DEF d
  <1>6. [d EXCEPT !.done = x, !.moving = y, !.pending = y] =
            [[[d EXCEPT !.done = x] EXCEPT !.moving = y] EXCEPT !.pending = y]
    OBVIOUS
  <1>7. View!Flush(d, s) = Driver(a, state, y, y, x)
    BY <1>2, <1>3, <1>4, <1>5, <1>6
  <1> QED BY <1>7 DEF d, x, y

\* The fields of what is seen.
LEMMA SeenDriver ==
    ASSUME NEW p, NEW a
    PROVE  Seen(p, a) = Driver(a, p.state, InFlight(p), p.pending, p.done)
BY DEF Seen, Driver

\* Flags of the ring's users are not seen.
LEMMA SameRingSeen ==
    ASSUME NEW p, NEW q, SameRing(p, q), q.state = p.state, NEW a
    PROVE  Seen(q, a) = Seen(p, a)
BY DEF SameRing, Seen, InFlight

\* A pipe that was just allocated, or was freed, holds nothing.
LEMMA NewPipeSeen ==
    ASSUME NEW c, NEW a
    PROVE  Seen(NewPipe(c), a) = [View!NoPipeYet EXCEPT !.alloc = a]
  <1>1. InFlight(NewPipe(c)) = << >>
    BY DEF NewPipe, InFlight
  <1> QED BY <1>1 DEF Seen, NewPipe, View!NoPipeYet

\* The buffers of a sound pipe, and whether one is free.
LEMMA MovingParts ==
    ASSUME NEW p, Sound(p)
    PROVE  /\ InFlight(p) \in Seq(Irp) /\ p.pending \in Seq(Irp) /\ p.done \in Seq(DoneIrp)
           /\ Len(InFlight(p)) = p.to_exec
           /\ Len(InFlight(p)) < NumBuffers <=> p.to_fill > 0
           /\ InFlight(p) = << >> <=> p.to_exec = 0
  <1>1. /\ p \in Pipe_t /\ RingWindows(p) /\ Counted(p) /\ p.to_parse = 0
        /\ p.to_exec \in Nat /\ p.to_fill \in Nat
        /\ p.pending \in Seq(Irp) /\ p.done \in Seq(DoneIrp)
    BY NumBuffersAssumption DEF Sound, RingOK, RingWindows, Pipe_t
  <1>2. InFlight(p) \in Seq(Irp) /\ Len(InFlight(p)) = p.to_exec
    BY <1>1, InFlightParts
  <1>3. Len(InFlight(p)) < NumBuffers <=> p.to_fill > 0
    BY <1>1, <1>2, NumBuffersAssumption DEF Counted
  <1>4. InFlight(p) = << >> <=> p.to_exec = 0
    BY <1>2, EmptySeq
  <1> QED BY <1>1, <1>2, <1>3, <1>4

\* _buffer_fill, if it can.
LEMMA FillIfCanSeen ==
    ASSUME NEW p, Sound(p), NEW a
    PROVE  Seen(FillIfCan(p), a) = View!Filled(Seen(p, a))
  <1>1. Len(InFlight(p)) < NumBuffers <=> p.to_fill > 0
    BY MovingParts
  <1>2. CASE ~CanFill(p)
    BY <1>1, <1>2 DEF FillIfCan, CanFill, View!Filled, Seen
  <1>3. CASE CanFill(p)
    <2> DEFINE q == BufferFill(p)
    <2>1. /\ FillStep(p, q)
          /\ InFlight(q) = Append(InFlight(p), Head(p.pending))
      BY <1>3, FillMoves
    <2>2. FillIfCan(p) = q
      BY <1>3 DEF FillIfCan
    <2> HIDE DEF q
    <2>3. q.pending = Tail(p.pending) /\ q.done = p.done /\ q.state = p.state
      BY <2>1 DEF FillStep
    <2>4. p.pending # << >> /\ p.to_fill > 0
      BY <1>3 DEF CanFill
    <2>5. View!Filled(Seen(p, a)) =
              Driver(a, p.state, Append(InFlight(p), Head(p.pending)), Tail(p.pending), p.done)
      BY <1>1, <2>4, SeenDriver, FilledDriver
    <2> QED BY <2>1, <2>2, <2>3, <2>5, SeenDriver
  <1> QED BY <1>2, <1>3

\* The pair of ifs that fills and executes.
LEMMA FillAndExecSeen ==
    ASSUME NEW p, Sound(p), NEW a
    PROVE  Seen(FillAndExec(p), a) = View!Filled(Seen(p, a))
  <1> DEFINE f == FillIfCan(p)
  <1>1. f \in Pipe_t
    BY FillIfCanFollows DEF Follows, Sound
  <1>2. FillAndExec(p) = f \/ FillAndExec(p) = BufferExec(f)
    BY DEF FillAndExec
  <1> HIDE DEF f
  <1>3. Seen(BufferExec(f), a) = Seen(f, a)
    BY <1>1, ExecFields, SameRingSeen
  <1> QED BY <1>2, <1>3, FillIfCanSeen DEF f

\* hcd_irp_enqueue.
LEMMA EnqueuedSeen ==
    ASSUME NEW p, Sound(p), NEW irp \in Irp, p.irp_state[irp] = "IDLE", p.state = "ACTIVE", NEW a
    PROVE  Seen(Enqueued(p, irp), a) = View!Enqueue(Seen(p, a), irp)
  <1> DEFINE q == EnqueuedFirst(p, irp)
  <1>1. Sound(q)
    BY EnqueuedFirstSound DEF Takes
  <1>2. Enqueued(p, irp) = FillAndExec(q)
    BY DEF Enqueued, EnqueuedFirst
  <1>3. /\ q.pending = Append(p.pending, irp) /\ q.done = p.done /\ q.state = p.state
        /\ InFlight(q) = InFlight(p)
    BY DEF EnqueuedFirst, Sound, Pipe_t, InFlight
  <1> HIDE DEF q
  <1>4. Seen(q, a) = [Seen(p, a) EXCEPT !.pending = Append(@, irp)]
    <2>1. Seen(q, a) = Driver(a, p.state, InFlight(p), Append(p.pending, irp), p.done)
      BY <1>3 DEF Seen, Driver
    <2>2. Seen(p, a) = Driver(a, p.state, InFlight(p), p.pending, p.done)
      BY DEF Seen, Driver
    <2> QED BY <2>1, <2>2 DEF Driver
  <1> QED BY <1>1, <1>2, <1>4, FillAndExecSeen DEF View!Enqueue

\* hcd_irp_dequeue.
LEMMA DequeuedSeen ==
    ASSUME NEW p \in Pipe_t, NEW a
    PROVE  Seen(Dequeued(p), a) = [Seen(p, a) EXCEPT !.done = Tail(@)]
  <1> DEFINE q == Dequeued(p)
  <1>1. /\ q.pending = p.pending /\ q.done = Tail(p.done) /\ q.state = p.state
        /\ q.to_parse = p.to_parse /\ q.to_exec = p.to_exec
        /\ q.buf = p.buf /\ q.fr_idx = p.fr_idx
    BY DEF Dequeued, Pipe_t
  <1> HIDE DEF q
  <1>2. InFlight(q) = InFlight(p)
    BY <1>1 DEF InFlight
  <1> DEFINE d == Seen(p, a)
             x == Tail(p.done)
  <1>3. d.done = p.done
    BY DEF Seen
  <1>4. Seen(q, a) = Driver(a, p.state, InFlight(p), p.pending, x)
    BY <1>1, <1>2, SeenDriver
  <1> HIDE DEF x
  <1>5. [d EXCEPT !.done = x] = Driver(a, p.state, InFlight(p), p.pending, x)
    BY DEF Seen, Driver
  <1> QED BY <1>3, <1>4, <1>5 DEF q, x

\* A completed buffer that is parsed ends the oldest IRP.
LEMMA ParsedSeen ==
    ASSUME NEW p, Sound(p), p.executing, NEW res \in Status, NEW e, SameQueues(MarkDone(p, res), e),
           NEW a
    PROVE  LET r == BufferParse(e) IN
           /\ Sound(r)
           /\ Seen(r, a) = Driver(a, e.state, Tail(InFlight(p)), p.pending,
                                  Append(p.done, [irp |-> Head(InFlight(p)), status |-> res]))
  <1> DEFINE m == MarkDone(p, res)
             r == BufferParse(e)
  <1>1. p \in Pipe_t /\ RingWindows(p) /\ p.to_exec > 0 /\ p.to_parse = 0 /\ p.to_exec \in Nat
    BY NumBuffersAssumption DEF Sound, RingOK, RingWindows, Pipe_t
  <1>2. m \in Pipe_t /\ DoneStep(p, m) /\ m.to_parse = 1 /\ m.result[m.fr_idx] = res
    BY MarkDoneFields, MarkDoneKeeps
  <1>3. e \in Pipe_t /\ SameRing(m, e)
    BY DEF SameQueues
  <1>4. Sound(r)
    BY ParsedSound
  <1> HIDE DEF m
  <1>5. RingWindows(e)
    <2>1. RingWindows(m)
      BY <1>1, <1>2, DoneRing
    <2>2. e.executing => e.to_exec > 0
      BY DEF SameQueues, m
    <2> QED BY <1>3, <2>1, <2>2 DEF SameRing, RingWindows, Counted, Indexed, Occupied, Reported, Filled
  <1>6. e.to_parse = 1 /\ e.result[e.fr_idx] = res /\ res # "NONE"
    BY <1>2, <1>3 DEF SameRing, Status, Fatal
  <1>7. ParseStep(e, r)
    BY <1>3, <1>5, <1>6, ParseFields
  <1> HIDE DEF r
  <1>8. /\ Head(InFlight(e)) = e.buf[e.fr_idx] /\ InFlight(r) = Tail(InFlight(e))
    BY <1>3, <1>4, <1>5, <1>6, <1>7, ParseHead DEF Sound, RingOK
  <1>9. InFlight(e) = InFlight(p)
    <2>1. e.to_parse + e.to_exec = p.to_parse + p.to_exec /\ e.buf = p.buf /\ e.fr_idx = p.fr_idx
      BY <1>1, <1>2, <1>3 DEF SameRing, DoneStep
    <2> QED BY <2>1 DEF InFlight
  <1>10. /\ r.done = Append(p.done, [irp |-> Head(InFlight(p)), status |-> res])
         /\ r.pending = p.pending /\ r.state = e.state
    BY <1>2, <1>3, <1>6, <1>7, <1>8, <1>9 DEF ParseStep, SameRing, DoneStep
  <1>11. Seen(r, a) = Driver(a, e.state, Tail(InFlight(p)), p.pending,
                             Append(p.done, [irp |-> Head(InFlight(p)), status |-> res]))
    BY <1>8, <1>9, <1>10, SeenDriver
  <1> QED BY <1>4, <1>11 DEF r

\* The interrupt of a completed transfer, when nobody waits for it.
LEMMA CompletedSeen ==
    ASSUME NEW p, Sound(p), p.executing, ~p.waiting_xfer_done, NEW a
    PROVE  Seen(Completed(p), a) = View!Filled(View!Oldest(Seen(p, a), "COMPLETED"))
  <1>1. PICK e : /\ SameQueues(MarkDone(p, "COMPLETED"), e) /\ SameFlags(p, e)
                 /\ LET r == BufferParse(e) IN
                    Completed(p) = IF r.waiting_xfer_done THEN r ELSE FillIfCan(r)
    BY CompletedParses
  <1> DEFINE r == BufferParse(e)
             o == View!Oldest(Seen(p, a), "COMPLETED")
  <1>2. "COMPLETED" \in Status
    BY DEF Status
  <1>3. Sound(r) /\ r.waiting_xfer_done = e.waiting_xfer_done
    BY <1>1, <1>2, ParsedSound
  <1>4. Seen(r, a) = Driver(a, e.state, Tail(InFlight(p)), p.pending,
                            Append(p.done, [irp |-> Head(InFlight(p)), status |-> "COMPLETED"]))
    BY <1>1, <1>2, ParsedSeen
  <1>5. e.state = p.state /\ ~e.waiting_xfer_done
    BY <1>1 DEF SameFlags
  <1>6. o = Driver(a, p.state, Tail(InFlight(p)), p.pending,
                   Append(p.done, [irp |-> Head(InFlight(p)), status |-> "COMPLETED"]))
    BY SeenDriver, OldestDriver
  <1>7. Completed(p) = FillIfCan(r)
    BY <1>1, <1>3, <1>5
  <1> HIDE DEF r, o
  <1>8. Seen(r, a) = o
    BY <1>4, <1>5, <1>6
  <1> QED BY <1>3, <1>7, <1>8, FillIfCanSeen DEF o

\* The interrupt of a failed one.
LEMMA FailedSeen ==
    ASSUME NEW p, Sound(p), p.executing, NEW error \in ChanError, Fatal = {}, NEW a
    PROVE  \E s \in View!Error :
              Seen(Failed(p, error), a) = [View!Oldest(Seen(p, a), s) EXCEPT !.state = "HALTED"]
  <1>1. PICK h, res :
            /\ res \in {"ERROR", "STALL", "OVERFLOW"} \union Fatal
            /\ Sound(h) /\ SameIrps(p, h) /\ h.executing
            /\ SameRing(p, h) /\ h.state = "HALTED" /\ ~h.chan_busy
            /\ SameFlags([p EXCEPT !.state = "HALTED"], h)
            /\ SameQueues(MarkDone(h, res), MarkDone(h, res))
            /\ Failed(p, error) = BufferParse(MarkDone(h, res))
    BY FailedParses, Zenon
  <1> DEFINE m == MarkDone(h, res)
  <1>2. res \in Status /\ res \in View!Error
    BY <1>1 DEF Status, Fatal, View!Error
  <1>3. m.state = "HALTED"
    BY <1>1, <1>2, MarkDoneFields
  <1> DEFINE mo == Tail(InFlight(p))
             dn == Append(p.done, [irp |-> Head(InFlight(p)), status |-> res])
  <1>4. Seen(BufferParse(m), a) =
            Driver(a, m.state, Tail(InFlight(h)), h.pending,
                   Append(h.done, [irp |-> Head(InFlight(h)), status |-> res]))
    BY <1>1, <1>2, ParsedSeen
  <1> HIDE DEF m
  <1>5. h.pending = p.pending /\ h.done = p.done /\ InFlight(h) = InFlight(p)
    BY <1>1 DEF SameRing, InFlight
  <1>6. View!Oldest(Seen(p, a), res) = Driver(a, p.state, mo, p.pending, dn)
    BY SeenDriver, OldestDriver
  <1>7. Seen(BufferParse(m), a) = Driver(a, "HALTED", mo, p.pending, dn)
    BY <1>3, <1>4, <1>5
  <1> HIDE DEF mo, dn
  <1>8. [Driver(a, p.state, mo, p.pending, dn) EXCEPT !.state = "HALTED"] =
            Driver(a, "HALTED", mo, p.pending, dn)
    BY DEF Driver
  <1>9. Seen(BufferParse(m), a) = [View!Oldest(Seen(p, a), res) EXCEPT !.state = "HALTED"]
    BY <1>6, <1>7, <1>8
  <1> QED BY <1>1, <1>2, <1>9 DEF m

-----------------------------------------------------------------------------
(* A flush, field by field *)

\* The IRPs of two sequences end as those of one.
LEMMA EndWithConcat ==
    ASSUME NEW s \in Seq(Irp), NEW t \in Seq(Irp), NEW st \in Status
    PROVE  /\ View!EndWith(s, st) \in Seq(DoneIrp)
           /\ View!EndWith(s \o t, st) = View!EndWith(s, st) \o View!EndWith(t, st)
  <1>1. ASSUME NEW u \in Seq(Irp)
        PROVE  /\ View!EndWith(u, st) \in Seq(DoneIrp) /\ Len(View!EndWith(u, st)) = Len(u)
               /\ \A k \in 1 .. Len(u) : View!EndWith(u, st)[k] = [irp |-> u[k], status |-> st]
    BY DEF View!EndWith, DoneIrp
  <1>2. s \o t \in Seq(Irp) /\ Len(s \o t) = Len(s) + Len(t)
        /\ Len(s) \in Nat /\ Len(t) \in Nat
    OBVIOUS
  <1> DEFINE a == View!EndWith(s, st)
             b == View!EndWith(t, st)
             c == View!EndWith(s \o t, st)
  <1>3. /\ a \in Seq(DoneIrp) /\ Len(a) = Len(s)
        /\ \A k \in 1 .. Len(s) : a[k] = [irp |-> s[k], status |-> st]
        /\ b \in Seq(DoneIrp) /\ Len(b) = Len(t)
        /\ \A k \in 1 .. Len(t) : b[k] = [irp |-> t[k], status |-> st]
        /\ c \in Seq(DoneIrp) /\ Len(c) = Len(s) + Len(t)
    BY <1>1, <1>2
  <1>4. \A k \in 1 .. Len(s) + Len(t) : c[k] = [irp |-> (s \o t)[k], status |-> st]
    BY <1>1, <1>2
  <1> HIDE DEF a, b, c
  <1>5. a \o b \in Seq(DoneIrp) /\ Len(a \o b) = Len(s) + Len(t)
    BY <1>2, <1>3
  <1>6. ASSUME NEW k \in 1 .. Len(s) + Len(t)
        PROVE  c[k] = (a \o b)[k]
    <2>1. CASE k \in 1 .. Len(s)
      <3>1. (s \o t)[k] = s[k] /\ (a \o b)[k] = a[k]
        BY <1>2, <1>3, <2>1
      <3> QED BY <1>3, <1>4, <2>1, <3>1
    <2>2. CASE k \notin 1 .. Len(s)
      <3>1. k - Len(s) \in 1 .. Len(t) /\ k \in Int /\ k > Len(s)
        BY <1>2, <2>2
      <3>2. (s \o t)[k] = t[k - Len(s)] /\ (a \o b)[k] = b[k - Len(s)]
        BY <1>2, <1>3, <3>1
      <3> QED BY <1>3, <1>4, <3>1, <3>2
    <2> QED BY <2>1, <2>2
  <1>7. c = a \o b
    BY <1>2, <1>3, <1>5, <1>6
  <1> QED BY <1>3, <1>7 DEF a, b, c

\* A flush and the retirement of what waits end every IRP of the pipe.
LEMMA FlushRetireSeen ==
    ASSUME NEW p \in Pipe_t, RingOK(p), IrpsOK(p), NEW cancelled \in BOOLEAN,
           cancelled \/ p.state = "INVALID", NEW a
    PROVE  LET q == Retire(BufferFlushAll(p, cancelled), cancelled)
               st == IF cancelled THEN "CANCELED" ELSE "NO_DEVICE"
           IN  /\ q \in Pipe_t
               /\ Seen(q, a) = Driver(a, p.state, << >>, << >>,
                                      p.done \o View!EndWith(InFlight(p) \o p.pending, st))
  <1> DEFINE f == BufferFlushAll(p, cancelled)
             q == Retire(f, cancelled)
             st == IF cancelled THEN "CANCELED" ELSE "NO_DEVICE"
  <1>1. /\ f \in Pipe_t /\ q \in Pipe_t /\ q.state = p.state
        /\ PutOver(p, f, InFlight(p), Len(InFlight(p)), st)
        /\ PutOver(f, q, p.pending, Len(p.pending), st)
        /\ InFlight(q) = << >> /\ q.pending = << >>
    BY FlushRetirePuts
  <1>2. st \in Status
    BY DEF Status
  <1>3. p.done \in Seq(DoneIrp) /\ p.pending \in Seq(Irp) /\ InFlight(p) \in Seq(Irp)
    BY InFlightParts DEF Pipe_t, RingOK
  <1> HIDE DEF f, q, st
  <1>4. /\ f.done = p.done \o View!EndWith(InFlight(p), st)
        /\ q.done = f.done \o View!EndWith(p.pending, st)
    BY <1>1 DEF PutOver, View!EndWith
  <1>5. q.done = p.done \o View!EndWith(InFlight(p) \o p.pending, st)
    <2> DEFINE s == View!EndWith(InFlight(p), st)
               t == View!EndWith(p.pending, st)
    <2>1. s \in Seq(DoneIrp) /\ t \in Seq(DoneIrp)
          /\ View!EndWith(InFlight(p) \o p.pending, st) = s \o t
      BY <1>2, <1>3, EndWithConcat
    <2> HIDE DEF s, t
    <2>2. (p.done \o s) \o t = p.done \o (s \o t)
      <3>1. \A x, y, z \in Seq(DoneIrp) : (x \o y) \o z = x \o (y \o z)
        BY ConcatAssociative
      <3> QED BY <1>3, <2>1, <3>1
    <2> QED BY <1>4, <2>1, <2>2 DEF s, t
  <1>6. Seen(q, a) = Driver(a, p.state, << >>, << >>,
                            p.done \o View!EndWith(InFlight(p) \o p.pending, st))
    BY <1>1, <1>5, SeenDriver
  <1> QED BY <1>1, <1>6 DEF f, q, st

\* HCD_PIPE_CMD_RESET of a pipe with nothing in flight.
LEMMA ResetSeen ==
    ASSUME NEW p, Sound(p), NEW a
    PROVE  Seen(Commanded(p, "RESET"), a) = View!ResetPipe(Seen(p, a))
  <1> DEFINE q == FlushAndRetire(p)
             r == [q EXCEPT !.state = "ACTIVE"]
             dn == p.done \o View!EndWith(InFlight(p) \o p.pending, "CANCELED")
  <1>1. /\ q \in Pipe_t
        /\ Seen(q, a) = Driver(a, p.state, << >>, << >>, dn)
    BY FlushRetireSeen DEF Sound, FlushAndRetire
  <1>2. View!Flush(Seen(p, a), "CANCELED") = Driver(a, p.state, << >>, << >>, dn)
    BY SeenDriver, FlushDriver
  <1>3. Commanded(p, "RESET") = r
    BY DEF Commanded
  <1> HIDE DEF q, dn
  <1>4. /\ r.state = "ACTIVE" /\ r.pending = q.pending /\ r.done = q.done
        /\ r.to_parse = q.to_parse /\ r.to_exec = q.to_exec
        /\ r.buf = q.buf /\ r.fr_idx = q.fr_idx
    BY <1>1 DEF Pipe_t
  <1> HIDE DEF r
  <1>5. InFlight(r) = InFlight(q)
    BY <1>4 DEF InFlight
  <1>6. q.pending = << >> /\ InFlight(q) = << >> /\ q.done = dn
    BY <1>1 DEF Seen, Driver
  <1>7. Seen(r, a) = Driver(a, "ACTIVE", << >>, << >>, dn)
    BY <1>4, <1>5, <1>6, SeenDriver
  <1>8. [Driver(a, p.state, << >>, << >>, dn) EXCEPT !.state = "ACTIVE"] =
            Driver(a, "ACTIVE", << >>, << >>, dn)
    BY DEF Driver
  <1>9. View!ResetPipe(Seen(p, a)) = [View!Flush(Seen(p, a), "CANCELED") EXCEPT !.state = "ACTIVE"]
    BY DEF View!ResetPipe
  <1> QED BY <1>2, <1>3, <1>7, <1>8, <1>9

\* What becomes of a pipe when the device is lost.
LEMMA InvalidatedSeen ==
    ASSUME NEW p, Sound(p), NEW a
    PROVE  Seen(Invalidated(p), a) =
               [View!Flush(Seen(p, a), "NO_DEVICE") EXCEPT !.state = "INVALID"]
  <1> DEFINE r == [p EXCEPT !.state = "INVALID", !.last_event = "INVALID"]
             dn == p.done \o View!EndWith(InFlight(p) \o p.pending, "NO_DEVICE")
  <1>1. p \in Pipe_t
    BY DEF Sound
  <1>2. r \in Pipe_t /\ SameRing(p, r) /\ r.state = "INVALID" /\ r.executing = p.executing
    BY <1>1 DEF Pipe_t, SameRing, PipeState, PipeEvent
  <1>3. Invalidated(p) = Retire(BufferFlushAll(r, FALSE), FALSE)
    BY DEF Invalidated
  <1> HIDE DEF r
  <1>4. RingOK(r) /\ IrpsOK(r)
    <2>1. RingOK(r)
      BY <1>2 DEF SameRing, Sound, RingOK, RingWindows, Counted, Indexed, Occupied, Reported, Filled
    <2>2. IrpsOK(r)
      BY <1>2 DEF SameRing, Sound, IrpsOK, PendingOK, InFlightOK, DoneOK
    <2> QED BY <2>1, <2>2
  <1>5. r.done = p.done /\ r.pending = p.pending /\ InFlight(r) = InFlight(p)
    BY <1>2 DEF SameRing, InFlight
  <1>6. Seen(Invalidated(p), a) =
            Driver(a, "INVALID", << >>, << >>,
                   r.done \o View!EndWith(InFlight(r) \o r.pending, "NO_DEVICE"))
    BY <1>2, <1>3, <1>4, FlushRetireSeen
  <1>7. Seen(Invalidated(p), a) = Driver(a, "INVALID", << >>, << >>, dn)
    BY <1>5, <1>6
  <1>8. View!Flush(Seen(p, a), "NO_DEVICE") = Driver(a, p.state, << >>, << >>, dn)
    BY SeenDriver, FlushDriver
  <1> HIDE DEF dn
  <1>9. [Driver(a, p.state, << >>, << >>, dn) EXCEPT !.state = "INVALID"] =
            Driver(a, "INVALID", << >>, << >>, dn)
    BY DEF Driver
  <1> QED BY <1>7, <1>8, <1>9

\* An idle one has nothing to flush.
LEMMA InvalidatedIdleSeen ==
    ASSUME NEW p, Sound(p), HoldsNothing(p), NEW a
    PROVE  Seen(InvalidatedIdle(p), a) =
               [View!Flush(Seen(p, a), "NO_DEVICE") EXCEPT !.state = "INVALID"]
  <1> DEFINE q == InvalidatedIdle(p)
  <1>1. p \in Pipe_t /\ p.pending = << >> /\ p.done = << >>
    BY DEF Sound, HoldsNothing
  <1>2. InFlight(p) = << >>
    BY MovingParts DEF HoldsNothing
  <1>3. SameRing(p, q) /\ q.state = "INVALID"
    BY <1>1 DEF InvalidatedIdle, Pipe_t, SameRing
  <1> HIDE DEF q
  <1>4. q.pending = << >> /\ q.done = << >> /\ InFlight(q) = << >>
    BY <1>1, <1>2, <1>3 DEF SameRing, InFlight
  <1>5. Seen(q, a) = Driver(a, "INVALID", << >>, << >>, << >>)
    BY <1>3, <1>4, SeenDriver
  <1>6. << >> \o View!EndWith(<< >> \o << >>, "NO_DEVICE") = << >>
    <2>1. << >> \in Seq(Irp) /\ << >> \in Seq(DoneIrp) /\ << >> \o << >> = << >>
      OBVIOUS
    <2>2. View!EndWith(<< >>, "NO_DEVICE") = << >>
      BY DEF View!EndWith
    <2> QED BY <2>1, <2>2
  <1>7. View!Flush(Seen(p, a), "NO_DEVICE") = Driver(a, p.state, << >>, << >>, << >>)
    <2>1. View!Flush(Seen(p, a), "NO_DEVICE") =
              Driver(a, p.state, << >>, << >>,
                     p.done \o View!EndWith(InFlight(p) \o p.pending, "NO_DEVICE"))
      BY SeenDriver, FlushDriver
    <2>2. p.done \o View!EndWith(InFlight(p) \o p.pending, "NO_DEVICE") = << >>
      BY <1>1, <1>2, <1>6
    <2> QED BY <2>1, <2>2
  <1>8. [Driver(a, p.state, << >>, << >>, << >>) EXCEPT !.state = "INVALID"] =
            Driver(a, "INVALID", << >>, << >>, << >>)
    BY DEF Driver
  <1> QED BY <1>5, <1>7, <1>8 DEF q

-----------------------------------------------------------------------------
(* Steps of one pipe *)

\* One pipe changes, and no other is allocated or freed.
LEMMA OnePipeSeen ==
    ASSUME PipePart, NEW p \in Pipe, NEW q, pipes' = [pipes EXCEPT ![p] = q],
           \A x \in Pipe : x # p => (Allocated(x)' <=> Allocated(x))
    PROVE  ViewPipes' = [ViewPipes EXCEPT ![p] = Seen(q, Allocated(p)')]
  <1>1. \A x \in Pipe : pipes'[x] = IF x = p THEN q ELSE pipes[x]
    BY DEF PipePart
  <1>2. \A x \in Pipe : x # p => Allocated(x)' = Allocated(x)
    BY DEF Allocated, InQueue
  <1>3. ViewPipes' = [x \in Pipe |-> Seen(pipes'[x], Allocated(x)')]
    BY DEF ViewPipes
  <1>4. \A x \in Pipe : Seen(pipes'[x], Allocated(x)') =
                            IF x = p THEN Seen(q, Allocated(p)') ELSE Seen(pipes[x], Allocated(x))
    BY <1>1, <1>2
  <1> QED BY <1>3, <1>4 DEF ViewPipes

\* No pipe is seen to change.
LEMMA NoPipeSeen ==
    ASSUME \A x \in Pipe : SameRing(pipes[x], pipes'[x]) /\ pipes'[x].state = pipes[x].state,
           \A x \in Pipe : Allocated(x)' <=> Allocated(x)
    PROVE  ViewPipes' = ViewPipes
  <1>1. \A x \in Pipe : Allocated(x)' = Allocated(x)
    BY DEF Allocated, InQueue
  <1>2. ViewPipes' = [x \in Pipe |-> Seen(pipes'[x], Allocated(x)')]
    BY DEF ViewPipes
  <1>3. \A x \in Pipe : Seen(pipes'[x], Allocated(x)) = Seen(pipes[x], Allocated(x))
    BY SameRingSeen
  <1> QED BY <1>1, <1>2, <1>3 DEF ViewPipes

\* No pipe is allocated or freed when an IRP comes or goes.
LEMMA AllocatedSame ==
    ASSUME IInv, NEW p \in Pipe,
           \/ \E irp \in Irp : IrpEnqueue(p, irp)
           \/ IrpDequeue(p)
           \/ UNCHANGED <<idle_tailq, active_tailq>>
    PROVE  \A x \in Pipe : Allocated(x)' <=> Allocated(x)
  <1>1. PipePart
    BY IInvParts
  <1>2. CASE UNCHANGED <<idle_tailq, active_tailq>>
    BY <1>2 DEF Allocated, InQueue
  <1>3. CASE /\ idle_tailq' = Without(idle_tailq, p) /\ active_tailq' = Append(active_tailq, p)
             /\ Allocated(p) /\ ~pipes[p].is_active
    <2>1. InQueue(idle_tailq, p)
      BY <1>1, <1>3, PipePartNow DEF Allocated
    <2>2. \A x : InQueue(Without(idle_tailq, p), x) <=> InQueue(idle_tailq, x) /\ x # p
      BY <1>1, <2>1, PipePartNow, WithoutList
    <2>3. \A x : InQueue(Append(active_tailq, p), x) <=> InQueue(active_tailq, x) \/ x = p
      BY <1>1, PipePartNow, AppendList
    <2> QED BY <1>3, <2>1, <2>2, <2>3 DEF Allocated
  <1>4. CASE /\ active_tailq' = Without(active_tailq, p) /\ idle_tailq' = Append(idle_tailq, p)
             /\ pipes[p].is_active
    <2>1. InQueue(active_tailq, p)
      BY <1>1, <1>4, PipePartNow
    <2>2. \A x : InQueue(Without(active_tailq, p), x) <=> InQueue(active_tailq, x) /\ x # p
      BY <1>1, <2>1, PipePartNow, WithoutList
    <2>3. \A x : InQueue(Append(idle_tailq, p), x) <=> InQueue(idle_tailq, x) \/ x = p
      BY <1>1, PipePartNow, AppendList
    <2> QED BY <1>4, <2>1, <2>2, <2>3 DEF Allocated
  <1> QED BY <1>2, <1>3, <1>4 DEF IrpEnqueue, IrpDequeue

\* hcd_pipe_alloc and hcd_pipe_free.
LEMMA AllocIsSeen ==
    ASSUME IInv, NEW p \in Pipe
    PROVE  /\ PipeAlloc(p) => View!HcdPipeAlloc(p)
           /\ PipeFree(p) => View!HcdPipeFree(p)
  <1>1. PipePart /\ Sound(pipes[p])
    BY IInvParts, PipesSound
  <1>2. \A a : Seen(NewPipe(p \in CtrlPipe), a) = [View!NoPipeYet EXCEPT !.alloc = a]
    BY NewPipeSeen
  <1>3. ASSUME PipeAlloc(p)
        PROVE  View!HcdPipeAlloc(p)
    <2>1. \A x : InQueue(Append(idle_tailq, p), x) <=> InQueue(idle_tailq, x) \/ x = p
      BY <1>1, PipePartNow, AppendList
    <2>2. /\ Allocated(p)' = TRUE
          /\ \A x \in Pipe : x # p => (Allocated(x)' <=> Allocated(x))
      BY <1>3, <2>1 DEF PipeAlloc, Allocated
    <2>3. ViewPipes' = [ViewPipes EXCEPT ![p] = Seen(NewPipe(p \in CtrlPipe), TRUE)]
      <3> DEFINE q == NewPipe(p \in CtrlPipe)
      <3>1. pipes' = [pipes EXCEPT ![p] = q]
        BY <1>3 DEF PipeAlloc
      <3> HIDE DEF q
      <3>2. ViewPipes' = [ViewPipes EXCEPT ![p] = Seen(q, Allocated(p)')]
        BY <1>1, <2>2, <3>1, OnePipeSeen
      <3> QED BY <2>2, <3>2 DEF q
    <2>4. ViewPort.conn_devc_ena
      BY <1>3 DEF PipeAlloc, ViewPort
    <2> QED BY <1>2, <2>3, <2>4 DEF View!HcdPipeAlloc
  <1>4. ASSUME PipeFree(p)
        PROVE  View!HcdPipeFree(p)
    <2>1. InQueue(idle_tailq, p) /\ ~InQueue(active_tailq, p)
      BY <1>1, <1>4, PipePartNow DEF PipeFree, Allocated
    <2>2. \A x : InQueue(Without(idle_tailq, p), x) <=> InQueue(idle_tailq, x) /\ x # p
      BY <1>1, <2>1, PipePartNow, WithoutList
    <2>3. /\ Allocated(p)' = FALSE
          /\ \A x \in Pipe : x # p => (Allocated(x)' <=> Allocated(x))
      BY <1>4, <2>1, <2>2 DEF PipeFree, Allocated
    <2>4. ViewPipes' = [ViewPipes EXCEPT ![p] = Seen(NewPipe(p \in CtrlPipe), FALSE)]
      <3> DEFINE q == NewPipe(p \in CtrlPipe)
      <3>1. pipes' = [pipes EXCEPT ![p] = q]
        BY <1>4 DEF PipeFree
      <3> HIDE DEF q
      <3>2. ViewPipes' = [ViewPipes EXCEPT ![p] = Seen(q, Allocated(p)')]
        BY <1>1, <2>3, <3>1, OnePipeSeen
      <3> QED BY <2>3, <3>2 DEF q
    <2>5. Seen(NewPipe(p \in CtrlPipe), FALSE) = View!NoPipeYet
      BY <1>2 DEF View!NoPipeYet
    <2>6. ViewPipes[p].alloc /\ View!CanFree(ViewPipes[p])
      <3>1. InFlight(pipes[p]) = << >>
        BY <1>1, <1>4, MovingParts DEF PipeFree, HoldsNothing
      <3> QED BY <1>4, <3>1 DEF PipeFree, HoldsNothing, ViewPipes, Seen, View!CanFree
    <2> QED BY <2>4, <2>5, <2>6 DEF View!HcdPipeFree
  <1> QED BY <1>3, <1>4

\* A pipe as it is seen.
LEMMA SeenNow ==
    ASSUME NEW p \in Pipe
    PROVE  /\ ViewPipes[p] = Seen(pipes[p], Allocated(p))
           /\ ViewPipes[p].alloc <=> Allocated(p)
           /\ ViewPipes[p].state = pipes[p].state /\ ViewPipes[p].moving = InFlight(pipes[p])
           /\ ViewPipes[p].pending = pipes[p].pending /\ ViewPipes[p].done = pipes[p].done
BY DEF ViewPipes, Seen, Allocated, InQueue

\* A step that one pipe, which stays allocated or not, is seen to take.
LEMMA StepSeen ==
    ASSUME IInv, NEW p \in Pipe, NEW q, pipes' = [pipes EXCEPT ![p] = q],
           \/ \E irp \in Irp : IrpEnqueue(p, irp)
           \/ IrpDequeue(p)
           \/ UNCHANGED <<idle_tailq, active_tailq>>
    PROVE  ViewPipes' = [ViewPipes EXCEPT ![p] = Seen(q, Allocated(p))]
  <1>1. PipePart
    BY IInvParts
  <1>2. \A x \in Pipe : Allocated(x)' <=> Allocated(x)
    BY AllocatedSame
  <1>3. Allocated(p)' = Allocated(p)
    BY <1>2 DEF Allocated, InQueue
  <1>4. ViewPipes' = [ViewPipes EXCEPT ![p] = Seen(q, Allocated(p)')]
    BY <1>1, <1>2, OnePipeSeen
  <1> QED BY <1>3, <1>4

\* hcd_irp_enqueue and hcd_irp_dequeue.
LEMMA IrpIsSeen ==
    ASSUME IInv, NEW p \in Pipe
    PROVE  /\ \A irp \in Irp : IrpEnqueue(p, irp) => View!IrpEnqueue(p, irp)
           /\ IrpDequeue(p) => View!IrpDequeue(p)
  <1>1. Sound(pipes[p]) /\ pipes[p] \in Pipe_t
    BY IInvParts, PipesSound DEF Sound
  <1>2. ASSUME NEW irp \in Irp, IrpEnqueue(p, irp)
        PROVE  View!IrpEnqueue(p, irp)
    <2> DEFINE q == Enqueued(pipes[p], irp)
    <2>1. pipes' = [pipes EXCEPT ![p] = q]
      BY <1>2 DEF IrpEnqueue
    <2>2. Seen(q, Allocated(p)) = View!Enqueue(ViewPipes[p], irp)
      <3>1. pipes[p].irp_state[irp] = "IDLE" /\ pipes[p].state = "ACTIVE"
        BY <1>2 DEF IrpEnqueue, IrpIsIdle
      <3>2. Seen(q, Allocated(p)) = View!Enqueue(Seen(pipes[p], Allocated(p)), irp)
        BY <1>1, <3>1, EnqueuedSeen
      <3> QED BY <3>2, SeenNow
    <2> HIDE DEF q
    <2>3. ViewPipes' = [ViewPipes EXCEPT ![p] = Seen(q, Allocated(p))]
      BY <1>2, <2>1, StepSeen
    <2>4. View!Accepts(p)
      BY <1>2, SeenNow DEF View!Accepts, IrpEnqueue, ViewPort
    <2> QED BY <2>2, <2>3, <2>4 DEF View!IrpEnqueue
  <1>3. ASSUME IrpDequeue(p)
        PROVE  View!IrpDequeue(p)
    <2> DEFINE q == Dequeued(pipes[p])
    <2>1. pipes' = [pipes EXCEPT ![p] = q]
      BY <1>3 DEF IrpDequeue
    <2>2. Seen(q, Allocated(p)) = [ViewPipes[p] EXCEPT !.done = Tail(@)]
      <3>1. Seen(q, Allocated(p)) = [Seen(pipes[p], Allocated(p)) EXCEPT !.done = Tail(@)]
        BY <1>1, DequeuedSeen
      <3> HIDE DEF q
      <3> QED BY <3>1, SeenNow
    <2> HIDE DEF q
    <2>3. ViewPipes' = [ViewPipes EXCEPT ![p] = Seen(q, Allocated(p))]
      BY <1>3, <2>1, StepSeen
    <2>4. ViewPipes' = [ViewPipes EXCEPT ![p].done = Tail(@)]
      BY <2>2, <2>3
    <2>5. ViewPipes[p].alloc /\ ViewPipes[p].done # << >>
      BY <1>3, SeenNow DEF IrpDequeue
    <2> QED BY <2>4, <2>5 DEF View!IrpDequeue
  <1> QED BY <1>2, <1>3

\* HCD_PIPE_CMD_RESET of a pipe with nothing in flight.
LEMMA ResetIsSeen ==
    ASSUME IInv, NEW p \in Pipe, ~pipes[p].executing, PipeCommand(p, "RESET")
    PROVE  View!PipeReset(p)
  <1> DEFINE q == Commanded(pipes[p], "RESET")
  <1>1. Sound(pipes[p])
    BY IInvParts, PipesSound
  <1>2. pipes' = [pipes EXCEPT ![p] = q] /\ UNCHANGED <<idle_tailq, active_tailq>>
    BY DEF PipeCommand
  <1>3. Seen(q, Allocated(p)) = View!ResetPipe(ViewPipes[p])
    BY <1>1, ResetSeen, SeenNow
  <1> HIDE DEF q
  <1>4. ViewPipes' = [ViewPipes EXCEPT ![p] = Seen(q, Allocated(p))]
    BY <1>2, StepSeen
  <1>5. ViewPipes[p].alloc /\ View!CanCommand(p)
    BY SeenNow DEF PipeCommand, ViewPort, View!CanCommand
  <1> QED BY <1>3, <1>4, <1>5 DEF View!PipeReset

\* The channel of a pipe for which nobody waits.
LEMMA WakesNobody ==
    ASSUME IInv, NEW p \in Pipe, NEW r, ~r.waiting_xfer_done, WakeWaiter(p, r),
           UNCHANGED <<idle_tailq, active_tailq>>
    PROVE  /\ ViewPipes' = [ViewPipes EXCEPT ![p] = Seen(r, Allocated(p))]
           /\ UNCHANGED port
  <1>1. pipes' = [pipes EXCEPT ![p] = r] /\ UNCHANGED port
    BY DEF WakeWaiter
  <1> QED BY <1>1, StepSeen

\* The pipe of a transfer that ends.
LEMMA OnBusSeen ==
    ASSUME IInv, NEW p \in Pipe, pipes[p].executing, pipes[p].state = "ACTIVE", port.conn_devc_ena
    PROVE  View!OnBus(p)
  <1>1. Sound(pipes[p]) /\ PipePart
    BY IInvParts, PipesSound
  <1>2. pipes[p].to_exec > 0
    BY <1>1 DEF Sound, RingOK, RingWindows
  <1>3. ViewPipes[p].moving # << >>
    BY <1>1, <1>2, MovingParts, SeenNow
  <1>4. Allocated(p)
    BY <1>1, <1>2, PipePartNow DEF HoldsNothing, Allocated
  <1> QED BY <1>3, <1>4, SeenNow DEF View!OnBus, ViewPort

\* The channel interrupt.
LEMMA ChanIsSeen ==
    ASSUME IInv, WaitInv, HostInv, NoneFatal, NEW p \in Pipe, ChanTransfer(p) \/ ChanIgnored(p)
    PROVE  /\ \/ View!ChanDone(p)
              \/ \E error \in View!Error : View!ChanFailed(p, error)
              \/ UNCHANGED ViewPipes
           /\ UNCHANGED port
  <1>1. Sound(pipes[p]) /\ pipes[p] \in Pipe_t /\ PipePart
    BY IInvParts, PipesSound DEF Sound
  <1>2. ~pipes[p].waiting_xfer_done /\ (pipes[p].executing => pipes[p].state = "ACTIVE")
    BY DEF HostInv, NothingWaits, HaltedStops
  <1>3. UNCHANGED <<idle_tailq, active_tailq>>
    BY DEF ChanTransfer, ChanStage, ChanComplete, ChanFail, ChanIgnored
  <1>4. ASSUME ChanStage(p) \/ ChanIgnored(p)
        PROVE  UNCHANGED <<ViewPipes, port>>
    <2> DEFINE q == NextStage(pipes[p])
               r == [pipes[p] EXCEPT !.chan_busy = FALSE]
    <2>1. pipes' = [pipes EXCEPT ![p] = q] \/ pipes' = [pipes EXCEPT ![p] = r]
      BY <1>4 DEF ChanStage, ChanIgnored
    <2>2. /\ SameRing(pipes[p], q) /\ q.state = pipes[p].state
          /\ SameRing(pipes[p], r) /\ r.state = pipes[p].state
      BY <1>1 DEF NextStage, SameRing, Pipe_t
    <2>3. \A x \in Pipe : SameRing(pipes[x], pipes[x])
      BY DEF SameRing
    <2> HIDE DEF q, r
    <2>4. \A x \in Pipe : SameRing(pipes[x], pipes'[x]) /\ pipes'[x].state = pipes[x].state
      BY <1>1, <2>1, <2>2, <2>3 DEF PipePart
    <2>5. \A x \in Pipe : Allocated(x)' <=> Allocated(x)
      BY <1>3, AllocatedSame
    <2>6. UNCHANGED ViewPipes
      BY <2>4, <2>5, NoPipeSeen
    <2> QED BY <1>4, <2>6 DEF ChanStage, ChanIgnored
  <1>5. ASSUME ChanComplete(p)
        PROVE  View!ChanDone(p) /\ UNCHANGED port
    <2> DEFINE q == Completed(pipes[p])
    <2>1. pipes[p].executing /\ port.conn_devc_ena
      BY <1>5, InterruptFindsTransfer DEF ChanComplete, ChanInterrupt
    <2>2. ~q.waiting_xfer_done
      BY <1>1, <1>2, <2>1, CompletedWorks DEF WaitInv, SameFlags
    <2>3. Seen(q, Allocated(p)) = View!Filled(View!Oldest(ViewPipes[p], "COMPLETED"))
      BY <1>1, <1>2, <2>1, CompletedSeen, SeenNow
    <2>4. WakeWaiter(p, q)
      BY <1>5 DEF ChanComplete
    <2> HIDE DEF q
    <2>5. ViewPipes' = [ViewPipes EXCEPT ![p] = Seen(q, Allocated(p))] /\ UNCHANGED port
      BY <1>3, <2>2, <2>4, WakesNobody
    <2>6. View!OnBus(p)
      BY <1>2, <2>1, OnBusSeen
    <2> QED BY <2>3, <2>5, <2>6 DEF View!ChanDone
  <1>6. ASSUME NEW error \in ChanError, ChanFail(p, error)
        PROVE  (\E s \in View!Error : View!ChanFailed(p, s)) /\ UNCHANGED port
    <2> DEFINE q == Failed(pipes[p], error)
    <2>1. pipes[p].executing /\ port.conn_devc_ena /\ error \in ChanError
      BY <1>6, InterruptFindsTransfer, PipeAssumption DEF ChanFail, ChanInterrupt
    <2>2. ~q.waiting_xfer_done
      BY <1>1, <1>2, <2>1, FailedWorks DEF WaitInv
    <2>3. PICK s \in View!Error :
              Seen(q, Allocated(p)) =
                  [View!Oldest(Seen(pipes[p], Allocated(p)), s) EXCEPT !.state = "HALTED"]
      BY <1>1, <2>1, FailedSeen DEF NoneFatal
    <2>4. WakeWaiter(p, q)
      BY <1>6 DEF ChanFail
    <2> HIDE DEF q
    <2>5. ViewPipes' = [ViewPipes EXCEPT ![p] = Seen(q, Allocated(p))] /\ UNCHANGED port
      BY <1>3, <2>2, <2>4, WakesNobody
    <2>6. View!OnBus(p)
      BY <1>2, <2>1, OnBusSeen
    <2>7. View!ChanFailed(p, s)
      BY <2>3, <2>5, <2>6, SeenNow DEF View!ChanFailed
    <2> QED BY <2>5, <2>7
  <1> QED BY <1>4, <1>5, <1>6 DEF ChanTransfer

\* A step of a pipe, of its client or of its channel.
LEMMA PipeStepSeen ==
    ASSUME IInv, WaitInv, HostInv, NoneFatal, UNCHANGED <<port_op, hw>>,
           NEW p \in Pipe, HostPipeStep(p) \/ ChanTransfer(p) \/ ChanIgnored(p)
    PROVE  [View!ViewNext]_(View!viewVars)
  <1>1. CASE HostPipeStep(p)
    <2>1. View!PipeStep(p)
      BY <1>1, AllocIsSeen, IrpIsSeen, ResetIsSeen DEF HostPipeStep, View!PipeStep
    <2>2. UNCHANGED port
      BY <1>1 DEF HostPipeStep, PipeAlloc, PipeFree, IrpEnqueue, IrpDequeue, PipeCommand
    <2>3. UNCHANGED <<ViewPort, ViewHw, ViewOp>>
      BY <2>2 DEF ViewPort, ViewHw, ViewOp
    <2> QED BY <2>1, <2>3 DEF View!ViewNext
  <1>2. CASE ChanTransfer(p) \/ ChanIgnored(p)
    <2>1. View!PipeStep(p) \/ UNCHANGED ViewPipes
      BY <1>2, ChanIsSeen DEF View!PipeStep
    <2>2. UNCHANGED port
      BY <1>2, ChanIsSeen
    <2>3. UNCHANGED <<ViewPort, ViewHw, ViewOp>>
      BY <2>2 DEF ViewPort, ViewHw, ViewOp
    <2> QED BY <2>1, <2>3 DEF View!ViewNext, View!viewVars
  <1> QED BY <1>1, <1>2

-----------------------------------------------------------------------------
(* Steps of the port *)

\* The pipes, if only the port changes.
LEMMA PipesUnseen ==
    ASSUME UNCHANGED <<pipes, idle_tailq, active_tailq>>
    PROVE  UNCHANGED ViewPipes
BY DEF ViewPipes, Allocated, InQueue

\* The types of the port and of its hardware, as they are seen: two records of a
\* type are equal if their fields are.
PortSeen_t ==
    [state : PortState, last_event : PortEvent, event_pending : BOOLEAN, conn_devc_ena : BOOLEAN]

HwSeen_t == [powered : BOOLEAN, connected : BOOLEAN, debouncing : BOOLEAN]

\* The port and its hardware have these types.
LEMMA PortTyped ==
    ASSUME IInv, IInv'
    PROVE  /\ ViewPort \in PortSeen_t /\ ViewPort' \in PortSeen_t
           /\ ViewHw \in HwSeen_t /\ ViewHw' \in HwSeen_t
  <1>1. port \in Port_t /\ hw \in Hw /\ port' \in Port_t /\ hw' \in Hw
    BY DEF IInv, TypeOK
  <1> QED BY <1>1 DEF Port_t, Hw, ViewPort, ViewHw, PortSeen_t, HwSeen_t

\* The fields of the port as it is seen are its own.
LEMMA PortFields ==
    /\ ViewPort.state = port.state /\ ViewPort.last_event = port.last_event
    /\ ViewPort.event_pending = port.event_pending /\ ViewPort.conn_devc_ena = port.conn_devc_ena
    /\ ViewPort'.state = port'.state /\ ViewPort'.last_event = port'.last_event
    /\ ViewPort'.event_pending = port'.event_pending
    /\ ViewPort'.conn_devc_ena = port'.conn_devc_ena
BY DEF ViewPort

\* As are those of its hardware.
LEMMA HwFields ==
    /\ ViewHw.powered = hw.powered /\ ViewHw.connected = hw.connected
    /\ ViewHw.debouncing = hw.debouncing
    /\ ViewHw'.powered = hw'.powered /\ ViewHw'.connected = hw'.connected
    /\ ViewHw'.debouncing = hw'.debouncing
BY DEF ViewHw

\* The port interrupt.
LEMMA InterruptSeen ==
    ASSUME IInv, IInv', HostInv, PortInterrupt
    PROVE  [View!ViewNext]_(View!viewVars)
  <1>1. port \in Port_t /\ hw \in Hw
    BY DEF IInv, TypeOK
  <1>2. UNCHANGED <<ViewPipes, ViewOp>>
    <2>1. UNCHANGED <<pipes, idle_tailq, active_tailq, port_op>>
      BY DEF PortInterrupt, IntrConn, IntrDisconn, IntrEnabled, IntrDisabled, IntrOvercurrent, pipeVars
    <2> QED BY <2>1, PipesUnseen DEF ViewOp
  <1>3. ASSUME IntrConn
        PROVE  View!Connected
    <2>1. hw.powered /\ ~hw.connected
      BY <1>3 DEF IntrConn
    <2>2. hw'.powered = hw.powered /\ hw'.connected /\ hw'.debouncing
      BY <1>1, <1>3 DEF IntrConn, Hw
    <2>3. ViewHw' = [ViewHw EXCEPT !.connected = TRUE, !.debouncing = TRUE]
      BY <2>2, PortTyped, HwFields DEF HwSeen_t
    <2>4. CASE hw.debouncing
      <3>1. UNCHANGED ViewPort
        BY <1>3, <2>4 DEF IntrConn, ViewPort
      <3> QED BY <1>2, <2>1, <2>3, <2>4, <3>1, HwFields DEF View!Connected
    <2>5. CASE ~hw.debouncing
      <3>1. /\ port'.state = port.state /\ port'.conn_devc_ena = port.conn_devc_ena
            /\ port'.last_event = "CONNECTION" /\ port'.event_pending
        BY <1>1, <1>3, <2>5 DEF IntrConn, Raise, Port_t
      <3>2. ViewPort' = View!RaiseEvent("CONNECTION")
        BY <3>1, PortTyped, PortFields DEF PortSeen_t, View!RaiseEvent
      <3> QED BY <1>2, <2>1, <2>3, <2>5, <3>2, HwFields DEF View!Connected
    <2> QED BY <2>4, <2>5
  <1>4. ASSUME IntrDisconn
        PROVE  View!Disconnected
    <2>1. hw.connected
      BY <1>4 DEF IntrDisconn
    <2>2. hw'.powered = hw.powered /\ ~hw'.connected /\ hw'.debouncing
      BY <1>1, <1>4 DEF IntrDisconn, Hw
    <2>3. ViewHw' = [ViewHw EXCEPT !.connected = FALSE, !.debouncing = TRUE]
      BY <2>2, PortTyped, HwFields DEF HwSeen_t
    <2>4. CASE hw.debouncing
      <3>1. UNCHANGED ViewPort
        BY <1>4, <2>4 DEF IntrDisconn, ViewPort
      <3> QED BY <1>2, <2>1, <2>3, <2>4, <3>1, HwFields DEF View!Disconnected
    <2>5. CASE ~hw.debouncing /\ port.conn_devc_ena
      <3>1. /\ port'.state = "RECOVERY" /\ ~port'.conn_devc_ena
            /\ port'.last_event = "SUDDEN_DISCONN" /\ port'.event_pending
        BY <1>1, <1>4, <2>5 DEF IntrDisconn, Raise, Port_t
      <3>2. ViewPort' = [View!RaiseEvent("SUDDEN_DISCONN") EXCEPT !.state = "RECOVERY",
                                                                  !.conn_devc_ena = FALSE]
        BY <3>1, PortTyped, PortFields DEF PortSeen_t, View!RaiseEvent
      <3> QED BY <1>2, <2>1, <2>3, <2>5, <3>2, PortFields, HwFields DEF View!Disconnected
    <2>6. CASE ~hw.debouncing /\ ~port.conn_devc_ena
      <3>1. /\ port'.state = port.state /\ port'.conn_devc_ena = port.conn_devc_ena
            /\ port'.last_event = "DISCONNECTION" /\ port'.event_pending
        BY <1>1, <1>4, <2>6 DEF IntrDisconn, Raise, Port_t
      <3>2. ViewPort' = View!RaiseEvent("DISCONNECTION")
        BY <3>1, PortTyped, PortFields DEF PortSeen_t, View!RaiseEvent
      <3> QED BY <1>2, <2>1, <2>3, <2>6, <3>2, PortFields, HwFields DEF View!Disconnected
    <2> QED BY <2>4, <2>5, <2>6
  <1>5. ASSUME IntrEnabled
        PROVE  View!Enabled
    <2>1. port_op.at = "reset_recovery" /\ port.state = "RESETTING" /\ hw.connected
      BY <1>5 DEF IntrEnabled, IInv, EnabledByReset, HostInv, EnableKnown
    <2>2. /\ port'.state = "ENABLED" /\ port'.conn_devc_ena
          /\ port'.last_event = port.last_event /\ port'.event_pending = port.event_pending
          /\ hw'.powered = hw.powered /\ hw'.connected = hw.connected
          /\ hw'.debouncing = hw.debouncing
      BY <1>1, <1>5 DEF IntrEnabled, Port_t, Hw
    <2>3. ViewPort' = [ViewPort EXCEPT !.state = "ENABLED", !.conn_devc_ena = TRUE]
      BY <2>2, PortTyped, PortFields DEF PortSeen_t
    <2>4. UNCHANGED ViewHw
      BY <2>2 DEF ViewHw
    <2>5. ViewOp = "reset"
      BY <2>1 DEF ViewOp
    <2> QED BY <1>2, <2>1, <2>3, <2>4, <2>5, PortFields, HwFields DEF View!Enabled
  <1>6. ASSUME IntrDisabled
        PROVE  View!PortFault \/ UNCHANGED View!viewVars
    <2>1. UNCHANGED ViewHw
      <3>1. /\ hw'.powered = hw.powered /\ hw'.connected = hw.connected
            /\ hw'.debouncing = hw.debouncing
        BY <1>1, <1>6 DEF IntrDisabled, Hw
      <3> QED BY <3>1 DEF ViewHw
    <2>2. ~port.disable_requested
      BY DEF HostInv, NothingWaits
    <2>3. CASE port.state = "RESETTING"
      <3>1. /\ port'.state = port.state /\ ~port'.conn_devc_ena
            /\ port'.last_event = port.last_event /\ port'.event_pending = port.event_pending
        BY <1>1, <1>6, <2>3 DEF IntrDisabled, PortDisabled, Port_t
      <3>2. ViewPort' = [ViewPort EXCEPT !.conn_devc_ena = FALSE]
        BY <3>1, PortTyped, PortFields DEF PortSeen_t
      <3>3. CASE port.conn_devc_ena
        BY <1>2, <2>1, <2>3, <3>2, <3>3, PortFields DEF View!PortFault
      <3>4. CASE ~port.conn_devc_ena
        <4>1. UNCHANGED ViewPort
          BY <3>1, <3>4, PortTyped, PortFields DEF PortSeen_t
        <4> QED BY <1>2, <2>1, <4>1 DEF View!viewVars
      <3> QED BY <3>3, <3>4
    <2>4. CASE port.state # "RESETTING"
      <3>1. /\ port'.state = "DISABLED" /\ ~port'.conn_devc_ena
            /\ port'.last_event = "ERROR" /\ port'.event_pending
        BY <1>1, <1>6, <2>2, <2>4 DEF IntrDisabled, PortDisabled, Raise, Port_t
      <3>2. ViewPort' = [[View!RaiseEvent("ERROR") EXCEPT !.state = "DISABLED"]
                            EXCEPT !.conn_devc_ena = FALSE]
        BY <3>1, PortTyped, PortFields DEF PortSeen_t, View!RaiseEvent
      <3>3. port.conn_devc_ena
        BY <1>6, <2>4 DEF IntrDisabled, HostInv, EnableKnown
      <3> QED BY <1>2, <2>1, <2>4, <3>2, <3>3, PortFields DEF View!PortFault
    <2> QED BY <2>3, <2>4
  <1>7. ASSUME IntrOvercurrent
        PROVE  View!Overcurrent
    <2>1. hw.powered
      BY <1>7 DEF IntrOvercurrent
    <2>2. CASE port.state # "NOT_POWERED"
      <3>1. /\ port'.state = "NOT_POWERED" /\ ~port'.conn_devc_ena
            /\ port'.last_event = "OVERCURRENT" /\ port'.event_pending
            /\ ~hw'.powered /\ hw'.connected = hw.connected /\ hw'.debouncing = hw.debouncing
        BY <1>1, <1>7, <2>2 DEF IntrOvercurrent, Raise, PoweredOff, Port_t, Hw
      <3>2. ViewPort' = [View!RaiseEvent("OVERCURRENT") EXCEPT !.state = "NOT_POWERED",
                                                                !.conn_devc_ena = FALSE]
        BY <3>1, PortTyped, PortFields DEF PortSeen_t, View!RaiseEvent
      <3>3. ViewHw' = [ViewHw EXCEPT !.powered = FALSE]
        BY <3>1, PortTyped, HwFields DEF HwSeen_t
      <3> QED BY <1>2, <2>1, <2>2, <3>2, <3>3, PortFields, HwFields DEF View!Overcurrent
    <2>3. CASE port.state = "NOT_POWERED"
      <3>1. /\ port'.state = port.state /\ ~port'.conn_devc_ena
            /\ port'.last_event = port.last_event /\ port'.event_pending = port.event_pending
        BY <1>1, <1>7, <2>3 DEF IntrOvercurrent, Port_t
      <3>2. ViewPort' = [ViewPort EXCEPT !.conn_devc_ena = FALSE]
        BY <3>1, PortTyped, PortFields DEF PortSeen_t
      <3>3. UNCHANGED ViewHw
        BY <1>7, <2>3 DEF IntrOvercurrent, ViewHw
      <3> QED BY <1>2, <2>1, <2>3, <3>2, <3>3, PortFields, HwFields DEF View!Overcurrent
    <2> QED BY <2>2, <2>3
  <1> QED BY <1>3, <1>4, <1>5, <1>6, <1>7 DEF PortInterrupt, View!ViewNext

\* An idle port operation, as it is seen.
LEMMA OpFields ==
    ASSUME port_op \in PortOp, port_op' \in PortOp
    PROVE  /\ ViewOp = "idle" <=> port_op.at = "idle"
           /\ ViewOp = "debounce" <=> port_op.at = "debounce"
           /\ ViewOp = "reset" <=> port_op.at \in {"reset_hold", "reset_recovery"}
           /\ ViewOp = "invalidate" <=> port_op.at \in {"invalidate_active", "invalidate_idle"}
           /\ ViewOp' = "idle" <=> port_op'.at = "idle"
           /\ ViewOp' = "debounce" <=> port_op'.at = "debounce"
           /\ ViewOp' = "reset" <=> port_op'.at \in {"reset_hold", "reset_recovery"}
           /\ ViewOp' = "invalidate" <=> port_op'.at \in {"invalidate_active", "invalidate_idle"}
  <1> DEFINE Place(at) ==
                 CASE at \in {"reset_hold", "reset_recovery"} -> "reset"
                   [] at \in {"invalidate_active", "invalidate_idle"} -> "invalidate"
                   [] OTHER -> at
  <1>1. ASSUME NEW at \in PortOpAt
        PROVE  /\ Place(at) = "idle" <=> at = "idle"
               /\ Place(at) = "debounce" <=> at = "debounce"
               /\ Place(at) = "reset" <=> at \in {"reset_hold", "reset_recovery"}
               /\ Place(at) = "invalidate" <=> at \in {"invalidate_active", "invalidate_idle"}
    BY DEF PortOpAt
  <1>2. ViewOp = Place(port_op.at) /\ ViewOp' = Place(port_op'.at)
    BY DEF ViewOp
  <1>3. port_op.at \in PortOpAt /\ port_op'.at \in PortOpAt
    BY DEF PortOp
  <1> QED BY <1>1, <1>2, <1>3

\* The commands of the port: power, and reset.
LEMMA CommandSeen ==
    ASSUME IInv, IInv', PowerOn \/ PowerOff \/ Reset
    PROVE  View!ViewNext
  <1>1. port \in Port_t /\ hw \in Hw /\ port_op \in PortOp /\ port_op' \in PortOp
    BY DEF IInv, TypeOK
  <1>2. View!CanCommandPort
    <2>1. port_op.at = "idle" /\ ~port.event_pending
      BY DEF PowerOn, PowerOff, Reset, CommandAllowed
    <2> QED BY <1>1, <2>1, OpFields, PortFields DEF View!CanCommandPort
  <1>3. ASSUME PowerOn
        PROVE  View!PowerOnPort
    <2>1. /\ port.state = "NOT_POWERED" /\ port'.state = "DISCONNECTED"
          /\ port'.last_event = port.last_event /\ port'.event_pending = port.event_pending
          /\ port'.conn_devc_ena = port.conn_devc_ena
          /\ hw'.powered /\ hw'.connected = hw.connected /\ hw'.debouncing = hw.debouncing
      BY <1>1, <1>3 DEF PowerOn, Port_t, Hw
    <2>2. ViewPort' = [ViewPort EXCEPT !.state = "DISCONNECTED"]
      BY <2>1, PortTyped, PortFields DEF PortSeen_t
    <2>3. ViewHw' = [ViewHw EXCEPT !.powered = TRUE]
      BY <2>1, PortTyped, HwFields DEF HwSeen_t
    <2>4. UNCHANGED <<pipes, idle_tailq, active_tailq, port_op>>
      BY <1>3 DEF PowerOn, pipeVars
    <2>5. UNCHANGED <<ViewPipes, ViewOp>>
      BY <2>4, PipesUnseen DEF ViewOp
    <2> QED BY <1>2, <2>1, <2>2, <2>3, <2>5, PortFields DEF View!PowerOnPort, View!CanPowerOn
  <1>4. ASSUME PowerOff
        PROVE  View!PowerOffPort
    <2>1. /\ port.state # "NOT_POWERED" /\ port'.state = "NOT_POWERED"
          /\ port'.last_event = port.last_event /\ port'.event_pending = port.event_pending
          /\ port'.conn_devc_ena = port.conn_devc_ena
          /\ ~hw'.powered /\ hw'.connected = hw.connected /\ hw'.debouncing = hw.debouncing
      BY <1>1, <1>4 DEF PowerOff, PoweredOff, Port_t, Hw
    <2>2. ViewPort' = [ViewPort EXCEPT !.state = "NOT_POWERED"]
      BY <2>1, PortTyped, PortFields DEF PortSeen_t
    <2>3. ViewHw' = [ViewHw EXCEPT !.powered = FALSE]
      BY <2>1, PortTyped, HwFields DEF HwSeen_t
    <2>4. UNCHANGED <<pipes, idle_tailq, active_tailq, port_op>>
      BY <1>4 DEF PowerOff, pipeVars
    <2>5. UNCHANGED <<ViewPipes, ViewOp>>
      BY <2>4, PipesUnseen DEF ViewOp
    <2> QED BY <1>2, <2>1, <2>2, <2>3, <2>5, PortFields DEF View!PowerOffPort, View!CanPowerOff
  <1>5. ASSUME Reset
        PROVE  View!ResetPort
    <2>1. /\ port.state \in {"ENABLED", "DISABLED"} /\ port'.state = "RESETTING"
          /\ port'.last_event = port.last_event /\ port'.event_pending = port.event_pending
          /\ port'.conn_devc_ena = port.conn_devc_ena
      BY <1>1, <1>5 DEF Reset, Port_t
    <2>2. ViewPort' = [ViewPort EXCEPT !.state = "RESETTING"]
      BY <2>1, PortTyped, PortFields DEF PortSeen_t
    <2>3. UNCHANGED ViewHw
      <3>1. /\ hw'.powered = hw.powered /\ hw'.connected = hw.connected
            /\ hw'.debouncing = hw.debouncing
        BY <1>1, <1>5 DEF Reset, NoLongerEnabled, Hw
      <3> QED BY <3>1 DEF ViewHw
    <2>4. UNCHANGED ViewPipes
      <3>1. \A x \in Pipe : Allocated(x)' <=> Allocated(x)
        BY <1>5 DEF Reset, Allocated, InQueue
      <3>2. pipes \in [Pipe -> Pipe_t]
        BY DEF IInv, TypeOK
      <3>3. ASSUME NEW x \in Pipe
            PROVE  SameRing(pipes[x], pipes'[x]) /\ pipes'[x].state = pipes[x].state
        <4>1. pipes'[x] = [pipes[x] EXCEPT !.chan_busy = FALSE]
          BY <1>5 DEF Reset
        <4>2. pipes[x] \in Pipe_t
          BY <3>2
        <4> QED BY <4>1, <4>2 DEF SameRing, Pipe_t
      <3> QED BY <3>1, <3>3, NoPipeSeen
    <2>5. ViewOp' = "reset"
      <3>1. port_op'.at = "reset_hold"
        BY <1>5 DEF Reset, At
      <3> QED BY <1>1, <3>1, OpFields
    <2> QED BY <1>2, <2>1, <2>2, <2>3, <2>4, <2>5, PortFields DEF View!ResetPort, View!CanReset
  <1> QED BY <1>3, <1>4, <1>5 DEF View!ViewNext

\* The end of the reset.
LEMMA ResetEndSeen ==
    ASSUME IInv, IInv', ResetRelease \/ ResetEnd
    PROVE  [View!ViewNext]_(View!viewVars)
  <1>1. port \in Port_t /\ hw \in Hw /\ port_op \in PortOp /\ port_op' \in PortOp
    BY DEF IInv, TypeOK
  <1>2. UNCHANGED <<ViewPort, ViewPipes>>
    <2>1. UNCHANGED <<pipes, idle_tailq, active_tailq, port>>
      BY DEF ResetRelease, ResetEnd, pipeVars
    <2> QED BY <2>1, PipesUnseen DEF ViewPort
  <1>3. UNCHANGED ViewHw
    <2>1. /\ hw'.powered = hw.powered /\ hw'.connected = hw.connected
          /\ hw'.debouncing = hw.debouncing
      BY <1>1 DEF ResetRelease, ResetEnd, Hw
    <2> QED BY <2>1 DEF ViewHw
  <1>4. ViewOp = "reset" /\ ViewOp' \in {"reset", "idle"}
    <2>1. port_op.at \in {"reset_hold", "reset_recovery"}
      BY DEF ResetRelease, ResetEnd
    <2>2. port_op'.at \in {"idle", "reset_recovery"}
      BY DEF ResetRelease, ResetEnd, Idle, At
    <2> QED BY <1>1, <2>1, <2>2, OpFields
  <1>5. View!ResetPortEnd \/ UNCHANGED View!viewVars
    BY <1>2, <1>3, <1>4 DEF View!ResetPortEnd, View!viewVars
  <1> QED BY <1>5 DEF View!ViewNext

\* The debounce of a connection or of a disconnection, and its end.
LEMMA DebounceSeen ==
    ASSUME IInv, IInv', HandleDebounced \/ Debounced
    PROVE  View!ViewNext
  <1>1. port \in Port_t /\ hw \in Hw /\ port_op \in PortOp /\ port_op' \in PortOp
    BY DEF IInv, TypeOK
  <1>2. UNCHANGED ViewPipes
    <2>1. UNCHANGED <<pipes, idle_tailq, active_tailq>>
      BY DEF HandleDebounced, Debounced, pipeVars
    <2> QED BY <2>1, PipesUnseen
  <1>3. ASSUME HandleDebounced
        PROVE  View!HandleConnEvent
    <2> DEFINE s == IF port.state = "NOT_POWERED" /\ port.last_event = "DISCONNECTION"
                    THEN "DISCONNECTED" ELSE port.state
    <2>1. /\ port'.state = s /\ ~port'.event_pending
          /\ port'.last_event = port.last_event /\ port'.conn_devc_ena = port.conn_devc_ena
      BY <1>1, <1>3 DEF HandleDebounced, Port_t
    <2>2. ViewPort.state = port.state /\ ViewPort.last_event = port.last_event
          /\ (ViewPort.event_pending <=> port.event_pending)
      BY PortFields
    <2> HIDE DEF s
    <2>3. ViewPort' = [ViewPort EXCEPT !.event_pending = FALSE, !.state = s]
      BY <2>1, PortTyped, PortFields DEF PortSeen_t
    <2>4. ViewPort' = [ViewPort EXCEPT !.event_pending = FALSE,
                             !.state = IF @ = "NOT_POWERED" /\ ViewPort.last_event = "DISCONNECTION"
                                       THEN "DISCONNECTED" ELSE @]
      BY <2>2, <2>3 DEF s
    <2>5. ViewOp = "idle" /\ port.event_pending /\ View!Debounced
      BY <1>1, <1>3, <2>2, OpFields DEF HandleDebounced, View!Debounced
    <2>6. ViewOp' = IF ViewPort.state = "NOT_POWERED" THEN "idle" ELSE "debounce"
      <3>1. port_op'.at = IF port.state = "NOT_POWERED" THEN "idle" ELSE "debounce"
        BY <1>3 DEF HandleDebounced, At
      <3> QED BY <1>1, <2>2, <3>1, OpFields
    <2>7. UNCHANGED ViewHw
      BY <1>3 DEF HandleDebounced, ViewHw
    <2> QED BY <1>2, <2>2, <2>4, <2>5, <2>6, <2>7 DEF View!HandleConnEvent
  <1>4. ASSUME Debounced
        PROVE  View!DebounceEnd
    <2> DEFINE s == IF hw.connected THEN "DISABLED" ELSE "DISCONNECTED"
    <2>1. /\ port'.state = s /\ port'.event_pending = port.event_pending
          /\ port'.last_event = port.last_event /\ port'.conn_devc_ena = port.conn_devc_ena
          /\ hw'.powered = hw.powered /\ hw'.connected = hw.connected /\ ~hw'.debouncing
      BY <1>1, <1>4 DEF Debounced, Port_t, Hw
    <2>2. s = IF ViewHw.connected THEN "DISABLED" ELSE "DISCONNECTED"
      BY HwFields
    <2> HIDE DEF s
    <2>3. ViewPort' = [ViewPort EXCEPT !.state = s]
      BY <2>1, PortTyped, PortFields DEF PortSeen_t
    <2>4. ViewHw' = [ViewHw EXCEPT !.debouncing = FALSE]
      BY <2>1, PortTyped, HwFields DEF HwSeen_t
    <2>5. ViewOp = "debounce" /\ ViewOp' = "idle"
      <3>1. port_op.at = "debounce" /\ port_op'.at = "idle"
        BY <1>4 DEF Debounced, Idle, At
      <3> QED BY <1>1, <3>1, OpFields
    <2> QED BY <1>2, <2>2, <2>3, <2>4, <2>5 DEF View!DebounceEnd
  <1> QED BY <1>3, <1>4 DEF View!ViewNext

\* The pipes that exist are the allocated ones.
LEMMA ExistingSeen ==
    View!Existing = {p \in Pipe : Allocated(p)}
BY DEF View!Existing, ViewPipes, Seen

\* A port that is recovered.
LEMMA RecoverSeen ==
    ASSUME IInv, IInv', Recover
    PROVE  View!ViewNext
  <1>1. port \in Port_t /\ hw \in Hw /\ port_op \in PortOp /\ port_op' \in PortOp
    BY DEF IInv, TypeOK
  <1>2. UNCHANGED <<ViewPipes, ViewOp>>
    <2>1. UNCHANGED <<pipes, idle_tailq, active_tailq, port_op>>
      BY DEF Recover, pipeVars
    <2> QED BY <2>1, PipesUnseen DEF ViewOp
  <1>3. View!CanRecover
    <2>1. View!Existing = {}
      BY ExistingSeen DEF Recover, Allocated, InQueue
    <2>2. /\ port_op.at = "idle" /\ port.state = "RECOVERY"
          /\ ~port.event_pending /\ ~port.conn_devc_ena
      BY DEF Recover
    <2> QED BY <1>1, <2>1, <2>2, OpFields, PortFields DEF View!CanRecover
  <1>4. ViewPort' = [ViewPort EXCEPT !.state = "NOT_POWERED", !.last_event = "NONE"]
    <2>1. /\ port'.state = "NOT_POWERED" /\ port'.last_event = "NONE"
          /\ port'.event_pending = port.event_pending /\ port'.conn_devc_ena = port.conn_devc_ena
      BY <1>1 DEF Recover, Port_t
    <2> QED BY <2>1, PortTyped, PortFields DEF PortSeen_t
  <1>5. ViewHw' = [powered |-> FALSE, connected |-> FALSE, debouncing |-> FALSE]
    BY DEF Recover, ViewHw
  <1>6. View!RecoverPort
    BY <1>2, <1>3, <1>4, <1>5 DEF View!RecoverPort
  <1> QED BY <1>6 DEF View!ViewNext

\* A pipe of either list that becomes invalid.
LEMMA PipeInvalidatedSeen ==
    ASSUME IInv, NEW q \in Pipe, Allocated(q), UNCHANGED <<idle_tailq, active_tailq>>,
           NEW r, pipes' = [pipes EXCEPT ![q] = r],
           \/ r = Invalidated(pipes[q])
           \/ r = InvalidatedIdle(pipes[q]) /\ InQueue(idle_tailq, q)
    PROVE  q \in View!Existing /\ View!Invalidate(q)
  <1>1. PipePart /\ Sound(pipes[q])
    BY IInvParts, PipesSound
  <1>2. Seen(r, Allocated(q)) = [View!Flush(ViewPipes[q], "NO_DEVICE") EXCEPT !.state = "INVALID"]
    <2> DEFINE x == pipes[q]
               a == Allocated(q)
               d == Seen(x, a)
    <2>1. CASE r = Invalidated(x)
      <3>1. Seen(Invalidated(x), a) = [View!Flush(d, "NO_DEVICE") EXCEPT !.state = "INVALID"]
        BY <1>1, InvalidatedSeen
      <3> QED BY <2>1, <3>1, SeenNow
    <2>2. CASE r = InvalidatedIdle(x) /\ InQueue(idle_tailq, q)
      <3>1. HoldsNothing(x)
        BY <1>1, <2>2, PipePartNow
      <3>2. Seen(InvalidatedIdle(x), a) =
                [View!Flush(d, "NO_DEVICE") EXCEPT !.state = "INVALID"]
        BY <1>1, <3>1, InvalidatedIdleSeen
      <3> QED BY <2>2, <3>2, SeenNow
    <2> QED BY <2>1, <2>2
  <1>3. ViewPipes' = [ViewPipes EXCEPT ![q] = Seen(r, Allocated(q))]
    BY StepSeen
  <1>4. q \in View!Existing
    BY ExistingSeen
  <1> QED BY <1>2, <1>3, <1>4 DEF View!Invalidate

\* A round of the loops: one more pipe becomes invalid, or the loops have ended.
RoundSeen ==
    \/ /\ \E q \in View!Existing : View!Invalidate(q)
       /\ port_op'.at \in {"invalidate_active", "invalidate_idle"}
    \/ UNCHANGED pipes /\ port_op'.at = "idle"

\* A round of the first loop.
LEMMA ActiveRoundSeen ==
    ASSUME IInv, NEW p \in Pipe \union {NoPipe}, p # NoPipe => Allocated(p), InvalidateActive(p),
           UNCHANGED <<idle_tailq, active_tailq>>
    PROVE  RoundSeen
  <1>1. port_op \in PortOp /\ idle_tailq \in Seq(Pipe)
    BY DEF IInv, TypeOK
  <1>2. CASE p # NoPipe
    <2> DEFINE r == Invalidated(pipes[p])
    <2>1. /\ p \in Pipe /\ Allocated(p)
          /\ pipes' = [pipes EXCEPT ![p] = r]
          /\ port_op' = [port_op EXCEPT !.at = "invalidate_active", !.cur = p]
      BY <1>2 DEF InvalidateActive
    <2>2. r = Invalidated(pipes[p])
      OBVIOUS
    <2> HIDE DEF r
    <2>3. p \in View!Existing /\ View!Invalidate(p)
      BY <2>1, <2>2, PipeInvalidatedSeen
    <2>4. port_op'.at = "invalidate_active"
      BY <1>1, <2>1 DEF PortOp
    <2> QED BY <2>3, <2>4 DEF RoundSeen
  <1>3. CASE p = NoPipe
    <2> DEFINE q == First(idle_tailq)
    <2>1. \/ UNCHANGED pipes /\ port_op' = Idle
          \/ /\ q # NoPipe
             /\ pipes' = [pipes EXCEPT ![q] = InvalidatedIdle(pipes[q])]
             /\ port_op' = [port_op EXCEPT !.at = "invalidate_idle", !.cur = q]
      BY <1>3 DEF InvalidateActive
    <2>2. q # NoPipe => q \in Pipe /\ InQueue(idle_tailq, q) /\ Allocated(q)
      BY <1>1, FirstListed DEF Allocated
    <2> HIDE DEF q
    <2>3. CASE UNCHANGED pipes /\ port_op' = Idle
      BY <2>3 DEF RoundSeen, Idle, At
    <2>4. CASE /\ q # NoPipe
               /\ pipes' = [pipes EXCEPT ![q] = InvalidatedIdle(pipes[q])]
               /\ port_op' = [port_op EXCEPT !.at = "invalidate_idle", !.cur = q]
      <3>1. q \in View!Existing /\ View!Invalidate(q)
        BY <2>2, <2>4, PipeInvalidatedSeen
      <3>2. port_op'.at = "invalidate_idle"
        BY <1>1, <2>4 DEF PortOp
      <3> QED BY <3>1, <3>2 DEF RoundSeen
    <2> QED BY <2>1, <2>3, <2>4
  <1> QED BY <1>2, <1>3

\* The loss of the device, up to the first callback.
LEMMA DeviceLostSeen ==
    ASSUME IInv, IInv', HandleDeviceLost
    PROVE  View!ViewNext
  <1>1. port \in Port_t /\ hw \in Hw /\ port_op \in PortOp /\ port_op' \in PortOp
    BY DEF IInv, TypeOK
  <1>2. RoundSeen
    <2> DEFINE f == First(active_tailq)
    <2>1. InvalidateActive(f) /\ UNCHANGED <<idle_tailq, active_tailq>>
      BY DEF HandleDeviceLost
    <2>2. f # NoPipe => f \in Pipe /\ Allocated(f)
      BY FirstListed DEF IInv, TypeOK, Allocated
    <2> HIDE DEF f
    <2> QED BY <2>1, <2>2, ActiveRoundSeen
  <1>3. ViewPort' = [ViewPort EXCEPT !.event_pending = FALSE]
    <2>1. /\ port'.state = port.state /\ port'.last_event = port.last_event
          /\ ~port'.event_pending /\ port'.conn_devc_ena = port.conn_devc_ena
      BY <1>1 DEF HandleDeviceLost, Port_t
    <2> QED BY <2>1, PortTyped, PortFields DEF PortSeen_t
  <1>4. ViewOp = "idle" /\ ViewPort.event_pending /\ ~View!Debounced /\ UNCHANGED ViewHw
    <2>1. /\ port_op.at = "idle" /\ port.event_pending /\ UNCHANGED hw
          /\ port.last_event \in {"ERROR", "OVERCURRENT", "SUDDEN_DISCONN"}
      BY DEF HandleDeviceLost
    <2> QED BY <1>1, <2>1, OpFields, PortFields DEF View!Debounced, ViewHw
  <1>5. CASE /\ \E q \in View!Existing : View!Invalidate(q)
             /\ port_op'.at \in {"invalidate_active", "invalidate_idle"}
    <2>1. PICK q \in View!Existing : View!Invalidate(q)
      BY <1>5
    <2>2. ViewOp' = "invalidate"
      BY <1>1, <1>5, OpFields
    <2>3. q \in Pipe
      BY <2>1 DEF View!Existing
    <2>4. View!HandleLoss(q)
      BY <1>3, <1>4, <2>1, <2>2 DEF View!HandleLoss
    <2> QED BY <2>3, <2>4 DEF View!ViewNext
  <1>6. CASE UNCHANGED pipes /\ port_op'.at = "idle"
    <2>1. UNCHANGED <<idle_tailq, active_tailq>>
      BY DEF HandleDeviceLost
    <2>2. \A p \in Pipe : ~Allocated(p)
      <3>1. \A p \in Pipe : ~Allocated(p)'
        BY <1>6, NobodyToInvalidate DEF Invalidating
      <3> QED BY <2>1, <3>1 DEF Allocated, InQueue
    <2>3. View!Existing = {}
      BY <2>2, ExistingSeen
    <2>4. UNCHANGED ViewPipes
      BY <1>6, <2>1, PipesUnseen
    <2>5. ViewOp' = "idle"
      BY <1>1, <1>6, OpFields
    <2>6. View!HandleLossNoPipe
      BY <1>3, <1>4, <2>3, <2>4, <2>5 DEF View!HandleLossNoPipe
    <2> QED BY <2>6 DEF View!ViewNext
  <1> QED BY <1>2, <1>5, <1>6 DEF RoundSeen

\* The rounds after the first.
LEMMA NextRoundSeen ==
    ASSUME IInv, IInv', LoopsReach, InvalidateNextActive \/ InvalidateNextIdle
    PROVE  View!ViewNext
  <1>1. port_op \in PortOp /\ port_op' \in PortOp /\ PipePart
    BY IInvParts DEF IInv, TypeOK
  <1>2. UNCHANGED <<idle_tailq, active_tailq, port, hw>>
    BY DEF InvalidateNextActive, InvalidateNextIdle
  <1>3. PICK c \in Pipe : c = port_op.cur /\ Allocated(c)
                          /\ (port_op.at = "invalidate_idle" => InQueue(idle_tailq, c))
    BY DEF IInv, CursorListed, Invalidating, InvalidateNextActive, InvalidateNextIdle
  <1> DEFINE n == NextInList(c)
  <1>4. /\ n # NoPipe => n \in Pipe /\ Allocated(n)
        /\ InQueue(idle_tailq, c) /\ n # NoPipe => InQueue(idle_tailq, n)
    BY <1>1, <1>3, NextListed
  <1>5. RoundSeen
    <2>1. CASE InvalidateNextActive
      <3>1. InvalidateActive(n)
        BY <1>3, <2>1 DEF InvalidateNextActive
      <3> HIDE DEF n
      <3> QED BY <1>2, <1>4, <3>1, ActiveRoundSeen
    <2>2. CASE InvalidateNextIdle
      <3>1. /\ port_op.at = "invalidate_idle"
            /\ \/ UNCHANGED pipes /\ port_op' = Idle
               \/ /\ n # NoPipe
                  /\ pipes' = [pipes EXCEPT ![n] = InvalidatedIdle(pipes[n])]
                  /\ port_op' = [port_op EXCEPT !.cur = n]
        BY <1>3, <2>2 DEF InvalidateNextIdle
      <3> HIDE DEF n
      <3>2. CASE UNCHANGED pipes /\ port_op' = Idle
        BY <3>2 DEF RoundSeen, Idle, At
      <3>3. CASE /\ n # NoPipe
                 /\ pipes' = [pipes EXCEPT ![n] = InvalidatedIdle(pipes[n])]
                 /\ port_op' = [port_op EXCEPT !.cur = n]
        <4>1. n \in View!Existing /\ View!Invalidate(n)
          BY <1>2, <1>3, <1>4, <3>1, <3>3, PipeInvalidatedSeen
        <4>2. port_op'.at = "invalidate_idle"
          BY <1>1, <3>1, <3>3 DEF PortOp
        <4> QED BY <4>1, <4>2 DEF RoundSeen
      <3> QED BY <3>1, <3>2, <3>3
    <2> QED BY <2>1, <2>2
  <1> HIDE DEF n
  <1>6. ViewOp = "invalidate" /\ UNCHANGED <<ViewPort, ViewHw>>
    <2>1. port_op.at \in {"invalidate_active", "invalidate_idle"}
      BY DEF InvalidateNextActive, InvalidateNextIdle
    <2> QED BY <1>1, <1>2, <2>1, OpFields DEF ViewPort, ViewHw
  <1>7. CASE /\ \E q \in View!Existing : View!Invalidate(q)
             /\ port_op'.at \in {"invalidate_active", "invalidate_idle"}
    <2>1. PICK q \in View!Existing : View!Invalidate(q)
      BY <1>7
    <2>2. ViewOp' = "invalidate"
      BY <1>1, <1>7, OpFields
    <2>3. q \in Pipe
      BY <2>1 DEF View!Existing
    <2>4. View!InvalidateNext(q)
      BY <1>6, <2>1, <2>2 DEF View!InvalidateNext
    <2> QED BY <2>3, <2>4 DEF View!ViewNext
  <1>8. CASE UNCHANGED pipes /\ port_op'.at = "idle"
    <2>1. NoneLeft
      BY LoopRounds
    <2>2. \A p \in Pipe : Allocated(p) => pipes[p].state = "INVALID"
      BY <1>2, <1>8, <2>1 DEF NoneLeft, Invalidating, Allocated, InQueue
    <2>3. \A p \in View!Existing : ViewPipes[p].state = "INVALID"
      BY <2>2, ExistingSeen, SeenNow
    <2>4. UNCHANGED ViewPipes
      BY <1>2, <1>8, PipesUnseen
    <2>5. ViewOp' = "idle"
      BY <1>1, <1>8, OpFields
    <2>6. View!InvalidateEnd
      BY <1>6, <2>3, <2>4, <2>5 DEF View!InvalidateEnd
    <2> QED BY <2>6 DEF View!ViewNext
  <1> QED BY <1>5, <1>7, <1>8 DEF RoundSeen

-----------------------------------------------------------------------------
(* The whole driver is the one of HcdView *)

\* Every step of the driver is a step of HcdView, or is not seen.
LEMMA ViewStep ==
    NoneFatal /\ IInv /\ IInv' /\ WaitInv /\ HostInv /\ [HostNext]_vars => [View!ViewNext]_(View!viewVars)
  <1> SUFFICES ASSUME NoneFatal, IInv, IInv', WaitInv, HostInv, [HostNext]_vars
               PROVE  [View!ViewNext]_(View!viewVars)
    OBVIOUS
  <1>1. CASE \E p \in Pipe : /\ HostPipeStep(p) \/ ChanTransfer(p) \/ ChanIgnored(p)
                             /\ UNCHANGED <<port_op, hw>>
    BY <1>1, PipeStepSeen
  <1>2. CASE PortInterrupt
    BY <1>2, InterruptSeen
  <1>3. CASE PowerOn \/ PowerOff \/ Reset
    BY <1>3, CommandSeen
  <1>4. CASE ResetRelease \/ ResetEnd
    BY <1>4, ResetEndSeen
  <1>5. CASE HandleDebounced \/ Debounced
    BY <1>5, DebounceSeen
  <1>6. CASE HandleDeviceLost
    BY <1>6, DeviceLostSeen
  <1>7. CASE InvalidateNextActive \/ InvalidateNextIdle
    BY <1>7, NextRoundSeen DEF HostInv
  <1>8. CASE Recover
    BY <1>8, RecoverSeen
  <1>9. ~(SuspendWake \/ ResumeRelease \/ ResumeEnd \/ DisableWake \/ DisableEnd)
    BY DEF HostInv, NothingWaits, SuspendWake, ResumeRelease, ResumeEnd, DisableWake, DisableEnd,
           InReset, Invalidating
  <1>10. CASE UNCHANGED vars
    <2>1. UNCHANGED <<pipes, idle_tailq, active_tailq, port, port_op, hw>>
      BY <1>10 DEF vars, pipeVars
    <2>2. UNCHANGED View!viewVars
      BY <2>1, PipesUnseen DEF View!viewVars, ViewPort, ViewHw, ViewOp
    <2> QED BY <2>2
  <1> QED BY <1>1, <1>2, <1>3, <1>4, <1>5, <1>6, <1>7, <1>8, <1>9, <1>10
        DEF HostNext, PortOpStep, HandleEvent

\* The driver after hcd_port_init is that of HcdView.
LEMMA InitSeen == Init => View!ViewInit
  <1> SUFFICES ASSUME Init PROVE View!ViewInit
    OBVIOUS
  <1>1. ViewPort = [state |-> "NOT_POWERED", last_event |-> "NONE",
                    event_pending |-> FALSE, conn_devc_ena |-> FALSE]
    BY DEF Init, ViewPort
  <1>2. ViewHw = [powered |-> FALSE, connected |-> FALSE, debouncing |-> FALSE]
    BY DEF Init, ViewHw
  <1>3. ViewOp = "idle"
    BY DEF Init, ViewOp, Idle, At
  <1>4. ViewPipes = [p \in Pipe |-> View!NoPipeYet]
    <2>1. ASSUME NEW p \in Pipe
          PROVE  Seen(pipes[p], Allocated(p)) = View!NoPipeYet
      <3>1. Allocated(p) = FALSE /\ pipes[p] = NewPipe(p \in CtrlPipe)
        BY DEF Init, Allocated, InQueue
      <3>2. \A a : Seen(NewPipe(p \in CtrlPipe), a) = [View!NoPipeYet EXCEPT !.alloc = a]
        BY NewPipeSeen
      <3>3. Seen(NewPipe(p \in CtrlPipe), FALSE) = View!NoPipeYet
        BY <3>2 DEF View!NoPipeYet
      <3> QED BY <3>1, <3>3
    <2> QED BY <2>1 DEF ViewPipes
  <1> QED BY <1>1, <1>2, <1>3, <1>4 DEF View!ViewInit

\* To the host layer the driver is the one that HcdView describes: its rings, its
\* channels, the lists of its pipes and the invalidation in two loops show nothing
\* but that driver's steps, for any number of pipes, IRPs and buffers, as long as no
\* channel reports the error for which the driver aborts the program.
THEOREM HostSeesView == ASSUME NoneFatal PROVE HostUse => ViewHolds
  <1>1. IInv /\ WaitInv /\ HostInv /\ (IInv /\ WaitInv /\ HostInv)' /\ [HostNext]_vars
            => [View!ViewNext]_(View!viewVars)
    BY ViewStep
  <1> QED BY <1>1, InitSeen, HostHolds, PTL DEF HostUse, ViewHolds, View!ViewSpec

=============================================================================
