--------------------------- MODULE TransferProofs ---------------------------
(***************************************************************************)
(* What holds of the transfer descriptors for any endpoints and requests:  *)
(* the stages of a control transfer run with the direction and PID of      *)
(* their descriptors (DirectionsAgree), an isochronous stream keeps to its *)
(* schedule (StreamOnSchedule) and begins in time (StartsAhead), a buffer  *)
(* describes its request and nothing else (DescribesRequest), and an IRP   *)
(* that ends reports the bytes that moved (BytesReported).                 *)
(***************************************************************************)
EXTENDS MCTransfer, FiniteSetTheorems, SequenceTheorems, WellFoundedInduction, TLAPS

-----------------------------------------------------------------------------
(* Periods *)

Intervals == {1, 2, 4, 8, 16, 32}

\* The endpoint of the pipe, which never changes.
EpOK ==
    /\ ep_char.type \in TransferType /\ ep_char.is_in \in BOOLEAN /\ ep_char.mps \in Nat
    /\ ep_char.type = "INTR" => ep_char.mps # 0
    /\ ep_char.type = "ISOCHRONOUS" =>
          /\ ep_char.interval \in Intervals
          /\ ep_char.phase_offset_frames \in 0 .. 31

\* The period of an isochronous endpoint is a power of two.
LEMMA PeriodIsPower ==
    ASSUME NEW b \in 1 .. 6
    PROVE  RoundDown(2 ^ (b - 1)) \in Intervals
  <1> DEFINE n == 2 ^ (b - 1)
  <1>1. b - 1 \in {0, 1, 2, 3, 4, 5}
    OBVIOUS
  <1>2. 2 ^ 0 = 1 /\ 2 ^ 1 = 2 /\ 2 ^ 2 = 4 /\ 2 ^ 3 = 8 /\ 2 ^ 4 = 16 /\ 2 ^ 5 = 32
    OBVIOUS
  <1>3. n \in Intervals
    BY <1>1, <1>2 DEF Intervals
  <1> HIDE DEF n
  <1>4. RoundDown(n) \in Intervals
    BY <1>3 DEF Intervals, RoundDown
  <1> QED BY <1>4 DEF n

\* hcd_pipe_alloc accepts no other.
LEMMA InitEp == Init => EpOK
  <1> SUFFICES ASSUME NEW ep \in Endpoint, NEW idx \in PipeIdx,
                      PipeAllocCheckArgs(ep, "FULL", "FULL", "BALANCED"),
                      ep_char = SetEpChar(ep, "FULL", idx, XFER_LIST_LEN_ISOC)
               PROVE  EpOK
    BY DEF Init
  <1>1. /\ ep \in Endpoint_t /\ idx \in Nat
        /\ ep.type = "ISOCHRONOUS" => ep.bInterval \in Nat /\ ep.bInterval > 0 /\ ep.bInterval <= 6
    BY TransferAssumption DEF Endpoint_t, PipeAllocCheckArgs, IntervalSupported
  <1>2. /\ ep.type \in TransferType /\ ep.is_in \in BOOLEAN /\ ep.mps \in Nat
        /\ ep.type = "INTR" => ep.mps > 0
    BY <1>1 DEF Endpoint_t
  <1>3. /\ ep_char.type = ep.type /\ ep_char.interval = Interval(ep)
        /\ ep_char.phase_offset_frames = IF Periodic(ep.type) THEN idx % 32 ELSE 0
        /\ ep_char.is_in \in BOOLEAN /\ ep_char.mps \in Nat
        /\ ep_char.type = "INTR" => ep_char.mps # 0
    BY <1>2 DEF SetEpChar, XFER_LIST_LEN_ISOC
  <1>4. ASSUME ep.type = "ISOCHRONOUS"
        PROVE  ep_char.interval \in Intervals /\ ep_char.phase_offset_frames \in 0 .. 31
    <2>1. ep.bInterval \in 1 .. 6
      BY <1>1, <1>4
    <2>2. RequestedInterval(ep) = 2 ^ (ep.bInterval - 1) /\ Periodic(ep.type)
      BY <1>4 DEF RequestedInterval, Periodic
    <2>3. Interval(ep) \in Intervals
      BY <2>1, <2>2, PeriodIsPower DEF Interval
    <2>4. idx % 32 \in 0 .. 31
      BY <1>1
    <2> QED BY <1>3, <2>2, <2>3, <2>4
  <1> QED BY <1>2, <1>3, <1>4 DEF EpOK

\* The first frame of a stream is one in which the pipe is scheduled.
LEMMA FreshStartScheduled ==
    ASSUME NEW i \in Intervals, NEW o \in 0 .. 31, NEW f \in Nat
    PROVE  /\ FreshStart(i, o, f) \in 0 .. 31
           /\ FreshStart(i, o, f) % i = o % i
  <1> DEFINE cur == (f - o) % 32
             next == (cur \div i) * i + i
  <1>1. cur \in 0 .. 31
    OBVIOUS
  <1> HIDE DEF cur
  <1>2. next \in Nat /\ \E q \in Nat : next = q * i
    <2>1. cur \div i \in Nat
      BY <1>1 DEF Intervals
    <2>2. next = (cur \div i + 1) * i /\ cur \div i + 1 \in Nat
      BY <2>1 DEF Intervals
    <2> QED BY <2>1, <2>2 DEF Intervals
  <1>3. FreshStart(i, o, f) \in {(next + o) % 32, (next + i + o) % 32}
    BY DEF FreshStart, XFER_LIST_LEN_ISOC, cur
  <1> HIDE DEF next
  <1>4. ASSUME NEW m \in Nat, NEW q \in Nat, m = q * i PROVE (m + o) % 32 \in 0 .. 31 /\ ((m + o) % 32) % i = o % i
    BY <1>4 DEF Intervals
  <1>5. \E q \in Nat : next + i = q * i /\ next + i \in Nat
    BY <1>2 DEF Intervals
  <1> QED BY <1>2, <1>3, <1>4, <1>5

\* It is far enough ahead, and not too far.
LEMMA FreshStartAhead ==
    ASSUME NEW i \in Intervals \ {32}, NEW o \in 0 .. 31, NEW f \in Nat,
           NEW l, l = Behind(f, FreshStart(i, o, f))
    PROVE  l >= 2 /\ 2 * l >= i /\ 2 * l <= 3 * i + 2
  <1> DEFINE cur == (f - o) % 32
             next == (cur \div i) * i + i
             d == next - cur
  <1>1. cur \in 0 .. 31
    OBVIOUS
  <1> HIDE DEF cur
  <1>2. next \in Nat /\ d \in 1 .. i
    BY <1>1 DEF Intervals
  <1>3. FreshStart(i, o, f) = IF d > i \div 2 /\ d >= 2 THEN (next + o) % 32 ELSE (next + i + o) % 32
    BY DEF FreshStart, XFER_LIST_LEN_ISOC, cur
  <1> HIDE DEF next
  <1>7. next = cur + d
    BY <1>1, <1>2
  <1> HIDE DEF d
  <1>4. ASSUME NEW k \in 1 .. 31 PROVE (((cur + k + o) % 32) - f) % 32 = k
    BY <1>1 DEF cur
  <1>5. CASE d > i \div 2 /\ d >= 2
    <2>1. d \in 1 .. 31 /\ 2 * d >= i /\ 2 * d <= 3 * i + 2
      BY <1>2, <1>5 DEF Intervals
    <2>2. l = d
      <3>1. FreshStart(i, o, f) = (cur + d + o) % 32
        BY <1>3, <1>5, <1>7
      <3> QED BY <1>4, <2>1, <3>1 DEF Behind, XFER_LIST_LEN_ISOC
    <2> QED BY <1>5, <2>1, <2>2
  <1>6. CASE ~(d > i \div 2 /\ d >= 2)
    <2>1. d + i \in 2 .. 31 /\ 2 * (d + i) >= i /\ 2 * (d + i) <= 3 * i + 2
      BY <1>2, <1>6 DEF Intervals
    <2>2. l = d + i
      <3>1. FreshStart(i, o, f) = (cur + (d + i) + o) % 32
        <4>1. next + i = cur + (d + i)
          BY <1>1, <1>2, <1>7 DEF Intervals
        <4> QED BY <1>3, <1>6, <4>1
      <3> QED BY <1>4, <2>1, <3>1 DEF Behind, XFER_LIST_LEN_ISOC
    <2> QED BY <2>1, <2>2
  <1> QED BY <1>5, <1>6

\* A stream begins at least two frames and half an interval ahead of the frame that the
\* controller is in, and less than one and a half intervals and two frames (_buffer_fill),
\* for every endpoint that hcd_pipe_alloc accepts and at every frame number.
THEOREM StreamAhead == Spec => []StartsAhead
  <1>1. Init => EpOK /\ StartsAhead
    BY InitEp DEF Init, StartsAhead
  <1>2. EpOK /\ StartsAhead /\ [Next]_vars => (EpOK /\ StartsAhead)'
    <2> SUFFICES ASSUME EpOK, StartsAhead, [Next]_vars PROVE EpOK' /\ StartsAhead'
      OBVIOUS
    <2>1. ep_char' = ep_char
      BY DEF Next, Fill, Exec, Complete, Fail, Parse, vars
    <2>2. EpOK'
      BY <2>1 DEF EpOK
    <2> SUFFICES StartsAhead'
      BY <2>2
    <2>3. lead' = 0 \/ lead' = lead \/ Fill
      BY DEF Next, Exec, Complete, Fail, Parse, vars
    <2>4. CASE Fill
      <3>1. PICK at \in StartIndexes : lead' = at.ahead
        BY <2>4 DEF Fill
      <3>2. CASE at.ahead = 0
        BY <3>1, <3>2 DEF StartsAhead
      <3>3. CASE at.ahead # 0
        <4>1. ep_char.type = "ISOCHRONOUS"
          BY <3>3 DEF StartIndexes
        <4>2. PICK f \in FrameNum : at = [start |-> StartIdx(f), ahead |-> IF NothingToExec THEN Behind(f, StartIdx(f)) ELSE 0]
          BY <4>1 DEF StartIndexes
        <4>3. at.ahead = Behind(f, FreshStart(ep_char.interval, ep_char.phase_offset_frames, f))
          BY <3>3, <4>2 DEF StartIdx
        <4>4. f \in Nat /\ ep_char.interval \in Intervals /\ ep_char.phase_offset_frames \in 0 .. 31
          BY <4>1, TransferAssumption DEF EpOK
        <4>5. SUFFICES ASSUME ep_char.interval < 32
                       PROVE  lead' >= 2 /\ 2 * lead' >= ep_char.interval /\ 2 * lead' <= 3 * ep_char.interval + 2
          BY <2>1 DEF StartsAhead
        <4>6. ep_char.interval \in Intervals \ {32}
          BY <4>4, <4>5
        <4> QED BY <3>1, <4>3, <4>4, <4>6, FreshStartAhead
      <3> QED BY <3>2, <3>3
    <2>5. CASE lead' = 0 \/ lead' = lead
      BY <2>1, <2>5 DEF StartsAhead
    <2> QED BY <2>3, <2>4, <2>5
  <1> QED BY <1>1, <1>2, PTL DEF Spec

-----------------------------------------------------------------------------
(* Sums of lengths *)

\* A set of natural numbers that is not empty has a least one: an induction on the
\* length of a sequence looks at the least one for which a fact fails.
LEMMA LeastOne ==
    ASSUME NEW T \in SUBSET Nat, T # {}
    PROVE  \E x \in T : \A y \in T : x <= y
  <1>1. \E x \in T : \A y \in T : ~ (<<y, x>> \in OpToRel(<, Nat))
    BY NatLessThanWellFounded, WFMin, Zenon
  <1>2. PICK x \in T : \A y \in T : ~ (<<y, x>> \in OpToRel(<, Nat))
    BY <1>1
  <1>3. \A y \in T : ~(y < x)
    BY <1>2, Zenon DEF OpToRel
  <1> QED BY <1>3

\* The sums of the first n lengths, each from the one before it.
IsSums(g, s, n) == g \in [0 .. n -> Int] /\ g[0] = 0 /\ \A k \in 1 .. n : g[k] = g[k - 1] + s[k]

\* Every sequence has sums.
LEMMA SumsExist == ASSUME NEW s \in Seq(Int) PROVE \E g : IsSums(g, s, Len(s))
  <1> DEFINE n == Len(s)
             T == {k \in 0 .. n : ~\E g : IsSums(g, s, k)}
  <1>1. n \in Nat /\ \A k \in 1 .. n : s[k] \in Int
    OBVIOUS
  <1> HIDE DEF n
  <1>2. T = {}
    <2> SUFFICES ASSUME T # {} PROVE FALSE
      OBVIOUS
    <2>1. T \in SUBSET Nat
      BY <1>1
    <2> HIDE DEF T
    <2>2. PICK x \in T : \A y \in T : x <= y
      BY <2>1, LeastOne
    <2> USE DEF T
    <2> DEFINE z == [k \in 0 .. 0 |-> 0]
    <2>3. IsSums(z, s, 0)
      BY DEF IsSums
    <2>4. x \in 1 .. n
      BY <1>1, <2>2, <2>3
    <2>5. x - 1 \notin T /\ x - 1 \in 0 .. n
      BY <1>1, <2>2, <2>4
    <2>6. PICK g : IsSums(g, s, x - 1)
      BY <2>5
    <2> DEFINE h == [k \in 0 .. x |-> IF k = x THEN g[x - 1] + s[x] ELSE g[k]]
    <2>7. IsSums(h, s, x)
      <3>1. g \in [0 .. x - 1 -> Int] /\ g[0] = 0 /\ \A k \in 1 .. x - 1 : g[k] = g[k - 1] + s[k]
        BY <2>6 DEF IsSums
      <3>2. h \in [0 .. x -> Int] /\ h[0] = 0
        BY <1>1, <2>4, <3>1
      <3>3. \A k \in 1 .. x : h[k] = h[k - 1] + s[k]
        BY <1>1, <2>4, <3>1
      <3> HIDE DEF h
      <3> QED BY <3>2, <3>3 DEF IsSums
    <2> QED BY <2>2, <2>7
  <1> QED BY <1>1, <1>2 DEF n

\* There is one only.
LEMMA SumsUnique ==
    ASSUME NEW s, NEW n \in Nat, NEW f, NEW g, IsSums(f, s, n), IsSums(g, s, n)
    PROVE  \A k \in 0 .. n : f[k] = g[k]
  <1> DEFINE T == {k \in 0 .. n : f[k] # g[k]}
  <1> SUFFICES ASSUME T # {} PROVE FALSE
    OBVIOUS
  <1>1. T \in SUBSET Nat
    OBVIOUS
  <1> HIDE DEF T
  <1>2. PICK x \in T : \A y \in T : x <= y
    BY <1>1, LeastOne
  <1> USE DEF T
  <1>3. x \in 1 .. n /\ x - 1 \in 0 .. n /\ x - 1 \notin T
    BY <1>2 DEF IsSums
  <1>4. f[x] = f[x - 1] + s[x] /\ g[x] = g[x - 1] + s[x]
    BY <1>3 DEF IsSums
  <1> QED BY <1>2, <1>3, <1>4

\* The function that the offsets of a list are taken from gives them.
LEMMA TotalIs == ASSUME NEW s \in Seq(Int) PROVE IsSums(Total(s), s, Len(s))
  <1> DEFINE n == Len(s)
             t == Total(s)
  <1>1. n \in Nat
    OBVIOUS
  <1>2. PICK g : IsSums(g, s, n)
    BY SumsExist
  <1>3. g = [k \in 0 .. n |-> IF k = 0 THEN 0 ELSE g[k - 1] + s[k]]
    BY <1>1, <1>2 DEF IsSums
  <1>4. t = CHOOSE f : f = [k \in 0 .. n |-> IF k = 0 THEN 0 ELSE f[k - 1] + s[k]]
    BY Zenon DEF Total
  <1> HIDE DEF t, n
  <1>5. t = [k \in 0 .. n |-> IF k = 0 THEN 0 ELSE t[k - 1] + s[k]]
    BY <1>3, <1>4, Zenon
  <1>6. DOMAIN t = 0 .. n /\ t[0] = 0 /\ \A k \in 1 .. n : t[k] = t[k - 1] + s[k]
    BY <1>1, <1>5
  <1>7. \A k \in 0 .. n : t[k] \in Int
    <2> DEFINE T == {k \in 0 .. n : t[k] \notin Int}
    <2> SUFFICES ASSUME T # {} PROVE FALSE
      OBVIOUS
    <2>1. T \in SUBSET Nat
      BY <1>1
    <2> HIDE DEF T
    <2>2. PICK x \in T : \A y \in T : x <= y
      BY <2>1, LeastOne
    <2> USE DEF T
    <2>3. x \in 1 .. n /\ x - 1 \in 0 .. n /\ x - 1 \notin T
      BY <1>1, <1>6, <2>2
    <2>4. s[x] \in Int
      BY <2>3 DEF n
    <2> QED BY <1>6, <2>2, <2>3, <2>4
  <1>8. t \in [0 .. n -> Int]
    BY <1>5, <1>7
  <1> QED BY <1>6, <1>8 DEF IsSums, n, t

\* The sum of no lengths, and of one.
LEMMA SumOfOne ==
    /\ Sum(<< >>) = 0
    /\ \A x \in Int : \A s : s = [j \in 1 .. 1 |-> x] => s \in Seq(Int) /\ Len(s) = 1 /\ Sum(s) = x
  <1>1. Sum(<< >>) = 0
    <2>1. << >> \in Seq(Int) /\ Len(<< >>) = 0
      OBVIOUS
    <2>2. IsSums(Total(<< >>), << >>, 0)
      BY <2>1, TotalIs
    <2> QED BY <2>1, <2>2 DEF IsSums, Sum
  <1>2. ASSUME NEW x \in Int, NEW s, s = [j \in 1 .. 1 |-> x]
        PROVE  s \in Seq(Int) /\ Len(s) = 1 /\ Sum(s) = x
    <2>1. s \in Seq(Int) /\ Len(s) = 1 /\ s[1] = x
      BY <1>2
    <2> HIDE DEF Sum
    <2>2. IsSums(Total(s), s, 1)
      BY <2>1, TotalIs
    <2>3. Total(s)[1] = Total(s)[0] + s[1] /\ Total(s)[0] = 0
      BY <2>2 DEF IsSums
    <2> QED BY <2>1, <2>3 DEF Sum
  <1> QED BY <1>1, <1>2

\* The sum with one length more.
LEMMA SumAppended ==
    ASSUME NEW s \in Seq(Int), NEW x \in Int, NEW t, t = [j \in 1 .. 1 |-> x]
    PROVE  /\ s \o t \in Seq(Int) /\ s \o t # << >>
           /\ Sum(s) \in Int /\ Sum(s \o t) = Sum(s) + x
  <1> DEFINE n == Len(s)
             u == s \o t
             f == Total(s)
             h == [k \in 0 .. n + 1 |-> IF k = n + 1 THEN f[n] + x ELSE f[k]]
  <1>1. n \in Nat /\ t \in Seq(Int) /\ Len(t) = 1 /\ t[1] = x
    OBVIOUS
  <1>2. u \in Seq(Int) /\ Len(u) = n + 1
    BY <1>1
  <1>3. (\A k \in 1 .. n : u[k] = s[k]) /\ u[n + 1] = x
    BY <1>1
  <1>4. IsSums(f, s, n)
    BY TotalIs
  <1>5. Sum(s) = f[n] /\ Sum(u) = Total(u)[n + 1]
    BY <1>2 DEF Sum
  <1> HIDE DEF n, u, f
  <1>6. IsSums(h, u, n + 1)
    <2>1. f \in [0 .. n -> Int] /\ f[0] = 0 /\ \A k \in 1 .. n : f[k] = f[k - 1] + s[k]
      BY <1>4 DEF IsSums
    <2>2. h \in [0 .. n + 1 -> Int] /\ h[0] = 0
      BY <1>1, <2>1
    <2>3. \A k \in 1 .. n + 1 : h[k] = h[k - 1] + u[k]
      BY <1>1, <1>3, <2>1
    <2> HIDE DEF h
    <2> QED BY <2>2, <2>3 DEF IsSums
  <1>7. IsSums(Total(u), u, n + 1)
    BY <1>2, TotalIs
  <1>8. Total(u)[n + 1] = h[n + 1]
    <2> DEFINE m == n + 1
               g == Total(u)
    <2>1. m \in Nat /\ m \in 0 .. m
      BY <1>1
    <2>2. IsSums(g, u, m) /\ IsSums(h, u, m)
      BY <1>6, <1>7
    <2> HIDE DEF h, m, g
    <2>3. \A k \in 0 .. m : g[k] = h[k]
      BY <2>1, <2>2, SumsUnique
    <2>4. g[m] = h[m]
      BY <2>1, <2>3
    <2> QED BY <2>4 DEF m, g
  <1>9. h[n + 1] = f[n] + x /\ f[n] \in Int
    BY <1>1, <1>4 DEF IsSums
  <1>10. u # << >>
    BY <1>1, <1>2
  <1>11. Sum(s) \in Int /\ Sum(u) = Sum(s) + x
    BY <1>5, <1>8, <1>9
  <1> HIDE DEF h
  <1>12. s \o t \in Seq(Int) /\ s \o t # << >> /\ Sum(s \o t) = Sum(s) + x
    BY <1>2, <1>10, <1>11 DEF u
  <1> QED BY <1>11, <1>12

\* The sum of n lengths that are all m but the last.
LEMMA SumOfPackets ==
    ASSUME NEW s \in Seq(Int), NEW n \in Nat \ {0}, Len(s) = n, NEW m \in Int,
           \A k \in 1 .. n - 1 : s[k] = m
    PROVE  Sum(s) = (n - 1) * m + s[n]
  <1> DEFINE h == [k \in 0 .. n |-> IF k = n THEN (n - 1) * m + s[n] ELSE k * m]
  <1>1. \A k \in 1 .. n : s[k] \in Int
    OBVIOUS
  <1>2. IsSums(h, s, n)
    <2>1. h \in [0 .. n -> Int]
      <3>1. \A k \in 0 .. n : h[k] \in Int
        BY <1>1
      <3> QED BY <3>1
    <2>2. h[0] = 0
      OBVIOUS
    <2>3. ASSUME NEW k \in 1 .. n
          PROVE  h[k] = h[k - 1] + s[k]
      <3>1. h[k - 1] = (k - 1) * m
        BY <2>3
      <3>2. CASE k = n
        BY <3>1, <3>2
      <3>3. CASE k # n
        <4>1. h[k] = k * m /\ s[k] = m
          BY <2>3, <3>3
        <4> HIDE DEF h
        <4>2. k * m = (k - 1) * m + m
          BY <2>3
        <4> QED BY <3>1, <4>1, <4>2
      <3> QED BY <3>2, <3>3
    <2> HIDE DEF h
    <2> QED BY <2>1, <2>2, <2>3 DEF IsSums
  <1>3. IsSums(Total(s), s, n)
    BY TotalIs
  <1>4. Total(s)[n] = h[n]
    <2> HIDE DEF h
    <2>1. n \in 0 .. n
      OBVIOUS
    <2> QED BY <1>2, <1>3, <2>1, SumsUnique
  <1> QED BY <1>4 DEF Sum

-----------------------------------------------------------------------------
(* The packets of a run *)

\* The places of m packets, one every i descriptors.
UpTo(m, i) == {(x - 1) * i + 1 : x \in 1 .. m}

\* They are as many.
LEMMA UpToSize ==
    ASSUME NEW i \in Intervals, NEW m \in Nat
    PROVE  Cardinality(UpTo(m, i)) = m
  <1> DEFINE g == [x \in 1 .. m |-> (x - 1) * i + 1]
  <1>1. g \in Bijection(1 .. m, UpTo(m, i))
    <2>1. \A x, y \in 1 .. m : (x - 1) * i + 1 = (y - 1) * i + 1 => x = y
      BY DEF Intervals
    <2>2. g \in [1 .. m -> UpTo(m, i)]
      BY DEF UpTo
    <2>3. g \in Injection(1 .. m, UpTo(m, i))
      BY <2>1, <2>2 DEF Injection, IsInjective
    <2>4. \A t \in UpTo(m, i) : \E x \in 1 .. m : g[x] = t
      BY DEF UpTo
    <2> QED BY <2>2, <2>3, <2>4 DEF Bijection, Surjection
  <1>2. IsFiniteSet(1 .. m) /\ Cardinality(1 .. m) = m
    BY FS_Interval
  <1> QED BY <1>1, <1>2, FS_Bijection DEF ExistsBijection

\* A run that meets active descriptors at these places moves their packets, in order.
LEMMA PacketsAt ==
    ASSUME NEW list, NEW start, NEW len, NEW i \in Intervals, NEW n \in Nat,
           NEW run, run = Run(list, start, len),
           {k \in DOMAIN run : list[run[k]].active} = UpTo(n, i)
    PROVE  Packets(list, start, len) = [j \in 1 .. n |-> run[(j - 1) * i + 1]]
  <1> DEFINE live == {k \in DOMAIN run : list[run[k]].active}
             Rank(k) == Cardinality({l \in live : l <= k})
             at == [j \in 1 .. n |-> run[CHOOSE k \in live : Rank(k) = j]]
  <1>1. Packets(list, start, len) = [j \in 1 .. Cardinality(live) |-> run[CHOOSE k \in live : Rank(k) = j]]
    BY DEF Packets
  <1>2. live = UpTo(n, i) /\ Cardinality(live) = n
    BY UpToSize
  <1> HIDE DEF live
  <1>3. ASSUME NEW x \in 1 .. n PROVE {l \in live : l <= (x - 1) * i + 1} = UpTo(x, i)
    <2>1. \A y \in 1 .. n : (y - 1) * i + 1 <= (x - 1) * i + 1 <=> y <= x
      BY DEF Intervals
    <2>2. \A l : l \in live <=> \E y \in 1 .. n : l = (y - 1) * i + 1
      BY <1>2 DEF UpTo
    <2>3. \A l : l \in UpTo(x, i) <=> \E y \in 1 .. n : y <= x /\ l = (y - 1) * i + 1
      BY DEF UpTo
    <2> QED BY <2>1, <2>2, <2>3
  <1>4. ASSUME NEW x \in 1 .. n PROVE Rank((x - 1) * i + 1) = x
    <2>1. Cardinality(UpTo(x, i)) = x
      BY UpToSize
    <2> QED BY <1>3, <2>1
  <1> HIDE DEF Rank
  <1>5. \A k \in live : \E x \in 1 .. n : k = (x - 1) * i + 1
    BY <1>2 DEF UpTo
  <1>6. \A x \in 1 .. n : (x - 1) * i + 1 \in live
    BY <1>2 DEF UpTo
  <1>7. \A j \in 1 .. n : (CHOOSE k \in live : Rank(k) = j) = (j - 1) * i + 1
    BY <1>4, <1>5, <1>6
  <1> QED BY <1>1, <1>2, <1>7

\* A run ends with the first descriptor that has HOC.
LEMMA RunEnds ==
    ASSUME NEW list, NEW start, NEW len \in Nat, NEW m \in 1 .. len,
           NEW size, size = ListLen(ep_char.type),
           list[(start + m - 1) % size].hoc,
           \A k \in 1 .. m - 1 : ~list[(start + k - 1) % size].hoc
    PROVE  Run(list, start, len) = [k \in 1 .. m |-> (start + k - 1) % size]
  <1> DEFINE At(k) == (start + k - 1) % size
             stops == {k \in 1 .. len : list[At(k)].hoc}
             n == IF stops = {} THEN len ELSE CHOOSE k \in stops : \A l \in stops : k <= l
  <1>1. Run(list, start, len) = [k \in 1 .. n |-> At(k)]
    BY DEF Run
  <1>2. m \in stops /\ \A k \in stops : m <= k
    OBVIOUS
  <1>3. stops \subseteq Nat
    OBVIOUS
  <1> HIDE DEF stops
  <1>4. n = m
    <2>1. n \in stops /\ \A k \in stops : n <= k
      BY <1>2
    <2>2. n <= m /\ m <= n /\ n \in Nat /\ m \in Nat
      BY <1>2, <1>3, <2>1
    <2> QED BY <2>2
  <1> QED BY <1>1, <1>4

-----------------------------------------------------------------------------
(* Packets of a stream *)

\* A frame is in place if it is whole intervals away.
LEMMA WholeIntervals ==
    ASSUME NEW i \in Intervals, NEW k \in Nat \ {0}, (k - 1) % i = 0
    PROVE  \E x \in Nat \ {0} : k = (x - 1) * i + 1
  <1> DEFINE y == (k - 1) \div i + 1
  <1> SUFFICES y \in Nat \ {0} /\ k = (y - 1) * i + 1
    OBVIOUS
  <1>1. k - 1 \in Nat
    OBVIOUS
  <1>2. CASE i = 1
    BY <1>1, <1>2
  <1>3. CASE i = 2
    BY <1>1, <1>3
  <1>4. CASE i = 4
    BY <1>1, <1>4
  <1>5. CASE i = 8
    BY <1>1, <1>5
  <1>6. CASE i = 16
    BY <1>1, <1>6
  <1>7. CASE i = 32
    BY <1>1, <1>7
  <1> QED BY <1>2, <1>3, <1>4, <1>5, <1>6, <1>7 DEF Intervals

\* An index of the list is one.
LEMMA IndexInList == ASSUME NEW x \in 0 .. 31 PROVE x % 32 = x
  OBVIOUS

\* The n packets of a request lie one every i frames from start on, and the last one
\* ends the run.
InPlace(list, start, n, i) ==
    /\ n \in Nat /\ n * i \in 1 .. 32 /\ start \in 0 .. 31
    /\ \A k \in 0 .. 31 : Behind(start, k) < n * i =>
          /\ list[k].active <=> Behind(start, k) % i = 0
          /\ list[k].hoc <=> Behind(start, k) = (n - 1) * i

\* The channel finds them, and none that an earlier request has left.
LEMMA PacketsInPlace ==
    ASSUME ep_char.type = "ISOCHRONOUS", NEW i \in Intervals, NEW list, NEW start, NEW n,
           InPlace(list, start, n, i)
    PROVE  Packets(list, start, 32) = [j \in 1 .. n |-> (start + (j - 1) * i) % 32]
  <1> DEFINE m == (n - 1) * i + 1
             run == Run(list, start, 32)
  <1>1. n \in Nat /\ n * i \in 1 .. 32 /\ start \in 0 .. 31
    BY DEF InPlace
  <1>2. n >= 1 /\ m \in 1 .. 32 /\ m <= n * i
    BY <1>1 DEF Intervals
  <1>3. \A k \in 1 .. 32 : (start + k - 1) % 32 \in 0 .. 31 /\ Behind(start, (start + k - 1) % 32) = k - 1
    BY <1>1 DEF Behind, XFER_LIST_LEN_ISOC
  <1>4. ASSUME NEW k \in 1 .. m
        PROVE  /\ list[(start + k - 1) % 32].active <=> (k - 1) % i = 0
               /\ list[(start + k - 1) % 32].hoc <=> k = m
    <2>1. k \in 1 .. 32 /\ k - 1 < n * i
      BY <1>1, <1>2
    <2>2. k - 1 = (n - 1) * i <=> k = m
      BY <1>1, <1>2 DEF Intervals
    <2> QED BY <1>3, <2>1, <2>2 DEF InPlace
  <1>5. run = [k \in 1 .. m |-> (start + k - 1) % 32]
    <2>1. ListLen(ep_char.type) = 32
      BY DEF ListLen, XFER_LIST_LEN_ISOC
    <2>2. list[(start + m - 1) % 32].hoc /\ \A k \in 1 .. m - 1 : ~list[(start + k - 1) % 32].hoc
      <3> HIDE DEF m
      <3> QED BY <1>2, <1>4
    <2> HIDE DEF m
    <2> QED BY <1>2, <2>1, <2>2, RunEnds
  <1>6. {k \in DOMAIN run : list[run[k]].active} = UpTo(n, i)
    <2>1. \A k \in 1 .. m : (k - 1) % i = 0 <=> \E x \in 1 .. n : k = (x - 1) * i + 1
      <3> SUFFICES ASSUME NEW k \in 1 .. m
                   PROVE  (k - 1) % i = 0 <=> \E x \in 1 .. n : k = (x - 1) * i + 1
        OBVIOUS
      <3>1. ASSUME (k - 1) % i = 0 PROVE \E x \in 1 .. n : k = (x - 1) * i + 1
        <4>1. PICK x \in Nat \ {0} : k = (x - 1) * i + 1
          BY <3>1, WholeIntervals
        <4>2. x <= n
          BY <1>1, <4>1 DEF Intervals
        <4> QED BY <4>1, <4>2
      <3>2. ASSUME NEW x \in 1 .. n, k = (x - 1) * i + 1 PROVE (k - 1) % i = 0
        BY <1>1, <3>2 DEF Intervals
      <3> QED BY <3>1, <3>2
    <2>2. \A x \in 1 .. n : (x - 1) * i + 1 \in 1 .. m
      BY <1>1 DEF Intervals
    <2> HIDE DEF m
    <2>3. {k \in DOMAIN run : list[run[k]].active} = {k \in 1 .. m : (k - 1) % i = 0}
      BY <1>4, <1>5
    <2>4. UpTo(n, i) = {k \in 1 .. m : \E x \in 1 .. n : k = (x - 1) * i + 1}
      BY <2>2 DEF UpTo
    <2> QED BY <2>1, <2>3, <2>4
  <1> HIDE DEF run
  <1>7. Packets(list, start, 32) = [j \in 1 .. n |-> run[(j - 1) * i + 1]]
    <2>1. run = Run(list, start, 32) /\ n \in Nat
      BY <1>1 DEF run
    <2> QED BY <1>6, <2>1, PacketsAt
  <1>8. \A j \in 1 .. n : run[(j - 1) * i + 1] = (start + (j - 1) * i) % 32
    <2>1. \A j \in 1 .. n : (j - 1) * i + 1 \in 1 .. m /\ start + ((j - 1) * i + 1) - 1 = start + (j - 1) * i
      BY <1>1 DEF Intervals
    <2> HIDE DEF m
    <2> QED BY <1>5, <2>1
  <1> QED BY <1>7, <1>8

\* A frame that is whole intervals away is scheduled as well.
LEMMA FrameScheduled ==
    ASSUME NEW i \in Intervals, NEW x \in Int, NEW q \in Int
    PROVE  (x + q * i) % 32 \in 0 .. 31 /\ ((x + q * i) % 32) % i = x % i
  <1>1. CASE i = 1
    BY <1>1
  <1>2. CASE i = 2
    BY <1>2
  <1>3. CASE i = 4
    BY <1>3
  <1>4. CASE i = 8
    BY <1>4
  <1>5. CASE i = 16
    BY <1>5
  <1>6. CASE i = 32
    BY <1>6
  <1> QED BY <1>1, <1>2, <1>3, <1>4, <1>5, <1>6 DEF Intervals

\* The frame after it is an interval behind it.
LEMMA FrameBehind ==
    ASSUME NEW i \in Intervals, NEW x \in Int
    PROVE  Behind(x % 32, (x + i) % 32) = i % 32
  <1>1. CASE i = 1
    BY <1>1 DEF Behind, XFER_LIST_LEN_ISOC
  <1>2. CASE i = 2
    BY <1>2 DEF Behind, XFER_LIST_LEN_ISOC
  <1>3. CASE i = 4
    BY <1>3 DEF Behind, XFER_LIST_LEN_ISOC
  <1>4. CASE i = 8
    BY <1>4 DEF Behind, XFER_LIST_LEN_ISOC
  <1>5. CASE i = 16
    BY <1>5 DEF Behind, XFER_LIST_LEN_ISOC
  <1>6. CASE i = 32
    BY <1>6 DEF Behind, XFER_LIST_LEN_ISOC
  <1> QED BY <1>1, <1>2, <1>3, <1>4, <1>5, <1>6 DEF Intervals

\* The frames of n packets, one every i frames from start on.
Frames(start, n, i) == [j \in 1 .. n |-> (start + (j - 1) * i) % 32]

\* A request of n packets that fits in the list and begins where the pipe is scheduled.
RequestFits(start, n, i, o) ==
    i \in Intervals /\ start \in 0 .. 31 /\ n \in Nat /\ n * i \in 1 .. 32 /\ start % i = o % i

\* The frames s of its packets: scheduled, one interval apart, up to the frame of the
\* next request.
IsStream(s, start, n, i, o) ==
    /\ s \in Seq(0 .. 31) /\ Len(s) = n /\ n >= 1
    /\ \A k \in 1 .. n : s[k] % i = o % i
    /\ \A k \in 2 .. n : Behind(s[k - 1], s[k]) = i % 32
    /\ s[1] = start
    /\ Behind(s[n], (start + n * i) % 32) = i % 32

\* A stream that begins in place is one.
LEMMA StreamInPlace ==
    ASSUME NEW start, NEW n, NEW i, NEW o, RequestFits(start, n, i, o)
    PROVE  IsStream(Frames(start, n, i), start, n, i, o)
  <1> DEFINE s == Frames(start, n, i)
  <1>0. i \in Intervals /\ start \in 0 .. 31 /\ n \in Nat /\ n * i \in 1 .. 32 /\ start % i = o % i
    BY DEF RequestFits
  <1>1. n \in 1 .. 32
    BY <1>0 DEF Intervals
  <1>2. ASSUME NEW k \in 1 .. n
        PROVE  (start + (k - 1) * i) % 32 \in 0 .. 31 /\ ((start + (k - 1) * i) % 32) % i = start % i
    <2>1. start \in Int /\ k - 1 \in Int
      BY <1>0
    <2> QED BY <1>0, <2>1, FrameScheduled
  <1>3. s \in Seq(0 .. 31) /\ Len(s) = n
    BY <1>0, <1>2 DEF Frames
  <1>4. ASSUME NEW k \in 2 .. n
        PROVE  Behind((start + (k - 1 - 1) * i) % 32, (start + (k - 1) * i) % 32) = i % 32
    <2> DEFINE x == start + (k - 1 - 1) * i
    <2>1. x \in Int /\ start + (k - 1) * i = x + i
      BY <1>0 DEF Intervals
    <2> HIDE DEF x
    <2>2. Behind(x % 32, (x + i) % 32) = i % 32
      BY <1>0, <2>1, FrameBehind
    <2> QED BY <2>1, <2>2 DEF x
  <1>5. Behind((start + (n - 1) * i) % 32, (start + n * i) % 32) = i % 32
    <2> DEFINE x == start + (n - 1) * i
    <2>1. x \in Int /\ start + n * i = x + i
      BY <1>0 DEF Intervals
    <2> HIDE DEF x
    <2>2. Behind(x % 32, (x + i) % 32) = i % 32
      BY <1>0, <2>1, FrameBehind
    <2> QED BY <2>1, <2>2 DEF x
  <1>6. (start + (1 - 1) * i) % 32 = start
    <2>1. start + (1 - 1) * i = start
      BY <1>0 DEF Intervals
    <2>2. start % 32 = start
      BY <1>0, IndexInList
    <2> QED BY <2>1, <2>2
  <1>7. \A k \in 1 .. n : s[k] = (start + (k - 1) * i) % 32
    BY DEF Frames
  <1>8. \A k \in 2 .. n : k - 1 \in 1 .. n /\ k \in 1 .. n
    BY <1>1
  <1> HIDE DEF s
  <1>9. IsStream(s, start, n, i, o)
    BY <1>0, <1>1, <1>2, <1>3, <1>4, <1>5, <1>6, <1>7, <1>8 DEF IsStream
  <1> QED BY <1>9 DEF s

-----------------------------------------------------------------------------
(* The buffers *)

BufFields == {"state", "irp", "list", "flags", "stop_idx", "moved", "skipped"}

FlagFields ==
    {"data_stg_in", "data_stg_skip", "cur_stg", "zero_len_packet", "num_qtds",
     "irp_start_idx", "next_irp_start_idx"}

DescFields == {"off", "len", "setup", "in", "hoc", "active", "rem"}

\* What a buffer of the pipe is made of, whatever is in it.
Shape(buf) ==
    /\ DOMAIN buf = BufFields /\ DOMAIN buf.flags = FlagFields
    /\ DOMAIN buf.list = 0 .. ListLen(ep_char.type) - 1
    /\ \A k \in DOMAIN buf.list : DOMAIN buf.list[k] = DescFields

\* The stages of a control transfer that are still to run are active, and those of the
\* request: out for setup, the way of the data, the other way.
StagesInPlace(irp, list, flags) ==
    /\ irp \in Request_t
    /\ flags.cur_stg \in 0 .. 2 /\ (flags.cur_stg = 1 => irp.num_bytes # 0)
    /\ flags.data_stg_in \in BOOLEAN
    /\ flags.data_stg_in <=> irp.data_in
    /\ flags.data_stg_skip <=> irp.num_bytes = 0
    /\ \A k \in 0 .. 2 : k >= flags.cur_stg /\ (k = 1 => irp.num_bytes # 0) => list[k].active /\ list[k].hoc
    /\ \A k \in 0 .. 2 : list[k].in \in BOOLEAN
    /\ list[0].setup /\ ~list[0].in /\ list[0].len = SETUP_SIZE
    /\ irp.num_bytes # 0 => /\ ~list[1].setup /\ list[1].len = irp.num_bytes
                            /\ list[1].in <=> irp.data_in
    /\ ~list[2].setup /\ list[2].len = 0
    /\ list[2].in <=> ~(irp.data_in /\ irp.num_bytes # 0)

\* An isochronous request is put where the stream is scheduled.
PacketsInSchedule(irp, list, flags) ==
    /\ irp \in Request_t /\ flags.irp_start_idx \in 0 .. 31
    /\ ~Empty(irp) => InPlace(list, flags.irp_start_idx, Len(irp.packets), ep_char.interval)
    /\ flags.irp_start_idx % ep_char.interval = ep_char.phase_offset_frames % ep_char.interval
    /\ flags.next_irp_start_idx = (flags.irp_start_idx + Len(irp.packets) * ep_char.interval) % 32

\* What the fields of a descriptor are.
LEMMA DescIs ==
    ASSUME NEW off, NEW len, NEW F, NEW d, d = Desc(off, len, F)
    PROVE  /\ DOMAIN d = DescFields /\ d.active /\ d.len = len /\ d.in \in BOOLEAN
           /\ d.off = off /\ d.rem = 0
           /\ d.in <=> "IN" \in F
           /\ d.hoc <=> "HOC" \in F
           /\ d.setup <=> "SETUP" \in F
  <1>1. DOMAIN d = DescFields
    BY DEF Desc, DescFields
  <1>2. d.active /\ d.len = len /\ d.in \in BOOLEAN /\ d.off = off /\ d.rem = 0
    BY DEF Desc
  <1>3. d.in <=> "IN" \in F
    BY DEF Desc
  <1>4. d.hoc <=> "HOC" \in F
    BY DEF Desc
  <1>5. d.setup <=> "SETUP" \in F
    BY DEF Desc
  <1> QED BY <1>1, <1>2, <1>3, <1>4, <1>5

\* And of a cleared one.
LEMMA NoDescIs ==
    /\ DOMAIN NoDesc = DescFields /\ ~NoDesc.active /\ ~NoDesc.hoc /\ NoDesc.in \in BOOLEAN
    /\ NoDesc.rem = 0
  BY DEF NoDesc, DescFields

\* The flags of the fill functions, for one packet or the last.
LEMMA FlagsAre ==
    ASSUME NEW b
    PROVE  /\ "IN" \in InFlag(b) \union {"HOC"} <=> b
           /\ "HOC" \in InFlag(b) \union {"HOC"}
           /\ "SETUP" \notin InFlag(b) \union {"HOC"}
  BY DEF InFlag

\* A buffer that has been filled with irp.
Taken(buf, irp) == [buf EXCEPT !.state = "filled", !.irp = irp]

\* A control request fills a buffer whose ring is free (_buffer_fill_ctrl).
LEMMA CtrlFilled ==
    ASSUME ep_char.type = "CTRL", NEW buf, Shape(buf), NEW irp \in Request_t,
           NEW new, new = Taken(FillCtrl(buf, irp), irp)
    PROVE  /\ Shape(new) /\ new.state = "filled"
           /\ StagesInPlace(new.irp, new.list, new.flags) /\ new.flags.cur_stg = 0
  <1> DEFINE skip == irp.num_bytes = 0
             d0 == Desc(0, SETUP_SIZE, {"SETUP", "HOC"})
             d1 == IF skip THEN NoDesc
                   ELSE Desc(SETUP_SIZE, irp.num_bytes, InFlag(irp.data_in) \union {"HOC"})
             d2 == Desc(0, 0, InFlag(~(irp.data_in /\ ~skip)) \union {"HOC"})
             l == [buf.list EXCEPT ![0] = d0, ![1] = d1, ![2] = d2]
             f == [buf.flags EXCEPT !.data_stg_in = irp.data_in, !.data_stg_skip = skip, !.cur_stg = 0]
  <1>1. /\ DOMAIN d0 = DescFields /\ d0.active /\ d0.hoc /\ d0.setup /\ ~d0.in
        /\ d0.in \in BOOLEAN /\ d0.len = SETUP_SIZE
    <2>1. "IN" \notin {"SETUP", "HOC"} /\ "HOC" \in {"SETUP", "HOC"} /\ "SETUP" \in {"SETUP", "HOC"}
      OBVIOUS
    <2> QED BY <2>1, DescIs
  <1>2. /\ DOMAIN d1 = DescFields /\ d1.in \in BOOLEAN
        /\ ~skip => /\ d1.active /\ d1.hoc /\ ~d1.setup /\ d1.len = irp.num_bytes
                    /\ d1.in <=> irp.data_in
    BY DescIs, NoDescIs, FlagsAre
  <1>3. /\ DOMAIN d2 = DescFields /\ d2.active /\ d2.hoc /\ ~d2.setup /\ d2.len = 0
        /\ d2.in \in BOOLEAN
        /\ d2.in <=> ~(irp.data_in /\ ~skip)
    <2> DEFINE b == ~(irp.data_in /\ ~skip)
               F == InFlag(b) \union {"HOC"}
    <2>1. ("IN" \in F <=> b) /\ "HOC" \in F /\ "SETUP" \notin F
      BY FlagsAre
    <2>2. d2 = Desc(0, 0, F)
      OBVIOUS
    <2> HIDE DEF F, d2
    <2> QED BY <2>1, <2>2, DescIs
  <1>4. FillCtrl(buf, irp) = [buf EXCEPT !.list = l, !.flags = f]
    BY DEF FillCtrl
  <1> HIDE DEF d0, d1, d2
  <1>5. DOMAIN l = 0 .. 2 /\ l[0] = d0 /\ l[1] = d1 /\ l[2] = d2
    BY DEF Shape, ListLen, XFER_LIST_LEN_CTRL
  <1>6. /\ DOMAIN f = FlagFields /\ f.cur_stg = 0
        /\ f.data_stg_in \in BOOLEAN
        /\ (f.data_stg_in <=> irp.data_in) /\ (f.data_stg_skip <=> skip)
    BY DEF Shape, FlagFields, Request_t
  <1> HIDE DEF l, f
  <1>7. DOMAIN new = BufFields /\ new.state = "filled" /\ new.irp = irp /\ new.list = l /\ new.flags = f
    BY <1>4 DEF Shape, BufFields, Taken
  <1>8. Shape(new)
    BY <1>1, <1>2, <1>3, <1>5, <1>6, <1>7 DEF Shape, ListLen, XFER_LIST_LEN_CTRL
  <1>9. StagesInPlace(irp, l, f)
    BY <1>1, <1>2, <1>3, <1>5, <1>6 DEF StagesInPlace
  <1> QED BY <1>6, <1>7, <1>8, <1>9

\* Which packet a frame belongs to.
LEMMA WhichPacket ==
    ASSUME NEW i \in Intervals, NEW d \in Nat, NEW n \in Nat \ {0}
    PROVE  (d % i = 0 /\ d \div i + 1 = n) <=> d = (n - 1) * i
  <1>1. CASE i = 1
    BY <1>1
  <1>2. CASE i = 2
    BY <1>2
  <1>3. CASE i = 4
    BY <1>3
  <1>4. CASE i = 8
    BY <1>4
  <1>5. CASE i = 16
    BY <1>5
  <1>6. CASE i = 32
    BY <1>6
  <1> QED BY <1>1, <1>2, <1>3, <1>4, <1>5, <1>6 DEF Intervals

\* How much of the list n packets take.
LEMMA TakesFrames ==
    ASSUME NEW i \in Intervals, NEW n \in Nat, n * i <= 32
    PROVE  n * i \in Nat /\ (n # 0 => n * i \in 1 .. 32)
  <1>1. i = 1 \/ i = 2 \/ i = 4 \/ i = 8 \/ i = 16 \/ i = 32
    BY DEF Intervals
  <1> QED BY <1>1

\* A request that takes frames has packets.
LEMMA HasPackets == ASSUME NEW i \in Intervals, NEW n \in Nat, n * i \in 1 .. 32 PROVE n \in 1 .. 32
  BY DEF Intervals

\* A distance in the list.
LEMMA BehindRange == ASSUME NEW start \in Int, NEW k \in Int PROVE Behind(start, k) \in 0 .. 31
  BY DEF Behind, XFER_LIST_LEN_ISOC

\* An index of the list at which a transfer of the endpoint may start.
InPhase(start) == start % ep_char.interval = ep_char.phase_offset_frames % ep_char.interval

\* An isochronous request fills a buffer from start on (_buffer_fill_isoc).
LEMMA IsocFilled ==
    ASSUME ep_char.type = "ISOCHRONOUS", ep_char.interval \in Intervals, NEW buf, Shape(buf),
           NEW irp \in Request_t, Fits(irp), NEW start \in 0 .. 31,
           InPhase(start), NEW new, new = Taken(FillIsoc(buf, irp, start), irp)
    PROVE  /\ Shape(new) /\ new.state = "filled"
           /\ PacketsInSchedule(new.irp, new.list, new.flags)
           /\ new.flags.irp_start_idx = start
  <1> USE DEF InPhase
  <1> DEFINE n == Len(irp.packets)
             i == ep_char.interval
             At(k) == Desc(Total(irp.packets)[k - 1], irp.packets[k],
                           InFlag(ep_char.is_in) \union IF k = n THEN {"HOC"} ELSE {})
             l == [k \in DOMAIN buf.list |->
                      IF Behind(start, k) >= n * i THEN buf.list[k]
                      ELSE IF Behind(start, k) % i # 0 THEN NoDesc
                      ELSE At(Behind(start, k) \div i + 1)]
             f == [buf.flags EXCEPT !.num_qtds = n * i, !.irp_start_idx = start,
                                    !.next_irp_start_idx = (start + n * i) % XFER_LIST_LEN_ISOC]
  <1>1. FillIsoc(buf, irp, start) = [buf EXCEPT !.list = l, !.flags = f]
    BY DEF FillIsoc
  <1>2. n \in Nat /\ n * i \in Nat /\ (~Empty(irp) => n * i \in 1 .. 32)
    <2>1. irp.type = "ISOCHRONOUS" /\ irp.packets \in Seq(Nat) /\ n \in Nat
      BY DEF Fits, Request_t
    <2>2. n * i <= 32
      BY <2>1 DEF Fits, XFER_LIST_LEN_ISOC
    <2>3. ~Empty(irp) => n # 0
      BY <2>1 DEF Empty
    <2>4. i \in Intervals
      OBVIOUS
    <2> HIDE DEF n, i
    <2> QED BY ONLY <2>1, <2>2, <2>3, <2>4, TakesFrames
  <1>3. ASSUME NEW k
        PROVE  /\ DOMAIN At(k) = DescFields /\ At(k).active
               /\ At(k).hoc <=> k = n
    <2> DEFINE F == InFlag(ep_char.is_in) \union IF k = n THEN {"HOC"} ELSE {}
               off == Total(irp.packets)[k - 1]
               len == irp.packets[k]
    <2>1. "HOC" \in F <=> k = n
      BY DEF InFlag
    <2>2. At(k) = Desc(off, len, F)
      OBVIOUS
    <2> HIDE DEF F, off, len, At
    <2> QED BY <2>1, <2>2, DescIs
  <1> HIDE DEF At
  <1>4. DOMAIN buf.list = 0 .. 31 /\ DOMAIN l = 0 .. 31
    BY DEF Shape, ListLen, XFER_LIST_LEN_ISOC
  <1>5. \A k \in 0 .. 31 : DOMAIN l[k] = DescFields
    BY <1>3, <1>4, NoDescIs DEF Shape
  <1>6. ASSUME ~Empty(irp), NEW k \in 0 .. 31, Behind(start, k) < n * i
        PROVE  /\ l[k].active <=> Behind(start, k) % i = 0
               /\ l[k].hoc <=> Behind(start, k) = (n - 1) * i
    <2> DEFINE d == Behind(start, k)
    <2>0. d \in 0 .. 31
      BY BehindRange
    <2>1. d \in Nat /\ d < n * i /\ ~(d >= n * i)
      <3> HIDE DEF d, n, i
      <3> QED BY <1>2, <1>6, <2>0 DEF d
    <2>2. l[k] = IF d % i # 0 THEN NoDesc ELSE At(d \div i + 1)
      BY <1>4, <2>1
    <2> HIDE DEF l, d
    <2>3. (d % i = 0 /\ d \div i + 1 = n) <=> d = (n - 1) * i
      <3>1. i \in Intervals
        OBVIOUS
      <3> HIDE DEF n, i
      <3>2. n \in 1 .. 32
        BY <1>2, <1>6, <3>1, HasPackets
      <3> QED BY <1>2, <2>1, <3>1, <3>2, WhichPacket
    <2>4. (l[k].active <=> d % i = 0) /\ (l[k].hoc <=> d = (n - 1) * i)
      <3> HIDE DEF i, n
      <3> QED BY <1>3, <2>2, <2>3, NoDescIs
    <2> QED BY <2>4 DEF d
  <1>7. ~Empty(irp) => InPlace(l, start, n, i)
    BY <1>2, <1>6 DEF InPlace
  <1>8. /\ DOMAIN f = FlagFields /\ f.irp_start_idx = start
        /\ f.next_irp_start_idx = (start + n * i) % 32
    BY DEF Shape, FlagFields, XFER_LIST_LEN_ISOC
  <1> HIDE DEF l, f
  <1>9. DOMAIN new = BufFields /\ new.state = "filled" /\ new.irp = irp /\ new.list = l /\ new.flags = f
    BY <1>1 DEF Shape, BufFields, Taken
  <1>10. Shape(new)
    BY <1>4, <1>5, <1>8, <1>9 DEF Shape, ListLen, XFER_LIST_LEN_ISOC
  <1>11. PacketsInSchedule(irp, l, f)
    BY <1>7, <1>8 DEF PacketsInSchedule
  <1> QED BY <1>8, <1>9, <1>10, <1>11

-----------------------------------------------------------------------------
(* What a filled buffer holds *)

\* A control transfer: 8 bytes, the bytes of the data stage, and none; and what moved in
\* the stages that are over.
CtrlHolds(buf) ==
    LET list == buf.list
        n == buf.irp.num_bytes
        stg == buf.flags.cur_stg
    IN  /\ list[0].off = 0 /\ list[1].rem \in Int
        /\ IF n = 0 THEN ~list[1].active ELSE list[1].off = SETUP_SIZE
        /\ \A k \in 0 .. 2 : k >= stg => list[k].rem = 0
        /\ buf.moved \in Seq(Int)
        /\ stg = 0 => buf.moved = << >>
        /\ stg # 0 => /\ buf.moved # << >>
                      /\ Sum(buf.moved) = SETUP_SIZE + IF n = 0 \/ stg = 1 THEN 0 ELSE n - list[1].rem

\* A descriptor that is still to be run, of these bytes.
Describes(d, off, len, is_in) ==
    /\ d.active /\ d.rem = 0 /\ d.off = off /\ d.len = len
    /\ d.in \in BOOLEAN /\ (d.in <=> is_in)

\* A bulk transfer: one descriptor, at which the channel stops.
BulkHolds(ep, buf) ==
    /\ Describes(buf.list[0], 0, buf.irp.num_bytes, ep.is_in)
    /\ buf.list[0].hoc \/ ~buf.flags.zero_len_packet

\* How many bytes packet k of n has, of num_bytes.
PacketLen(k, n, mps, num_bytes) == IF k < n THEN mps ELSE num_bytes - (n - 1) * mps

\* An interrupt transfer: as many packets as it takes, all full but the last.
IntrHolds(ep, buf) ==
    LET n == buf.flags.num_qtds
        mps == ep.mps
        num_bytes == buf.irp.num_bytes
    IN  /\ n \in 1 .. 32 /\ mps > 0 /\ (n - 1) * mps < num_bytes /\ num_bytes <= n * mps
        /\ ep.is_in => num_bytes = n * mps
        /\ \A k \in 1 .. n :
              /\ Describes(buf.list[k - 1], (k - 1) * mps, PacketLen(k, n, mps, num_bytes), ep.is_in)
              /\ buf.list[k - 1].hoc <=> k = n

\* An isochronous transfer: its packets, one every interval.
IsocHolds(ep, buf) ==
    \A k \in 1 .. Len(buf.irp.packets) :
        Describes(buf.list[(buf.flags.irp_start_idx + (k - 1) * ep.interval) % 32],
                  Total(buf.irp.packets)[k - 1], buf.irp.packets[k], ep.is_in)

Holds(ep, buf) ==
    /\ buf.irp \in Request_t
    /\ ep.type = "CTRL" => CtrlHolds(buf)
    /\ ep.type # "CTRL" => buf.moved = << >>
    /\ ep.type = "BULK" => BulkHolds(ep, buf)
    /\ ep.type = "INTR" /\ ~Empty(buf.irp) => IntrHolds(ep, buf)
    /\ ep.type = "ISOCHRONOUS" => IsocHolds(ep, buf)

\* A control request that has been filled.
LEMMA CtrlHeld ==
    ASSUME ep_char.type = "CTRL", NEW buf, Shape(buf), buf.moved = << >>, NEW irp \in Request_t,
           NEW new, new = Taken(FillCtrl(buf, irp), irp)
    PROVE  Holds(ep_char, new)
  <1> DEFINE skip == irp.num_bytes = 0
             d0 == Desc(0, SETUP_SIZE, {"SETUP", "HOC"})
             d1 == IF skip THEN NoDesc
                   ELSE Desc(SETUP_SIZE, irp.num_bytes, InFlag(irp.data_in) \union {"HOC"})
             d2 == Desc(0, 0, InFlag(~(irp.data_in /\ ~skip)) \union {"HOC"})
             l == [buf.list EXCEPT ![0] = d0, ![1] = d1, ![2] = d2]
             f == [buf.flags EXCEPT !.data_stg_in = irp.data_in, !.data_stg_skip = skip, !.cur_stg = 0]
  <1>1. d0.off = 0 /\ d0.rem = 0
    BY DescIs
  <1>2. d1.rem = 0 /\ IF skip THEN ~d1.active ELSE d1.off = SETUP_SIZE
    BY DescIs, NoDescIs
  <1>3. d2.rem = 0
    BY DescIs
  <1>4. FillCtrl(buf, irp) = [buf EXCEPT !.list = l, !.flags = f]
    BY DEF FillCtrl
  <1> HIDE DEF d0, d1, d2
  <1>5. DOMAIN l = 0 .. 2 /\ l[0] = d0 /\ l[1] = d1 /\ l[2] = d2
    BY DEF Shape, ListLen, XFER_LIST_LEN_CTRL
  <1>6. f.cur_stg = 0
    BY DEF Shape, FlagFields
  <1> HIDE DEF l, f
  <1>7. new.irp = irp /\ new.list = l /\ new.flags = f /\ new.moved = << >>
    BY <1>4 DEF Shape, BufFields, Taken
  <1>8. CtrlHolds(new)
    BY <1>1, <1>2, <1>3, <1>5, <1>6, <1>7 DEF CtrlHolds
  <1> QED BY <1>7, <1>8 DEF Holds

\* A bulk request fills the first descriptor (_buffer_fill_bulk).
LEMMA BulkFilled ==
    ASSUME ep_char.type = "BULK", ep_char.is_in \in BOOLEAN, NEW buf, Shape(buf),
           NEW irp \in Request_t, NEW new, new = Taken(FillBulk(buf, irp), irp)
    PROVE  Shape(new) /\ new.state = "filled" /\ (buf.moved = << >> => Holds(ep_char, new))
  <1> DEFINE zlp == ~ep_char.is_in /\ irp.zero_pack
             F == InFlag(ep_char.is_in) \union IF zlp THEN {} ELSE {"HOC"}
             d0 == Desc(0, irp.num_bytes, F)
             d1 == IF zlp THEN Desc(0, 0, {"HOC"}) ELSE buf.list[1]
             l == [buf.list EXCEPT ![0] = d0, ![1] = d1]
             f == [buf.flags EXCEPT !.zero_len_packet = ep_char.is_in /\ irp.zero_pack]
  <1>1. DOMAIN buf.list = 0 .. 1 /\ \A k \in 0 .. 1 : DOMAIN buf.list[k] = DescFields
    BY DEF Shape, ListLen, XFER_LIST_LEN_BULK
  <1>2. /\ DOMAIN d0 = DescFields /\ Describes(d0, 0, irp.num_bytes, ep_char.is_in)
        /\ d0.hoc <=> ~zlp
    <2>1. ("IN" \in F <=> ep_char.is_in) /\ ("HOC" \in F <=> ~zlp)
      BY DEF InFlag
    <2>2. d0 = Desc(0, irp.num_bytes, F)
      OBVIOUS
    <2> HIDE DEF F, d0, zlp
    <2> QED BY <2>1, <2>2, DescIs DEF Describes
  <1>3. DOMAIN d1 = DescFields
    BY <1>1, DescIs
  <1>4. FillBulk(buf, irp) = [buf EXCEPT !.list = l, !.flags = f]
    <2>1. FillBulk(buf, irp) = [buf EXCEPT !.list = l,
                                           !.flags.zero_len_packet = ep_char.is_in /\ irp.zero_pack]
      BY DEF FillBulk
    <2> HIDE DEF l
    <2> QED BY <2>1
  <1> HIDE DEF d0, d1
  <1>5. DOMAIN l = 0 .. 1 /\ l[0] = d0 /\ l[1] = d1
    BY <1>1
  <1>6. DOMAIN f = FlagFields /\ (f.zero_len_packet => ep_char.is_in)
    BY DEF Shape, FlagFields
  <1> HIDE DEF l, f
  <1>7. /\ DOMAIN new = BufFields /\ new.state = "filled" /\ new.irp = irp /\ new.list = l /\ new.flags = f
        /\ new.moved = buf.moved
    BY <1>4 DEF Shape, BufFields, Taken
  <1>8. Shape(new)
    BY <1>2, <1>3, <1>5, <1>6, <1>7 DEF Shape, ListLen, XFER_LIST_LEN_BULK
  <1>9. BulkHolds(ep_char, new)
    BY <1>2, <1>5, <1>6, <1>7 DEF BulkHolds
  <1> QED BY <1>7, <1>8, <1>9 DEF Holds

\* How many packets of m bytes it takes for b bytes.
LEMMA Division ==
    ASSUME NEW m \in Nat \ {0}, NEW b \in 1 .. 32 * m, NEW n, n = (b + m - 1) \div m
    PROVE  n \in 1 .. 32 /\ (n - 1) * m < b /\ b <= n * m
  <1> DEFINE x == b + m - 1
             q == x \div m
  <1>1. x \in Nat /\ m > 0
    OBVIOUS
  <1> HIDE DEF x
  <1>2. q \in Nat /\ q * m <= x /\ x < (q + 1) * m
    BY <1>1
  <1>3. q = n
    BY DEF x
  <1> HIDE DEF q
  <1>4. (q - 1) * m = q * m - m /\ (q + 1) * m = q * m + m /\ q * m \in Int
    BY <1>2
  <1>5. (q - 1) * m < b /\ b <= q * m
    BY <1>1, <1>2, <1>4 DEF x
  <1>6. q # 0
    BY <1>5
  <1>7. q - 1 < 32
    BY <1>2, <1>5
  <1> QED BY <1>2, <1>3, <1>5, <1>6, <1>7

\* A transfer with no short packet is a multiple.
LEMMA WholePackets ==
    ASSUME NEW m \in Nat \ {0}, NEW b \in Nat, NEW n \in Nat, (n - 1) * m < b, b <= n * m, b % m = 0
    PROVE  b = n * m
  <1> DEFINE q == b \div m
  <1>1. q \in Int /\ b = q * m
    OBVIOUS
  <1> HIDE DEF q
  <1>2. n - 1 < q
    BY <1>1
  <1>3. q <= n
    BY <1>1
  <1> QED BY <1>1, <1>2, <1>3

\* An interrupt request fills a descriptor for each packet (_buffer_fill_intr).
LEMMA IntrFilled ==
    ASSUME ep_char.type = "INTR", ep_char.is_in \in BOOLEAN, ep_char.mps \in Nat \ {0},
           NEW buf, Shape(buf),
           NEW irp \in Request_t, Fits(irp), NEW new, new = Taken(FillIntr(buf, irp), irp)
    PROVE  Shape(new) /\ new.state = "filled" /\ (buf.moved = << >> => Holds(ep_char, new))
  <1> DEFINE mps == ep_char.mps
             is_in == ep_char.is_in
             nb == irp.num_bytes
             n == (nb + mps - 1) \div mps
             At(i) == IF i < n - 1 THEN Desc(i * mps, mps, InFlag(is_in))
                      ELSE Desc(i * mps, nb - i * mps, InFlag(is_in) \union {"HOC"})
             l == [i \in DOMAIN buf.list |-> IF i < n THEN At(i) ELSE buf.list[i]]
             f == [buf.flags EXCEPT !.num_qtds = n]
  <1>1. /\ nb \in 0 .. 32 * mps /\ (is_in => nb % mps = 0) /\ mps \in Nat /\ mps # 0
        /\ Empty(irp) <=> nb = 0
    <2>1. irp.type = "INTR" /\ nb \in Nat
      BY DEF Fits, Request_t
    <2>2. nb <= 32 * mps /\ (is_in => nb % mps = 0)
      BY <2>1 DEF Fits, XFER_LIST_LEN_INTR
    <2>3. Empty(irp) <=> nb = 0
      BY <2>1 DEF Empty
    <2> QED BY <2>1, <2>2, <2>3
  <1>2. FillIntr(buf, irp) = [buf EXCEPT !.list = l, !.flags.num_qtds = n]
    BY DEF FillIntr
  <1> HIDE DEF mps, nb
  <1>3. /\ nb = 0 => n = 0
        /\ nb # 0 => n \in 1 .. 32 /\ (n - 1) * mps < nb /\ nb <= n * mps
    <2>1. n = (nb + mps - 1) \div mps /\ mps \in Nat \ {0}
      BY <1>1
    <2> HIDE DEF n
    <2>2. ASSUME nb = 0 PROVE n = 0
      BY ONLY <2>1, <2>2
    <2>3. ASSUME nb # 0 PROVE n \in 1 .. 32 /\ (n - 1) * mps < nb /\ nb <= n * mps
      <3>1. nb \in 1 .. 32 * mps
        <4> DEFINE all == 32 * mps
        <4>1. nb \in 0 .. all /\ all \in Nat
          BY ONLY <1>1
        <4> HIDE DEF all
        <4> QED BY ONLY <2>3, <4>1 DEF all
      <3> QED BY ONLY <2>1, <3>1, Division
    <2> QED BY ONLY <2>2, <2>3
  <1> HIDE DEF n
  <1>4. ASSUME is_in, nb # 0 PROVE nb = n * mps
    <2>1. /\ nb \in Nat /\ mps \in Nat \ {0} /\ nb % mps = 0
          /\ n \in Nat /\ (n - 1) * mps < nb /\ nb <= n * mps
      <3>1. nb \in Nat /\ n \in Nat
        BY ONLY <1>1, <1>3
      <3> QED BY ONLY <1>1, <1>3, <1>4, <3>1
    <2> QED BY ONLY <2>1, WholePackets
  <1>5. ASSUME NEW k \in 1 .. 32
        PROVE  /\ DOMAIN At(k - 1) = DescFields
               /\ k <= n => /\ Describes(At(k - 1), (k - 1) * mps, PacketLen(k, n, mps, nb), is_in)
                            /\ At(k - 1).hoc <=> k = n
    <2> DEFINE i == k - 1
               d == At(i)
    <2>1. CASE i < n - 1
      <3> DEFINE F == InFlag(is_in)
      <3>1. d = Desc(i * mps, mps, F)
        BY <2>1
      <3>2. ("IN" \in F <=> is_in) /\ "HOC" \notin F
        BY DEF InFlag
      <3>3. k < n /\ PacketLen(k, n, mps, nb) = mps
        BY <1>3, <2>1 DEF PacketLen
      <3>4. /\ DOMAIN d = DescFields /\ Describes(d, i * mps, mps, is_in) /\ ~d.hoc
        <4> DEFINE off == i * mps
        <4> HIDE DEF d, F, i, off
        <4> QED BY <3>1, <3>2, DescIs DEF Describes, off
      <3> HIDE DEF d
      <3> QED BY <1>3, <3>3, <3>4 DEF d
    <2>2. CASE ~(i < n - 1)
      <3> DEFINE F == InFlag(is_in) \union {"HOC"}
                 off == i * mps
                 len == nb - i * mps
      <3>1. d = Desc(off, len, F)
        BY <2>2
      <3>2. ("IN" \in F <=> is_in) /\ "HOC" \in F
        BY DEF InFlag
      <3>3. k <= n => k = n /\ PacketLen(k, n, mps, nb) = len
        BY <1>3, <2>2 DEF PacketLen
      <3>4. DOMAIN d = DescFields /\ Describes(d, off, len, is_in) /\ d.hoc
        <4> HIDE DEF d, F, off, len
        <4> QED BY <3>1, <3>2, DescIs DEF Describes
      <3> HIDE DEF d, len
      <3> QED BY <3>3, <3>4 DEF d
    <2> QED BY <2>1, <2>2
  <1> HIDE DEF At
  <1>6. DOMAIN buf.list = 0 .. 31 /\ \A k \in 0 .. 31 : DOMAIN buf.list[k] = DescFields
    BY DEF Shape, ListLen, XFER_LIST_LEN_INTR
  <1>7. DOMAIN l = 0 .. 31 /\ \A k \in 0 .. 31 : l[k] = IF k < n THEN At(k) ELSE buf.list[k]
    BY <1>6
  <1>8. DOMAIN f = FlagFields /\ f.num_qtds = n
    BY DEF Shape, FlagFields
  <1>9. FillIntr(buf, irp) = [buf EXCEPT !.list = l, !.flags = f]
    BY <1>2
  <1> HIDE DEF l, f
  <1>10. /\ DOMAIN new = BufFields /\ new.state = "filled" /\ new.irp = irp /\ new.list = l /\ new.flags = f
         /\ new.moved = buf.moved
    BY <1>9 DEF Shape, BufFields, Taken
  <1>11. \A k \in 0 .. 31 : DOMAIN l[k] = DescFields
    <2> SUFFICES ASSUME NEW k \in 0 .. 31 PROVE DOMAIN l[k] = DescFields
      OBVIOUS
    <2>1. k + 1 \in 1 .. 32 /\ (k + 1) - 1 = k
      OBVIOUS
    <2> QED BY <1>5, <1>6, <1>7, <2>1
  <1>12. Shape(new)
    BY <1>7, <1>8, <1>10, <1>11 DEF Shape, ListLen, XFER_LIST_LEN_INTR
  <1>13. ASSUME NEW k \in 1 .. n
         PROVE  /\ Describes(l[k - 1], (k - 1) * mps, PacketLen(k, n, mps, nb), is_in)
                /\ l[k - 1].hoc <=> k = n
    <2>1. k \in 1 .. 32 /\ k <= n /\ k - 1 \in 0 .. 31 /\ k - 1 < n
      BY <1>3
    <2> QED BY <1>5, <1>7, <2>1
  <1>14. ASSUME ~Empty(irp) PROVE IntrHolds(ep_char, new)
    <2>1. mps > 0 /\ nb # 0
      BY <1>1, <1>14
    <2> QED BY <1>3, <1>4, <1>8, <1>10, <1>13, <2>1 DEF IntrHolds, mps, nb
  <1> QED BY <1>10, <1>12, <1>14 DEF Holds

\* The frame of packet k.
LEMMA FrameOfPacket ==
    ASSUME NEW i \in Intervals, NEW start \in 0 .. 31, NEW n \in Nat, n * i \in 1 .. 32, NEW k \in 1 .. n
    PROVE  /\ (start + (k - 1) * i) % 32 \in 0 .. 31
           /\ (k - 1) * i \in Nat /\ (k - 1) * i < n * i
           /\ Behind(start, (start + (k - 1) * i) % 32) = (k - 1) * i
  <1> DEFINE d == (k - 1) * i
  <1>1. d \in 0 .. 31 /\ d < n * i
    BY DEF Intervals
  <1> HIDE DEF d
  <1>2. (start + d) % 32 \in 0 .. 31 /\ Behind(start, (start + d) % 32) = d
    BY <1>1 DEF Behind, XFER_LIST_LEN_ISOC
  <1>3. /\ (start + d) % 32 \in 0 .. 31 /\ d \in Nat /\ d < n * i
        /\ Behind(start, (start + d) % 32) = d
    BY <1>1, <1>2
  <1> QED BY <1>3, Zenon DEF d

\* An isochronous request that has been filled.
LEMMA IsocHeld ==
    ASSUME ep_char.type = "ISOCHRONOUS", ep_char.interval \in Intervals, ep_char.is_in \in BOOLEAN,
           NEW buf, Shape(buf), buf.moved = << >>,
           NEW irp \in Request_t, Fits(irp), NEW start \in 0 .. 31,
           NEW new, new = Taken(FillIsoc(buf, irp, start), irp)
    PROVE  Holds(ep_char, new)
  <1> DEFINE n == Len(irp.packets)
             i == ep_char.interval
             is_in == ep_char.is_in
             At(k) == Desc(Total(irp.packets)[k - 1], irp.packets[k],
                           InFlag(is_in) \union IF k = n THEN {"HOC"} ELSE {})
             l == [k \in DOMAIN buf.list |->
                      IF Behind(start, k) >= n * i THEN buf.list[k]
                      ELSE IF Behind(start, k) % i # 0 THEN NoDesc
                      ELSE At(Behind(start, k) \div i + 1)]
             f == [buf.flags EXCEPT !.num_qtds = n * i, !.irp_start_idx = start,
                                    !.next_irp_start_idx = (start + n * i) % XFER_LIST_LEN_ISOC]
  <1>1. FillIsoc(buf, irp, start) = [buf EXCEPT !.list = l, !.flags = f]
    BY DEF FillIsoc
  <1>2. n \in Nat /\ n * i \in Nat /\ (n # 0 => n * i \in 1 .. 32)
    <2>1. irp.packets \in Seq(Nat) /\ n \in Nat
      BY DEF Request_t
    <2>2. n * i <= 32 /\ i \in Intervals
      BY <2>1 DEF Fits, XFER_LIST_LEN_ISOC
    <2> HIDE DEF n, i
    <2> QED BY ONLY <2>1, <2>2, TakesFrames
  <1>3. DOMAIN buf.list = 0 .. 31
    BY DEF Shape, ListLen, XFER_LIST_LEN_ISOC
  <1>4. ASSUME NEW k
        PROVE  Describes(At(k), Total(irp.packets)[k - 1], irp.packets[k], is_in)
    <2> DEFINE F == InFlag(is_in) \union IF k = n THEN {"HOC"} ELSE {}
               off == Total(irp.packets)[k - 1]
               len == irp.packets[k]
    <2>1. "IN" \in F <=> is_in
      BY DEF InFlag
    <2>2. At(k) = Desc(off, len, F)
      OBVIOUS
    <2> HIDE DEF F, off, len, At
    <2> QED BY <2>1, <2>2, DescIs DEF Describes, off, len
  <1> HIDE DEF At
  <1>5. ASSUME NEW k \in 1 .. n
        PROVE  l[(start + (k - 1) * i) % 32] = At(k)
    <2>0. n * i \in 1 .. 32
      <3>1. n # 0
        BY <1>2
      <3> HIDE DEF n, i
      <3> QED BY ONLY <1>2, <3>1
    <2> DEFINE x == (start + (k - 1) * i) % 32
               d == Behind(start, x)
    <2>1. x \in 0 .. 31 /\ (k - 1) * i \in Nat /\ (k - 1) * i < n * i /\ d = (k - 1) * i
      <3> HIDE DEF n
      <3> QED BY <1>2, <2>0, FrameOfPacket
    <2>2. k \in Nat \ {0}
      BY <1>2
    <2> HIDE DEF x
    <2>3. l[x] = IF d >= n * i THEN buf.list[x] ELSE IF d % i # 0 THEN NoDesc ELSE At(d \div i + 1)
      BY <1>3, <2>1
    <2> HIDE DEF l, d
    <2>4. d % i = 0 /\ d \div i + 1 = k
      <3>1. i \in Intervals /\ d \in Nat
        BY <2>1
      <3> HIDE DEF n, i
      <3> QED BY <2>1, <2>2, <3>1, WhichPacket
    <2>5. ~(d >= n * i)
      <3> DEFINE a == (k - 1) * i
                 b == n * i
      <3>1. a \in Nat /\ b \in 1 .. 32 /\ a < b /\ d = a
        BY <2>0, <2>1
      <3> HIDE DEF a, b
      <3>2. ~(d >= b)
        BY <3>1
      <3> QED BY <3>2 DEF b
    <2> QED BY <2>3, <2>4, <2>5 DEF x
  <1>6. f.irp_start_idx = start
    BY DEF Shape, FlagFields
  <1> HIDE DEF l, f
  <1>7. new.irp = irp /\ new.list = l /\ new.flags = f /\ new.moved = << >>
    BY <1>1 DEF Shape, BufFields, Taken
  <1>8. IsocHolds(ep_char, new)
    BY <1>4, <1>5, <1>6, <1>7 DEF IsocHolds
  <1> QED BY <1>7, <1>8 DEF Holds

-----------------------------------------------------------------------------
(* The invariant *)

IsFilled(b) == buffers[b].state = "filled"

\* The filled buffers are the next to be executed and the one behind it.
RingOK ==
    /\ DOMAIN buffers = Buf /\ wr_idx \in Buf /\ rd_idx \in Buf /\ fr_idx \in Buf
    /\ \A b \in Buf : Shape(buffers[b])
    /\ ~IsFilled(rd_idx) => ~IsFilled(1 - rd_idx)
    /\ wr_idx = rd_idx <=> (IsFilled(rd_idx) <=> IsFilled(1 - rd_idx))
    /\ chan.active => IsFilled(rd_idx)

\* The channel runs the current stage of the buffer at rd_idx, the way that it goes.
ChanOK ==
    chan.active =>
        LET buf == buffers[rd_idx] IN
        /\ chan.start = buf.flags.cur_stg /\ chan.len = 3 /\ chan.dir_in \in BOOLEAN
        /\ chan.dir_in <=> buf.list[buf.flags.cur_stg].in
        /\ chan.pid = 0 <=> buf.flags.cur_stg = 0

CtrlOK ==
    ep_char.type = "CTRL" =>
        /\ \A b \in Buf : IsFilled(b) =>
              /\ StagesInPlace(buffers[b].irp, buffers[b].list, buffers[b].flags)
              /\ ~(b = rd_idx /\ chan.active) => buffers[b].flags.cur_stg = 0
        /\ ChanOK

StreamOK ==
    ep_char.type = "ISOCHRONOUS" =>
        /\ \A b \in Buf : IsFilled(b) =>
              PacketsInSchedule(buffers[b].irp, buffers[b].list, buffers[b].flags)
        /\ IsFilled(rd_idx) /\ IsFilled(1 - rd_idx) =>
              buffers[1 - rd_idx].flags.irp_start_idx = buffers[rd_idx].flags.next_irp_start_idx

ListInv == EpOK /\ RingOK /\ CtrlOK /\ StreamOK

\* The other buffer.
LEMMA OtherBuffer == \A b \in Buf : 1 - b \in Buf /\ 1 - b # b /\ 1 - (1 - b) = b /\ \A c \in Buf : c = b \/ c = 1 - b
  BY DEF Buf

\* Where the next request of a stream begins.
LEMMA NextScheduled ==
    ASSUME EpOK, ep_char.type = "ISOCHRONOUS", NEW irp, NEW list, NEW flags, PacketsInSchedule(irp, list, flags)
    PROVE  /\ flags.next_irp_start_idx \in 0 .. 31
           /\ flags.next_irp_start_idx % ep_char.interval = ep_char.phase_offset_frames % ep_char.interval
  <1> DEFINE i == ep_char.interval
             n == Len(irp.packets)
             start == flags.irp_start_idx
  <1>1. i \in Intervals /\ n \in Nat /\ start \in 0 .. 31
    BY DEF EpOK, PacketsInSchedule, Request_t
  <1>2. /\ start % i = ep_char.phase_offset_frames % i
        /\ flags.next_irp_start_idx = (start + n * i) % 32
    BY DEF PacketsInSchedule
  <1> HIDE DEF n, start, i
  <1>3. (start + n * i) % 32 \in 0 .. 31 /\ ((start + n * i) % 32) % i = start % i
    BY <1>1, FrameScheduled
  <1> QED BY <1>2, <1>3 DEF i

\* The request that is filled: what becomes of the buffer at wr_idx.
LEMMA FilledAtWr ==
    ASSUME ListInv, Fill
    PROVE  \E new :
              /\ buffers' = [buffers EXCEPT ![wr_idx] = new]
              /\ Shape(new) /\ new.state = "filled"
              /\ buffers[wr_idx].moved = << >> => Holds(ep_char, new)
              /\ ep_char.type = "CTRL" =>
                    StagesInPlace(new.irp, new.list, new.flags) /\ new.flags.cur_stg = 0
              /\ ep_char.type = "ISOCHRONOUS" =>
                    /\ PacketsInSchedule(new.irp, new.list, new.flags)
                    /\ IsFilled(1 - wr_idx) =>
                          new.flags.irp_start_idx = buffers[1 - wr_idx].flags.next_irp_start_idx
  <1>1. PICK irp \in Request, at \in StartIndexes :
            /\ Fits(irp)
            /\ buffers' = [buffers EXCEPT ![wr_idx] =
                  Taken(FilledWith(buffers[wr_idx], irp, at.start), irp)]
    BY DEF Fill, Taken
  <1>2. irp \in Request_t /\ Shape(buffers[wr_idx]) /\ wr_idx \in Buf /\ ~IsFilled(wr_idx)
    BY TransferAssumption DEF ListInv, RingOK, Fill, IsFilled
  <1> DEFINE buf == buffers[wr_idx]
             new == Taken(FilledWith(buf, irp, at.start), irp)
  <1>3. CASE ep_char.type = "CTRL"
    <2>1. new = Taken(FillCtrl(buf, irp), irp)
      BY <1>3 DEF FilledWith
    <2> HIDE DEF buf, new
    <2>2. /\ Shape(new) /\ new.state = "filled"
          /\ StagesInPlace(new.irp, new.list, new.flags) /\ new.flags.cur_stg = 0
      BY <1>2, <1>3, <2>1, CtrlFilled DEF buf
    <2>3. buffers' = [buffers EXCEPT ![wr_idx] = new]
      BY <1>1 DEF new, buf
    <2>4. buf.moved = << >> => Holds(ep_char, new)
      BY <1>2, <1>3, <2>1, CtrlHeld DEF buf
    <2> QED BY <1>3, <2>2, <2>3, <2>4 DEF buf
  <1>4. CASE ep_char.type = "ISOCHRONOUS"
    <2>1. new = Taken(FillIsoc(buf, irp, at.start), irp)
      BY <1>4 DEF FilledWith
    <2>2. PICK f \in FrameNum : at.start = StartIdx(f)
      BY <1>4 DEF StartIndexes
    <2>3. ep_char.interval \in Intervals /\ ep_char.phase_offset_frames \in 0 .. 31 /\ f \in Nat
      BY <1>4, TransferAssumption DEF ListInv, EpOK
    <2>4. /\ at.start \in 0 .. 31
          /\ at.start % ep_char.interval = ep_char.phase_offset_frames % ep_char.interval
          /\ IsFilled(1 - wr_idx) => at.start = buffers[1 - wr_idx].flags.next_irp_start_idx
      <3>1. CASE NothingToExec
        <4>1. ~IsFilled(1 - wr_idx)
          BY <1>2, <3>1, OtherBuffer DEF NothingToExec, IsFilled
        <4> QED BY <2>2, <2>3, <3>1, <4>1, FreshStartScheduled DEF StartIdx
      <3>2. CASE ~NothingToExec
        <4>1. IsFilled(1 - wr_idx) /\ 1 - wr_idx \in Buf
          BY <1>2, <3>2, OtherBuffer DEF NothingToExec, IsFilled
        <4>2. PacketsInSchedule(buffers[1 - wr_idx].irp, buffers[1 - wr_idx].list, buffers[1 - wr_idx].flags)
          BY <1>4, <4>1 DEF ListInv, StreamOK
        <4>3. at.start = buffers[1 - wr_idx].flags.next_irp_start_idx
          BY <2>2, <3>2 DEF StartIdx
        <4> QED BY <1>4, <4>2, <4>3, NextScheduled DEF ListInv
      <3> QED BY <3>1, <3>2
    <2> HIDE DEF buf, new
    <2>5. /\ Shape(new) /\ new.state = "filled" /\ PacketsInSchedule(new.irp, new.list, new.flags)
          /\ new.flags.irp_start_idx = at.start
      <3>1. Shape(buf) /\ irp \in Request_t /\ Fits(irp) /\ at.start \in 0 .. 31
        BY <1>1, <1>2, <2>4 DEF buf
      <3>2. ASSUME NEW start, start = at.start
            PROVE  /\ Shape(new) /\ new.state = "filled" /\ PacketsInSchedule(new.irp, new.list, new.flags)
                   /\ new.flags.irp_start_idx = start
        <4>1. /\ start \in 0 .. 31 /\ new = Taken(FillIsoc(buf, irp, start), irp)
              /\ InPhase(start)
          BY <2>1, <2>4, <3>1, <3>2 DEF InPhase
        <4>2. ep_char.interval \in Intervals
          BY <2>3
        <4>3. Shape(buf) /\ irp \in Request_t /\ Fits(irp)
          BY <3>1
        <4> HIDE DEF new
        <4> QED BY ONLY <1>4, <4>1, <4>2, <4>3, IsocFilled, SMTT(20)
      <3> QED BY <3>2
    <2>6. buffers' = [buffers EXCEPT ![wr_idx] = new]
      BY <1>1 DEF new, buf
    <2>7. ASSUME buf.moved = << >> PROVE Holds(ep_char, new)
      <3>1. Shape(buf) /\ irp \in Request_t /\ Fits(irp) /\ ep_char.is_in \in BOOLEAN
        BY <1>1, <1>2 DEF buf, ListInv, EpOK
      <3>2. ASSUME NEW start, start = at.start PROVE Holds(ep_char, new)
        <4>1. start \in 0 .. 31 /\ new = Taken(FillIsoc(buf, irp, start), irp)
          BY <2>1, <2>4, <3>2
        <4>2. ep_char.interval \in Intervals
          BY <2>3
        <4> QED BY ONLY <1>4, <2>7, <3>1, <4>1, <4>2, IsocHeld, SMTT(40)
      <3> QED BY <3>2
    <2> QED BY <1>4, <2>4, <2>5, <2>6, <2>7 DEF buf
  <1>5. CASE ep_char.type = "BULK"
    <2>1. new = Taken(FillBulk(buf, irp), irp)
      BY <1>5 DEF FilledWith
    <2>2. buffers' = [buffers EXCEPT ![wr_idx] = new]
      BY <1>1
    <2>3. Shape(buf) /\ irp \in Request_t /\ ep_char.is_in \in BOOLEAN
      BY <1>2 DEF ListInv, EpOK
    <2> HIDE DEF buf, new
    <2>4. Shape(new) /\ new.state = "filled" /\ (buf.moved = << >> => Holds(ep_char, new))
      BY ONLY <1>5, <2>1, <2>3, BulkFilled
    <2> QED BY <1>5, <2>2, <2>4 DEF buf
  <1>6. CASE ep_char.type = "INTR"
    <2>1. new = Taken(FillIntr(buf, irp), irp)
      BY <1>6 DEF FilledWith
    <2>2. buffers' = [buffers EXCEPT ![wr_idx] = new]
      BY <1>1
    <2>3. /\ Shape(buf) /\ irp \in Request_t /\ Fits(irp)
          /\ ep_char.is_in \in BOOLEAN /\ ep_char.mps \in Nat \ {0}
      BY <1>1, <1>2, <1>6 DEF ListInv, EpOK
    <2> HIDE DEF buf, new
    <2>4. Shape(new) /\ new.state = "filled" /\ (buf.moved = << >> => Holds(ep_char, new))
      BY ONLY <1>6, <2>1, <2>3, IntrFilled
    <2> QED BY <1>6, <2>2, <2>4 DEF buf
  <1> QED BY <1>3, <1>4, <1>5, <1>6 DEF ListInv, EpOK, TransferType

\* A buffer changes.
LEMMA OneBuffer ==
    ASSUME RingOK, NEW x \in Buf, NEW new, buffers' = [buffers EXCEPT ![x] = new], Shape(new)
    PROVE  /\ DOMAIN buffers' = Buf /\ buffers'[x] = new
           /\ \A b \in Buf : b # x => buffers'[b] = buffers[b]
           /\ \A b \in Buf : Shape(buffers'[b])
  <1>1. /\ DOMAIN buffers' = Buf /\ buffers'[x] = new
        /\ \A b \in Buf : b # x => buffers'[b] = buffers[b]
    BY DEF RingOK
  <1> QED BY <1>1 DEF RingOK

\* What the ring must be after the step.
LEMMA RingNext ==
    ASSUME ep_char' = ep_char, DOMAIN buffers' = Buf, wr_idx' \in Buf, rd_idx' \in Buf, fr_idx' \in Buf,
           \A b \in Buf : Shape(buffers'[b]),
           buffers'[rd_idx'].state # "filled" => buffers'[1 - rd_idx'].state # "filled",
           wr_idx' = rd_idx' <=> (buffers'[rd_idx'].state = "filled" <=> buffers'[1 - rd_idx'].state = "filled"),
           chan'.active => buffers'[rd_idx'].state = "filled"
    PROVE  RingOK'
  BY DEF RingOK, IsFilled, Shape

\* _buffer_fill
LEMMA FillKeeps == ListInv /\ Fill => RingOK' /\ CtrlOK' /\ StreamOK'
  <1> SUFFICES ASSUME ListInv, Fill PROVE RingOK' /\ CtrlOK' /\ StreamOK'
    OBVIOUS
  <1>1. PICK new :
            /\ buffers' = [buffers EXCEPT ![wr_idx] = new]
            /\ Shape(new) /\ new.state = "filled"
            /\ buffers[wr_idx].moved = << >> => Holds(ep_char, new)
            /\ ep_char.type = "CTRL" =>
                  StagesInPlace(new.irp, new.list, new.flags) /\ new.flags.cur_stg = 0
            /\ ep_char.type = "ISOCHRONOUS" =>
                  /\ PacketsInSchedule(new.irp, new.list, new.flags)
                  /\ IsFilled(1 - wr_idx) =>
                        new.flags.irp_start_idx = buffers[1 - wr_idx].flags.next_irp_start_idx
    BY FilledAtWr
  <1>2. /\ wr_idx' = 1 - wr_idx /\ UNCHANGED <<ep_char, rd_idx, fr_idx, chan>>
        /\ ~IsFilled(wr_idx)
    BY DEF Fill, IsFilled
  <1>3. RingOK /\ wr_idx \in Buf /\ rd_idx \in Buf /\ fr_idx \in Buf
    BY DEF ListInv, RingOK
  <1>4. /\ DOMAIN buffers' = Buf /\ buffers'[wr_idx] = new
        /\ \A b \in Buf : b # wr_idx => buffers'[b] = buffers[b]
        /\ \A b \in Buf : Shape(buffers'[b])
    BY <1>1, <1>3, OneBuffer
  <1>5. /\ wr_idx = rd_idx => ~IsFilled(1 - rd_idx) /\ ~IsFilled(rd_idx) /\ ~chan.active
        /\ wr_idx # rd_idx => wr_idx = 1 - rd_idx /\ rd_idx = 1 - wr_idx /\ IsFilled(rd_idx)
    BY <1>2, <1>3, OtherBuffer DEF RingOK
  <1>6. RingOK'
    <2>1. wr_idx' \in Buf /\ rd_idx' \in Buf /\ fr_idx' \in Buf /\ 1 - rd_idx \in Buf
      BY <1>2, <1>3, OtherBuffer
    <2>2. buffers'[rd_idx].state = "filled"
      BY <1>1, <1>3, <1>4, <1>5 DEF IsFilled
    <2>3. wr_idx' = rd_idx <=> buffers'[1 - rd_idx].state = "filled"
      <3>1. CASE wr_idx = rd_idx
        BY <1>2, <1>3, <1>4, <1>5, <2>1, <3>1, OtherBuffer DEF IsFilled
      <3>2. CASE wr_idx # rd_idx
        BY <1>1, <1>2, <1>4, <1>5, <3>2
      <3> QED BY <3>1, <3>2
    <2> QED BY <1>2, <1>4, <2>1, <2>2, <2>3, RingNext
  <1>7. CtrlOK'
    <2> SUFFICES ASSUME ep_char.type = "CTRL"
                 PROVE  /\ \A b \in Buf : buffers'[b].state = "filled" =>
                              /\ StagesInPlace(buffers'[b].irp, buffers'[b].list, buffers'[b].flags)
                              /\ ~(b = rd_idx /\ chan.active) => buffers'[b].flags.cur_stg = 0
                        /\ ChanOK'
      BY <1>2 DEF CtrlOK, IsFilled, StagesInPlace
    <2>1. /\ \A b \in Buf : buffers[b].state = "filled" =>
                /\ StagesInPlace(buffers[b].irp, buffers[b].list, buffers[b].flags)
                /\ ~(b = rd_idx /\ chan.active) => buffers[b].flags.cur_stg = 0
          /\ ChanOK
      BY DEF ListInv, CtrlOK, IsFilled
    <2>2. ChanOK'
      BY <1>2, <1>3, <1>4, <1>5, <2>1 DEF ChanOK
    <2> QED BY <1>1, <1>4, <2>1, <2>2
  <1>8. StreamOK'
    <2> SUFFICES ASSUME ep_char.type = "ISOCHRONOUS"
                 PROVE  /\ \A b \in Buf : buffers'[b].state = "filled" =>
                              PacketsInSchedule(buffers'[b].irp, buffers'[b].list, buffers'[b].flags)
                        /\ buffers'[1 - rd_idx].state = "filled" =>
                              buffers'[1 - rd_idx].flags.irp_start_idx = buffers'[rd_idx].flags.next_irp_start_idx
      BY <1>2 DEF StreamOK, PacketsInSchedule, InPlace, IsFilled
    <2>1. \A b \in Buf : buffers[b].state = "filled" =>
              PacketsInSchedule(buffers[b].irp, buffers[b].list, buffers[b].flags)
      BY DEF ListInv, StreamOK, IsFilled
    <2>2. \A b \in Buf : buffers'[b].state = "filled" =>
              PacketsInSchedule(buffers'[b].irp, buffers'[b].list, buffers'[b].flags)
      BY <1>1, <1>4, <2>1
    <2>3. ASSUME buffers'[1 - rd_idx].state = "filled"
          PROVE  buffers'[1 - rd_idx].flags.irp_start_idx = buffers'[rd_idx].flags.next_irp_start_idx
      <3>1. wr_idx # rd_idx
        BY <1>3, <1>4, <1>5, <2>3, OtherBuffer DEF IsFilled
      <3> QED BY <1>1, <1>3, <1>4, <1>5, <3>1
    <2> QED BY <2>2, <2>3
  <1> QED BY <1>6, <1>7, <1>8

\* The parts about the buffers that stay filled: they are as they were, and none follows
\* another that did not.
LEMMA StayFilled ==
    ASSUME ListInv, ep_char' = ep_char, ~chan'.active, rd_idx' \in Buf,
           \A b \in Buf : buffers'[b].state = "filled" =>
              buffers'[b] = buffers[b] /\ ~(b = rd_idx /\ chan.active),
           buffers'[rd_idx'].state = "filled" /\ buffers'[1 - rd_idx'].state = "filled" => rd_idx' = rd_idx
    PROVE  CtrlOK' /\ StreamOK'
  <1>1. ChanOK'
    BY DEF ChanOK
  <1>2. CtrlOK'
    <2> SUFFICES ASSUME ep_char.type = "CTRL", NEW b \in Buf, buffers'[b].state = "filled"
                 PROVE  StagesInPlace(buffers'[b].irp, buffers'[b].list, buffers'[b].flags)
                        /\ buffers'[b].flags.cur_stg = 0
      BY <1>1 DEF CtrlOK, IsFilled, StagesInPlace
    <2> QED BY DEF ListInv, CtrlOK, IsFilled
  <1>3. StreamOK'
    <2> SUFFICES ASSUME ep_char.type = "ISOCHRONOUS"
                 PROVE  /\ \A b \in Buf : buffers'[b].state = "filled" =>
                              PacketsInSchedule(buffers'[b].irp, buffers'[b].list, buffers'[b].flags)
                        /\ buffers'[rd_idx'].state = "filled" /\ buffers'[1 - rd_idx'].state = "filled" =>
                              buffers'[1 - rd_idx'].flags.irp_start_idx
                                  = buffers'[rd_idx'].flags.next_irp_start_idx
      BY DEF StreamOK, PacketsInSchedule, InPlace, IsFilled
    <2>1. \A b \in Buf : buffers[b].state = "filled" =>
              PacketsInSchedule(buffers[b].irp, buffers[b].list, buffers[b].flags)
      BY DEF ListInv, StreamOK, IsFilled
    <2>2. buffers[rd_idx].state = "filled" /\ buffers[1 - rd_idx].state = "filled" =>
              buffers[1 - rd_idx].flags.irp_start_idx = buffers[rd_idx].flags.next_irp_start_idx
      BY DEF ListInv, StreamOK, IsFilled
    <2>3. 1 - rd_idx' \in Buf
      BY OtherBuffer
    <2> QED BY <2>1, <2>2, <2>3
  <1> QED BY <1>2, <1>3

\* The buffer at rd_idx ends (_buffer_done, _buffer_done_error).
LEMMA BufferEnds ==
    ASSUME ListInv, IsFilled(rd_idx), NEW new, buffers' = [buffers EXCEPT ![rd_idx] = new], Shape(new),
           new.state # "filled", ~chan'.active, rd_idx' = 1 - rd_idx, UNCHANGED <<ep_char, wr_idx, fr_idx>>
    PROVE  RingOK' /\ CtrlOK' /\ StreamOK'
  <1>1. RingOK /\ wr_idx \in Buf /\ rd_idx \in Buf /\ fr_idx \in Buf
    BY DEF ListInv, RingOK
  <1>2. /\ DOMAIN buffers' = Buf /\ buffers'[rd_idx] = new
        /\ \A b \in Buf : b # rd_idx => buffers'[b] = buffers[b]
        /\ \A b \in Buf : Shape(buffers'[b])
    BY <1>1, OneBuffer
  <1>3. 1 - rd_idx \in Buf /\ 1 - rd_idx # rd_idx /\ 1 - (1 - rd_idx) = rd_idx
    BY <1>1, OtherBuffer
  <1>4. wr_idx = 1 - rd_idx <=> ~IsFilled(1 - rd_idx)
    BY <1>1, <1>3, OtherBuffer DEF RingOK
  <1>5. RingOK'
    <2>1. wr_idx' \in Buf /\ rd_idx' \in Buf /\ fr_idx' \in Buf
      BY <1>1, <1>3
    <2>2. buffers'[1 - rd_idx'].state # "filled"
      BY <1>2, <1>3
    <2>3. wr_idx' = rd_idx' <=> ~(buffers'[rd_idx'].state = "filled")
      BY <1>2, <1>3, <1>4 DEF IsFilled
    <2> QED BY <1>2, <2>1, <2>2, <2>3, RingNext
  <1>6. \A b \in Buf : buffers'[b].state = "filled" => buffers'[b] = buffers[b] /\ b # rd_idx
    BY <1>2
  <1>7. buffers'[1 - rd_idx'].state # "filled"
    BY <1>2, <1>3
  <1>8. CtrlOK' /\ StreamOK'
    BY <1>3, <1>6, <1>7, StayFilled
  <1> QED BY <1>5, <1>8

\* A buffer that has a state, and nothing else, of its own.
LEMMA ShapeKept ==
    ASSUME NEW buf, Shape(buf), NEW v
    PROVE  Shape([buf EXCEPT !.state = v]) /\ [buf EXCEPT !.state = v].state = v
  BY DEF Shape, BufFields

\* _buffer_done_error
LEMMA FailKeeps == ListInv /\ Fail => RingOK' /\ CtrlOK' /\ StreamOK'
  <1> SUFFICES ASSUME ListInv, Fail PROVE RingOK' /\ CtrlOK' /\ StreamOK'
    OBVIOUS
  <1> DEFINE new == [buffers[rd_idx] EXCEPT !.state = "error"]
  <1>1. /\ buffers' = [buffers EXCEPT ![rd_idx] = new] /\ IsFilled(rd_idx)
        /\ rd_idx' = 1 - rd_idx /\ UNCHANGED <<ep_char, wr_idx, fr_idx>>
    BY DEF Fail, IsFilled
  <1>2. ~chan'.active
    BY DEF Fail, NoChan
  <1>3. Shape(buffers[rd_idx])
    BY DEF ListInv, RingOK
  <1>4. Shape(new) /\ new.state = "error"
    BY <1>3, ShapeKept
  <1> HIDE DEF new
  <1>5. new.state # "filled"
    BY <1>4
  <1> QED BY <1>1, <1>2, <1>4, <1>5, BufferEnds

\* What is left of the descriptors.
LEMMA ClearedShape ==
    ASSUME EpOK, NEW buf, Shape(buf), NEW list, list \in {buf.list, Cleared(buf)}
    PROVE  Shape(NewBuffer(list)) /\ NewBuffer(list).state = "free"
  <1>1. DOMAIN list = DOMAIN buf.list /\ \A k \in DOMAIN list : DOMAIN list[k] = DescFields
    <2>1. CASE list = buf.list
      BY <2>1 DEF Shape
    <2>2. CASE list = Cleared(buf) /\ ep_char.type = "ISOCHRONOUS"
      BY <2>2, NoDescIs DEF Shape, Cleared
    <2>3. CASE list = Cleared(buf) /\ ep_char.type # "ISOCHRONOUS"
      <3> DEFINE d == [NoDesc EXCEPT !.off = -1, !.active = FALSE]
      <3>1. list = [buf.list EXCEPT ![0] = d]
        BY <2>3 DEF Cleared
      <3>2. DOMAIN d = DescFields
        BY NoDescIs
      <3> HIDE DEF d
      <3> QED BY <3>1, <3>2 DEF Shape
    <2> QED BY <2>1, <2>2, <2>3
  <1>2. DOMAIN NoFlags = FlagFields
    BY DEF NoFlags, FlagFields
  <1>3. /\ DOMAIN NewBuffer(list) = BufFields /\ NewBuffer(list).list = list
        /\ NewBuffer(list).flags = NoFlags /\ NewBuffer(list).state = "free"
    BY DEF NewBuffer, BufFields
  <1> QED BY <1>1, <1>2, <1>3 DEF Shape

\* _buffer_parse
LEMMA ParseKeeps == ListInv /\ Parse => RingOK' /\ CtrlOK' /\ StreamOK'
  <1> SUFFICES ASSUME ListInv, Parse PROVE RingOK' /\ CtrlOK' /\ StreamOK'
    OBVIOUS
  <1>1. RingOK /\ wr_idx \in Buf /\ rd_idx \in Buf /\ fr_idx \in Buf
    BY DEF ListInv, RingOK
  <1>2. PICK list \in {buffers[fr_idx].list, Cleared(buffers[fr_idx])} :
            buffers' = [buffers EXCEPT ![fr_idx] = NewBuffer(list)]
    BY DEF Parse
  <1>3. Shape(NewBuffer(list)) /\ NewBuffer(list).state = "free"
    BY <1>1, ClearedShape DEF ListInv, RingOK
  <1>4. /\ fr_idx' = 1 - fr_idx /\ UNCHANGED <<ep_char, wr_idx, rd_idx, chan>>
        /\ ~IsFilled(fr_idx)
    BY DEF Parse, IsFilled
  <1> DEFINE new == NewBuffer(list)
  <1>5. /\ DOMAIN buffers' = Buf /\ buffers'[fr_idx] = new
        /\ \A b \in Buf : b # fr_idx => buffers'[b] = buffers[b]
        /\ \A b \in Buf : Shape(buffers'[b])
    <2>1. buffers' = [buffers EXCEPT ![fr_idx] = new] /\ Shape(new)
      BY <1>2, <1>3
    <2> HIDE DEF new
    <2> QED BY <1>1, <2>1, OneBuffer
  <1>6. \A b \in Buf : /\ buffers'[b].state = "filled" <=> buffers[b].state = "filled"
                       /\ buffers'[b].state = "filled" => buffers'[b] = buffers[b]
    BY <1>3, <1>4, <1>5 DEF IsFilled
  <1>7. 1 - rd_idx \in Buf /\ 1 - fr_idx \in Buf
    BY <1>1, OtherBuffer
  <1>8. RingOK'
    <2>1. /\ buffers'[rd_idx'].state # "filled" => buffers'[1 - rd_idx'].state # "filled"
          /\ wr_idx' = rd_idx' <=> (buffers'[rd_idx'].state = "filled" <=> buffers'[1 - rd_idx'].state = "filled")
          /\ chan'.active => buffers'[rd_idx'].state = "filled"
      BY <1>1, <1>4, <1>6, <1>7 DEF RingOK, IsFilled
    <2> QED BY <1>1, <1>4, <1>5, <1>7, <2>1, RingNext
  <1>9. CtrlOK' /\ StreamOK'
    <2>1. buffers[rd_idx].state = "filled" => buffers'[rd_idx] = buffers[rd_idx]
      BY <1>1, <1>6
    <2>2. ep_char.type = "CTRL" => ChanOK'
      <3>1. ep_char.type = "CTRL" => ChanOK
        BY DEF ListInv, CtrlOK
      <3> QED BY <1>1, <1>4, <2>1, <3>1 DEF ChanOK, RingOK, IsFilled
    <2>3. CtrlOK'
      BY <1>4, <1>6, <2>2 DEF ListInv, CtrlOK, IsFilled
    <2>4. StreamOK'
      <3> SUFFICES ASSUME ep_char.type = "ISOCHRONOUS"
                   PROVE  /\ \A b \in Buf : buffers'[b].state = "filled" =>
                                PacketsInSchedule(buffers'[b].irp, buffers'[b].list, buffers'[b].flags)
                          /\ buffers'[rd_idx].state = "filled" /\ buffers'[1 - rd_idx].state = "filled" =>
                                buffers'[1 - rd_idx].flags.irp_start_idx
                                    = buffers'[rd_idx].flags.next_irp_start_idx
        BY <1>4 DEF StreamOK, PacketsInSchedule, InPlace, IsFilled
      <3>1. /\ \A b \in Buf : buffers[b].state = "filled" =>
                  PacketsInSchedule(buffers[b].irp, buffers[b].list, buffers[b].flags)
            /\ buffers[rd_idx].state = "filled" /\ buffers[1 - rd_idx].state = "filled" =>
                  buffers[1 - rd_idx].flags.irp_start_idx = buffers[rd_idx].flags.next_irp_start_idx
        BY DEF ListInv, StreamOK, IsFilled
      <3> QED BY <1>1, <1>6, <1>7, <3>1
    <2> QED BY <2>3, <2>4
  <1> QED BY <1>8, <1>9

\* _buffer_exec: the channel is given the first stage.
LEMMA ExecKeeps == ListInv /\ Exec => RingOK' /\ CtrlOK' /\ StreamOK'
  <1> SUFFICES ASSUME ListInv, Exec PROVE RingOK' /\ CtrlOK' /\ StreamOK'
    OBVIOUS
  <1>1. /\ UNCHANGED <<ep_char, buffers, wr_idx, rd_idx, fr_idx>>
        /\ ~chan.active /\ IsFilled(rd_idx) /\ rd_idx \in Buf
    BY DEF Exec, IsFilled, ListInv, RingOK
  <1>2. RingOK'
    <2>1. RingOK
      BY DEF ListInv
    <2> QED BY <1>1, <2>1 DEF RingOK, IsFilled, Shape
  <1>3. ASSUME ep_char.type = "CTRL" PROVE CtrlOK'
    <2>1. chan' = [active |-> TRUE, dir_in |-> FALSE, pid |-> 0, start |-> 0, len |-> 3]
      BY <1>3 DEF Exec, Activate, ExecStart, ExecLen, XFER_LIST_LEN_CTRL
    <2>2. /\ StagesInPlace(buffers[rd_idx].irp, buffers[rd_idx].list, buffers[rd_idx].flags)
          /\ buffers[rd_idx].flags.cur_stg = 0
      BY <1>1, <1>3 DEF ListInv, CtrlOK
    <2>3. ~buffers[rd_idx].list[0].in
      BY <2>2 DEF StagesInPlace
    <2>4. ChanOK'
      BY <1>1, <2>1, <2>2, <2>3 DEF ChanOK
    <2> QED BY <1>1, <1>3, <2>4 DEF ListInv, CtrlOK, StagesInPlace, IsFilled
  <1>4. CtrlOK'
    BY <1>1, <1>3 DEF CtrlOK
  <1>5. StreamOK'
    <2>1. StreamOK
      BY DEF ListInv
    <2> QED BY <1>1, <2>1 DEF StreamOK, PacketsInSchedule, InPlace, IsFilled
  <1> QED BY <1>2, <1>4, <1>5

-----------------------------------------------------------------------------
(* A run *)

\* A stage of a control transfer is a run of one descriptor.
LEMMA StageRuns ==
    ASSUME ep_char.type = "CTRL", NEW list, NEW k \in 0 .. 2, list[k].active, list[k].hoc
    PROVE  Packets(list, k, 3) = [j \in 1 .. 1 |-> k]
  <1> DEFINE At(x) == (k + x - 1) % 3
             stops == {x \in 1 .. 3 : list[At(x)].hoc}
             n == IF stops = {} THEN 3 ELSE CHOOSE x \in stops : \A l \in stops : x <= l
             run == Run(list, k, 3)
             live == {x \in DOMAIN run : list[run[x]].active}
             Rank(x) == Cardinality({l \in live : l <= x})
  <1>1. At(1) = k
    OBVIOUS
  <1>2. run = [x \in 1 .. n |-> At(x)]
    BY DEF Run, ListLen, XFER_LIST_LEN_CTRL
  <1>3. 1 \in stops /\ stops \subseteq 1 .. 3
    BY <1>1
  <1>4. n = 1
    <2> HIDE DEF stops
    <2>1. 1 \in stops /\ \A l \in stops : 1 <= l
      BY <1>3
    <2>2. n \in stops /\ \A l \in stops : n <= l
      BY <2>1
    <2> HIDE DEF n
    <2> QED BY <1>3, <2>1, <2>2
  <1>5. Packets(list, k, 3) = [j \in 1 .. Cardinality(live) |-> run[CHOOSE x \in live : Rank(x) = j]]
    BY DEF Packets
  <1> HIDE DEF n, run, At
  <1>6. DOMAIN run = {1} /\ run[1] = k
    BY <1>1, <1>2, <1>4
  <1>7. live = {1}
    BY <1>6
  <1> HIDE DEF live
  <1>8. Cardinality(live) = 1 /\ Rank(1) = 1
    <2>1. {l \in live : l <= 1} = {1}
      BY <1>7
    <2> QED BY <1>7, <2>1, FS_Singleton
  <1> HIDE DEF Rank
  <1> DEFINE Nth(j) == CHOOSE x \in live : Rank(x) = j
  <1>9. Nth(1) = 1
    BY <1>7, <1>8
  <1>10. Packets(list, k, 3) = [j \in 1 .. 1 |-> run[Nth(j)]]
    BY <1>5, <1>8
  <1> HIDE DEF Nth
  <1>11. \A j \in 1 .. 1 : run[Nth(j)] = k
    BY <1>6, <1>9
  <1> QED BY <1>10, <1>11

\* The controller's write-back to one descriptor.
WrittenBack(d, act, r) == [d EXCEPT !.active = act, !.rem = r]

\* It leaves the rest of the descriptor.
LEMMA WrittenBackIs ==
    ASSUME NEW d, DOMAIN d = DescFields, NEW act, NEW r
    PROVE  /\ DOMAIN WrittenBack(d, act, r) = DescFields
           /\ WrittenBack(d, act, r).in = d.in /\ WrittenBack(d, act, r).setup = d.setup
           /\ WrittenBack(d, act, r).hoc = d.hoc /\ WrittenBack(d, act, r).len = d.len
           /\ WrittenBack(d, act, r).off = d.off
  BY DEF WrittenBack, DescFields

\* What the controller leaves of a list: whichever packets moved, the descriptors are
\* those that were filled, and it did not touch the ones that it did not run.
LEMMA ExecutedIs ==
    ASSUME NEW list, \A i \in DOMAIN list : DOMAIN list[i] = DescFields, NEW idx, NEW out,
           NEW new, new = Executed(list, idx, out)
    PROVE  /\ DOMAIN new = DOMAIN list
           /\ \A i \in DOMAIN list :
                 /\ DOMAIN new[i] = DescFields
                 /\ new[i].in = list[i].in /\ new[i].setup = list[i].setup
                 /\ new[i].hoc = list[i].hoc /\ new[i].len = list[i].len
                 /\ new[i].off = list[i].off
                 /\ (\A k \in 1 .. Len(out.moved) : idx[k] # i) => new[i] = list[i]
  <1>1. DOMAIN new = DOMAIN list
    BY DEF Executed
  <1>2. ASSUME NEW i \in DOMAIN list
        PROVE  \/ new[i] = list[i]
               \/ \E act, r : new[i] = WrittenBack(list[i], act, r)
    <2>1. CASE \E k \in 1 .. Len(out.moved) : idx[k] = i
      <3> DEFINE k == CHOOSE k \in 1 .. Len(out.moved) : idx[k] = i
                 act == k \in out.skipped
                 r == IF ep_char.type = "ISOCHRONOUS" /\ ~ep_char.is_in THEN 0
                      ELSE list[i].rem + list[i].len - out.moved[k]
      <3>1. new[i] = [list[i] EXCEPT !.active = act,
                                     !.rem = IF ep_char.type = "ISOCHRONOUS" /\ ~ep_char.is_in THEN 0
                                             ELSE @ + list[i].len - out.moved[k]]
        BY <2>1 DEF Executed
      <3>2. new[i] = WrittenBack(list[i], act, r)
        BY <3>1 DEF WrittenBack
      <3> HIDE DEF k, act, r
      <3> QED BY <3>2
    <2>2. CASE ~\E k \in 1 .. Len(out.moved) : idx[k] = i
      BY <2>2 DEF Executed
    <2> QED BY <2>1, <2>2
  <1>3. ASSUME NEW i \in DOMAIN list, \A k \in 1 .. Len(out.moved) : idx[k] # i
        PROVE  new[i] = list[i]
    BY <1>3 DEF Executed
  <1>4. ASSUME NEW i \in DOMAIN list
        PROVE  /\ DOMAIN new[i] = DescFields
               /\ new[i].in = list[i].in /\ new[i].setup = list[i].setup
               /\ new[i].hoc = list[i].hoc /\ new[i].len = list[i].len
               /\ new[i].off = list[i].off
    BY <1>2, <1>4, WrittenBackIs
  <1> QED BY <1>1, <1>3, <1>4

\* A bulk transfer is a run of one descriptor.
LEMMA BulkRuns ==
    ASSUME ep_char.type = "BULK", NEW list, list[0].active, NEW len \in {1, 2}, list[0].hoc \/ len = 1
    PROVE  Packets(list, 0, len) = [j \in 1 .. 1 |-> 0]
  <1> DEFINE At(x) == (0 + x - 1) % 2
             stops == {x \in 1 .. len : list[At(x)].hoc}
             n == IF stops = {} THEN len ELSE CHOOSE x \in stops : \A l \in stops : x <= l
             run == Run(list, 0, len)
  <1>1. At(1) = 0
    OBVIOUS
  <1>2. run = [x \in 1 .. n |-> At(x)]
    BY DEF Run, ListLen, XFER_LIST_LEN_BULK
  <1>3. n = 1
    <2>1. CASE list[0].hoc
      <3>1. 1 \in stops /\ stops \subseteq 1 .. 2
        BY <1>1, <2>1
      <3> HIDE DEF stops
      <3>2. 1 \in stops /\ \A l \in stops : 1 <= l
        BY <3>1
      <3>3. n \in stops /\ \A l \in stops : n <= l
        BY <3>2
      <3> HIDE DEF n
      <3> QED BY <3>1, <3>2, <3>3
    <2>2. CASE ~list[0].hoc
      <3>1. len = 1 /\ stops = {}
        BY <1>1, <2>2
      <3> QED BY <3>1
    <2> QED BY <2>1, <2>2
  <1> HIDE DEF n, run, At
  <1>4. DOMAIN run = {1} /\ run[1] = 0
    BY <1>1, <1>2, <1>3
  <1>5. {k \in DOMAIN run : list[run[k]].active} = UpTo(1, 1)
    BY <1>4 DEF UpTo
  <1>6. run = Run(list, 0, len) /\ 1 \in Intervals /\ 1 \in Nat
    BY DEF run, Intervals
  <1>7. ASSUME NEW i \in Intervals, NEW c \in Nat, i = 1, c = 1
        PROVE  Packets(list, 0, len) = [j \in 1 .. c |-> run[(j - 1) * i + 1]]
    <2>1. {k \in DOMAIN run : list[run[k]].active} = UpTo(c, i)
      BY <1>5, <1>7
    <2> QED BY ONLY <1>6, <2>1, i \in Intervals, c \in Nat, PacketsAt
  <1>8. \A j \in 1 .. 1 : run[(j - 1) * 1 + 1] = 0
    BY <1>4
  <1>9. Packets(list, 0, len) = [j \in 1 .. 1 |-> run[(j - 1) * 1 + 1]]
    BY <1>6, <1>7
  <1> QED BY <1>8, <1>9

\* An interrupt transfer is a run of all its packets.
LEMMA IntrRuns ==
    ASSUME ep_char.type = "INTR", NEW list, NEW n \in 1 .. 32,
           \A k \in 1 .. n : list[k - 1].active /\ (list[k - 1].hoc <=> k = n)
    PROVE  Packets(list, 0, n) = [j \in 1 .. n |-> j - 1]
  <1> DEFINE run == Run(list, 0, n)
  <1>1. ListLen(ep_char.type) = 32
    BY DEF ListLen, XFER_LIST_LEN_INTR
  <1>2. \A k \in 1 .. n : (0 + k - 1) % 32 = k - 1
    OBVIOUS
  <1>3. run = [k \in 1 .. n |-> (0 + k - 1) % 32]
    <2>1. n \in 1 .. n /\ n \in Nat /\ \A k \in 1 .. n - 1 : k \in 1 .. n /\ k # n
      OBVIOUS
    <2>2. list[(0 + n - 1) % 32].hoc
      BY <1>2, <2>1
    <2>3. \A k \in 1 .. n - 1 : ~list[(0 + k - 1) % 32].hoc
      BY <1>2, <2>1
    <2> QED BY <1>1, <2>1, <2>2, <2>3, RunEnds
  <1> HIDE DEF run
  <1>4. DOMAIN run = 1 .. n /\ \A k \in 1 .. n : run[k] = k - 1
    BY <1>2, <1>3
  <1>5. {k \in DOMAIN run : list[run[k]].active} = UpTo(n, 1)
    <2>1. {k \in DOMAIN run : list[run[k]].active} = 1 .. n
      BY <1>4
    <2>2. UpTo(n, 1) = 1 .. n
      BY DEF UpTo
    <2> QED BY <2>1, <2>2
  <1>6. run = Run(list, 0, n) /\ 1 \in Intervals /\ n \in Nat
    BY DEF run, Intervals
  <1>7. Packets(list, 0, n) = [j \in 1 .. n |-> run[(j - 1) * 1 + 1]]
    BY <1>5, <1>6, PacketsAt
  <1>8. \A j \in 1 .. n : run[(j - 1) * 1 + 1] = j - 1
    BY <1>4
  <1> QED BY <1>7, <1>8

\* How many bytes a run of one descriptor moves: all, or fewer if they come in.
OneMoved(out, len, dir_in, m) ==
    /\ m \in 0 .. len /\ out.moved = [j \in 1 .. 1 |-> m] /\ out.skipped = {}
    /\ ~dir_in => m = len

LEMMA OneMoves ==
    ASSUME ep_char.type \in {"CTRL", "BULK"}, NEW list, NEW k, list[k].len \in Nat,
           NEW idx, idx = [j \in 1 .. 1 |-> k], NEW out \in Outcome(list, idx)
    PROVE  \E m : OneMoved(out, list[k].len, chan.dir_in, m)
  <1> DEFINE full == [j \in 1 .. Len(idx) |-> list[idx[j]].len]
             len == list[k].len
  <1>1. full = [j \in 1 .. 1 |-> len]
    OBVIOUS
  <1>2. out = Moved(full, {}) \/ (chan.dir_in /\ out \in OneShort(full))
    <2> HIDE DEF full
    <2> QED BY DEF Outcome, full
  <1> HIDE DEF full
  <1>3. CASE out = Moved(full, {})
    <2>1. OneMoved(out, len, chan.dir_in, len)
      BY <1>1, <1>3 DEF OneMoved, Moved
    <2> QED BY <2>1
  <1>4. CASE chan.dir_in /\ out \in OneShort(full)
    <2>1. full[1] = len /\ DOMAIN full = 1 .. 1
      BY <1>1
    <2> HIDE DEF len
    <2>2. PICK m \in 0 .. full[1] : out = Moved([full EXCEPT ![1] = m], {})
      BY <1>4 DEF OneShort
    <2> DEFINE g == [full EXCEPT ![1] = m]
    <2>3. out.moved = g /\ out.skipped = {}
      BY <2>2 DEF Moved
    <2>4. DOMAIN g = 1 .. 1 /\ g[1] = m /\ g = [j \in DOMAIN g |-> g[j]]
      <3>1. DOMAIN g = 1 .. 1
        BY <2>1
      <3>2. g[1] = m
        BY <2>1
      <3>3. g = [j \in DOMAIN g |-> g[j]]
        BY <2>1
      <3> QED BY <3>1, <3>2, <3>3
    <2> HIDE DEF g
    <2>5. g = [j \in 1 .. 1 |-> m]
      BY <2>4
    <2>6. OneMoved(out, len, chan.dir_in, m)
      BY <1>4, <2>1, <2>2, <2>3, <2>5 DEF OneMoved
    <2> QED BY <2>6 DEF len
  <1> QED BY <1>2, <1>3, <1>4

\* What the controller writes back to a descriptor that it ran.
LEMMA ExecutedAt ==
    ASSUME NEW list, NEW idx, NEW out, NEW k \in 1 .. Len(out.moved), idx[k] \in DOMAIN list,
           \A j \in 1 .. Len(out.moved) : idx[j] = idx[k] => j = k, DOMAIN list[idx[k]] = DescFields,
           NEW new, new = Executed(list, idx, out)
    PROVE  /\ new[idx[k]].rem = IF ep_char.type = "ISOCHRONOUS" /\ ~ep_char.is_in THEN 0
                                ELSE list[idx[k]].rem + list[idx[k]].len - out.moved[k]
           /\ new[idx[k]].active <=> k \in out.skipped
  <1> DEFINE i == idx[k]
             d == list[i]
             r == IF ep_char.type = "ISOCHRONOUS" /\ ~ep_char.is_in THEN 0 ELSE d.rem + d.len - out.moved[k]
  <1>1. (CHOOSE j \in 1 .. Len(out.moved) : idx[j] = i) = k
    OBVIOUS
  <1>2. new[i] = [d EXCEPT !.active = k \in out.skipped, !.rem = r]
    BY <1>1 DEF Executed
  <1> HIDE DEF r, d
  <1>3. new[i].rem = r /\ (new[i].active <=> k \in out.skipped)
    BY <1>2 DEF DescFields, d
  <1> QED BY <1>3 DEF r, d

\* How many bytes a run of n interrupt packets moves: all of the first k packets but the
\* last one of them, which is short if it is not the last of the transfer.
IntrMoved(out, list, n, is_in, k) ==
    /\ k \in 1 .. n /\ out.moved \in Seq(Int) /\ Len(out.moved) = k /\ out.skipped = {}
    /\ \A j \in 1 .. k - 1 : out.moved[j] = list[j - 1].len
    /\ ~is_in => k = n /\ out.moved[n] = list[n - 1].len

LEMMA IntrMoves ==
    ASSUME ep_char.type = "INTR", ep_char.mps \in Nat, NEW list, NEW n \in 1 .. 32,
           \A k \in 1 .. n : list[k - 1].len \in Int,
           NEW idx, idx = [j \in 1 .. n |-> j - 1], NEW out \in Outcome(list, idx)
    PROVE  \E k : IntrMoved(out, list, n, ep_char.is_in, k)
  <1> DEFINE full == [j \in 1 .. Len(idx) |-> list[idx[j]].len]
             At(k, m) == SubSeq([full EXCEPT ![k] = m], 1, k)
  <1>1. out = Moved(full, {}) \/ (ep_char.is_in /\ out \in IntrShort(full))
    <2> HIDE DEF full
    <2> QED BY DEF Outcome, full
  <1>2. Len(idx) = n /\ \A j \in 1 .. n : idx[j] = j - 1
    OBVIOUS
  <1>3. full \in Seq(Int) /\ Len(full) = n /\ \A j \in 1 .. n : full[j] = list[j - 1].len
    <2>1. full = [j \in 1 .. n |-> list[j - 1].len]
      BY <1>2
    <2> HIDE DEF full
    <2> QED BY <2>1
  <1> HIDE DEF full
  <1>4. out = Moved(full, {}) => out.moved = full /\ out.skipped = {}
    BY DEF Moved
  <1>5. ASSUME NEW k \in 1 .. n, NEW m \in Int
        PROVE  /\ At(k, m) \in Seq(Int) /\ Len(At(k, m)) = k
               /\ \A j \in 1 .. k - 1 : At(k, m)[j] = full[j]
    <2> DEFINE s == [full EXCEPT ![k] = m]
    <2>1. s \in Seq(Int) /\ Len(s) = n /\ \A j \in 1 .. n : j # k => s[j] = full[j]
      BY <1>3
    <2> HIDE DEF s
    <2>2. SubSeq(s, 1, k) \in Seq(Int) /\ Len(SubSeq(s, 1, k)) = k /\ \A j \in 1 .. k : SubSeq(s, 1, k)[j] = s[j]
      BY <2>1
    <2>3. \A j \in 1 .. k - 1 : j \in 1 .. n /\ j \in 1 .. k /\ j # k
      OBVIOUS
    <2> QED BY <2>1, <2>2, <2>3 DEF s
  <1> HIDE DEF At
  <1>6. ASSUME out \in IntrShort(full)
        PROVE  \E k \in 1 .. n, m \in Int : out.moved = At(k, m) /\ out.skipped = {}
    <2>1. PICK k \in DOMAIN full, m \in 0 .. ep_char.mps - 1 :
              out = Moved(SubSeq([full EXCEPT ![k] = m], 1, k), {})
      BY <1>6 DEF IntrShort
    <2>2. k \in 1 .. n /\ m \in Int
      BY <1>3
    <2>3. out.moved = At(k, m) /\ out.skipped = {}
      BY <2>1 DEF Moved, At
    <2> QED BY <2>2, <2>3
  <1>7. CASE out = Moved(full, {})
    <2>1. \A j \in 1 .. n - 1 : j \in 1 .. n
      OBVIOUS
    <2>2. n \in 1 .. n
      OBVIOUS
    <2>3. IntrMoved(out, list, n, ep_char.is_in, n)
      BY <1>3, <1>4, <1>7, <2>1, <2>2 DEF IntrMoved
    <2> QED BY <2>3
  <1>8. CASE ep_char.is_in /\ out \in IntrShort(full)
    <2>1. PICK k \in 1 .. n, m \in Int : out.moved = At(k, m) /\ out.skipped = {}
      BY <1>6, <1>8
    <2>2. \A j \in 1 .. k - 1 : j \in 1 .. n
      OBVIOUS
    <2>3. /\ At(k, m) \in Seq(Int) /\ Len(At(k, m)) = k
          /\ \A j \in 1 .. k - 1 : At(k, m)[j] = full[j]
      BY <1>5
    <2>4. \A j \in 1 .. k - 1 : out.moved[j] = list[j - 1].len
      BY <1>3, <2>1, <2>2, <2>3
    <2>5. IntrMoved(out, list, n, ep_char.is_in, k)
      BY <1>8, <2>1, <2>3, <2>4 DEF IntrMoved
    <2> QED BY <2>5
  <1> QED BY <1>1, <1>7, <1>8

\* How many bytes a run of n isochronous packets moves: a packet that is not skipped is
\* moved whole, or is short if it comes in.
IsocMoved(out, list, idx, n, is_in) ==
    /\ out.moved \in Seq(Int) /\ Len(out.moved) = n
    /\ \A k \in 1 .. n : k \in out.skipped \/ is_in \/ out.moved[k] = list[idx[k]].len

LEMMA IsocMoves ==
    ASSUME ep_char.type = "ISOCHRONOUS", NEW list, NEW n \in Nat, NEW idx, DOMAIN idx = 1 .. n, Len(idx) = n,
           \A k \in 1 .. n : list[idx[k]].len \in Int, NEW out \in Outcome(list, idx)
    PROVE  IsocMoved(out, list, idx, n, ep_char.is_in)
  <1> DEFINE full == [j \in 1 .. Len(idx) |-> list[idx[j]].len]
             At(k) == [full EXCEPT ![k] = 0]
  <1>1. out = Moved(full, {}) \/ out \in IsocShort(full)
    <2>1. Outcome(list, idx) = {Moved(full, {})} \union IsocShort(full)
      BY DEF Outcome
    <2> HIDE DEF full
    <2> QED BY <2>1
  <1>2. full \in Seq(Int) /\ Len(full) = n /\ \A j \in 1 .. n : full[j] = list[idx[j]].len
    OBVIOUS
  <1> HIDE DEF full
  <1>3. out = Moved(full, {}) => out.moved = full
    BY DEF Moved
  <1>4. ASSUME NEW k \in 1 .. n
        PROVE  /\ At(k) \in Seq(Int) /\ Len(At(k)) = n
               /\ \A j \in 1 .. n : j # k => At(k)[j] = full[j]
    BY <1>2
  <1> HIDE DEF At
  <1>5. ASSUME out \in IsocShort(full)
        PROVE  \E k \in 1 .. n : out.moved = At(k) /\ (ep_char.is_in \/ out.skipped = {k})
    <2>1. PICK k \in DOMAIN full :
              \/ ep_char.is_in /\ out = Moved([full EXCEPT ![k] = 0], {})
              \/ out = Moved([full EXCEPT ![k] = 0], {k})
      BY <1>5 DEF IsocShort
    <2>2. k \in 1 .. n
      BY <1>2
    <2>3. out.moved = At(k) /\ (ep_char.is_in \/ out.skipped = {k})
      BY <2>1 DEF Moved, At
    <2> QED BY <2>2, <2>3
  <1>6. CASE out = Moved(full, {})
    BY <1>2, <1>3, <1>6 DEF IsocMoved
  <1>7. CASE out \in IsocShort(full)
    <2>1. PICK k \in 1 .. n : out.moved = At(k) /\ (ep_char.is_in \/ out.skipped = {k})
      BY <1>5, <1>7
    <2> QED BY <1>2, <1>4, <2>1 DEF IsocMoved
  <1> QED BY <1>1, <1>6, <1>7

\* The buffer after a run.
Ran(buf, list, moved, skipped) ==
    [buf EXCEPT !.list = list, !.moved = moved, !.skipped = skipped]

\* It is one with another list.
LEMMA RanIs ==
    ASSUME NEW buf, Shape(buf), NEW list, DOMAIN list = DOMAIN buf.list,
           \A i \in DOMAIN list : DOMAIN list[i] = DescFields,
           NEW moved, NEW skipped, NEW ran, ran = Ran(buf, list, moved, skipped)
    PROVE  /\ Shape(ran) /\ ran.list = list /\ ran.flags = buf.flags /\ ran.irp = buf.irp
           /\ ran.state = buf.state /\ ran.moved = moved
  <1>1. /\ DOMAIN ran = BufFields /\ ran.list = list /\ ran.flags = buf.flags /\ ran.irp = buf.irp
        /\ ran.state = buf.state /\ ran.moved = moved
    BY DEF Ran, Shape, BufFields
  <1> QED BY <1>1 DEF Shape

\* A buffer whose stage is over.
InStage(buf, stg) == [buf EXCEPT !.flags.cur_stg = stg]

\* It is the same but for the stage.
LEMMA InStageIs ==
    ASSUME NEW buf, Shape(buf), NEW stg, NEW new, new = InStage(buf, stg)
    PROVE  /\ Shape(new) /\ new.list = buf.list /\ new.irp = buf.irp /\ new.state = buf.state
           /\ new.moved = buf.moved
           /\ new.flags.cur_stg = stg
           /\ new.flags.data_stg_in = buf.flags.data_stg_in
           /\ new.flags.data_stg_skip = buf.flags.data_stg_skip
  <1> DEFINE f == [buf.flags EXCEPT !.cur_stg = stg]
  <1>1. /\ DOMAIN f = FlagFields /\ f.cur_stg = stg
        /\ f.data_stg_in = buf.flags.data_stg_in /\ f.data_stg_skip = buf.flags.data_stg_skip
    BY DEF Shape, FlagFields
  <1>2. new = [buf EXCEPT !.flags = f]
    BY DEF InStage
  <1> HIDE DEF f
  <1>3. /\ DOMAIN new = BufFields /\ new.list = buf.list /\ new.irp = buf.irp
        /\ new.state = buf.state /\ new.flags = f /\ new.moved = buf.moved
    BY <1>2 DEF Shape, BufFields
  <1> QED BY <1>1, <1>3 DEF Shape

\* A finished buffer.
Done(buf, stop) == [buf EXCEPT !.state = "done", !.stop_idx = stop]

\* It is no longer filled.
LEMMA DoneIs ==
    ASSUME NEW buf, Shape(buf), NEW stop, NEW new, new = Done(buf, stop)
    PROVE  /\ Shape(new) /\ new.state = "done" /\ new.stop_idx = stop
           /\ new.list = buf.list /\ new.irp = buf.irp /\ new.flags = buf.flags /\ new.moved = buf.moved
  <1>1. /\ DOMAIN new = BufFields /\ new.state = "done" /\ new.stop_idx = stop
        /\ new.list = buf.list /\ new.irp = buf.irp /\ new.flags = buf.flags /\ new.moved = buf.moved
    BY DEF Done, Shape, BufFields
  <1> QED BY <1>1 DEF Shape

\* What the interrupt at the end of a run does: a stage ends, or the buffer.
LEMMA CompleteIs ==
    ASSUME ListInv, Complete
    PROVE  \E out, ran :
              LET buf == buffers[rd_idx]
                  idx == Packets(buf.list, chan.start, chan.len) IN
              /\ out \in Outcome(buf.list, idx)
              /\ Shape(ran) /\ ran.flags = buf.flags /\ ran.irp = buf.irp /\ ran.state = buf.state
              /\ ran.list = Executed(buf.list, idx, out) /\ ran.moved = buf.moved \o out.moved
              /\ \/ /\ ep_char.type = "CTRL" /\ buf.flags.cur_stg < 2
                    /\ buffers' = [buffers EXCEPT ![rd_idx] = InStage(ran, NextStage(buf.flags))]
                    /\ Activate(NextDir(buf.flags), 1, NextStage(buf.flags), XFER_LIST_LEN_CTRL)
                    /\ UNCHANGED rd_idx
                 \/ /\ ~(ep_char.type = "CTRL" /\ buf.flags.cur_stg < 2)
                    /\ \E stop : /\ stop = StopIdx(buf.list, idx, out)
                                 /\ buffers' = [buffers EXCEPT ![rd_idx] = Done(ran, stop)]
                    /\ chan' = NoChan
                    /\ rd_idx' = 1 - rd_idx
  <1> DEFINE buf == buffers[rd_idx]
             idx == Packets(buf.list, chan.start, chan.len)
  <1>1. Shape(buf)
    BY DEF ListInv, RingOK
  <1>2. PICK out \in Outcome(buf.list, idx) :
            LET ran == Ran(buf, Executed(buf.list, idx, out), buf.moved \o out.moved, out.skipped) IN
            IF ep_char.type = "CTRL" /\ buf.flags.cur_stg < 2
            THEN /\ buffers' = [buffers EXCEPT ![rd_idx] = InStage(ran, NextStage(buf.flags))]
                 /\ Activate(NextDir(buf.flags), 1, NextStage(buf.flags), XFER_LIST_LEN_CTRL)
                 /\ UNCHANGED rd_idx
            ELSE /\ buffers' = [buffers EXCEPT ![rd_idx] = Done(ran, StopIdx(buf.list, idx, out))]
                 /\ chan' = NoChan
                 /\ rd_idx' = 1 - rd_idx
    BY DEF Complete, Ran, InStage, Done
  <1> DEFINE list == Executed(buf.list, idx, out)
             ran == Ran(buf, list, buf.moved \o out.moved, out.skipped)
             stop == StopIdx(buf.list, idx, out)
  <1>3. /\ Shape(ran) /\ ran.flags = buf.flags /\ ran.irp = buf.irp /\ ran.state = buf.state
        /\ ran.list = list /\ ran.moved = buf.moved \o out.moved
    <2>1. DOMAIN list = DOMAIN buf.list /\ \A i \in DOMAIN list : DOMAIN list[i] = DescFields
      <3>1. \A i \in DOMAIN buf.list : DOMAIN buf.list[i] = DescFields
        BY <1>1 DEF Shape
      <3>2. list = Executed(buf.list, idx, out)
        OBVIOUS
      <3> HIDE DEF buf, idx, list
      <3> QED BY <3>1, <3>2, ExecutedIs
    <2> DEFINE moved == buf.moved \o out.moved
    <2>2. ran = Ran(buf, list, moved, out.skipped)
      OBVIOUS
    <2> HIDE DEF list, buf, moved, ran
    <2>3. /\ Shape(ran) /\ ran.flags = buf.flags /\ ran.irp = buf.irp /\ ran.state = buf.state
          /\ ran.list = list /\ ran.moved = moved
      BY <1>1, <2>1, <2>2, RanIs
    <2> QED BY <2>3 DEF moved
  <1>4. \/ /\ ep_char.type = "CTRL" /\ buf.flags.cur_stg < 2
           /\ buffers' = [buffers EXCEPT ![rd_idx] = InStage(ran, NextStage(buf.flags))]
           /\ Activate(NextDir(buf.flags), 1, NextStage(buf.flags), XFER_LIST_LEN_CTRL)
           /\ UNCHANGED rd_idx
        \/ /\ ~(ep_char.type = "CTRL" /\ buf.flags.cur_stg < 2)
           /\ buffers' = [buffers EXCEPT ![rd_idx] = Done(ran, stop)]
           /\ chan' = NoChan
           /\ rd_idx' = 1 - rd_idx
    BY <1>2
  <1>5. /\ list = Executed(buf.list, idx, out) /\ out \in Outcome(buf.list, idx)
        /\ stop = StopIdx(buf.list, idx, out)
    OBVIOUS
  <1> HIDE DEF ran, list, stop, idx
  <1>6. \E r : /\ Shape(r) /\ r.flags = buf.flags /\ r.irp = buf.irp /\ r.state = buf.state
               /\ r.list = Executed(buf.list, idx, out) /\ r.moved = buf.moved \o out.moved
               /\ \/ /\ ep_char.type = "CTRL" /\ buf.flags.cur_stg < 2
                     /\ buffers' = [buffers EXCEPT ![rd_idx] = InStage(r, NextStage(buf.flags))]
                     /\ Activate(NextDir(buf.flags), 1, NextStage(buf.flags), XFER_LIST_LEN_CTRL)
                     /\ UNCHANGED rd_idx
                  \/ /\ ~(ep_char.type = "CTRL" /\ buf.flags.cur_stg < 2)
                     /\ \E s : /\ s = StopIdx(buf.list, idx, out)
                               /\ buffers' = [buffers EXCEPT ![rd_idx] = Done(r, s)]
                     /\ chan' = NoChan
                     /\ rd_idx' = 1 - rd_idx
    <2>1. \/ /\ ep_char.type = "CTRL" /\ buf.flags.cur_stg < 2
             /\ buffers' = [buffers EXCEPT ![rd_idx] = InStage(ran, NextStage(buf.flags))]
             /\ Activate(NextDir(buf.flags), 1, NextStage(buf.flags), XFER_LIST_LEN_CTRL)
             /\ UNCHANGED rd_idx
          \/ /\ ~(ep_char.type = "CTRL" /\ buf.flags.cur_stg < 2)
             /\ \E s : /\ s = StopIdx(buf.list, idx, out)
                       /\ buffers' = [buffers EXCEPT ![rd_idx] = Done(ran, s)]
             /\ chan' = NoChan
             /\ rd_idx' = 1 - rd_idx
      BY <1>4, <1>5
    <2> WITNESS ran
    <2> QED BY <1>3, <1>5, <2>1
  <1> QED BY <1>5, <1>6 DEF idx

\* What the list holds after a stage: the stages after it are as they were.
LEMMA NextStageInPlace ==
    ASSUME ep_char.type = "CTRL", NEW buf, Shape(buf), buf.flags.cur_stg < 2,
           StagesInPlace(buf.irp, buf.list, buf.flags),
           NEW idx, idx = [j \in 1 .. 1 |-> buf.flags.cur_stg], NEW out \in Outcome(buf.list, idx),
           NEW ran, Shape(ran), ran.irp = buf.irp, ran.flags = buf.flags,
           ran.list = Executed(buf.list, idx, out),
           NEW stg, stg = NextStage(buf.flags), NEW new, new = InStage(ran, stg)
    PROVE  /\ stg \in {1, 2}
           /\ StagesInPlace(new.irp, new.list, new.flags)
           /\ NextDir(buf.flags) \in BOOLEAN
           /\ NextDir(buf.flags) <=> new.list[stg].in
  <1> DEFINE old == buf.list
             cur == buf.flags.cur_stg
  <1>1. /\ cur \in {0, 1} /\ cur \in 0 .. 2 /\ buf.irp \in Request_t
        /\ (cur = 1 => buf.irp.num_bytes # 0)
        /\ buf.flags.data_stg_in \in BOOLEAN
        /\ buf.flags.data_stg_in <=> buf.irp.data_in
        /\ buf.flags.data_stg_skip <=> buf.irp.num_bytes = 0
    BY DEF StagesInPlace
  <1>2. /\ stg \in {1, 2} /\ stg > cur
        /\ stg = 1 => cur = 0 /\ buf.irp.num_bytes # 0
        /\ cur = 0 /\ buf.irp.num_bytes # 0 => stg = 1
    BY <1>1 DEF NextStage
  <1>3. /\ new.list = ran.list /\ new.irp = buf.irp /\ new.flags.cur_stg = stg
        /\ new.flags.data_stg_in = buf.flags.data_stg_in
        /\ new.flags.data_stg_skip = buf.flags.data_stg_skip
    BY InStageIs
  <1>4. DOMAIN old = 0 .. 2 /\ \A k \in 0 .. 2 : DOMAIN old[k] = DescFields
    BY DEF Shape, ListLen, XFER_LIST_LEN_CTRL
  <1> HIDE DEF old, cur
  <1>5. \A k \in 0 .. 2 :
            /\ new.list[k].in = old[k].in /\ new.list[k].setup = old[k].setup
            /\ new.list[k].hoc = old[k].hoc /\ new.list[k].len = old[k].len
            /\ k > cur => new.list[k] = old[k]
    <2>1. Len(out.moved) = 1
      <3>1. buf.list[cur].len \in Nat
        BY <1>1 DEF StagesInPlace, SETUP_SIZE, Request_t, cur
      <3>2. idx = [j \in 1 .. 1 |-> cur] /\ out \in Outcome(buf.list, idx) /\ ep_char.type \in {"CTRL", "BULK"}
        BY DEF cur
      <3>3. PICK m : OneMoved(out, buf.list[cur].len, chan.dir_in, m)
        BY <3>1, <3>2, OneMoves
      <3> QED BY <3>3 DEF OneMoved
    <2>2. idx = [j \in 1 .. 1 |-> cur]
      BY DEF cur
    <2>3. \A k \in 0 .. 2 : k > cur => \A j \in 1 .. Len(out.moved) : idx[j] # k
      BY <1>1, <2>1, <2>2
    <2>4. \A k \in DOMAIN old : DOMAIN old[k] = DescFields
      BY <1>4
    <2>5. new.list = Executed(old, idx, out)
      BY <1>3 DEF old
    <2>6. \A k \in 0 .. 2 :
              /\ new.list[k].in = old[k].in /\ new.list[k].setup = old[k].setup
              /\ new.list[k].hoc = old[k].hoc /\ new.list[k].len = old[k].len
              /\ (\A j \in 1 .. Len(out.moved) : idx[j] # k) => new.list[k] = old[k]
      BY <1>4, <2>4, <2>5, ExecutedIs
    <2> QED BY <2>3, <2>6
  <1>6. /\ \A k \in 0 .. 2 : k >= cur /\ (k = 1 => buf.irp.num_bytes # 0) => old[k].active /\ old[k].hoc
        /\ \A k \in 0 .. 2 : old[k].in \in BOOLEAN
        /\ old[0].setup /\ ~old[0].in /\ old[0].len = SETUP_SIZE
        /\ buf.irp.num_bytes # 0 => /\ ~old[1].setup /\ old[1].len = buf.irp.num_bytes
                                    /\ old[1].in <=> buf.irp.data_in
        /\ ~old[2].setup /\ old[2].len = 0
        /\ old[2].in <=> ~(buf.irp.data_in /\ buf.irp.num_bytes # 0)
    BY DEF StagesInPlace, old, cur
  <1> DEFINE l == new.list
             n == buf.irp.num_bytes
  <1>7. \A k \in 0 .. 2 : k >= stg /\ (k = 1 => n # 0) => l[k].active /\ l[k].hoc
    BY <1>1, <1>2, <1>5, <1>6
  <1>8. /\ \A k \in 0 .. 2 : l[k].in \in BOOLEAN
        /\ l[0].setup /\ ~l[0].in /\ l[0].len = SETUP_SIZE
        /\ n # 0 => /\ ~l[1].setup /\ l[1].len = n
                    /\ l[1].in <=> buf.irp.data_in
        /\ ~l[2].setup /\ l[2].len = 0
        /\ l[2].in <=> ~(buf.irp.data_in /\ n # 0)
    BY <1>5, <1>6
  <1>9. StagesInPlace(new.irp, new.list, new.flags)
    BY <1>1, <1>2, <1>3, <1>7, <1>8 DEF StagesInPlace
  <1>10. NextDir(buf.flags) \in BOOLEAN /\ (NextDir(buf.flags) <=> l[stg].in)
    <2> HIDE DEF l, n
    <2>1. CASE cur = 0 /\ buf.irp.num_bytes = 0
      BY <1>1, <1>2, <1>8, <2>1 DEF NextDir, cur, n
    <2>2. CASE cur = 0 /\ buf.irp.num_bytes # 0
      BY <1>1, <1>2, <1>8, <2>2 DEF NextDir, cur, n
    <2>3. CASE cur = 1
      BY <1>1, <1>2, <1>8, <2>3 DEF NextDir, cur, n
    <2> QED BY <1>1, <2>1, <2>2, <2>3
  <1> QED BY <1>2, <1>9, <1>10

\* _buffer_check_done: the channel is given the next stage, or the buffer is done.
LEMMA CompleteKeeps == ListInv /\ Complete => RingOK' /\ CtrlOK' /\ StreamOK'
  <1> SUFFICES ASSUME ListInv, Complete PROVE RingOK' /\ CtrlOK' /\ StreamOK'
    OBVIOUS
  <1> DEFINE buf == buffers[rd_idx]
             idx == Packets(buf.list, chan.start, chan.len)
  <1>1. PICK out, ran :
            /\ out \in Outcome(buf.list, idx)
            /\ Shape(ran) /\ ran.flags = buf.flags /\ ran.irp = buf.irp /\ ran.state = buf.state
            /\ ran.list = Executed(buf.list, idx, out) /\ ran.moved = buf.moved \o out.moved
            /\ \/ /\ ep_char.type = "CTRL" /\ buf.flags.cur_stg < 2
                  /\ buffers' = [buffers EXCEPT ![rd_idx] = InStage(ran, NextStage(buf.flags))]
                  /\ Activate(NextDir(buf.flags), 1, NextStage(buf.flags), XFER_LIST_LEN_CTRL)
                  /\ UNCHANGED rd_idx
               \/ /\ ~(ep_char.type = "CTRL" /\ buf.flags.cur_stg < 2)
                  /\ \E stop : /\ stop = StopIdx(buf.list, idx, out)
                               /\ buffers' = [buffers EXCEPT ![rd_idx] = Done(ran, stop)]
                  /\ chan' = NoChan
                  /\ rd_idx' = 1 - rd_idx
    BY CompleteIs
  <1>2. /\ UNCHANGED <<ep_char, wr_idx, fr_idx>> /\ chan.active /\ IsFilled(rd_idx)
        /\ RingOK /\ rd_idx \in Buf /\ wr_idx \in Buf /\ fr_idx \in Buf /\ Shape(buf)
    BY DEF Complete, ListInv, RingOK, IsFilled
  <1>3. ASSUME NEW stop, buffers' = [buffers EXCEPT ![rd_idx] = Done(ran, stop)],
               chan' = NoChan, rd_idx' = 1 - rd_idx
        PROVE  RingOK' /\ CtrlOK' /\ StreamOK'
    <2> DEFINE new == Done(ran, stop)
    <2>1. Shape(new) /\ new.state # "filled"
      <3>1. new = Done(ran, stop)
        OBVIOUS
      <3> HIDE DEF new
      <3> QED BY <1>1, <3>1, DoneIs
    <2>2. ~chan'.active
      BY <1>3 DEF NoChan
    <2>3. buffers' = [buffers EXCEPT ![rd_idx] = new]
      BY <1>3
    <2> HIDE DEF new
    <2> QED BY <1>2, <1>3, <2>1, <2>2, <2>3, BufferEnds
  <1>4. ASSUME ep_char.type = "CTRL", buf.flags.cur_stg < 2,
               buffers' = [buffers EXCEPT ![rd_idx] = InStage(ran, NextStage(buf.flags))],
               Activate(NextDir(buf.flags), 1, NextStage(buf.flags), XFER_LIST_LEN_CTRL),
               UNCHANGED rd_idx
        PROVE  RingOK' /\ CtrlOK' /\ StreamOK'
    <2> DEFINE stg == NextStage(buf.flags)
               new == InStage(ran, stg)
               dir == NextDir(buf.flags)
    <2>1. StagesInPlace(buf.irp, buf.list, buf.flags) /\ ChanOK
      BY <1>2, <1>4 DEF ListInv, CtrlOK
    <2>2. chan.start = buf.flags.cur_stg /\ chan.len = 3
      BY <1>2, <2>1 DEF ChanOK
    <2>3. idx = [j \in 1 .. 1 |-> buf.flags.cur_stg]
      <3>1. /\ buf.flags.cur_stg \in 0 .. 2 /\ buf.list[buf.flags.cur_stg].active
            /\ buf.list[buf.flags.cur_stg].hoc
        BY <2>1 DEF StagesInPlace
      <3> HIDE DEF buf
      <3> QED BY <1>4, <2>2, <3>1, StageRuns
    <2>4. /\ stg \in {1, 2} /\ StagesInPlace(new.irp, new.list, new.flags)
          /\ dir \in BOOLEAN
          /\ dir <=> new.list[stg].in
      <3>1. new = InStage(ran, stg) /\ stg = NextStage(buf.flags)
        OBVIOUS
      <3> HIDE DEF buf, idx, new, stg
      <3> QED BY <1>1, <1>2, <1>4, <2>1, <2>3, <3>1, NextStageInPlace, SMTT(30)
    <2>5. Shape(new) /\ new.state = "filled" /\ new.flags.cur_stg = stg
      BY <1>1, <1>2, InStageIs DEF IsFilled
    <2>6. /\ buffers' = [buffers EXCEPT ![rd_idx] = new]
          /\ chan' = [active |-> TRUE, dir_in |-> dir, pid |-> 1, start |-> stg, len |-> 3]
      BY <1>4 DEF Activate, XFER_LIST_LEN_CTRL
    <2> HIDE DEF buf, idx, new, stg, dir
    <2>7. /\ DOMAIN buffers' = Buf /\ buffers'[rd_idx] = new
          /\ \A b \in Buf : b # rd_idx => buffers'[b] = buffers[b]
          /\ \A b \in Buf : Shape(buffers'[b])
      BY <1>2, <2>5, <2>6, OneBuffer
    <2>8. \A b \in Buf : buffers'[b].state = "filled" <=> buffers[b].state = "filled"
      BY <1>2, <2>5, <2>7 DEF IsFilled
    <2>9. RingOK'
      <3>1. 1 - rd_idx \in Buf
        BY <1>2, OtherBuffer
      <3>2. /\ buffers'[rd_idx].state = "filled"
            /\ wr_idx = rd_idx <=> buffers[1 - rd_idx].state = "filled"
        BY <1>2, <2>5, <2>7 DEF RingOK, IsFilled
      <3>3. /\ buffers'[rd_idx'].state # "filled" => buffers'[1 - rd_idx'].state # "filled"
            /\ wr_idx' = rd_idx' <=> (buffers'[rd_idx'].state = "filled" <=> buffers'[1 - rd_idx'].state = "filled")
            /\ chan'.active => buffers'[rd_idx'].state = "filled"
        BY <1>2, <1>4, <2>8, <3>1, <3>2
      <3> QED BY <1>2, <1>4, <2>7, <3>3, RingNext
    <2>10. ChanOK'
      BY <1>4, <2>4, <2>5, <2>6, <2>7 DEF ChanOK
    <2>11. CtrlOK'
      <3> SUFFICES ASSUME NEW b \in Buf, buffers'[b].state = "filled"
                   PROVE  /\ StagesInPlace(buffers'[b].irp, buffers'[b].list, buffers'[b].flags)
                          /\ ~(b = rd_idx) => buffers'[b].flags.cur_stg = 0
        BY <1>4, <2>6, <2>10 DEF CtrlOK, IsFilled, StagesInPlace
      <3>1. CASE b = rd_idx
        BY <2>4, <2>7, <3>1
      <3>2. CASE b # rd_idx
        BY <1>4, <2>7, <3>2 DEF ListInv, CtrlOK, IsFilled
      <3> QED BY <3>1, <3>2
    <2>12. StreamOK'
      BY <1>2, <1>4 DEF StreamOK
    <2> QED BY <2>9, <2>11, <2>12
  <1> QED BY <1>1, <1>3, <1>4

-----------------------------------------------------------------------------
(* The invariant holds *)

\* A pipe is allocated with two free buffers.
LEMMA TransferInit == Init => ListInv
  <1> SUFFICES ASSUME Init PROVE RingOK /\ CtrlOK /\ StreamOK
    BY InitEp DEF ListInv
  <1> DEFINE list == [k \in 0 .. ListLen(ep_char.type) - 1 |-> NoDesc]
             new == NewBuffer(list)
  <1>1. /\ buffers = [b \in Buf |-> new] /\ wr_idx = 0 /\ rd_idx = 0 /\ fr_idx = 0
        /\ ~chan.active
    BY DEF Init, NoChan
  <1>2. DOMAIN list = 0 .. ListLen(ep_char.type) - 1 /\ \A k \in DOMAIN list : DOMAIN list[k] = DescFields
    BY NoDescIs
  <1> HIDE DEF list
  <1>3. /\ DOMAIN new = BufFields /\ new.list = list /\ new.flags = NoFlags /\ new.state = "free"
        /\ DOMAIN NoFlags = FlagFields
    BY DEF NewBuffer, BufFields, NoFlags, FlagFields
  <1> HIDE DEF new
  <1>4. Shape(new)
    BY <1>2, <1>3 DEF Shape
  <1>5. /\ DOMAIN buffers = Buf /\ rd_idx \in Buf /\ wr_idx \in Buf /\ fr_idx \in Buf
        /\ \A b \in Buf : buffers[b] = new
        /\ 1 - rd_idx \in Buf
    BY <1>1 DEF Buf
  <1>6. \A b \in Buf : Shape(buffers[b]) /\ ~IsFilled(b)
    BY <1>3, <1>4, <1>5 DEF IsFilled
  <1>7. RingOK
    BY <1>1, <1>5, <1>6 DEF RingOK
  <1>8. CtrlOK
    BY <1>1, <1>6 DEF CtrlOK, ChanOK
  <1>9. StreamOK
    BY <1>5, <1>6 DEF StreamOK
  <1> QED BY <1>7, <1>8, <1>9

\* No step changes the endpoint.
LEMMA EpStays == [Next]_vars => UNCHANGED ep_char
  BY DEF Next, vars, Fill, Exec, Complete, Fail, Parse

\* Every step keeps the invariant.
LEMMA TransferStep == ListInv /\ [Next]_vars => ListInv'
  <1> SUFFICES ASSUME ListInv, [Next]_vars PROVE ListInv'
    OBVIOUS
  <1>1. ep_char' = ep_char /\ EpOK /\ EpOK'
    BY EpStays DEF ListInv, EpOK
  <1> SUFFICES RingOK' /\ CtrlOK' /\ StreamOK'
    BY <1>1 DEF ListInv
  <1>2. ListInv
    BY DEF ListInv
  <1>3. CASE UNCHANGED vars
    <2>1. /\ UNCHANGED <<ep_char, buffers, wr_idx, rd_idx, fr_idx, chan>>
          /\ RingOK /\ CtrlOK /\ StreamOK
      BY <1>2, <1>3 DEF vars, ListInv
    <2>2. RingOK'
      BY <2>1 DEF RingOK, Shape, IsFilled
    <2>3. CtrlOK'
      BY <2>1 DEF CtrlOK, ChanOK, StagesInPlace, IsFilled
    <2>4. StreamOK'
      BY <2>1 DEF StreamOK, PacketsInSchedule, InPlace, IsFilled
    <2> QED BY <2>2, <2>3, <2>4
  <1>4. CASE Next
    BY <1>2, <1>4, FillKeeps, ExecKeeps, CompleteKeeps, FailKeeps, ParseKeeps DEF Next
  <1> QED BY <1>3, <1>4

\* The stages of every control transfer run the way of their descriptors: the channel is
\* given the direction and PID of a stage by _buffer_exec_cont from the flags of the
\* buffer, and the descriptor was written by _buffer_fill_ctrl.
THEOREM StagesAgree == Spec => []DirectionsAgree
  <1>1. ListInv => DirectionsAgree
    <2> SUFFICES ASSUME ListInv, chan.active, ep_char.type = "CTRL"
                 PROVE  LET buffer == buffers[rd_idx]
                            desc == buffer.list[chan.start]
                            irp == buffer.irp
                        IN  /\ desc.active
                            /\ chan.dir_in = desc.in
                            /\ chan.pid = 0 <=> desc.setup
                            /\ desc.len = 0 => desc.in = ~(irp.data_in /\ irp.num_bytes > 0)
      BY DEF DirectionsAgree
    <2> DEFINE buf == buffers[rd_idx]
               cur == buf.flags.cur_stg
               desc == buf.list[cur]
    <2>1. RingOK /\ CtrlOK /\ IsFilled(rd_idx) /\ rd_idx \in Buf
      BY DEF ListInv, RingOK
    <2>2. StagesInPlace(buf.irp, buf.list, buf.flags)
      BY <2>1 DEF CtrlOK
    <2>3. /\ chan.start = cur /\ chan.dir_in \in BOOLEAN
          /\ chan.dir_in <=> desc.in
          /\ chan.pid = 0 <=> cur = 0
      BY <2>1 DEF CtrlOK, ChanOK
    <2>4. /\ cur \in 0 .. 2 /\ desc.active /\ desc.in \in BOOLEAN
          /\ desc.setup <=> cur = 0
          /\ desc.len = 0 => cur = 2
      BY <2>2 DEF StagesInPlace, SETUP_SIZE
    <2>5. /\ buf.irp.num_bytes \in Nat
          /\ buf.list[2].in \in BOOLEAN
          /\ buf.list[2].in <=> ~(buf.irp.data_in /\ buf.irp.num_bytes # 0)
      BY <2>2 DEF StagesInPlace, Request_t
    <2>6. ASSUME desc.len = 0 PROVE desc.in = ~(buf.irp.data_in /\ buf.irp.num_bytes > 0)
      <3>1. desc = buf.list[2]
        BY <2>4, <2>6
      <3>2. buf.irp.num_bytes # 0 <=> buf.irp.num_bytes > 0
        BY <2>5
      <3> QED BY <2>5, <3>1, <3>2
    <2>7. chan.dir_in = desc.in
      BY <2>3, <2>4
    <2>8. chan.pid = 0 <=> desc.setup
      BY <2>3, <2>4
    <2>9. buffers[rd_idx].list[chan.start] = desc
      BY <2>3
    <2> HIDE DEF desc
    <2> QED BY <2>4, <2>6, <2>7, <2>8, <2>9
  <1> QED BY <1>1, TransferInit, TransferStep, PTL DEF Spec

-----------------------------------------------------------------------------
(* The stream *)

\* A sequence of packets that keeps to the schedule of the pipe.
OnSchedule(s) ==
    /\ s \in Seq(0 .. 31)
    /\ \A k \in 1 .. Len(s) : s[k] % ep_char.interval = ep_char.phase_offset_frames % ep_char.interval
    /\ \A k \in 2 .. Len(s) : Behind(s[k - 1], s[k]) = ep_char.interval % 32

\* The packets of a buffer that waits (InBuffer of Waiting).
InBufferOf(b) ==
    IF b \in Requested
    THEN Packets(buffers[b].list, ExecStart(buffers[b].flags), XFER_LIST_LEN_ISOC)
    ELSE << >>

\* One that continues another keeps to it as well.
LEMMA ScheduleContinues ==
    ASSUME NEW s, NEW t, OnSchedule(s), OnSchedule(t),
           Len(s) > 0 /\ Len(t) > 0 => Behind(s[Len(s)], t[1]) = ep_char.interval % 32
    PROVE  OnSchedule(s \o t)
  <1> DEFINE w == s \o t
  <1>1. s \in Seq(0 .. 31) /\ t \in Seq(0 .. 31) /\ Len(s) \in Nat /\ Len(t) \in Nat
    BY DEF OnSchedule
  <1>2. /\ w \in Seq(0 .. 31) /\ Len(w) = Len(s) + Len(t)
        /\ \A k \in 1 .. Len(s) : w[k] = s[k]
        /\ \A k \in Len(s) + 1 .. Len(w) : w[k] = t[k - Len(s)]
    BY <1>1
  <1> HIDE DEF w
  <1>3. ASSUME NEW k \in 1 .. Len(w)
        PROVE  w[k] % ep_char.interval = ep_char.phase_offset_frames % ep_char.interval
    <2>1. CASE k <= Len(s)
      BY <1>1, <1>2, <2>1 DEF OnSchedule
    <2>2. CASE k > Len(s)
      <3>1. k \in Len(s) + 1 .. Len(w) /\ k - Len(s) \in 1 .. Len(t)
        BY <1>1, <1>2, <2>2
      <3> QED BY <1>2, <3>1 DEF OnSchedule
    <2> QED BY <1>1, <1>2, <2>1, <2>2
  <1>4. ASSUME NEW k \in 2 .. Len(w)
        PROVE  Behind(w[k - 1], w[k]) = ep_char.interval % 32
    <2>1. CASE k <= Len(s)
      <3>1. k \in 2 .. Len(s) /\ k \in 1 .. Len(s) /\ k - 1 \in 1 .. Len(s)
        BY <1>1, <2>1
      <3> QED BY <1>2, <3>1 DEF OnSchedule
    <2>2. CASE k = Len(s) + 1
      <3>1. /\ Len(s) > 0 /\ Len(t) > 0 /\ k - 1 \in 1 .. Len(s) /\ k - 1 = Len(s)
            /\ k \in Len(s) + 1 .. Len(w) /\ k - Len(s) = 1
        BY <1>1, <1>2, <2>2
      <3>2. w[k - 1] = s[Len(s)] /\ w[k] = t[1]
        BY <1>2, <3>1
      <3> QED BY <3>1, <3>2
    <2>3. CASE k > Len(s) + 1
      <3> DEFINE j == k - Len(s)
      <3>1. /\ k \in Len(s) + 1 .. Len(w) /\ k - 1 \in Len(s) + 1 .. Len(w)
            /\ j \in 2 .. Len(t) /\ (k - 1) - Len(s) = j - 1
        BY <1>1, <1>2, <2>3
      <3> HIDE DEF j
      <3>2. w[k - 1] = t[j - 1] /\ w[k] = t[j]
        BY <1>2, <3>1 DEF j
      <3> QED BY <3>1, <3>2 DEF OnSchedule
    <2> QED BY <1>1, <1>2, <2>1, <2>2, <2>3
  <1> QED BY <1>2, <1>3, <1>4 DEF OnSchedule, w

\* The packets of a filled buffer are those of its request: from its first index on, one
\* every interval, and the next request of the stream continues them.
LEMMA BufferOnSchedule ==
    ASSUME ListInv, ep_char.type = "ISOCHRONOUS", NEW b \in Buf
    PROVE  /\ OnSchedule(InBufferOf(b))
           /\ Len(InBufferOf(b)) > 0 =>
                 /\ IsFilled(b)
                 /\ InBufferOf(b)[1] = buffers[b].flags.irp_start_idx
                 /\ Behind(InBufferOf(b)[Len(InBufferOf(b))], buffers[b].flags.next_irp_start_idx)
                       = ep_char.interval % 32
  <1>1. CASE b \notin Requested
    BY <1>1 DEF InBufferOf, OnSchedule
  <1>2. CASE b \in Requested
    <2> DEFINE buf == buffers[b]
               start == buf.flags.irp_start_idx
               n == Len(buf.irp.packets)
               i == ep_char.interval
               o == ep_char.phase_offset_frames
               s == [j \in 1 .. n |-> (start + (j - 1) * i) % 32]
    <2>1. IsFilled(b) /\ ~Empty(buf.irp)
      BY <1>2 DEF Requested, FilledBuffers, IsFilled
    <2>2. /\ InPlace(buf.list, start, n, i) /\ start % i = o % i
          /\ buf.flags.next_irp_start_idx = (start + n * i) % 32
      BY <2>1 DEF ListInv, StreamOK, PacketsInSchedule
    <2>3. i \in Intervals /\ n \in Nat /\ n * i \in 1 .. 32 /\ start \in 0 .. 31
      BY <2>2 DEF ListInv, EpOK, InPlace
    <2>4. InBufferOf(b) = Packets(buf.list, start, 32)
      BY <1>2 DEF InBufferOf, ExecStart, XFER_LIST_LEN_ISOC
    <2> HIDE DEF buf, start, n, i, o
    <2>5. InBufferOf(b) = s
      BY <2>2, <2>3, <2>4, PacketsInPlace
    <2>6. IsStream(s, start, n, i, o)
      <3>1. RequestFits(start, n, i, o)
        BY <2>2, <2>3 DEF RequestFits
      <3>2. s = Frames(start, n, i)
        BY DEF Frames
      <3> HIDE DEF s
      <3> QED BY <3>1, <3>2, StreamInPlace
    <2> HIDE DEF s
    <2>7. OnSchedule(s)
      BY <2>6 DEF IsStream, OnSchedule, i, o
    <2>8. s[1] = buffers[b].flags.irp_start_idx
      BY <2>6 DEF IsStream, start, buf
    <2>9. Behind(s[Len(s)], buffers[b].flags.next_irp_start_idx) = ep_char.interval % 32
      BY <2>2, <2>6 DEF IsStream, i, buf
    <2> QED BY <2>1, <2>5, <2>6, <2>7, <2>8, <2>9
  <1> QED BY <1>1, <1>2

\* The packets that wait in an isochronous pipe are on its schedule, within a buffer and
\* from one buffer to the next, whatever the frame in which the stream began and however
\* many buffers were executed, failed or parsed in between (_buffer_fill_isoc).
THEOREM StreamScheduled == Spec => []StreamOnSchedule
  <1>1. ListInv => StreamOnSchedule
    <2> SUFFICES ASSUME ListInv, ep_char.type = "ISOCHRONOUS"
                 PROVE  /\ \A k \in DOMAIN Waiting :
                              Waiting[k] % ep_char.interval = ep_char.phase_offset_frames % ep_char.interval
                        /\ \A k \in 2 .. Len(Waiting) :
                              Behind(Waiting[k - 1], Waiting[k]) = ep_char.interval % XFER_LIST_LEN_ISOC
      BY DEF StreamOnSchedule
    <2> DEFINE s == InBufferOf(rd_idx)
               t == InBufferOf(1 - rd_idx)
    <2>1. ListInv
      OBVIOUS
    <2>2. rd_idx \in Buf /\ 1 - rd_idx \in Buf
      BY <2>1, OtherBuffer DEF ListInv, RingOK
    <2>3. Waiting = s \o t
      BY DEF Waiting, InBufferOf
    <2>4. OnSchedule(s) /\ OnSchedule(t)
      BY <2>1, <2>2, BufferOnSchedule
    <2>5. ASSUME Len(s) > 0, Len(t) > 0
          PROVE  Behind(s[Len(s)], t[1]) = ep_char.interval % 32
      <3>1. /\ IsFilled(rd_idx)
            /\ Behind(s[Len(s)], buffers[rd_idx].flags.next_irp_start_idx) = ep_char.interval % 32
        BY <2>1, <2>2, <2>5, BufferOnSchedule
      <3>2. IsFilled(1 - rd_idx) /\ t[1] = buffers[1 - rd_idx].flags.irp_start_idx
        BY <2>1, <2>2, <2>5, BufferOnSchedule
      <3>3. buffers[1 - rd_idx].flags.irp_start_idx = buffers[rd_idx].flags.next_irp_start_idx
        BY <2>1, <3>1, <3>2 DEF ListInv, StreamOK
      <3> HIDE DEF s, t
      <3> QED BY <3>1, <3>2, <3>3
    <2> HIDE DEF s, t
    <2>6. OnSchedule(Waiting)
      BY <2>3, <2>4, <2>5, ScheduleContinues
    <2>7. DOMAIN Waiting = 1 .. Len(Waiting)
      BY <2>6 DEF OnSchedule
    <2> QED BY <2>6, <2>7 DEF OnSchedule, XFER_LIST_LEN_ISOC
  <1> QED BY <1>1, TransferInit, TransferStep, PTL DEF Spec

-----------------------------------------------------------------------------
(* What a finished buffer reports *)

\* What _buffer_parse will report of a buffer is what the controller moved, of an
\* interrupt or isochronous request if it had something to move.
Reports(ep, buf) ==
    LET num_bytes == buf.irp.num_bytes
        packets == buf.irp.packets
    IN  /\ ep.type = "CTRL" =>
              Sum(buf.moved) - SETUP_SIZE
                  = IF buf.flags.data_stg_skip THEN 0 ELSE num_bytes - buf.list[1].rem
        /\ ep.type = "BULK" => Sum(buf.moved) = num_bytes - buf.list[0].rem
        /\ ep.type = "INTR" /\ ~Empty(buf.irp) =>
              \/ num_bytes > ep.mps * Len(buf.moved)
              \/ /\ ep.is_in => buf.stop_idx = 0
                 /\ Sum(buf.moved) = IF ep.is_in THEN num_bytes - buf.list[buf.flags.num_qtds - 1].rem
                                     ELSE num_bytes
        /\ ep.type = "ISOCHRONOUS" /\ ~Empty(buf.irp) =>
              /\ DOMAIN buf.moved = 1 .. Len(packets)
              /\ \A k \in 1 .. Len(packets) :
                    LET d == buf.list[(buf.flags.irp_start_idx + (k - 1) * ep.interval) % 32] IN
                    d.active \/ packets[k] - d.rem = buf.moved[k]

\* The buffer ran after a run of the descriptors idx of buf.
HasRun(buf, idx, out, ran) ==
    /\ Shape(ran) /\ ran.flags = buf.flags /\ ran.irp = buf.irp /\ ran.state = buf.state
    /\ ran.list = Executed(buf.list, idx, out) /\ ran.moved = buf.moved \o out.moved

\* What one stage of a control transfer, of len bytes, moves: m bytes.
StageMoved(buf, ran, m) ==
    LET cur == buf.flags.cur_stg IN
    /\ m \in 0 .. buf.list[cur].len /\ (cur = 0 => m = SETUP_SIZE)
    /\ Sum(buf.moved) \in Int /\ ran.moved \in Seq(Int) /\ ran.moved # << >>
    /\ Sum(ran.moved) = Sum(buf.moved) + m
    /\ ran.list[cur].rem = buf.list[cur].len - m
    /\ \A k \in 0 .. 2 : /\ ran.list[k].off = buf.list[k].off
                         /\ k # cur => ran.list[k] = buf.list[k]

LEMMA StageMoves ==
    ASSUME ep_char.type = "CTRL", NEW buf, Shape(buf), StagesInPlace(buf.irp, buf.list, buf.flags),
           CtrlHolds(buf), chan.dir_in <=> buf.list[buf.flags.cur_stg].in,
           NEW idx, idx = [j \in 1 .. 1 |-> buf.flags.cur_stg], NEW out \in Outcome(buf.list, idx),
           NEW ran, HasRun(buf, idx, out, ran)
    PROVE  \E m : StageMoved(buf, ran, m)
  <1> DEFINE old == buf.list
             cur == buf.flags.cur_stg
  <1>1. /\ cur \in 0 .. 2 /\ old[cur].len \in Nat
        /\ cur = 0 => old[0].len = SETUP_SIZE /\ ~chan.dir_in
    BY DEF StagesInPlace, SETUP_SIZE, Request_t
  <1>2. old[cur].rem = 0 /\ buf.moved \in Seq(Int)
    BY <1>1 DEF CtrlHolds
  <1>3. DOMAIN old = 0 .. 2 /\ \A k \in DOMAIN old : DOMAIN old[k] = DescFields
    BY DEF Shape, ListLen, XFER_LIST_LEN_CTRL
  <1>4. ran.list = Executed(old, idx, out) /\ ran.moved = buf.moved \o out.moved
    BY DEF HasRun
  <1>5. idx = [j \in 1 .. 1 |-> cur] /\ out \in Outcome(old, idx)
    OBVIOUS
  <1> DEFINE len == old[cur].len
  <1>6. PICK m : OneMoved(out, len, chan.dir_in, m)
    <2>1. ep_char.type \in {"CTRL", "BULK"} /\ old[cur].len \in Nat
      BY <1>1
    <2> HIDE DEF old, cur
    <2> QED BY <1>5, <2>1, OneMoves
  <1> HIDE DEF old, cur, len
  <1>7. /\ m \in 0 .. len /\ out.moved = [j \in 1 .. 1 |-> m]
        /\ ~chan.dir_in => m = len
    BY <1>6 DEF OneMoved
  <1>8. Len(out.moved) = 1 /\ out.moved[1] = m /\ m \in Int /\ idx[1] = cur /\ len \in Nat
    BY <1>1, <1>5, <1>7 DEF len
  <1>9. cur = 0 => m = SETUP_SIZE
    BY <1>1, <1>7 DEF len
  <1>10. /\ Sum(buf.moved) \in Int /\ ran.moved \in Seq(Int) /\ ran.moved # << >>
         /\ Sum(ran.moved) = Sum(buf.moved) + m
    <2> DEFINE s == buf.moved
               t == out.moved
    <2>1. s \in Seq(Int) /\ m \in Int /\ t = [j \in 1 .. 1 |-> m] /\ ran.moved = s \o t
      BY <1>2, <1>4, <1>7, <1>8
    <2> HIDE DEF s, t
    <2>2. s \o t \in Seq(Int) /\ s \o t # << >> /\ Sum(s) \in Int /\ Sum(s \o t) = Sum(s) + m
      BY <2>1, SumAppended
    <2> QED BY <2>1, <2>2 DEF s
  <1>11. ran.list[cur].rem = len - m
    <2>1. \A j \in 1 .. Len(out.moved) : j = 1
      BY <1>8
    <2>2. 1 \in 1 .. Len(out.moved) /\ idx[1] \in DOMAIN old /\ DOMAIN old[idx[1]] = DescFields
      BY <1>1, <1>3, <1>8
    <2>3. ASSUME NEW k \in 1 .. Len(out.moved)
          PROVE  ran.list[idx[k]].rem = old[idx[k]].rem + old[idx[k]].len - out.moved[k]
      <3>1. k = 1 /\ idx[k] \in DOMAIN old /\ DOMAIN old[idx[k]] = DescFields
        BY <2>1, <2>2, <2>3
      <3>2. \A j \in 1 .. Len(out.moved) : idx[j] = idx[k] => j = k
        BY <2>1, <2>3
      <3>3. ran.list[idx[k]].rem = IF ep_char.type = "ISOCHRONOUS" /\ ~ep_char.is_in THEN 0
                                   ELSE old[idx[k]].rem + old[idx[k]].len - out.moved[k]
        BY <1>4, <2>3, <3>1, <3>2, ExecutedAt
      <3> QED BY <3>3
    <2>4. ran.list[cur].rem = old[cur].rem + old[cur].len - m
      BY <1>8, <2>2, <2>3
    <2> QED BY <1>2, <1>8, <2>4 DEF len
  <1>12. \A k \in 0 .. 2 : ran.list[k].off = old[k].off /\ (k # cur => ran.list[k] = old[k])
    <2>1. \A k \in 0 .. 2 : k # cur => \A j \in 1 .. Len(out.moved) : idx[j] # k
      BY <1>8
    <2> QED BY <1>3, <1>4, <2>1, ExecutedIs
  <1> QED BY <1>7, <1>9, <1>10, <1>11, <1>12 DEF StageMoved, old, cur, len

\* The stage after it begins.
LEMMA CtrlStageHolds ==
    ASSUME ep_char.type = "CTRL", NEW buf, Shape(buf), StagesInPlace(buf.irp, buf.list, buf.flags),
           CtrlHolds(buf), buf.flags.cur_stg < 2, NEW ran, NEW m, StageMoved(buf, ran, m),
           Shape(ran), ran.irp = buf.irp,
           NEW stg, stg = NextStage(buf.flags), NEW new, new = InStage(ran, stg)
    PROVE  CtrlHolds(new)
  <1> DEFINE cur == buf.flags.cur_stg
             n == buf.irp.num_bytes
             old == buf.list
             l == ran.list
  <1>1. /\ cur \in {0, 1} /\ n \in Nat /\ (cur = 1 => n # 0)
        /\ buf.flags.data_stg_skip <=> n = 0
        /\ n # 0 => old[1].len = n
    BY DEF StagesInPlace, Request_t
  <1>2. /\ stg \in {1, 2} /\ (stg = 1 => cur = 0 /\ n # 0) /\ (cur = 0 /\ n # 0 => stg = 1)
    BY <1>1 DEF NextStage
  <1>3. /\ new.list = l /\ new.irp = buf.irp /\ new.moved = ran.moved /\ new.flags.cur_stg = stg
    BY InStageIs
  <1>4. /\ m \in 0 .. old[cur].len /\ (cur = 0 => m = SETUP_SIZE)
        /\ Sum(buf.moved) \in Int /\ ran.moved \in Seq(Int) /\ ran.moved # << >>
        /\ Sum(ran.moved) = Sum(buf.moved) + m
        /\ l[cur].rem = old[cur].len - m
        /\ \A k \in 0 .. 2 : l[k].off = old[k].off /\ (k # cur => l[k] = old[k])
    BY DEF StageMoved
  <1>5. /\ old[0].off = 0 /\ old[1].rem \in Int
        /\ IF n = 0 THEN ~old[1].active ELSE old[1].off = SETUP_SIZE
        /\ \A k \in 0 .. 2 : k >= cur => old[k].rem = 0
        /\ cur = 0 => buf.moved = << >>
        /\ cur # 0 => Sum(buf.moved) = SETUP_SIZE + IF n = 0 \/ cur = 1 THEN 0 ELSE n - old[1].rem
    BY DEF CtrlHolds
  <1>6. Sum(buf.moved) = IF cur = 0 THEN 0 ELSE SETUP_SIZE
    BY <1>1, <1>5, SumOfOne DEF SETUP_SIZE
  <1> HIDE DEF cur, n, old, l
  <1>7. l[0].off = 0 /\ IF n = 0 THEN ~l[1].active ELSE l[1].off = SETUP_SIZE
    BY <1>1, <1>4, <1>5
  <1>8. /\ \A k \in 0 .. 2 : k >= stg => l[k].rem = 0
        /\ l[1].rem \in Int
        /\ Sum(ran.moved) = SETUP_SIZE + IF n = 0 \/ stg = 1 THEN 0 ELSE n - l[1].rem
    <2>1. CASE cur = 0
      <3>1. l[1] = old[1] /\ l[2] = old[2] /\ old[1].rem = 0 /\ old[2].rem = 0
        BY <1>4, <1>5, <2>1
      <3>2. Sum(ran.moved) = SETUP_SIZE /\ (n = 0 \/ stg = 1)
        BY <1>2, <1>4, <1>6, <2>1 DEF SETUP_SIZE
      <3> QED BY <1>2, <3>1, <3>2 DEF SETUP_SIZE
    <2>2. CASE cur = 1
      <3>1. stg = 2 /\ n # 0 /\ l[2] = old[2] /\ old[2].rem = 0
        BY <1>1, <1>2, <1>4, <1>5, <2>2
      <3>2. m \in 0 .. n /\ l[1].rem = n - m /\ Sum(ran.moved) = SETUP_SIZE + m
        BY <1>1, <1>4, <1>6, <2>2, <3>1
      <3>3. Sum(ran.moved) = SETUP_SIZE + (n - l[1].rem) /\ l[1].rem \in Int
        BY <1>1, <3>2 DEF SETUP_SIZE
      <3> QED BY <3>1, <3>3
    <2> QED BY <1>1, <2>1, <2>2
  <1> QED BY <1>2, <1>3, <1>4, <1>7, <1>8 DEF CtrlHolds, n, l

\* The status stage is over.
LEMMA CtrlDoneReports ==
    ASSUME ep_char.type = "CTRL", NEW buf, StagesInPlace(buf.irp, buf.list, buf.flags),
           CtrlHolds(buf), buf.flags.cur_stg = 2, NEW ran, NEW m, StageMoved(buf, ran, m),
           ran.irp = buf.irp, ran.flags = buf.flags, Shape(ran),
           NEW stop, NEW new, new = Done(ran, stop)
    PROVE  Reports(ep_char, new)
  <1> DEFINE n == buf.irp.num_bytes
  <1>1. /\ n \in Nat /\ buf.list[2].len = 0
        /\ buf.flags.data_stg_skip <=> n = 0
    BY DEF StagesInPlace, Request_t
  <1>2. new.list = ran.list /\ new.irp = buf.irp /\ new.flags = buf.flags /\ new.moved = ran.moved
    BY DoneIs
  <1>3. /\ m = 0 /\ Sum(buf.moved) \in Int /\ Sum(ran.moved) = Sum(buf.moved) + m
        /\ ran.list[1] = buf.list[1]
    BY <1>1 DEF StageMoved
  <1>4. /\ buf.list[1].rem \in Int
        /\ Sum(buf.moved) = SETUP_SIZE + IF n = 0 THEN 0 ELSE n - buf.list[1].rem
    BY DEF CtrlHolds
  <1>5. Sum(new.moved) - SETUP_SIZE = IF n = 0 THEN 0 ELSE n - buf.list[1].rem
    BY <1>1, <1>2, <1>3, <1>4 DEF SETUP_SIZE
  <1> QED BY <1>1, <1>2, <1>3, <1>5 DEF Reports

\* What moved in the only run of a buffer.
LEMMA OnlyRun == ASSUME NEW s \in Seq(Int) PROVE << >> \o s = s
  OBVIOUS

\* A bulk transfer is over.
LEMMA BulkDoneReports ==
    ASSUME ep_char.type = "BULK", NEW buf, Shape(buf), buf.irp \in Request_t, buf.moved = << >>,
           BulkHolds(ep_char, buf), NEW idx, idx = [j \in 1 .. 1 |-> 0], NEW out \in Outcome(buf.list, idx),
           NEW ran, HasRun(buf, idx, out, ran), NEW stop, NEW new, new = Done(ran, stop)
    PROVE  Reports(ep_char, new)
  <1> DEFINE old == buf.list
             n == buf.irp.num_bytes
  <1>1. n \in Nat /\ old[0].len = n /\ old[0].rem = 0
    BY DEF Request_t, BulkHolds, Describes
  <1>2. /\ ran.list = Executed(old, idx, out) /\ ran.moved = buf.moved \o out.moved /\ Shape(ran)
        /\ ran.irp = buf.irp /\ ran.flags = buf.flags
    BY DEF HasRun
  <1>3. new.list = ran.list /\ new.irp = buf.irp /\ new.moved = ran.moved
    BY <1>2, DoneIs
  <1>4. 0 \in DOMAIN old /\ DOMAIN old[0] = DescFields
    BY DEF Shape, ListLen, XFER_LIST_LEN_BULK
  <1> HIDE DEF old, n
  <1>5. PICK m : OneMoved(out, n, chan.dir_in, m)
    <2>1. \E m : OneMoved(out, old[0].len, chan.dir_in, m)
      BY <1>1, OneMoves DEF old
    <2> QED BY <1>1, <2>1
  <1>6. m \in Int /\ out.moved = [j \in 1 .. 1 |-> m]
    BY <1>1, <1>5 DEF OneMoved
  <1>7. Len(out.moved) = 1 /\ out.moved[1] = m /\ idx[1] = 0 /\ \A j \in 1 .. Len(out.moved) : j = 1
    BY <1>6
  <1>8. new.list[0].rem = n - m
    <2>1. ASSUME NEW k \in 1 .. Len(out.moved)
          PROVE  ran.list[idx[k]].rem = old[idx[k]].rem + old[idx[k]].len - out.moved[k]
      <3>1. k = 1 /\ idx[k] \in DOMAIN old /\ DOMAIN old[idx[k]] = DescFields
        BY <1>4, <1>7, <2>1
      <3>2. \A j \in 1 .. Len(out.moved) : idx[j] = idx[k] => j = k
        BY <1>7, <2>1
      <3>3. ran.list[idx[k]].rem = IF ep_char.type = "ISOCHRONOUS" /\ ~ep_char.is_in THEN 0
                                   ELSE old[idx[k]].rem + old[idx[k]].len - out.moved[k]
        BY <1>2, <2>1, <3>1, <3>2, ExecutedAt
      <3> QED BY <3>3
    <2>2. ran.list[0].rem = old[0].rem + old[0].len - m
      BY <1>7, <2>1
    <2> QED BY <1>1, <1>3, <1>6, <2>2
  <1>9. Sum(new.moved) = m
    <2>1. out.moved \in Seq(Int) /\ Sum(out.moved) = m
      BY <1>6, SumOfOne
    <2> QED BY <1>2, <1>3, <2>1, OnlyRun
  <1>10. Sum(new.moved) = n - new.list[0].rem
    BY <1>1, <1>6, <1>8, <1>9
  <1> QED BY <1>3, <1>10 DEF Reports, n

\* Products of lengths.
LEMMA IntProduct == ASSUME NEW a \in Int, NEW b \in Int PROVE a * b \in Int
  OBVIOUS

\* Fewer packets are fewer bytes.
LEMMA FewerBytes ==
    ASSUME NEW n \in Nat, NEW k \in Nat, k < n, NEW m \in Nat, m > 0
    PROVE  n * m > m * k
  <1> DEFINE d == n - k
  <1>1. d \in Nat /\ d >= 1 /\ n = k + d
    OBVIOUS
  <1> HIDE DEF d
  <1>2. d * m > 0
    BY <1>1
  <1>3. n * m = k * m + d * m /\ k * m = m * k
    BY <1>1
  <1>4. k * m \in Int /\ d * m \in Int
    BY <1>1, IntProduct
  <1> QED BY <1>2, <1>3, <1>4

\* The bytes of n interrupt packets of which only the last may be short.
LEMMA SumOfIntr ==
    ASSUME NEW n \in 1 .. 32, NEW mps \in Nat, NEW nb \in Nat, NEW s \in Seq(Int), Len(s) = n,
           \A j \in 1 .. n - 1 : s[j] = PacketLen(j, n, mps, nb),
           NEW rem, rem = PacketLen(n, n, mps, nb) - s[n]
    PROVE  Sum(s) = nb - rem /\ rem \in Int
  <1> DEFINE p == (n - 1) * mps
  <1>1. p \in Int
    BY IntProduct
  <1>2. \A j \in 1 .. n - 1 : s[j] = mps
    BY DEF PacketLen
  <1>3. s[n] \in Int /\ mps \in Int /\ n \in Nat \ {0}
    OBVIOUS
  <1>4. Sum(s) = p + s[n]
    BY <1>2, <1>3, SumOfPackets
  <1>5. rem = nb - p - s[n]
    BY DEF PacketLen
  <1> HIDE DEF p
  <1> QED BY <1>1, <1>3, <1>4, <1>5

\* An interrupt transfer is over.
LEMMA IntrDoneReports ==
    ASSUME ep_char.type = "INTR", ep_char.is_in \in BOOLEAN, ep_char.mps \in Nat,
           NEW buf, Shape(buf), buf.irp \in Request_t, buf.moved = << >>,
           IntrHolds(ep_char, buf), NEW n, n = buf.flags.num_qtds,
           NEW idx, idx = [j \in 1 .. n |-> j - 1], NEW out \in Outcome(buf.list, idx),
           NEW ran, HasRun(buf, idx, out, ran), NEW stop, stop = StopIdx(buf.list, idx, out),
           NEW new, new = Done(ran, stop)
    PROVE  Reports(ep_char, new)
  <1> DEFINE old == buf.list
             mps == ep_char.mps
             nb == buf.irp.num_bytes
  <1>1. n \in 1 .. 32 /\ mps \in Nat /\ mps > 0 /\ nb \in Nat
    BY DEF IntrHolds, Request_t
  <1>2. ep_char.is_in => nb = n * mps
    BY DEF IntrHolds
  <1>3. \A k \in 1 .. n : /\ old[k - 1].rem = 0
                          /\ old[k - 1].len = PacketLen(k, n, mps, nb)
                          /\ old[k - 1].hoc <=> k = n
    BY DEF IntrHolds, Describes
  <1>4. /\ ran.list = Executed(old, idx, out) /\ ran.moved = buf.moved \o out.moved /\ Shape(ran)
        /\ ran.irp = buf.irp /\ ran.flags = buf.flags
    BY DEF HasRun
  <1>5. /\ new.list = ran.list /\ new.irp = buf.irp /\ new.moved = ran.moved /\ new.flags = buf.flags
        /\ new.stop_idx = stop
    BY <1>4, DoneIs
  <1>6. DOMAIN old = 0 .. 31 /\ \A k \in 0 .. 31 : DOMAIN old[k] = DescFields
    BY DEF Shape, ListLen, XFER_LIST_LEN_INTR
  <1>7. \A k \in 1 .. n : PacketLen(k, n, mps, nb) \in Int
    <2> SUFFICES ASSUME NEW k \in 1 .. n PROVE PacketLen(k, n, mps, nb) \in Int
      OBVIOUS
    <2>1. (n - 1) * mps \in Int
      <3>1. n - 1 \in Int /\ mps \in Int
        BY ONLY <1>1
      <3> QED BY <3>1, IntProduct
    <2> HIDE DEF mps, nb
    <2> QED BY <1>1, <2>1 DEF PacketLen
  <1> HIDE DEF old, mps, nb
  <1>8. \A k \in 1 .. n : old[k - 1].len \in Int
    BY <1>3, <1>7
  <1>9. PICK k : IntrMoved(out, old, n, ep_char.is_in, k)
    <2>1. out \in Outcome(old, idx) /\ ep_char.mps \in Nat
      BY DEF old
    <2> QED BY <1>1, <1>8, <2>1, IntrMoves
  <1>10. /\ k \in 1 .. n /\ out.moved \in Seq(Int) /\ Len(out.moved) = k
         /\ \A j \in 1 .. k - 1 : out.moved[j] = old[j - 1].len
         /\ ~ep_char.is_in => k = n /\ out.moved[n] = old[n - 1].len
    BY <1>9 DEF IntrMoved
  <1>11. new.moved = out.moved
    BY <1>4, <1>5, <1>10, OnlyRun
  <1>12. CASE k < n
    <2>1. ep_char.is_in /\ k \in Nat /\ n \in Nat
      <3>1. k # n
        BY ONLY <1>1, <1>10, <1>12
      <3> QED BY ONLY <1>1, <1>10, <3>1, ep_char.is_in \in BOOLEAN
    <2>2. nb > mps * k
      <3>1. n * mps > mps * k
        BY <1>1, <1>12, <2>1, FewerBytes
      <3> QED BY <1>2, <2>1, <3>1
    <2>3. new.irp.num_bytes > ep_char.mps * Len(new.moved)
      BY <1>5, <1>10, <1>11, <2>2 DEF nb, mps
    <2> QED BY <2>3 DEF Reports
  <1>13. CASE k = n
    <2> DEFINE s == out.moved
               rem == ran.list[n - 1].rem
    <2>1. s \in Seq(Int) /\ Len(s) = n /\ s[n] \in Int
      BY <1>1, <1>10, <1>13
    <2>2. \A j \in 1 .. n - 1 : s[j] = PacketLen(j, n, mps, nb)
      <3> SUFFICES ASSUME NEW j \in 1 .. n - 1 PROVE s[j] = PacketLen(j, n, mps, nb)
        OBVIOUS
      <3>1. j \in 1 .. n /\ j \in 1 .. k - 1
        BY ONLY <1>1, <1>13, j \in 1 .. n - 1
      <3> QED BY <1>3, <1>10, <3>1
    <2>3. n \in 1 .. n /\ n - 1 \in 0 .. 31
      BY ONLY <1>1
    <2>4. old[n - 1].len = PacketLen(n, n, mps, nb) /\ old[n - 1].rem = 0 /\ old[n - 1].hoc
      BY <1>3, <2>3
    <2>5. \A j \in 1 .. n : idx[j] = j - 1
      OBVIOUS
    <2>6. stop = 0
      <3>1. idx[Len(out.moved)] = n - 1
        BY <1>10, <1>13, <2>3, <2>5
      <3> QED BY <2>4, <3>1 DEF StopIdx, old
    <2>7. rem = PacketLen(n, n, mps, nb) - s[n]
      <3>1. n \in 1 .. Len(out.moved) /\ idx[n] = n - 1
        BY <1>10, <1>13, <2>3, <2>5
      <3>2. \A j \in 1 .. Len(out.moved) : idx[j] = idx[n] => j = n
        BY <1>10, <1>13, <2>5, <3>1
      <3>3. idx[n] \in DOMAIN old /\ DOMAIN old[idx[n]] = DescFields
        BY <1>6, <2>3, <3>1
      <3>4. ran.list[idx[n]].rem = IF ep_char.type = "ISOCHRONOUS" /\ ~ep_char.is_in THEN 0
                                   ELSE old[idx[n]].rem + old[idx[n]].len - out.moved[n]
        <4>1. n \in 1 .. Len(out.moved)
          BY <3>1
        <4> QED BY ONLY <1>4, <3>2, <3>3, <4>1, ExecutedAt
      <3>5. ran.list[idx[n]].rem = old[n - 1].rem + old[n - 1].len - s[n]
        BY <3>1, <3>4
      <3>6. rem = 0 + PacketLen(n, n, mps, nb) - s[n]
        BY <2>4, <3>1, <3>5
      <3> HIDE DEF s, rem
      <3> QED BY ONLY <1>7, <2>1, <2>3, <3>6
    <2> HIDE DEF s, rem
    <2>8. Sum(s) = nb - rem
      BY ONLY <1>1, <2>1, <2>2, <2>7, SumOfIntr, ZenonT(30)
    <2>9. ~ep_char.is_in => Sum(s) = nb
      <3> SUFFICES ASSUME ~ep_char.is_in PROVE Sum(s) = nb
        OBVIOUS
      <3>1. s[n] = PacketLen(n, n, mps, nb)
        BY <1>10, <2>4 DEF s
      <3>2. rem = 0
        BY <1>7, <2>3, <2>7, <3>1
      <3> QED BY <1>1, <2>8, <3>2
    <2>10. new.moved = s /\ new.irp.num_bytes = nb /\ new.list[new.flags.num_qtds - 1].rem = rem
      BY <1>5, <1>11 DEF s, nb, rem
    <2>11. /\ ep_char.is_in => new.stop_idx = 0
           /\ Sum(new.moved) = IF ep_char.is_in
                               THEN new.irp.num_bytes - new.list[new.flags.num_qtds - 1].rem
                               ELSE new.irp.num_bytes
      BY <1>5, <2>6, <2>8, <2>9, <2>10
    <2> QED BY <2>11 DEF Reports
  <1>14. k < n \/ k = n
    BY ONLY <1>1, <1>10
  <1> QED BY <1>12, <1>13, <1>14

\* An isochronous transfer is over.
LEMMA IsocDoneReports ==
    ASSUME ep_char.type = "ISOCHRONOUS", ep_char.is_in \in BOOLEAN, ep_char.interval \in Intervals,
           NEW buf, Shape(buf), buf.irp \in Request_t, buf.moved = << >>, IsocHolds(ep_char, buf),
           PacketsInSchedule(buf.irp, buf.list, buf.flags), ~Empty(buf.irp),
           NEW n, n = Len(buf.irp.packets), NEW start, start = buf.flags.irp_start_idx,
           NEW idx, idx = Frames(start, n, ep_char.interval),
           NEW out \in Outcome(buf.list, idx),
           NEW ran, HasRun(buf, idx, out, ran), NEW stop, NEW new, new = Done(ran, stop)
    PROVE  Reports(ep_char, new)
  <1> DEFINE old == buf.list
             packets == buf.irp.packets
             i == ep_char.interval
  <1>1. n \in Nat /\ \A k \in 1 .. n : packets[k] \in Nat
    BY DEF Request_t
  <1>2. start \in 0 .. 31 /\ n * i \in 1 .. 32
    BY DEF PacketsInSchedule, InPlace
  <1>3. DOMAIN idx = 1 .. n /\ Len(idx) = n
    BY <1>1 DEF Frames
  <1>4. \A k \in 1 .. n : idx[k] = (start + (k - 1) * i) % 32
    BY DEF Frames
  <1>5. \A k \in 1 .. n : old[idx[k]].rem = 0 /\ old[idx[k]].len = packets[k]
    BY <1>4 DEF IsocHolds, Describes
  <1>6. /\ ran.list = Executed(old, idx, out) /\ ran.moved = buf.moved \o out.moved /\ Shape(ran)
        /\ ran.irp = buf.irp /\ ran.flags = buf.flags
    BY DEF HasRun
  <1>7. new.list = ran.list /\ new.irp = buf.irp /\ new.moved = ran.moved /\ new.flags = buf.flags
    BY <1>6, DoneIs
  <1>8. DOMAIN old = 0 .. 31 /\ \A k \in 0 .. 31 : DOMAIN old[k] = DescFields
    BY DEF Shape, ListLen, XFER_LIST_LEN_ISOC
  <1> HIDE DEF old, packets
  <1>9. \A k \in 1 .. n : old[idx[k]].len \in Int
    BY <1>1, <1>5
  <1>10. \A k \in 1 .. n : idx[k] \in 0 .. 31 /\ Behind(start, idx[k]) = (k - 1) * i
    <2> SUFFICES ASSUME NEW k \in 1 .. n PROVE idx[k] \in 0 .. 31 /\ Behind(start, idx[k]) = (k - 1) * i
      OBVIOUS
    <2>1. i \in Intervals
      OBVIOUS
    <2> HIDE DEF i
    <2>2. /\ (start + (k - 1) * i) % 32 \in 0 .. 31
          /\ Behind(start, (start + (k - 1) * i) % 32) = (k - 1) * i
      BY ONLY <1>1, <1>2, <2>1, k \in 1 .. n, FrameOfPacket
    <2>3. idx[k] = (start + (k - 1) * i) % 32
      BY <1>4
    <2> QED BY ONLY <2>2, <2>3
  <1>11. \A k, j \in 1 .. n : idx[j] = idx[k] => j = k
    <2> SUFFICES ASSUME NEW k \in 1 .. n, NEW j \in 1 .. n, idx[j] = idx[k] PROVE j = k
      OBVIOUS
    <2>1. (j - 1) * i = (k - 1) * i
      BY <1>10
    <2> QED BY ONLY <1>1, <2>1, k \in 1 .. n, j \in 1 .. n, ep_char.interval \in Intervals DEF Intervals
  <1>12. IsocMoved(out, old, idx, n, ep_char.is_in)
    <2>1. out \in Outcome(old, idx)
      BY DEF old
    <2> QED BY <1>1, <1>3, <1>9, <2>1, IsocMoves
  <1>13. /\ out.moved \in Seq(Int) /\ Len(out.moved) = n
         /\ \A k \in 1 .. n : k \in out.skipped \/ ep_char.is_in \/ out.moved[k] = packets[k]
    BY <1>5, <1>12 DEF IsocMoved
  <1>14. new.moved = out.moved /\ DOMAIN out.moved = 1 .. n
    BY <1>6, <1>7, <1>13, OnlyRun
  <1>15. ASSUME NEW k \in 1 .. n
         PROVE  ran.list[idx[k]].active \/ packets[k] - ran.list[idx[k]].rem = out.moved[k]
    <2> DEFINE d == ran.list[idx[k]]
               m == out.moved[k]
               p == packets[k]
    <2>1. k \in 1 .. Len(out.moved) /\ idx[k] \in DOMAIN old /\ DOMAIN old[idx[k]] = DescFields
      BY <1>8, <1>10, <1>13
    <2>2. \A j \in 1 .. Len(out.moved) : idx[j] = idx[k] => j = k
      BY <1>11, <1>13
    <2>3. /\ d.rem = IF ep_char.type = "ISOCHRONOUS" /\ ~ep_char.is_in THEN 0
                     ELSE old[idx[k]].rem + old[idx[k]].len - out.moved[k]
          /\ d.active <=> k \in out.skipped
      BY ONLY <1>6, <2>1, <2>2, ExecutedAt
    <2>4. p \in Int /\ m \in Int /\ old[idx[k]].rem = 0 /\ old[idx[k]].len = p
      BY <1>1, <1>5, <1>13
    <2>5. CASE k \in out.skipped
      BY <2>3, <2>5
    <2>6. CASE ep_char.is_in
      <3>1. d.rem = 0 + p - m
        BY <2>3, <2>4, <2>6
      <3> HIDE DEF d, p, m
      <3> QED BY ONLY <2>4, <3>1 DEF d, p, m
    <2>7. CASE k \notin out.skipped /\ ~ep_char.is_in
      <3>1. d.rem = 0 /\ m = p
        BY <1>13, <2>3, <2>7
      <3> QED BY <2>4, <3>1
    <2> QED BY <2>5, <2>6, <2>7
  <1>16. ASSUME NEW k \in 1 .. n
         PROVE  LET d == ran.list[(start + (k - 1) * i) % 32] IN d.active \/ packets[k] - d.rem = out.moved[k]
    BY <1>4, <1>15
  <1> QED BY <1>7, <1>14, <1>16 DEF Reports, packets

-----------------------------------------------------------------------------
(* The bytes of the buffers *)

\* What a buffer holds or reports, in each of its states.
BufferBytes(ep, buf) ==
    /\ buf.state = "free" => buf.moved = << >>
    /\ buf.state = "filled" => Holds(ep, buf)
    /\ buf.state = "done" => Reports(ep, buf)

BytesOK == \A b \in Buf : BufferBytes(ep_char, buffers[b])

\* The channel was given all descriptors of a buffer that is not of a control transfer.
RunsBuffer(ep, flags, c) ==
    /\ ep.type = "BULK" => c.start = 0 /\ c.len \in {1, 2} /\ (c.len # 1 => flags.zero_len_packet)
    /\ ep.type = "INTR" => c.start = 0 /\ c.len = flags.num_qtds
    /\ ep.type = "ISOCHRONOUS" => c.start = flags.irp_start_idx /\ c.len = 32

RunOK == chan.active => RunsBuffer(ep_char, buffers[rd_idx].flags, chan)

\* The descriptors of each type that the channel finds, and in which order, if the
\* request got any.
Finds(ep, buf, idx) ==
    /\ ep.type = "BULK" => idx = [j \in 1 .. 1 |-> 0]
    /\ ep.type = "INTR" /\ ~Empty(buf.irp) => idx = [j \in 1 .. buf.flags.num_qtds |-> j - 1]
    /\ ep.type = "ISOCHRONOUS" /\ ~Empty(buf.irp) =>
          idx = Frames(buf.flags.irp_start_idx, Len(buf.irp.packets), ep.interval)

LEMMA FindsAll ==
    ASSUME EpOK, NEW buf, Holds(ep_char, buf),
           ep_char.type = "ISOCHRONOUS" => PacketsInSchedule(buf.irp, buf.list, buf.flags),
           NEW c, RunsBuffer(ep_char, buf.flags, c),
           NEW idx, idx = Packets(buf.list, c.start, c.len)
    PROVE  Finds(ep_char, buf, idx)
  <1>1. ASSUME ep_char.type = "BULK" PROVE idx = [j \in 1 .. 1 |-> 0]
    <2>1. buf.list[0].active /\ c.start = 0 /\ c.len \in {1, 2} /\ (buf.list[0].hoc \/ c.len = 1)
      BY <1>1 DEF Holds, BulkHolds, Describes, RunsBuffer
    <2> QED BY <1>1, <2>1, BulkRuns
  <1>2. ASSUME ep_char.type = "INTR", ~Empty(buf.irp) PROVE idx = [j \in 1 .. buf.flags.num_qtds |-> j - 1]
    <2> DEFINE n == buf.flags.num_qtds
               list == buf.list
    <2>1. n \in 1 .. 32 /\ \A k \in 1 .. n : list[k - 1].active /\ (list[k - 1].hoc <=> k = n)
      BY <1>2 DEF Holds, IntrHolds, Describes
    <2>2. c.start = 0 /\ c.len = n
      BY <1>2 DEF RunsBuffer
    <2>3. idx = Packets(list, 0, n)
      BY <2>2
    <2> HIDE DEF n, list
    <2>4. Packets(list, 0, n) = [j \in 1 .. n |-> j - 1]
      BY ONLY <1>2, <2>1, IntrRuns
    <2> QED BY ONLY <2>3, <2>4 DEF n
  <1>3. ASSUME ep_char.type = "ISOCHRONOUS", ~Empty(buf.irp)
        PROVE  idx = Frames(buf.flags.irp_start_idx, Len(buf.irp.packets), ep_char.interval)
    <2>1. /\ InPlace(buf.list, buf.flags.irp_start_idx, Len(buf.irp.packets), ep_char.interval)
          /\ ep_char.interval \in Intervals
          /\ c.start = buf.flags.irp_start_idx /\ c.len = 32
      BY <1>3 DEF PacketsInSchedule, EpOK, RunsBuffer
    <2> QED BY <1>3, <2>1, PacketsInPlace DEF Frames
  <1> QED BY <1>1, <1>2, <1>3 DEF Finds

\* One buffer changes.
LEMMA BytesKept ==
    ASSUME ListInv, BytesOK, ep_char' = ep_char, NEW x \in Buf, NEW new,
           buffers' = [buffers EXCEPT ![x] = new], BufferBytes(ep_char, new)
    PROVE  BytesOK'
  <1>1. \A b \in Buf : buffers'[b] = IF b = x THEN new ELSE buffers[b]
    BY DEF ListInv, RingOK
  <1>2. \A b \in Buf : BufferBytes(ep_char, buffers'[b])
    BY <1>1 DEF BytesOK
  <1> QED BY <1>2 DEF BytesOK

\* The channel keeps its buffer.
LEMMA RunKept ==
    ASSUME RunOK, UNCHANGED <<ep_char, chan, rd_idx>>, chan.active => buffers'[rd_idx] = buffers[rd_idx]
    PROVE  RunOK'
  BY DEF RunOK, RunsBuffer

\* _buffer_fill
LEMMA FillBytes == ListInv /\ BytesOK /\ RunOK /\ Fill => BytesOK' /\ RunOK'
  <1> SUFFICES ASSUME ListInv, BytesOK, RunOK, Fill PROVE BytesOK' /\ RunOK'
    OBVIOUS
  <1>1. PICK new :
            /\ buffers' = [buffers EXCEPT ![wr_idx] = new]
            /\ Shape(new) /\ new.state = "filled"
            /\ buffers[wr_idx].moved = << >> => Holds(ep_char, new)
    BY FilledAtWr
  <1>2. /\ UNCHANGED <<ep_char, rd_idx, chan>> /\ buffers[wr_idx].state = "free"
        /\ wr_idx \in Buf /\ rd_idx \in Buf /\ DOMAIN buffers = Buf
        /\ chan.active => IsFilled(rd_idx)
    BY DEF Fill, ListInv, RingOK
  <1>3. BufferBytes(ep_char, new)
    BY <1>1, <1>2 DEF BytesOK, BufferBytes
  <1>4. BytesOK'
    BY <1>1, <1>2, <1>3, BytesKept
  <1>5. chan.active => buffers'[rd_idx] = buffers[rd_idx]
    BY <1>1, <1>2 DEF IsFilled
  <1> QED BY <1>2, <1>4, <1>5, RunKept

\* _buffer_exec
LEMMA ExecBytes == ListInv /\ BytesOK /\ RunOK /\ Exec => BytesOK' /\ RunOK'
  <1> SUFFICES ASSUME ListInv, BytesOK, RunOK, Exec PROVE BytesOK' /\ RunOK'
    OBVIOUS
  <1> DEFINE flags == buffers[rd_idx].flags
  <1>1. /\ UNCHANGED <<ep_char, rd_idx, buffers>>
        /\ chan'.start = ExecStart(flags) /\ chan'.len = ExecLen(flags)
    BY DEF Exec, Activate
  <1>2. BytesOK'
    BY <1>1 DEF BytesOK
  <1>3. RunsBuffer(ep_char, flags, chan')
    BY <1>1 DEF RunsBuffer, ExecStart, ExecLen, XFER_LIST_LEN_BULK, XFER_LIST_LEN_ISOC
  <1> QED BY <1>1, <1>2, <1>3 DEF RunOK, RunsBuffer

\* _buffer_done_error
LEMMA FailBytes == ListInv /\ BytesOK /\ RunOK /\ Fail => BytesOK' /\ RunOK'
  <1> SUFFICES ASSUME ListInv, BytesOK, RunOK, Fail PROVE BytesOK' /\ RunOK'
    OBVIOUS
  <1> DEFINE new == [buffers[rd_idx] EXCEPT !.state = "error"]
  <1>1. /\ buffers' = [buffers EXCEPT ![rd_idx] = new] /\ rd_idx \in Buf /\ ep_char' = ep_char
        /\ Shape(buffers[rd_idx]) /\ ~chan'.active
    BY DEF Fail, NoChan, ListInv, RingOK
  <1>2. new.state = "error"
    BY <1>1, ShapeKept
  <1> HIDE DEF new
  <1>3. BufferBytes(ep_char, new)
    BY <1>2 DEF BufferBytes
  <1> QED BY <1>1, <1>3, BytesKept DEF RunOK

\* _buffer_parse
LEMMA ParseBytes == ListInv /\ BytesOK /\ RunOK /\ Parse => BytesOK' /\ RunOK'
  <1> SUFFICES ASSUME ListInv, BytesOK, RunOK, Parse PROVE BytesOK' /\ RunOK'
    OBVIOUS
  <1>1. PICK list : buffers' = [buffers EXCEPT ![fr_idx] = NewBuffer(list)]
    BY DEF Parse
  <1>2. /\ UNCHANGED <<ep_char, rd_idx, chan>> /\ ~IsFilled(fr_idx)
        /\ fr_idx \in Buf /\ rd_idx \in Buf /\ DOMAIN buffers = Buf
        /\ chan.active => IsFilled(rd_idx)
    BY DEF Parse, ListInv, RingOK, IsFilled
  <1> DEFINE new == NewBuffer(list)
  <1>3. BufferBytes(ep_char, new)
    BY DEF BufferBytes, NewBuffer
  <1>4. buffers' = [buffers EXCEPT ![fr_idx] = new]
    BY <1>1
  <1> HIDE DEF new
  <1>5. BytesOK'
    BY <1>2, <1>3, <1>4, BytesKept
  <1>6. chan.active => buffers'[rd_idx] = buffers[rd_idx]
    BY <1>2, <1>4
  <1> QED BY <1>2, <1>5, <1>6, RunKept

\* The last run of a buffer: of the status stage, or of all packets.
LastRun(buf, idx) ==
    /\ Shape(buf) /\ Holds(ep_char, buf) /\ Finds(ep_char, buf, idx)
    /\ ep_char.type = "CTRL" => /\ StagesInPlace(buf.irp, buf.list, buf.flags)
                                /\ buf.flags.cur_stg = 2
                                /\ chan.dir_in <=> buf.list[buf.flags.cur_stg].in
                                /\ idx = [j \in 1 .. 1 |-> buf.flags.cur_stg]
    /\ ep_char.type = "ISOCHRONOUS" => PacketsInSchedule(buf.irp, buf.list, buf.flags)

\* The buffer ends with it.
LEMMA DoneBytes ==
    ASSUME ListInv, NEW buf, NEW idx, LastRun(buf, idx), NEW out \in Outcome(buf.list, idx), NEW ran, HasRun(buf, idx, out, ran),
           NEW stop, stop = StopIdx(buf.list, idx, out), NEW new, new = Done(ran, stop)
    PROVE  Reports(ep_char, new)
  <1>1. /\ ep_char.is_in \in BOOLEAN /\ ep_char.mps \in Nat /\ ep_char.type \in TransferType
        /\ ep_char.type = "ISOCHRONOUS" => ep_char.interval \in Intervals
        /\ buf.irp \in Request_t /\ Shape(buf)
    BY DEF ListInv, EpOK, Holds, LastRun
  <1>2. CASE ep_char.type = "CTRL"
    <2>1. /\ CtrlHolds(buf) /\ StagesInPlace(buf.irp, buf.list, buf.flags) /\ buf.flags.cur_stg = 2
          /\ chan.dir_in <=> buf.list[buf.flags.cur_stg].in
          /\ idx = [j \in 1 .. 1 |-> buf.flags.cur_stg]
      BY <1>2 DEF Holds, LastRun
    <2>2. PICK m : StageMoved(buf, ran, m)
      BY <1>1, <1>2, <2>1, StageMoves
    <2>3. ran.irp = buf.irp /\ ran.flags = buf.flags /\ Shape(ran)
      BY DEF HasRun
    <2> QED BY ONLY <1>2, <2>1, <2>2, <2>3, new = Done(ran, stop), CtrlDoneReports
  <1>3. CASE ep_char.type = "BULK"
    <2>1. buf.moved = << >> /\ BulkHolds(ep_char, buf) /\ idx = [j \in 1 .. 1 |-> 0]
      BY <1>3 DEF Holds, Finds, LastRun
    <2> QED BY <1>1, <1>3, <2>1, BulkDoneReports
  <1>4. CASE ep_char.type = "INTR" /\ ~Empty(buf.irp)
    <2>1. /\ buf.moved = << >> /\ IntrHolds(ep_char, buf)
          /\ idx = [j \in 1 .. buf.flags.num_qtds |-> j - 1]
      BY <1>4 DEF Holds, Finds, LastRun
    <2> QED BY <1>1, <1>4, <2>1, IntrDoneReports
  <1>5. CASE ep_char.type = "ISOCHRONOUS" /\ ~Empty(buf.irp)
    <2>1. /\ buf.moved = << >> /\ IsocHolds(ep_char, buf)
          /\ PacketsInSchedule(buf.irp, buf.list, buf.flags)
          /\ idx = Frames(buf.flags.irp_start_idx, Len(buf.irp.packets), ep_char.interval)
      BY <1>5 DEF Holds, Finds, LastRun
    <2> QED BY <1>1, <1>5, <2>1, IsocDoneReports
  <1>6. CASE ep_char.type \in {"INTR", "ISOCHRONOUS"} /\ Empty(buf.irp)
    <2>1. new.irp = buf.irp
      BY DoneIs DEF HasRun
    <2> QED BY <1>6, <2>1 DEF Reports
  <1> QED BY <1>1, <1>2, <1>3, <1>4, <1>5, <1>6 DEF TransferType

\* The run that ends a stage which is not the last.
LEMMA StageBytes ==
    ASSUME ep_char.type = "CTRL", NEW buf, Shape(buf), Holds(ep_char, buf),
           StagesInPlace(buf.irp, buf.list, buf.flags), buf.flags.cur_stg < 2,
           chan.dir_in <=> buf.list[buf.flags.cur_stg].in,
           NEW idx, idx = [j \in 1 .. 1 |-> buf.flags.cur_stg],
           NEW out \in Outcome(buf.list, idx), NEW ran, HasRun(buf, idx, out, ran),
           NEW stg, stg = NextStage(buf.flags), NEW new, new = InStage(ran, stg)
    PROVE  Holds(ep_char, new)
  <1>1. CtrlHolds(buf) /\ buf.irp \in Request_t
    BY DEF Holds
  <1>2. PICK m : StageMoved(buf, ran, m)
    BY <1>1, StageMoves
  <1>3. Shape(ran) /\ ran.irp = buf.irp
    BY DEF HasRun
  <1>4. CtrlHolds(new)
    BY <1>1, <1>2, <1>3, CtrlStageHolds
  <1>5. new.irp = buf.irp
    BY <1>3, InStageIs
  <1> QED BY <1>1, <1>4, <1>5 DEF Holds

\* _buffer_check_done, _buffer_done
LEMMA CompleteBytes == ListInv /\ BytesOK /\ RunOK /\ Complete => BytesOK' /\ RunOK'
  <1> SUFFICES ASSUME ListInv, BytesOK, RunOK, Complete PROVE BytesOK' /\ RunOK'
    OBVIOUS
  <1> DEFINE buf == buffers[rd_idx]
             idx == Packets(buf.list, chan.start, chan.len)
  <1>1. PICK out, ran :
            /\ out \in Outcome(buf.list, idx)
            /\ Shape(ran) /\ ran.flags = buf.flags /\ ran.irp = buf.irp /\ ran.state = buf.state
            /\ ran.list = Executed(buf.list, idx, out) /\ ran.moved = buf.moved \o out.moved
            /\ \/ /\ ep_char.type = "CTRL" /\ buf.flags.cur_stg < 2
                  /\ buffers' = [buffers EXCEPT ![rd_idx] = InStage(ran, NextStage(buf.flags))]
                  /\ Activate(NextDir(buf.flags), 1, NextStage(buf.flags), XFER_LIST_LEN_CTRL)
                  /\ UNCHANGED rd_idx
               \/ /\ ~(ep_char.type = "CTRL" /\ buf.flags.cur_stg < 2)
                  /\ \E stop : /\ stop = StopIdx(buf.list, idx, out)
                               /\ buffers' = [buffers EXCEPT ![rd_idx] = Done(ran, stop)]
                  /\ chan' = NoChan
                  /\ rd_idx' = 1 - rd_idx
    BY CompleteIs
  <1>2. /\ ep_char' = ep_char /\ chan.active /\ IsFilled(rd_idx) /\ rd_idx \in Buf
        /\ Shape(buf) /\ EpOK
    BY DEF Complete, ListInv, RingOK
  <1>3. Holds(ep_char, buf) /\ RunsBuffer(ep_char, buf.flags, chan)
    BY <1>2 DEF BytesOK, BufferBytes, RunOK, IsFilled
  <1>4. ep_char.type = "ISOCHRONOUS" => PacketsInSchedule(buf.irp, buf.list, buf.flags)
    BY <1>2 DEF ListInv, StreamOK
  <1>5. ep_char.type = "CTRL" =>
            /\ StagesInPlace(buf.irp, buf.list, buf.flags)
            /\ chan.start = buf.flags.cur_stg /\ chan.len = 3
            /\ chan.dir_in <=> buf.list[buf.flags.cur_stg].in
    BY <1>2 DEF ListInv, CtrlOK, ChanOK
  <1>6. HasRun(buf, idx, out, ran)
    BY <1>1 DEF HasRun
  <1>7. Finds(ep_char, buf, idx)
    <2>1. idx = Packets(buf.list, chan.start, chan.len)
      OBVIOUS
    <2> HIDE DEF buf, idx
    <2> QED BY <1>2, <1>3, <1>4, <2>1, FindsAll
  <1>8. ep_char.type = "CTRL" => idx = [j \in 1 .. 1 |-> buf.flags.cur_stg]
    <2> SUFFICES ASSUME ep_char.type = "CTRL" PROVE idx = [j \in 1 .. 1 |-> buf.flags.cur_stg]
      OBVIOUS
    <2> DEFINE cur == buf.flags.cur_stg
               list == buf.list
    <2>1. cur \in 0 .. 2 /\ list[cur].active /\ list[cur].hoc
      BY <1>5 DEF StagesInPlace
    <2>2. idx = Packets(list, cur, 3)
      BY <1>5
    <2> HIDE DEF cur, list, idx
    <2>3. idx = [j \in 1 .. 1 |-> cur]
      BY <2>1, <2>2, StageRuns
    <2> QED BY <2>3 DEF cur
  <1> HIDE DEF buf, idx
  <1>9. ASSUME NEW stop, stop = StopIdx(buf.list, idx, out), ~(ep_char.type = "CTRL" /\ buf.flags.cur_stg < 2),
               buffers' = [buffers EXCEPT ![rd_idx] = Done(ran, stop)], chan' = NoChan
        PROVE  BytesOK' /\ RunOK'
    <2> DEFINE new == Done(ran, stop)
    <2>1. new = Done(ran, stop) /\ buffers' = [buffers EXCEPT ![rd_idx] = new]
      BY <1>9
    <2> HIDE DEF new
    <2>2. LastRun(buf, idx)
      BY <1>2, <1>3, <1>4, <1>5, <1>7, <1>8, <1>9 DEF LastRun, StagesInPlace, buf
    <2>3. out \in Outcome(buf.list, idx) /\ stop = StopIdx(buf.list, idx, out) /\ ListInv
      BY <1>1, <1>9
    <2>4. Reports(ep_char, new)
      BY ONLY <1>6, <2>1, <2>2, <2>3, DoneBytes
    <2>5. new.state = "done"
      BY <1>1, <2>1, DoneIs
    <2>6. BytesOK'
      BY <1>2, <2>1, <2>4, <2>5, BytesKept DEF BufferBytes
    <2> QED BY <1>9, <2>6 DEF RunOK, NoChan
  <1>10. ASSUME ep_char.type = "CTRL", buf.flags.cur_stg < 2,
                buffers' = [buffers EXCEPT ![rd_idx] = InStage(ran, NextStage(buf.flags))]
         PROVE  BytesOK' /\ RunOK'
    <2> DEFINE stg == NextStage(buf.flags)
               new == InStage(ran, stg)
    <2>1. /\ stg = NextStage(buf.flags) /\ new = InStage(ran, stg)
          /\ buffers' = [buffers EXCEPT ![rd_idx] = new]
      BY <1>10
    <2> HIDE DEF new, stg
    <2>2. out \in Outcome(buf.list, idx)
      BY <1>1
    <2>3. Holds(ep_char, new)
      BY <1>2, <1>3, <1>5, <1>6, <1>8, <1>10, <2>1, <2>2, StageBytes
    <2>4. new.state = "filled"
      <3>1. new.state = ran.state
        BY <1>1, <2>1, InStageIs
      <3> QED BY <1>1, <1>2, <3>1 DEF IsFilled, buf
    <2>5. BytesOK'
      BY <1>2, <2>1, <2>3, <2>4, BytesKept DEF BufferBytes
    <2> QED BY <1>2, <1>10, <2>5 DEF RunOK, RunsBuffer
  <1> QED BY <1>1, <1>9, <1>10 DEF buf, idx

\* The lists, and the bytes.
TransferInv == ListInv /\ BytesOK /\ RunOK

\* A pipe begins with two free buffers that have moved nothing.
LEMMA BytesInit == Init => TransferInv
  <1> SUFFICES ASSUME Init PROVE BytesOK /\ RunOK
    BY TransferInit DEF TransferInv
  <1>1. \A b \in Buf : buffers[b].state = "free" /\ buffers[b].moved = << >>
    BY DEF Init, NewBuffer
  <1>2. ~chan.active
    BY DEF Init, NoChan
  <1> QED BY <1>1, <1>2 DEF BytesOK, BufferBytes, RunOK

\* Every step keeps both.
LEMMA BytesStep == TransferInv /\ [Next]_vars => TransferInv'
  <1> SUFFICES ASSUME TransferInv, [Next]_vars PROVE TransferInv'
    OBVIOUS
  <1>1. ListInv /\ BytesOK /\ RunOK
    BY DEF TransferInv
  <1>2. ListInv'
    BY <1>1, TransferStep
  <1>3. BytesOK' /\ RunOK'
    <2>1. CASE UNCHANGED vars
      <3>1. UNCHANGED <<ep_char, buffers, rd_idx, chan>>
        BY <2>1 DEF vars
      <3> QED BY <1>1, <3>1 DEF BytesOK, BufferBytes, RunOK, RunsBuffer
    <2>2. CASE Next
      BY <1>1, <2>2, FillBytes, ExecBytes, CompleteBytes, FailBytes, ParseBytes DEF Next
    <2> QED BY <2>1, <2>2
  <1> QED BY <1>2, <1>3 DEF TransferInv

-----------------------------------------------------------------------------
(* What the pipe promises of them *)

\* What is said of an IRP that ends is what happened to its bytes: of a control transfer,
\* over all stages, of a bulk transfer, of an interrupt transfer of at least a byte that
\* was not cut short, and of every isochronous packet.  The controller writes the bytes that remain into the
\* descriptors, _buffer_parse reads them there, one or two buffers later.
THEOREM BytesAreReported == Spec => []BytesReported
  <1>1. Init => BytesReported
    BY DEF Init, Nobody, BytesReported
  <1>2. ASSUME TransferInv, BytesReported, [Next]_vars PROVE BytesReported'
    <2>1. ASSUME Parse, buffers[fr_idx].state = "done" PROVE BytesReported'
      <3> DEFINE buf == buffers[fr_idx]
                 packets == IF ep_char.type = "ISOCHRONOUS" THEN 1 .. Len(buf.irp.packets) ELSE {}
                 n == Len(buf.irp.packets)
      <3>1. /\ ep_char' = ep_char
            /\ done' = [result |-> "done", irp |-> buf.irp, actual_num_bytes |-> Actual(buf),
                        actual |-> [k \in packets |-> buf.irp.packets[k] - buf.list[PacketIdx(buf, k)].rem],
                        moved |-> buf.moved,
                        skipped |-> {k \in packets : buf.list[PacketIdx(buf, k)].active}]
        BY <2>1 DEF Parse
      <3>2. /\ done'.irp = buf.irp /\ done'.actual_num_bytes = Actual(buf) /\ done'.moved = buf.moved
            /\ \A k \in packets :
                  /\ done'.actual[k] = buf.irp.packets[k] - buf.list[PacketIdx(buf, k)].rem
                  /\ buf.list[PacketIdx(buf, k)].active => k \in done'.skipped
        BY <3>1
      <3>3. Reports(ep_char, buf) /\ ep_char.type \in TransferType
        <4>1. fr_idx \in Buf
          BY <1>2 DEF TransferInv, ListInv, RingOK
        <4> QED BY <1>2, <2>1, <4>1 DEF TransferInv, BytesOK, BufferBytes, ListInv, EpOK
      <3> HIDE DEF buf
      <3>4. CASE ep_char.type = "CTRL"
        <4>1. done'.actual_num_bytes = Sum(done'.moved) - SETUP_SIZE
          BY <3>2, <3>3, <3>4 DEF Reports, Actual, ActualCtrl
        <4> QED BY <3>1, <3>4, <4>1 DEF BytesReported
      <3>5. CASE ep_char.type = "BULK"
        <4>1. done'.actual_num_bytes = Sum(done'.moved)
          BY <3>2, <3>3, <3>5 DEF Reports, Actual, ActualBulk
        <4> QED BY <3>1, <3>5, <4>1 DEF BytesReported
      <3>6. CASE ep_char.type = "INTR"
        <4>1. ASSUME ~EarlyStop', ~Empty(buf.irp) PROVE done'.actual_num_bytes = Sum(done'.moved)
          <5>1. ~(buf.irp.num_bytes > ep_char.mps * Len(buf.moved))
            BY <3>1, <3>2, <3>6, <4>1 DEF EarlyStop
          <5>2. /\ ep_char.is_in => buf.stop_idx = 0
                /\ Sum(buf.moved) = IF ep_char.is_in
                                    THEN buf.irp.num_bytes - buf.list[buf.flags.num_qtds - 1].rem
                                    ELSE buf.irp.num_bytes
            BY <3>3, <3>6, <4>1, <5>1 DEF Reports
          <5>3. Actual(buf) = Sum(buf.moved)
            BY <3>6, <5>2 DEF Actual, ActualIntr
          <5> QED BY <3>2, <5>3
        <4> QED BY <3>1, <3>2, <3>6, <4>1 DEF BytesReported
      <3>7. CASE ep_char.type = "ISOCHRONOUS" /\ ~Empty(buf.irp)
        <4>1. /\ DOMAIN buf.moved = 1 .. n
              /\ \A k \in 1 .. n :
                    buf.list[PacketIdx(buf, k)].active
                    \/ buf.irp.packets[k] - buf.list[PacketIdx(buf, k)].rem = buf.moved[k]
          BY <3>3, <3>7 DEF Reports, PacketIdx, XFER_LIST_LEN_INTR
        <4>2. packets = 1 .. n
          BY <3>7
        <4> HIDE DEF packets, n
        <4>3. \A k \in DOMAIN done'.moved : k \in done'.skipped \/ done'.actual[k] = done'.moved[k]
          BY <3>2, <4>1, <4>2
        <4> QED BY <3>1, <3>7, <4>3 DEF BytesReported
      <3>8. CASE Empty(buf.irp)
        BY <3>2, <3>8 DEF BytesReported
      <3> QED BY <3>3, <3>4, <3>5, <3>6, <3>7, <3>8 DEF TransferType
    <2>2. ASSUME Parse, buffers[fr_idx].state # "done" PROVE BytesReported'
      <3>1. done' = [Nobody EXCEPT !.result = "error"]
        BY <2>2 DEF Parse
      <3> QED BY <3>1 DEF Nobody, BytesReported
    <2>3. ASSUME Fill \/ Exec \/ Complete \/ Fail PROVE BytesReported'
      <3>1. done' = Nobody
        BY <2>3 DEF Fill, Exec, Complete, Fail
      <3> QED BY <3>1 DEF Nobody, BytesReported
    <2>4. ASSUME UNCHANGED vars PROVE BytesReported'
      BY <1>2, <2>4 DEF vars, BytesReported, EarlyStop
    <2> QED BY <1>2, <2>1, <2>2, <2>3, <2>4 DEF Next
  <1> QED BY <1>1, <1>2, BytesInit, BytesStep, PTL DEF Spec

\* The descriptors a channel finds are those of a request.
AsRequested(descs, irp) ==
    LET Data == IF ep_char.type = "CTRL" THEN SubSeq(descs, 2, Len(descs) - 1) ELSE descs
    IN  /\ Contiguous(Data)
        /\ IF ep_char.type = "ISOCHRONOUS"
           THEN [k \in DOMAIN Data |-> Data[k].len] = irp.packets
           ELSE Sum([k \in DOMAIN Data |-> Data[k].len]) = irp.num_bytes
        /\ ep_char.type = "CTRL" =>
              /\ Len(descs) = IF irp.num_bytes = 0 THEN 2 ELSE 3
              /\ descs[1].setup /\ descs[1].off = 0 /\ descs[1].len = SETUP_SIZE
              /\ \A k \in DOMAIN Data : Data[k].off = SETUP_SIZE /\ ~Data[k].setup
              /\ descs[Len(descs)].len = 0 /\ ~descs[Len(descs)].setup
        /\ ep_char.type # "CTRL" =>
              /\ Data[1].off = 0
              /\ \A k \in DOMAIN Data : Data[k].in = ep_char.is_in
        /\ ep_char.type = "INTR" =>
              \A k \in DOMAIN Data : Data[k].len = ep_char.mps \/ k = Len(Data)

\* One more.
LEMMA OneMore ==
    ASSUME NEW S, NEW s \in Seq(S), NEW x \in S, NEW u, u = s \o <<x>>
    PROVE  /\ u \in Seq(S) /\ Len(u) = Len(s) + 1 /\ u[Len(s) + 1] = x
           /\ \A k \in 1 .. Len(s) : u[k] = s[k]
  <1> DEFINE t == <<x>>
  <1>1. t \in Seq(S) /\ Len(t) = 1 /\ t[1] = x /\ Len(s) \in Nat
    OBVIOUS
  <1> HIDE DEF t
  <1>2. u \in Seq(S) /\ Len(u) = Len(s) + 1
    BY <1>1 DEF t
  <1>3. \A i \in 1 .. Len(s) + 1 : u[i] = IF i <= Len(s) THEN s[i] ELSE t[i - Len(s)]
    BY <1>1, ConcatProperties DEF t
  <1>4. u[Len(s) + 1] = x
    BY <1>1, <1>3
  <1>5. \A k \in 1 .. Len(s) : u[k] = s[k]
    BY <1>1, <1>3
  <1> QED BY <1>2, <1>4, <1>5

\* Two descriptors, and three.
LEMMA Joined ==
    ASSUME NEW a, NEW b, NEW c
    PROVE  /\ <<a>> \o << >> \o <<c>> = <<a, c>>
           /\ <<a>> \o <<b>> \o <<c>> = <<a, b, c>>
           /\ SubSeq(<<a, b, c>>, 2, 2) = <<b>>
  <1> DEFINE S == {a, b, c}
             s == <<a>>
             two(x) == s \o <<x>>
             three == two(b) \o <<c>>
  <1>1. a \in S /\ b \in S /\ c \in S
    OBVIOUS
  <1>2. s \in Seq(S) /\ Len(s) = 1 /\ s[1] = a
    OBVIOUS
  <1>3. s \o << >> = s
    BY <1>2, ConcatEmptySeq
  <1> HIDE DEF S, s
  <1>4. ASSUME NEW x \in S PROVE two(x) \in Seq(S) /\ Len(two(x)) = 2 /\ two(x)[1] = a /\ two(x)[2] = x
    <2> DEFINE u == s \o <<x>>
    <2>1. u \in Seq(S) /\ Len(u) = Len(s) + 1 /\ u[Len(s) + 1] = x /\ \A k \in 1 .. Len(s) : u[k] = s[k]
      <3>1. u = s \o <<x>>
        OBVIOUS
      <3> HIDE DEF u
      <3> QED BY <1>2, <1>4, <3>1, OneMore
    <2> HIDE DEF u
    <2>2. u \in Seq(S) /\ Len(u) = 2 /\ u[1] = a /\ u[2] = x
      BY <1>2, <2>1
    <2> QED BY <2>2 DEF u
  <1>5. two(c) = <<a, c>>
    <2> HIDE DEF two
    <2>1. two(c) \in Seq(S) /\ Len(two(c)) = 2 /\ two(c)[1] = a /\ two(c)[2] = c
      BY <1>1, <1>4
    <2> QED BY <2>1
  <1>6. three = <<a, b, c>>
    <2> DEFINE t == two(b)
    <2>1. t \in Seq(S) /\ Len(t) = 2 /\ t[1] = a /\ t[2] = b
      BY <1>1, <1>4
    <2> HIDE DEF t
    <2> DEFINE u == t \o <<c>>
    <2>2. u \in Seq(S) /\ Len(u) = Len(t) + 1 /\ u[Len(t) + 1] = c /\ \A k \in 1 .. Len(t) : u[k] = t[k]
      <3>1. u = t \o <<c>>
        OBVIOUS
      <3> HIDE DEF u
      <3> QED BY <1>1, <2>1, <3>1, OneMore
    <2> HIDE DEF u
    <2>3. u \in Seq(S) /\ Len(u) = 3 /\ u[1] = a /\ u[2] = b /\ u[3] = c
      BY <2>1, <2>2
    <2>4. u = <<a, b, c>>
      BY <2>3
    <2> QED BY <2>4 DEF u, t
  <1>7. SubSeq(<<a, b, c>>, 2, 2) = <<b>>
    <2> DEFINE w == <<a, b, c>>
               t == SubSeq(w, 2, 2)
    <2>1. w \in Seq(S) /\ Len(w) = 3 /\ w[2] = b
      BY <1>1
    <2> HIDE DEF w
    <2>2. t \in Seq(S) /\ Len(t) = 1 /\ t[1] = b
      BY <2>1
    <2> HIDE DEF t
    <2>3. t = <<b>>
      BY <2>2
    <2> QED BY <2>3 DEF w, t
  <1> QED BY <1>3, <1>5, <1>6, <1>7 DEF s

\* A control transfer: setup, data if there are any, status.
LEMMA CtrlAsRequested ==
    ASSUME ep_char.type = "CTRL", NEW buf, buf.moved = << >>, CtrlHolds(buf),
           StagesInPlace(buf.irp, buf.list, buf.flags),
           NEW descs, descs = IfActive(buf.list[0]) \o IfActive(buf.list[1]) \o IfActive(buf.list[2])
    PROVE  AsRequested(descs, buf.irp)
  <1> DEFINE n == buf.irp.num_bytes
             a == buf.list[0]
             b == buf.list[1]
             c == buf.list[2]
             Data == SubSeq(descs, 2, Len(descs) - 1)
             lens == [k \in DOMAIN Data |-> Data[k].len]
  <1>1. /\ n \in Nat /\ buf.flags.cur_stg = 0
        /\ a.active /\ a.off = 0 /\ a.setup /\ a.len = SETUP_SIZE
        /\ c.active /\ ~c.setup /\ c.len = 0
    BY DEF CtrlHolds, StagesInPlace, Request_t
  <1>2. CASE n = 0
    <2>1. ~b.active
      BY <1>2 DEF CtrlHolds
    <2>2. descs = <<a, c>>
      <3>1. IfActive(a) = <<a>> /\ IfActive(b) = << >> /\ IfActive(c) = <<c>>
        BY <1>1, <2>1 DEF IfActive
      <3>2. descs = <<a>> \o << >> \o <<c>>
        BY <3>1
      <3> QED BY <3>2, Joined
    <2> HIDE DEF a, b, c
    <2>3. Len(descs) = 2 /\ descs[1] = a /\ descs[2] = c
      BY <2>2
    <2>4. Data = << >>
      BY <2>2
    <2> HIDE DEF Data
    <2>5. lens = << >> /\ DOMAIN Data = {} /\ Len(Data) = 0
      BY <2>4
    <2>6. Sum(lens) = n /\ Contiguous(Data)
      BY <1>2, <2>5, SumOfOne DEF Contiguous
    <2> HIDE DEF lens
    <2>7. AsRequested(descs, buf.irp)
      BY <1>1, <1>2, <2>3, <2>5, <2>6 DEF AsRequested, Data, lens
    <2> QED BY <2>7
  <1>3. CASE n # 0
    <2>1. b.active /\ b.off = SETUP_SIZE /\ ~b.setup /\ b.len = n
      BY <1>1, <1>3 DEF CtrlHolds, StagesInPlace
    <2>2. descs = <<a, b, c>>
      <3>1. IfActive(a) = <<a>> /\ IfActive(b) = <<b>> /\ IfActive(c) = <<c>>
        BY <1>1, <2>1 DEF IfActive
      <3>2. descs = <<a>> \o <<b>> \o <<c>>
        BY <3>1
      <3> QED BY <3>2, Joined
    <2> HIDE DEF a, b, c
    <2>3. Len(descs) = 3 /\ descs[1] = a /\ descs[3] = c
      BY <2>2
    <2>4. Data = <<b>>
      <3>1. Data = SubSeq(<<a, b, c>>, 2, 2)
        BY <2>2, <2>3
      <3> QED BY <3>1, Joined
    <2> HIDE DEF Data
    <2>5. DOMAIN Data = 1 .. 1 /\ Data[1] = b /\ Len(Data) = 1
      BY <2>4
    <2>6. lens = [j \in 1 .. 1 |-> n]
      BY <2>1, <2>5
    <2>7. Sum(lens) = n
      BY <1>1, <2>6, SumOfOne
    <2>8. Contiguous(Data) /\ \A k \in DOMAIN Data : Data[k].off = SETUP_SIZE /\ ~Data[k].setup
      BY <2>1, <2>5 DEF Contiguous
    <2> HIDE DEF lens
    <2>9. AsRequested(descs, buf.irp)
      BY <1>1, <1>3, <2>3, <2>7, <2>8 DEF AsRequested, Data, lens
    <2> QED BY <2>9
  <1> QED BY <1>2, <1>3

\* A bulk transfer.
LEMMA BulkAsRequested ==
    ASSUME ep_char.type = "BULK", ep_char.is_in \in BOOLEAN, NEW buf, buf.irp \in Request_t,
           BulkHolds(ep_char, buf), NEW descs, descs = [k \in 1 .. 1 |-> buf.list[0]]
    PROVE  AsRequested(descs, buf.irp)
  <1> DEFINE n == buf.irp.num_bytes
             d == buf.list[0]
             lens == [k \in DOMAIN descs |-> descs[k].len]
  <1>1. n \in Nat /\ d.off = 0 /\ d.len = n /\ d.in = ep_char.is_in
    BY DEF BulkHolds, Describes, Request_t
  <1>2. DOMAIN descs = 1 .. 1 /\ descs[1] = d /\ Len(descs) = 1
    OBVIOUS
  <1> HIDE DEF d
  <1>3. lens = [j \in 1 .. 1 |-> n]
    BY <1>1, <1>2
  <1>4. Sum(lens) = n
    BY <1>1, <1>3, SumOfOne
  <1>5. Contiguous(descs)
    BY <1>2 DEF Contiguous
  <1>6. descs[1].off = 0 /\ \A k \in DOMAIN descs : descs[k].in = ep_char.is_in
    BY <1>1, <1>2
  <1> HIDE DEF lens, n
  <1> QED BY <1>4, <1>5, <1>6 DEF AsRequested, lens, n

\* An interrupt transfer.
LEMMA IntrAsRequested ==
    ASSUME ep_char.type = "INTR", ep_char.is_in \in BOOLEAN, ep_char.mps \in Nat,
           NEW buf, buf.irp \in Request_t, IntrHolds(ep_char, buf),
           NEW n, n = buf.flags.num_qtds, NEW descs, descs = [k \in 1 .. n |-> buf.list[k - 1]]
    PROVE  AsRequested(descs, buf.irp)
  <1> DEFINE mps == ep_char.mps
             nb == buf.irp.num_bytes
             lens == [k \in DOMAIN descs |-> descs[k].len]
  <1>1. n \in 1 .. 32 /\ mps \in Nat /\ nb \in Nat /\ ep_char.is_in \in BOOLEAN
    <2>1. n \in 1 .. 32
      BY DEF IntrHolds
    <2>2. nb \in Nat
      BY DEF Request_t
    <2> QED BY <2>1, <2>2
  <1>2. DOMAIN descs = 1 .. n /\ Len(descs) = n
    BY ONLY <1>1, descs = [k \in 1 .. n |-> buf.list[k - 1]]
  <1>3. \A k \in 1 .. n : /\ descs[k].off = (k - 1) * mps
                          /\ descs[k].len = PacketLen(k, n, mps, nb)
                          /\ descs[k].in = ep_char.is_in
    BY DEF IntrHolds, Describes
  <1>4. \A k \in 1 .. n - 1 : PacketLen(k, n, mps, nb) = mps
    BY ONLY <1>1 DEF PacketLen
  <1>5. \A k \in 1 .. n : PacketLen(k, n, mps, nb) \in Int
    <2> SUFFICES ASSUME NEW k \in 1 .. n PROVE PacketLen(k, n, mps, nb) \in Int
      OBVIOUS
    <2>1. (n - 1) * mps \in Int
      <3>1. n - 1 \in Int /\ mps \in Int
        BY ONLY <1>1
      <3> QED BY <3>1, IntProduct
    <2> HIDE DEF mps, nb
    <2> QED BY ONLY <1>1, <2>1 DEF PacketLen
  <1> HIDE DEF mps, nb
  <1>6. Sum(lens) = nb
    <2>1. lens = [k \in 1 .. n |-> PacketLen(k, n, mps, nb)]
      BY ONLY <1>2, <1>3
    <2>2. lens \in Seq(Int) /\ Len(lens) = n
      BY ONLY <1>1, <1>5, <2>1
    <2>3. \A j \in 1 .. n - 1 : lens[j] = PacketLen(j, n, mps, nb)
      BY ONLY <1>1, <2>1
    <2>4. lens[n] = PacketLen(n, n, mps, nb) /\ lens[n] \in Int
      BY ONLY <1>1, <1>5, <2>1
    <2>5. 0 = PacketLen(n, n, mps, nb) - lens[n]
      BY ONLY <2>4
    <2> HIDE DEF lens
    <2>6. ASSUME NEW rem, rem = 0 PROVE Sum(lens) = nb - rem
      <3>1. rem = PacketLen(n, n, mps, nb) - lens[n]
        BY ONLY <2>5, <2>6
      <3> QED BY ONLY <1>1, <2>2, <2>3, <3>1, SumOfIntr, ZenonT(30)
    <2> QED BY ONLY <1>1, <2>6
  <1>7. Contiguous(descs)
    <2> SUFFICES ASSUME NEW k \in 2 .. n PROVE descs[k].off = descs[k - 1].off + descs[k - 1].len
      BY <1>2 DEF Contiguous
    <2>1. k \in 1 .. n /\ k - 1 \in 1 .. n /\ k - 1 \in 1 .. n - 1 /\ (k - 1) - 1 = k - 2 /\ k - 2 \in Int
      BY ONLY <1>1, k \in 2 .. n
    <2>2. descs[k].off = (k - 1) * mps /\ descs[k - 1].off = (k - 2) * mps /\ descs[k - 1].len = mps
      BY ONLY <1>3, <1>4, <2>1
    <2>3. (k - 1) * mps = (k - 2) * mps + mps
      BY ONLY <1>1, <2>1
    <2> QED BY ONLY <2>2, <2>3
  <1>8. \A k \in DOMAIN descs : descs[k].len = mps \/ k = Len(descs)
    BY ONLY <1>1, <1>2, <1>3, <1>4
  <1>9. descs[1].off = 0 /\ \A k \in DOMAIN descs : descs[k].in = ep_char.is_in
    <2>1. 1 \in 1 .. n /\ (1 - 1) * mps = 0
      BY ONLY <1>1
    <2> QED BY ONLY <1>2, <1>3, <2>1
  <1> HIDE DEF lens
  <1> QED BY <1>6, <1>7, <1>8, <1>9 DEF AsRequested, lens, nb, mps

\* An isochronous transfer.
LEMMA IsocAsRequested ==
    ASSUME ep_char.type = "ISOCHRONOUS", ep_char.is_in \in BOOLEAN, ep_char.interval \in Intervals,
           NEW buf, buf.irp \in Request_t, IsocHolds(ep_char, buf),
           PacketsInSchedule(buf.irp, buf.list, buf.flags), ~Empty(buf.irp),
           NEW n, n = Len(buf.irp.packets), NEW idx,
           idx = Frames(buf.flags.irp_start_idx, n, ep_char.interval),
           NEW descs, descs = [k \in 1 .. n |-> buf.list[idx[k]]]
    PROVE  AsRequested(descs, buf.irp)
  <1> DEFINE packets == buf.irp.packets
             off == Total(packets)
             lens == [k \in DOMAIN descs |-> descs[k].len]
  <1>1. packets \in Seq(Nat) /\ n = Len(packets) /\ n \in Nat
    BY DEF Request_t
  <1>2. n >= 1
    <2>1. n * ep_char.interval \in 1 .. 32
      BY DEF PacketsInSchedule, InPlace
    <2> DEFINE i == ep_char.interval
    <2>2. n \in Nat /\ i \in Intervals /\ n * i \in 1 .. 32
      BY <1>1, <2>1
    <2> HIDE DEF i
    <2> QED BY ONLY <2>2 DEF Intervals
  <1>3. \A k \in 1 .. n : descs[k].off = off[k - 1] /\ descs[k].len = packets[k] /\ descs[k].in = ep_char.is_in
    <2>1. \A k \in 1 .. n : idx[k] = (buf.flags.irp_start_idx + (k - 1) * ep_char.interval) % 32
      BY DEF Frames
    <2> QED BY <2>1 DEF IsocHolds, Describes
  <1>4. DOMAIN descs = 1 .. n /\ Len(descs) = n
    BY <1>1
  <1> HIDE DEF packets
  <1>5. off[0] = 0 /\ \A k \in 1 .. n : off[k] = off[k - 1] + packets[k]
    <2>1. packets \in Seq(Int)
      BY ONLY <1>1
    <2>2. IsSums(Total(packets), packets, Len(packets))
      BY ONLY <2>1, TotalIs
    <2> QED BY ONLY <1>1, <2>2 DEF IsSums
  <1> HIDE DEF off
  <1>6. Contiguous(descs)
    <2> SUFFICES ASSUME NEW k \in 2 .. n PROVE descs[k].off = descs[k - 1].off + descs[k - 1].len
      BY <1>4 DEF Contiguous
    <2>1. k \in 1 .. n /\ k - 1 \in 1 .. n
      BY ONLY <1>1, k \in 2 .. n
    <2> QED BY ONLY <1>3, <1>5, <2>1
  <1>7. lens = packets
    <2>1. lens = [k \in 1 .. n |-> packets[k]]
      BY ONLY <1>3, <1>4
    <2> QED BY ONLY <1>1, <2>1
  <1>8. descs[1].off = 0 /\ \A k \in DOMAIN descs : descs[k].in = ep_char.is_in
    <2>1. 1 \in 1 .. n /\ 1 - 1 = 0
      BY ONLY <1>1, <1>2
    <2> QED BY ONLY <1>3, <1>4, <1>5, <2>1
  <1> HIDE DEF lens
  <1> QED BY <1>6, <1>7, <1>8 DEF AsRequested, lens, packets

\* A filled buffer describes its request, whatever earlier requests have left in its list:
\* the channel finds the bytes of the request, each once and in order, and nothing else.
\* That is for every request that the assertions of the fill functions let through, but
\* for the two that get no descriptor, which they let through as well: an interrupt
\* transfer of no bytes, and an isochronous one of no packets (Empty).
THEOREM RequestDescribed == Spec => []DescribesRequest
  <1>1. TransferInv => DescribesRequest
    <2> SUFFICES ASSUME TransferInv, NEW b \in Requested
                 PROVE  AsRequested(Described(b), buffers[b].irp)
      BY DEF DescribesRequest, AsRequested
    <2> DEFINE buf == buffers[b]
    <2>1. b \in Buf /\ IsFilled(b) /\ buf.moved = << >> /\ ~Empty(buf.irp)
      BY DEF Requested, FilledBuffers, IsFilled
    <2>2. EpOK /\ Holds(ep_char, buf) /\ buf.irp \in Request_t /\ ListInv
      BY <2>1 DEF TransferInv, BytesOK, BufferBytes, IsFilled, Holds, ListInv
    <2>3. ep_char.type \in TransferType /\ ep_char.is_in \in BOOLEAN /\ ep_char.mps \in Nat
      BY <2>2 DEF EpOK
    <2>4. CASE ep_char.type = "CTRL"
      <3>1. StagesInPlace(buf.irp, buf.list, buf.flags) /\ CtrlHolds(buf)
        BY <2>1, <2>2, <2>4 DEF ListInv, CtrlOK, Holds
      <3>2. Described(b) = IfActive(buf.list[0]) \o IfActive(buf.list[1]) \o IfActive(buf.list[2])
        BY <2>4 DEF Described
      <3> HIDE DEF buf
      <3> QED BY <2>1, <2>4, <3>1, <3>2, CtrlAsRequested DEF buf
    <2>5. CASE ep_char.type # "CTRL"
      <3> DEFINE c == [start |-> ExecStart(buf.flags), len |-> ExecLen(buf.flags)]
                 idx == Packets(buf.list, c.start, c.len)
                 descs == [k \in 1 .. Len(idx) |-> buf.list[idx[k]]]
      <3>1. Described(b) = descs
        BY <2>5 DEF Described
      <3>2. RunsBuffer(ep_char, buf.flags, c)
        BY DEF RunsBuffer, ExecStart, ExecLen, XFER_LIST_LEN_BULK, XFER_LIST_LEN_ISOC
      <3>3. ep_char.type = "ISOCHRONOUS" =>
                PacketsInSchedule(buf.irp, buf.list, buf.flags) /\ ep_char.interval \in Intervals
        BY <2>1, <2>2 DEF ListInv, StreamOK, EpOK
      <3>4. idx = Packets(buf.list, c.start, c.len) /\ descs = [k \in 1 .. Len(idx) |-> buf.list[idx[k]]]
        OBVIOUS
      <3> HIDE DEF buf, c, idx, descs
      <3>5. Finds(ep_char, buf, idx)
        BY <2>2, <3>2, <3>3, <3>4, FindsAll
      <3>6. CASE ep_char.type = "BULK"
        <4>1. idx = [j \in 1 .. 1 |-> 0] /\ BulkHolds(ep_char, buf)
          BY <2>2, <3>5, <3>6 DEF Finds, Holds
        <4>2. descs = [k \in 1 .. 1 |-> buf.list[0]]
          BY <3>4, <4>1
        <4> QED BY <2>2, <2>3, <3>1, <3>6, <4>1, <4>2, BulkAsRequested DEF buf
      <3>7. CASE ep_char.type = "INTR"
        <4> DEFINE n == buf.flags.num_qtds
        <4>1. idx = [j \in 1 .. n |-> j - 1] /\ IntrHolds(ep_char, buf)
          BY <2>1, <2>2, <3>5, <3>7 DEF Finds, Holds, buf
        <4>2. n \in 1 .. 32 /\ n = buf.flags.num_qtds
          BY <4>1 DEF IntrHolds
        <4> HIDE DEF n
        <4>3. descs = [k \in 1 .. n |-> buf.list[k - 1]]
          <5>1. n \in Nat
            BY ONLY <4>2
          <5>2. Len(idx) = n
            BY ONLY <4>1, <5>1
          <5>3. \A k \in 1 .. n : idx[k] = k - 1
            BY ONLY <4>1
          <5> QED BY ONLY <3>4, <5>2, <5>3
        <4>4. AsRequested(descs, buf.irp)
          BY ONLY <2>2, <2>3, <3>7, <4>1, <4>2, <4>3, IntrAsRequested
        <4> QED BY <3>1, <4>4 DEF buf
      <3>8. CASE ep_char.type = "ISOCHRONOUS"
        <4> DEFINE n == Len(buf.irp.packets)
        <4>1. idx = Frames(buf.flags.irp_start_idx, n, ep_char.interval) /\ IsocHolds(ep_char, buf)
          BY <2>1, <2>2, <3>5, <3>8 DEF Finds, Holds, buf
        <4>2. n \in Nat
          BY <2>2 DEF Request_t
        <4>3. Len(idx) = n
          BY <4>1, <4>2 DEF Frames
        <4>4. descs = [k \in 1 .. n |-> buf.list[idx[k]]]
          BY <3>4, <4>3
        <4>5. /\ n = Len(buf.irp.packets) /\ ep_char.interval \in Intervals
              /\ PacketsInSchedule(buf.irp, buf.list, buf.flags)
          BY <3>3, <3>8
        <4> HIDE DEF n
        <4>6. AsRequested(descs, buf.irp)
          BY ONLY <2>1, <2>2, <2>3, <3>8, <4>1, <4>4, <4>5, IsocAsRequested DEF buf
        <4> QED BY <3>1, <4>6 DEF buf
      <3> QED BY <2>3, <2>5, <3>6, <3>7, <3>8 DEF TransferType
    <2> QED BY <2>4, <2>5
  <1> QED BY <1>1, BytesInit, BytesStep, PTL DEF Spec

=============================================================================
