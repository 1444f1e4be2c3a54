---------------------------- MODULE ParserProofs ----------------------------
(***************************************************************************)
(* The walk over a configuration finds what it should (FindsFirst), for    *)
(* any configurations: of any length, of any descriptors in any order.     *)
(* A search has passed over nothing that it was looking for; what it ends  *)
(* with is therefore the first.                                            *)
(*                                                                         *)
(* The parser of report maps agrees with the layout that a map describes   *)
(* (LayoutAgrees), and the wheel is read as it was sent (WheelIsRead), for *)
(* maps of any items that the parser can read: it is always where an item  *)
(* begins, and the invariant says what is pending there, what has passed,  *)
(* and where the fields so far end.                                        *)
(***************************************************************************)
EXTENDS MCParsers, WellFoundedInduction, TLAPS

-----------------------------------------------------------------------------
(* The first of a set *)

\* k is the first of S, or 0.
IsFirst(S, k) == IF S = {} THEN k = 0 ELSE k \in S /\ \A l \in S : k <= l

\* There is one first.
LEMMA FirstIsFirst ==
    ASSUME NEW S \in SUBSET Nat, NEW k, IsFirst(S, k)
    PROVE  k = FirstOf(S)
  <1>1. CASE S = {}
    BY <1>1 DEF IsFirst, FirstOf
  <1>2. CASE S # {}
    <2>1. k \in S /\ \A l \in S : k <= l
      BY <1>2 DEF IsFirst
    <2>2. FirstOf(S) \in S /\ \A l \in S : FirstOf(S) <= l
      BY <1>2, <2>1 DEF FirstOf
    <2>3. k <= FirstOf(S) /\ FirstOf(S) <= k /\ k \in Nat /\ FirstOf(S) \in Nat
      BY <2>1, <2>2
    <2> QED BY <2>3
  <1> QED BY <1>1, <1>2

-----------------------------------------------------------------------------
(* What the searches have seen *)

Interfaces == {k \in DOMAIN cfg : cfg[k].type = "INTERFACE" /\ cfg[k].class = Class}

InEndpoints(itf) == {k \in After(itf) : cfg[k].type = "ENDPOINT" /\ cfg[k].dir = 1}

WalkType ==
    /\ cfg \in Seq(Descriptor_t)
    /\ next \in Nat \ {0}
    /\ stage \in {"itf", "in", "out", "done"}
    /\ found \in [itf : Nat, in : Nat, out : Nat]

\* The search for an interface.
SeeksInterface ==
    stage = "itf" => found.itf = 0 /\ found.in = 0 /\ \A k \in Interfaces : next <= k

HasInterface ==
    /\ stage # "itf" => IsFirst(Interfaces, found.itf)
    /\ stage \in {"in", "out"} => found.itf # 0

\* The search for an IN endpoint behind the interface.
SeeksIn ==
    stage = "in" => /\ found.itf <= next /\ found.in = 0
                    /\ \A k \in InEndpoints(found.itf) : next <= k

HasIn == stage \in {"out", "done"} /\ found.itf # 0 => IsFirst(InEndpoints(found.itf), found.in)

WalkInv == WalkType /\ SeeksInterface /\ HasInterface /\ SeeksIn /\ HasIn

\* Where the pointer can be: at a descriptor, or behind the last one.
LEMMA Indexes ==
    ASSUME WalkType
    PROVE  /\ \A k : k \in DOMAIN cfg <=> k \in Nat /\ 1 <= k /\ k <= Len(cfg)
           /\ Len(cfg) \in Nat
           /\ \A k \in DOMAIN cfg : cfg[k] \in Descriptor_t
           /\ Type(next) = "END" => \A k \in DOMAIN cfg : k < next
           /\ \A k \in Nat : Type(k) # "END" <=> k \in DOMAIN cfg
  <1>1. /\ DOMAIN cfg = 1 .. Len(cfg) /\ Len(cfg) \in Nat
        /\ \A k \in DOMAIN cfg : cfg[k] \in Descriptor_t
    BY DEF WalkType
  <1>2. \A k \in DOMAIN cfg : cfg[k].type # "END"
    BY <1>1 DEF Descriptor_t
  <1> QED BY <1>1, <1>2 DEF Type, WalkType

\* One turn of a loop.
LEMMA SkipKeeps == WalkInv /\ Skip => WalkInv'
  <1> SUFFICES ASSUME WalkInv, Skip PROVE WalkInv'
    OBVIOUS
  <1>1. WalkType /\ next \in Nat \ {0}
    BY DEF WalkInv, WalkType
  <1>2. /\ next' \in {next, next + 1} /\ UNCHANGED <<cfg, stage, found>>
        /\ next \in DOMAIN cfg /\ ~Wanted(next) /\ stage # "done"
    BY <1>1, Indexes DEF Skip, Advance
  <1>3. WalkType'
    BY <1>1, <1>2 DEF WalkType
  <1>4. Interfaces' = Interfaces /\ InEndpoints(found.itf)' = InEndpoints(found.itf)
    BY <1>2 DEF Interfaces, InEndpoints, After
  <1>5. SeeksInterface'
    <2> SUFFICES ASSUME stage = "itf", NEW k \in Interfaces PROVE next' <= k
      <3>1. stage = "itf" => found.itf = 0 /\ found.in = 0
        BY DEF WalkInv, SeeksInterface
      <3> QED BY <1>2, <1>4, <3>1 DEF SeeksInterface
    <2>1. k # next
      BY <1>2 DEF Wanted, IsInterface, Type, Interfaces
    <2>2. next <= k /\ k \in Nat
      BY <1>1, Indexes DEF WalkInv, SeeksInterface, Interfaces
    <2> QED BY <1>1, <1>2, <2>1, <2>2
  <1>6. SeeksIn'
    <2> SUFFICES ASSUME stage = "in", NEW k \in InEndpoints(found.itf) PROVE next' <= k
      <3>1. stage = "in" => found.itf <= next' /\ found.in = 0
        BY <1>1, <1>2 DEF WalkInv, SeeksIn, WalkType
      <3> QED BY <1>2, <1>4, <3>1 DEF SeeksIn
    <2>1. k # next
      BY <1>2 DEF Wanted, IsEndpoint, Type, InEndpoints
    <2>2. next <= k /\ k \in Nat
      BY <1>1, Indexes DEF WalkInv, SeeksIn, InEndpoints, After
    <2> QED BY <1>1, <1>2, <2>1, <2>2
  <1>7. HasInterface' /\ HasIn'
    BY <1>2, <1>4 DEF WalkInv, HasInterface, HasIn
  <1> QED BY <1>3, <1>5, <1>6, <1>7 DEF WalkInv

\* A search ends with a descriptor, which is the first.
LEMMA FoundKeeps == WalkInv /\ Found => WalkInv'
  <1> SUFFICES ASSUME WalkInv, Found PROVE WalkInv'
    OBVIOUS
  <1>1. WalkType /\ next \in Nat \ {0} /\ found \in [itf : Nat, in : Nat, out : Nat]
    BY DEF WalkInv, WalkType
  <1>2. /\ cfg' = cfg /\ Wanted(next) /\ stage' = Following[stage] /\ next' = found'.itf
        /\ found' = [found EXCEPT ![stage] = next] /\ stage \in {"itf", "in", "out"}
    BY DEF Found, WalkInv, WalkType
  <1>3. Interfaces' = Interfaces /\ \A k : InEndpoints(k)' = InEndpoints(k)
    BY <1>2 DEF Interfaces, InEndpoints, After
  <1>4. next \in DOMAIN cfg
    BY <1>1, <1>2, Indexes DEF Wanted, IsInterface, IsEndpoint, Type
  <1>5. CASE stage = "itf"
    <2>1. /\ stage' = "in" /\ found'.itf = next /\ next' = next
          /\ found' \in [itf : Nat, in : Nat, out : Nat]
      BY <1>1, <1>2, <1>5 DEF Following
    <2>2. next \in Interfaces
      BY <1>2, <1>4, <1>5 DEF Wanted, IsInterface, Type, Interfaces
    <2>3. IsFirst(Interfaces, next)
      BY <1>5, <2>2 DEF WalkInv, SeeksInterface, IsFirst
    <2>4. SeeksIn'
      <3> SUFFICES ASSUME NEW k \in InEndpoints(next) PROVE next <= k
        <4>1. found'.in = 0
          BY <1>1, <1>2, <1>5 DEF WalkInv, SeeksInterface
        <4> QED BY <1>1, <1>3, <2>1, <4>1 DEF SeeksIn
      <3> QED BY <1>1, Indexes DEF InEndpoints, After
    <2>5. WalkType'
      BY <1>1, <1>2, <2>1 DEF WalkType
    <2> QED BY <1>1, <1>3, <2>1, <2>3, <2>4, <2>5 DEF WalkInv, SeeksInterface, HasInterface, HasIn
  <1>6. CASE stage = "in"
    <2>1. /\ stage' = "out" /\ found'.itf = found.itf /\ found'.in = next /\ next' = found.itf
          /\ found' \in [itf : Nat, in : Nat, out : Nat]
      BY <1>1, <1>2, <1>6 DEF Following
    <2>2. found.itf # 0 /\ IsFirst(Interfaces, found.itf)
      BY <1>6 DEF WalkInv, HasInterface
    <2>3. next \in InEndpoints(found.itf)
      <3>1. cfg[next].type = "ENDPOINT" /\ cfg[next].dir = 1
        BY <1>2, <1>4, <1>6 DEF Wanted, IsEndpoint, Type
      <3>2. cfg[found.itf].type = "INTERFACE" /\ found.itf \in Nat
        BY <1>1, <2>2 DEF IsFirst, Interfaces
      <3>3. found.itf <= next /\ found.itf # next
        BY <1>6, <3>1, <3>2 DEF WalkInv, SeeksIn
      <3> QED BY <1>1, <1>4, <3>1, <3>2, <3>3 DEF InEndpoints, After
    <2>4. IsFirst(InEndpoints(found.itf), next)
      BY <1>6, <2>3 DEF WalkInv, SeeksIn, IsFirst
    <2>5. WalkType'
      BY <1>1, <1>2, <2>1, <2>2 DEF WalkType
    <2> QED BY <1>3, <2>1, <2>2, <2>4, <2>5 DEF WalkInv, SeeksInterface, SeeksIn, HasInterface, HasIn
  <1>7. CASE stage = "out"
    <2>1. /\ stage' = "done" /\ found'.itf = found.itf /\ found'.in = found.in /\ next' = found.itf
          /\ found' \in [itf : Nat, in : Nat, out : Nat]
      BY <1>1, <1>2, <1>7 DEF Following
    <2>2. found.itf # 0 /\ IsFirst(Interfaces, found.itf) /\ IsFirst(InEndpoints(found.itf), found.in)
      BY <1>7 DEF WalkInv, HasInterface, HasIn
    <2>3. WalkType'
      BY <1>1, <1>2, <2>1, <2>2 DEF WalkType
    <2> QED BY <1>3, <2>1, <2>2, <2>3 DEF WalkInv, SeeksInterface, SeeksIn, HasInterface, HasIn
  <1> QED BY <1>2, <1>5, <1>6, <1>7

\* A search comes to the end: there is none.
LEMMA NotFoundKeeps == WalkInv /\ NotFound => WalkInv'
  <1> SUFFICES ASSUME WalkInv, NotFound PROVE WalkInv'
    OBVIOUS
  <1>1. WalkType /\ next \in Nat \ {0} /\ found \in [itf : Nat, in : Nat, out : Nat]
    BY DEF WalkInv, WalkType
  <1>2. /\ UNCHANGED <<cfg, found>> /\ stage \in {"itf", "in", "out"}
        /\ stage' = IF stage = "itf" THEN "done" ELSE Following[stage]
        /\ next' = IF stage = "itf" THEN next ELSE found.itf
        /\ \A k \in DOMAIN cfg : k < next /\ k \in Nat
    BY <1>1, Indexes DEF NotFound, WalkInv, WalkType
  <1>3. Interfaces' = Interfaces /\ \A k : InEndpoints(k)' = InEndpoints(k)
    BY <1>2 DEF Interfaces, InEndpoints, After
  <1>4. Interfaces \subseteq DOMAIN cfg /\ \A k : InEndpoints(k) \subseteq DOMAIN cfg
    BY DEF Interfaces, InEndpoints, After
  <1>5. CASE stage = "itf"
    <2>1. stage' = "done" /\ next' = next
      BY <1>2, <1>5
    <2>2. Interfaces = {}
      <3> SUFFICES ASSUME NEW k \in Interfaces PROVE FALSE
        OBVIOUS
      <3>1. next <= k /\ k < next /\ k \in Nat
        BY <1>2, <1>4, <1>5 DEF WalkInv, SeeksInterface
      <3> QED BY <1>1, <3>1
    <2>3. found.itf = 0
      BY <1>5 DEF WalkInv, SeeksInterface
    <2> QED BY <1>1, <1>2, <1>3, <2>1, <2>2, <2>3
            DEF WalkInv, WalkType, SeeksInterface, SeeksIn, HasInterface, HasIn, IsFirst
  <1>6. CASE stage \in {"in", "out"}
    <2>1. /\ stage' \in {"out", "done"} /\ next' = found.itf
          /\ found.itf # 0 /\ IsFirst(Interfaces, found.itf)
      BY <1>2, <1>6 DEF Following, WalkInv, HasInterface
    <2>2. IsFirst(InEndpoints(found.itf), found.in)
      <3>1. CASE stage = "out"
        BY <2>1, <3>1 DEF WalkInv, HasIn
      <3>2. CASE stage = "in"
        <4>1. InEndpoints(found.itf) = {}
          <5> SUFFICES ASSUME NEW k \in InEndpoints(found.itf) PROVE FALSE
            OBVIOUS
          <5>1. next <= k /\ k < next /\ k \in Nat
            BY <1>2, <1>4, <3>2 DEF WalkInv, SeeksIn
          <5> QED BY <1>1, <5>1
        <4>2. found.in = 0
          BY <3>2 DEF WalkInv, SeeksIn
        <4> QED BY <4>1, <4>2 DEF IsFirst
      <3> QED BY <1>6, <3>1, <3>2
    <2>3. WalkType'
      BY <1>1, <1>2, <2>1 DEF WalkType
    <2> QED BY <1>2, <1>3, <2>1, <2>2, <2>3 DEF WalkInv, SeeksInterface, SeeksIn, HasInterface, HasIn
  <1> QED BY <1>2, <1>5, <1>6

-----------------------------------------------------------------------------

\* The walk begins at the first descriptor, with nothing found.
LEMMA WalkInit ==
    ASSUME cfg \in Seq(Descriptor_t), AtStart
    PROVE  WalkInv
  <1>1. WalkType
    BY DEF AtStart, WalkType
  <1>2. \A k \in Interfaces : 1 <= k
    BY <1>1, Indexes DEF Interfaces
  <1> QED BY <1>1, <1>2 DEF AtStart, WalkInv, SeeksInterface, SeeksIn, HasInterface, HasIn

\* What it ends with is what was meant: the endpoint behind the interface is one of the
\* interface, if this has any.
LEMMA WalkFinds == WalkInv => FindsFirst
  <1> SUFFICES ASSUME WalkInv, stage = "done"
               PROVE  /\ found.itf = Interface
                      /\ found.itf # 0 /\ EndpointsOf(found.itf, 1) # {}
                             => found.in = FirstOf(EndpointsOf(found.itf, 1))
    BY DEF FindsFirst
  <1>1. WalkType
    BY DEF WalkInv
  <1>2. IsFirst(Interfaces, found.itf) /\ Interfaces \in SUBSET Nat
    BY <1>1, Indexes DEF WalkInv, HasInterface, Interfaces
  <1>3. found.itf = Interface
    BY <1>2, FirstIsFirst DEF Interface, Interfaces
  <1>4. ASSUME found.itf # 0, EndpointsOf(found.itf, 1) # {}
        PROVE  found.in = FirstOf(EndpointsOf(found.itf, 1))
    <2> DEFINE S == EndpointsOf(found.itf, 1)
               T == InEndpoints(found.itf)
    <2>1. S \subseteq T /\ T \subseteq DOMAIN cfg /\ DOMAIN cfg \subseteq Nat
      BY <1>1, Indexes DEF EndpointsOf, InEndpoints, After
    <2>2. IsFirst(T, found.in)
      BY <1>4 DEF WalkInv, HasIn
    <2>3. found.in \in T /\ \A l \in S : found.in <= l
      BY <1>4, <2>1, <2>2 DEF IsFirst
    <2>4. PICK s \in S : TRUE
      BY <1>4
    <2>5. found.in \in S
      <3> SUFFICES ASSUME NEW l \in After(found.itf), cfg[l].type = "INTERFACE" PROVE l > found.in
        BY <2>3 DEF EndpointsOf, InEndpoints
      <3>1. l > s /\ s >= found.in
        BY <2>3, <2>4 DEF EndpointsOf
      <3>2. l \in Nat /\ s \in Nat /\ found.in \in Nat
        BY <2>1, <2>3, <2>4 DEF After
      <3> QED BY <3>1, <3>2
    <2>6. IsFirst(S, found.in) /\ S \in SUBSET Nat
      BY <2>1, <2>3, <2>5 DEF IsFirst
    <2> QED BY <2>6, FirstIsFirst
  <1> QED BY <1>3, <1>4

\* begin opens the pipes of the first interface of the class that it looks for
\* (getInterfaceByClass, getEndpointByDirection): the walk finds that interface, and its
\* first IN endpoint if it has one, in whatever configuration a device sends.
THEOREM WalkFindsFirst == Parsers => []FindsFirst
  <1>1. ParsersInit => WalkInv
    <2> SUFFICES ASSUME ParsersInit PROVE WalkInv
      OBVIOUS
    <2>1. << Descriptor("CONFIG") >> \in Seq(Descriptor_t)
      <3>1. Descriptor("CONFIG") \in Descriptor_t
        BY DEF Descriptor, Descriptor_t
      <3> HIDE DEF Descriptor_t
      <3> QED BY <3>1
    <2>2. cfg \in Seq(Descriptor_t) /\ AtStart
      BY <2>1, ConfigAssumption DEF ParsersInit
    <2> QED BY <2>2, WalkInit
  <1>2. WalkInv /\ [ConfigStep \/ MapStep]_<<vars, mapVars>> => WalkInv'
    <2> SUFFICES ASSUME WalkInv, ConfigStep \/ UNCHANGED vars PROVE WalkInv'
      BY DEF MapStep
    <2>1. CASE ConfigStep
      BY <2>1, SkipKeeps, FoundKeeps, NotFoundKeeps DEF ConfigStep, Next
    <2>2. CASE UNCHANGED vars
      BY <2>2 DEF vars, WalkInv, WalkType, SeeksInterface, SeeksIn, HasInterface, HasIn, Interfaces,
                  InEndpoints, After
    <2> QED BY <2>1, <2>2
  <1> QED BY <1>1, <1>2, WalkFinds, PTL DEF Parsers

-----------------------------------------------------------------------------
(* Least and greatest *)

\* A set of natural numbers that is not empty has a least one: an induction over the items
\* of a map looks at the least one for which a fact fails.
LEMMA LeastOne ==
    ASSUME NEW T \in SUBSET Nat, T # {}
    PROVE  \E x \in T : \A y \in T : x <= y
  <1>1. \E x \in T : \A y \in T : ~ (<<y, x>> \in OpToRel(<, Nat))
    BY NatLessThanWellFounded, WFMin, Zenon
  <1>2. PICK x \in T : \A y \in T : ~ (<<y, x>> \in OpToRel(<, Nat))
    BY <1>1
  <1>3. \A y \in T : ~(y < x)
    BY <1>2, Zenon DEF OpToRel
  <1> QED BY <1>3

\* And one that is bounded has a greatest one.
LEMMA GreatestOne ==
    ASSUME NEW n \in Nat, NEW S \in SUBSET (0 .. n), S # {}
    PROVE  Max(S) \in S /\ \A y \in S : y <= Max(S)
  <1> DEFINE T == {n - y : y \in S}
  <1>1. T \in SUBSET Nat /\ T # {}
    OBVIOUS
  <1>2. PICK t \in T : \A u \in T : t <= u
    BY <1>1, LeastOne
  <1>3. PICK x \in S : t = n - x
    BY <1>2
  <1>4. \A y \in S : x >= y
    <2> SUFFICES ASSUME NEW y \in S PROVE x >= y
      OBVIOUS
    <2>1. n - x <= n - y
      BY <1>2, <1>3
    <2> QED BY <2>1
  <1>5. Max(S) = CHOOSE m \in S : \A y \in S : m >= y
    BY Zenon DEF Max
  <1> HIDE DEF T
  <1>6. Max(S) \in S /\ \A y \in S : Max(S) >= y
    BY <1>4, <1>5
  <1> QED BY <1>6

\* The least of a set of indexes.
LEMMA LeastIs ==
    ASSUME NEW S \in SUBSET Nat, NEW m \in S, \A y \in S : m <= y
    PROVE  Min(S) = m
  <1> DEFINE x == Min(S)
  <1>1. x = CHOOSE y \in S : \A z \in S : y <= z
    BY Zenon DEF Min
  <1> HIDE DEF x
  <1>2. x \in S /\ x <= m
    BY <1>1
  <1>3. m <= x /\ x \in Nat /\ m \in Nat
    BY <1>2
  <1> QED BY <1>2, <1>3 DEF x

-----------------------------------------------------------------------------
(* The reference *)

\* g is made in n steps from z, the k-th of which is s[k].
Steps(g, z, s, n) == g[1] = z /\ \A k \in 1 .. n : g[k + 1] = s[k][g[k]]

\* Any number of steps can be made.
LEMMA StepsExist ==
    ASSUME NEW n \in Nat, NEW z \in Nat, NEW s \in [1 .. n -> [Nat -> Nat]]
    PROVE  \E g \in [1 .. n + 1 -> Nat] : Steps(g, z, s, n)
  <1> DEFINE P(k) == \E g \in [1 .. k + 1 -> Nat] : Steps(g, z, s, k)
             T == {k \in 0 .. n : ~P(k)}
  <1>0. n \in 0 .. n
    OBVIOUS
  <1> SUFFICES ASSUME T # {} PROVE FALSE
    BY <1>0, Zenon
  <1>1. T \in SUBSET Nat
    OBVIOUS
  <1> HIDE DEF T
  <1>2. PICK x \in T : \A y \in T : x <= y
    BY <1>1, LeastOne
  <1> USE DEF T
  <1> DEFINE first == [k \in 1 .. 1 |-> z]
  <1>3. P(0)
    <2>1. first \in [1 .. 0 + 1 -> Nat] /\ Steps(first, z, s, 0)
      BY DEF Steps
    <2> QED BY <2>1
  <1> HIDE DEF P
  <1>4. x \in 1 .. n /\ x \in Nat
    BY <1>2, <1>3
  <1>5. x - 1 \notin T /\ x - 1 \in 0 .. n
    BY <1>2, <1>4
  <1>6. PICK g \in [1 .. (x - 1) + 1 -> Nat] : Steps(g, z, s, x - 1)
    BY <1>5 DEF P
  <1> DEFINE h == [k \in 1 .. x + 1 |-> IF k = x + 1 THEN s[x][g[x]] ELSE g[k]]
  <1>7. h \in [1 .. x + 1 -> Nat] /\ Steps(h, z, s, x)
    <2>0. (x - 1) + 1 = x
      BY <1>4
    <2>1. g \in [1 .. x -> Nat] /\ g[1] = z /\ \A k \in 1 .. x - 1 : g[k + 1] = s[k][g[k]]
      BY <1>6, <2>0 DEF Steps
    <2>2. s[x][g[x]] \in Nat
      BY <1>4, <2>1
    <2>3. h \in [1 .. x + 1 -> Nat] /\ h[1] = z
      <3>1. \A k \in 1 .. x + 1 : k = x + 1 \/ (k # x + 1 /\ k \in 1 .. x)
        BY <1>4
      <3>2. 1 \in 1 .. x + 1 /\ 1 # x + 1
        BY <1>4
      <3> QED BY <2>1, <2>2, <3>1, <3>2
    <2>4. ASSUME NEW k \in 1 .. x PROVE h[k + 1] = s[k][h[k]]
      <3>1. h[k] = g[k]
        BY <1>4
      <3>2. CASE k = x
        BY <1>4, <3>1, <3>2
      <3>3. CASE k # x
        <4>1. k \in 1 .. x - 1 /\ k + 1 # x + 1 /\ k + 1 \in 1 .. x + 1
          BY <1>4, <3>3
        <4> QED BY <2>1, <3>1, <4>1
      <3> QED BY <3>2, <3>3
    <2> HIDE DEF h
    <2> QED BY <2>3, <2>4 DEF Steps
  <1> HIDE DEF h
  <1> QED BY <1>2, <1>7 DEF P

\* What a sequence is made of.
LEMMA ElementIs == ASSUME NEW S, NEW q \in Seq(S), NEW k \in 1 .. Len(q) PROVE q[k] \in S /\ DOMAIN q = 1 .. Len(q)
  OBVIOUS

\* A byte gives two bits.
LEMMA BytesIs ==
    ASSUME NEW m \in Seq(0 .. 255), NEW k \in 1 .. Len(m)
    PROVE  m[k] \in 0 .. 255 /\ m[k] % 4 \in 0 .. 3
  <1>1. \A v \in 0 .. 255 : v % 4 \in 0 .. 3
    OBVIOUS
  <1>2. m[k] \in 0 .. 255
    BY ElementIs, Zenon
  <1> QED BY <1>1, <1>2

\* The maps that the theorems are about.
Regular(m) == Described(m) /\ Readable(m)

\* How many bytes follow in a value: an item begins where none does.
LEMMA LeftIs ==
    ASSUME NEW m \in Seq(0 .. 255)
    PROVE  /\ Left(m)[1] = 0
           /\ \A k \in 1 .. Len(m) : /\ Left(m)[k] \in Nat
                                     /\ Left(m)[k + 1] = IF Left(m)[k] = 0 THEN Width(m, k) ELSE Left(m)[k] - 1
  <1> DEFINE n == Len(m)
             t == Left(m)
             s == [k \in 1 .. n |-> [x \in Nat |-> IF x = 0 THEN Width(m, k) ELSE x - 1]]
  <1>1. n \in Nat /\ \A k \in 1 .. n : Width(m, k) \in Nat
    BY BytesIs DEF Width
  <1>2. t = CHOOSE f : f = [k \in 1 .. n + 1 |-> IF k = 1 THEN 0
                ELSE IF f[k - 1] = 0 THEN Width(m, k - 1) ELSE f[k - 1] - 1]
    BY Zenon DEF Left
  <1> HIDE DEF t, n
  <1>3. s \in [1 .. n -> [Nat -> Nat]]
    BY <1>1
  <1>4. \A k \in 1 .. n, x \in Nat : s[k][x] = IF x = 0 THEN Width(m, k) ELSE x - 1
    OBVIOUS
  <1> HIDE DEF s
  <1>5. PICK g \in [1 .. n + 1 -> Nat] : Steps(g, 0, s, n)
    BY <1>1, <1>3, StepsExist
  <1>6. g = [k \in 1 .. n + 1 |-> IF k = 1 THEN 0
                ELSE IF g[k - 1] = 0 THEN Width(m, k - 1) ELSE g[k - 1] - 1]
    <2>1. \A k \in 1 .. n + 1 : k = 1 \/ (k - 1 \in 1 .. n /\ g[k - 1] \in Nat /\ g[k] = s[k - 1][g[k - 1]])
      BY <1>1, <1>5 DEF Steps
    <2> QED BY <1>4, <1>5, <2>1 DEF Steps
  <1>7. t = [k \in 1 .. n + 1 |-> IF k = 1 THEN 0
                ELSE IF t[k - 1] = 0 THEN Width(m, k - 1) ELSE t[k - 1] - 1]
    BY <1>2, <1>6, Zenon
  <1>8. t[1] = 0 /\ \A k \in 1 .. n : t[k + 1] = IF t[k] = 0 THEN Width(m, k) ELSE t[k] - 1
    <2>1. \A k \in 1 .. n : k + 1 \in 1 .. n + 1 /\ k + 1 # 1 /\ (k + 1) - 1 = k
      BY <1>1
    <2>2. 1 \in 1 .. n + 1
      BY <1>1
    <2> QED BY <1>7, <2>1, <2>2
  <1>9. \A k \in 1 .. n : t[k] \in Nat
    <2> DEFINE T == {k \in 1 .. n : t[k] \notin Nat}
    <2> SUFFICES ASSUME T # {} PROVE FALSE
      OBVIOUS
    <2>1. T \in SUBSET Nat
      OBVIOUS
    <2> HIDE DEF T
    <2>2. PICK x \in T : \A y \in T : x <= y
      BY <2>1, LeastOne
    <2> USE DEF T
    <2>3. x \in 2 .. n
      BY <1>1, <1>8, <2>2
    <2>4. x - 1 \in 1 .. n /\ x - 1 \notin T /\ (x - 1) + 1 = x
      BY <1>1, <2>2, <2>3
    <2>5. t[x] = IF t[x - 1] = 0 THEN Width(m, x - 1) ELSE t[x - 1] - 1
      BY <1>8, <2>4
    <2>6. Width(m, x - 1) \in Nat /\ t[x - 1] \in Nat
      BY <1>1, <2>4
    <2>7. t[x] \in Nat
      BY <2>5, <2>6
    <2> QED BY <2>2, <2>7
  <1> QED BY <1>8, <1>9 DEF t, n

\* The byte behind an item that the parser reads as the standard does.
Behind(m, k) == k + 1 + (m[k] % 4)

\* The parser cuts regular maps where their items begin.
LEMMA NextStart ==
    ASSUME NEW m \in Seq(0 .. 255), Regular(m), NEW k \in Starts(m)
    PROVE  /\ k \in 1 .. Len(m) /\ m[k] % 4 \in 0 .. 2 /\ Width(m, k) = m[k] % 4
           /\ Behind(m, k) \in k + 1 .. Len(m) + 1
           /\ Behind(m, k) \in Starts(m) \union {Len(m) + 1}
           /\ \A l \in Starts(m) : l <= k \/ l >= Behind(m, k)
  <1> DEFINE w == m[k] % 4
             t == Left(m)
             n == Len(m)
  <1>1. k \in 1 .. n /\ t[k] = 0 /\ n \in Nat /\ m[k] \in 0 .. 255
    BY DEF Starts
  <1>2. w # 3 /\ t[n + 1] = 0
    BY DEF Regular, Described, Readable
  <1>3. w \in 0 .. 2
    <2>1. w \in 0 .. 3
      BY <1>1, BytesIs
    <2> HIDE DEF w
    <2> QED BY <1>2, <2>1
  <1>4. Width(m, k) = w
    BY <1>2 DEF Width
  <1>5. \A l \in 1 .. n : t[l + 1] = IF t[l] = 0 THEN Width(m, l) ELSE t[l] - 1
    BY LeftIs
  <1>6. \A l \in Starts(m) : l \in 1 .. n /\ t[l] = 0
    BY DEF Starts
  <1>7. \A l \in 1 .. n : t[l] = 0 => l \in Starts(m)
    BY DEF Starts
  <1> HIDE DEF w, t, n
  <1>8. t[k + 1] = w
    BY <1>1, <1>4, <1>5
  <1> DEFINE Answer(b) ==
        /\ k \in 1 .. Len(m) /\ m[k] % 4 \in 0 .. 2 /\ Width(m, k) = m[k] % 4
        /\ b \in k + 1 .. Len(m) + 1 /\ b \in Starts(m) \union {Len(m) + 1}
        /\ \A l \in Starts(m) : l <= k \/ l >= b
  <1>12. SUFFICES Answer(k + 1 + w)
    BY DEF Behind, w
  <1>9. CASE w = 0
    <2>1. k + 1 \in Starts(m) \union {n + 1} /\ k + 1 + w = k + 1 /\ k + 1 \in k + 1 .. n + 1
      BY <1>1, <1>7, <1>8, <1>9
    <2>2. \A l \in Starts(m) : l <= k \/ l >= k + 1
      BY <1>1, <1>6
    <2> QED BY <1>1, <1>3, <1>4, <2>1, <2>2 DEF w, n
  <1>10. CASE w = 1
    <2>1. k + 1 \in 1 .. n
      BY <1>1, <1>2, <1>8, <1>10
    <2>2. t[k + 2] = 0
      <3>1. t[(k + 1) + 1] = t[k + 1] - 1
        BY <1>5, <1>8, <1>10, <2>1
      <3> QED BY <1>1, <1>8, <1>10, <3>1
    <2>3. k + 2 \in Starts(m) \union {n + 1}
      BY <1>1, <1>7, <2>1, <2>2
    <2>4. \A l \in Starts(m) : l <= k \/ l >= k + 2
      BY <1>1, <1>6, <1>8, <1>10
    <2>5. k + 1 + w = k + 2 /\ k + 2 \in k + 1 .. n + 1
      BY <1>1, <1>10, <2>1
    <2> QED BY <1>1, <1>3, <1>4, <2>3, <2>4, <2>5 DEF w, n
  <1>11. CASE w = 2
    <2>1. k + 1 \in 1 .. n
      BY <1>1, <1>2, <1>8, <1>11
    <2>2. t[k + 2] = 1
      <3>1. t[(k + 1) + 1] = t[k + 1] - 1
        BY <1>5, <1>8, <1>11, <2>1
      <3> QED BY <1>1, <1>8, <1>11, <3>1
    <2>3. k + 2 \in 1 .. n
      BY <1>1, <1>2, <2>1, <2>2
    <2>4. t[k + 3] = 0
      <3>1. t[(k + 2) + 1] = t[k + 2] - 1
        BY <1>5, <2>2, <2>3
      <3> QED BY <1>1, <2>2, <3>1
    <2>5. k + 3 \in Starts(m) \union {n + 1}
      BY <1>1, <1>7, <2>3, <2>4
    <2>6. \A l \in Starts(m) : l <= k \/ l >= k + 3
      BY <1>1, <1>6, <1>8, <1>11, <2>2
    <2>7. k + 1 + w = k + 3 /\ k + 3 \in k + 1 .. n + 1
      BY <1>1, <1>11, <2>3
    <2> QED BY <1>1, <1>3, <1>4, <2>5, <2>6, <2>7 DEF w, n
  <1> QED BY <1>3, <1>9, <1>10, <1>11

\* What is said is a number; the parser reads it from such an item.
LEMMA ValueIs ==
    ASSUME NEW m \in Seq(0 .. 255), NEW k \in 1 .. Len(m)
    PROVE  /\ ValueOf(m, k) \in Nat
           /\ map = m /\ m[k] % 4 # 3 => H!Value(k) = ValueOf(m, k)
  <1> DEFINE byte(n) == IF n <= Width(m, k) /\ k + n \in DOMAIN m THEN m[k + n] * 2^(8 * (n - 1)) ELSE 0
  <1>1. ValueOf(m, k) = byte(1) + byte(2) + byte(3) + byte(4)
    BY Zenon DEF ValueOf
  <1>2. /\ 2^(8 * (1 - 1)) = 1 /\ 2^(8 * (2 - 1)) = 256
        /\ 2^(8 * (3 - 1)) = 65536 /\ 2^(8 * (4 - 1)) = 16777216
    OBVIOUS
  <1>3. /\ k + 1 \in DOMAIN m => m[k + 1] \in Nat
        /\ k + 2 \in DOMAIN m => m[k + 2] \in Nat
        /\ k + 3 \in DOMAIN m => m[k + 3] \in Nat
        /\ k + 4 \in DOMAIN m => m[k + 4] \in Nat
    <2>1. \A l \in DOMAIN m : m[l] \in 0 .. 255
      BY ElementIs, Zenon
    <2>2. \A v \in 0 .. 255 : v \in Nat
      OBVIOUS
    <2> QED BY <2>1, <2>2, Zenon
  <1>4. /\ byte(1) = IF 1 <= Width(m, k) /\ k + 1 \in DOMAIN m THEN m[k + 1] ELSE 0
        /\ byte(2) = IF 2 <= Width(m, k) /\ k + 2 \in DOMAIN m THEN m[k + 2] * 256 ELSE 0
        /\ byte(3) = IF 3 <= Width(m, k) /\ k + 3 \in DOMAIN m THEN m[k + 3] * 65536 ELSE 0
        /\ byte(4) = IF 4 <= Width(m, k) /\ k + 4 \in DOMAIN m THEN m[k + 4] * 16777216 ELSE 0
    BY <1>2, <1>3
  <1> HIDE DEF byte
  <1>5. byte(1) \in Nat /\ byte(2) \in Nat /\ byte(3) \in Nat /\ byte(4) \in Nat
    <2>1. \A v \in Nat : v * 256 \in Nat /\ v * 65536 \in Nat /\ v * 16777216 \in Nat
      OBVIOUS
    <2>2. byte(1) \in Nat /\ byte(2) \in Nat
      BY <1>3, <1>4, <2>1
    <2>3. byte(3) \in Nat /\ byte(4) \in Nat
      BY <1>3, <1>4, <2>1
    <2> QED BY <2>2, <2>3
  <1>6. ASSUME map = m, m[k] % 4 # 3 PROVE H!Value(k) = ValueOf(m, k)
    <2> DEFINE val(n) == IF n < H!Length(k) THEN H!ByteAt(k + 1 + n) * 2^(8 * n) ELSE 0
    <2>1. H!Value(k) = val(0) + val(1) + val(2)
      BY Zenon DEF H!Value
    <2>2. H!Length(k) = m[k] % 4 /\ Width(m, k) = m[k] % 4 /\ m[k] % 4 \in 0 .. 2
      <3>1. m[k] % 4 \in 0 .. 3
        BY BytesIs
      <3> QED BY <1>6, <3>1 DEF H!Length, Width
    <2>3. /\ H!ByteAt(k + 1 + 0) = IF k + 1 \in DOMAIN m THEN m[k + 1] ELSE 0
          /\ H!ByteAt(k + 1 + 1) = IF k + 2 \in DOMAIN m THEN m[k + 2] ELSE 0
      BY <1>6 DEF H!ByteAt
    <2>4. 2^(8 * 0) = 1 /\ 2^(8 * 1) = 256
      OBVIOUS
    <2>5. val(0) = byte(1)
      BY <1>3, <1>4, <2>2, <2>3, <2>4
    <2>6. val(1) = byte(2)
      BY <1>3, <1>4, <2>2, <2>3, <2>4
    <2>7. val(2) = 0 /\ byte(3) = 0 /\ byte(4) = 0
      BY <1>4, <2>2
    <2> HIDE DEF val
    <2> QED BY <1>1, <1>5, <2>1, <2>5, <2>6, <2>7
  <1> QED BY <1>1, <1>5, <1>6

\* What is said at k of the fields there is the last that was said.
LEMMA LastItemIs ==
    ASSUME NEW m \in Seq(0 .. 255), NEW tag, NEW k \in 0 .. Len(m)
    PROVE  /\ LastItem(m, tag, k) \in 0 .. k
           /\ LastItem(m, tag, k) # 0 => LastItem(m, tag, k) \in Starts(m)
           /\ k \in Starts(m) /\ Tag(m, k) = tag => LastItem(m, tag, k) = k
           /\ k # 0 /\ ~(k \in Starts(m) /\ Tag(m, k) = tag) => LastItem(m, tag, k) = LastItem(m, tag, k - 1)
  <1> DEFINE S(n) == {l \in Starts(m) : l <= n /\ Tag(m, l) = tag} \union {0}
  <1>1. Len(m) \in Nat /\ Starts(m) \subseteq 1 .. Len(m)
    BY DEF Starts
  <1>2. ASSUME NEW n \in 0 .. Len(m) PROVE Max(S(n)) \in S(n) /\ \A y \in S(n) : y <= Max(S(n))
    <2>1. n \in Nat /\ S(n) \in SUBSET (0 .. n) /\ S(n) # {}
      BY <1>1
    <2> HIDE DEF S
    <2> QED BY <2>1, GreatestOne
  <1>3. \A n : LastItem(m, tag, n) = Max(S(n))
    BY DEF LastItem
  <1>4. ASSUME k \in Starts(m), Tag(m, k) = tag PROVE LastItem(m, tag, k) = k
    <2>1. k \in S(k) /\ \A y \in S(k) : y <= k
      BY <1>1, <1>4
    <2> HIDE DEF S
    <2>2. Max(S(k)) <= k /\ k <= Max(S(k))
      BY <1>2, <2>1
    <2>3. Max(S(k)) \in Nat
      BY <1>1, <1>2 DEF S
    <2>4. Max(S(k)) = k
      BY <2>2, <2>3
    <2> QED BY <1>3, <2>4
  <1>5. ASSUME k # 0, ~(k \in Starts(m) /\ Tag(m, k) = tag) PROVE LastItem(m, tag, k) = LastItem(m, tag, k - 1)
    <2>1. S(k) = S(k - 1)
      BY <1>1, <1>5
    <2> QED BY <1>3, <2>1
  <1>6. Max(S(k)) \in S(k)
    BY <1>2
  <1>7. Max(S(k)) \in 0 .. k /\ (Max(S(k)) # 0 => Max(S(k)) \in Starts(m))
    BY <1>1, <1>6
  <1> HIDE DEF S
  <1> QED BY <1>3, <1>4, <1>5, <1>7

\* What is said is a number.
LEMMA GlobalIsNat ==
    ASSUME NEW m \in Seq(0 .. 255), NEW tag, NEW k \in 0 .. Len(m), LastItem(m, tag, k) # 0
    PROVE  Global(m, tag, k) \in Nat
  <1>1. LastItem(m, tag, k) \in 1 .. Len(m)
    BY LastItemIs DEF Starts
  <1> QED BY <1>1, ValueIs DEF Global

\* The bits of an Input item of a regular map.
LEMMA LengthIs ==
    ASSUME NEW m \in Seq(0 .. 255), Regular(m)
    PROVE  /\ Len(m) \in Nat /\ Length(m) \in [1 .. Len(m) -> Nat]
           /\ \A k \in 1 .. Len(m) : Length(m)[k] = IF k \in Inputs(m) THEN BitsOf(m, k) ELSE 0
           /\ \A k \in Inputs(m) :
                 /\ Global(m, H!REPORT_SIZE, k) \in 0 .. 255 /\ Global(m, H!REPORT_COUNT, k) \in 0 .. 255
                 /\ BitsOf(m, k) = Global(m, H!REPORT_SIZE, k) * Global(m, H!REPORT_COUNT, k)
                 /\ BitsOf(m, k) \in Nat
  <1>1. Len(m) \in Nat
    OBVIOUS
  <1>3. ASSUME NEW k \in Inputs(m), NEW tag \in {H!REPORT_SIZE, H!REPORT_COUNT}
        PROVE  Global(m, tag, k) \in 0 .. 255
    <2>1. LastItem(m, tag, k) # 0 /\ Global(m, tag, k) < 2^8
      BY <1>3 DEF Regular, Described
    <2>2. k \in 0 .. Len(m)
      BY DEF Inputs, Starts
    <2>4. Global(m, tag, k) \in Nat
      BY <2>1, <2>2, GlobalIsNat
    <2>5. 2^8 = 256
      OBVIOUS
    <2> DEFINE v == Global(m, tag, k)
    <2>6. v < 256 /\ v \in Nat
      BY <2>1, <2>4, <2>5, Zenon
    <2> HIDE DEF v
    <2>7. v \in 0 .. 255
      BY ONLY <2>6
    <2> QED BY <2>7, Zenon DEF v
  <1>4. ASSUME NEW k \in Inputs(m)
        PROVE  /\ Global(m, H!REPORT_SIZE, k) \in 0 .. 255 /\ Global(m, H!REPORT_COUNT, k) \in 0 .. 255
               /\ BitsOf(m, k) = Global(m, H!REPORT_SIZE, k) * Global(m, H!REPORT_COUNT, k)
               /\ BitsOf(m, k) \in Nat
    <2> DEFINE a == Global(m, H!REPORT_SIZE, k)
               b == Global(m, H!REPORT_COUNT, k)
    <2>1. a \in 0 .. 255 /\ b \in 0 .. 255
      BY <1>3, Zenon
    <2>2. BitsOf(m, k) = a * b
      BY Zenon DEF BitsOf
    <2> HIDE DEF a, b
    <2>4. a * b \in Nat
      BY ONLY <2>1
    <2> QED BY <2>1, <2>2, <2>4, Zenon DEF a, b
  <1>5. Length(m) = [k \in 1 .. Len(m) |-> IF k \in Inputs(m) THEN BitsOf(m, k) ELSE 0]
    BY Zenon DEF Length
  <1>6. Length(m) \in [1 .. Len(m) -> Nat]
    BY <1>1, <1>4, <1>5
  <1> QED BY <1>1, <1>4, <1>5, <1>6

\* t is where the fields begin, of n items with s bits each.
Begins(t, s, n) == t \in [1 .. n + 1 -> Nat] /\ t[1] = 0 /\ \A k \in 1 .. n : t[k + 1] = t[k] + s[k]

\* The layout of a regular map is the one there is.
LEMMA LayoutIs ==
    ASSUME NEW m \in Seq(0 .. 255), Regular(m)
    PROVE  Begins(Layout(m), Length(m), Len(m))
  <1> DEFINE n == Len(m)
             t == Layout(m)
             b == Length(m)
             s == [k \in 1 .. n |-> [x \in Nat |-> x + b[k]]]
  <1>1. n \in Nat /\ b \in [1 .. n -> Nat]
    BY LengthIs
  <1>2. t = CHOOSE f : f = [k \in 1 .. n + 1 |-> IF k = 1 THEN 0 ELSE f[k - 1] + b[k - 1]]
    BY Zenon DEF Layout
  <1> HIDE DEF t, n, b
  <1>3. s \in [1 .. n -> [Nat -> Nat]] /\ \A k \in 1 .. n, x \in Nat : s[k][x] = x + b[k]
    BY <1>1
  <1> HIDE DEF s
  <1>4. PICK g \in [1 .. n + 1 -> Nat] : Steps(g, 0, s, n)
    BY <1>1, <1>3, StepsExist
  <1>5. g = [k \in 1 .. n + 1 |-> IF k = 1 THEN 0 ELSE g[k - 1] + b[k - 1]]
    <2>1. \A k \in 1 .. n + 1 : k = 1 \/ (k - 1 \in 1 .. n /\ g[k - 1] \in Nat /\ g[k] = s[k - 1][g[k - 1]])
      BY <1>1, <1>4 DEF Steps
    <2> QED BY <1>1, <1>3, <1>4, <2>1 DEF Steps
  <1>6. t = [k \in 1 .. n + 1 |-> IF k = 1 THEN 0 ELSE t[k - 1] + b[k - 1]]
    BY <1>2, <1>5, Zenon
  <1>7. DOMAIN t = 1 .. n + 1 /\ t[1] = 0 /\ \A k \in 1 .. n : t[k + 1] = t[k] + b[k]
    <2>1. \A k \in 1 .. n : k + 1 \in 1 .. n + 1 /\ k + 1 # 1 /\ (k + 1) - 1 = k
      BY <1>1
    <2> QED BY <1>1, <1>6, <2>1
  <1>8. t \in [1 .. n + 1 -> Nat]
    <2> DEFINE T == {k \in 1 .. n + 1 : t[k] \notin Nat}
    <2>1. T = {}
      <3> SUFFICES ASSUME T # {} PROVE FALSE
        OBVIOUS
      <3>1. T \in SUBSET Nat
        OBVIOUS
      <3> HIDE DEF T
      <3>2. PICK x \in T : \A y \in T : x <= y
        BY <3>1, LeastOne
      <3> USE DEF T
      <3>3. x \in 2 .. n + 1
        BY <1>1, <1>7, <3>2
      <3>4. x - 1 \in 1 .. n /\ x - 1 \notin T /\ (x - 1) + 1 = x
        BY <1>1, <3>2, <3>3
      <3>5. t[x] = t[x - 1] + b[x - 1]
        BY <1>7, <3>4
      <3> QED BY <1>1, <3>2, <3>4, <3>5
    <2>2. t = [k \in 1 .. n + 1 |-> t[k]]
      BY <1>6
    <2> QED BY <2>1, <2>2
  <1> QED BY <1>7, <1>8 DEF Begins, t, n, b

\* Where a usage is said.
UsageAt(m, usage) == CHOOSE l \in DOMAIN m : Says(m, l, usage)

\* A usage of a regular map is said once, and belongs to the Input item behind it.
LEMMA UsageIs ==
    ASSUME NEW m \in Seq(0 .. 255), Regular(m), NEW usage \in Movements, Uses(m, usage)
    PROVE  /\ UsageAt(m, usage) \in DOMAIN m
           /\ \A l \in DOMAIN m : Says(m, l, usage) <=> l = UsageAt(m, usage)
           /\ InputOf(m, usage) \in Inputs(m) /\ InputOf(m, usage) > UsageAt(m, usage)
           /\ \A k \in Inputs(m) : k > UsageAt(m, usage) => InputOf(m, usage) <= k
  <1> DEFINE u == UsageAt(m, usage)
             S == {k \in Inputs(m) : k > u}
  <1>1. u \in DOMAIN m /\ Says(m, u, usage)
    BY DEF Uses, UsageAt
  <1>2. InputOf(m, usage) = Min(S)
    BY Zenon DEF InputOf, UsageAt
  <1> HIDE DEF u
  <1>3. (\A n \in DOMAIN m : Says(m, n, usage) => n = u) /\ \E k \in Inputs(m) : k > u
    BY <1>1 DEF Regular, Described
  <1>4. S \in SUBSET Nat /\ S # {}
    BY <1>3 DEF Inputs, Starts
  <1> HIDE DEF S
  <1>5. PICK k \in S : \A y \in S : k <= y
    BY <1>4, LeastOne
  <1>6. Min(S) = k
    BY <1>4, <1>5, LeastIs
  <1> USE DEF S
  <1>7. k \in Inputs(m) /\ k > u /\ \A n \in Inputs(m) : n > u => k <= n
    BY <1>5
  <1> QED BY <1>1, <1>2, <1>3, <1>6, <1>7 DEF u

\* A usage has been said before the item at k, and its fields have not been made.
Pending(m, usage, k) == Uses(m, usage) /\ UsageAt(m, usage) < k /\ k <= InputOf(m, usage)

\* Its fields were made by an item before k.
Passed(m, usage, k) == Uses(m, usage) /\ InputOf(m, usage) < k

\* The types of items are different, and so are the usages.
LEMMA TypesDiffer ==
    /\ H!USAGE_PAGE = 4 /\ H!USAGE = 8 /\ H!REPORT_SIZE = 116 /\ H!HIDINPUT = 128 /\ H!REPORT_COUNT = 148
    /\ H!X = 48 /\ H!WHEEL = 56 /\ Movements = {48, 56} /\ H!Button # H!Pointer
  BY DEF H!USAGE_PAGE, H!USAGE, H!REPORT_SIZE, H!HIDINPUT, H!REPORT_COUNT, H!X, H!WHEEL, Movements,
         H!Button, H!Pointer

\* An Input item makes the fields of what is pending; a usage is pending once it is said.
LEMMA PendingStep ==
    ASSUME NEW m \in Seq(0 .. 255), Regular(m), NEW usage \in Movements, NEW k \in DOMAIN m
    PROVE  /\ k \in Inputs(m) => /\ ~Pending(m, usage, k + 1)
                                 /\ Pending(m, usage, k) <=> usage \in MovementsAt(m, k)
           /\ k \notin Inputs(m) => /\ Pending(m, usage, k + 1) <=> Says(m, k, usage) \/ Pending(m, usage, k)
                                    /\ usage \notin MovementsAt(m, k)
           /\ Passed(m, usage, k + 1) <=> Passed(m, usage, k) \/ usage \in MovementsAt(m, k)
  <1>1. Len(m) \in Nat /\ DOMAIN m = 1 .. Len(m) /\ k \in Nat
    OBVIOUS
  <1>2. CASE ~Uses(m, usage)
    <2>1. ~Says(m, k, usage)
      BY <1>2 DEF Uses
    <2> QED BY <1>2, <2>1 DEF Pending, Passed, MovementsAt
  <1>3. CASE Uses(m, usage)
    <2> DEFINE u == UsageAt(m, usage)
               n == InputOf(m, usage)
    <2>1. /\ u \in 1 .. Len(m) /\ n \in Inputs(m) /\ n > u
          /\ Says(m, k, usage) <=> k = u
          /\ k \in Inputs(m) => (k > u => n <= k)
          /\ Says(m, u, usage)
      BY <1>1, <1>3, UsageIs
    <2>2. n \in 1 .. Len(m) /\ u \notin Inputs(m)
      BY <1>1, <2>1, TypesDiffer DEF Inputs, Starts, Says
    <2>3. usage \in MovementsAt(m, k) <=> n = k
      BY <1>3 DEF MovementsAt
    <2>4. /\ \A l : Pending(m, usage, l) <=> u < l /\ l <= n
          /\ \A l : Passed(m, usage, l) <=> n < l
      BY <1>3 DEF Pending, Passed
    <2> HIDE DEF u, n
    <2> QED BY <1>1, <2>1, <2>2, <2>3, <2>4
  <1> QED BY <1>2, <1>3

\* Nothing happens in a value.
LEMMA InValue ==
    ASSUME NEW m \in Seq(0 .. 255), Regular(m), NEW k \in Starts(m)
    PROVE  /\ BeginsAt(m, Behind(m, k)) = BeginsAt(m, k + 1)
           /\ \A tag : LastItem(m, tag, Behind(m, k) - 1) = LastItem(m, tag, k)
           /\ \A usage \in Movements :
                 /\ Pending(m, usage, Behind(m, k)) <=> Pending(m, usage, k + 1)
                 /\ Passed(m, usage, Behind(m, k)) <=> Passed(m, usage, k + 1)
  <1> DEFINE b == Behind(m, k)
             n == Len(m)
  <1>1. /\ n \in Nat /\ k \in 1 .. n /\ b \in {k + 1, k + 2, k + 3} /\ b \in k + 1 .. n + 1
        /\ \A l \in Starts(m) : l <= k \/ l >= b
    <2>1. /\ k \in 1 .. n /\ m[k] % 4 \in 0 .. 2 /\ b \in k + 1 .. n + 1
          /\ \A l \in Starts(m) : l <= k \/ l >= b
      BY NextStart
    <2> DEFINE w == m[k] % 4
    <2>2. b = k + 1 + w /\ w \in 0 .. 2
      BY <2>1 DEF Behind
    <2> HIDE DEF w, b
    <2>3. n \in Nat
      OBVIOUS
    <2>4. b \in {k + 1, k + 2, k + 3}
      BY <2>1, <2>2
    <2> QED BY <2>1, <2>3, <2>4
  <1> HIDE DEF b
  <1>2. ASSUME NEW l \in k + 1 .. b - 1
        PROVE  BeginsAt(m, l + 1) = BeginsAt(m, l) /\ \A tag : LastItem(m, tag, l) = LastItem(m, tag, l - 1)
    <2>1. l \in 1 .. n /\ l \notin Starts(m) /\ l # 0 /\ l \in 0 .. Len(m)
      BY <1>1
    <2>2. \A tag : LastItem(m, tag, l) = LastItem(m, tag, l - 1)
      BY <2>1, LastItemIs
    <2>3. Length(m)[l] = 0
      BY <2>1, LengthIs DEF Inputs
    <2>4. Layout(m)[l + 1] = Layout(m)[l] + Length(m)[l] /\ Layout(m)[l] \in Nat
      BY <2>1, LayoutIs DEF Begins
    <2> QED BY <2>2, <2>3, <2>4 DEF BeginsAt
  <1>3. BeginsAt(m, b) = BeginsAt(m, k + 1) /\ \A tag : LastItem(m, tag, b - 1) = LastItem(m, tag, k)
    <2>1. CASE b = k + 1
      BY <1>1, <2>1
    <2>2. CASE b = k + 2
      <3>1. k + 1 \in k + 1 .. b - 1 /\ (k + 1) + 1 = b /\ (k + 1) - 1 = k /\ b - 1 = k + 1
        BY <1>1, <2>2
      <3> QED BY <1>2, <3>1
    <2>3. CASE b = k + 3
      <3>1. /\ k + 1 \in k + 1 .. b - 1 /\ (k + 1) + 1 = k + 2 /\ (k + 1) - 1 = k
            /\ k + 2 \in k + 1 .. b - 1 /\ (k + 2) + 1 = b /\ (k + 2) - 1 = k + 1 /\ b - 1 = k + 2
        BY <1>1, <2>3
      <3>2. BeginsAt(m, b) = BeginsAt(m, k + 2) /\ BeginsAt(m, k + 2) = BeginsAt(m, k + 1)
        BY <1>2, <3>1
      <3>3. \A tag : LastItem(m, tag, k + 2) = LastItem(m, tag, k + 1) /\ LastItem(m, tag, k + 1) = LastItem(m, tag, k)
        BY <1>2, <3>1
      <3> QED BY <3>1, <3>2, <3>3
    <2> QED BY <1>1, <2>1, <2>2, <2>3
  <1>4. ASSUME NEW usage \in Movements
        PROVE  /\ Pending(m, usage, b) <=> Pending(m, usage, k + 1)
               /\ Passed(m, usage, b) <=> Passed(m, usage, k + 1)
    <2>1. CASE ~Uses(m, usage)
      BY <2>1 DEF Pending, Passed
    <2>2. CASE Uses(m, usage)
      <3> DEFINE u == UsageAt(m, usage)
                 l == InputOf(m, usage)
      <3>1. u \in Starts(m) /\ l \in Starts(m)
        BY <2>2, UsageIs DEF Says, Inputs
      <3>2. u \in Nat /\ l \in Nat
        BY <3>1 DEF Starts
      <3>3. (u <= k \/ u >= b) /\ (l <= k \/ l >= b)
        BY <1>1, <3>1
      <3> HIDE DEF u, l
      <3>4. (u < b <=> u < k + 1) /\ (b <= l <=> k + 1 <= l) /\ (l < b <=> l < k + 1)
        BY <1>1, <3>2, <3>3
      <3> QED BY <3>4 DEF Pending, Passed, u, l
    <2> QED BY <2>1, <2>2
  <1> QED BY <1>3, <1>4 DEF b

-----------------------------------------------------------------------------
(* What the parser knows *)

Field_t == [bits_start : Nat, count : Nat, size : Nat]

MapType ==
    /\ map \in Seq(0 .. 255) /\ i \in Nat \ {0}
    /\ report_size \in Nat /\ report_count \in Nat /\ report_bits \in Nat
    /\ set_x \in BOOLEAN /\ set_wheel \in BOOLEAN
    /\ mouse \in [buttons : Field_t, axes : Field_t, wheel : Field_t]

\* It is where an item begins.
AtItem == i \in Starts(map) \union {Len(map) + 1}

\* The registers of the parser hold what was said last.
Holds(m, tag, k, register) == LastItem(m, tag, k) # 0 => register = H!Byte(Global(m, tag, k))

Registers ==
    /\ Holds(map, H!USAGE_PAGE, i - 1, usage_page_item)
    /\ Holds(map, H!REPORT_SIZE, i - 1, report_size)
    /\ Holds(map, H!REPORT_COUNT, i - 1, report_count)

\* The usages that are pending at byte k are noted, the bits are counted up to there, and
\* the fields that were made are where they begin.
FieldsAt(k) ==
    /\ set_x <=> Pending(map, H!X, k)
    /\ set_wheel <=> Pending(map, H!WHEEL, k)
    /\ report_bits = BeginsAt(map, k)
    /\ Passed(map, H!X, k) => mouse.axes.bits_start = BeginsAt(map, InputOf(map, H!X))
    /\ Passed(map, H!WHEEL, k) =>
          mouse.wheel = [bits_start |-> BeginsAt(map, InputOf(map, H!WHEEL)), count |-> 1,
                         size |-> Global(map, H!REPORT_SIZE, InputOf(map, H!WHEEL))]

FieldsAgree == FieldsAt(i)

MapInv == MapType /\ (Regular(map) => AtItem /\ Registers /\ FieldsAgree)

\* The parser begins with nothing said.
LEMMA MapInit ==
    ASSUME map \in Seq(0 .. 255), H!NothingRead
    PROVE  MapInv
  <1>1. MapType
    <2>1. i \in Nat \ {0}
      BY DEF H!NothingRead
    <2>2. mouse \in [buttons : Field_t, axes : Field_t, wheel : Field_t]
      BY DEF H!NothingRead, H!NoField, Field_t
    <2>3. /\ report_size \in Nat /\ report_count \in Nat /\ report_bits \in Nat
          /\ set_x \in BOOLEAN /\ set_wheel \in BOOLEAN
      BY DEF H!NothingRead
    <2> QED BY <2>1, <2>2, <2>3 DEF MapType
  <1>2. AtItem
    <2>1. CASE Len(map) = 0
      BY <2>1 DEF AtItem, H!NothingRead
    <2>2. CASE Len(map) # 0
      <3>1. 1 \in DOMAIN map /\ Left(map)[1] = 0
        BY <2>2, LeftIs
      <3> QED BY <3>1 DEF AtItem, Starts, H!NothingRead
    <2> QED BY <2>1, <2>2
  <1>3. Registers
    <2>1. \A tag : LastItem(map, tag, 0) \in 0 .. 0
      BY LastItemIs
    <2>2. \A tag : LastItem(map, tag, i - 1) = 0
      BY <2>1 DEF H!NothingRead
    <2> QED BY <2>2 DEF Registers, Holds
  <1>4. ASSUME Regular(map) PROVE FieldsAgree
    <2>1. \A usage \in Movements : ~Pending(map, usage, 1) /\ ~Passed(map, usage, 1)
      <3> SUFFICES ASSUME NEW usage \in Movements, Uses(map, usage)
                   PROVE  ~(UsageAt(map, usage) < 1) /\ ~(InputOf(map, usage) < 1)
        BY Zenon DEF Pending, Passed
      <3>1. UsageAt(map, usage) \in DOMAIN map /\ InputOf(map, usage) \in DOMAIN map
        BY <1>4, UsageIs DEF Inputs, Starts
      <3> DEFINE u == UsageAt(map, usage)
                 n == InputOf(map, usage)
      <3>2. u \in 1 .. Len(map) /\ n \in 1 .. Len(map)
        BY <3>1
      <3> HIDE DEF u, n
      <3>3. ~(u < 1) /\ ~(n < 1)
        BY <3>2
      <3> QED BY <3>3 DEF u, n
    <2>2. BeginsAt(map, 1) = 0
      BY <1>4, LayoutIs DEF Begins, BeginsAt
    <2>3. i = 1 /\ ~set_x /\ ~set_wheel /\ report_bits = 0
      BY DEF H!NothingRead
    <2> QED BY <2>1, <2>2, <2>3 DEF FieldsAgree, FieldsAt, Movements
  <1> QED BY <1>1, <1>2, <1>3, <1>4 DEF MapInv

\* Every item takes the parser to the next.
LEMMA NextItem ==
    ASSUME MapType, H!Next
    PROVE  /\ i \in 1 .. Len(map) /\ map' = map /\ i' = Behind(map, i) /\ i' \in Nat \ {0}
           /\ H!Type(i) = Tag(map, i) /\ H!Value(i) \in Nat
  <1>1. i <= Len(map) /\ map' = map /\ i' = i + 1 + H!Length(i)
    BY DEF H!Next, H!UsagePage, H!ReportSize, H!ReportCount, H!Usage, H!Other, H!InputButtons,
           H!InputPointer, H!InputNothing, H!Item
  <1>2. i \in 1 .. Len(map) /\ map \in Seq(0 .. 255)
    <2>1. i \in Nat \ {0} /\ map \in Seq(0 .. 255)
      BY DEF MapType
    <2>2. Len(map) \in Nat
      BY <2>1
    <2> QED BY <1>1, <2>1, <2>2
  <1>3. H!Length(i) \in Nat
    BY <1>2, BytesIs DEF H!Length
  <1>4. i' \in Nat \ {0}
    BY <1>1, <1>2, <1>3
  <1>5. H!Value(i) \in Nat
    <2> DEFINE val(n) == IF n < H!Length(i) THEN H!ByteAt(i + 1 + n) * 2^(8 * n) ELSE 0
    <2>1. H!Value(i) = val(0) + val(1) + val(2)
      BY Zenon DEF H!Value
    <2>2. \A k \in Nat : H!ByteAt(k) \in 0 .. 255
      <3>1. \A k \in DOMAIN map : map[k] \in 0 .. 255
        BY <1>2, ElementIs, Zenon
      <3> QED BY <3>1 DEF H!ByteAt
    <2>3. 2^(8 * 0) = 1 /\ 2^(8 * 1) = 256 /\ 2^(8 * 2) = 65536
      OBVIOUS
    <2>4. /\ H!ByteAt(i + 1 + 0) \in 0 .. 255 /\ H!ByteAt(i + 1 + 1) \in 0 .. 255
          /\ H!ByteAt(i + 1 + 2) \in 0 .. 255
      <3>1. i + 1 + 0 \in Nat /\ i + 1 + 1 \in Nat /\ i + 1 + 2 \in Nat
        BY <1>2
      <3> QED BY <2>2, <3>1
    <2>5. val(0) \in Nat /\ val(1) \in Nat /\ val(2) \in Nat
      BY <2>3, <2>4
    <2> HIDE DEF val
    <2> QED BY <2>1, <2>5
  <1> QED BY <1>1, <1>2, <1>4, <1>5 DEF Behind, H!Length, H!Type, Tag

\* Each item updates one register at most.
LEMMA RegistersStep ==
    ASSUME MapType, Regular(map), i \in Starts(map), Registers, map' = map, i' = Behind(map, i),
           usage_page_item' = IF Tag(map, i) = H!USAGE_PAGE THEN H!Byte(H!Value(i)) ELSE usage_page_item,
           report_size' = IF Tag(map, i) = H!REPORT_SIZE THEN H!Byte(H!Value(i)) ELSE report_size,
           report_count' = IF Tag(map, i) = H!REPORT_COUNT THEN H!Byte(H!Value(i)) ELSE report_count
    PROVE  Registers'
  <1>1. /\ map \in Seq(0 .. 255) /\ i \in 1 .. Len(map) /\ i \in 0 .. Len(map) /\ i # 0
        /\ map[i] % 4 # 3
    <2>1. map \in Seq(0 .. 255)
      BY DEF MapType
    <2>2. i \in 1 .. Len(map) /\ map[i] % 4 \in 0 .. 2
      BY <2>1, NextStart
    <2> QED BY <2>1, <2>2
  <1>2. H!Value(i) = ValueOf(map, i)
    BY <1>1, ValueIs
  <1>3. ASSUME NEW tag, NEW r, NEW s, Holds(map, tag, i - 1, r),
               s = IF Tag(map, i) = tag THEN H!Byte(H!Value(i)) ELSE r
        PROVE  Holds(map, tag, i, s)
    <2>1. CASE Tag(map, i) = tag
      <3>1. LastItem(map, tag, i) = i
        BY <1>1, <2>1, LastItemIs
      <3> QED BY <1>2, <1>3, <2>1, <3>1 DEF Holds, Global
    <2>2. CASE Tag(map, i) # tag
      <3>1. LastItem(map, tag, i) = LastItem(map, tag, i - 1)
        BY <1>1, <2>2, LastItemIs
      <3> QED BY <1>3, <2>2, <3>1 DEF Holds, Global
    <2> QED BY <2>1, <2>2
  <1>4. /\ Holds(map, H!USAGE_PAGE, i, usage_page_item')
        /\ Holds(map, H!REPORT_SIZE, i, report_size')
        /\ Holds(map, H!REPORT_COUNT, i, report_count')
    BY <1>3 DEF Registers
  <1>5. \A tag : LastItem(map, tag, i' - 1) = LastItem(map, tag, i)
    BY <1>1, InValue
  <1> QED BY <1>4, <1>5 DEF Registers, Holds, Global

\* What is known behind the first byte of an item is known behind its value.
LEMMA FieldsBehind ==
    ASSUME MapType, Regular(map), i \in Starts(map), map' = map, i' = Behind(map, i),
           NEW n, n = i + 1, FieldsAt(n)'
    PROVE  FieldsAgree'
  <1>1. map \in Seq(0 .. 255) /\ H!X \in Movements /\ H!WHEEL \in Movements
    BY DEF MapType, Movements
  <1>2. /\ BeginsAt(map, i') = BeginsAt(map, n)
        /\ \A usage \in Movements : /\ Pending(map, usage, i') <=> Pending(map, usage, n)
                                    /\ Passed(map, usage, i') <=> Passed(map, usage, n)
    BY <1>1, InValue
  <1> QED BY <1>1, <1>2 DEF FieldsAgree, FieldsAt

\* Items that make no fields.
LEMMA NotesStep ==
    ASSUME MapType, Regular(map), FieldsAgree, i \in Starts(map), map' = map, NEW n, n = i + 1,
           Tag(map, i) # H!HIDINPUT, mouse' = mouse, report_bits' = report_bits,
           set_x' = (set_x \/ Says(map, i, H!X)), set_wheel' = (set_wheel \/ Says(map, i, H!WHEEL))
    PROVE  FieldsAt(n)'
  <1>1. i \in DOMAIN map /\ map \in Seq(0 .. 255) /\ i \notin Inputs(map) /\ i \in 1 .. Len(map)
    BY DEF MapType, Inputs, Starts
  <1>2. ASSUME NEW usage \in Movements
        PROVE  /\ Pending(map, usage, n) <=> Says(map, i, usage) \/ Pending(map, usage, i)
               /\ Passed(map, usage, n) <=> Passed(map, usage, i)
    BY <1>1, PendingStep
  <1>3. BeginsAt(map, n) = BeginsAt(map, i)
    <2>1. /\ Layout(map) \in [1 .. Len(map) + 1 -> Nat]
          /\ Layout(map)[i + 1] = Layout(map)[i] + Length(map)[i]
      BY <1>1, LayoutIs DEF Begins
    <2>2. Length(map)[i] = 0
      BY <1>1, LengthIs
    <2>3. Layout(map)[i] \in Nat
      BY <1>1, <2>1
    <2> QED BY <2>1, <2>2, <2>3 DEF BeginsAt
  <1>4. H!X \in Movements /\ H!WHEEL \in Movements
    BY DEF Movements
  <1> QED BY <1>2, <1>3, <1>4 DEF FieldsAgree, FieldsAt

\* Words hold what is short enough.
LEMMA Remainder == ASSUME NEW w \in Nat, NEW n \in Nat, n < w PROVE n % w = n
  OBVIOUS

LEMMA WordRange == 2^16 \in Nat /\ 2^16 > 0 /\ 2^8 \in Nat /\ 2^8 > 0
  OBVIOUS

LEMMA ShortWord == ASSUME NEW n \in Nat, n < 2^16 PROVE H!Word(n) = n
  BY Remainder, WordRange DEF H!Word

LEMMA WordIsNat == \A n \in Nat : H!Word(n) \in Nat /\ H!Byte(n) \in Nat
  <1>1. \A w \in Nat : w > 0 => \A n \in Nat : n % w \in Nat
    OBVIOUS
  <1> QED BY <1>1, WordRange DEF H!Word, H!Byte

\* The usages that the parser notes are those that a regular map says.
LEMMA SaysIs ==
    ASSUME NEW k \in Starts(map), map \in Seq(0 .. 255), Regular(map), NEW usage \in Movements
    PROVE  Says(map, k, usage) <=> Tag(map, k) = H!USAGE /\ H!Byte(H!Value(k)) = usage
  <1>1. k \in 1 .. Len(map) /\ map[k] % 4 # 3
    <2>1. k \in 1 .. Len(map) /\ map[k] % 4 \in 0 .. 2
      BY NextStart
    <2> QED BY <2>1
  <1>2. H!Value(k) = ValueOf(map, k)
    BY <1>1, ValueIs
  <1>3. H!Byte(H!Value(k)) = ValueOf(map, k) % 2^8
    BY <1>2, Zenon DEF H!Byte
  <1>4. usage % 2^8 = usage
    <2>1. usage \in {48, 56} /\ 2^8 = 256
      BY TypesDiffer
    <2>2. 48 % 256 = 48 /\ 56 % 256 = 56
      OBVIOUS
    <2> QED BY <2>1, <2>2
  <1>5. Says(map, k, usage) => Tag(map, k) = H!USAGE /\ ValueOf(map, k) = usage
    BY DEF Says
  <1>6. Tag(map, k) = H!USAGE /\ ValueOf(map, k) % 2^8 = usage => Says(map, k, usage)
    BY DEF Regular, Readable
  <1> QED BY <1>3, <1>4, <1>5, <1>6, Zenon

\* The page that was said last is one.
LEMMA LastPage ==
    ASSUME NEW m \in Seq(0 .. 255), NEW tag, NEW k \in 0 .. Len(m), LastItem(m, tag, k) # 0
    PROVE  LastItem(m, tag, k) \in Starts(m) /\ Tag(m, LastItem(m, tag, k)) = tag
  <1> DEFINE S == {l \in Starts(m) : l <= k /\ Tag(m, l) = tag} \union {0}
  <1>1. S \in SUBSET (0 .. k) /\ S # {} /\ k \in Nat
    BY DEF Starts
  <1>2. LastItem(m, tag, k) = Max(S)
    BY DEF LastItem
  <1> HIDE DEF S
  <1>3. Max(S) \in S
    BY <1>1, GreatestOne
  <1> QED BY <1>2, <1>3 DEF S

\* What is known at an Input item of a regular map.
LEMMA AtInput ==
    ASSUME MapType, Registers, Regular(map), FieldsAgree, i \in Inputs(map)
    PROVE  /\ usage_page_item = Global(map, H!USAGE_PAGE, i)
           /\ report_size = Global(map, H!REPORT_SIZE, i) /\ report_count = Global(map, H!REPORT_COUNT, i)
           /\ BitsOf(map, i) = report_size * report_count
           /\ set_x <=> H!X \in MovementsAt(map, i)
           /\ set_wheel <=> H!WHEEL \in MovementsAt(map, i)
           /\ BeginsAt(map, i + 1) = report_bits + BitsOf(map, i)
           /\ BeginsAt(map, i + 1) = H!Word(BeginsAt(map, i + 1)) /\ BeginsAt(map, i + 1) \in Nat
           /\ \A usage \in Movements :
                 /\ ~Pending(map, usage, i + 1)
                 /\ Passed(map, usage, i + 1) <=> Passed(map, usage, i) \/ usage \in MovementsAt(map, i)
           /\ Expected(map, i)
  <1>1. /\ i \in DOMAIN map /\ map \in Seq(0 .. 255) /\ Tag(map, i) = H!HIDINPUT /\ i \in 1 .. Len(map)
        /\ Len(map) \in Nat /\ i \in 0 .. Len(map) /\ i # 0
    BY DEF MapType, Inputs, Starts
  <1>2. ASSUME NEW tag \in {H!USAGE_PAGE, H!REPORT_SIZE, H!REPORT_COUNT}
        PROVE  LastItem(map, tag, i - 1) # 0 /\ Global(map, tag, i) = Global(map, tag, i - 1)
    <2>1. Tag(map, i) # tag /\ LastItem(map, tag, i) # 0
      BY <1>1, TypesDiffer DEF Regular, Described
    <2>2. LastItem(map, tag, i) = LastItem(map, tag, i - 1)
      BY <1>1, <2>1, LastItemIs
    <2> QED BY <2>1, <2>2 DEF Global
  <1>3. Global(map, H!USAGE_PAGE, i) \in 0 .. 255
    <2> DEFINE l == LastItem(map, H!USAGE_PAGE, i)
    <2>1. l # 0 /\ l \in Starts(map) /\ Tag(map, l) = H!USAGE_PAGE
      BY <1>1, LastPage DEF Regular, Described
    <2>2. Global(map, H!USAGE_PAGE, i) < 2^8 /\ Global(map, H!USAGE_PAGE, i) \in Nat
      BY <1>1, <2>1, GlobalIsNat DEF Regular, Readable, Global
    <2>3. 2^8 = 256
      OBVIOUS
    <2> DEFINE v == Global(map, H!USAGE_PAGE, i)
    <2>4. v < 256 /\ v \in Nat
      BY <2>2, <2>3, Zenon
    <2> HIDE DEF v
    <2>5. v \in 0 .. 255
      BY ONLY <2>4
    <2> QED BY <2>5, Zenon DEF v
  <1>4. /\ usage_page_item = H!Byte(Global(map, H!USAGE_PAGE, i))
        /\ report_size = H!Byte(Global(map, H!REPORT_SIZE, i))
        /\ report_count = H!Byte(Global(map, H!REPORT_COUNT, i))
    BY <1>2 DEF Registers, Holds
  <1>5. /\ Global(map, H!REPORT_SIZE, i) \in 0 .. 255 /\ Global(map, H!REPORT_COUNT, i) \in 0 .. 255
        /\ BitsOf(map, i) = Global(map, H!REPORT_SIZE, i) * Global(map, H!REPORT_COUNT, i)
        /\ BitsOf(map, i) \in Nat
    BY <1>1, LengthIs
  <1>6. \A n \in 0 .. 255 : H!Byte(n) = n
    <2>1. 2^8 = 256
      OBVIOUS
    <2> QED BY <2>1 DEF H!Byte
  <1>7. /\ usage_page_item = Global(map, H!USAGE_PAGE, i)
        /\ report_size = Global(map, H!REPORT_SIZE, i) /\ report_count = Global(map, H!REPORT_COUNT, i)
    BY <1>3, <1>4, <1>5, <1>6
  <1>8. BeginsAt(map, i + 1) = report_bits + BitsOf(map, i)
    <2>1. Layout(map)[i + 1] = Layout(map)[i] + Length(map)[i]
      BY <1>1, LayoutIs DEF Begins
    <2>2. Length(map)[i] = BitsOf(map, i)
      BY <1>1, LengthIs
    <2> QED BY <2>1, <2>2 DEF BeginsAt, FieldsAgree, FieldsAt
  <1>9. BeginsAt(map, i + 1) = H!Word(BeginsAt(map, i + 1)) /\ BeginsAt(map, i + 1) \in Nat
    <2>1. Layout(map) \in [1 .. Len(map) + 1 -> Nat] /\ i + 1 \in 1 .. Len(map) + 1
      BY <1>1, LayoutIs DEF Begins
    <2>2. BeginsAt(map, i + 1) \in Nat /\ BeginsAt(map, i + 1) < 2^16
      BY <2>1 DEF Regular, Described, BeginsAt
    <2> QED BY <2>2, ShortWord
  <1>10. ASSUME NEW usage \in Movements
         PROVE  /\ ~Pending(map, usage, i + 1)
                /\ Pending(map, usage, i) <=> usage \in MovementsAt(map, i)
                /\ Passed(map, usage, i + 1) <=> Passed(map, usage, i) \/ usage \in MovementsAt(map, i)
    BY <1>1, PendingStep
  <1>11. /\ set_x <=> H!X \in MovementsAt(map, i)
         /\ set_wheel <=> H!WHEEL \in MovementsAt(map, i)
    BY <1>10 DEF FieldsAgree, FieldsAt, Movements
  <1>12. Expected(map, i)
    BY <1>1 DEF Regular, Described
  <1>13. BitsOf(map, i) = report_size * report_count
    BY <1>5, <1>7, Zenon
  <1> QED BY <1>7, <1>8, <1>9, <1>10, <1>11, <1>12, <1>13, Zenon

\* Buttons are counted, and make no axes.
LEMMA ButtonsStep ==
    ASSUME MapType, Registers, Regular(map), FieldsAgree, i \in Starts(map), H!InputButtons,
           NEW n, n = i + 1
    PROVE  FieldsAt(n)'
  <1>1. /\ i \in Inputs(map) /\ usage_page_item = H!Button
        /\ report_bits' = H!Word(report_bits + report_count * report_size)
        /\ UNCHANGED <<map, set_x, set_wheel>>
        /\ mouse'.axes = mouse.axes /\ mouse'.wheel = mouse.wheel
    BY DEF H!InputButtons, H!Item, H!Type, Tag, Inputs
  <1>2. MovementsAt(map, i) = {}
    BY <1>1, AtInput DEF Expected, H!Button, H!Pointer
  <1>3. report_size * report_count = report_count * report_size
    BY DEF MapType
  <1>4. report_bits' = BeginsAt(map, i + 1)
    BY <1>1, <1>3, AtInput
  <1>5. /\ ~set_x /\ ~set_wheel /\ ~Pending(map, H!X, i + 1) /\ ~Pending(map, H!WHEEL, i + 1)
        /\ Passed(map, H!X, i + 1) <=> Passed(map, H!X, i)
        /\ Passed(map, H!WHEEL, i + 1) <=> Passed(map, H!WHEEL, i)
    BY <1>1, <1>2, AtInput DEF Movements
  <1> QED BY <1>1, <1>4, <1>5 DEF FieldsAgree, FieldsAt

\* The fields on another page have no bits.
LEMMA NothingStep ==
    ASSUME MapType, Registers, Regular(map), FieldsAgree, i \in Starts(map), H!InputNothing,
           NEW n, n = i + 1
    PROVE  FieldsAt(n)'
  <1>1. /\ i \in Inputs(map) /\ usage_page_item \notin {H!Button, H!Pointer}
        /\ UNCHANGED <<map, set_x, set_wheel, mouse, report_bits>>
    BY DEF H!InputNothing, H!Item, H!Type, Tag, Inputs
  <1>2. MovementsAt(map, i) = {} /\ BitsOf(map, i) = 0
    BY <1>1, AtInput DEF Expected
  <1>3. report_bits' = BeginsAt(map, i + 1)
    BY <1>1, <1>2, AtInput DEF MapType
  <1>4. /\ ~set_x /\ ~set_wheel /\ ~Pending(map, H!X, i + 1) /\ ~Pending(map, H!WHEEL, i + 1)
        /\ Passed(map, H!X, i + 1) <=> Passed(map, H!X, i)
        /\ Passed(map, H!WHEEL, i + 1) <=> Passed(map, H!WHEEL, i)
    BY <1>1, <1>2, AtInput DEF Movements
  <1> QED BY <1>1, <1>3, <1>4 DEF FieldsAgree, FieldsAt

\* The fields on the page of the pointer are the axes, or the wheel.
LEMMA PointerStep ==
    ASSUME MapType, Registers, Regular(map), FieldsAgree, i \in Starts(map), H!InputPointer,
           NEW n, n = i + 1
    PROVE  FieldsAt(n)'
  <1> DEFINE behind == IF set_x THEN H!Word(report_bits + H!AxisBits) ELSE report_bits
  <1>1. /\ i \in Inputs(map) /\ usage_page_item = H!Pointer
        /\ map' = map /\ ~set_x' /\ ~set_wheel'
    BY DEF H!InputPointer, H!Item, H!Type, Tag, Inputs
  <1>2. /\ mouse' = [mouse EXCEPT !.axes = IF set_x THEN H!FieldAt(report_bits) ELSE @,
                                  !.wheel = IF set_wheel THEN H!FieldAt(behind) ELSE @]
        /\ report_bits' = IF set_wheel THEN H!Word(behind + H!WheelBits) ELSE behind
    BY DEF H!InputPointer
  <1>3. /\ mouse'.axes = IF set_x THEN H!FieldAt(report_bits) ELSE mouse.axes
        /\ mouse'.wheel = IF set_wheel THEN H!FieldAt(behind) ELSE mouse.wheel
    <2> HIDE DEF behind
    <2> QED BY <1>2 DEF MapType
  <1>4. \/ MovementsAt(map, i) = {H!X}
        \/ MovementsAt(map, i) = {H!WHEEL} /\ report_count = 1
    BY <1>1, AtInput DEF Expected, H!Button, H!Pointer
  <1>5. /\ BitsOf(map, i) = report_size * report_count
        /\ set_x <=> H!X \in MovementsAt(map, i)
        /\ set_wheel <=> H!WHEEL \in MovementsAt(map, i)
        /\ BeginsAt(map, i + 1) = report_bits + BitsOf(map, i)
        /\ BeginsAt(map, i + 1) = H!Word(BeginsAt(map, i + 1))
        /\ ~Pending(map, H!X, i + 1) /\ ~Pending(map, H!WHEEL, i + 1)
        /\ Passed(map, H!X, i + 1) <=> Passed(map, H!X, i) \/ H!X \in MovementsAt(map, i)
        /\ Passed(map, H!WHEEL, i + 1) <=> Passed(map, H!WHEEL, i) \/ H!WHEEL \in MovementsAt(map, i)
        /\ report_size = Global(map, H!REPORT_SIZE, i)
    BY <1>1, AtInput DEF Movements
  <1>6. \A usage \in MovementsAt(map, i) : InputOf(map, usage) = i
    BY DEF MovementsAt
  <1>7. report_bits = BeginsAt(map, i)
    BY DEF FieldsAgree, FieldsAt
  <1>8. CASE MovementsAt(map, i) = {H!X}
    <2>1. set_x /\ ~set_wheel
      BY <1>5, <1>8, TypesDiffer
    <2>2. report_size * report_count = report_count * report_size
      BY DEF MapType
    <2>3. report_bits' = BeginsAt(map, i + 1)
      BY <1>2, <1>5, <2>1, <2>2 DEF H!AxisBits
    <2>4. mouse'.axes.bits_start = BeginsAt(map, InputOf(map, H!X)) /\ mouse'.wheel = mouse.wheel
      BY <1>3, <1>6, <1>7, <1>8, <2>1 DEF H!FieldAt
    <2>5. Passed(map, H!WHEEL, i + 1) <=> Passed(map, H!WHEEL, i)
      BY <1>5, <1>8, TypesDiffer
    <2> QED BY <1>1, <1>5, <2>3, <2>4, <2>5 DEF FieldsAgree, FieldsAt
  <1>9. CASE MovementsAt(map, i) = {H!WHEEL} /\ report_count = 1
    <2>1. ~set_x /\ set_wheel
      BY <1>5, <1>9, TypesDiffer
    <2>2. report_size * report_count = report_size
      BY <1>9 DEF MapType
    <2>3. report_bits' = BeginsAt(map, i + 1)
      BY <1>2, <1>5, <2>1, <2>2 DEF H!WheelBits
    <2>4. /\ mouse'.wheel = [bits_start |-> BeginsAt(map, InputOf(map, H!WHEEL)), count |-> 1,
                             size |-> Global(map, H!REPORT_SIZE, InputOf(map, H!WHEEL))]
          /\ mouse'.axes = mouse.axes
      BY <1>3, <1>5, <1>6, <1>7, <1>9, <2>1 DEF H!FieldAt
    <2>5. Passed(map, H!X, i + 1) <=> Passed(map, H!X, i)
      BY <1>5, <1>9, TypesDiffer
    <2> QED BY <1>1, <1>5, <2>3, <2>4, <2>5 DEF FieldsAgree, FieldsAt
  <1> QED BY <1>4, <1>8, <1>9

\* What is read has its type.
LEMMA TypeStep == MapType /\ H!Next => MapType'
  <1> SUFFICES ASSUME MapType, H!Next PROVE MapType'
    OBVIOUS
  <1>1. map' = map
    BY NextItem
  <1>2. i' \in Nat \ {0}
    BY NextItem
  <1>4. H!Byte(H!Value(i)) \in Nat
    BY NextItem, WordIsNat
  <1> DEFINE Rest == /\ report_size' \in Nat /\ report_count' \in Nat /\ report_bits' \in Nat
                     /\ set_x' \in BOOLEAN /\ set_wheel' \in BOOLEAN
                     /\ mouse' \in [buttons : Field_t, axes : Field_t, wheel : Field_t]
  <1>5. report_count * report_size \in Nat
    BY DEF MapType
  <1>6. ASSUME H!UsagePage \/ H!Usage \/ H!Other \/ H!InputNothing PROVE Rest
    BY <1>6 DEF MapType, H!UsagePage, H!Usage, H!Other, H!InputNothing
  <1>7. ASSUME H!ReportSize \/ H!ReportCount PROVE Rest
    BY <1>4, <1>7 DEF MapType, H!ReportSize, H!ReportCount, H!Item
  <1>8. ASSUME H!InputButtons PROVE Rest
    <2>1. /\ report_bits' = H!Word(report_bits + report_count * report_size)
          /\ UNCHANGED <<report_size, report_count, set_x, set_wheel>>
          /\ mouse' = [mouse EXCEPT !.buttons = [bits_start |-> report_bits,
                                count |-> H!Byte(@.count + report_count * report_size),
                                size |-> report_size]]
      BY <1>8 DEF H!InputButtons
    <2>2. mouse.buttons.count \in Nat /\ report_bits \in Nat
      BY DEF MapType, Field_t
    <2>3. report_bits' \in Nat /\ H!Byte(mouse.buttons.count + report_count * report_size) \in Nat
      BY <1>5, <2>1, <2>2, WordIsNat
    <2>4. mouse' \in [buttons : Field_t, axes : Field_t, wheel : Field_t]
      BY <2>1, <2>3 DEF MapType, Field_t
    <2> QED BY <2>1, <2>3, <2>4 DEF MapType
  <1>9. ASSUME H!InputPointer PROVE Rest
    <2> DEFINE behind == IF set_x THEN H!Word(report_bits + H!AxisBits) ELSE report_bits
    <2>1. /\ mouse' = [mouse EXCEPT !.axes = IF set_x THEN H!FieldAt(report_bits) ELSE @,
                                    !.wheel = IF set_wheel THEN H!FieldAt(behind) ELSE @]
          /\ report_bits' = IF set_wheel THEN H!Word(behind + H!WheelBits) ELSE behind
          /\ UNCHANGED <<report_size, report_count>> /\ set_x' = FALSE /\ set_wheel' = FALSE
      BY <1>9 DEF H!InputPointer
    <2>2. behind \in Nat
      <3>1. report_bits \in Nat /\ H!AxisBits \in Nat
        BY <1>5, Zenon DEF MapType, H!AxisBits
      <3>2. report_bits + H!AxisBits \in Nat
        BY <3>1
      <3> QED BY <3>1, <3>2, WordIsNat
    <2> HIDE DEF behind
    <2>3. report_bits' \in Nat
      BY <2>1, <2>2, WordIsNat DEF MapType, H!WheelBits
    <2>4. H!FieldAt(report_bits) \in Field_t /\ H!FieldAt(behind) \in Field_t
      BY <2>2 DEF MapType, Field_t, H!FieldAt
    <2>5. mouse' \in [buttons : Field_t, axes : Field_t, wheel : Field_t]
      BY <2>1, <2>4 DEF MapType
    <2> QED BY <2>1, <2>3, <2>5 DEF MapType
  <1>10. Rest
    BY <1>6, <1>7, <1>8, <1>9 DEF H!Next
  <1> QED BY <1>1, <1>2, <1>10 DEF MapType

\* Every item keeps what is known.
LEMMA MapStepKeeps == MapInv /\ [H!Next]_mapVars => MapInv'
  <1> SUFFICES ASSUME MapInv, [H!Next]_mapVars PROVE MapInv'
    OBVIOUS
  <1>1. MapType
    BY DEF MapInv
  <1>2. CASE UNCHANGED mapVars
    BY <1>2 DEF mapVars, MapInv, MapType, AtItem, Registers, FieldsAgree, FieldsAt
  <1>3. CASE H!Next
    <2>1. MapType'
      BY <1>1, <1>3, TypeStep
    <2>2. /\ i \in 1 .. Len(map) /\ map' = map /\ i' = Behind(map, i) /\ H!Type(i) = Tag(map, i)
          /\ H!Value(i) \in Nat /\ map \in Seq(0 .. 255)
      BY <1>1, <1>3, NextItem DEF MapType
    <2>3. ASSUME Regular(map) PROVE AtItem' /\ Registers' /\ FieldsAgree'
      <3>1. Registers /\ FieldsAgree /\ i \in Starts(map)
        BY <2>2, <2>3 DEF MapInv, AtItem
      <3>2. AtItem'
        BY <2>2, <2>3, <3>1, NextStart DEF AtItem
      <3>3. Registers'
        <4>1. /\ usage_page_item' = IF H!Type(i) = H!USAGE_PAGE THEN H!Byte(H!Value(i)) ELSE usage_page_item
              /\ report_size' = IF H!Type(i) = H!REPORT_SIZE THEN H!Byte(H!Value(i)) ELSE report_size
              /\ report_count' = IF H!Type(i) = H!REPORT_COUNT THEN H!Byte(H!Value(i)) ELSE report_count
          BY <1>3, TypesDiffer DEF H!Next, H!UsagePage, H!ReportSize, H!ReportCount, H!Usage, H!Other,
                      H!InputButtons, H!InputPointer, H!InputNothing, H!Item
        <4> QED BY <1>1, <2>2, <2>3, <3>1, <4>1, RegistersStep
      <3>4. ASSUME NEW n, n = i + 1 PROVE FieldsAt(n)'
        <4>1. CASE H!InputButtons
          BY <1>1, <2>3, <3>1, <3>4, <4>1, ButtonsStep
        <4>2. CASE H!InputPointer
          BY <1>1, <2>3, <3>1, <3>4, <4>2, PointerStep
        <4>3. CASE H!InputNothing
          BY <1>1, <2>3, <3>1, <3>4, <4>3, NothingStep
        <4>4. CASE H!UsagePage \/ H!ReportSize \/ H!ReportCount \/ H!Usage \/ H!Other
          <5>1. /\ Tag(map, i) # H!HIDINPUT /\ mouse' = mouse /\ report_bits' = report_bits
                /\ set_x' = (set_x \/ (Tag(map, i) = H!USAGE /\ H!Byte(H!Value(i)) = H!X))
                /\ set_wheel' = (set_wheel \/ (Tag(map, i) = H!USAGE /\ H!Byte(H!Value(i)) = H!WHEEL))
            BY <1>1, <2>2, <4>4, TypesDiffer
               DEF MapType, H!UsagePage, H!ReportSize, H!ReportCount, H!Usage, H!Other, H!Item
          <5>2. /\ Says(map, i, H!X) <=> Tag(map, i) = H!USAGE /\ H!Byte(H!Value(i)) = H!X
                /\ Says(map, i, H!WHEEL) <=> Tag(map, i) = H!USAGE /\ H!Byte(H!Value(i)) = H!WHEEL
            BY <2>2, <2>3, <3>1, SaysIs DEF Movements
          <5> QED BY <1>1, <2>2, <2>3, <3>1, <3>4, <5>1, <5>2, NotesStep
        <4> QED BY <1>3, <4>1, <4>2, <4>3, <4>4 DEF H!Next
      <3>5. FieldsAgree'
        <4>1. PICK n : n = i + 1
          OBVIOUS
        <4> QED BY <1>1, <2>2, <2>3, <3>1, <3>4, <4>1, FieldsBehind
      <3> QED BY <3>2, <3>3, <3>5
    <2> QED BY <2>1, <2>2, <2>3 DEF MapInv
  <1> QED BY <1>2, <1>3

\* The parser comes to the end of a map with every field passed.
LEMMA AllPassed ==
    ASSUME MapInv, Parsed, Regular(map), NEW usage \in Movements, Uses(map, usage)
    PROVE  Passed(map, usage, i) /\ i = Len(map) + 1 /\ InputOf(map, usage) \in Inputs(map)
  <1>1. map \in Seq(0 .. 255) /\ i = Len(map) + 1 /\ Len(map) \in Nat
    BY DEF MapInv, MapType, AtItem, Starts, Parsed
  <1>2. InputOf(map, usage) \in Inputs(map)
    BY <1>1, UsageIs
  <1> DEFINE n == InputOf(map, usage)
  <1>3. n \in 1 .. Len(map)
    BY <1>1, <1>2 DEF Inputs, Starts
  <1> HIDE DEF n
  <1>4. n < i
    BY <1>1, <1>3
  <1> QED BY <1>1, <1>2, <1>4 DEF Passed, n

\* At the end every field is where the map puts it.
LEMMA FieldsFound == MapInv => LayoutAgrees
  <1> SUFFICES ASSUME MapInv, Parsed, Regular(map) PROVE FieldsInPlace
    BY DEF LayoutAgrees, Regular
  <1>1. i = Len(map) + 1
    BY DEF MapInv, MapType, AtItem, Starts, Parsed
  <1>2. FieldsAgree
    BY DEF MapInv
  <1> QED BY <1>1, <1>2, AllPassed DEF FieldsAgree, FieldsAt, FieldsInPlace, Movements

\* A value that was taken apart at no bit is as it was, for a field of one byte.
LEMMA WheelByte ==
    ASSUME NEW at \in Nat, NEW data, data[at] \in 0 .. 255, NEW field,
           field.count = 1, field.size = 8, H!Start(field) = at
    PROVE  H!Byte(H!TopField(field, H!FieldValue(field, data))) = data[at]
  <1> DEFINE b == data[at]
  <1>1. 2^8 = 256 /\ 2^0 = 1
    OBVIOUS
  <1>2. H!Bits(field) = 8 /\ H!Bits(field) \div 8 = 1 /\ H!Bits(field) - field.size = 0
    <2>1. field.count * field.size = 8
      OBVIOUS
    <2>2. 8 % 256 = 8 /\ 8 \div 8 = 1
      OBVIOUS
    <2>3. H!Bits(field) = 8
      BY <1>1, <2>1, <2>2 DEF H!Bits, H!Byte
    <2> QED BY <2>2, <2>3
  <1>3. H!Word(0 + b * 2^0) = b
    <2>1. 0 + b * 2^0 = b
      BY <1>1
    <2>2. b \in Nat /\ b < 2^16
      BY 256 < 2^16
    <2> QED BY <2>1, <2>2, ShortWord
  <1>4. H!FieldValue(field, data) = b
    <2> DEFINE n == H!Bits(field) \div 8
               v(s, k) == H!Word(s[k - 1] + data[H!Start(field) + k - 1] * 2^(8 * (n - k)))
               f == CHOOSE s : s = [k \in 0 .. n |-> IF k = 0 THEN 0 ELSE v(s, k)]
               g == [k \in 0 .. n |-> IF k = 0 THEN 0 ELSE b]
    <2>1. H!FieldValue(field, data) = f[n]
      BY Zenon DEF H!FieldValue
    <2>2. \A s : s[0] = 0 => v(s, 1) = b
      <3> SUFFICES ASSUME NEW s, s[0] = 0 PROVE v(s, 1) = b
        OBVIOUS
      <3>1. at + 1 - 1 = at /\ 8 * (1 - 1) = 0 /\ 1 - 1 = 0 /\ n = 1
        BY <1>2
      <3>2. v(s, 1) = H!Word(s[1 - 1] + data[at + 1 - 1] * 2^(8 * (1 - 1)))
        BY <3>1
      <3> HIDE DEF v
      <3>3. v(s, 1) = H!Word(s[0] + data[at] * 2^0)
        BY <3>1, <3>2, Zenon
      <3> QED BY <1>3, <3>3, Zenon
    <2>3. n = 1
      BY <1>2
    <2> HIDE DEF n, v
    <2>4. g[0] = 0 /\ v(g, 1) = b
      BY <2>2, <2>3
    <2>5. g = [k \in 0 .. n |-> IF k = 0 THEN 0 ELSE v(g, k)]
      BY <2>3, <2>4
    <2> HIDE DEF g
    <2>6. f = [k \in 0 .. n |-> IF k = 0 THEN 0 ELSE v(f, k)]
      BY <2>5, Zenon
    <2> HIDE DEF f
    <2>7. f[0] = 0 /\ f[1] = v(f, 1)
      BY <2>3, <2>6
    <2> QED BY <2>1, <2>2, <2>3, <2>7
  <1>5. H!TopField(field, b) = b
    <2>1. field.size - 1 = 7 /\ b \div 1 = b
      OBVIOUS
    <2>2. b \div 2^(H!Bits(field) - field.size) = b
      BY <1>1, <1>2, <2>1, Zenon
    <2>3. H!OrBit(b, 7, H!Bit(b, 7)) = b
      <3> DEFINE p == 2^7
                 c == H!Bit(b, 7)
      <3>1. p \in Nat
        OBVIOUS
      <3>2. H!OrBit(b, 7, c) = IF c = 0 THEN b + c * p ELSE b
        BY Zenon DEF H!OrBit
      <3> HIDE DEF p, c
      <3>3. c = 0 => b + c * p = b
        BY <3>1
      <3> QED BY <3>2, <3>3 DEF c
    <2> QED BY <2>1, <2>2, <2>3, Zenon DEF H!TopField
  <1>6. H!Byte(b) = b
    BY <1>1, Remainder, WordRange DEF H!Byte
  <1> QED BY <1>4, <1>5, <1>6, Zenon

\* At the end a wheel of one byte is read as it was sent.
LEMMA WheelFound == MapInv => WheelIsRead
  <1> DEFINE in == InputOf(map, H!WHEEL)
             begins == BeginsAt(map, in)
             at == 1 + begins \div 8
  <1> SUFFICES ASSUME MapInv, Parsed, Regular(map), Uses(map, H!WHEEL), begins % 8 = 0,
                      Global(map, H!REPORT_SIZE, in) = 8,
                      NEW b \in Bytes, NEW rest \in {0, 255}
               PROVE  H!get_wheel(Report([k \in 0 .. at + 1 |-> rest], at, b)) = H!Signed(b, 8)
    BY DEF WheelIsRead, Regular
  <1>1. mouse.wheel = [bits_start |-> begins, count |-> 1, size |-> 8]
    <2>1. FieldsAgree /\ Passed(map, H!WHEEL, i)
      BY AllPassed DEF MapInv, Movements
    <2> QED BY <2>1 DEF FieldsAgree, FieldsAt
  <1>2. begins \in Nat
    <2>1. map \in Seq(0 .. 255) /\ H!WHEEL \in Movements
      BY DEF MapInv, MapType, Movements
    <2>2. in \in Inputs(map) /\ Layout(map) \in [1 .. Len(map) + 1 -> Nat]
      BY <2>1, AllPassed, LayoutIs DEF Begins
    <2>3. in \in 1 .. Len(map) + 1
      BY <2>1, <2>2 DEF Inputs, Starts
    <2> HIDE DEF in
    <2> QED BY <2>2, <2>3 DEF BeginsAt
  <1> DEFINE data == Report([k \in 0 .. at + 1 |-> rest], at, b)
  <1> HIDE DEF begins
  <1>3. at \in Nat
    BY <1>2
  <1>4. H!Start(mouse.wheel) = at
    BY <1>1 DEF H!Start
  <1>5. data[at] = b
    <2> HIDE DEF at
    <2> QED BY <1>3 DEF Report
  <1>6. b \in 0 .. 255
    BY DEF Bytes
  <1> HIDE DEF data, at
  <1>7. H!Byte(H!TopField(mouse.wheel, H!FieldValue(mouse.wheel, data))) = b
    <2> DEFINE field == mouse.wheel
    <2>1. field.count = 1 /\ field.size = 8 /\ H!Start(field) = at /\ data[at] \in 0 .. 255
      BY <1>1, <1>4, <1>5, <1>6
    <2> HIDE DEF field
    <2>2. H!Byte(H!TopField(field, H!FieldValue(field, data))) = data[at]
      BY <1>3, <2>1, WheelByte
    <2> QED BY <1>5, <2>2, Zenon DEF field
  <1>8. H!get_wheel(data) = H!Signed(b, 8)
    BY <1>7, Zenon DEF H!get_wheel
  <1> QED BY <1>8 DEF data, at, begins

\* Both parsers begin at the beginning.
LEMMA ParsersMapInit == ParsersInit => MapInv
  <1> SUFFICES ASSUME ParsersInit PROVE MapInv
    OBVIOUS
  <1>1. map \in Seq(0 .. 255)
    <2>1. << >> \in Seq(0 .. 255)
      OBVIOUS
    <2> QED BY <2>1, MapsAssumption DEF ParsersInit
  <1> QED BY <1>1, MapInit DEF ParsersInit

\* One of them steps.
LEMMA ParsersMapStep == MapInv /\ [ConfigStep \/ MapStep]_<<vars, mapVars>> => MapInv'
  <1>1. [ConfigStep \/ MapStep]_<<vars, mapVars>> => [H!Next]_mapVars
    BY DEF ConfigStep, MapStep
  <1> QED BY <1>1, MapStepKeeps

\* The parser counts the bits of the report in four places (setup_buttons, setup_x_axis,
\* setup_wheel and the Input item), and cuts the map into items by itself: at the end of any
\* map that describes such a report, of any length and of any items that it can read
\* (Readable), each field is where the map puts it.
THEOREM FieldsWherePut == Parsers => []LayoutAgrees
  <1> QED BY ParsersMapInit, ParsersMapStep, FieldsFound, PTL DEF Parsers

\* get_wheel reads the signed byte that the mouse sent, wherever such a map puts a wheel
\* of one byte.
THEOREM WheelReadAsSent == Parsers => []WheelIsRead
  <1> QED BY ParsersMapInit, ParsersMapStep, WheelFound, PTL DEF Parsers

=============================================================================
