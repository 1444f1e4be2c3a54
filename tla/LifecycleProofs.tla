-------------------------- MODULE LifecycleProofs ---------------------------
(***************************************************************************)
(* IInv is an invariant of HcdLifecycle, for any number of tasks, pipes    *)
(* and channels, any endpoints, and whatever allocation fails.  What is    *)
(* counted is who owns an object; the first part says how the counts move  *)
(* when one task, or one task and one pipe, change what they own.          *)
(***************************************************************************)
EXTENDS HcdLifecycle, FiniteSetTheorems, TLAPS

-----------------------------------------------------------------------------
(* Counting owners *)

\* Nobody in S but x has something else in g than in f.
OnlyAt(S, f, g, x) ==
    IsFiniteSet(S) /\ x \in S /\ \A y \in S : y # x => g[y].own = f[y].own

\* When only x changes what it owns, the number of owners of k moves by x.
LEMMA OwnersMove ==
    ASSUME NEW S, NEW f, NEW g, NEW x, NEW k, OnlyAt(S, f, g, x)
    PROVE  /\ Count(S, f, k) \in Int
           /\ Count(S, g, k) \in Int
           /\ Count(S, g, k) + Has(f[x].own, k)
                  = Count(S, f, k) + Has(g[x].own, k)
  <1> DEFINE F == {y \in S : k \in f[y].own}
             G == {y \in S : k \in g[y].own}
  <1>1. IsFiniteSet(F) /\ IsFiniteSet(G)
    BY FS_Subset DEF OnlyAt
  <1>2. Cardinality(F) \in Nat /\ Cardinality(G) \in Nat
    BY <1>1, FS_CardinalityType
  <1>3. Count(S, f, k) = Cardinality(F) /\ Count(S, g, k) = Cardinality(G)
    BY DEF Count
  <1>4. CASE k \in f[x].own <=> k \in g[x].own
    <2>1. F = G
      BY <1>4 DEF OnlyAt
    <2>2. Has(f[x].own, k) = Has(g[x].own, k)
      BY <1>4 DEF Has
    <2> HIDE DEF F, G
    <2>3. Count(S, g, k) = Count(S, f, k) /\ Count(S, f, k) \in Int
      BY <2>1, <1>2, <1>3
    <2> QED BY ONLY <2>2, <2>3
  <1>5. CASE k \in g[x].own /\ k \notin f[x].own
    <2>1. G = F \union {x} /\ x \notin F
      BY <1>5 DEF OnlyAt
    <2>2. Cardinality(G) = Cardinality(F) + 1
      BY <2>1, <1>1, FS_AddElement
    <2> QED BY <2>2, <1>2, <1>3, <1>5 DEF Has
  <1>6. CASE k \in f[x].own /\ k \notin g[x].own
    <2>1. F = G \union {x} /\ x \notin G
      BY <1>6 DEF OnlyAt
    <2>2. Cardinality(F) = Cardinality(G) + 1
      BY <2>1, <1>1, FS_AddElement
    <2> QED BY <2>2, <1>2, <1>3, <1>6 DEF Has
  <1> QED BY <1>4, <1>5, <1>6

\* The number of owners is a number.
LEMMA OwnersCounted ==
    ASSUME NEW S, IsFiniteSet(S), NEW f, NEW k
    PROVE  Count(S, f, k) \in Int
  <1>1. IsFiniteSet({y \in S : k \in f[y].own})
    BY FS_Subset
  <1> QED BY <1>1, FS_CardinalityType DEF Count

\* A step that lets everyone keep what they have.
LEMMA OwnsKept ==
    ASSUME NothingLeaks, UNCHANGED <<s_hcd_obj, live>>,
           \A p \in Pipe : pipe'[p].own = pipe[p].own,
           \A t \in Task : task'[t].own = task[t].own
    PROVE  NothingLeaks'
  <1>1. ASSUME NEW k \in Kind
        PROVE  /\ {p \in Pipe : k \in pipe'[p].own} = {p \in Pipe : k \in pipe[p].own}
               /\ {t \in Task : k \in task'[t].own} = {t \in Task : k \in task[t].own}
    OBVIOUS
  <1> QED BY <1>1 DEF NothingLeaks, Count

LEMMA HasIsInt == \A own, k : Has(own, k) \in Int
BY DEF Has

\* A step of task t on pipe p: what it adds to the heap is what it adds to the task,
\* to the pipe and to the driver.
LEMMA PipeLedger ==
    ASSUME NothingLeaks, live \in [Kind -> Int], live' \in [Kind -> Int],
           NEW t \in Task, NEW p \in Pipe,
           \A q \in Pipe : q # p => pipe'[q].own = pipe[q].own,
           \A u \in Task : u # t => task'[u].own = task[u].own,
           \A k \in Kind :
               live'[k] + Has(task[t].own, k) + Has(pipe[p].own, k) + Has(s_hcd_obj, k)
                   = live[k] + Has(task'[t].own, k) + Has(pipe'[p].own, k) + Has(s_hcd_obj', k)
    PROVE  NothingLeaks'
  <1> SUFFICES ASSUME NEW k \in Kind
               PROVE  live'[k] = Has(s_hcd_obj', k) + Count(Pipe, pipe', k) + Count(Task, task', k)
    BY DEF NothingLeaks
  <1>1. /\ Count(Task, task, k) \in Int
        /\ Count(Task, task', k) \in Int
        /\ Count(Task, task', k) + Has(task[t].own, k)
               = Count(Task, task, k) + Has(task'[t].own, k)
    <2>1. OnlyAt(Task, task, task', t)
      BY LifecycleAssumption DEF OnlyAt
    <2> QED BY ONLY <2>1, OwnersMove
  <1>2. /\ Count(Pipe, pipe, k) \in Int
        /\ Count(Pipe, pipe', k) \in Int
        /\ Count(Pipe, pipe', k) + Has(pipe[p].own, k)
               = Count(Pipe, pipe, k) + Has(pipe'[p].own, k)
    <2>1. OnlyAt(Pipe, pipe, pipe', p)
      BY LifecycleAssumption DEF OnlyAt
    <2> QED BY ONLY <2>1, OwnersMove
  <1>3. live[k] = Has(s_hcd_obj, k) + Count(Pipe, pipe, k) + Count(Task, task, k)
    BY DEF NothingLeaks
  <1>4. live[k] \in Int /\ live'[k] \in Int
    OBVIOUS
  <1>5. live'[k] + Has(task[t].own, k) + Has(pipe[p].own, k) + Has(s_hcd_obj, k)
            = live[k] + Has(task'[t].own, k) + Has(pipe'[p].own, k) + Has(s_hcd_obj', k)
    OBVIOUS
  <1>6. /\ Has(s_hcd_obj, k) \in Int /\ Has(s_hcd_obj', k) \in Int
        /\ Has(task[t].own, k) \in Int /\ Has(task'[t].own, k) \in Int
        /\ Has(pipe[p].own, k) \in Int /\ Has(pipe'[p].own, k) \in Int
    BY HasIsInt
  <1> QED BY ONLY <1>1, <1>2, <1>3, <1>4, <1>5, <1>6

\* A step of task t that leaves the pipes alone.
LEMMA TaskLedger ==
    ASSUME NothingLeaks, live \in [Kind -> Int], live' \in [Kind -> Int],
           NEW t \in Task, UNCHANGED pipe,
           \A u \in Task : u # t => task'[u].own = task[u].own,
           \A k \in Kind : live'[k] + Has(task[t].own, k) + Has(s_hcd_obj, k)
                               = live[k] + Has(task'[t].own, k) + Has(s_hcd_obj', k)
    PROVE  NothingLeaks'
  <1> SUFFICES ASSUME NEW k \in Kind
               PROVE  live'[k] = Has(s_hcd_obj', k) + Count(Pipe, pipe', k) + Count(Task, task', k)
    BY DEF NothingLeaks
  <1>1. /\ Count(Task, task, k) \in Int
        /\ Count(Task, task', k) \in Int
        /\ Count(Task, task', k) + Has(task[t].own, k)
               = Count(Task, task, k) + Has(task'[t].own, k)
    <2>1. OnlyAt(Task, task, task', t)
      BY LifecycleAssumption DEF OnlyAt
    <2> QED BY ONLY <2>1, OwnersMove
  <1>2. Count(Pipe, pipe, k) \in Int /\ Count(Pipe, pipe', k) = Count(Pipe, pipe, k)
    BY OwnersCounted, LifecycleAssumption
  <1>3. live[k] = Has(s_hcd_obj, k) + Count(Pipe, pipe, k) + Count(Task, task, k)
    BY DEF NothingLeaks
  <1>4. live[k] \in Int /\ live'[k] \in Int
    OBVIOUS
  <1>5. live'[k] + Has(task[t].own, k) + Has(s_hcd_obj, k)
            = live[k] + Has(task'[t].own, k) + Has(s_hcd_obj', k)
    OBVIOUS
  <1>6. /\ Has(s_hcd_obj, k) \in Int /\ Has(s_hcd_obj', k) \in Int
        /\ Has(task[t].own, k) \in Int /\ Has(task'[t].own, k) \in Int
    BY HasIsInt
  <1> QED BY ONLY <1>1, <1>2, <1>3, <1>4, <1>5, <1>6

-----------------------------------------------------------------------------
(* Steps that change the port alone *)

\* A step of the port keeps the invariant, if it leaves the interrupt disabled or
\* the port initialized, and the port initialized under pipes.
LEMMA PortOnly ==
    ASSUME IInv, UNCHANGED <<s_hcd_obj, pipe, task, live>>,
           port' \in Port_t, intr_ena' \in BOOLEAN,
           intr_ena' => HasPort /\ port'.initialized,
           Listed # {} => port'.initialized
    PROVE  IInv'
  <1>1. Listed' = Listed /\ HasPort' = HasPort
    BY DEF Listed, HasPort, Installed
  <1>2. TypeOK'
    BY DEF IInv, TypeOK
  <1>3. OwnByPlace' /\ DriverParts' /\ PipesAllOrNothing'
    BY DEF IInv, OwnByPlace, DriverParts, PipesAllOrNothing
  <1>4. CallsHavePort'
    BY <1>1 DEF IInv, CallsHavePort, OnPort
  <1>5. InterruptHasPort' /\ PipesHavePort'
    BY <1>1 DEF IInv, InterruptHasPort, PipesHavePort
  <1>6. NothingLeaks'
    BY OwnsKept DEF IInv
  <1> QED BY <1>2, <1>3, <1>4, <1>5, <1>6 DEF IInv

LEMMA PortInitSafe == ASSUME IInv, NEW t \in Task, PortInit(t) PROVE IInv'
  <1>1. /\ UNCHANGED <<s_hcd_obj, pipe, task, live>>
        /\ port' \in Port_t /\ intr_ena' \in BOOLEAN
        /\ intr_ena' => HasPort /\ port'.initialized
        /\ Listed # {} => port'.initialized
    BY DEF PortInit, IInv, TypeOK, Port_t, PortState
  <1> QED BY <1>1, PortOnly

LEMMA PortDeinitSafe == ASSUME IInv, NEW t \in Task, PortDeinit(t) PROVE IInv'
  <1>1. /\ UNCHANGED <<s_hcd_obj, pipe, task, live>>
        /\ port' \in Port_t /\ intr_ena' \in BOOLEAN
        /\ intr_ena' => HasPort /\ port'.initialized
        /\ Listed # {} => port'.initialized
    BY DEF PortDeinit, IInv, TypeOK, Port_t
  <1> QED BY <1>1, PortOnly

\* Of the steps that neither initialize the port nor end that.
LEMMA PortMoves ==
    ASSUME IInv, UNCHANGED <<s_hcd_obj, intr_ena, pipe, task, live>>,
           port' \in Port_t, port'.initialized = port.initialized
    PROVE  IInv'
  <1>1. /\ intr_ena' \in BOOLEAN
        /\ intr_ena' => HasPort /\ port'.initialized
        /\ Listed # {} => port'.initialized
    BY DEF IInv, TypeOK, InterruptHasPort, PipesHavePort
  <1> QED BY <1>1, PortOnly

LEMMA CommandSafe ==
    ASSUME IInv, NEW t \in Task,
           PowerOn(t) \/ PowerOff(t) \/ \E bias \in FifoBias : SetFifoBias(t, bias)
    PROVE  IInv'
  <1>1. CASE PowerOn(t)
    <2>1. port' \in Port_t /\ port'.initialized = port.initialized
      BY <1>1 DEF PowerOn, IInv, TypeOK, Port_t, PortState
    <2> QED BY <1>1, <2>1, PortMoves DEF PowerOn
  <1>2. CASE PowerOff(t)
    <2>1. port' \in Port_t /\ port'.initialized = port.initialized
      BY <1>2 DEF PowerOff, IInv, TypeOK, Port_t, PortState
    <2> QED BY <1>2, <2>1, PortMoves DEF PowerOff
  <1>3. ASSUME NEW bias \in FifoBias, SetFifoBias(t, bias)
        PROVE  IInv'
    <2>1. port' \in Port_t /\ port'.initialized = port.initialized
      BY <1>3 DEF SetFifoBias, IInv, TypeOK, Port_t
    <2> QED BY <1>3, <2>1, PortMoves DEF SetFifoBias
  <1> QED BY <1>1, <1>2, <1>3

LEMMA DeviceSafe ==
    ASSUME IInv, DeviceConnected \/ DeviceLost \/ Recover
    PROVE  IInv'
  <1>1. CASE DeviceConnected
    <2>1. port' \in Port_t /\ port'.initialized = port.initialized
      BY <1>1 DEF DeviceConnected, IInv, TypeOK, Port_t, PortState
    <2> QED BY <1>1, <2>1, PortMoves DEF DeviceConnected
  <1>2. CASE DeviceLost
    <2>1. port' \in Port_t /\ port'.initialized = port.initialized
      BY <1>2 DEF DeviceLost, IInv, TypeOK, Port_t, PortState
    <2> QED BY <1>2, <2>1, PortMoves DEF DeviceLost
  <1>3. CASE Recover
    <2>1. port' \in Port_t /\ port'.initialized = port.initialized
      BY <1>3 DEF Recover, IInv, TypeOK, Port_t, PortState
    <2> QED BY <1>3, <2>1, PortMoves DEF Recover
  <1> QED BY <1>1, <1>2, <1>3

-----------------------------------------------------------------------------
(* The reset of the port, and its events *)

\* A task goes from one place to another, and what it has fits its place.
LEMMA StepFits ==
    ASSUME IInv, NEW t \in Task, NEW q \in Task_t, OwnFits(q), task' = [task EXCEPT ![t] = q]
    PROVE  /\ task' \in [Task -> Task_t] /\ task'[t] = q
           /\ \A u \in Task : u # t => task'[u] = task[u]
           /\ OwnByPlace'
  <1>1. task \in [Task -> Task_t] /\ \A u \in Task : OwnFits(task[u])
    BY DEF IInv, TypeOK, OwnByPlace
  <1>2. /\ task' \in [Task -> Task_t] /\ task'[t] = q
        /\ \A u \in Task : u # t => task'[u] = task[u]
    BY <1>1
  <1>3. \A u \in Task : OwnFits(task'[u])
    BY <1>1, <1>2
  <1> QED BY <1>2, <1>3 DEF OwnByPlace

\* A task moves on, with the port, and owns what it owned.
LEMMA TaskMoves ==
    ASSUME IInv, UNCHANGED <<s_hcd_obj, intr_ena, pipe, live>>,
           port' \in Port_t, port'.initialized = port.initialized,
           NEW t \in Task, NEW q \in Task_t, task' = [task EXCEPT ![t] = q],
           OwnFits(q), q.own = task[t].own, q.at \in CallPlace => HasPort
    PROVE  IInv'
  <1>1. Listed' = Listed /\ HasPort' = HasPort
    BY DEF Listed, HasPort, Installed
  <1>2. /\ task' \in [Task -> Task_t] /\ task'[t] = q /\ OwnByPlace'
        /\ \A u \in Task : u # t => task'[u] = task[u]
    BY StepFits
  <1>3. TypeOK'
    BY <1>2 DEF IInv, TypeOK
  <1>4. PipesAllOrNothing' /\ DriverParts'
    BY DEF IInv, PipesAllOrNothing, DriverParts
  <1>5. CallsHavePort'
    BY <1>1, <1>2 DEF IInv, CallsHavePort, OnPort
  <1>6. InterruptHasPort' /\ PipesHavePort'
    BY <1>1 DEF IInv, InterruptHasPort, PipesHavePort
  <1>7. \A u \in Task : task'[u].own = task[u].own
    BY <1>2
  <1>8. NothingLeaks'
    BY <1>7, OwnsKept DEF IInv
  <1> QED BY <1>2, <1>3, <1>4, <1>5, <1>6, <1>8 DEF IInv

\* What is known of a task.
LEMMA TaskKnown ==
    ASSUME IInv, NEW t \in Task
    PROVE  task[t] \in Task_t /\ OwnFits(task[t]) /\ (OnPort(t) => HasPort)
BY DEF IInv, TypeOK, OwnByPlace, CallsHavePort

\* The records that the program starts with.
LEMMA NewRecords ==
    /\ NewPort \in Port_t /\ NoPipe \in Pipe_t /\ Idle \in Task_t /\ OwnFits(Idle)
    /\ NoPipe.own = {} /\ ~NoPipe.listed /\ Idle.own = {} /\ Idle.at = "idle"
  <1>1. NewPort \in Port_t
    BY DEF NewPort, Port_t, PortState, FifoBias
  <1>2. NoEndpoint \in AnyEndpoint /\ NoEndpoint.mps = 0
    BY DEF NoEndpoint, AnyEndpoint
  <1>3. NoPipe \in Pipe_t
    <2>1. 0 \in {ep.mps : ep \in AnyEndpoint}
      BY <1>2
    <2> QED BY <1>2, <2>1 DEF NoPipe, Pipe_t
  <1>4. Idle \in Task_t
    BY <1>2 DEF Idle, Task_t, Places, FifoBias
  <1>5. OwnFits(Idle)
    BY DEF OwnFits, Idle
  <1> QED BY <1>1, <1>3, <1>4, <1>5 DEF NoPipe, Idle

LEMMA ResetSafe ==
    ASSUME IInv, NEW t \in Task, Reset(t) \/ ResetEnabled(t) \/ ResetEnd(t)
    PROVE  IInv'
  <1>1. port \in Port_t /\ task \in [Task -> Task_t]
    BY DEF IInv, TypeOK
  <1>2. ASSUME NEW at \in {"reset_hold", "reset_recovery"}, Goes(t, at), task[t].own = {}, HasPort,
               port' \in Port_t, port'.initialized = port.initialized,
               UNCHANGED <<s_hcd_obj, intr_ena, pipe, live>>
        PROVE  IInv'
    <2> DEFINE q == [task[t] EXCEPT !.at = at]
    <2>1. q \in Task_t /\ q.at = at /\ q.own = task[t].own
      BY <1>1 DEF Task_t, Places
    <2>2. task' = [task EXCEPT ![t] = q]
      BY <1>1, <1>2 DEF Goes
    <2> HIDE DEF q
    <2>3. OwnFits(q)
      BY <1>2, <2>1 DEF OwnFits
    <2> QED BY <1>2, <2>1, <2>2, <2>3, TaskMoves
  <1>3. CASE Reset(t)
    <2>1. port' \in Port_t /\ port'.initialized = port.initialized
      BY <1>1, <1>3 DEF Reset, Port_t, PortState
    <2>2. task[t].own = {} /\ HasPort
      BY <1>3, TaskKnown DEF Reset, CommandAllowed, OwnFits
    <2> QED BY <1>2, <1>3, <2>1, <2>2 DEF Reset
  <1>4. CASE ResetEnabled(t)
    <2>1. port' \in Port_t /\ port'.initialized = port.initialized
      BY <1>1, <1>4 DEF ResetEnabled, Port_t, PortState
    <2>2. task[t].own = {} /\ HasPort
      BY <1>4, TaskKnown DEF ResetEnabled, OwnFits, OnPort, CallPlace
    <2> QED BY <1>2, <1>4, <2>1, <2>2 DEF ResetEnabled
  <1>5. CASE ResetEnd(t)
    <2>1. port' \in Port_t /\ port'.initialized = port.initialized
      BY <1>1, <1>5 DEF ResetEnd, Port_t, FifoBias
    <2>2. task[t].own = {}
      BY <1>5, TaskKnown DEF ResetEnd, OwnFits
    <2>3. Idle.at \notin CallPlace
      BY DEF Idle, CallPlace, AllocPlace
    <2> QED BY <1>5, <2>1, <2>2, <2>3, NewRecords, TaskMoves DEF ResetEnd, Returns
  <1> QED BY <1>3, <1>4, <1>5

LEMMA HandleEventSafe == ASSUME IInv, HandleEvent PROVE IInv'
  <1> USE DEF IInv, HandleEvent
  <1>1. pipe' \in [Pipe -> Pipe_t]
    <2>1. ASSUME NEW p \in Pipe
          PROVE  [pipe[p] EXCEPT !.valid = FALSE] \in Pipe_t
      <3>1. pipe[p] \in Pipe_t
        BY DEF TypeOK
      <3> QED BY ONLY <3>1 DEF Pipe_t
    <2> QED BY <2>1
  <1>2. \A p \in Pipe : pipe'[p].own = pipe[p].own /\ pipe'[p].listed = pipe[p].listed
    BY DEF TypeOK, Pipe_t
  <1>3. Listed' = Listed /\ HasPort' = HasPort
    BY <1>2 DEF Listed, HasPort, Installed
  <1>4. TypeOK'
    <2>1. port' \in Port_t
      BY DEF TypeOK, Port_t
    <2> QED BY <1>1, <2>1 DEF TypeOK
  <1>5. OwnByPlace'
    BY DEF OwnByPlace
  <1>6. PipesAllOrNothing' /\ DriverParts'
    BY <1>2 DEF PipesAllOrNothing, DriverParts
  <1>7. CallsHavePort'
    BY <1>3 DEF CallsHavePort, OnPort
  <1>8. InterruptHasPort' /\ PipesHavePort'
    <2>1. port'.initialized = port.initialized
      BY DEF TypeOK, Port_t
    <2> QED BY <1>3, <2>1 DEF InterruptHasPort, PipesHavePort
  <1>9. NothingLeaks'
    BY <1>2, OwnsKept
  <1> QED BY <1>4, <1>5, <1>6, <1>7, <1>8, <1>9

-----------------------------------------------------------------------------
(* Installation *)

\* Without a port, no pipe, no call on the port, and no interrupt.
LEMMA NothingWithoutPort ==
    ASSUME IInv, ~HasPort
    PROVE  /\ Listed = {} /\ ~intr_ena
           /\ \A u \in Task : ~OnPort(u)
BY DEF IInv, PipesHavePort, InterruptHasPort, CallsHavePort

\* A port that is not initialized has no pipe either, and no interrupt.
LEMMA NothingBeforeInit ==
    ASSUME IInv, ~port.initialized
    PROVE  Listed = {} /\ ~intr_ena
BY DEF IInv, PipesHavePort, InterruptHasPort

\* A step of task t that leaves the driver, the port and the pipes alone.
LEMMA HeapMoves ==
    ASSUME IInv, UNCHANGED <<s_hcd_obj, intr_ena, port, pipe>>,
           NEW t \in Task, NEW q \in Task_t, task' = [task EXCEPT ![t] = q],
           OwnFits(q), q.at \in CallPlace => HasPort, live' \in [Kind -> Int],
           \A k \in Kind : live'[k] + Has(task[t].own, k) = live[k] + Has(q.own, k)
    PROVE  IInv'
  <1>1. Listed' = Listed /\ HasPort' = HasPort
    BY DEF Listed, HasPort, Installed
  <1>2. /\ task' \in [Task -> Task_t] /\ task'[t] = q /\ OwnByPlace'
        /\ \A u \in Task : u # t => task'[u] = task[u]
    BY StepFits
  <1>3. TypeOK'
    BY <1>2 DEF IInv, TypeOK
  <1>4. PipesAllOrNothing' /\ DriverParts'
    BY DEF IInv, PipesAllOrNothing, DriverParts
  <1>5. CallsHavePort'
    BY <1>1, <1>2 DEF IInv, CallsHavePort, OnPort
  <1>6. InterruptHasPort' /\ PipesHavePort'
    BY <1>1 DEF IInv, InterruptHasPort, PipesHavePort
  <1>7. NothingLeaks'
    <2>1. ASSUME NEW k \in Kind
          PROVE  live'[k] + Has(task[t].own, k) + Has(s_hcd_obj, k)
                     = live[k] + Has(task'[t].own, k) + Has(s_hcd_obj', k)
      <3>1. live'[k] + Has(task[t].own, k) = live[k] + Has(task'[t].own, k)
        BY <1>2, <2>1
      <3>2. Has(s_hcd_obj', k) = Has(s_hcd_obj, k)
        OBVIOUS
      <3> QED BY ONLY <3>1, <3>2
    <2>2. live \in [Kind -> Int] /\ NothingLeaks
      BY DEF IInv, TypeOK
    <2>3. \A u \in Task : u # t => task'[u].own = task[u].own
      BY <1>2
    <2> QED BY <2>1, <2>2, <2>3, TaskLedger
  <1> QED BY <1>2, <1>3, <1>4, <1>5, <1>6, <1>7 DEF IInv

\* What allocating and releasing do to the heap.
LEMMA AllocateAdds ==
    ASSUME live \in [Kind -> Int], NEW kinds, Allocate(kinds)
    PROVE  /\ live' \in [Kind -> Int]
           /\ \A k \in Kind : live'[k] = live[k] + Has(kinds, k)
BY DEF Allocate, Has

LEMMA ReleaseTakes ==
    ASSUME live \in [Kind -> Int], NEW kinds, Release(kinds)
    PROVE  /\ live' \in [Kind -> Int]
           /\ \A k \in Kind : live'[k] + Has(kinds, k) = live[k]
BY DEF Release, Has

LEMMA HasNothing == \A k : Has({}, k) = 0
BY DEF Has

\* A call allocates what it does not have yet.
LEMMA TaskGets ==
    ASSUME IInv, UNCHANGED <<s_hcd_obj, intr_ena, port, pipe>>,
           NEW t \in Task, NEW at \in Places, NEW got \in SUBSET Kind,
           got \intersect task[t].own = {}, Gets(t, at, got), Allocate(got),
           OwnFits([task[t] EXCEPT !.at = at, !.own = task[t].own \union got]),
           at \in CallPlace => HasPort
    PROVE  IInv'
  <1> DEFINE q == [task[t] EXCEPT !.at = at, !.own = task[t].own \union got]
  <1>1. task[t] \in Task_t /\ live \in [Kind -> Int]
    BY TaskKnown DEF IInv, TypeOK
  <1>2. task[t].own \union got \in SUBSET Kind
    BY <1>1 DEF Task_t
  <1>3. q \in Task_t /\ q.at = at /\ q.own = task[t].own \union got
    <2>1. q \in Task_t
      BY ONLY <1>1, <1>2, at \in Places DEF Task_t
    <2>2. q.at = at /\ q.own = task[t].own \union got
      BY <1>1 DEF Task_t
    <2> QED BY <2>1, <2>2
  <1>4. task' = [task EXCEPT ![t] = q]
    BY DEF Gets, IInv, TypeOK
  <1>5. OwnFits(q)
    OBVIOUS
  <1> HIDE DEF q
  <1>6. live' \in [Kind -> Int] /\ \A k \in Kind : live'[k] = live[k] + Has(got, k)
    BY <1>1, AllocateAdds
  <1>7. \A k \in Kind : Has(q.own, k) = Has(task[t].own, k) + Has(got, k)
    BY <1>3 DEF Has
  <1>8. \A k \in Kind : live'[k] + Has(task[t].own, k) = live[k] + Has(q.own, k)
    BY <1>1, <1>6, <1>7, HasIsInt
  <1> QED BY <1>3, <1>4, <1>5, <1>6, <1>8, HeapMoves

\* A call frees what it no longer points to.
LEMMA TaskDrops ==
    ASSUME IInv, UNCHANGED <<s_hcd_obj, intr_ena, port, pipe>>,
           NEW t \in Task, NEW at \in Places, NEW kinds,
           Drops(t, at, kinds), Release(task[t].own \intersect kinds),
           OwnFits([task[t] EXCEPT !.at = at, !.own = task[t].own \ kinds]),
           at \in CallPlace => HasPort
    PROVE  IInv'
  <1> DEFINE q == [task[t] EXCEPT !.at = at, !.own = task[t].own \ kinds]
  <1>1. task[t] \in Task_t /\ live \in [Kind -> Int]
    BY TaskKnown DEF IInv, TypeOK
  <1>2. task[t].own \ kinds \in SUBSET Kind
    BY <1>1 DEF Task_t
  <1>3. q \in Task_t /\ q.at = at /\ q.own = task[t].own \ kinds
    <2>1. q \in Task_t
      BY ONLY <1>1, <1>2, at \in Places DEF Task_t
    <2>2. q.at = at /\ q.own = task[t].own \ kinds
      BY <1>1 DEF Task_t
    <2> QED BY <2>1, <2>2
  <1>4. task' = [task EXCEPT ![t] = q]
    BY DEF Drops, IInv, TypeOK
  <1>5. OwnFits(q)
    OBVIOUS
  <1> HIDE DEF q
  <1> DEFINE freed == task[t].own \intersect kinds
  <1>6. live' \in [Kind -> Int] /\ \A k \in Kind : live'[k] + Has(freed, k) = live[k]
    BY <1>1, ReleaseTakes
  <1>7. \A k \in Kind : Has(task[t].own, k) = Has(q.own, k) + Has(freed, k)
    BY <1>3 DEF Has
  <1> HIDE DEF freed
  <1>8. \A k \in Kind : live'[k] + Has(task[t].own, k) = live[k] + Has(q.own, k)
    BY <1>1, <1>6, <1>7, HasIsInt
  <1> QED BY <1>3, <1>4, <1>5, <1>6, <1>8, HeapMoves

\* A call that returns has freed all that it had.
LEMMA TaskFrees ==
    ASSUME IInv, UNCHANGED <<s_hcd_obj, intr_ena, port, pipe>>,
           NEW t \in Task, NEW kinds, kinds = task[t].own, Release(kinds), Returns(t)
    PROVE  IInv'
  <1>1. live' \in [Kind -> Int] /\ \A k \in Kind : live'[k] + Has(task[t].own, k) = live[k]
    BY ReleaseTakes DEF IInv, TypeOK
  <1>2. \A k \in Kind : live'[k] + Has(task[t].own, k) = live[k] + Has(Idle.own, k)
    BY <1>1, NewRecords, HasNothing DEF IInv, TypeOK
  <1>3. Idle.at \notin CallPlace
    BY DEF Idle, CallPlace, AllocPlace
  <1>4. task' = [task EXCEPT ![t] = Idle]
    BY DEF Returns
  <1> QED BY <1>1, <1>2, <1>3, <1>4, NewRecords, HeapMoves

\* A call goes on with what it has.
LEMMA TaskGoes ==
    ASSUME IInv, UNCHANGED <<s_hcd_obj, intr_ena, port, pipe, live>>,
           NEW t \in Task, NEW at \in Places, Goes(t, at),
           OwnFits([task[t] EXCEPT !.at = at]), at \in CallPlace => HasPort
    PROVE  IInv'
  <1> DEFINE q == [task[t] EXCEPT !.at = at]
  <1>1. task[t] \in Task_t /\ port \in Port_t
    BY TaskKnown DEF IInv, TypeOK
  <1>2. q \in Task_t /\ q.at = at /\ q.own = task[t].own
    BY <1>1 DEF Task_t
  <1>3. task' = [task EXCEPT ![t] = q]
    BY DEF Goes, IInv, TypeOK
  <1>4. OwnFits(q)
    OBVIOUS
  <1> HIDE DEF q
  <1> QED BY <1>1, <1>2, <1>3, <1>4, TaskMoves

LEMMA InstallSafe == ASSUME IInv, NEW t \in Task, Install(t) PROVE IInv'
  <1> DEFINE q == [task[t] EXCEPT !.at = "install_alloc"]
  <1>1. task[t].own = {} /\ task[t] \in Task_t
    BY TaskKnown DEF Install, OwnFits
  <1>2. q.at = "install_alloc" /\ q.own = {}
    BY <1>1 DEF Task_t
  <1> HIDE DEF q
  <1>3. OwnFits(q)
    BY <1>2 DEF OwnFits
  <1> QED BY <1>3, TaskGoes DEF Install, q, Places, CallPlace, AllocPlace

LEMMA InstallAllocSafe == ASSUME IInv, NEW t \in Task, InstallAlloc(t) PROVE IInv'
  <1>1. task[t].own = {} /\ task[t] \in Task_t
    BY TaskKnown DEF InstallAlloc, OwnFits
  <1>2. CASE Returns(t) /\ UNCHANGED live
    <2>1. port \in Port_t /\ Idle.at \notin CallPlace
      BY DEF IInv, TypeOK, Idle, CallPlace, AllocPlace
    <2> QED BY <1>1, <1>2, <2>1, NewRecords, TaskMoves DEF InstallAlloc, Returns
  <1>3. CASE Gets(t, "port_alloc", {"hcd"}) /\ Allocate({"hcd"})
    <2> DEFINE q == [task[t] EXCEPT !.at = "port_alloc", !.own = task[t].own \union {"hcd"}]
    <2>1. {"hcd"} \in SUBSET Kind /\ task[t].own \union {"hcd"} = {"hcd"}
      BY <1>1 DEF Kind, DriverKind
    <2>2. q.at = "port_alloc" /\ q.own = {"hcd"}
      BY <1>1, <2>1 DEF Task_t
    <2> HIDE DEF q
    <2>3. OwnFits(q)
      BY <2>2 DEF OwnFits
    <2> QED BY <1>1, <1>3, <2>1, <2>3, TaskGets DEF InstallAlloc, q, Places, CallPlace, AllocPlace
  <1> QED BY <1>2, <1>3 DEF InstallAlloc

LEMMA PortObjAllocSafe == ASSUME IInv, NEW t \in Task, PortObjAlloc(t) PROVE IInv'
  <1>1. task[t].own = {"hcd"} /\ task[t] \in Task_t
    BY TaskKnown DEF PortObjAlloc, OwnFits
  <1>2. PICK got \in SUBSET PortKind : Gets(t, "port_check", got) /\ Allocate(got)
    BY DEF PortObjAlloc
  <1> DEFINE q == [task[t] EXCEPT !.at = "port_check", !.own = task[t].own \union got]
  <1>3. /\ got \in SUBSET Kind /\ got \intersect task[t].own = {}
        /\ task[t].own \union got \in SUBSET Kind
    BY <1>1 DEF Kind, DriverKind, PortKind
  <1>4. q.at = "port_check" /\ q.own = {"hcd"} \union got
    BY <1>1, <1>3 DEF Task_t
  <1> HIDE DEF q
  <1>5. OwnFits(q)
    BY <1>4 DEF OwnFits
  <1> QED BY <1>2, <1>3, <1>5, TaskGets DEF PortObjAlloc, q, Places, CallPlace, AllocPlace

\* The parts of the port that were allocated are freed if one of them is not there.
LEMMA PortObjCheckSafe == ASSUME IInv, NEW t \in Task, PortObjCheck(t) PROVE IInv'
  <1>1. "hcd" \in task[t].own /\ task[t].own \subseteq {"hcd"} \union PortKind /\ task[t] \in Task_t
    BY TaskKnown DEF PortObjCheck, OwnFits
  <1>2. CASE PortKind \subseteq task[t].own
    <2> DEFINE q == [task[t] EXCEPT !.at = "intr_alloc"]
    <2>1. q.at = "intr_alloc" /\ q.own = {"hcd"} \union PortKind
      BY <1>1, <1>2 DEF Task_t
    <2> HIDE DEF q
    <2>2. OwnFits(q)
      BY <2>1 DEF OwnFits
    <2> QED BY <1>2, <2>2, TaskGoes DEF PortObjCheck, q, Places, CallPlace, AllocPlace
  <1>3. CASE ~(PortKind \subseteq task[t].own)
    <2> DEFINE q == [task[t] EXCEPT !.at = "intr_alloc", !.own = task[t].own \ PortKind]
    <2>1. task[t].own \ PortKind = {"hcd"} /\ {"hcd"} \in SUBSET Kind
      BY <1>1 DEF PortKind, Kind, DriverKind
    <2>2. q.at = "intr_alloc" /\ q.own = {"hcd"}
      BY <1>1, <2>1 DEF Task_t
    <2> HIDE DEF q
    <2>3. OwnFits(q)
      BY <2>2 DEF OwnFits
    <2> QED BY <1>3, <2>3, TaskDrops DEF PortObjCheck, q, Places, CallPlace, AllocPlace
  <1> QED BY <1>2, <1>3

LEMMA InstallIntrSafe == ASSUME IInv, NEW t \in Task, InstallIntr(t) PROVE IInv'
  <1>1. task[t].own \in {{"hcd"}, {"hcd"} \union PortKind} /\ task[t] \in Task_t
    BY TaskKnown DEF InstallIntr, OwnFits
  <1>2. CASE Gets(t, "install_publish", {"intr"}) /\ Allocate({"intr"})
    <2> DEFINE q == [task[t] EXCEPT !.at = "install_publish", !.own = task[t].own \union {"intr"}]
    <2>1. /\ {"intr"} \in SUBSET Kind /\ {"intr"} \intersect task[t].own = {}
          /\ task[t].own \union {"intr"} \in SUBSET Kind
          /\ task[t].own \union {"intr"} \in {{"hcd", "intr"}, DriverKind}
      BY <1>1 DEF Kind, DriverKind, PortKind
    <2>2. q.at = "install_publish" /\ q.own = task[t].own \union {"intr"}
      BY <1>1, <2>1 DEF Task_t
    <2> HIDE DEF q
    <2>3. OwnFits(q)
      BY <2>1, <2>2 DEF OwnFits
    <2> QED BY <1>2, <2>1, <2>3, TaskGets DEF InstallIntr, q, Places, CallPlace, AllocPlace
  <1>3. CASE Goes(t, "install_err") /\ UNCHANGED live
    <2> DEFINE q == [task[t] EXCEPT !.at = "install_err"]
    <2>1. q.at = "install_err" /\ q.own = task[t].own
      BY <1>1 DEF Task_t
    <2> HIDE DEF q
    <2>2. OwnFits(q)
      BY <1>1, <2>1 DEF OwnFits, AllOrNone, PortKind, DriverKind
    <2> QED BY <1>3, <2>2, TaskGoes DEF InstallIntr, q, Places, CallPlace, AllocPlace
  <1> QED BY <1>2, <1>3 DEF InstallIntr

\* The call gives its objects to the driver, or keeps them for its error path.
LEMMA InstallPublishSafe == ASSUME IInv, NEW t \in Task, InstallPublish(t) PROVE IInv'
  <1>1. /\ task[t].own \in {{"hcd", "intr"}, DriverKind} /\ task[t] \in Task_t
        /\ live \in [Kind -> Int]
    BY TaskKnown DEF InstallPublish, OwnFits, IInv, TypeOK
  <1>2. CASE Installed
    <2> DEFINE q == [task[t] EXCEPT !.at = "install_err"]
    <2>1. q.at = "install_err" /\ q.own = task[t].own
      BY <1>1 DEF Task_t
    <2> HIDE DEF q
    <2>2. OwnFits(q)
      BY <1>1, <2>1 DEF OwnFits, AllOrNone, PortKind, DriverKind
    <2> QED BY <1>2, <2>2, TaskGoes DEF InstallPublish, q, Places, CallPlace, AllocPlace
  <1>3. CASE ~Installed
    <2>1. ~HasPort /\ s_hcd_obj = {}
      BY <1>3 DEF HasPort, Installed
    <2>2. Listed = {} /\ ~intr_ena /\ \A u \in Task : ~OnPort(u)
      BY <2>1, NothingWithoutPort
    <2>3. Listed' = {}
      BY <1>3, <2>2 DEF InstallPublish, Listed
    <2>4. /\ task' \in [Task -> Task_t] /\ task'[t] = Idle /\ OwnByPlace'
          /\ \A u \in Task : u # t => task'[u] = task[u]
      BY <1>3, NewRecords, StepFits DEF InstallPublish, Returns
    <2>5. TypeOK'
      <3>1. port' \in Port_t
        BY <1>3, NewRecords DEF InstallPublish
      <3>2. s_hcd_obj' \in SUBSET DriverKind /\ live' \in [Kind -> Int]
        BY <1>1, <1>3 DEF InstallPublish, DriverKind
      <3>3. intr_ena' \in BOOLEAN /\ pipe' \in [Pipe -> Pipe_t]
        BY DEF InstallPublish, IInv, TypeOK
      <3> QED BY ONLY <2>4, <3>1, <3>2, <3>3 DEF TypeOK
    <2>6. PipesAllOrNothing' /\ DriverParts'
      BY <1>1, <1>3 DEF InstallPublish, IInv, PipesAllOrNothing, DriverParts
    <2>7. CallsHavePort'
      BY <2>2, <2>4 DEF CallsHavePort, OnPort, Idle, CallPlace, AllocPlace
    <2>8. InterruptHasPort'
      BY <2>2 DEF InstallPublish, InterruptHasPort
    <2>9. PipesHavePort'
      BY <2>2, <2>3 DEF IInv, PipesHavePort
    <2>10. NothingLeaks'
      <3>1. \A k \in Kind : live'[k] + Has(task[t].own, k) + Has(s_hcd_obj, k)
                                = live[k] + Has(task'[t].own, k) + Has(s_hcd_obj', k)
        BY <1>1, <1>3, <2>1, <2>4, NewRecords, HasNothing, HasIsInt DEF InstallPublish
      <3>2. \A u \in Task : u # t => task'[u].own = task[u].own
        BY <2>4
      <3> QED BY <1>1, <1>3, <3>1, <3>2, TaskLedger DEF InstallPublish, IInv
    <2> QED BY <2>4, <2>5, <2>6, <2>7, <2>8, <2>9, <2>10 DEF IInv
  <1> QED BY <1>2, <1>3

\* What the error path frees is what the call has, wherever it came from.
LEMMA InstallErrSafe == ASSUME IInv, NEW t \in Task, InstallErr(t) PROVE IInv'
  <1> DEFINE kinds == (task[t].own \intersect {"intr"}) \union PortObjFree(task[t].own) \union {"hcd"}
  <1>1. "hcd" \in task[t].own /\ task[t].own \subseteq DriverKind /\ AllOrNone(task[t].own, PortKind)
    BY TaskKnown DEF InstallErr, OwnFits
  <1>2. kinds = task[t].own
    BY <1>1 DEF PortObjFree, AllOrNone, PortKind, DriverKind
  <1>3. Release(kinds) /\ Returns(t)
    BY DEF InstallErr
  <1> HIDE DEF kinds
  <1> QED BY <1>2, <1>3, TaskFrees DEF InstallErr

LEMMA UninstallSafe == ASSUME IInv, NEW t \in Task, Uninstall(t) PROVE IInv'
  <1> USE DEF Uninstall
  <1>1. /\ task[t].own = {} /\ task[t] \in Task_t /\ s_hcd_obj = DriverKind
        /\ live \in [Kind -> Int]
    <2>1. task[t].own = {} /\ task[t] \in Task_t
      BY TaskKnown DEF OwnFits
    <2>2. s_hcd_obj = DriverKind /\ live \in [Kind -> Int]
      BY DEF IInv, TypeOK, DriverParts, HasPort, Installed, DriverKind, PortKind
    <2> QED BY <2>1, <2>2
  <1> DEFINE q == [task[t] EXCEPT !.at = "uninstall_free", !.own = s_hcd_obj]
  <1>2. q \in Task_t /\ q.at = "uninstall_free" /\ q.own = DriverKind
    <2>1. s_hcd_obj \in SUBSET Kind /\ "uninstall_free" \in Places
      BY <1>1 DEF Kind, Places
    <2>2. q \in Task_t
      BY ONLY <1>1, <2>1 DEF Task_t
    <2>3. q.at = "uninstall_free" /\ q.own = s_hcd_obj
      BY <1>1 DEF Task_t
    <2> QED BY <1>1, <2>2, <2>3
  <1>3. task' = [task EXCEPT ![t] = q]
    BY DEF IInv, TypeOK
  <1> HIDE DEF q
  <1>4. OwnFits(q)
    BY <1>2 DEF OwnFits
  <1>5. /\ task' \in [Task -> Task_t] /\ task'[t] = q /\ OwnByPlace'
        /\ \A u \in Task : u # t => task'[u] = task[u]
    BY <1>2, <1>3, <1>4, StepFits
  <1>6. Listed = {} /\ ~intr_ena
    BY NothingBeforeInit
  <1>7. Listed' = {}
    BY <1>6 DEF Listed
  <1>8. TypeOK'
    BY <1>5 DEF IInv, TypeOK
  <1>9. PipesAllOrNothing' /\ DriverParts'
    BY DEF IInv, PipesAllOrNothing, DriverParts
  <1>10. CallsHavePort'
    BY <1>2, <1>5 DEF CallsHavePort, OnPort, CallPlace, AllocPlace
  <1>11. InterruptHasPort' /\ PipesHavePort'
    BY <1>6, <1>7 DEF IInv, InterruptHasPort, PipesHavePort
  <1>12. NothingLeaks'
    <2>1. \A k \in Kind : live'[k] + Has(task[t].own, k) + Has(s_hcd_obj, k)
                              = live[k] + Has(task'[t].own, k) + Has(s_hcd_obj', k)
      BY <1>1, <1>2, <1>5, HasNothing, HasIsInt
    <2>2. \A u \in Task : u # t => task'[u].own = task[u].own
      BY <1>5
    <2> QED BY <1>1, <2>1, <2>2, TaskLedger DEF IInv
  <1> QED BY <1>5, <1>8, <1>9, <1>10, <1>11, <1>12 DEF IInv

LEMMA UninstallFreeSafe == ASSUME IInv, NEW t \in Task, UninstallFree(t) PROVE IInv'
  <1> DEFINE kinds == PortObjFree(task[t].own) \union {"intr", "hcd"}
  <1>1. task[t].own = DriverKind
    BY TaskKnown DEF UninstallFree, OwnFits
  <1>2. kinds = task[t].own
    BY <1>1 DEF PortObjFree, PortKind, DriverKind
  <1>3. Release(kinds) /\ Returns(t)
    BY DEF UninstallFree
  <1> HIDE DEF kinds
  <1> QED BY <1>2, <1>3, TaskFrees DEF UninstallFree

-----------------------------------------------------------------------------
(* Pipes *)

\* A pipe that is not in the list owns nothing, one that is there has all its parts.
LEMMA PipeOwn ==
    ASSUME IInv, NEW p \in Pipe
    PROVE  /\ pipe[p].listed => pipe[p].own = PipeKind
           /\ ~pipe[p].listed => pipe[p].own = {}
BY DEF IInv, PipesAllOrNothing

LEMMA PipeAllocSafe ==
    ASSUME IInv, NEW t \in Task, NEW ep \in Endpoint, PipeAlloc(t, ep)
    PROVE  IInv'
  <1> USE DEF PipeAlloc
  <1> DEFINE q == [task[t] EXCEPT !.at = "pipe_alloc", !.i = 0, !.pipe = ep, !.bias = port.fifo_bias]
  <1>1. port.fifo_bias \in FifoBias /\ ep \in AnyEndpoint /\ port \in Port_t
    BY DEF IInv, TypeOK, Port_t, AnyEndpoint
  <1>2. task[t].own = {} /\ task[t] \in Task_t
    BY TaskKnown DEF OwnFits
  <1>3. q \in Task_t /\ q.at = "pipe_alloc" /\ q.own = {} /\ q.i = 0
    <2>1. "pipe_alloc" \in Places /\ 0 \in 0..2
      BY DEF Places
    <2>2. q \in Task_t
      BY ONLY <1>1, <1>2, <2>1 DEF Task_t
    <2>3. q.at = "pipe_alloc" /\ q.own = {} /\ q.i = 0
      BY <1>2 DEF Task_t
    <2> QED BY <2>2, <2>3
  <1>4. task' = [task EXCEPT ![t] = q]
    BY DEF IInv, TypeOK
  <1> HIDE DEF q
  <1>5. OwnFits(q)
    BY <1>3 DEF OwnFits
  <1> QED BY <1>1, <1>2, <1>3, <1>4, <1>5, TaskMoves

\* Both objects, or the error path.
LEMMA PipeObjAllocSafe == ASSUME IInv, NEW t \in Task, PipeObjAlloc(t) PROVE IInv'
  <1>1. /\ task[t].own = {} /\ task[t].i = 0 /\ task[t] \in Task_t /\ HasPort
    BY TaskKnown DEF PipeObjAlloc, OwnFits, OnPort, CallPlace, AllocPlace
  <1> DEFINE at(got) == IF got = ObjKind THEN "buffer_alloc" ELSE "pipe_err"
  <1>2. PICK got \in SUBSET ObjKind : Gets(t, at(got), got) /\ Allocate(got)
    BY DEF PipeObjAlloc
  <1> DEFINE q == [task[t] EXCEPT !.at = at(got), !.own = task[t].own \union got]
  <1>3. /\ got \in SUBSET Kind /\ task[t].own \union got = got
        /\ at(got) \in Places
    BY <1>1 DEF Kind, PipeKind, ObjKind, Places
  <1>4. q.at = at(got) /\ q.own = got /\ q.i = 0
    BY <1>1, <1>3 DEF Task_t
  <1> HIDE DEF q
  <1>5. OwnFits(q)
    <2>1. CASE got = ObjKind
      BY <1>4, <2>1 DEF OwnFits, Built
    <2>2. CASE got # ObjKind
      <3>1. q.at = "pipe_err"
        BY <1>4, <2>2
      <3>2. got \subseteq Built(2) /\ \A i \in 0..1 : AllOrNone(got, BufferKind(i))
        BY <1>2 DEF Built, AllOrNone, BufferKind, ObjKind
      <3> QED BY <1>4, <3>1, <3>2 DEF OwnFits
    <2> QED BY <2>1, <2>2
  <1> HIDE DEF at
  <1> QED BY <1>1, <1>2, <1>3, <1>5, TaskGets DEF PipeObjAlloc, q

LEMMA BufferAllocSafe == ASSUME IInv, NEW t \in Task, BufferAlloc(t) PROVE IInv'
  <1>1. /\ task[t].own = Built(task[t].i) /\ task[t].i \in 0..1 /\ task[t] \in Task_t /\ HasPort
    BY TaskKnown DEF BufferAlloc, OwnFits, OnPort, CallPlace, AllocPlace
  <1>2. PICK got \in SUBSET BufferKind(task[t].i) : Gets(t, "buffer_check", got) /\ Allocate(got)
    BY DEF BufferAlloc
  <1> DEFINE q == [task[t] EXCEPT !.at = "buffer_check", !.own = task[t].own \union got]
  <1>3. /\ got \in SUBSET Kind /\ got \intersect task[t].own = {}
        /\ task[t].own \union got \in SUBSET Kind
        /\ task[t].own \union got \subseteq Built(task[t].i + 1)
    BY <1>1 DEF Kind, PipeKind, ObjKind, BufferKind, Built
  <1>4. q.at = "buffer_check" /\ q.own = task[t].own \union got /\ q.i = task[t].i
    BY <1>1, <1>3 DEF Task_t
  <1> HIDE DEF q
  <1>5. OwnFits(q)
    BY <1>1, <1>3, <1>4 DEF OwnFits
  <1> QED BY <1>1, <1>2, <1>3, <1>5, TaskGets DEF BufferAlloc, q, Places

\* A buffer that lacks its block or its list is freed, and then all the others.
LEMMA BufferCheckSafe == ASSUME IInv, NEW t \in Task, BufferCheck(t) PROVE IInv'
  <1> DEFINE buffer == BufferKind(task[t].i)
  <1>1. /\ Built(task[t].i) \subseteq task[t].own /\ task[t].own \subseteq Built(task[t].i + 1)
        /\ task[t].i \in 0..1 /\ task[t] \in Task_t /\ HasPort
    BY TaskKnown DEF BufferCheck, OwnFits, OnPort, CallPlace, AllocPlace
  <1>2. CASE buffer \subseteq task[t].own
    <2> DEFINE at == IF task[t].i = 0 THEN "buffer_alloc" ELSE "pipe_publish"
               q == [task[t] EXCEPT !.i = task[t].i + 1, !.at = at]
    <2>1. task[t].i + 1 \in 0..2 /\ at \in Places
      BY <1>1 DEF Places
    <2>2. /\ q \in Task_t /\ q.at = at /\ q.own = task[t].own /\ q.i = task[t].i + 1
      BY ONLY <1>1, <2>1 DEF Task_t
    <2>3. task' = [task EXCEPT ![t] = q] /\ UNCHANGED live
      BY <1>2 DEF BufferCheck, IInv, TypeOK
    <2> HIDE DEF q
    <2>4. task[t].own = Built(task[t].i + 1)
      BY <1>1, <1>2 DEF Built, BufferKind, ObjKind
    <2>5. OwnFits(q)
      BY <1>1, <2>2, <2>4 DEF OwnFits
    <2>6. port \in Port_t
      BY DEF IInv, TypeOK
    <2> QED BY <1>1, <2>2, <2>3, <2>5, <2>6, TaskMoves DEF BufferCheck
  <1>3. CASE ~(buffer \subseteq task[t].own)
    <2> DEFINE q == [task[t] EXCEPT !.at = "pipe_err", !.own = task[t].own \ buffer]
    <2>1. task[t].own \ buffer \in SUBSET Kind
      BY <1>1 DEF Task_t
    <2>2. q.at = "pipe_err" /\ q.own = task[t].own \ buffer
      BY <1>1, <2>1 DEF Task_t
    <2> HIDE DEF q
    <2>3. q.own = Built(task[t].i)
      BY <1>1, <2>2 DEF Built, BufferKind, ObjKind
    <2>4. q.own \subseteq Built(2) /\ \A i \in 0..1 : AllOrNone(q.own, BufferKind(i))
      BY <1>1, <2>3 DEF Built, BufferKind, ObjKind, AllOrNone
    <2>5. OwnFits(q)
      BY <2>2, <2>4 DEF OwnFits
    <2> QED BY <1>1, <1>3, <2>5, TaskDrops DEF BufferCheck, q, Places
  <1> QED BY <1>2, <1>3

\* A new pipe takes what the call has allocated, and one channel more.
LEMMA PipePublishSafe ==
    ASSUME IInv, NEW t \in Task, NEW p \in Pipe, PipePublish(t, p)
    PROVE  IInv'
  <1>1. /\ task[t].own = Built(2) /\ task[t] \in Task_t /\ HasPort
        /\ pipe[p].own = {} /\ ~pipe[p].listed /\ live \in [Kind -> Int]
    BY TaskKnown, NewRecords DEF PipePublish, IInv, TypeOK, OwnFits, OnPort, CallPlace, AllocPlace
  <1>2. CASE Goes(t, "pipe_err") /\ UNCHANGED <<pipe, live>>
    <2> DEFINE q == [task[t] EXCEPT !.at = "pipe_err"]
    <2>1. q.at = "pipe_err" /\ q.own = Built(2)
      BY <1>1 DEF Task_t
    <2> HIDE DEF q
    <2>2. \A i \in 0..1 : AllOrNone(Built(2), BufferKind(i))
      BY DEF Built, BufferKind, ObjKind, AllOrNone
    <2>3. OwnFits(q)
      BY <2>1, <2>2 DEF OwnFits
    <2> QED BY <1>1, <1>2, <2>3, TaskGoes DEF PipePublish, q, Places
  <1> DEFINE new == [own |-> task[t].own \union {"chan"}, ep |-> task[t].pipe,
                     mps |-> task[t].pipe.mps, listed |-> TRUE, valid |-> TRUE]
  <1>3. CASE /\ port.initialized /\ Cardinality(Listed) < NumChan
             /\ pipe' = [pipe EXCEPT ![p] = new]
             /\ Allocate({"chan"}) /\ Returns(t)
    <2>1. live' \in [Kind -> Int] /\ \A k \in Kind : live'[k] = live[k] + Has({"chan"}, k)
      BY <1>1, <1>3, AllocateAdds
    <2>2. new \in Pipe_t /\ new.own = PipeKind /\ new.listed
      <3>1. task[t].pipe \in AnyEndpoint /\ Built(2) \union {"chan"} = PipeKind
        BY <1>1 DEF Task_t, PipeKind, Built
      <3> QED BY <1>1, <3>1 DEF Pipe_t
    <2>3. pipe \in [Pipe -> Pipe_t]
      BY DEF IInv, TypeOK
    <2> HIDE DEF new
    <2>4. /\ pipe' \in [Pipe -> Pipe_t] /\ pipe'[p] = new
          /\ \A q \in Pipe : q # p => pipe'[q] = pipe[q]
      BY <1>3, <2>2, <2>3
    <2>5. /\ task' \in [Task -> Task_t] /\ task'[t] = Idle /\ OwnByPlace'
          /\ \A u \in Task : u # t => task'[u] = task[u]
      BY <1>3, NewRecords, StepFits DEF Returns
    <2>6. TypeOK'
      BY <2>1, <2>4, <2>5 DEF PipePublish, IInv, TypeOK
    <2>7. PipesAllOrNothing' /\ DriverParts'
      BY <2>2, <2>4 DEF PipePublish, IInv, PipesAllOrNothing, DriverParts
    <2>8. Listed' = Listed \union {p} /\ p \notin Listed
      BY <1>1, <2>2, <2>4 DEF Listed
    <2>9. Cardinality(Listed') <= NumChan
      <3>1. IsFiniteSet(Listed)
        BY FS_Subset, LifecycleAssumption DEF Listed
      <3>2. Cardinality(Listed') = Cardinality(Listed) + 1 /\ Cardinality(Listed) \in Nat
        BY <2>8, <3>1, FS_AddElement, FS_CardinalityType
      <3> QED BY <1>3, <3>2, LifecycleAssumption
    <2>10. InterruptHasPort' /\ PipesHavePort'
      BY <1>1, <1>3, <2>9 DEF PipePublish, IInv, InterruptHasPort, PipesHavePort, HasPort, Installed
    <2>11. CallsHavePort'
      BY <1>1 DEF PipePublish, CallsHavePort, HasPort, Installed
    <2>12. NothingLeaks'
      <3>1. ASSUME NEW k \in Kind
            PROVE  live'[k] + Has(task[t].own, k) + Has(pipe[p].own, k) + Has(s_hcd_obj, k)
                       = live[k] + Has(task'[t].own, k) + Has(pipe'[p].own, k) + Has(s_hcd_obj', k)
        <4>1. Has({"chan"}, k) + Has(Built(2), k) = Has(PipeKind, k)
          BY DEF Has, PipeKind, Built, BufferKind, ObjKind
        <4>2. Has(pipe[p].own, k) = 0 /\ Has(task'[t].own, k) = 0
          BY <1>1, <2>5, NewRecords, HasNothing
        <4>3. live'[k] = live[k] + Has({"chan"}, k) /\ s_hcd_obj' = s_hcd_obj /\ live[k] \in Int
          BY <1>1, <2>1 DEF PipePublish
        <4>4. task[t].own = Built(2) /\ pipe'[p].own = PipeKind
          BY <1>1, <2>2, <2>4
        <4> QED BY <4>1, <4>2, <4>3, <4>4, HasIsInt
      <3>2. \A q \in Pipe : q # p => pipe'[q].own = pipe[q].own
        BY <2>4
      <3>3. \A u \in Task : u # t => task'[u].own = task[u].own
        BY <2>5
      <3> QED BY <1>1, <2>1, <3>1, <3>2, <3>3, PipeLedger DEF IInv
    <2> QED BY <2>5, <2>6, <2>7, <2>10, <2>11, <2>12 DEF IInv
  <1> QED BY <1>2, <1>3 DEF PipePublish

\* A pipe goes out of the list, its channel back to the controller, and the rest
\* into the hands of the call.
LEMMA PipeFreeSafe ==
    ASSUME IInv, NEW t \in Task, NEW p \in Pipe, PipeFree(t, p)
    PROVE  IInv'
  <1>1. /\ task[t].own = {} /\ task[t] \in Task_t /\ pipe[p].own = PipeKind /\ pipe[p].listed
        /\ live \in [Kind -> Int]
    BY PipeOwn, TaskKnown DEF PipeFree, IInv, TypeOK, OwnFits
  <1>2. PipeKind \ {"chan"} = Built(2) /\ Built(2) \in SUBSET Kind
    BY DEF PipeKind, Built, BufferKind, ObjKind, Kind
  <1> DEFINE q == [task[t] EXCEPT !.at = "pipe_free", !.own = Built(2)]
  <1>3. q \in Task_t /\ q.at = "pipe_free" /\ q.own = Built(2)
    <2> HIDE DEF Built
    <2>1. q \in Task_t
      <3>1. "pipe_free" \in Places
        BY DEF Places
      <3> QED BY ONLY <1>1, <1>2, <3>1 DEF Task_t
    <2>2. q.at = "pipe_free" /\ q.own = Built(2)
      BY <1>1 DEF Task_t
    <2> QED BY <2>1, <2>2
  <1>4. task' = [task EXCEPT ![t] = q]
    BY <1>1, <1>2 DEF PipeFree, IInv, TypeOK
  <1> HIDE DEF q
  <1>5. OwnFits(q)
    BY <1>3 DEF OwnFits
  <1>6. /\ task' \in [Task -> Task_t] /\ task'[t] = q /\ OwnByPlace'
        /\ \A u \in Task : u # t => task'[u] = task[u]
    BY <1>3, <1>4, <1>5, StepFits
  <1>7. /\ pipe' \in [Pipe -> Pipe_t] /\ pipe'[p] = NoPipe
        /\ \A r \in Pipe : r # p => pipe'[r] = pipe[r]
    BY NewRecords DEF PipeFree, IInv, TypeOK
  <1>8. live' \in [Kind -> Int] /\ \A k \in Kind : live'[k] + Has({"chan"}, k) = live[k]
    BY <1>1, ReleaseTakes DEF PipeFree
  <1>9. TypeOK'
    BY <1>6, <1>7, <1>8 DEF PipeFree, IInv, TypeOK
  <1>10. PipesAllOrNothing' /\ DriverParts'
    BY <1>7, NewRecords DEF PipeFree, IInv, PipesAllOrNothing, DriverParts
  <1>11. Listed' = Listed \ {p} /\ p \in Listed
    BY <1>1, <1>7 DEF Listed, NoPipe
  <1>12. HasPort /\ port.initialized /\ HasPort'
    BY <1>11 DEF PipeFree, IInv, PipesHavePort, HasPort, Installed
  <1>13. CallsHavePort'
    BY <1>12 DEF CallsHavePort
  <1>14. Cardinality(Listed') <= NumChan
    <2>1. IsFiniteSet(Listed)
      BY FS_Subset, LifecycleAssumption DEF Listed
    <2>2. Cardinality(Listed') <= Cardinality(Listed)
      BY <1>11, <2>1, FS_Subset
    <2>3. Cardinality(Listed) \in Nat /\ Cardinality(Listed') \in Nat
      BY <1>11, <2>1, FS_Subset, FS_CardinalityType
    <2> QED BY <2>2, <2>3, LifecycleAssumption DEF IInv, PipesHavePort
  <1>15. InterruptHasPort' /\ PipesHavePort'
    BY <1>12, <1>14 DEF PipeFree, IInv, InterruptHasPort, PipesHavePort
  <1>16. NothingLeaks'
    <2>1. ASSUME NEW k \in Kind
          PROVE  live'[k] + Has(task[t].own, k) + Has(pipe[p].own, k) + Has(s_hcd_obj, k)
                     = live[k] + Has(task'[t].own, k) + Has(pipe'[p].own, k) + Has(s_hcd_obj', k)
      <3>1. Has({"chan"}, k) + Has(Built(2), k) = Has(PipeKind, k)
        BY DEF Has, PipeKind, Built, BufferKind, ObjKind
      <3>2. Has(pipe'[p].own, k) = 0 /\ Has(task[t].own, k) = 0
        BY <1>1, <1>7, HasNothing DEF NoPipe
      <3>3. live'[k] + Has({"chan"}, k) = live[k] /\ s_hcd_obj' = s_hcd_obj /\ live'[k] \in Int
        BY <1>8 DEF PipeFree
      <3>4. task'[t].own = Built(2) /\ pipe[p].own = PipeKind
        BY <1>1, <1>3, <1>6
      <3> QED BY <3>1, <3>2, <3>3, <3>4, HasIsInt
    <2>2. \A r \in Pipe : r # p => pipe'[r].own = pipe[r].own
      BY <1>7
    <2>3. \A u \in Task : u # t => task'[u].own = task[u].own
      BY <1>6
    <2> QED BY <1>1, <1>8, <2>1, <2>2, <2>3, PipeLedger DEF IInv
  <1> QED BY <1>6, <1>9, <1>10, <1>13, <1>15, <1>16 DEF IInv

\* What hcd_pipe_free and the error path of hcd_pipe_alloc free is what the call has.
LEMMA PipeReleaseSafe == ASSUME IInv, NEW t \in Task, PipeRelease(t) PROVE IInv'
  <1> DEFINE kinds == BufferFree(task[t].own, 0) \union BufferFree(task[t].own, 1)
                         \union (task[t].own \intersect ObjKind)
  <1>1. task[t].own \subseteq Built(2) /\ \A i \in 0..1 : AllOrNone(task[t].own, BufferKind(i))
    <2>1. CASE task[t].at = "pipe_free"
      <3>1. task[t].own = Built(2)
        BY <2>1, TaskKnown DEF OwnFits
      <3> QED BY <3>1 DEF Built, BufferKind, ObjKind, AllOrNone
    <2>2. CASE task[t].at = "pipe_err"
      BY <2>2, TaskKnown DEF OwnFits
    <2> QED BY <2>1, <2>2 DEF PipeRelease
  <1>2. AllOrNone(task[t].own, BufferKind(0)) /\ AllOrNone(task[t].own, BufferKind(1))
    BY <1>1
  <1>3. kinds = task[t].own
    BY <1>1, <1>2 DEF BufferFree, AllOrNone, BufferKind, BlockKind, ObjKind, Built
  <1>4. Release(kinds) /\ Returns(t)
    BY DEF PipeRelease
  <1> HIDE DEF kinds
  <1> QED BY <1>3, <1>4, TaskFrees DEF PipeRelease

LEMMA PipeUpdateMpsSafe ==
    ASSUME IInv, NEW p \in Pipe, NEW mps \in {8, 64}, PipeUpdateMps(p, mps)
    PROVE  IInv'
  <1>1. pipe' \in [Pipe -> Pipe_t]
    <2>1. [pipe[p] EXCEPT !.mps = mps] \in Pipe_t
      <3>1. pipe[p] \in Pipe_t
        BY DEF IInv, TypeOK
      <3> QED BY ONLY <3>1, mps \in {8, 64} DEF Pipe_t
    <2> QED BY <2>1 DEF PipeUpdateMps, IInv, TypeOK
  <1>2. \A q \in Pipe : pipe'[q].own = pipe[q].own /\ pipe'[q].listed = pipe[q].listed
    BY DEF PipeUpdateMps, IInv, TypeOK, Pipe_t
  <1>3. Listed' = Listed /\ HasPort' = HasPort
    BY <1>2 DEF PipeUpdateMps, Listed, HasPort, Installed
  <1>4. TypeOK'
    BY <1>1 DEF PipeUpdateMps, IInv, TypeOK
  <1>5. OwnByPlace'
    BY DEF PipeUpdateMps, IInv, OwnByPlace
  <1>6. PipesAllOrNothing' /\ DriverParts'
    BY <1>2 DEF PipeUpdateMps, IInv, PipesAllOrNothing, DriverParts
  <1>7. CallsHavePort'
    BY <1>3 DEF PipeUpdateMps, IInv, CallsHavePort, OnPort
  <1>8. InterruptHasPort' /\ PipesHavePort'
    BY <1>3 DEF PipeUpdateMps, IInv, InterruptHasPort, PipesHavePort
  <1>9. NothingLeaks'
    BY <1>2, OwnsKept DEF PipeUpdateMps, IInv
  <1> QED BY <1>4, <1>5, <1>6, <1>7, <1>8, <1>9 DEF IInv

-----------------------------------------------------------------------------
(* The invariant, and the properties it implies *)

LEMMA InitIInv == Init => IInv
  <1> SUFFICES ASSUME Init PROVE IInv
    OBVIOUS
  <1> USE DEF Init
  <1>1. /\ \A p \in Pipe : pipe[p] = NoPipe
        /\ \A t \in Task : task[t] = Idle
    OBVIOUS
  <1>2. TypeOK
    <2>1. pipe \in [Pipe -> Pipe_t] /\ task \in [Task -> Task_t] /\ port \in Port_t
      BY NewRecords
    <2>2. live \in [Kind -> Int]
      OBVIOUS
    <2>3. s_hcd_obj \in SUBSET DriverKind /\ intr_ena \in BOOLEAN
      BY Zenon
    <2> QED BY ONLY <2>1, <2>2, <2>3 DEF TypeOK
  <1>3. OwnByPlace /\ CallsHavePort /\ DriverParts
    BY NewRecords DEF OwnByPlace, CallsHavePort, OnPort, Idle, CallPlace, AllocPlace, DriverParts
  <1>4. PipesAllOrNothing /\ Listed = {}
    BY DEF PipesAllOrNothing, Listed, NoPipe
  <1>5. InterruptHasPort /\ PipesHavePort
    BY <1>4, FS_EmptySet, LifecycleAssumption DEF InterruptHasPort, PipesHavePort
  <1>6. NothingLeaks
    <2>1. ASSUME NEW k \in Kind
          PROVE  Count(Pipe, pipe, k) = 0 /\ Count(Task, task, k) = 0
      <3>1. {p \in Pipe : k \in pipe[p].own} = {} /\ {t \in Task : k \in task[t].own} = {}
        BY <1>1, NewRecords
      <3> QED BY <3>1, FS_EmptySet DEF Count
    <2>2. \A k \in Kind : live[k] = 0 /\ Has(s_hcd_obj, k) = 0
      BY HasNothing
    <2> QED BY ONLY <2>1, <2>2 DEF NothingLeaks
  <1> QED BY <1>2, <1>3, <1>4, <1>5, <1>6 DEF IInv

LEMMA StutterIInv == ASSUME IInv, UNCHANGED vars PROVE IInv'
  <1> USE DEF vars
  <1>1. Listed' = Listed /\ HasPort' = HasPort
    BY DEF Listed, HasPort, Installed
  <1>2. TypeOK' /\ OwnByPlace' /\ PipesAllOrNothing' /\ DriverParts'
    BY DEF IInv, TypeOK, OwnByPlace, PipesAllOrNothing, DriverParts
  <1>3. CallsHavePort' /\ InterruptHasPort' /\ PipesHavePort'
    BY <1>1 DEF IInv, CallsHavePort, OnPort, InterruptHasPort, PipesHavePort
  <1>4. NothingLeaks'
    BY OwnsKept DEF IInv
  <1> QED BY <1>2, <1>3, <1>4 DEF IInv

LEMMA NextIInv == IInv /\ [Next]_vars => IInv'
  <1> SUFFICES ASSUME IInv, [Next]_vars PROVE IInv'
    OBVIOUS
  <1>1. ASSUME NEW t \in Task, DriverNext(t) PROVE IInv'
    BY <1>1, InstallSafe, InstallAllocSafe, PortObjAllocSafe, PortObjCheckSafe, InstallIntrSafe,
       InstallPublishSafe, InstallErrSafe, UninstallSafe, UninstallFreeSafe,
       PortInitSafe, PortDeinitSafe DEF DriverNext
  <1>2. ASSUME NEW t \in Task, PipeNext(t) PROVE IInv'
    BY <1>2, PipeAllocSafe, PipeObjAllocSafe, BufferAllocSafe, BufferCheckSafe, PipePublishSafe,
       PipeFreeSafe, PipeReleaseSafe DEF PipeNext
  <1>3. CASE PortNext
    BY <1>3, DeviceSafe, HandleEventSafe DEF PortNext
  <1>4. CASE UpdateNext
    BY <1>4, PipeUpdateMpsSafe DEF UpdateNext
  <1>5. CASE UNCHANGED vars
    BY <1>5, StutterIInv
  <1> QED BY <1>1, <1>2, <1>3, <1>4, <1>5, CommandSafe, ResetSafe DEF Next

\* Wherever the calls of several tasks meet and whatever allocation fails, what each
\* of them has in its hands follows from where it is.
THEOREM InvariantHolds == Spec => []IInv
  <1> QED BY InitIInv, NextIInv, PTL DEF Spec

\* Every object that hcd.c allocates, its interrupt and its channels have one owner at
\* any time: nothing leaks on an error path, and nothing is freed twice.
THEOREM LeaksNothing == Spec => []NothingLeaks
  <1>1. IInv => NothingLeaks
    BY DEF IInv
  <1> QED BY <1>1, InvariantHolds, PTL

\* hcd_pipe_alloc gives out a pipe with its object, its channel, both buffers and a
\* channel of the controller, or none.
THEOREM AllocatesWhole == Spec => []PipesAreWhole
  <1>1. IInv => PipesAreWhole
    BY DEF IInv, PipesAllOrNothing, PipesAreWhole, Listed
  <1> QED BY <1>1, InvariantHolds, PTL

\* The interrupt is enabled only while there is an initialized port for its handler.
THEOREM InterruptSafe == Spec => []InterruptHasPort
  <1>1. IInv => InterruptHasPort
    BY DEF IInv
  <1> QED BY <1>1, InvariantHolds, PTL

\* hcd_port_deinit and hcd_uninstall leave no pipe behind, and there are never more
\* pipes than channels.
THEOREM PortUnderPipes == Spec => []PipesHavePort
  <1>1. IInv => PipesHavePort
    BY DEF IInv
  <1> QED BY <1>1, InvariantHolds, PTL

-----------------------------------------------------------------------------
(* The FIFOs, as long as they are settled *)

\* What the driver's limit lets through fits into the FIFO, in each configuration;
\* and each configuration is one of 200 lines.
LEMMA LimitFits ==
    ASSUME NEW ep \in AnyEndpoint, NEW bias \in FifoBias, NEW mps \in Nat,
           mps <= MpsLimit(ep, bias)
    PROVE  FitsLines(ep, mps, FifoLines(bias))
  <1>1. ASSUME NEW n \in Nat, NEW l \in Nat, n <= 4 * l
        PROVE  (n + 3) \div 4 <= l
    BY <1>1
  <1>2. CASE bias = "BALANCED"
    <2>1. /\ FifoLines(bias) = [rx |-> 104, nptx |-> 48, ptx |-> 48]
          /\ MpsLimits(bias) = [in |-> 408, nptx |-> 192, ptx |-> 192]
      BY <1>2 DEF FifoLines, MpsLimits
    <2> QED BY <1>1, <2>1 DEF FitsLines, MpsLimit
  <1>3. CASE bias = "RX"
    <2>1. /\ FifoLines(bias) = [rx |-> 152, nptx |-> 16, ptx |-> 32]
          /\ MpsLimits(bias) = [in |-> 600, nptx |-> 64, ptx |-> 128]
      BY <1>3 DEF FifoLines, MpsLimits
    <2> QED BY <1>1, <2>1 DEF FitsLines, MpsLimit
  <1>4. CASE bias = "PTX"
    <2>1. /\ FifoLines(bias) = [rx |-> 34, nptx |-> 16, ptx |-> 150]
          /\ MpsLimits(bias) = [in |-> 128, nptx |-> 64, ptx |-> 600]
      BY <1>4 DEF FifoLines, MpsLimits
    <2> QED BY <1>1, <2>1 DEF FitsLines, MpsLimit
  <1> QED BY <1>2, <1>3, <1>4 DEF FifoBias

\* The three FIFOs have 200 lines in every configuration.
LEMMA FifosShareLines ==
    ASSUME NEW bias \in FifoBias
    PROVE  LET lines == FifoLines(bias) IN lines.rx + lines.nptx + lines.ptx = 200
  <1>1. FifoLines("BALANCED") = [rx |-> 104, nptx |-> 48, ptx |-> 48]
    BY DEF FifoLines
  <1>2. FifoLines("RX") = [rx |-> 152, nptx |-> 16, ptx |-> 32]
    BY DEF FifoLines
  <1>3. FifoLines("PTX") = [rx |-> 34, nptx |-> 16, ptx |-> 150]
    BY DEF FifoLines
  <1> QED BY <1>1, <1>2, <1>3 DEF FifoBias

\* The two halves of FifoInv, of one task and of one pipe.
AllocFits(u) ==
    task[u].at \in AllocPlace =>
        /\ task[u].bias = port.fifo_bias
        /\ task[u].pipe.is_default \/ task[u].pipe.mps <= MpsLimit(task[u].pipe, port.fifo_bias)

PipeFits(p) ==
    pipe[p].listed /\ ~pipe[p].ep.is_default => pipe[p].mps <= MpsLimit(pipe[p].ep, port.fifo_bias)

AllFits == (\A u \in Task : AllocFits(u)) /\ (\A p \in Pipe : PipeFits(p))

\* FifoInv is what is known of each task and of each pipe.
LEMMA FifoParts == TypeOK => (FifoInv <=> AllFits)
  <1> SUFFICES ASSUME TypeOK PROVE FifoInv <=> AllFits
    OBVIOUS
  <1>1. port.fifo_bias \in FifoBias
    BY DEF TypeOK, Port_t
  <1>2. BiasStillRead <=> \A u \in Task : AllocFits(u)
    BY DEF BiasStillRead, AllocFits
  <1>3. PipesFitFifo => \A p \in Pipe : PipeFits(p)
    BY DEF PipesFitFifo, PipeFits, Listed
  <1>4. ASSUME \A p \in Pipe : PipeFits(p) PROVE PipesFitFifo
    <2> DEFINE lines == FifoLines(port.fifo_bias)
    <2>1. lines.rx + lines.nptx + lines.ptx = 200
      BY <1>1, FifosShareLines
    <2>2. ASSUME NEW p \in Listed, ~pipe[p].ep.is_default
          PROVE  /\ pipe[p].mps <= MpsLimit(pipe[p].ep, port.fifo_bias)
                 /\ FitsLines(pipe[p].ep, pipe[p].mps, lines)
      <3>1. p \in Pipe /\ pipe[p].listed
        BY <2>2 DEF Listed
      <3>2. pipe[p].mps <= MpsLimit(pipe[p].ep, port.fifo_bias)
        BY <1>4, <2>2, <3>1 DEF PipeFits
      <3>3. pipe[p].ep \in AnyEndpoint /\ pipe[p].mps \in Nat
        <4>1. pipe[p] \in Pipe_t
          BY <3>1 DEF TypeOK
        <4>2. \A ep \in AnyEndpoint : ep.mps \in Nat
          BY EndpointAssumption DEF AnyEndpoint, NoEndpoint
        <4> QED BY <4>1, <4>2 DEF Pipe_t
      <3>4. FitsLines(pipe[p].ep, pipe[p].mps, lines)
        BY <1>1, <3>2, <3>3, LimitFits
      <3> QED BY <3>2, <3>4
    <2> HIDE DEF lines
    <2> QED BY <2>1, <2>2 DEF PipesFitFifo, lines
  <1> QED BY <1>2, <1>3, <1>4 DEF FifoInv, AllFits

\* A new configuration finds neither a pipe nor an allocation.
LEMMA BiasMoves ==
    ASSUME IInv, Next, FifosSettled, port'.fifo_bias # port.fifo_bias
    PROVE  /\ UNCHANGED pipe /\ Listed = {}
           /\ \A u \in Task : task'[u].at \notin AllocPlace
  <1>1. port \in Port_t /\ task \in [Task -> Task_t]
    BY DEF IInv, TypeOK
  <1>2. \A u \in Task : task[u].at \notin AllocPlace
    BY DEF FifosSettled
  <1>3. PICK t \in Task :
            InstallPublish(t) \/ ResetEnd(t) \/ \E bias \in FifoBias : SetFifoBias(t, bias)
    <2>1. ASSUME NEW t \in Task
          PROVE  /\ DriverNext(t) /\ ~InstallPublish(t) => port'.fifo_bias = port.fifo_bias
                 /\ PipeNext(t) => port'.fifo_bias = port.fifo_bias
                 /\ PowerOn(t) \/ PowerOff(t) \/ Reset(t) \/ ResetEnabled(t)
                        => port'.fifo_bias = port.fifo_bias
      <3>1. DriverNext(t) /\ ~InstallPublish(t) => port'.fifo_bias = port.fifo_bias
        BY <1>1 DEF DriverNext, Install, InstallAlloc, PortObjAlloc, PortObjCheck, InstallIntr,
                    InstallErr, Uninstall, UninstallFree, PortInit, PortDeinit, Port_t
      <3>2. PipeNext(t) => port'.fifo_bias = port.fifo_bias
        BY DEF PipeNext, PipeAlloc, PipeObjAlloc, BufferAlloc, BufferCheck, PipePublish, PipeFree,
               PipeRelease
      <3>3. PowerOn(t) \/ PowerOff(t) \/ Reset(t) \/ ResetEnabled(t) => port'.fifo_bias = port.fifo_bias
        BY <1>1 DEF PowerOn, PowerOff, Reset, ResetEnabled, Port_t
      <3> QED BY <3>1, <3>2, <3>3
    <2>2. PortNext \/ UpdateNext => port'.fifo_bias = port.fifo_bias
      BY <1>1 DEF PortNext, UpdateNext, DeviceConnected, DeviceLost, HandleEvent, Recover,
                  PipeUpdateMps, Port_t
    <2> QED BY <2>1, <2>2 DEF Next
  <1>4. CASE InstallPublish(t)
    <2>1. ~Installed
      BY <1>4 DEF InstallPublish
    <2>2. Listed = {}
      BY <2>1, NothingWithoutPort DEF HasPort
    <2>3. UNCHANGED pipe /\ task' = [task EXCEPT ![t] = Idle]
      BY <1>4, <2>1 DEF InstallPublish, Returns
    <2> QED BY <1>1, <1>2, <2>2, <2>3 DEF Idle, AllocPlace
  <1>5. CASE ResetEnd(t)
    <2>1. /\ UNCHANGED pipe /\ task' = [task EXCEPT ![t] = Idle]
          /\ task[t].at = "reset_recovery"
      BY <1>5 DEF ResetEnd, Returns
    <2>2. Listed = {}
      BY <1>1, <2>1 DEF FifosSettled, Idle
    <2> QED BY <1>1, <1>2, <2>1, <2>2 DEF Idle, AllocPlace
  <1>6. CASE \E bias \in FifoBias : SetFifoBias(t, bias)
    BY <1>2, <1>6 DEF SetFifoBias
  <1> QED BY <1>3, <1>4, <1>5, <1>6

\* An allocation keeps what it has read.
LEMMA AllocKeeps ==
    ASSUME IInv, Next, port'.fifo_bias = port.fifo_bias, NEW u \in Task, AllocFits(u)
    PROVE  AllocFits(u)'
  <1>1. task \in [Task -> Task_t]
    BY DEF IInv, TypeOK
  <1>2. CASE task'[u] = task[u]
    BY <1>2 DEF AllocFits
  <1>3. CASE task'[u].at \notin AllocPlace
    BY <1>3 DEF AllocFits
  <1>4. ASSUME NEW t \in Task, NEW ep \in Endpoint, PipeAlloc(t, ep) PROVE AllocFits(u)'
    <2> DEFINE q == [task[t] EXCEPT !.at = "pipe_alloc", !.i = 0, !.pipe = ep, !.bias = port.fifo_bias]
    <2>1. task' = [task EXCEPT ![t] = q]
      BY <1>4 DEF PipeAlloc
    <2>2. q.pipe = ep /\ q.bias = port.fifo_bias
      BY <1>1 DEF Task_t
    <2>3. ep.is_default \/ ep.mps <= MpsLimit(ep, port.fifo_bias)
      BY <1>4 DEF PipeAlloc, PipeAllocCheckArgs
    <2> HIDE DEF q
    <2>4. u # t => task'[u] = task[u]
      BY <1>1, <2>1
    <2>5. u = t => task'[u] = q
      BY <1>1, <2>1
    <2> QED BY <1>2, <2>2, <2>3, <2>4, <2>5 DEF AllocFits
  <1>5. ASSUME NEW t \in Task, NEW q, task[t].at \in AllocPlace, task' = [task EXCEPT ![t] = q],
               q.pipe = task[t].pipe, q.bias = task[t].bias
        PROVE  AllocFits(u)'
    <2>1. u # t => task'[u] = task[u]
      BY <1>1, <1>5
    <2>2. u = t => task'[u] = q
      BY <1>1, <1>5
    <2> QED BY <1>2, <1>5, <2>1, <2>2 DEF AllocFits
  <1>6. ASSUME NEW t \in Task, Returns(t) PROVE AllocFits(u)'
    BY <1>1, <1>2, <1>3, <1>6 DEF Returns, Idle, AllocPlace
  <1>7. ASSUME NEW t \in Task, NEW at \in Places \ AllocPlace, NEW own,
               \/ Goes(t, at) \/ Gets(t, at, own) \/ Drops(t, at, own)
               \/ task' = [task EXCEPT ![t].at = at, ![t].own = own]
        PROVE  AllocFits(u)'
    <2>1. u # t => task'[u] = task[u]
      BY <1>1, <1>7 DEF Goes, Gets, Drops
    <2>2. u = t => task'[u].at = at
      BY <1>1, <1>7 DEF Goes, Gets, Drops, Task_t
    <2> QED BY <1>2, <1>3, <1>7, <2>1, <2>2
  <1>8. ASSUME NEW t \in Task, DriverNext(t) PROVE AllocFits(u)'
    <2> USE DEF Places, AllocPlace
    <2>1. CASE Install(t) \/ Uninstall(t)
      BY <1>7, <2>1 DEF Install, Uninstall
    <2>2. CASE InstallAlloc(t) \/ InstallIntr(t) \/ InstallPublish(t)
      BY <1>6, <1>7, <2>2 DEF InstallAlloc, InstallIntr, InstallPublish
    <2>3. CASE PortObjAlloc(t) \/ PortObjCheck(t)
      BY <1>7, <2>3 DEF PortObjAlloc, PortObjCheck
    <2>4. CASE InstallErr(t) \/ UninstallFree(t)
      BY <1>6, <2>4 DEF InstallErr, UninstallFree
    <2>5. CASE PortInit(t) \/ PortDeinit(t)
      BY <1>2, <2>5 DEF PortInit, PortDeinit
    <2> QED BY <1>8, <2>1, <2>2, <2>3, <2>4, <2>5 DEF DriverNext
  <1>9. ASSUME NEW t \in Task, PipeNext(t) PROVE AllocFits(u)'
    <2>0. \A at, own, i :
              /\ [task[t] EXCEPT !.at = at, !.own = own].pipe = task[t].pipe
              /\ [task[t] EXCEPT !.at = at, !.own = own].bias = task[t].bias
              /\ [task[t] EXCEPT !.i = i, !.at = at].pipe = task[t].pipe
              /\ [task[t] EXCEPT !.i = i, !.at = at].bias = task[t].bias
      BY <1>1 DEF Task_t
    <2>1. ASSUME NEW at, NEW own, task[t].at \in AllocPlace, Goes(t, at) \/ Gets(t, at, own)
          PROVE  AllocFits(u)'
      <3>1. CASE Goes(t, at)
        <4>1. task' = [task EXCEPT ![t] = [task[t] EXCEPT !.at = at]]
          BY <1>1, <3>1 DEF Goes
        <4>2. /\ [task[t] EXCEPT !.at = at].pipe = task[t].pipe
              /\ [task[t] EXCEPT !.at = at].bias = task[t].bias
          BY <1>1 DEF Task_t
        <4> QED BY <1>5, <2>1, <4>1, <4>2
      <3>2. CASE Gets(t, at, own)
        <4>1. task' = [task EXCEPT ![t] = [task[t] EXCEPT !.at = at, !.own = task[t].own \union own]]
          BY <1>1, <3>2 DEF Gets
        <4> QED BY <1>5, <2>0, <2>1, <4>1
      <3> QED BY <2>1, <3>1, <3>2
    <2>2. CASE PipeObjAlloc(t) \/ BufferAlloc(t)
      BY <2>1, <2>2 DEF PipeObjAlloc, BufferAlloc, AllocPlace
    <2>3. CASE BufferCheck(t)
      <3>1. CASE BufferKind(task[t].i) \subseteq task[t].own
        <4> DEFINE at == IF task[t].i = 0 THEN "buffer_alloc" ELSE "pipe_publish"
        <4>1. task' = [task EXCEPT ![t] = [task[t] EXCEPT !.i = task[t].i + 1, !.at = at]]
          BY <1>1, <2>3, <3>1 DEF BufferCheck
        <4>2. /\ [task[t] EXCEPT !.i = task[t].i + 1, !.at = at].pipe = task[t].pipe
              /\ [task[t] EXCEPT !.i = task[t].i + 1, !.at = at].bias = task[t].bias
              /\ task[t].at \in AllocPlace
          BY <1>1, <2>3 DEF Task_t, BufferCheck, AllocPlace
        <4> HIDE DEF at
        <4> DEFINE q == [task[t] EXCEPT !.i = task[t].i + 1, !.at = at]
        <4>3. task' = [task EXCEPT ![t] = q] /\ q.pipe = task[t].pipe /\ q.bias = task[t].bias
          BY <4>1, <4>2
        <4> HIDE DEF q
        <4> QED BY <1>5, <4>2, <4>3
      <3>2. CASE ~(BufferKind(task[t].i) \subseteq task[t].own)
        BY <1>7, <2>3, <3>2 DEF BufferCheck, Places, AllocPlace
      <3> QED BY <3>1, <3>2
    <2>4. CASE \E p \in Pipe : PipePublish(t, p)
      BY <1>6, <1>7, <2>4 DEF PipePublish, Places, AllocPlace
    <2>5. CASE \E p \in Pipe : PipeFree(t, p)
      BY <1>7, <2>5 DEF PipeFree, Places, AllocPlace
    <2>6. CASE PipeRelease(t)
      BY <1>6, <2>6 DEF PipeRelease
    <2> QED BY <1>4, <1>9, <2>2, <2>3, <2>4, <2>5, <2>6 DEF PipeNext
  <1>10. ASSUME NEW t \in Task, Reset(t) \/ ResetEnabled(t) \/ ResetEnd(t) PROVE AllocFits(u)'
    BY <1>6, <1>7, <1>10 DEF Reset, ResetEnabled, ResetEnd, Places, AllocPlace
  <1>11. ASSUME NEW t \in Task, PowerOn(t) \/ PowerOff(t) \/ \E bias \in FifoBias : SetFifoBias(t, bias)
         PROVE  AllocFits(u)'
    BY <1>2, <1>11 DEF PowerOn, PowerOff, SetFifoBias
  <1>12. CASE PortNext \/ UpdateNext
    BY <1>2, <1>12 DEF PortNext, UpdateNext, DeviceConnected, DeviceLost, HandleEvent, Recover,
                       PipeUpdateMps
  <1> QED BY <1>8, <1>9, <1>10, <1>11, <1>12 DEF Next

\* A pipe is as large as the FIFO let it be when it was allocated.
LEMMA PipeKeeps ==
    ASSUME IInv, Next, port'.fifo_bias = port.fifo_bias, NEW p \in Pipe, PipeFits(p),
           \A u \in Task : AllocFits(u)
    PROVE  PipeFits(p)'
  <1>1. pipe \in [Pipe -> Pipe_t]
    BY DEF IInv, TypeOK
  <1>2. CASE /\ pipe'[p].listed = pipe[p].listed /\ pipe'[p].ep = pipe[p].ep
             /\ pipe'[p].mps = pipe[p].mps
    BY <1>2 DEF PipeFits
  <1>3. CASE ~pipe'[p].listed
    BY <1>3 DEF PipeFits
  <1>4. ASSUME NEW t \in Task, NEW q \in Pipe, PipePublish(t, q) PROVE PipeFits(p)'
    <2>1. CASE UNCHANGED pipe
      BY <1>2, <2>1
    <2>2. CASE ~(UNCHANGED pipe)
      <3> DEFINE r == [own |-> task[t].own \union {"chan"}, ep |-> task[t].pipe,
                       mps |-> task[t].pipe.mps, listed |-> TRUE, valid |-> TRUE]
      <3>1. pipe' = [pipe EXCEPT ![q] = r] /\ task[t].at = "pipe_publish"
        BY <1>4, <2>2 DEF PipePublish
      <3>2. r.ep = task[t].pipe /\ r.mps = task[t].pipe.mps
        OBVIOUS
      <3> HIDE DEF r
      <3>3. r.ep.is_default \/ r.mps <= MpsLimit(r.ep, port.fifo_bias)
        BY <3>1, <3>2 DEF AllocFits, AllocPlace
      <3>4. p # q => pipe'[p] = pipe[p]
        BY <1>1, <3>1
      <3>5. p = q => pipe'[p] = r
        BY <1>1, <3>1
      <3> QED BY <1>2, <3>3, <3>4, <3>5 DEF PipeFits
    <2> QED BY <2>1, <2>2
  <1>5. ASSUME NEW t \in Task, NEW q \in Pipe, PipeFree(t, q) PROVE PipeFits(p)'
    BY <1>1, <1>2, <1>3, <1>5 DEF PipeFree, NoPipe
  <1>6. ASSUME NEW q \in Pipe, NEW mps \in {8, 64}, PipeUpdateMps(q, mps) PROVE PipeFits(p)'
    <2>1. p # q => pipe'[p] = pipe[p]
      BY <1>1, <1>6 DEF PipeUpdateMps
    <2>2. p = q => pipe'[p].ep.is_default
      BY <1>1, <1>6 DEF PipeUpdateMps, Pipe_t
    <2> QED BY <1>2, <2>1, <2>2 DEF PipeFits
  <1>7. CASE HandleEvent
    BY <1>1, <1>2, <1>7 DEF HandleEvent, Pipe_t
  <1>8. CASE UNCHANGED pipe
    BY <1>2, <1>8
  <1>9. ASSUME NEW t \in Task, DriverNext(t) PROVE UNCHANGED pipe
    BY <1>9 DEF DriverNext, Install, InstallAlloc, PortObjAlloc, PortObjCheck, InstallIntr,
                InstallPublish, InstallErr, Uninstall, UninstallFree, PortInit, PortDeinit
  <1>10. ASSUME NEW t \in Task, PowerOn(t) \/ PowerOff(t) \/ Reset(t) \/ ResetEnabled(t) \/ ResetEnd(t)
                                \/ \E bias \in FifoBias : SetFifoBias(t, bias)
         PROVE  UNCHANGED pipe
    BY <1>10 DEF PowerOn, PowerOff, Reset, ResetEnabled, ResetEnd, SetFifoBias
  <1>11. ASSUME NEW t \in Task, PipeNext(t) PROVE PipeFits(p)'
    <2>1. CASE \/ \E ep \in Endpoint : PipeAlloc(t, ep)
               \/ PipeObjAlloc(t) \/ BufferAlloc(t) \/ BufferCheck(t) \/ PipeRelease(t)
      BY <1>8, <2>1 DEF PipeAlloc, PipeObjAlloc, BufferAlloc, BufferCheck, PipeRelease
    <2> QED BY <1>4, <1>5, <1>11, <2>1 DEF PipeNext
  <1>12. CASE PortNext
    BY <1>7, <1>8, <1>12 DEF PortNext, DeviceConnected, DeviceLost, Recover
  <1> QED BY <1>6, <1>8, <1>9, <1>10, <1>11, <1>12 DEF Next, UpdateNext

\* FifoInv is inductive, on top of IInv.
LEMMA FifoInductive ==
    IInv /\ FifoInv /\ [Next /\ FifosSettled]_vars => FifoInv'
  <1>0. TypeOK' => (FifoInv' <=> AllFits')
    BY FifoParts, PTL
  <1> SUFFICES ASSUME IInv, FifoInv, [Next /\ FifosSettled]_vars PROVE FifoInv'
    OBVIOUS
  <1>1. TypeOK /\ TypeOK'
    BY NextIInv DEF IInv
  <1>2. (\A u \in Task : AllocFits(u)) /\ (\A p \in Pipe : PipeFits(p))
    BY <1>1, FifoParts DEF AllFits
  <1>3. (\A u \in Task : AllocFits(u)') /\ (\A p \in Pipe : PipeFits(p)')
    <2>1. CASE UNCHANGED vars
      BY <1>2, <2>1 DEF vars, AllocFits, PipeFits
    <2>2. CASE Next /\ FifosSettled /\ port'.fifo_bias # port.fifo_bias
      BY <2>2, BiasMoves DEF AllocFits, PipeFits, Listed
    <2>3. CASE Next /\ port'.fifo_bias = port.fifo_bias
      BY <1>2, <2>3, AllocKeeps, PipeKeeps
    <2> QED BY <2>1, <2>2, <2>3
  <1>4. FifoInv' <=> AllFits'
    BY <1>0, <1>1
  <1> QED BY <1>3, <1>4 DEF AllFits

\* Before the driver is installed.
LEMMA InitFifo == Init => FifoInv
  <1> SUFFICES ASSUME Init PROVE FifoInv
    OBVIOUS
  <1>1. TypeOK
    BY InitIInv DEF IInv
  <1>2. (\A u \in Task : AllocFits(u)) /\ (\A p \in Pipe : PipeFits(p))
    BY DEF Init, AllocFits, PipeFits, Idle, NoPipe, AllocPlace
  <1> QED BY <1>1, <1>2, FifoParts DEF AllFits

\* As long as the FIFOs are not set under an allocation or a pipe, the packets of every
\* pipe fit into them: the limits that pipe_alloc_check_args compares are enough, in
\* all three configurations and for any endpoints, and no path leaves an old bias.
THEOREM PacketsFit == SettledSpec => []PipesFitFifo
  <1>1. IInv /\ FifoInv /\ [Next /\ FifosSettled]_vars => (IInv /\ FifoInv)'
    BY NextIInv, FifoInductive
  <1>2. FifoInv => PipesFitFifo
    BY DEF FifoInv
  <1> QED BY <1>1, <1>2, InitIInv, InitFifo, PTL DEF SettledSpec

=============================================================================
