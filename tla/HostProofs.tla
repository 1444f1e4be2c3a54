----------------------------- MODULE HostProofs -----------------------------
(***************************************************************************)
(* The port of the host layer, for any pipes, requests and lengths of the  *)
(* queues: its types, its messages and the loss of a device (PortInv),     *)
(* operator by operator and then action by action; and, of the visit of a  *)
(* device (HostVisit), what each action of the port and of the pipes keeps *)
(* of it, whatever the class driver does in between.                       *)
(***************************************************************************)
EXTENDS HostVisit, FiniteSetTheorems, SequenceTheorems, TLAPS

-----------------------------------------------------------------------------
(* The pipes of the driver *)

IrpStatus == {"COMPLETED", "CANCELED", "NO_DEVICE"} \union Error

\* The fields of a pipe.
LEMMA DriverFields ==
    ASSUME NEW d \in Driver_t
    PROVE  /\ d.alloc \in BOOLEAN /\ d.state \in {"ACTIVE", "HALTED", "INVALID"}
           /\ d.moving \in Seq(Irp) /\ d.pending \in Seq(Irp) /\ d.done \in Seq(IrpDone)
           /\ d.moving # << >> => Head(d.moving) \in Irp /\ Tail(d.moving) \in Seq(Irp)
           /\ d.pending # << >> => Head(d.pending) \in Irp /\ Tail(d.pending) \in Seq(Irp)
           /\ d.done # << >> => Head(d.done) \in IrpDone /\ Tail(d.done) \in Seq(IrpDone)
  <1>1. /\ d.alloc \in BOOLEAN /\ d.state \in {"ACTIVE", "HALTED", "INVALID"}
        /\ d.moving \in Seq(Irp) /\ d.pending \in Seq(Irp) /\ d.done \in Seq(IrpDone)
    BY DEF Driver_t
  <1>2. ASSUME NEW S, NEW s \in Seq(S), s # << >> PROVE Head(s) \in S /\ Tail(s) \in Seq(S)
    BY <1>2
  <1> QED BY <1>1, <1>2

\* The empty sequence is one of any set.
LEMMA EmptyType == \A S : << >> \in Seq(S)
  OBVIOUS

\* The IRPs that go into the buffers, too, are those of the pipe.
LEMMA FilledType ==
    ASSUME NEW d \in Driver_t
    PROVE  Filled(d) \in Driver_t
  <1> DEFINE x == Append(d.moving, Head(d.pending))
             y == Tail(d.pending)
  <1>1. d.pending # << >> => x \in Seq(Irp) /\ y \in Seq(Irp)
    BY DriverFields
  <1>2. Filled(d) = IF d.pending # << >> /\ Len(d.moving) < InBuffers
                    THEN [d EXCEPT !.moving = x, !.pending = y] ELSE d
    BY DEF Filled
  <1> HIDE DEF x, y
  <1>3. ASSUME d.pending # << >> PROVE [d EXCEPT !.moving = x, !.pending = y] \in Driver_t
    BY <1>1, <1>3 DEF Driver_t
  <1> QED BY <1>2, <1>3

\* A queued request is one of the pipe.
LEMMA EnqueueType ==
    ASSUME NEW d \in Driver_t, NEW irp \in Irp
    PROVE  Enqueue(d, irp) \in Driver_t
  <1> DEFINE x == Append(d.pending, irp)
  <1>1. x \in Seq(Irp)
    BY DriverFields
  <1>2. Enqueue(d, irp) = Filled([d EXCEPT !.pending = x])
    BY DEF Enqueue
  <1> HIDE DEF x
  <1>3. [d EXCEPT !.pending = x] \in Driver_t
    BY <1>1 DEF Driver_t
  <1> QED BY <1>2, <1>3, FilledType

\* A flush ends every IRP.
LEMMA FlushType ==
    ASSUME NEW d \in Driver_t, NEW status \in IrpStatus
    PROVE  Flush(d, status) \in Driver_t
  <1> DEFINE s == d.moving \o d.pending
             x == d.done \o EndWith(s, status)
             e == << >>
  <1>1. s \in Seq(Irp)
    BY DriverFields
  <1>2. EndWith(s, status) \in Seq(IrpDone)
    <2> HIDE DEF s
    <2>1. Len(s) \in Nat /\ \A k \in 1 .. Len(s) : s[k] \in Irp
      BY <1>1
    <2>2. \A k \in 1 .. Len(s) : [irp |-> s[k], status |-> status] \in IrpDone
      BY <2>1 DEF IrpDone, IrpStatus
    <2>3. EndWith(s, status) \in [1 .. Len(s) -> IrpDone]
      BY <2>2 DEF EndWith
    <2> QED BY <2>1, <2>3
  <1> DEFINE w == EndWith(s, status)
  <1>3. x \in Seq(IrpDone)
    <2>1. w \in Seq(IrpDone) /\ d.done \in Seq(IrpDone)
      BY <1>2, DriverFields
    <2> HIDE DEF w
    <2>2. d.done \o w \in Seq(IrpDone)
      BY <2>1
    <2> QED BY <2>2 DEF w
  <1>4. Flush(d, status) = [d EXCEPT !.done = x, !.moving = e, !.pending = e]
    BY DEF Flush
  <1>5. e \in Seq(Irp)
    BY EmptyType
  <1> HIDE DEF x, e
  <1> QED BY <1>3, <1>4, <1>5 DEF Driver_t

\* The transfer of the oldest IRP ends.
LEMMA OldestType ==
    ASSUME NEW d \in Driver_t, d.moving # << >>, NEW status \in IrpStatus
    PROVE  Oldest(d, status) \in Driver_t
  <1> DEFINE x == Append(d.done, [irp |-> Head(d.moving), status |-> status])
             y == Tail(d.moving)
             r == [irp |-> Head(d.moving), status |-> status]
  <1>1. y \in Seq(Irp) /\ Head(d.moving) \in Irp
    BY DriverFields
  <1>2. x \in Seq(IrpDone)
    <2>1. r \in IrpDone
      BY <1>1 DEF IrpDone, IrpStatus
    <2> HIDE DEF r
    <2>2. Append(d.done, r) \in Seq(IrpDone)
      BY <2>1, DriverFields
    <2> QED BY <2>2 DEF r
  <1>3. Oldest(d, status) = [d EXCEPT !.done = x, !.moving = y]
    BY DEF Oldest
  <1> HIDE DEF x, y
  <1> QED BY <1>1, <1>2, <1>3 DEF Driver_t

\* The other operators on a pipe.
LEMMA DriverTypes ==
    ASSUME NEW d \in Driver_t
    PROVE  /\ ResetPipe(d) \in Driver_t /\ Emptied(d) \in Driver_t
           /\ [Flush(d, "NO_DEVICE") EXCEPT !.state = "INVALID"] \in Driver_t
           /\ NoPipeYet \in Driver_t /\ [NoPipeYet EXCEPT !.alloc = TRUE] \in Driver_t
           /\ d.moving # << >> => Filled(Oldest(d, "COMPLETED")) \in Driver_t
           /\ d.moving # << >> =>
                 \A error \in Error : [Oldest(d, error) EXCEPT !.state = "HALTED"] \in Driver_t
           /\ d.done # << >> => /\ [d EXCEPT !.done = Tail(@)] \in Driver_t
                                /\ Head(d.done) \in IrpDone
  <1>1. Flush(d, "CANCELED") \in Driver_t /\ Flush(d, "NO_DEVICE") \in Driver_t
    BY FlushType DEF IrpStatus
  <1>2. ResetPipe(d) \in Driver_t /\ [Flush(d, "NO_DEVICE") EXCEPT !.state = "INVALID"] \in Driver_t
    BY <1>1 DEF ResetPipe, Driver_t
  <1> DEFINE e == << >>
  <1>0. e \in Seq(Irp) /\ e \in Seq(IrpDone)
    BY EmptyType
  <1>3. NoPipeYet \in Driver_t /\ [NoPipeYet EXCEPT !.alloc = TRUE] \in Driver_t
    <2>1. NoPipeYet = [alloc |-> FALSE, state |-> "ACTIVE", moving |-> e, pending |-> e, done |-> e]
      BY DEF NoPipeYet
    <2> HIDE DEF e
    <2>2. NoPipeYet \in Driver_t
      BY <1>0, <2>1 DEF Driver_t
    <2> QED BY <2>2 DEF Driver_t
  <1>4. d.moving # << >> => Filled(Oldest(d, "COMPLETED")) \in Driver_t
    BY OldestType, FilledType DEF IrpStatus
  <1>5. ASSUME d.moving # << >>, NEW error \in Error
        PROVE  [Oldest(d, error) EXCEPT !.state = "HALTED"] \in Driver_t
    <2>1. Oldest(d, error) \in Driver_t
      BY <1>5, OldestType DEF IrpStatus
    <2> QED BY <2>1 DEF Driver_t
  <1>6. Emptied(d) \in Driver_t
    <2>1. Emptied(d) = [d EXCEPT !.done = e]
      BY DEF Emptied
    <2> HIDE DEF e
    <2> QED BY <1>0, <2>1 DEF Driver_t
  <1>7. d.done # << >> => Tail(d.done) \in Seq(IrpDone) /\ Head(d.done) \in IrpDone
    BY DriverFields
  <1>8. d.done # << >> => [d EXCEPT !.done = Tail(@)] \in Driver_t
    BY <1>7 DEF Driver_t
  <1> QED BY <1>2, <1>3, <1>4, <1>5, <1>6, <1>7, <1>8

-----------------------------------------------------------------------------
(* The types, in three parts: the driver's port, the pipes, and the port's task *)

ViewType ==
    /\ vport \in [state : {"NOT_POWERED", "DISCONNECTED", "DISABLED", "RESETTING", "ENABLED", "RECOVERY"},
                  last_event : PortEvent \union {"NONE"},
                  event_pending : BOOLEAN, conn_devc_ena : BOOLEAN]
    /\ vhw \in [powered : BOOLEAN, connected : BOOLEAN, debouncing : BOOLEAN]
    /\ op \in {"idle", "reset", "debounce", "invalidate"}

QueuesType == evtq \in [Pipe -> Seq(Event)] /\ \A p \in Pipe : Len(evtq[p]) <= QueueLen

ObjectsType ==
    /\ obj \in [Pipe -> Object]
    /\ task \in [Pipe -> Task]
    /\ addr \in [Pipe -> {0, Address}] /\ dev_addr \in {0, Address}
    /\ fault \in {"none", "use", "delete", "lost"}

DrvType == drv \in [Pipe -> Driver_t]

LeakedType == leaked \in 0 .. MaxLeak

PipesType == DrvType /\ LeakedType /\ QueuesType /\ ObjectsType

PortType ==
    /\ port_evtq \in Seq(PortEvent) /\ Len(port_evtq) <= QueueLen
    /\ port_task \in [at : PortTaskAt, event : PortEvent \union {"NONE"}, cur : Pipe \union {NoPipe}]
    /\ app \in {"boot", "init", "loop", "sending"}
    /\ callback \in BOOLEAN /\ ready \in BOOLEAN
    /\ plugs \in 0 .. MaxPlugs

\* TypeOK, part by part.
LEMMA TypeParts == TypeOK <=> ViewType /\ PipesType /\ PortType
BY DEF TypeOK, ViewType, PipesType, PortType, DrvType, LeakedType, QueuesType, ObjectsType

-----------------------------------------------------------------------------
(* The types of the pipes *)

\* One pipe of the driver changes.
LEMMA OneDriver ==
    ASSUME DrvType, NEW p \in Pipe, NEW d \in Driver_t, drv' = [drv EXCEPT ![p] = d]
    PROVE  DrvType'
  BY DEF DrvType

\* The count of leaked IRPs stays within its bound.
LEMMA LeakType ==
    ASSUME LeakedType, NEW n \in Nat, Leak(n)
    PROVE  LeakedType'
  BY HostPipeAssumption DEF LeakedType, Leak

\* A request is queued, refused, or made of a pipe that is not whole.
LEMMA SubmitType ==
    ASSUME PipesType, NEW p \in Pipe, NEW req \in Irp, SubmitIrp(p, req)
    PROVE  DrvType' /\ LeakedType' /\ fault' \in {fault, "use"}
  <1>1. drv[p] \in Driver_t
    BY DEF PipesType, DrvType
  <1>2. Enqueue(drv[p], req) \in Driver_t
    BY <1>1, EnqueueType
  <1>3. CASE obj[p].life # "whole"
    BY <1>3 DEF SubmitIrp, PipesType, DrvType, LeakedType
  <1>4. CASE obj[p].life = "whole" /\ Accepts(p)
    <2>1. drv' = [drv EXCEPT ![p] = Enqueue(drv[p], req)] /\ UNCHANGED <<leaked, fault>>
      BY <1>4 DEF SubmitIrp
    <2> QED BY <1>2, <2>1, OneDriver DEF PipesType, LeakedType
  <1>5. CASE obj[p].life = "whole" /\ ~Accepts(p)
    BY <1>5, LeakType DEF SubmitIrp, PipesType, DrvType
  <1> QED BY <1>3, <1>4, <1>5

\* A command resets the pipe, or is refused.
LEMMA ResetKeepsType ==
    ASSUME PipesType, NEW p \in Pipe, reset(p)
    PROVE  DrvType'
  <1>1. drv[p] \in Driver_t
    BY DEF PipesType, DrvType
  <1>2. ResetPipe(drv[p]) \in Driver_t
    BY <1>1, DriverTypes
  <1>3. drv' = [drv EXCEPT ![p] = ResetPipe(drv[p])] \/ drv' = drv
    BY DEF reset
  <1> QED BY <1>2, <1>3, OneDriver DEF PipesType, DrvType

\* Objects are deleted, or found not whole.
LEMMA DeleteType ==
    ASSUME PipesType, NEW S \in SUBSET Pipe, NEW ptr \in {"null", "set"}, DeletePipes(S, ptr),
           UNCHANGED <<addr, dev_addr>>
    PROVE  PipesType'
  <1>1. CASE \E p \in S : obj[p].life # "whole"
    BY <1>1 DEF DeletePipes, PipesType, DrvType, LeakedType, QueuesType, ObjectsType
  <1>2. CASE ~\E p \in S : obj[p].life # "whole"
    <2> DEFINE At(p) == IF p \notin S THEN drv[p]
                        ELSE IF CanFree(Emptied(drv[p])) THEN NoPipeYet ELSE Emptied(drv[p])
               e == << >>
               t == TaskIn("none")
    <2>1. /\ drv' = [p \in Pipe |-> At(p)]
          /\ obj' = [p \in Pipe |-> IF p \in S THEN [ptr |-> ptr, life |-> "none"] ELSE obj[p]]
          /\ evtq' = [p \in Pipe |-> IF p \in S THEN e ELSE evtq[p]]
          /\ task' = [p \in Pipe |-> IF p \in S THEN t ELSE task[p]]
          /\ Leak(Cardinality({p \in S : task[p].irp # NoIrp}))
          /\ UNCHANGED fault
      BY <1>2 DEF DeletePipes
    <2>2. ASSUME NEW p \in Pipe PROVE At(p) \in Driver_t
      <3>1. drv[p] \in Driver_t
        BY DEF PipesType, DrvType
      <3> QED BY <3>1, DriverTypes
    <2>3. DrvType'
      <3> HIDE DEF At
      <3> QED BY <2>1, <2>2 DEF DrvType
    <2>4. LeakedType'
      <3>1. IsFiniteSet(S) /\ {p \in S : task[p].irp # NoIrp} \subseteq S
        BY HostPipeAssumption, FS_Subset
      <3>2. Cardinality({p \in S : task[p].irp # NoIrp}) \in Nat
        BY <3>1, FS_Subset, FS_CardinalityType
      <3> QED BY <2>1, <3>2, LeakType DEF PipesType
    <2>5. e \in Seq(Event) /\ Len(e) = 0
      BY EmptyType
    <2>6. QueuesType'
      <3> HIDE DEF e
      <3> QED BY <2>1, <2>5, HostPipeAssumption DEF QueuesType, PipesType
    <2>7. t \in Task
      BY DEF TaskIn, Task, TaskAt
    <2>8. ObjectsType'
      <3> HIDE DEF t
      <3> QED BY <2>1, <2>7 DEF ObjectsType, PipesType, Object
    <2> QED BY <2>3, <2>4, <2>6, <2>8 DEF PipesType
  <1> QED BY <1>1, <1>2

\* A new object, as far as the first half of its init goes; t are the tasks.
LEMMA NewPipeType ==
    ASSUME PipesType, NEW p \in Pipe, NEW t, t \in [Pipe -> Task],
           NewPipe(p), task' = t, UNCHANGED <<drv, evtq, addr, dev_addr, leaked>>
    PROVE  PipesType'
  <1>1. ObjectsType'
    BY DEF NewPipe, ObjectsType, PipesType, Object
  <1> QED BY <1>1 DEF PipesType, DrvType, LeakedType, QueuesType

\* The task of a new object, if it is started at all, has no queue yet;
LEMMA StartTaskType ==
    ASSUME PipesType, NEW p \in Pipe
    PROVE  StartTask(p, task) \in [Pipe -> Task]
  <1>1. TaskIn("created") \in Task
    BY DEF TaskIn, Task, TaskAt
  <1> QED BY <1>1 DEF StartTask, PipesType, ObjectsType

\* when there is one it waits.
LEMMA QueueTaskType ==
    ASSUME PipesType, NEW p \in Pipe
    PROVE  QueueTask(p, task) \in [Pipe -> Task]
  <1>1. TaskIn("blocked") \in Task
    BY DEF TaskIn, Task, TaskAt
  <1> QED BY <1>1 DEF QueueTask, PipesType, ObjectsType

\* The second half of init.
LEMMA AllocPipeType ==
    ASSUME PipesType, NEW p \in Pipe, NEW a \in {0, Address}, AllocPipe(p, a)
    PROVE  DrvType' /\ QueuesType' /\ obj' \in [Pipe -> Object] /\ addr' \in [Pipe -> {0, Address}]
  <1>3. QueuesType'
    <2> DEFINE e == << >>
    <2>1. e \in Seq(Event) /\ Len(e) = 0 /\ evtq' = [evtq EXCEPT ![p] = e]
      BY EmptyType DEF AllocPipe
    <2> HIDE DEF e
    <2> QED BY <2>1, HostPipeAssumption DEF QueuesType, PipesType
  <1>1. CASE vport.conn_devc_ena
    <2> DEFINE d == [NoPipeYet EXCEPT !.alloc = TRUE]
    <2>1. drv[p] \in Driver_t
      BY DEF PipesType, DrvType
    <2>2. d \in Driver_t
      BY <2>1, DriverTypes
    <2>3. drv' = [drv EXCEPT ![p] = d]
      BY <1>1 DEF AllocPipe, HcdPipeAlloc
    <2> HIDE DEF d
    <2>4. DrvType'
      BY <2>2, <2>3, OneDriver DEF PipesType
    <2> QED BY <1>1, <1>3, <2>4 DEF AllocPipe, PipesType, ObjectsType, Object
  <1>2. CASE ~vport.conn_devc_ena
    BY <1>2, <1>3 DEF AllocPipe, PipesType, ObjectsType, DrvType
  <1> QED BY <1>1, <1>2

-----------------------------------------------------------------------------
(* The pipe tasks and the bus *)

\* A task goes to another place.
LEMMA GotoType ==
    ASSUME ObjectsType, NEW p \in Pipe, NEW at \in TaskAt, Goto(p, at)
    PROVE  task' \in [Pipe -> Task]
  BY DEF Goto, ObjectsType, Task

\* What a message makes the task do.
LEMMA TaskStepType ==
    ASSUME PipesType, NEW p \in Pipe, TaskStep(p)
    PROVE  PipesType'
  <1> USE DEF PipesType
  <1>1. CASE Receive(p)
    <2> DEFINE q == Tail(evtq[p])
               e == Head(evtq[p])
               d == [drv[p] EXCEPT !.done = Tail(@)]
               r == Head(drv[p].done)
               t == [at |-> "handle", event |-> e, irp |-> r]
    <2>1. evtq' = [evtq EXCEPT ![p] = q] /\ UNCHANGED <<obj, addr, dev_addr, leaked, fault>>
      BY <1>1 DEF Receive
    <2>2. q \in Seq(Event) /\ Len(q) <= QueueLen /\ e \in Event
      <3>1. evtq[p] \in Seq(Event) /\ evtq[p] # << >> /\ Len(evtq[p]) <= QueueLen
        BY <1>1 DEF Receive, QueuesType
      <3> QED BY <3>1, HostPipeAssumption
    <2>3. QueuesType'
      <3> HIDE DEF q
      <3> QED BY <2>1, <2>2 DEF QueuesType
    <2>4. CASE drv[p].done = << >>
      BY <1>1, <2>1, <2>3, <2>4 DEF Receive, DrvType, LeakedType, ObjectsType
    <2>5. CASE drv[p].done # << >>
      <3>1. drv[p] \in Driver_t
        BY DEF DrvType
      <3>2. d \in Driver_t /\ r \in IrpDone
        BY <2>5, <3>1, DriverTypes
      <3>3. drv' = [drv EXCEPT ![p] = d]
        BY <1>1, <2>5 DEF Receive, IrpDequeue
      <3>4. task' = [task EXCEPT ![p] = t]
        BY <1>1, <2>5 DEF Receive
      <3>5. DrvType'
        <4> HIDE DEF d
        <4> QED BY <3>2, <3>3, OneDriver
      <3>6. t \in Task
        <4> HIDE DEF e, r
        <4> QED BY <2>2, <3>2 DEF Task, TaskAt
      <3>7. ObjectsType'
        <4> HIDE DEF t
        <4> QED BY <2>1, <3>4, <3>6 DEF ObjectsType
      <3> QED BY <2>1, <2>3, <3>5, <3>7 DEF LeakedType
    <2> QED BY <2>4, <2>5
  <1>2. CASE HandleSetAddr(p)
    <2>1. "set_config" \in TaskAt /\ Goto(p, "set_config")
      BY <1>2 DEF HandleSetAddr, TaskAt
    <2>2. addr' \in [Pipe -> {0, Address}]
      BY <1>2 DEF HandleSetAddr, updateAddress, ObjectsType
    <2> QED BY <1>2, <2>1, <2>2, GotoType
            DEF HandleSetAddr, DrvType, LeakedType, QueuesType, ObjectsType
  <1>3. CASE HandleSetAddrEnd(p)
    <2>1. "class" \in TaskAt /\ Goto(p, "class") /\ SubmitIrp(p, "SET_CFG")
      BY <1>3 DEF HandleSetAddrEnd, setConfiguration, TaskAt
    <2>2. DrvType' /\ LeakedType' /\ fault' \in {fault, "use"}
      BY <2>1, SubmitType, HostPipeAssumption
    <2> QED BY <1>3, <2>1, <2>2, GotoType DEF HandleSetAddrEnd, QueuesType, ObjectsType
  <1>4. CASE HandleSetConfig(p)
    <2>1. "class" \in TaskAt /\ Goto(p, "class") /\ SubmitIrp(p, "CFG_DESC")
      BY <1>4 DEF HandleSetConfig, getConfigDescriptor, TaskAt
    <2>2. DrvType' /\ LeakedType' /\ fault' \in {fault, "use"}
      BY <2>1, SubmitType, HostPipeAssumption
    <2> QED BY <1>4, <2>1, <2>2, GotoType DEF HandleSetConfig, QueuesType, ObjectsType
  <1>5. CASE HandleError(p)
    <2>1. "class" \in TaskAt /\ Goto(p, "class") /\ reset(p)
      BY <1>5 DEF HandleError, TaskAt
    <2> QED BY <1>5, <2>1, ResetKeepsType, GotoType DEF HandleError, LeakedType, QueuesType, ObjectsType
  <1>6. CASE HandleOther(p)
    <2>1. "class" \in TaskAt /\ Goto(p, "class")
      BY <1>6 DEF HandleOther, TaskAt
    <2> QED BY <1>6, <2>1, GotoType DEF HandleOther, DrvType, LeakedType, QueuesType, ObjectsType
  <1>7. CASE FreeIrp(p)
    <2>1. TaskIn("blocked") \in Task
      BY DEF TaskIn, Task, TaskAt
    <2> QED BY <1>7, <2>1 DEF FreeIrp, DrvType, LeakedType, QueuesType, ObjectsType
  <1> QED BY <1>1, <1>2, <1>3, <1>4, <1>5, <1>6, <1>7 DEF TaskStep

\* The interrupt of a pipe posts its event.
LEMMA PostedType ==
    ASSUME QueuesType, NEW p \in Pipe, NEW event \in Event, Posted(p, event)
    PROVE  QueuesType'
  <1> DEFINE q == IF Len(evtq[p]) < QueueLen THEN Append(evtq[p], event) ELSE evtq[p]
  <1>1. evtq' = [evtq EXCEPT ![p] = q]
    BY DEF Posted
  <1>2. q \in Seq(Event) /\ Len(q) <= QueueLen
    <2>1. evtq[p] \in Seq(Event) /\ Len(evtq[p]) <= QueueLen
      BY DEF QueuesType
    <2> QED BY <2>1, HostPipeAssumption
  <1> HIDE DEF q
  <1> QED BY <1>1, <1>2 DEF QueuesType

\* A transfer ends.
LEMMA TransferType ==
    ASSUME PipesType, NEW p \in Pipe,
           TransferDone(p) \/ \E event \in ErrorEvent : TransferFailed(p, event)
    PROVE  PipesType'
  <1> USE DEF PipesType
  <1>1. drv[p] \in Driver_t
    BY DEF DrvType
  <1>2. CASE TransferDone(p)
    <2>1. /\ drv[p].moving # << >> /\ drv' = [drv EXCEPT ![p] = Filled(Oldest(drv[p], "COMPLETED"))]
          /\ Posted(p, "IRP_DONE") /\ "IRP_DONE" \in Event
      BY <1>2 DEF TransferDone, ChanDone, OnBus, Event
    <2>2. Filled(Oldest(drv[p], "COMPLETED")) \in Driver_t
      BY <1>1, <2>1, DriverTypes
    <2>3. DrvType' /\ QueuesType'
      BY <2>1, <2>2, OneDriver, PostedType
    <2> QED BY <1>2, <2>3 DEF TransferDone, LeakedType, ObjectsType
  <1>3. ASSUME NEW event \in ErrorEvent, TransferFailed(p, event) PROVE PipesType'
    <2>1. StatusOf[event] \in Error /\ event \in Event
      BY <1>3 DEF StatusOf, ErrorEvent, Error, Event
    <2>2. /\ drv[p].moving # << >>
          /\ drv' = [drv EXCEPT ![p] = [Oldest(drv[p], StatusOf[event]) EXCEPT !.state = "HALTED"]]
          /\ Posted(p, event)
      BY <1>3 DEF TransferFailed, ChanFailed, OnBus
    <2>3. [Oldest(drv[p], StatusOf[event]) EXCEPT !.state = "HALTED"] \in Driver_t
      BY <1>1, <2>1, <2>2, DriverTypes
    <2>4. DrvType' /\ QueuesType'
      BY <2>1, <2>2, <2>3, OneDriver, PostedType
    <2> QED BY <1>3, <2>4 DEF TransferFailed, LeakedType, ObjectsType
  <1> QED BY <1>2, <1>3

-----------------------------------------------------------------------------
(* The port interrupt *)

PortRest == MessageComes /\ LockHeld /\ PlaceOfEvent /\ Boots /\ OneLoss /\ LossStays

\* What does not touch the port or its task keeps what is known of them.
LEMMA PortStill ==
    ASSUME PortRest, UNCHANGED <<vport, vhw, op, port_evtq, port_task>>, app' = "boot" => app = "boot"
    PROVE  PortRest'
  BY DEF PortRest, MessageComes, LockHeld, DebounceWaits, Debounced, PlaceOfEvent, Boots, OneLoss,
         LossStays, LossInHand, Told

\* What the callback does to the queue: a message more, if there is an event more.
LEMMA CallbackKeeps ==
    ASSUME ViewType, PortType, PortCallback
    PROVE  /\ port_evtq' \in Seq(PortEvent) \/ vport'.last_event \notin PortEvent
           /\ Len(port_evtq') <= QueueLen
           /\ port_evtq # << >> => port_evtq' # << >>
           /\ vport'.event_pending /\ ~vport.event_pending => port_evtq' # << >>
           /\ vport' = vport => port_evtq' = port_evtq
           /\ vport'.last_event # "SUDDEN_DISCONN" => Told' = Told
           /\ Told' \in {Told, Told \union {Len(port_evtq) + 1}}
  <1> DEFINE e == vport'.last_event
  <1>1. port_evtq \in Seq(PortEvent) /\ Len(port_evtq) \in Nat /\ Len(port_evtq) <= QueueLen
        /\ QueueLen \in Nat \ {0}
    BY HostPipeAssumption DEF PortType
  <1>2. port_evtq' \in {port_evtq, Append(port_evtq, e)}
    BY DEF PortCallback
  <1>3. port_evtq' = port_evtq \/ (port_evtq' = Append(port_evtq, e) /\ Len(port_evtq) < QueueLen)
    BY DEF PortCallback
  <1>4. vport'.event_pending /\ ~vport.event_pending /\ port_evtq' = port_evtq => port_evtq # << >>
    BY <1>1 DEF PortCallback
  <1>5. vport' = vport => port_evtq' = port_evtq
    BY DEF PortCallback
  <1> HIDE DEF e
  <1>6. CASE port_evtq' = port_evtq
    BY <1>1, <1>4, <1>5, <1>6 DEF Told
  <1>7. CASE port_evtq' = Append(port_evtq, e) /\ Len(port_evtq) < QueueLen
    <2>1. /\ Len(Append(port_evtq, e)) = Len(port_evtq) + 1
          /\ \A k \in 1 .. Len(port_evtq) : Append(port_evtq, e)[k] = port_evtq[k]
          /\ Append(port_evtq, e)[Len(port_evtq) + 1] = e
      BY <1>1
    <2>2. /\ DOMAIN port_evtq' = 1 .. Len(port_evtq) + 1 /\ DOMAIN port_evtq = 1 .. Len(port_evtq)
          /\ port_evtq' # << >> /\ e \in PortEvent => port_evtq' \in Seq(PortEvent)
      BY <1>1, <1>7
    <2>3. Told' = IF e = "SUDDEN_DISCONN" THEN Told \union {Len(port_evtq) + 1} ELSE Told
      BY <1>1, <1>7, <2>1, <2>2 DEF Told
    <2>4. /\ Len(port_evtq') <= QueueLen
          /\ port_evtq' \in Seq(PortEvent) \/ e \notin PortEvent
      BY <1>1, <1>7, <2>1, <2>2
    <2> QED BY <1>5, <2>2, <2>3, <2>4 DEF e
  <1> QED BY <1>3, <1>6, <1>7 DEF e

\* What an interrupt of the port does: nothing while the lock masks it, a connection
\* or a disconnection, the sudden loss of the device, the end of a reset, an error,
\* or the end of the device under an operation that will see it.
Masked == vhw.debouncing /\ vhw'.debouncing /\ vport' = vport

Plugged ==
    /\ ~vhw.debouncing /\ vhw'.debouncing
    /\ vport'.event_pending /\ vport'.last_event \in {"CONNECTION", "DISCONNECTION"}
    /\ vport'.state = vport.state /\ vport'.conn_devc_ena = vport.conn_devc_ena

Lost ==
    /\ ~vhw.debouncing /\ vhw'.debouncing
    /\ vport'.event_pending /\ vport'.last_event = "SUDDEN_DISCONN"
    /\ vport'.state = "RECOVERY" /\ vport.conn_devc_ena /\ ~vport'.conn_devc_ena

Answers ==
    /\ vhw' = vhw /\ vport.state = "RESETTING" /\ vport'.state = "ENABLED"
    /\ vport'.event_pending = vport.event_pending /\ vport'.last_event = vport.last_event

Fails ==
    /\ vhw'.debouncing = vhw.debouncing
    /\ vport'.event_pending /\ vport'.last_event \in {"ERROR", "OVERCURRENT"}
    /\ ~vport'.conn_devc_ena /\ (vport'.state = "NOT_POWERED" \/ vport.conn_devc_ena)

Quits ==
    /\ vhw' = vhw /\ vport'.state = vport.state
    /\ vport'.event_pending = vport.event_pending /\ vport'.last_event = vport.last_event
    /\ ~vport'.conn_devc_ena

AnInterrupt == Connected \/ Disconnected \/ Enabled \/ PortFault \/ Overcurrent

\* Each interrupt is one of these, on a port that is powered or has a device.
LEMMA InterruptMoves ==
    ASSUME ViewType, AnInterrupt
    PROVE  /\ ViewType' /\ UNCHANGED <<op, drv>>
           /\ Masked \/ Plugged \/ Lost \/ Answers \/ Fails \/ Quits
           /\ vhw.powered \/ vhw.connected \/ vport.conn_devc_ena
  <1> USE DEF ViewType, PortEvent
  <1>1. CASE Connected
    BY <1>1 DEF Connected, RaiseEvent, Masked, Plugged
  <1>2. CASE Disconnected
    <2>1. CASE vhw.debouncing
      BY <1>2, <2>1 DEF Disconnected, Masked
    <2>2. CASE ~vhw.debouncing /\ vport.conn_devc_ena
      BY <1>2, <2>2 DEF Disconnected, RaiseEvent, Lost
    <2>3. CASE ~vhw.debouncing /\ ~vport.conn_devc_ena
      BY <1>2, <2>3 DEF Disconnected, RaiseEvent, Plugged
    <2> QED BY <2>1, <2>2, <2>3
  <1>3. CASE Enabled
    BY <1>3 DEF Enabled, Answers
  <1>4. CASE PortFault
    <2>1. CASE vport.state = "RESETTING"
      BY <1>4, <2>1 DEF PortFault, Quits
    <2>2. CASE vport.state # "RESETTING"
      <3> DEFINE v == [RaiseEvent("ERROR") EXCEPT !.state = "DISABLED"]
      <3>1. v = [[[vport EXCEPT !.last_event = "ERROR"] EXCEPT !.event_pending = TRUE]
                    EXCEPT !.state = "DISABLED"]
        BY DEF RaiseEvent
      <3>2. vport' = [v EXCEPT !.conn_devc_ena = FALSE] /\ vport.conn_devc_ena
            /\ UNCHANGED <<vhw, op, drv>>
        BY <1>4, <2>2 DEF PortFault
      <3> QED BY <3>1, <3>2 DEF Fails
    <2> QED BY <2>1, <2>2
  <1>5. CASE Overcurrent
    <2>1. CASE vport.state = "NOT_POWERED"
      BY <1>5, <2>1 DEF Overcurrent, Quits
    <2>2. CASE vport.state # "NOT_POWERED"
      BY <1>5, <2>2 DEF Overcurrent, RaiseEvent, Fails
    <2> QED BY <2>1, <2>2
  <1> QED BY <1>1, <1>2, <1>3, <1>4, <1>5 DEF AnInterrupt

\* The types of the port through an interrupt and its callback.
LEMMA InterruptType ==
    ASSUME ViewType, PortType, AnInterrupt, PortCallback,
           UNCHANGED <<port_task, app, callback, ready>>, plugs' \in 0 .. MaxPlugs
    PROVE  PortType'
  <1>1. CASE Masked \/ Plugged \/ Lost \/ Fails
    <2>1. vport' = vport \/ vport'.last_event \in PortEvent
      BY <1>1 DEF Masked, Plugged, Lost, Fails, PortEvent
    <2> QED BY <2>1, CallbackKeeps DEF PortType
  <1>2. CASE Answers \/ Quits
    <2>1. port_evtq' = port_evtq
      BY <1>2 DEF Answers, Quits, PortCallback
    <2> QED BY <2>1 DEF PortType
  <1> QED BY <1>1, <1>2, InterruptMoves

\* What is known of the port and its messages outlives the interrupts.
LEMMA InterruptRest ==
    ASSUME ViewType, PortType, PortRest, AnInterrupt, PortCallback, UNCHANGED <<port_task, app>>
    PROVE  PortRest'
  <1>1. UNCHANGED op /\ app # "boot" /\ app' # "boot"
    BY InterruptMoves DEF PortRest, Boots
  <1>2. PlaceOfEvent' /\ Boots'
    BY <1>1 DEF PortRest, PlaceOfEvent, Boots
  <1>3. CASE Masked
    <2>1. port_evtq' = port_evtq
      BY <1>3 DEF Masked, PortCallback
    <2> QED BY <1>1, <1>2, <1>3, <2>1 DEF Masked, PortRest, MessageComes, LockHeld, DebounceWaits,
               Debounced, OneLoss, LossStays, LossInHand, Told
  <1>4. CASE Answers \/ Quits
    <2>1. port_evtq' = port_evtq /\ Told' = Told
      BY <1>4 DEF Answers, Quits, PortCallback, Told
    <2>2. LossInHand' <=> LossInHand
      BY DEF LossInHand
    <2>3. LossStays'
      BY <1>1, <1>4, <2>1, <2>2 DEF PortRest, LossStays, DebounceWaits, Debounced, Answers, Quits
    <2> QED BY <1>1, <1>2, <1>4, <2>1, <2>2, <2>3 DEF Answers, Quits, PortRest, MessageComes, LockHeld,
               DebounceWaits, Debounced, OneLoss
  <1>5. CASE Plugged \/ Fails
    <2>1. Told' = Told /\ (port_evtq' # << >> \/ port_task.at = "handle")
      BY <1>5, CallbackKeeps DEF Plugged, Fails, PortRest, MessageComes
    <2>2. LossInHand' <=> LossInHand
      BY DEF LossInHand
    <2>3. LockHeld'
      BY <1>1, <1>5 DEF PortRest, LockHeld, DebounceWaits, Debounced, Plugged, Fails
    <2>4. LossStays'
      BY <1>1, <1>5, <2>1, <2>2 DEF PortRest, LossStays, DebounceWaits, Debounced, Plugged, Fails
    <2> QED BY <1>1, <1>2, <2>1, <2>2, <2>3, <2>4 DEF PortRest, MessageComes, OneLoss
  <1>6. CASE Lost
    <2>1. Told = {} /\ ~LossInHand
      BY <1>6 DEF PortRest, LossStays, Lost
    <2>2. Told' \in {{}, {Len(port_evtq) + 1}}
      BY <2>1, CallbackKeeps
    <2>3. ~LossInHand'
      BY <2>1 DEF LossInHand
    <2>4. MessageComes'
      BY <1>6, CallbackKeeps DEF Lost, PortRest, MessageComes
    <2>5. LockHeld' /\ LossStays'
      BY <1>1, <1>6 DEF PortRest, LockHeld, LossStays, DebounceWaits, Debounced, Lost
    <2> QED BY <1>2, <2>2, <2>3, <2>4, <2>5 DEF PortRest, OneLoss
  <1> QED BY <1>3, <1>4, <1>5, <1>6, InterruptMoves

-----------------------------------------------------------------------------
(* The port's task *)

\* The task goes to a place that has nothing to do with the loss of a device, or stays
\* with it; the port and the queue stay.
LEMMA GoesOn ==
    ASSUME PortRest, UNCHANGED <<vport, vhw, port_evtq, app>>, op' \in {op, "idle", "invalidate", "reset"},
           port_task'.event = port_task.event, port_task.at \notin {"none", "blocked", "handle", "power_on"},
           port_task'.at # "none", PlaceOfEvent'
    PROVE  PortRest'
  <1>1. Told' = Told /\ (LossInHand' => LossInHand)
    BY DEF Told, LossInHand
  <1>2. MessageComes' /\ LockHeld'
    BY DEF PortRest, MessageComes, LockHeld, DebounceWaits, Debounced
  <1>3. Boots' /\ OneLoss'
    BY <1>1 DEF PortRest, Boots, OneLoss
  <1>4. LossStays'
    BY <1>1 DEF PortRest, LossStays, DebounceWaits, Debounced, OneLoss
  <1> QED BY <1>2, <1>3, <1>4 DEF PortRest

\* The task takes a message.
LEMMA PortReceiveKeeps ==
    ASSUME TypeOK, PortRest, PortReceive
    PROVE  TypeOK' /\ PortRest'
  <1>1. ViewType /\ PipesType /\ PortType
    BY TypeParts
  <1> DEFINE e == Head(port_evtq)
             q == Tail(port_evtq)
  <1>2. /\ port_evtq \in Seq(PortEvent) /\ port_evtq # << >> /\ Len(port_evtq) <= QueueLen
        /\ port_task.at = "blocked" /\ port_evtq' = q
        /\ port_task' = [at |-> "handle", event |-> e, cur |-> NoPipe]
        /\ UNCHANGED <<viewVars, hostPipeVars, app, callback, ready, plugs>>
    BY <1>1 DEF PortReceive, PortType
  <1>3. /\ q \in Seq(PortEvent) /\ Len(q) = Len(port_evtq) - 1 /\ e \in PortEvent /\ e = port_evtq[1]
        /\ Len(port_evtq) \in Nat /\ DOMAIN port_evtq = 1 .. Len(port_evtq) /\ DOMAIN q = 1 .. Len(q)
        /\ 1 \in DOMAIN port_evtq /\ \A k \in DOMAIN q : q[k] = port_evtq[k + 1] /\ k + 1 \in DOMAIN port_evtq
    BY <1>2
  <1> HIDE DEF e, q
  <1>4. PortType'
    BY <1>1, <1>2, <1>3, HostPipeAssumption DEF PortType, PortTaskAt
  <1>5. TypeOK'
    BY <1>1, <1>2, <1>4, TypeParts DEF TypeOK, ViewType, PipesType, PortType, viewVars, hostPipeVars
  <1>6. ~LossInHand /\ (LossInHand' <=> e = "SUDDEN_DISCONN")
    BY <1>2 DEF LossInHand
  <1>7. \A k \in Told' : k + 1 \in Told /\ k \in Nat /\ k # 0
    BY <1>2, <1>3 DEF Told
  <1>8. e = "SUDDEN_DISCONN" => 1 \in Told
    BY <1>3 DEF Told
  <1>9. LossInHand' => Told' = {}
    <2>1. ASSUME e = "SUDDEN_DISCONN", NEW k \in Told' PROVE FALSE
      <3>1. Told = {1} /\ k + 1 \in Told /\ k \in Nat /\ k # 0
        BY <1>7, <1>8, <2>1 DEF PortRest, OneLoss
      <3> QED BY <3>1
    <2> QED BY <1>6, <2>1
  <1>10. OneLoss'
    <2>1. ASSUME NEW k \in Told', NEW l \in Told' PROVE k = l
      <3>1. Told = {k + 1} /\ l + 1 \in Told /\ k \in Nat /\ l \in Nat
        BY <1>7, <2>1 DEF PortRest, OneLoss
      <3> QED BY <3>1
    <2> QED BY <1>9, <2>1 DEF OneLoss
  <1>11. LossStays'
    <2>1. LossInHand' \/ Told' # {} => Told # {}
      BY <1>6, <1>7, <1>8
    <2> QED BY <1>2, <2>1 DEF PortRest, LossStays, DebounceWaits, Debounced, viewVars
  <1>12. MessageComes' /\ LockHeld' /\ PlaceOfEvent' /\ Boots'
    BY <1>2 DEF PortRest, MessageComes, LockHeld, DebounceWaits, Debounced, PlaceOfEvent, Boots, viewVars
  <1> QED BY <1>5, <1>10, <1>11, <1>12 DEF PortRest

\* The task handles the driver's event, which need not be the one of the message.
LEMMA PortHandleKeeps ==
    ASSUME TypeOK, PortRest, HandleNothing \/ HandleConn \/ HandleLost
    PROVE  TypeOK' /\ PortRest'
  <1>1. ViewType /\ PipesType /\ PortType
    BY TypeParts
  <1>2. /\ port_task.at = "handle" /\ UNCHANGED <<vhw, hostPipeVars, port_evtq, app, callback, ready, plugs>>
        /\ port_task'.event = port_task.event /\ port_task'.at \in {"class", "debounce", "post"}
        /\ port_task' \in [at : PortTaskAt, event : PortEvent \union {"NONE"}, cur : Pipe \union {NoPipe}]
    BY <1>1 DEF HandleNothing, HandleConn, HandleLost, PortGoto, PortType, PortTaskAt, viewVars,
                HandleConnEvent, HandleLoss, HandleLossNoPipe
  <1>3. /\ ~vport'.event_pending /\ vport'.last_event = vport.last_event
        /\ vport'.conn_devc_ena = vport.conn_devc_ena
        /\ vport'.state # vport.state => DebounceWaits
        /\ op' # op => op' = "invalidate" \/ (op' = "debounce" /\ DebounceWaits)
        /\ ViewType'
    BY <1>1, <1>2 DEF HandleNothing, HandleConn, HandleLost, HandleConnEvent, HandleLoss,
                HandleLossNoPipe, DebounceWaits, ViewType, viewVars
  <1>4. DrvType'
    <2>1. CASE \E p \in Pipe : HandleLoss(p)
      <3>1. PICK p \in Pipe : HandleLoss(p)
        BY <2>1
      <3> DEFINE d == [Flush(drv[p], "NO_DEVICE") EXCEPT !.state = "INVALID"]
      <3>2. drv' = [drv EXCEPT ![p] = d]
        BY <3>1 DEF HandleLoss, Invalidate
      <3>3. drv[p] \in Driver_t
        BY <1>1 DEF PipesType, DrvType
      <3>4. d \in Driver_t
        BY <3>3, DriverTypes
      <3> HIDE DEF d
      <3> QED BY <1>1, <3>2, <3>4, OneDriver DEF PipesType
    <2>2. CASE drv' = drv
      BY <1>1, <2>2 DEF PipesType, DrvType
    <2> QED BY <2>1, <2>2 DEF HandleNothing, HandleConn, HandleLost, HandleConnEvent, HandleLossNoPipe,
                              viewVars
  <1>5. TypeOK'
    <2>1. PipesType'
      BY <1>1, <1>2, <1>4 DEF PipesType, LeakedType, QueuesType, ObjectsType, hostPipeVars
    <2>2. PortType'
      BY <1>1, <1>2 DEF PortType
    <2> QED BY <1>3, <2>1, <2>2 DEF TypeOK, ViewType, PipesType, DrvType, LeakedType, QueuesType,
                                    ObjectsType, PortType
  <1>6. Told' = Told /\ (LossInHand' => LossInHand)
    BY <1>2 DEF Told, LossInHand
  <1>7. LossStays'
    BY <1>2, <1>3, <1>6 DEF PortRest, LossStays, DebounceWaits
  <1>8. LockHeld'
    BY <1>2, <1>3 DEF PortRest, LockHeld, DebounceWaits
  <1>9. MessageComes' /\ PlaceOfEvent' /\ Boots' /\ OneLoss'
    BY <1>2, <1>3, <1>6 DEF PortRest, MessageComes, PlaceOfEvent, Boots, OneLoss
  <1> QED BY <1>5, <1>7, <1>8, <1>9 DEF PortRest

\* The task is where it has something to do, and goes to another place.
PortActs(at, next) ==
    /\ port_task.at = at /\ port_task' \in [at : {next}, event : {port_task.event}, cur : Pipe \union {NoPipe}]
    /\ UNCHANGED <<port_evtq, app, callback, plugs>> /\ ready' \in BOOLEAN

\* A step of the task that leaves the driver's port alone.
LEMMA PortActsKeeps ==
    ASSUME TypeOK, PortRest, NEW at, NEW next \in PortTaskAt \ {"none"}, PortActs(at, next),
           at \notin {"none", "blocked", "handle", "power_on"},
           UNCHANGED <<vport, vhw>>, op' \in {op, "idle", "invalidate", "reset"}, PipesType',
           next \in {"free_ctrl", "recover", "power_on"} => port_task.event = "SUDDEN_DISCONN",
           next \in {"reset", "connected", "alloc_pipe", "get_desc", "set_addr"}
               => port_task.event = "CONNECTION"
    PROVE  TypeOK' /\ PortRest'
  <1>1. ViewType /\ PipesType /\ PortType
    BY TypeParts
  <1>2. /\ port_task.at = at /\ port_task'.at = next /\ port_task'.event = port_task.event
        /\ port_task' \in [at : PortTaskAt, event : PortEvent \union {"NONE"}, cur : Pipe \union {NoPipe}]
    BY <1>1 DEF PortActs, PortType
  <1>3. PortType'
    BY <1>1, <1>2 DEF PortActs, PortType
  <1>4. ViewType'
    BY <1>1 DEF ViewType
  <1>5. TypeOK'
    BY <1>3, <1>4 DEF TypeOK, ViewType, PipesType, DrvType, LeakedType, QueuesType, ObjectsType, PortType
  <1>6. PlaceOfEvent'
    BY <1>2 DEF PlaceOfEvent
  <1> QED BY <1>2, <1>5, <1>6, GoesOn DEF PortActs

\* PortGoto, in these terms.
LEMMA GotoActs ==
    ASSUME PortType, NEW at, port_task.at = at, NEW next \in PortTaskAt, PortGoto(next),
           UNCHANGED <<port_evtq, app, callback, plugs>>, ready' \in BOOLEAN
    PROVE  PortActs(at, next)
  BY DEF PortActs, PortGoto, PortType

\* The pipes become invalid, one by one, and their tasks get a message.
LEMMA PortInvalidatesKeeps ==
    ASSUME TypeOK, PortRest, PostInvalid \/ HandleLostNext
    PROVE  TypeOK' /\ PortRest'
  <1>1. ViewType /\ PipesType /\ PortType
    BY TypeParts
  <1>2. CASE PostInvalid
    <2>1. PortActs("post", "invalidate")
      BY <1>1, <1>2, GotoActs DEF PostInvalid, PortTaskAt, PortType
    <2> DEFINE p == port_task.cur
               q == Append(evtq[p], "INVALID")
    <2>2. evtq' = [evtq EXCEPT ![p] = q] /\ Len(evtq[p]) < QueueLen
      BY <1>2 DEF PostInvalid
    <2>3. p \in Pipe => q \in Seq(Event) /\ Len(q) <= QueueLen
      <3>1. "INVALID" \in Event
        BY DEF Event
      <3>2. p \in Pipe => evtq[p] \in Seq(Event)
        BY <1>1 DEF PipesType, QueuesType
      <3> QED BY <2>2, <3>1, <3>2, HostPipeAssumption
    <2>4. QueuesType'
      <3> HIDE DEF q, p
      <3> QED BY <1>1, <2>2, <2>3 DEF PipesType, QueuesType
    <2>5. PipesType'
      BY <1>1, <1>2, <2>4 DEF PostInvalid, PipesType, DrvType, LeakedType, ObjectsType, viewVars
    <2> QED BY <1>2, <2>1, <2>5, PortActsKeeps DEF PostInvalid, PortTaskAt, viewVars
  <1>3. CASE HandleLostNext /\ InvalidateEnd /\ PortGoto("class")
    <2>1. PortActs("invalidate", "class") /\ UNCHANGED <<vport, vhw, drv, hostPipeVars>> /\ op' = "idle"
      BY <1>1, <1>3, GotoActs DEF HandleLostNext, InvalidateEnd, PortTaskAt, PortType
    <2>2. PipesType'
      BY <1>1, <2>1 DEF PipesType, DrvType, LeakedType, QueuesType, ObjectsType, hostPipeVars
    <2> QED BY <2>1, <2>2, PortActsKeeps DEF PortTaskAt
  <1>4. ASSUME NEW p \in Pipe, HandleLostNext, InvalidateNext(p),
               port_task' = [port_task EXCEPT !.at = "post", !.cur = p]
        PROVE  TypeOK' /\ PortRest'
    <2>1. PortActs("invalidate", "post") /\ UNCHANGED <<vport, vhw, op, hostPipeVars>>
      BY <1>1, <1>4 DEF HandleLostNext, InvalidateNext, PortActs, PortType
    <2> DEFINE d == [Flush(drv[p], "NO_DEVICE") EXCEPT !.state = "INVALID"]
    <2>2. drv' = [drv EXCEPT ![p] = d]
      BY <1>4 DEF InvalidateNext, Invalidate
    <2>3. drv[p] \in Driver_t
      BY <1>1 DEF PipesType, DrvType
    <2>4. d \in Driver_t
      BY <2>3, DriverTypes
    <2>5. DrvType'
      <3> HIDE DEF d
      <3> QED BY <1>1, <2>2, <2>4, OneDriver DEF PipesType
    <2>6. PipesType'
      BY <1>1, <2>1, <2>5 DEF PipesType, LeakedType, QueuesType, ObjectsType, hostPipeVars
    <2> QED BY <2>1, <2>6, PortActsKeeps DEF PortTaskAt
  <1> QED BY <1>2, <1>3, <1>4 DEF HandleLostNext

\* What the task does at the end of a message: power off, or nothing.
LEMMA PortEndsKeeps ==
    ASSUME TypeOK, PortRest, ActPowerOff \/ ActNothing
    PROVE  TypeOK' /\ PortRest'
  <1>1. ViewType /\ PipesType /\ PortType
    BY TypeParts
  <1>2. PortActs("act", "blocked") /\ UNCHANGED <<drv, hostPipeVars>>
    BY <1>1, GotoActs DEF ActPowerOff, ActNothing, PowerOffPort, PortTaskAt, PortType, viewVars
  <1>3. PipesType'
    BY <1>1, <1>2 DEF PipesType, DrvType, LeakedType, QueuesType, ObjectsType, hostPipeVars
  <1>4. CASE UNCHANGED viewVars
    BY <1>2, <1>3, <1>4, PortActsKeeps DEF PortTaskAt, viewVars
  <1>5. CASE ActPowerOff /\ PowerOffPort
    <2>1. /\ vport' = [vport EXCEPT !.state = "NOT_POWERED"] /\ vhw' = [vhw EXCEPT !.powered = FALSE]
          /\ port_task.event = "DISCONNECTION" /\ port_task' = [port_task EXCEPT !.at = "blocked"]
          /\ UNCHANGED <<op, port_evtq, app, callback, ready, plugs>> /\ port_task.at = "act"
      BY <1>5 DEF ActPowerOff, PowerOffPort, PortGoto
    <2>2. ViewType'
      BY <1>1, <2>1 DEF ViewType
    <2>3. PortType'
      BY <1>1, <2>1 DEF PortType, PortTaskAt
    <2>4. TypeOK'
      BY <1>3, <2>2, <2>3 DEF TypeOK, ViewType, PipesType, DrvType, LeakedType, QueuesType, ObjectsType,
                              PortType
    <2>5. /\ vport'.state = "NOT_POWERED" /\ vport'.event_pending = vport.event_pending
          /\ vport'.last_event = vport.last_event /\ vport'.conn_devc_ena = vport.conn_devc_ena
          /\ vhw'.debouncing = vhw.debouncing /\ port_task'.at = "blocked"
          /\ port_task'.event = port_task.event /\ Told' = Told
      BY <1>1, <2>1 DEF ViewType, PortType, Told
    <2>6. ~LossInHand /\ ~LossInHand' /\ app # "boot"
      BY <2>1, <2>5 DEF LossInHand, PortRest, Boots
    <2>7. PortRest'
      BY <2>1, <2>5, <2>6 DEF PortRest, MessageComes, LockHeld, DebounceWaits, Debounced, PlaceOfEvent,
                              Boots, OneLoss, LossStays
    <2> QED BY <2>4, <2>7
  <1> QED BY <1>4, <1>5 DEF ActPowerOff, ActNothing

\* suddenDisconnect: the reset, and the control pipe.
LEMMA PortForgetsKeeps ==
    ASSUME TypeOK, PortRest, suddenDisconnect \/ freeCTRLpipe
    PROVE  TypeOK' /\ PortRest'
  <1>1. ViewType /\ PipesType /\ PortType
    BY TypeParts
  <1>2. CASE suddenDisconnect
    <2>1. PortActs("act", "free_ctrl") /\ UNCHANGED <<viewVars, hostPipeVars>>
      BY <1>1, <1>2, GotoActs DEF suddenDisconnect, PortTaskAt, PortType
    <2>2. PipesType'
      BY <1>1, <2>1 DEF PipesType, DrvType, LeakedType, QueuesType, ObjectsType, hostPipeVars, viewVars
    <2> QED BY <1>2, <2>1, <2>2, PortActsKeeps DEF suddenDisconnect, PortTaskAt, viewVars
  <1>3. CASE freeCTRLpipe
    <2>1. PortActs("free_ctrl", "recover") /\ UNCHANGED <<vport, vhw, op, addr, dev_addr>>
      BY <1>1, <1>3, GotoActs DEF freeCTRLpipe, PortTaskAt, PortType
    <2>2. ASSUME obj["ctrl"].ptr = "null" PROVE PipesType'
      BY <1>1, <1>3, <2>1, <2>2
         DEF freeCTRLpipe, PipesType, DrvType, LeakedType, QueuesType, ObjectsType
    <2>3. ASSUME DeletePipes({"ctrl"}, "null") PROVE PipesType'
      <3>1. {"ctrl"} \in SUBSET Pipe
        BY HostPipeAssumption
      <3> QED BY <1>1, <2>1, <2>3, <3>1, DeleteType
    <2>4. PipesType'
      BY <1>3, <2>2, <2>3 DEF freeCTRLpipe
    <2>5. port_task.event = "SUDDEN_DISCONN"
      BY <1>3 DEF freeCTRLpipe, PortRest, PlaceOfEvent
    <2> QED BY <2>1, <2>4, <2>5, PortActsKeeps DEF PortTaskAt
  <1> QED BY <1>2, <1>3

\* TypeOK of the next state, of its parts.
LEMMA TypePartsNext ==
    ASSUME ViewType', PipesType', PortType'
    PROVE  TypeOK'
  BY DEF TypeOK, ViewType, PipesType, PortType, DrvType, LeakedType, QueuesType, ObjectsType

\* suddenDisconnect: recover, which takes the lock off.
LEMMA PortRecoversKeeps ==
    ASSUME TypeOK, PortRest, recover
    PROVE  TypeOK' /\ PortRest'
  <1>1. ViewType /\ PipesType /\ PortType
    BY TypeParts
  <1>2. PortActs("recover", "power_on") /\ UNCHANGED <<drv, hostPipeVars>>
    BY <1>1, GotoActs DEF recover, RecoverPort, PortTaskAt, PortType, viewVars
  <1>3. PipesType'
    BY <1>1, <1>2 DEF PipesType, DrvType, LeakedType, QueuesType, ObjectsType, hostPipeVars
  <1>4. port_task.event = "SUDDEN_DISCONN" /\ LossInHand
    BY <1>2 DEF PortActs, PortRest, PlaceOfEvent, LossInHand
  <1>5. CASE UNCHANGED viewVars
    BY <1>2, <1>3, <1>4, <1>5, PortActsKeeps DEF PortTaskAt, viewVars
  <1>6. CASE RecoverPort
    <2>1. /\ vport' = [vport EXCEPT !.state = "NOT_POWERED", !.last_event = "NONE"]
          /\ vhw' = [powered |-> FALSE, connected |-> FALSE, debouncing |-> FALSE]
          /\ ~vport.event_pending /\ ~vport.conn_devc_ena /\ op = "idle" /\ op' = "idle"
      BY <1>6 DEF RecoverPort, CanRecover
    <2>2. ViewType' /\ ~vport'.event_pending /\ ~vport'.conn_devc_ena /\ vport'.state = "NOT_POWERED"
      BY <1>1, <2>1 DEF ViewType
    <2>3. PortType' /\ port_task'.at = "power_on" /\ port_task'.event = "SUDDEN_DISCONN"
      BY <1>1, <1>2, <1>4 DEF PortType, PortActs, PortTaskAt
    <2>4. TypeOK'
      BY <1>3, <2>2, <2>3, TypePartsNext
    <2>5. Told = {} /\ Told' = {} /\ app # "boot" /\ app' = app
      BY <1>2, <1>4 DEF PortRest, OneLoss, PortActs, Told, Boots
    <2>6. PortRest'
      BY <2>1, <2>2, <2>3, <2>5 DEF PortRest, MessageComes, LockHeld, DebounceWaits, PlaceOfEvent,
                                    Boots, OneLoss, LossStays
    <2> QED BY <2>4, <2>6
  <1> QED BY <1>5, <1>6 DEF recover

\* powerON, after which the loss is over, or of init, with which the task starts.
LEMMA PortPowersKeeps ==
    ASSUME TypeOK, PortRest, powerON \/ init
    PROVE  TypeOK' /\ PortRest'
  <1>1. ViewType /\ PipesType /\ PortType
    BY TypeParts
  <1>2. /\ UNCHANGED <<op, drv, hostPipeVars, port_evtq, callback, ready, plugs>>
        /\ port_task' = [port_task EXCEPT !.at = "blocked"] /\ port_task.at \in {"power_on", "none"}
        /\ app' \in {"boot", "init", "loop", "sending"} /\ app' # "boot"
    BY <1>1 DEF powerON, init, PowerOnPort, PortGoto, viewVars, PortRest, Boots, PortType
  <1>3. /\ vport' \in {vport, [vport EXCEPT !.state = "DISCONNECTED"]}
        /\ vhw' \in {vhw, [vhw EXCEPT !.powered = TRUE]}
    BY DEF powerON, init, PowerOnPort, viewVars
  <1>4. /\ ViewType' /\ vport'.event_pending = vport.event_pending
        /\ vport'.last_event = vport.last_event /\ vhw'.debouncing = vhw.debouncing
    BY <1>1, <1>2, <1>3 DEF ViewType
  <1>5. PipesType'
    BY <1>1, <1>2 DEF PipesType, DrvType, LeakedType, QueuesType, ObjectsType, hostPipeVars
  <1>6. PortType' /\ port_task'.at = "blocked"
    BY <1>1, <1>2 DEF PortType, PortTaskAt
  <1>7. TypeOK'
    BY <1>4, <1>5, <1>6, TypePartsNext
  <1>8. Told = {} /\ Told' = {} /\ ~LossInHand'
    <2>1. CASE powerON
      <3>1. LossInHand
        BY <2>1 DEF powerON, PortRest, PlaceOfEvent, LossInHand
      <3> QED BY <1>2, <1>6, <3>1 DEF PortRest, OneLoss, LossInHand, Told
    <2>2. CASE init
      <3>1. port_evtq = << >>
        BY <2>2 DEF init, PortRest, Boots
      <3> QED BY <1>2, <1>6, <3>1 DEF Told, LossInHand
    <2> QED BY <2>1, <2>2
  <1>9. MessageComes' /\ LockHeld'
    BY <1>2, <1>4 DEF PortRest, MessageComes, LockHeld, DebounceWaits, Debounced
  <1>10. PlaceOfEvent' /\ Boots' /\ OneLoss' /\ LossStays'
    BY <1>2, <1>6, <1>8 DEF PlaceOfEvent, Boots, OneLoss, LossStays
  <1> QED BY <1>7, <1>9, <1>10 DEF PortRest

\* connect, called by a class driver: the reset of the port, up to its delay.
LEMMA PortResetsKeeps ==
    ASSUME TypeOK, PortRest, port_task.at = "class", port_task.event = "CONNECTION", Connect
    PROVE  TypeOK' /\ PortRest'
  <1>1. ViewType /\ PipesType /\ PortType
    BY TypeParts
  <1>2. UNCHANGED <<vhw, drv, hostPipeVars, port_evtq, app, callback, ready, plugs>>
    BY DEF Connect, ResetPort, viewVars
  <1>3. PipesType'
    BY <1>1, <1>2 DEF PipesType, DrvType, LeakedType, QueuesType, ObjectsType, hostPipeVars
  <1>4. CASE UNCHANGED viewVars /\ PortGoto("act")
    <2>1. PortActs("class", "act")
      BY <1>1, <1>2, <1>4, GotoActs DEF PortTaskAt, PortType
    <2> QED BY <1>3, <1>4, <2>1, PortActsKeeps DEF PortTaskAt, viewVars
  <1>5. CASE ResetPort /\ PortGoto("reset")
    <2>1. /\ vport' = [vport EXCEPT !.state = "RESETTING"] /\ op' = "reset" /\ op = "idle"
          /\ ~vport.event_pending /\ vport.state \in {"ENABLED", "DISABLED"}
          /\ port_task' = [port_task EXCEPT !.at = "reset"]
      BY <1>5 DEF ResetPort, CanReset, CanCommandPort, PortGoto
    <2>2. ViewType' /\ ~vport'.event_pending
      BY <1>1, <1>2, <2>1 DEF ViewType
    <2>3. PortType' /\ port_task'.at = "reset" /\ port_task'.event = "CONNECTION"
      BY <1>1, <1>2, <2>1 DEF PortType, PortTaskAt
    <2>4. TypeOK'
      BY <1>3, <2>2, <2>3, TypePartsNext
    <2>5. Told = {} /\ Told' = {} /\ app # "boot" /\ app' = app
      BY <1>2, <2>1 DEF PortRest, LossStays, Told, Boots
    <2>6. PortRest'
      BY <2>1, <2>2, <2>3, <2>5 DEF PortRest, MessageComes, LockHeld, DebounceWaits, PlaceOfEvent,
                                    Boots, OneLoss, LossStays, LossInHand
    <2> QED BY <2>4, <2>6
  <1> QED BY <1>4, <1>5 DEF Connect

\* connect, after the reset: its result, and the control pipe.
LEMMA PortConnectsKeeps ==
    ASSUME TypeOK, PortRest, ConnectReset \/ addCTRLpipe \/ addCTRLpipeEnd
    PROVE  TypeOK' /\ PortRest'
  <1>1. ViewType /\ PipesType /\ PortType
    BY TypeParts
  <1>2. CASE ConnectReset
    <2> DEFINE next == IF vport.state = "ENABLED" /\ vport.conn_devc_ena THEN "connected" ELSE "act"
    <2>1. PortActs("reset", next) /\ next \in {"connected", "act"}
      BY <1>1, <1>2, GotoActs DEF ConnectReset, PortTaskAt, PortType
    <2>2. /\ UNCHANGED <<vport, vhw, drv, obj, evtq, task, addr, leaked, fault>> /\ dev_addr' = 0
          /\ op' = "idle" /\ port_task.event = "CONNECTION"
      BY <1>2 DEF ConnectReset, ResetPortEnd, PortRest, PlaceOfEvent
    <2>3. PipesType'
      BY <1>1, <2>2 DEF PipesType, DrvType, LeakedType, QueuesType, ObjectsType
    <2> HIDE DEF next
    <2> QED BY <2>1, <2>2, <2>3, PortActsKeeps DEF PortTaskAt
  <1>3. CASE addCTRLpipe
    <2>1. /\ UNCHANGED <<vport, vhw, op, drv, evtq, addr, dev_addr, leaked>> /\ port_task.event = "CONNECTION"
          /\ port_task.at = "connected"
      BY <1>3 DEF addCTRLpipe, viewVars, PortRest, PlaceOfEvent
    <2>2. ASSUME UNCHANGED <<obj, task, fault>> PROVE PipesType'
      BY <1>1, <2>1, <2>2 DEF PipesType, DrvType, LeakedType, QueuesType, ObjectsType
    <2>3. ASSUME NewPipe("ctrl"), task' = StartTask("ctrl", task) PROVE PipesType'
      <3>1. StartTask("ctrl", task) \in [Pipe -> Task] /\ "ctrl" \in Pipe
        BY <1>1, StartTaskType, HostPipeAssumption
      <3> QED BY <1>1, <2>1, <2>3, <3>1, NewPipeType
    <2>4. PipesType'
      BY <1>3, <2>2, <2>3 DEF addCTRLpipe
    <2>5. PICK next \in {"act", "alloc_pipe", "get_desc"} : PortGoto(next)
      BY <1>3 DEF addCTRLpipe
    <2>6. next \in PortTaskAt \ {"none"}
      BY <2>5 DEF PortTaskAt
    <2>7. PortActs("connected", next)
      BY <1>1, <1>3, <2>5, <2>6, GotoActs DEF addCTRLpipe, PortType
    <2> QED BY <2>1, <2>4, <2>5, <2>6, <2>7, PortActsKeeps
  <1>4. CASE addCTRLpipeEnd
    <2>1. PortActs("alloc_pipe", "get_desc") /\ port_task.event = "CONNECTION"
      BY <1>1, <1>4, GotoActs DEF addCTRLpipeEnd, PortTaskAt, PortType, PortRest, PlaceOfEvent
    <2>2. DrvType' /\ QueuesType' /\ obj' \in [Pipe -> Object] /\ addr' \in [Pipe -> {0, Address}]
      BY <1>1, <1>4, AllocPipeType, HostPipeAssumption DEF addCTRLpipeEnd
    <2>4. task' \in [Pipe -> Task]
      BY <1>1, <1>4, QueueTaskType, HostPipeAssumption DEF addCTRLpipeEnd
    <2>3. PipesType' /\ UNCHANGED <<vport, vhw, op>>
      BY <1>1, <1>4, <2>2, <2>4 DEF addCTRLpipeEnd, PipesType, LeakedType, ObjectsType
    <2> QED BY <2>1, <2>3, PortActsKeeps DEF PortTaskAt
  <1> QED BY <1>2, <1>3, <1>4

\* The delay of a debounce ends, and takes the lock off: no loss waits for it.
LEMMA PortDebouncesKeeps ==
    ASSUME TypeOK, PortRest, HandleConnEnd
    PROVE  TypeOK' /\ PortRest'
  <1>1. ViewType /\ PipesType /\ PortType
    BY TypeParts
  <1>2. /\ port_task.at = "debounce" /\ op = "debounce" /\ op' = "idle" /\ PortGoto("class")
        /\ UNCHANGED <<drv, hostPipeVars, port_evtq, app, callback, ready, plugs>>
        /\ vport' = [vport EXCEPT !.state = IF vhw.connected THEN "DISABLED" ELSE "DISCONNECTED"]
        /\ vhw' = [vhw EXCEPT !.debouncing = FALSE]
    BY DEF HandleConnEnd, DebounceEnd
  <1>3. PipesType'
    BY <1>1, <1>2 DEF PipesType, DrvType, LeakedType, QueuesType, ObjectsType, hostPipeVars
  <1>4. /\ ViewType' /\ vport'.event_pending = vport.event_pending
        /\ vport'.last_event = vport.last_event
    BY <1>1, <1>2 DEF ViewType
  <1>5. PortType' /\ port_task'.at = "class" /\ port_task'.event = port_task.event
    BY <1>1, <1>2 DEF PortType, PortTaskAt, PortGoto
  <1>6. TypeOK'
    BY <1>3, <1>4, <1>5, TypePartsNext
  <1>7. Told = {} /\ Told' = {} /\ ~LossInHand /\ ~LossInHand' /\ app' = app /\ app # "boot"
    BY <1>2, <1>5 DEF PortRest, LossStays, Told, LossInHand, Boots
  <1>8. ~DebounceWaits /\ ~DebounceWaits'
    BY <1>2, <1>4 DEF PortRest, LockHeld, DebounceWaits, Debounced
  <1> QED BY <1>2, <1>4, <1>5, <1>6, <1>7, <1>8
          DEF PortRest, MessageComes, LockHeld, PlaceOfEvent, Boots, OneLoss, LossStays

-----------------------------------------------------------------------------
(* The steps that the port's task has no part in *)

\* The application sets the callback.
LEMMA CallbackSetKeeps ==
    ASSUME TypeOK, PortRest, initCallback
    PROVE  TypeOK' /\ PortRest'
  <1>1. UNCHANGED <<viewVars, hostPipeVars, port_evtq, port_task, ready, plugs>> /\ app' = "loop" /\ callback'
    BY DEF initCallback
  <1>2. TypeOK'
    BY <1>1 DEF TypeOK, viewVars, hostPipeVars
  <1> QED BY <1>1, <1>2, PortStill DEF viewVars

\* What only the pipes take part in.
LEMMA PipesMoveKeeps ==
    ASSUME TypeOK, PortRest, PipesType', UNCHANGED <<vport, vhw, op, port_evtq, port_task, plugs>>,
           app' \in {"boot", "init", "loop", "sending"}, app' = "boot" => app = "boot",
           callback' \in BOOLEAN, ready' \in BOOLEAN
    PROVE  TypeOK' /\ PortRest'
  <1>1. ViewType /\ PortType
    BY TypeParts
  <1>2. ViewType' /\ PortType'
    BY <1>1 DEF ViewType, PortType
  <1> QED BY <1>2, TypePartsNext, PortStill

\* The pipe tasks and the bus.
LEMMA PipeTasksKeep ==
    ASSUME TypeOK, PortRest,
           \/ \E p \in Pipe : PipeTask(p)
           \/ Transfer
           \/ \E events \in SUBSET ErrorEvent : TransferError(events)
    PROVE  TypeOK' /\ PortRest'
  <1>1. PipesType /\ PortType
    BY TypeParts
  <1>2. PipesType'
    <2>1. ASSUME NEW p \in Pipe, PipeTask(p) PROVE PipesType'
      BY <1>1, <2>1, TaskStepType DEF PipeTask
    <2>2. ASSUME Transfer PROVE PipesType'
      BY <1>1, <2>2, TransferType DEF Transfer
    <2>3. ASSUME NEW events \in SUBSET ErrorEvent, TransferError(events) PROVE PipesType'
      BY <1>1, <2>3, TransferType DEF TransferError
    <2> QED BY <2>1, <2>2, <2>3
  <1>3. UNCHANGED <<vport, vhw, op, portVars>>
    BY DEF PipeTask, Transfer, TransferError
  <1> QED BY <1>1, <1>2, <1>3, PipesMoveKeeps DEF portVars, PortType

\* A task that takes the core too early changes nothing but what went wrong.
LEMMA TimeSliceKeeps ==
    ASSUME TypeOK, PortRest, TimeSlice
    PROVE  TypeOK' /\ PortRest'
  <1>1. PipesType /\ PortType
    BY TypeParts
  <1>2. /\ UNCHANGED <<vport, vhw, op, drv, obj, evtq, task, addr, dev_addr, leaked, portVars>>
        /\ fault' = "use"
    BY DEF TimeSlice, StartsEarly
  <1>3. PipesType'
    BY <1>1, <1>2 DEF PipesType, DrvType, LeakedType, QueuesType, ObjectsType
  <1> QED BY <1>1, <1>2, <1>3, PipesMoveKeeps DEF portVars, PortType

\* The interrupts of the port.
LEMMA PortInterruptsKeep ==
    ASSUME TypeOK, PortRest, Plug \/ Unplug \/ Enable \/ Fault \/ Overload
    PROVE  TypeOK' /\ PortRest'
  <1>1. ViewType /\ PipesType /\ PortType
    BY TypeParts
  <1>2. AnInterrupt /\ PortCallback
    BY DEF Plug, Unplug, Enable, Fault, Overload, PortInterrupt, AnInterrupt
  <1>3. /\ UNCHANGED <<obj, evtq, task, addr, leaked, fault, port_task, app, callback, ready>>
        /\ dev_addr' \in {0, dev_addr} /\ plugs' \in 0 .. MaxPlugs
    BY <1>1, PlugsAssumption DEF Plug, Unplug, Enable, Fault, Overload, PortInterrupt, PortType
  <1>4. ViewType' /\ drv' = drv
    BY <1>1, <1>2, InterruptMoves
  <1>5. PipesType'
    BY <1>1, <1>3, <1>4 DEF PipesType, DrvType, LeakedType, QueuesType, ObjectsType
  <1>6. PortType' /\ PortRest'
    BY <1>1, <1>2, <1>3, InterruptType, InterruptRest
  <1> QED BY <1>4, <1>5, <1>6, TypePartsNext

\* The port task and the delays of the driver.
LEMMA PortTaskKeeps ==
    ASSUME TypeOK, PortRest, PortTask \/ Delay
    PROVE  TypeOK' /\ PortRest'
  <1>1. CASE PortReceive \/ HandleNothing \/ HandleConn \/ HandleLost
    BY <1>1, PortReceiveKeeps, PortHandleKeeps
  <1>2. CASE PostInvalid \/ HandleLostNext \/ ActPowerOff \/ ActNothing
    BY <1>2, PortInvalidatesKeeps, PortEndsKeeps
  <1>3. CASE suddenDisconnect \/ freeCTRLpipe \/ recover \/ powerON
    BY <1>3, PortForgetsKeeps, PortRecoversKeeps, PortPowersKeeps
  <1>4. CASE addCTRLpipe \/ addCTRLpipeEnd \/ ConnectReset \/ HandleConnEnd
    BY <1>4, PortConnectsKeeps, PortDebouncesKeeps
  <1> QED BY <1>1, <1>2, <1>3, <1>4 DEF PortTask, Delay

-----------------------------------------------------------------------------
(* What the callbacks of a class driver do from the port's task *)

\* Nothing.
LEMMA PortPassesKeeps ==
    ASSUME TypeOK, PortRest, port_task.at = "class", PortGoto("act"),
           UNCHANGED <<viewVars, hostPipeVars, port_evtq, app, callback, ready, plugs>>
    PROVE  TypeOK' /\ PortRest'
  <1>1. ViewType /\ PipesType /\ PortType
    BY TypeParts
  <1>2. PortActs("class", "act")
    BY <1>1, GotoActs DEF PortTaskAt, PortType
  <1>3. PipesType'
    BY <1>1 DEF PipesType, DrvType, LeakedType, QueuesType, ObjectsType, hostPipeVars, viewVars
  <1> QED BY <1>2, <1>3, PortActsKeeps DEF PortTaskAt, viewVars

\* A request of the enumeration.
LEMMA PortRequestsKeeps ==
    ASSUME TypeOK, PortRest, NEW at \in {"get_desc", "set_addr"}, NEW next \in {"set_addr", "act"},
           port_task.at = at, PortGoto(next), NEW req \in Irp, SubmitIrp("ctrl", req),
           UNCHANGED <<vport, vhw, op, obj, evtq, task, addr, dev_addr, port_evtq, app, callback, ready, plugs>>
    PROVE  TypeOK' /\ PortRest'
  <1>1. ViewType /\ PipesType /\ PortType
    BY TypeParts
  <1>2. PortActs(at, next) /\ port_task.event = "CONNECTION"
    BY <1>1, GotoActs DEF PortTaskAt, PortType, PortRest, PlaceOfEvent
  <1>3. DrvType' /\ LeakedType' /\ fault' \in {fault, "use"}
    BY <1>1, SubmitType, HostPipeAssumption
  <1>4. PipesType'
    BY <1>1, <1>3 DEF PipesType, QueuesType, ObjectsType
  <1> QED BY <1>2, <1>4, PortActsKeeps DEF PortTaskAt

\* The deletion of the data pipes.
LEMMA PortDeletesKeeps ==
    ASSUME TypeOK, PortRest, port_task.at = "class", PortGoto("act"),
           NEW S \in SUBSET Pipe, DeletePipes(S, "set"),
           UNCHANGED <<vport, vhw, op, addr, dev_addr, port_evtq, app, callback, ready, plugs>>
    PROVE  TypeOK' /\ PortRest'
  <1>1. ViewType /\ PipesType /\ PortType
    BY TypeParts
  <1>2. PortActs("class", "act")
    BY <1>1, GotoActs DEF PortTaskAt, PortType
  <1>3. PipesType'
    BY <1>1, DeleteType
  <1> QED BY <1>2, <1>3, PortActsKeeps DEF PortTaskAt

-----------------------------------------------------------------------------
(* The initial states *)

\* Before init nothing is known of the port but that it is off.
LEMMA PortInvInit == Init => PortInv
  <1> SUFFICES ASSUME Init PROVE PortInv
    OBVIOUS
  <1> DEFINE e == << >>
  <1>1. e \in Seq(Event) /\ e \in Seq(PortEvent) /\ Len(e) = 0 /\ DOMAIN e = {}
    BY EmptyType
  <1>2. ViewType
    BY DEF Init, ViewInit, ViewType
  <1>3. NoPipeYet \in Driver_t
    <2>1. e \in Seq(Irp) /\ e \in Seq(IrpDone)
      BY EmptyType
    <2>2. NoPipeYet = [alloc |-> FALSE, state |-> "ACTIVE", moving |-> e, pending |-> e, done |-> e]
      BY DEF NoPipeYet
    <2> HIDE DEF e
    <2> QED BY <2>1, <2>2 DEF Driver_t
  <1>4. TaskIn("none") \in Task
    BY DEF TaskIn, Task, TaskAt
  <1>5. evtq = [p \in Pipe |-> e] /\ port_evtq = e
    BY DEF Init, PipesInit
  <1> HIDE DEF e
  <1>6. PipesType
    BY <1>1, <1>3, <1>4, <1>5, HostPipeAssumption
       DEF Init, ViewInit, PipesInit, PipesType, DrvType, LeakedType, QueuesType, ObjectsType, Object
  <1>7. PortType
    <2>1. /\ port_task \in [at : PortTaskAt, event : PortEvent \union {"NONE"}, cur : Pipe \union {NoPipe}]
          /\ app = "boot" /\ callback = FALSE /\ ready = FALSE /\ plugs = 0
      BY DEF Init, PortTaskAt
    <2>2. port_evtq \in Seq(PortEvent) /\ Len(port_evtq) <= QueueLen
      BY <1>1, <1>5, HostPipeAssumption
    <2>3. plugs \in 0 .. MaxPlugs
      BY <2>1, PlugsAssumption
    <2> QED BY <2>1, <2>2, <2>3 DEF PortType
  <1>8. Told = {} /\ ~LossInHand /\ port_evtq = << >>
    BY <1>1, <1>5 DEF Told, LossInHand, Init, e
  <1>9. PortRest
    BY <1>8 DEF PortRest, Init, ViewInit, MessageComes, LockHeld, DebounceWaits, PlaceOfEvent, Boots,
                OneLoss, LossStays
  <1> QED BY <1>2, <1>6, <1>7, <1>9, TypeParts DEF PortInv, PortRest

-----------------------------------------------------------------------------
(* The visit of a device: the port (PortVisit)                             *)

\* The definitions of PortVisit are all about these.
LEMMA OneMessage == \A x : Head(<<x>>) = x /\ Tail(<<x>>) = << >> /\ <<x>> # << >> /\ Len(<<x>>) = 1
  <1> TAKE x
  <1>1. <<x>> \in Seq({x}) /\ Len(<<x>>) = 1 /\ <<x>>[1] = x
    OBVIOUS
  <1>2. Tail(<<x>>) \in Seq({x}) /\ Len(Tail(<<x>>)) = 0 /\ Head(<<x>>) = x
    BY <1>1
  <1> QED BY <1>1, <1>2

\* Steps of the pipes and of the application leave the port.
LEMMA PortVisitStill ==
    ASSUME PortVisit, UNCHANGED <<vport, vhw, op, port_evtq, port_task, callback>>,
           app' = app \/ {app, app'} \subseteq {"loop", "sending"}
    PROVE  PortVisit'
  BY DEF PortVisit, Waits, Handling, Connecting, Recovering, Operates, Hardware, Calm, Arrived, Gone,
         Coming, Leaving

\* A device comes, is enabled, or leaves.
LEMMA PlugVisit ==
    ASSUME TypeOK, PortVisit, Plug
    PROVE  PortVisit'
  <1>1. ViewType /\ PortType
    BY TypeParts
  <1>2. /\ vhw.powered /\ ~vhw.connected
        /\ vhw' = [vhw EXCEPT !.connected = TRUE, !.debouncing = TRUE]
        /\ vport' = IF vhw.debouncing THEN vport ELSE RaiseEvent("CONNECTION")
        /\ PortCallback /\ UNCHANGED <<op, port_task, app, callback>>
    BY DEF Plug, PortInterrupt, Connected
  <1>3. vhw' \in [powered : BOOLEAN, connected : BOOLEAN, debouncing : BOOLEAN] /\ vhw'.connected /\ vhw'.debouncing
    BY <1>1, <1>2 DEF ViewType
  <1>4. CASE vhw.debouncing
    <2>1. vport' = vport /\ port_evtq' = port_evtq
      BY <1>2, <1>4 DEF PortCallback
    <2> QED BY <1>2, <1>3, <2>1, <1>4 DEF PortVisit, Waits, Handling, Connecting, Recovering, Operates, Hardware,
                  Calm, Arrived, Gone, Coming, Leaving
  <1>5. CASE ~vhw.debouncing
    <2>1. /\ vport'.state = vport.state /\ vport'.conn_devc_ena = vport.conn_devc_ena
          /\ vport'.event_pending /\ vport'.last_event = "CONNECTION"
      BY <1>1, <1>2, <1>5 DEF RaiseEvent, ViewType
    <2>a. vport.state = "DISCONNECTED"
      BY <1>1, <1>2, <1>5 DEF PortVisit, Hardware, ViewType
    <2>2. vport.state = "DISCONNECTED" /\ port_task.at = "blocked" /\ Calm
      BY <1>1, <1>2, <2>a DEF PortVisit, Waits, Handling, Connecting, Recovering, Hardware,
                  Calm, Arrived, Gone, PortType, PortTaskAt
    <2>3. port_evtq' = <<"CONNECTION">>
      BY <1>2, <2>1, <2>2, HostPipeAssumption DEF PortCallback, Calm
    <2> QED BY <1>2, <1>3, <2>1, <2>2, <2>3 DEF PortVisit, Waits, Handling, Connecting, Recovering, Operates, Hardware,
                  Calm, Arrived, Gone, Coming, Leaving
  <1> QED BY <1>4, <1>5

\* The reset has enabled the port.
LEMMA EnableVisit ==
    ASSUME TypeOK, PortVisit, Enable
    PROVE  PortVisit'
  <1>1. ViewType /\ PortType
    BY TypeParts
  <1>2. /\ op = "reset" /\ vport.state = "RESETTING" /\ vhw.connected
        /\ vport' = [vport EXCEPT !.state = "ENABLED", !.conn_devc_ena = TRUE]
        /\ PortCallback /\ UNCHANGED <<vhw, op, port_task, app, callback>>
    BY DEF Enable, PortInterrupt, Enabled
  <1>3. /\ vport'.state = "ENABLED" /\ vport'.conn_devc_ena
        /\ vport'.event_pending = vport.event_pending /\ port_evtq' = port_evtq
    BY <1>1, <1>2 DEF ViewType, PortCallback
  <1>4. port_task.at = "reset" /\ Calm
    BY <1>1, <1>2 DEF PortVisit, Operates, Connecting, Gone
  <1> QED BY <1>2, <1>3, <1>4 DEF PortVisit, Waits, Handling, Connecting, Recovering, Operates, Hardware,
                  Calm, Arrived, Gone, Coming, Leaving

\* It leaves while it is enabled and the port task is blocked.
LEMMA UnplugVisit ==
    ASSUME TypeOK, PortVisit, Unplug, PortBlocked, vport.conn_devc_ena
    PROVE  PortVisit' /\ vport.state = "ENABLED" /\ Calm /\ port_task.at \in {"blocked", "reset"}
           /\ vport'.state = "RECOVERY" /\ port_evtq' = <<"SUDDEN_DISCONN">>
  <1>1. ViewType /\ PortType
    BY TypeParts
  <1>2. vport.state = "ENABLED" /\ ~vhw.debouncing /\ port_task.at # "none"
    BY DEF PortVisit, Hardware
  <1>3. Calm /\ port_task.at \in {"blocked", "reset"}
    BY <1>1, <1>2 DEF PortVisit, PortBlocked, Waits, Handling, Connecting, Calm, Gone
  <1>4. /\ vhw' = [vhw EXCEPT !.connected = FALSE, !.debouncing = TRUE]
        /\ vport' = [RaiseEvent("SUDDEN_DISCONN") EXCEPT !.state = "RECOVERY", !.conn_devc_ena = FALSE]
        /\ PortCallback /\ UNCHANGED <<op, port_task, app, callback>>
    BY <1>2 DEF Unplug, PortInterrupt, Disconnected
  <1>5. /\ vport'.state = "RECOVERY" /\ ~vport'.conn_devc_ena /\ vport'.event_pending
        /\ vport'.last_event = "SUDDEN_DISCONN" /\ vhw'.debouncing
    BY <1>1, <1>4 DEF RaiseEvent, ViewType
  <1>6. port_evtq' = <<"SUDDEN_DISCONN">>
    BY <1>3, <1>4, <1>5, HostPipeAssumption DEF PortCallback, Calm
  <1> QED BY <1>2, <1>3, <1>4, <1>5, <1>6 DEF PortVisit, Waits, Handling, Connecting, Recovering, Operates, Hardware,
                  Calm, Arrived, Gone, Coming, Leaving

\* init: the port is powered.
LEMMA PortStartsVisit ==
    ASSUME TypeOK, PortVisit, init
    PROVE  PortVisit'
  <1>1. ViewType /\ PortType
    BY TypeParts
  <1>2. /\ app = "boot" /\ op = "idle" /\ ~vport.event_pending /\ vport.state = "NOT_POWERED"
        /\ vport' = [vport EXCEPT !.state = "DISCONNECTED"]
        /\ vhw' = [vhw EXCEPT !.powered = TRUE]
        /\ port_task' = [port_task EXCEPT !.at = "blocked"]
        /\ app' = "init" /\ UNCHANGED <<op, port_evtq, callback>>
    BY DEF init, PowerOnPort, CanPowerOn, CanCommandPort
  <1>3. /\ vport'.state = "DISCONNECTED" /\ ~vport'.event_pending /\ vport'.conn_devc_ena = vport.conn_devc_ena
        /\ vhw'.connected = vhw.connected /\ vhw'.debouncing = vhw.debouncing /\ port_task'.at = "blocked"
    BY <1>1, <1>2 DEF ViewType, PortType
  <1> QED BY <1>2, <1>3 DEF PortVisit, Waits, Handling, Connecting, Recovering, Operates, Hardware,
                  Calm, Arrived, Gone, Coming, Leaving

\* init: the callback is known.
LEMMA CallbackVisit ==
    ASSUME TypeOK, PortVisit, initCallback
    PROVE  PortVisit'
  BY DEF PortVisit, Waits, Handling, Connecting, Recovering, Operates, Hardware,
                  Calm, Arrived, Gone, Coming, Leaving, initCallback, viewVars

\* The task takes the message, and handles it.
LEMMA PortReceiveVisit ==
    ASSUME TypeOK, PortVisit, PortReceive
    PROVE  PortVisit'
  <1>1. ViewType /\ PortType
    BY TypeParts
  <1>2. /\ port_task.at = "blocked" /\ port_evtq # << >>
        /\ port_task' = [at |-> "handle", event |-> Head(port_evtq), cur |-> NoPipe]
        /\ port_evtq' = Tail(port_evtq)
        /\ UNCHANGED <<vport, vhw, op, app, callback>>
    BY DEF PortReceive, viewVars
  <1>3. \/ port_evtq = <<"CONNECTION">> /\ Arrived
        \/ port_evtq = <<"SUDDEN_DISCONN">> /\ Gone
    BY <1>2 DEF PortVisit, Waits, Calm
  <1>4. /\ port_evtq' = << >> /\ port_task'.at = "handle"
        /\ (port_task'.event = "CONNECTION" /\ Arrived) \/ (port_task'.event = "SUDDEN_DISCONN" /\ Gone)
    <2>1. ASSUME NEW x, port_evtq = <<x>> PROVE port_evtq' = << >> /\ port_task'.event = x /\ port_task'.at = "handle"
      BY <1>2, <2>1, OneMessage
    <2> QED BY <1>3, <2>1
  <1> QED BY <1>2, <1>4 DEF PortVisit, Waits, Handling, Connecting, Recovering, Operates, Hardware,
                  Calm, Arrived, Gone, Coming, Leaving

\* The driver has the event of the message.
LEMMA HandleConnVisit ==
    ASSUME TypeOK, PortVisit, HandleConn
    PROVE  PortVisit' /\ vport'.state = vport.state /\ Coming /\ port_task' = [port_task EXCEPT !.at = "debounce"]
  <1>1. ViewType /\ PortType
    BY TypeParts
  <1>2. port_task.at = "handle" /\ port_evtq = << >> /\ Coming /\ Arrived
    BY DEF HandleConn, HandleConnEvent, Debounced, PortVisit, Handling, Gone
  <1>3. op' = "debounce" /\ port_task' = [port_task EXCEPT !.at = "debounce"]
    BY <1>2 DEF HandleConn, HandleConnEvent, Arrived, PortGoto
  <1>4. /\ vport' = [vport EXCEPT !.event_pending = FALSE, !.state = vport.state]
        /\ UNCHANGED <<vhw, port_evtq, app, callback>>
    BY <1>2 DEF HandleConn, HandleConnEvent, Arrived
  <1>5. /\ vport'.state = vport.state /\ ~vport'.event_pending /\ vport'.conn_devc_ena = vport.conn_devc_ena
        /\ port_task'.at = "debounce" /\ port_task'.event = port_task.event
    BY <1>1, <1>3, <1>4 DEF ViewType, PortType
  <1> QED BY <1>2, <1>3, <1>4, <1>5 DEF PortVisit, Waits, Handling, Connecting, Recovering, Operates, Hardware,
                  Calm, Arrived, Gone, Coming, Leaving

\* The driver has the loss of the message, with a pipe to invalidate or without.
LEMMA HandleLostVisit ==
    ASSUME TypeOK, PortVisit, HandleLost
    PROVE  PortVisit' /\ vport'.state = vport.state /\ Leaving /\ vport.state = "RECOVERY"
  <1>1. ViewType /\ PortType
    BY TypeParts
  <1>2. port_task.at = "handle" /\ port_evtq = << >> /\ Leaving /\ Gone
    BY DEF HandleLost, HandleLoss, HandleLossNoPipe, Debounced, PortVisit, Handling, Arrived
  <1>3. /\ vport' = [vport EXCEPT !.event_pending = FALSE]
        /\ UNCHANGED <<vhw, port_evtq, app, callback>>
    BY DEF HandleLost, HandleLossNoPipe, HandleLoss
  <1>4. /\ vport'.state = vport.state /\ ~vport'.event_pending /\ vport'.conn_devc_ena = vport.conn_devc_ena
    BY <1>1, <1>3 DEF ViewType
  <1>5. \/ op' = op /\ port_task'.at = "class" /\ port_task'.event = port_task.event
        \/ op' = "invalidate" /\ port_task'.at = "post" /\ port_task'.event = port_task.event
    BY <1>1 DEF HandleLost, HandleLossNoPipe, HandleLoss, PortGoto, PortType
  <1> QED BY <1>2, <1>3, <1>4, <1>5 DEF PortVisit, Waits, Handling, Connecting, Recovering, Operates, Hardware,
                  Calm, Arrived, Gone, Coming, Leaving

\* The driver has an event for every message of a visit.
LEMMA HandleNothingNot ==
    ASSUME PortVisit
    PROVE  ~HandleNothing
  BY DEF HandleNothing, PortVisit, Handling, Arrived, Gone

\* From one place to the next: the loss, the connection, and their ends.
Goes(at, next) ==
    /\ port_task.at = at /\ port_task'.at = next /\ port_task'.event = port_task.event
    /\ UNCHANGED <<vport, vhw, port_evtq, app, callback>>

\* The places of the loss and of the connection at which the port stays.
LEMMA PortGoesVisit ==
    ASSUME PortVisit,
           \/ (op' = op /\ (Goes("post", "invalidate") \/ Goes("invalidate", "post")))
           \/ (op' = op /\ Leaving /\ (Goes("class", "act") \/ Goes("act", "free_ctrl")))
           \/ (op' = op /\ Goes("free_ctrl", "recover"))
           \/ (op' = op /\ (Goes("connected", "alloc_pipe") \/ Goes("alloc_pipe", "get_desc")))
           \/ (op' = op /\ (Goes("get_desc", "set_addr") \/ Goes("set_addr", "act")))
           \/ (op' = op /\ Coming /\ Goes("act", "blocked"))
           \/ (op' = "idle" /\ Goes("invalidate", "class"))
           \/ (op' = "idle" /\ vport.state = "ENABLED" /\ Goes("reset", "connected"))
           \/ (op' = "idle" /\ vport.state \notin {"RESETTING", "ENABLED"} /\ Goes("reset", "act")),
           port_task.at \in {"reset", "connected", "alloc_pipe", "get_desc", "set_addr"} => Coming
    PROVE  PortVisit'
  BY DEF Goes, PortVisit, Waits, Handling, Connecting, Recovering, Operates, Hardware,
                  Calm, Arrived, Gone, Coming, Leaving

\* A delay of the driver ends: in a connection.
LEMMA ComingInReset ==
    ASSUME PortInv
    PROVE  /\ port_task.at \in {"reset", "connected", "alloc_pipe", "get_desc", "set_addr"} => Coming
           /\ port_task.at \in {"free_ctrl", "recover", "power_on"} => Leaving
  BY DEF PortInv, PlaceOfEvent, Coming, Leaving

\* The delay of the debounce ends.
LEMMA ConnEndVisit ==
    ASSUME TypeOK, PortVisit, HandleConnEnd
    PROVE  PortVisit' /\ vport'.state = "DISABLED" /\ vport.state = "DISCONNECTED" /\ Coming
           /\ port_task'.at = "class" /\ port_task'.event = port_task.event
  <1>1. ViewType /\ PortType
    BY TypeParts
  <1>2. /\ port_task.at = "debounce" /\ app # "init" /\ op' = "idle"
        /\ vport' = [vport EXCEPT !.state = IF vhw.connected THEN "DISABLED" ELSE "DISCONNECTED"]
        /\ vhw' = [vhw EXCEPT !.debouncing = FALSE]
        /\ port_task' = [port_task EXCEPT !.at = "class"]
        /\ UNCHANGED <<port_evtq, app, callback>>
    BY DEF HandleConnEnd, DebounceEnd, PortGoto
  <1>3. Coming /\ Calm /\ vport.state = "DISCONNECTED" /\ vhw.connected /\ app # "boot"
    BY <1>2 DEF PortVisit, Handling, Hardware
  <1>4. /\ vport'.state = "DISABLED" /\ vport'.conn_devc_ena = vport.conn_devc_ena
        /\ vport'.event_pending = vport.event_pending /\ vhw'.connected /\ ~vhw'.debouncing
        /\ port_task'.at = "class" /\ port_task'.event = port_task.event
    BY <1>1, <1>2, <1>3 DEF ViewType, PortType
  <1>5. callback
    BY <1>1, <1>2, <1>3 DEF PortVisit, Hardware, PortType
  <1> QED BY <1>2, <1>3, <1>4, <1>5 DEF PortVisit, Waits, Handling, Connecting, Recovering, Operates, Hardware,
                  Calm, Arrived, Gone, Coming, Leaving

\* connect
LEMMA ConnectVisit ==
    ASSUME TypeOK, PortVisit, port_task.at = "class", Coming, Connect
    PROVE  /\ PortVisit' /\ vport'.state = "RESETTING" /\ vport.state = "DISABLED"
           /\ port_task'.at = "reset" /\ port_task'.event = port_task.event
           /\ UNCHANGED <<drv, hostPipeVars, port_evtq, app, ready>>
  <1>1. ViewType /\ PortType
    BY TypeParts
  <1>2. Calm /\ vport.state = "DISABLED" /\ op = "idle"
    BY DEF PortVisit, Handling, Operates, Coming, Leaving
  <1>3. CanReset
    BY <1>2 DEF CanReset, CanCommandPort, Calm
  <1>4. /\ vport' = [vport EXCEPT !.state = "RESETTING"] /\ op' = "reset"
        /\ port_task' = [port_task EXCEPT !.at = "reset"]
        /\ UNCHANGED <<vhw, drv, hostPipeVars, port_evtq, app, callback, ready>>
    BY <1>3 DEF Connect, ResetPort, PortGoto
  <1>5. /\ vport'.state = "RESETTING" /\ vport'.conn_devc_ena = vport.conn_devc_ena
        /\ vport'.event_pending = vport.event_pending
        /\ port_task'.at = "reset" /\ port_task'.event = port_task.event
    BY <1>1, <1>4 DEF ViewType, PortType
  <1> QED BY <1>2, <1>4, <1>5 DEF PortVisit, Waits, Handling, Connecting, Recovering, Operates, Hardware,
                  Calm, Arrived, Gone, Coming, Leaving

\* recover and powerON of the loss
LEMMA RecoverVisit ==
    ASSUME TypeOK, PortVisit, recover, Existing = {}
    PROVE  /\ PortVisit' /\ vport'.state = "NOT_POWERED" /\ port_task'.at = "power_on"
           /\ port_task'.event = port_task.event
  <1>1. ViewType /\ PortType
    BY TypeParts
  <1>2. port_task.at = "recover" /\ Calm /\ vport.state = "RECOVERY" /\ op = "idle" /\ ~vport.conn_devc_ena
    BY DEF recover, PortVisit, Recovering, Operates, Hardware
  <1>3. CanRecover
    BY <1>2 DEF CanRecover, Calm
  <1>4. /\ vport' = [vport EXCEPT !.state = "NOT_POWERED", !.last_event = "NONE"]
        /\ vhw' = [powered |-> FALSE, connected |-> FALSE, debouncing |-> FALSE]
        /\ port_task' = [port_task EXCEPT !.at = "power_on"]
        /\ UNCHANGED <<op, port_evtq, app, callback>>
    BY <1>3 DEF recover, RecoverPort, PortGoto
  <1>5. /\ vport'.state = "NOT_POWERED" /\ vport'.conn_devc_ena = vport.conn_devc_ena
        /\ vport'.event_pending = vport.event_pending
        /\ port_task'.at = "power_on" /\ port_task'.event = port_task.event
        /\ ~vhw'.connected /\ ~vhw'.debouncing /\ ~vhw'.powered
    BY <1>1, <1>4 DEF ViewType, PortType
  <1> QED BY <1>2, <1>4, <1>5 DEF PortVisit, Waits, Handling, Connecting, Recovering, Operates, Hardware,
                  Calm, Arrived, Gone, Coming, Leaving

\* powerON.
LEMMA PowerOnVisit ==
    ASSUME TypeOK, PortVisit, powerON
    PROVE  /\ PortVisit' /\ vport'.state = "DISCONNECTED" /\ vport.state = "NOT_POWERED"
           /\ port_task'.at = "blocked"
  <1>1. ViewType /\ PortType
    BY TypeParts
  <1>2. port_task.at = "power_on" /\ Calm /\ vport.state = "NOT_POWERED" /\ op = "idle"
    BY DEF powerON, PortVisit, Recovering, Operates
  <1>3. CanPowerOn
    BY <1>2 DEF CanPowerOn, CanCommandPort, Calm
  <1>4. /\ vport' = [vport EXCEPT !.state = "DISCONNECTED"]
        /\ vhw' = [vhw EXCEPT !.powered = TRUE]
        /\ port_task' = [port_task EXCEPT !.at = "blocked"]
        /\ UNCHANGED <<op, port_evtq, app, callback>>
    BY <1>3 DEF powerON, PowerOnPort, PortGoto
  <1>5. /\ vport'.state = "DISCONNECTED" /\ vport'.conn_devc_ena = vport.conn_devc_ena
        /\ vport'.event_pending = vport.event_pending /\ port_task'.at = "blocked"
        /\ vhw'.connected = vhw.connected /\ vhw'.debouncing = vhw.debouncing
    BY <1>1, <1>4 DEF ViewType, PortType
  <1> QED BY <1>2, <1>4, <1>5 DEF PortVisit, Waits, Handling, Connecting, Recovering, Operates, Hardware,
                  Calm, Arrived, Gone, Coming, Leaving

-----------------------------------------------------------------------------
(* The objects *)

\* What the driver's operations leave alone.
Keeps(d, e) ==
    /\ e.alloc = d.alloc
    /\ e.state = "INVALID" <=> d.state = "INVALID"
    /\ d.state = "INVALID" => e.moving = d.moving /\ e.pending = d.pending

KeepsTask(t, u) ==
    /\ u.at = "none" <=> t.at = "none"
    /\ u.at = "created" <=> t.at = "created"
    /\ u.at \in {"none", "created", "blocked"} => u = TaskIn(u.at)

\* The IRPs that go into the buffers leave the rest of the pipe.
LEMMA FilledFields ==
    ASSUME NEW d \in Driver_t
    PROVE  /\ Filled(d).alloc = d.alloc /\ Filled(d).state = d.state /\ Filled(d).done = d.done
  BY DEF Filled, Driver_t

\* An IRP is enqueued,
LEMMA EnqueueKeeps ==
    ASSUME NEW d \in Driver_t, NEW irp \in Irp
    PROVE  /\ Enqueue(d, irp).alloc = d.alloc /\ Enqueue(d, irp).state = d.state /\ Enqueue(d, irp).done = d.done
           /\ d.state # "INVALID" => Keeps(d, Enqueue(d, irp))
  <1> DEFINE x == Append(d.pending, irp)
  <1>1. x \in Seq(Irp)
    BY DriverFields
  <1>2. Enqueue(d, irp) = Filled([d EXCEPT !.pending = x])
    BY DEF Enqueue
  <1> HIDE DEF x
  <1>3. [d EXCEPT !.pending = x] \in Driver_t
    BY <1>1 DEF Driver_t
  <1>4. /\ [d EXCEPT !.pending = x].alloc = d.alloc /\ [d EXCEPT !.pending = x].state = d.state
        /\ [d EXCEPT !.pending = x].done = d.done
    BY DEF Driver_t
  <1> QED BY <1>2, <1>3, <1>4, FilledFields DEF Keeps

\* all are flushed,
LEMMA FlushFields ==
    ASSUME NEW d \in Driver_t, NEW status
    PROVE  /\ Flush(d, status).alloc = d.alloc /\ Flush(d, status).state = d.state
           /\ Flush(d, status).moving = << >> /\ Flush(d, status).pending = << >>
           /\ Flush(d, status) \in [alloc : BOOLEAN, state : {"ACTIVE", "HALTED", "INVALID"},
                                    moving : {<< >>}, pending : {<< >>}, done : {Flush(d, status).done}]
  <1> DEFINE x == d.done \o EndWith(d.moving \o d.pending, status)
  <1>1. Flush(d, status) = [d EXCEPT !.done = x, !.moving = << >>, !.pending = << >>]
    BY DEF Flush
  <1> HIDE DEF x
  <1> QED BY <1>1 DEF Driver_t

\* the pipe is reset,
LEMMA ResetKeeps ==
    ASSUME NEW d \in Driver_t, d.state # "INVALID"
    PROVE  Keeps(d, ResetPipe(d)) /\ ResetPipe(d).state = "ACTIVE"
           /\ ResetPipe(d).moving = << >> /\ ResetPipe(d).pending = << >>
  BY FlushFields DEF ResetPipe, Keeps

\* the oldest IRP of a pipe that is not empty ends,
LEMMA OldestFields ==
    ASSUME NEW d \in Driver_t, NEW status
    PROVE  Oldest(d, status).alloc = d.alloc /\ Oldest(d, status).state = d.state
           /\ Oldest(d, status).moving = Tail(d.moving) /\ Oldest(d, status).pending = d.pending
           /\ Oldest(d, status).done = Append(d.done, [irp |-> Head(d.moving), status |-> status])
  <1> DEFINE x == Append(d.done, [irp |-> Head(d.moving), status |-> status])
             y == Tail(d.moving)
  <1>1. Oldest(d, status) = [d EXCEPT !.done = x, !.moving = y]
    BY DEF Oldest
  <1> HIDE DEF x, y
  <1>2. /\ Oldest(d, status).alloc = d.alloc /\ Oldest(d, status).state = d.state
        /\ Oldest(d, status).moving = y /\ Oldest(d, status).pending = d.pending /\ Oldest(d, status).done = x
    BY <1>1 DEF Driver_t
  <1> QED BY <1>2 DEF x, y

\* a transfer ends.
LEMMA DoneKeeps ==
    ASSUME NEW d \in Driver_t, d.state = "ACTIVE", d.moving # << >>
    PROVE  Keeps(d, Filled(Oldest(d, "COMPLETED"))) /\ Filled(Oldest(d, "COMPLETED")).state = "ACTIVE"
           /\ \A error \in Error : Keeps(d, [Oldest(d, error) EXCEPT !.state = "HALTED"])
  <1>1. Oldest(d, "COMPLETED") \in Driver_t
    BY OldestType DEF IrpStatus
  <1>2. \A error \in Error : Oldest(d, error) \in Driver_t
    BY OldestType DEF IrpStatus
  <1>3. Filled(Oldest(d, "COMPLETED")).alloc = d.alloc /\ Filled(Oldest(d, "COMPLETED")).state = d.state
    BY <1>1, FilledFields, OldestFields
  <1>4. ASSUME NEW error \in Error PROVE Keeps(d, [Oldest(d, error) EXCEPT !.state = "HALTED"])
    <2> DEFINE o == Oldest(d, error)
    <2>1. o \in Driver_t /\ o.alloc = d.alloc
      BY <1>2, OldestFields
    <2> HIDE DEF o
    <2>2. [o EXCEPT !.state = "HALTED"].alloc = o.alloc /\ [o EXCEPT !.state = "HALTED"].state = "HALTED"
      BY <2>1 DEF Driver_t
    <2> QED BY <2>1, <2>2 DEF Keeps, o
  <1> QED BY <1>3, <1>4 DEF Keeps

\* Pipes that are whole work on.
PipesMove ==
    /\ UNCHANGED obj
    /\ \A p \in Pipe : Keeps(drv[p], drv'[p]) /\ KeepsTask(task[p], task'[p])
    /\ \A p \in Pipe : Life(p) # "whole" => drv'[p] = drv[p] /\ task'[p] = task[p] /\ evtq'[p] = evtq[p]

\* What the pipes have of their objects stays,
LEMMA MoveOwned ==
    ASSUME Owned, PipesMove, vport'.state = vport.state
    PROVE  Owned'
  <1> SUFFICES ASSUME NEW p \in Pipe PROVE OwnedAt(p)'
    BY DEF Owned
  <1>1. OwnedAt(p)
    BY DEF Owned
  <1> QED BY <1>1 DEF OwnedAt, PipesMove, Keeps, KeepsTask, Life

\* and what the visit says of the objects.
LEMMA MoveObjects ==
    ASSUME TypeOK, ObjectsVisit, PipesMove, vport'.state = vport.state, port_task' = port_task
    PROVE  ObjectsVisit'
  <1>1. Owned'
    BY MoveOwned DEF ObjectsVisit
  <1>2. Pointers' /\ Nested'
    BY DEF ObjectsVisit, Pointers, Nested, PipesMove, Leaving, Life
  <1>3. Invalidated'
    BY HostPipeAssumption DEF ObjectsVisit, Invalidated, PipesMove, Leaving, Keeps, Nested
  <1> QED BY <1>1, <1>2, <1>3 DEF ObjectsVisit

\* One pipe that is whole works on.
OneMoves(p) ==
    /\ UNCHANGED obj /\ Life(p) = "whole"
    /\ Keeps(drv[p], drv'[p]) /\ KeepsTask(task[p], task'[p])
    /\ \A r \in Pipe \ {p} : drv'[r] = drv[r] /\ task'[r] = task[r] /\ evtq'[r] = evtq[r]

\* The others stay as they are.
LEMMA OneMovesAll ==
    ASSUME TypeOK, Owned, NEW p \in Pipe, OneMoves(p)
    PROVE  PipesMove
  BY DEF OneMoves, PipesMove, Keeps, KeepsTask, Owned, OwnedAt

\* The lives of an object.
LEMMA LifeType ==
    ASSUME TypeOK, NEW p \in Pipe
    PROVE  Life(p) \in {"none", "raw", "whole"} /\ obj[p].ptr \in {"null", "set"}
           /\ drv[p] \in Driver_t /\ task[p] \in Task /\ evtq[p] \in Seq(Event)
           /\ DOMAIN drv = Pipe /\ DOMAIN task = Pipe /\ DOMAIN evtq = Pipe /\ DOMAIN obj = Pipe
           /\ DOMAIN addr = Pipe
  BY DEF TypeOK, Object, Life

\* A task that has anything to do belongs to a pipe that is whole.
LEMMA BusyIsWhole ==
    ASSUME TypeOK, Owned, NEW p \in Pipe, task[p].at \notin {"none", "created"}, task[p].at = "blocked" => evtq[p] # << >>
    PROVE  Life(p) = "whole" /\ drv[p].alloc
  <1>1. Life(p) \in {"none", "raw", "whole"}
    BY LifeType
  <1> QED BY <1>1 DEF Owned, OwnedAt

\* A task that goes to another place.
LEMMA GotoFields ==
    ASSUME TypeOK, NEW p \in Pipe, NEW at, Goto(p, at)
    PROVE  /\ task'[p].at = at /\ task'[p].event = task[p].event /\ task'[p].irp = task[p].irp
           /\ \A r \in Pipe \ {p} : task'[r] = task[r]
  <1>1. task \in [Pipe -> Task]
    BY DEF TypeOK
  <1> QED BY <1>1 DEF Goto, Task

\* A request for a pipe that is whole.
LEMMA SubmitFields ==
    ASSUME TypeOK, NEW p \in Pipe, Life(p) = "whole", NEW req \in Irp, SubmitIrp(p, req)
    PROVE  /\ fault' = fault
           /\ \A r \in Pipe \ {p} : drv'[r] = drv[r]
           /\ \/ Accepts(p) /\ drv'[p] = Enqueue(drv[p], req) /\ leaked' = leaked
              \/ ~Accepts(p) /\ drv'[p] = drv[p]
           /\ Keeps(drv[p], drv'[p])
  <1>1. drv \in [Pipe -> Driver_t]
    BY DEF TypeOK
  <1>2. CASE Accepts(p)
    <2>1. drv' = [drv EXCEPT ![p] = Enqueue(drv[p], req)] /\ UNCHANGED <<leaked, fault>>
      BY <1>2 DEF SubmitIrp, Life
    <2>2. drv[p] \in Driver_t /\ drv[p].state = "ACTIVE"
      BY <1>1, <1>2 DEF Accepts
    <2>3. Keeps(drv[p], Enqueue(drv[p], req))
      BY <2>2, EnqueueKeeps
    <2> QED BY <1>1, <1>2, <2>1, <2>3
  <1>3. CASE ~Accepts(p)
    BY <1>3 DEF SubmitIrp, Life, Keeps
  <1> QED BY <1>2, <1>3

\* A command.
LEMMA ResetFields ==
    ASSUME TypeOK, NEW p \in Pipe, reset(p)
    PROVE  /\ \A r \in Pipe \ {p} : drv'[r] = drv[r]
           /\ drv'[p] = IF CanCommand(p) THEN ResetPipe(drv[p]) ELSE drv[p]
           /\ Keeps(drv[p], drv'[p])
  <1>1. drv \in [Pipe -> Driver_t]
    BY DEF TypeOK
  <1>2. CanCommand(p) => Keeps(drv[p], ResetPipe(drv[p]))
    BY <1>1, ResetKeeps DEF CanCommand
  <1> QED BY <1>1, <1>2 DEF reset, Keeps

\* A task takes a message.
LEMMA ReceiveFields ==
    ASSUME TypeOK, NEW p \in Pipe, Receive(p)
    PROVE  /\ \A r \in Pipe \ {p} : drv'[r] = drv[r] /\ task'[r] = task[r] /\ evtq'[r] = evtq[r]
           /\ evtq'[p] = Tail(evtq[p])
           /\ \/ drv[p].done = << >> /\ drv'[p] = drv[p] /\ task'[p] = task[p]
              \/ /\ drv[p].done # << >>
                 /\ drv'[p].done = Tail(drv[p].done) /\ drv'[p].state = drv[p].state
                 /\ drv'[p].moving = drv[p].moving /\ drv'[p].pending = drv[p].pending
                 /\ task'[p] = [at |-> "handle", event |-> Head(evtq[p]), irp |-> Head(drv[p].done)]
           /\ Keeps(drv[p], drv'[p])
  <1>1. drv \in [Pipe -> Driver_t] /\ task \in [Pipe -> Task] /\ evtq \in [Pipe -> Seq(Event)]
    BY DEF TypeOK
  <1>2. evtq' = [evtq EXCEPT ![p] = Tail(@)]
    BY DEF Receive
  <1>3. CASE drv[p].done = << >>
    BY <1>1, <1>2, <1>3 DEF Receive, Keeps
  <1>4. CASE drv[p].done # << >>
    <2> DEFINE x == Tail(drv[p].done)
               u == [at |-> "handle", event |-> Head(evtq[p]), irp |-> Head(drv[p].done)]
    <2>1. drv' = [drv EXCEPT ![p] = [drv[p] EXCEPT !.done = x]] /\ task' = [task EXCEPT ![p] = u]
      BY <1>4 DEF Receive, IrpDequeue
    <2> HIDE DEF x, u
    <2>2. /\ drv'[p].done = x /\ drv'[p].state = drv[p].state /\ drv'[p].alloc = drv[p].alloc
          /\ drv'[p].moving = drv[p].moving /\ drv'[p].pending = drv[p].pending /\ task'[p] = u
          /\ \A r \in Pipe \ {p} : drv'[r] = drv[r] /\ task'[r] = task[r]
      BY <1>1, <2>1 DEF Driver_t
    <2> QED BY <1>1, <1>2, <1>4, <2>2 DEF Keeps, x, u
  <1> QED BY <1>3, <1>4

\* Whatever the task of a pipe does.
LEMMA StepMoves ==
    ASSUME TypeOK, Owned, NEW p \in Pipe, TaskStep(p)
    PROVE  OneMoves(p) /\ fault' = fault
  <1>1. task[p].at \notin {"none", "created"} /\ (task[p].at = "blocked" => evtq[p] # << >>)
    BY DEF TaskStep, Receive, HandleSetAddr, HandleSetAddrEnd, HandleSetConfig, HandleError, HandleOther,
           FreeIrp, Handles, HandlesDone
  <1>2. Life(p) = "whole" /\ drv[p].alloc
    BY <1>1, BusyIsWhole
  <1>3. drv[p] \in Driver_t /\ Keeps(drv[p], drv[p])
    BY LifeType DEF Keeps
  <1>4. CASE Receive(p)
    <2>1. task[p].at = "blocked" /\ UNCHANGED <<obj, fault>>
      BY <1>4 DEF Receive
    <2>0. OwnedAt(p)
      BY DEF Owned
    <2>a. \/ task'[p] = task[p]
          \/ task'[p] = [at |-> "handle", event |-> Head(evtq[p]), irp |-> Head(drv[p].done)]
      BY <1>4, ReceiveFields
    <2>2. KeepsTask(task[p], task'[p])
      BY <2>0, <2>a, <2>1 DEF KeepsTask, OwnedAt
    <2> QED BY <1>2, <1>4, <2>1, <2>2, ReceiveFields DEF OneMoves
  <1>5. ASSUME NEW at \in TaskAt \ {"none", "created", "blocked"}, Goto(p, at), UNCHANGED <<obj, evtq, fault>>,
               \A r \in Pipe \ {p} : drv'[r] = drv[r], Keeps(drv[p], drv'[p])
        PROVE  OneMoves(p) /\ fault' = fault
    BY <1>1, <1>2, <1>5, GotoFields DEF OneMoves, KeepsTask
  <1> DEFINE Places == {"set_config", "class"}
  <1>6. Places \subseteq TaskAt \ {"none", "created", "blocked"}
    BY DEF TaskAt
  <1> HIDE DEF Places
  <1>7. CASE HandleSetAddr(p) \/ HandleOther(p)
    <2>1. UNCHANGED <<drv, obj, evtq, fault>> /\ \E at \in Places : Goto(p, at)
      BY <1>7 DEF HandleSetAddr, HandleOther, Places
    <2> QED BY <1>3, <1>5, <1>6, <2>1
  <1>8. CASE HandleSetAddrEnd(p) \/ HandleSetConfig(p)
    <2>1. PICK req \in {"SET_CFG", "CFG_DESC"} : SubmitIrp(p, req)
      BY <1>8 DEF HandleSetAddrEnd, HandleSetConfig, setConfiguration, getConfigDescriptor
    <2>2. req \in Irp /\ UNCHANGED <<obj, evtq>> /\ \E at \in Places : Goto(p, at)
      BY <1>8, HostPipeAssumption DEF HandleSetAddrEnd, HandleSetConfig, Places
    <2> QED BY <1>2, <1>5, <1>6, <2>1, <2>2, SubmitFields
  <1>9. CASE HandleError(p)
    <2>1. reset(p) /\ UNCHANGED <<obj, evtq, fault>> /\ \E at \in Places : Goto(p, at)
      BY <1>9 DEF HandleError, Places
    <2> QED BY <1>5, <1>6, <2>1, ResetFields
  <1>10. CASE FreeIrp(p)
    <2>1. task' = [task EXCEPT ![p] = TaskIn("blocked")] /\ UNCHANGED <<drv, obj, evtq, fault>>
      BY <1>10 DEF FreeIrp
    <2>2. task'[p] = TaskIn("blocked") /\ \A r \in Pipe \ {p} : task'[r] = task[r]
      BY <2>1, LifeType
    <2> QED BY <1>1, <1>2, <1>3, <2>1, <2>2 DEF OneMoves, KeepsTask, TaskIn
  <1> QED BY <1>4, <1>7, <1>8, <1>9, <1>10 DEF TaskStep

\* Transfers.
LEMMA TransferMoves ==
    ASSUME TypeOK, Owned, NEW p \in Pipe, TransferDone(p) \/ \E event \in ErrorEvent : TransferFailed(p, event)
    PROVE  OneMoves(p) /\ UNCHANGED <<task, fault, leaked, addr>>
  <1>1. drv[p].alloc /\ drv[p].state = "ACTIVE" /\ drv[p].moving # << >> /\ vport.conn_devc_ena
    BY DEF TransferDone, TransferFailed, ChanDone, ChanFailed, OnBus
  <1>2. Life(p) = "whole"
    BY <1>1 DEF Owned, OwnedAt
  <1>3. UNCHANGED <<obj, task, fault, leaked, addr>>
    BY DEF TransferDone, TransferFailed
  <1>4. drv \in [Pipe -> Driver_t] /\ evtq \in [Pipe -> Seq(Event)] /\ drv[p] \in Driver_t
    BY DEF TypeOK
  <1>5. /\ \E event : Posted(p, event)
        /\ \/ drv' = [drv EXCEPT ![p] = Filled(Oldest(@, "COMPLETED"))]
           \/ \E error \in Error : drv' = [drv EXCEPT ![p] = [Oldest(@, error) EXCEPT !.state = "HALTED"]]
    <2>1. CASE TransferDone(p)
      BY <2>1 DEF TransferDone, ChanDone
    <2>2. ASSUME NEW event \in ErrorEvent, TransferFailed(p, event) PROVE <1>5!2 /\ Posted(p, event)
      <3>1. StatusOf[event] \in Error
        BY DEF ErrorEvent, StatusOf, Error
      <3> QED BY <3>1, <2>2 DEF TransferFailed, ChanFailed
    <2> QED BY <2>1, <2>2
  <1>6. \A r \in Pipe \ {p} : drv'[r] = drv[r] /\ evtq'[r] = evtq[r]
    BY <1>4, <1>5 DEF Posted
  <1>7. Keeps(drv[p], drv'[p])
    BY <1>1, <1>4, <1>5, DoneKeeps
  <1>8. KeepsTask(task[p], task'[p])
    BY <1>2, <1>3 DEF KeepsTask, Owned, OwnedAt
  <1> QED BY <1>2, <1>3, <1>6, <1>7, <1>8 DEF OneMoves

\* The objects stay what they are, and the port goes on.
Stays == UNCHANGED <<drv, obj, evtq, task>>

\* The objects stay,
LEMMA OwnedStill ==
    ASSUME Owned, Stays, vport'.state = vport.state \/ vport.state \notin {"ENABLED", "RECOVERY"}
    PROVE  Owned'
  BY DEF Owned, OwnedAt, Stays, Life

Passes(at, next) == port_task.at = at /\ port_task'.at = next /\ port_task'.event = port_task.event

\* and with them what the visit says of them, the port task where it is
LEMMA ObjectsStill ==
    ASSUME TypeOK, ObjectsVisit, Stays, port_task' = port_task,
           \/ vport'.state = vport.state
           \/ vport.state = "RESETTING" /\ vport'.state = "ENABLED"
    PROVE  ObjectsVisit'
  <1>1. Owned'
    BY OwnedStill DEF ObjectsVisit
  <1>2. Pointers' /\ Nested' /\ Invalidated'
    BY DEF ObjectsVisit, Stays, Pointers, Nested, Invalidated, Leaving, Life
  <1> QED BY <1>1, <1>2 DEF ObjectsVisit

\* or going on.
LEMMA ObjectsPass ==
    ASSUME TypeOK, PortVisit, ObjectsVisit, Stays,
           \/ (vport.state = "NOT_POWERED" /\ vport'.state = "DISCONNECTED" /\ port_task.at \in {"none", "power_on"} /\ port_task'.at = "blocked")
           \/ (vport'.state = vport.state /\ port_task.at = "blocked" /\ port_task'.at = "handle")
           \/ (vport'.state = vport.state /\ Coming /\ Passes("handle", "debounce"))
           \/ (vport.state = "DISCONNECTED" /\ vport'.state = "DISABLED" /\ Coming /\ Passes("debounce", "class"))
           \/ (vport.state = "DISABLED" /\ vport'.state = "RESETTING" /\ Coming /\ Passes("class", "reset"))
           \/ (vport'.state = vport.state /\ Coming /\ Passes("reset", "connected"))
           \/ (vport'.state = vport.state /\ Coming /\ Passes("reset", "act"))
           \/ (vport'.state = vport.state /\ Coming /\ Passes("act", "blocked"))
           \/ (vport'.state = vport.state /\ Leaving /\ Passes("act", "free_ctrl"))
           \/ (vport'.state = vport.state /\ Leaving /\ Passes("handle", "class") /\ Existing = {})
           \/ (vport'.state = vport.state /\ Leaving /\ Passes("invalidate", "class") /\ \A p \in Existing : drv[p].state = "INVALID")
           \/ (vport.state = "RECOVERY" /\ vport'.state = "NOT_POWERED" /\ Leaving /\ Passes("recover", "power_on"))
    PROVE  ObjectsVisit'
  <1> USE DEF Coming, Leaving, Passes
  <1>0. "ctrl" \in Pipe /\ \A p \in Pipe : OwnedAt(p)
    BY HostPipeAssumption DEF ObjectsVisit, Owned
  <1>1. CASE vport.state # "RECOVERY" \/ vport'.state # "NOT_POWERED"
    <2>1. Owned'
      BY <1>1, OwnedStill DEF ObjectsVisit, PortVisit, Recovering
    <2>2. Pointers'
      BY DEF ObjectsVisit, Stays, Pointers, Life
    <2>3. Nested'
      <3>1. vport.state \notin {"ENABLED", "RECOVERY"} => Life("ctrl") = "none"
        BY <1>0 DEF OwnedAt
      <3> QED BY <3>1 DEF ObjectsVisit, Stays, Nested, Life
    <2>4. Invalidated'
      BY DEF ObjectsVisit, Stays, Invalidated, Existing
    <2> QED BY <2>1, <2>2, <2>3, <2>4 DEF ObjectsVisit
  <1>2. CASE vport.state = "RECOVERY" /\ vport'.state = "NOT_POWERED"
    <2>1. Leaving /\ port_task.at = "recover" /\ port_task'.at = "power_on" /\ port_task'.event = port_task.event
      BY <1>2
    <2>2. Life("ctrl") = "none" /\ \A p \in Pipe : Life(p) = "none" /\ ~drv[p].alloc
      BY <1>0, <2>1 DEF ObjectsVisit, Nested, DataPipe, OwnedAt
    <2>3. \A p \in Pipe : drv[p].state # "INVALID"
      BY <1>0, <2>2 DEF OwnedAt, NoPipeYet
    <2>4. Owned'
      BY <1>0, <2>2, <2>3 DEF Owned, OwnedAt, Stays, Life
    <2>5. Pointers' /\ Nested' /\ Invalidated'
      BY <1>2, <2>1, <2>2 DEF ObjectsVisit, Stays, Pointers, Nested, Invalidated, Life
    <2> QED BY <2>4, <2>5 DEF ObjectsVisit
  <1> QED BY <1>1, <1>2

\* The rest of a step's pipes.
Rest(p) ==
    \A r \in Pipe \ {p} :
        /\ drv'[r] = drv[r] /\ obj'[r] = obj[r] /\ evtq'[r] = evtq[r]
        /\ task'[r] = task[r] \/ (Life(r) = "whole" /\ KeepsTask(task[r], task'[r]))

\* The other pipes have what they had.
LEMMA RestOwned ==
    ASSUME Owned, NEW p \in Pipe, Rest(p), vport'.state = vport.state, OwnedAt(p)'
    PROVE  Owned'
  <1> SUFFICES ASSUME NEW r \in Pipe \ {p} PROVE OwnedAt(r)'
    BY DEF Owned
  <1>1. OwnedAt(r)
    BY DEF Owned
  <1> QED BY <1>1 DEF OwnedAt, Rest, KeepsTask, Life

\* The driver invalidates a pipe.
LEMMA InvalidateFields ==
    ASSUME TypeOK, NEW p \in Pipe, Invalidate(p)
    PROVE  /\ \A r \in Pipe \ {p} : drv'[r] = drv[r]
           /\ drv'[p].alloc = drv[p].alloc /\ drv'[p].state = "INVALID"
           /\ drv'[p].moving = << >> /\ drv'[p].pending = << >>
           /\ drv'[p].done = Flush(drv[p], "NO_DEVICE").done
  <1>1. drv \in [Pipe -> Driver_t]
    BY DEF TypeOK
  <1> DEFINE f == Flush(drv[p], "NO_DEVICE")
  <1>2. /\ f.alloc = drv[p].alloc /\ f.moving = << >> /\ f.pending = << >>
        /\ f \in [alloc : BOOLEAN, state : {"ACTIVE", "HALTED", "INVALID"},
                  moving : {<< >>}, pending : {<< >>}, done : {f.done}]
    BY <1>1, FlushFields
  <1>3. drv' = [drv EXCEPT ![p] = [f EXCEPT !.state = "INVALID"]]
    BY DEF Invalidate
  <1> HIDE DEF f
  <1>4. /\ [f EXCEPT !.state = "INVALID"].alloc = f.alloc /\ [f EXCEPT !.state = "INVALID"].state = "INVALID"
        /\ [f EXCEPT !.state = "INVALID"].moving = f.moving /\ [f EXCEPT !.state = "INVALID"].pending = f.pending
        /\ [f EXCEPT !.state = "INVALID"].done = f.done
    BY <1>2
  <1>5. drv'[p] = [f EXCEPT !.state = "INVALID"] /\ \A r \in Pipe \ {p} : drv'[r] = drv[r]
    BY <1>1, <1>3
  <1> QED BY <1>2, <1>4, <1>5 DEF f

\* An invalidated pipe is its object's.
LEMMA InvalidateOwned ==
    ASSUME TypeOK, Owned, NEW p \in Existing, Invalidate(p), UNCHANGED <<obj, evtq, task>>,
           vport'.state = vport.state, vport.state = "RECOVERY"
    PROVE  Owned'
  <1>1. p \in Pipe /\ drv[p].alloc
    BY DEF Existing
  <1>2. OwnedAt(p)
    BY <1>1 DEF Owned
  <1>3. OwnedAt(p)'
    BY <1>1, <1>2, InvalidateFields DEF OwnedAt, Life
  <1> QED BY <1>1, <1>3, RestOwned, InvalidateFields DEF Rest

\* A new object, up to its task.
LEMMA NewOwned ==
    ASSUME TypeOK, Owned, NEW p \in Pipe, NewPipe(p), UNCHANGED <<vport, drv, evtq>>, Life(p) = "none",
           vport.state = "ENABLED", task'[p] = TaskIn("created"),
           \A r \in Pipe \ {p} : task'[r] = task[r] \/ (Life(r) = "whole" /\ KeepsTask(task[r], task'[r]))
    PROVE  /\ Owned' /\ fault' = fault /\ (Life(p) = "raw")' /\ evtq'[p] = << >> /\ drv[p] = NoPipeYet
           /\ \A r \in Pipe \ {p} : obj'[r] = obj[r] /\ evtq'[r] = evtq[r]
           /\ obj'[p].ptr = "set"
  <1>2. OwnedAt(p)
    BY DEF Owned
  <1>1. /\ obj'[p] = [ptr |-> "set", life |-> "raw"] /\ evtq'[p] = << >> /\ fault' = fault
        /\ \A r \in Pipe \ {p} : obj'[r] = obj[r] /\ evtq'[r] = evtq[r]
    BY <1>2 DEF NewPipe, TypeOK, Life, OwnedAt
  <1>3. OwnedAt(p)'
    BY <1>1, <1>2 DEF OwnedAt, Life, TaskIn, NoPipeYet
  <1> QED BY <1>1, <1>2, <1>3, RestOwned DEF Rest, Life, OwnedAt

\* Its pipe.
LEMMA AllocOwned ==
    ASSUME TypeOK, Owned, NEW p \in Pipe, NEW a, AllocPipe(p, a), vport.conn_devc_ena,
           UNCHANGED vport, Life(p) = "raw", vport.state = "ENABLED", task'[p] = TaskIn("blocked"),
           \A r \in Pipe \ {p} : task'[r] = task[r] \/ (Life(r) = "whole" /\ KeepsTask(task[r], task'[r]))
    PROVE  /\ Owned' /\ (Life(p) = "whole")'
           /\ drv'[p] = [NoPipeYet EXCEPT !.alloc = TRUE] /\ addr' = [addr EXCEPT ![p] = a]
           /\ \A r \in Pipe \ {p} : obj'[r] = obj[r] /\ drv'[r] = drv[r]
           /\ obj'[p].ptr = obj[p].ptr /\ evtq' = evtq /\ evtq[p] = << >> /\ task[p] = TaskIn("created")
  <1>0. obj[p] \in Object /\ drv \in [Pipe -> Driver_t] /\ obj \in [Pipe -> Object] /\ evtq \in [Pipe -> Seq(Event)]
    BY DEF TypeOK
  <1>1. /\ drv' = [drv EXCEPT ![p] = [NoPipeYet EXCEPT !.alloc = TRUE]]
        /\ obj' = [obj EXCEPT ![p].life = "whole"] /\ addr' = [addr EXCEPT ![p] = a]
    BY DEF AllocPipe, HcdPipeAlloc
  <1>2. OwnedAt(p)
    BY DEF Owned
  <1>3. /\ drv'[p] = [NoPipeYet EXCEPT !.alloc = TRUE] /\ obj'[p].life = "whole" /\ obj'[p].ptr = obj[p].ptr
        /\ \A r \in Pipe \ {p} : obj'[r] = obj[r] /\ drv'[r] = drv[r]
    BY <1>0, <1>1 DEF Object
  <1>4. drv'[p].alloc /\ drv'[p].state = "ACTIVE"
    BY <1>3 DEF NoPipeYet
  <1>6. evtq' = evtq /\ evtq[p] = << >> /\ task[p] = TaskIn("created")
    BY <1>0, <1>2 DEF AllocPipe, OwnedAt
  <1>5. OwnedAt(p)'
    BY <1>2, <1>3, <1>4, <1>6 DEF OwnedAt, Life, TaskIn
  <1> QED BY <1>1, <1>2, <1>3, <1>5, <1>6, RestOwned DEF Rest, Life, OwnedAt

\* Objects that are whole, with pipes that the driver has invalidated.
LEMMA DeleteOwned ==
    ASSUME TypeOK, Owned, NEW S \in SUBSET Pipe, NEW ptr, DeletePipes(S, ptr), UNCHANGED vport,
           \A p \in S : Life(p) = "whole" /\ drv[p].state = "INVALID"
    PROVE  /\ Owned' /\ fault' = fault
           /\ \A p \in S : (Life(p) = "none")' /\ obj'[p].ptr = ptr
           /\ \A p \in Pipe \ S : obj'[p] = obj[p] /\ drv'[p] = drv[p] /\ task'[p] = task[p] /\ evtq'[p] = evtq[p]
  <1>1. /\ drv' = [p \in Pipe |->
                       IF p \notin S THEN drv[p]
                       ELSE IF CanFree(Emptied(drv[p])) THEN NoPipeYet ELSE Emptied(drv[p])]
        /\ obj' = [p \in Pipe |-> IF p \in S THEN [ptr |-> ptr, life |-> "none"] ELSE obj[p]]
        /\ evtq' = [p \in Pipe |-> IF p \in S THEN << >> ELSE evtq[p]]
        /\ task' = [p \in Pipe |-> IF p \in S THEN TaskIn("none") ELSE task[p]]
        /\ fault' = fault
    BY DEF DeletePipes, Life
  <1>2. \A p \in S : OwnedAt(p) /\ CanFree(Emptied(drv[p]))
    <2> TAKE p \in S
    <2>1. drv[p] \in Driver_t /\ OwnedAt(p)
      BY DEF TypeOK, Owned
    <2> QED BY <2>1 DEF OwnedAt, CanFree, Emptied, Driver_t
  <1>3. \A p \in S : drv'[p] = NoPipeYet /\ obj'[p] = [ptr |-> ptr, life |-> "none"] /\ evtq'[p] = << >>
                     /\ task'[p] = TaskIn("none")
    BY <1>1, <1>2
  <1>4. \A p \in Pipe \ S : obj'[p] = obj[p] /\ drv'[p] = drv[p] /\ task'[p] = task[p] /\ evtq'[p] = evtq[p]
    BY <1>1
  <1>5. \A p \in S : OwnedAt(p)'
    BY <1>3 DEF OwnedAt, Life, TaskIn, NoPipeYet
  <1>6. \A p \in Pipe \ S : OwnedAt(p)'
    BY <1>4 DEF Owned, OwnedAt, Life
  <1> QED BY <1>1, <1>3, <1>4, <1>5, <1>6 DEF Owned, Life

-----------------------------------------------------------------------------
(* The loss and the making of objects, on all that the visit says of them  *)

\* The driver tells of the pipes that are gone, one after the other.
LEMMA LostObjects ==
    ASSUME TypeOK, PortVisit, ObjectsVisit, NEW p \in Existing, Invalidate(p),
           UNCHANGED <<obj, evtq, task>>, vport'.state = vport.state, vport.state = "RECOVERY", Leaving,
           port_task.at \in {"handle", "invalidate"},
           port_task' = [port_task EXCEPT !.at = "post", !.cur = p]
    PROVE  ObjectsVisit'
  <1>1. PortType /\ p \in Pipe
    BY TypeParts DEF Existing
  <1>2. port_task'.at = "post" /\ port_task'.event = port_task.event /\ port_task'.cur = p
    BY <1>1 DEF PortType
  <1>3. Owned'
    BY InvalidateOwned DEF ObjectsVisit
  <1>4. drv'[p].state = "INVALID"
    BY <1>1, InvalidateFields
  <1>5. Pointers' /\ Nested'
    BY <1>2 DEF ObjectsVisit, Pointers, Nested, Life, Leaving
  <1>6. Invalidated'
    BY <1>1, <1>2, <1>4 DEF Invalidated
  <1> QED BY <1>3, <1>5, <1>6 DEF ObjectsVisit

\* The message of the loss is sent to the pipe.
LEMMA PostObjects ==
    ASSUME TypeOK, PortVisit, ObjectsVisit, PostInvalid
    PROVE  ObjectsVisit' /\ UNCHANGED <<fault, drv, obj, task, vport, addr, dev_addr, leaked>> /\ Passes("post", "invalidate")
           /\ \A r \in Pipe : evtq'[r] = IF r = port_task.cur THEN Append(evtq[r], "INVALID") ELSE evtq[r]
  <1>1. PortType /\ evtq \in [Pipe -> Seq(Event)]
    BY TypeParts DEF TypeOK
  <1> DEFINE c == port_task.cur
  <1>2. /\ port_task.at = "post" /\ evtq' = [evtq EXCEPT ![c] = Append(@, "INVALID")]
        /\ port_task' = [port_task EXCEPT !.at = "invalidate"]
        /\ UNCHANGED <<fault, drv, obj, task, vport, addr, dev_addr, leaked>>
    BY DEF PostInvalid, PortGoto, viewVars
  <1>3. port_task'.at = "invalidate" /\ port_task'.event = port_task.event /\ port_task'.cur = c
    BY <1>1, <1>2 DEF PortType
  <1>4. c \in Pipe /\ drv[c].state = "INVALID"
    BY <1>2 DEF ObjectsVisit, Invalidated
  <1>5. \A r \in Pipe : evtq'[r] = IF r = c THEN Append(evtq[r], "INVALID") ELSE evtq[r]
    BY <1>1, <1>2, <1>4
  <1>6. OwnedAt(c)
    BY <1>4 DEF ObjectsVisit, Owned
  <1>7. Life(c) = "whole"
    BY <1>4, <1>6 DEF OwnedAt, NoPipeYet
  <1>8. OwnedAt(c)'
    BY <1>2, <1>6, <1>7 DEF OwnedAt, Life
  <1>9. \A r \in Pipe \ {c} : OwnedAt(r)'
    BY <1>2, <1>5 DEF ObjectsVisit, Owned, OwnedAt, Life
  <1>10. Pointers' /\ Nested' /\ Invalidated'
    BY <1>2, <1>3 DEF ObjectsVisit, Pointers, Nested, Invalidated, Life, Leaving
  <1> QED BY <1>2, <1>3, <1>5, <1>8, <1>9, <1>10 DEF ObjectsVisit, Passes, Owned

\* A control pipe is made.
LEMMA CtrlObjects ==
    ASSUME "in" \in DataPipe, TypeOK, PortInv, PortVisit, ObjectsVisit, addCTRLpipe
    PROVE  ObjectsVisit' /\ fault' = fault /\ Passes("connected", "alloc_pipe")
           /\ UNCHANGED <<vport, drv, evtq, addr, dev_addr, leaked>> /\ drv["ctrl"] = NoPipeYet
           /\ task'["ctrl"] = TaskIn("created") /\ evtq'["ctrl"] = << >> /\ (Life("ctrl") = "raw")'
           /\ \A r \in DataPipe : obj'[r] = obj[r] /\ evtq'[r] = evtq[r] /\ task'[r] = task[r]
  <1>0. "ctrl" \in Pipe /\ PortType /\ task \in [Pipe -> Task]
    BY HostPipeAssumption, TypeParts DEF TypeOK
  <1>1. port_task.at = "connected" /\ Coming /\ vport.state = "ENABLED" /\ vport.conn_devc_ena /\ Life("ctrl") = "none"
    BY ComingInReset DEF addCTRLpipe, PortVisit, Connecting, Hardware, ObjectsVisit, Nested
  <1>2. /\ NewPipe("ctrl") /\ task' = [task EXCEPT !["ctrl"] = TaskIn("created")]
        /\ port_task' = [port_task EXCEPT !.at = "alloc_pipe"]
        /\ UNCHANGED <<vport, drv, evtq, addr, dev_addr, leaked>>
    BY <1>1 DEF addCTRLpipe, StartTask, PortGoto, viewVars
  <1>3. port_task'.at = "alloc_pipe" /\ port_task'.event = port_task.event
    BY <1>0, <1>2 DEF PortType
  <1>4. task'["ctrl"] = TaskIn("created") /\ \A r \in Pipe \ {"ctrl"} : task'[r] = task[r]
    BY <1>0, <1>2
  <1>5. /\ Owned' /\ fault' = fault /\ (Life("ctrl") = "raw")' /\ evtq'["ctrl"] = << >> /\ drv["ctrl"] = NoPipeYet
        /\ obj'["ctrl"].ptr = "set" /\ \A r \in Pipe \ {"ctrl"} : obj'[r] = obj[r] /\ evtq'[r] = evtq[r]
    BY <1>0, <1>1, <1>2, <1>4, NewOwned DEF ObjectsVisit
  <1>6. \A p \in DataPipe : obj'[p] = obj[p] /\ Life(p) = "none"
    BY <1>1, <1>5 DEF ObjectsVisit, Nested, DataPipe
  <1>a. Pointers'
    BY <1>1, <1>2, <1>3, <1>5, <1>6 DEF Pointers, Life
  <1>b. Nested'
    BY <1>1, <1>2, <1>3, <1>5, <1>6 DEF ObjectsVisit, Nested, Life, Leaving, Coming, DataPipe
  <1>c. Invalidated'
    BY <1>1, <1>3 DEF Invalidated, Leaving, Coming
  <1> QED BY <1>1, <1>2, <1>3, <1>4, <1>5, <1>a, <1>b, <1>c DEF ObjectsVisit, Passes, DataPipe

\* The driver's part of the control pipe.
LEMMA CtrlEndObjects ==
    ASSUME "in" \in DataPipe, TypeOK, PortInv, PortVisit, ObjectsVisit, addCTRLpipeEnd
    PROVE  ObjectsVisit' /\ UNCHANGED <<fault, vport, evtq, dev_addr, leaked>> /\ Passes("alloc_pipe", "get_desc")
           /\ drv'["ctrl"] = [NoPipeYet EXCEPT !.alloc = TRUE] /\ task'["ctrl"] = TaskIn("blocked") /\ evtq["ctrl"] = << >>
           /\ task["ctrl"] = TaskIn("created")
           /\ (\A r \in DataPipe : task'[r] = task[r])
           /\ addr' = [addr EXCEPT !["ctrl"] = 0] /\ (Life("ctrl") = "whole")' /\ Life("in") = "none"
           /\ \A r \in DataPipe : obj'[r] = obj[r] /\ drv'[r] = drv[r]
  <1>0. "ctrl" \in Pipe /\ PortType /\ task \in [Pipe -> Task]
    BY HostPipeAssumption, TypeParts DEF TypeOK
  <1>1. port_task.at = "alloc_pipe" /\ Coming /\ vport.state = "ENABLED" /\ vport.conn_devc_ena /\ Life("ctrl") = "raw"
    BY ComingInReset DEF addCTRLpipeEnd, PortVisit, Connecting, Hardware, ObjectsVisit, Pointers
  <1>2. /\ AllocPipe("ctrl", 0) /\ UNCHANGED <<fault, vport, dev_addr, leaked>>
        /\ task' = [task EXCEPT !["ctrl"] = TaskIn("blocked")] /\ port_task' = [port_task EXCEPT !.at = "get_desc"]
    BY <1>1 DEF addCTRLpipeEnd, QueueTask, PortGoto
  <1>4. task'["ctrl"] = TaskIn("blocked") /\ \A r \in Pipe \ {"ctrl"} : task'[r] = task[r]
    BY <1>0, <1>2
  <1>3. port_task'.at = "get_desc" /\ port_task'.event = port_task.event
    BY <1>0, <1>2 DEF PortType
  <1>5. /\ Owned' /\ (Life("ctrl") = "whole")'
        /\ drv'["ctrl"] = [NoPipeYet EXCEPT !.alloc = TRUE] /\ addr' = [addr EXCEPT !["ctrl"] = 0]
        /\ \A r \in Pipe \ {"ctrl"} : obj'[r] = obj[r] /\ drv'[r] = drv[r]
        /\ obj'["ctrl"].ptr = obj["ctrl"].ptr /\ evtq["ctrl"] = << >> /\ evtq' = evtq
        /\ task["ctrl"] = TaskIn("created")
    BY <1>0, <1>1, <1>2, <1>4, AllocOwned DEF ObjectsVisit
  <1>6. \A p \in DataPipe : obj'[p] = obj[p] /\ Life(p) = "none"
    BY <1>1, <1>5 DEF ObjectsVisit, Nested, DataPipe
  <1>a. Pointers'
    BY <1>1, <1>2, <1>3, <1>5, <1>6 DEF Pointers, Life
  <1>b. Nested' /\ Life("in") = "none"
    BY <1>1, <1>2, <1>3, <1>5, <1>6 DEF ObjectsVisit, Nested, Life, Leaving, Coming, DataPipe
  <1>c. Invalidated'
    BY <1>1, <1>3 DEF Invalidated, Leaving, Coming
  <1> QED BY <1>1, <1>2, <1>3, <1>4, <1>5, <1>a, <1>b, <1>c DEF ObjectsVisit, Passes, DataPipe

\* The port's requests on the control pipe.
LEMMA RequestObjects ==
    ASSUME TypeOK, PortInv, PortVisit, ObjectsVisit, NEW req \in Irp, SubmitIrp("ctrl", req),
           UNCHANGED <<vport, obj, evtq, task>>, NEW next,
           port_task' = [port_task EXCEPT !.at = next],
           (port_task.at = "get_desc" /\ next = "set_addr") \/ (port_task.at = "set_addr" /\ next = "act")
    PROVE  ObjectsVisit' /\ fault' = fault /\ Passes(port_task.at, next) /\ Life("ctrl") = "whole" /\ Coming
           /\ vport.state = "ENABLED"
  <1>0. "ctrl" \in Pipe /\ PortType
    BY HostPipeAssumption, TypeParts
  <1>1. Coming /\ vport.state = "ENABLED" /\ Life("ctrl") = "whole"
    BY ComingInReset DEF PortVisit, Connecting, ObjectsVisit, Nested
  <1>2. port_task'.at = next /\ port_task'.event = port_task.event
    BY <1>0 DEF PortType
  <1>3. PipesMove
    <2>1. OneMoves("ctrl")
      BY <1>0, <1>1, SubmitFields DEF OneMoves, KeepsTask, ObjectsVisit, Owned, OwnedAt
    <2> QED BY <1>0, <2>1, OneMovesAll DEF ObjectsVisit
  <1>4. Owned' /\ fault' = fault
    BY <1>0, <1>1, <1>3, MoveOwned, SubmitFields DEF ObjectsVisit
  <1>5. Pointers' /\ Nested' /\ Invalidated'
    BY <1>1, <1>2 DEF ObjectsVisit, Pointers, Nested, Invalidated, Life, Leaving, Coming
  <1> QED BY <1>1, <1>2, <1>4, <1>5 DEF ObjectsVisit, Passes

\* The class driver deletes its data pipes.
LEMMA DataLostObjects ==
    ASSUME "in" \in DataPipe, TypeOK, PortVisit, ObjectsVisit, NEW S \in SUBSET DataPipe, DeletePipes(S, "set"),
           UNCHANGED vport, port_task.at = "class", Leaving, port_task' = [port_task EXCEPT !.at = "act"],
           \A p \in S : obj[p].ptr = "set", \A p \in DataPipe \ S : Life(p) = "none"
    PROVE  ObjectsVisit' /\ fault' = fault /\ Passes("class", "act")
           /\ (\A p \in DataPipe : Life(p) = "none")'
           /\ \A p \in Pipe \ S : obj'[p] = obj[p] /\ drv'[p] = drv[p] /\ task'[p] = task[p] /\ evtq'[p] = evtq[p]
  <1>0. S \in SUBSET Pipe /\ "ctrl" \in Pipe \ S /\ PortType
    BY HostPipeAssumption, TypeParts DEF DataPipe
  <1>1. port_task'.at = "act" /\ port_task'.event = port_task.event
    BY <1>0 DEF PortType
  <1>2. vport.state = "RECOVERY"
    BY DEF PortVisit, Handling, Coming, Leaving
  <1>3. \A p \in S : Life(p) = "whole"
    BY <1>2 DEF ObjectsVisit, Pointers
  <1>4. \A p \in S : drv[p].state = "INVALID"
    BY <1>0, <1>3 DEF ObjectsVisit, Owned, OwnedAt, Invalidated
  <1> DEFINE set == "set"
  <1>5. DeletePipes(S, set)
    OBVIOUS
  <1> HIDE DEF set
  <1>6. /\ Owned' /\ fault' = fault /\ \A p \in S : (Life(p) = "none")' /\ obj'[p].ptr = set
        /\ \A p \in Pipe \ S : obj'[p] = obj[p] /\ drv'[p] = drv[p] /\ task'[p] = task[p] /\ evtq'[p] = evtq[p]
    BY <1>0, <1>3, <1>4, <1>5, DeleteOwned DEF ObjectsVisit
  <1>7. \A p \in DataPipe : obj'[p].life = "none"
    BY <1>6 DEF Life, DataPipe
  <1>8. obj'["ctrl"] = obj["ctrl"] /\ drv'["ctrl"] = drv["ctrl"]
    BY <1>0, <1>6
  <1>9. Pointers' /\ Nested'
    BY <1>1, <1>2, <1>7, <1>8 DEF ObjectsVisit, Pointers, Nested, Life, Leaving, Coming
  <1>10. Invalidated'
    BY <1>0, <1>1, <1>6, <1>7, <1>8 DEF ObjectsVisit, Invalidated, Owned, OwnedAt, Life, DataPipe, Leaving
  <1> QED BY <1>1, <1>6, <1>7, <1>9, <1>10 DEF ObjectsVisit, Passes, Life

\* The port deletes the control pipe.
LEMMA CtrlLostObjects ==
    ASSUME "in" \in DataPipe, TypeOK, PortInv, PortVisit, ObjectsVisit, freeCTRLpipe
    PROVE  ObjectsVisit' /\ fault' = fault /\ Passes("free_ctrl", "recover") /\ UNCHANGED <<vport, addr, dev_addr>>
           /\ (\A p \in DataPipe : obj'[p] = obj[p] /\ drv'[p] = drv[p] /\ task'[p] = task[p] /\ evtq'[p] = evtq[p])
           /\ (Life("ctrl") = "none")' /\ \A p \in DataPipe : Life(p) = "none"
  <1>0. "ctrl" \in Pipe /\ PortType
    BY HostPipeAssumption, TypeParts
  <1>1. /\ port_task.at = "free_ctrl" /\ port_task' = [port_task EXCEPT !.at = "recover"]
        /\ UNCHANGED <<vport, addr, dev_addr>>
        /\ Leaving /\ vport.state = "RECOVERY"
    BY ComingInReset DEF freeCTRLpipe, PortGoto, PortVisit, Recovering
  <1>2. port_task'.at = "recover" /\ port_task'.event = port_task.event
    BY <1>0, <1>1 DEF PortType
  <1>3. \A p \in DataPipe : Life(p) = "none"
    BY <1>1 DEF ObjectsVisit, Nested
  <1>4. OwnedAt("ctrl")
    BY <1>0 DEF ObjectsVisit, Owned
  <1>5. CASE obj["ctrl"].ptr = "null"
    <2>1. Life("ctrl") = "none" /\ Stays /\ fault' = fault
      BY <1>4, <1>5 DEF OwnedAt, freeCTRLpipe, Stays
    <2>2. Owned'
      BY <1>1, <2>1, OwnedStill DEF ObjectsVisit
    <2>3. Pointers' /\ Nested'
      BY <1>1, <1>2, <1>3, <2>1 DEF ObjectsVisit, Pointers, Nested, Life, Stays, Leaving
    <2> QED BY <1>1, <1>2, <1>3, <2>1, <2>2, <2>3 DEF ObjectsVisit, Invalidated, Passes, Stays, Life
  <1>6. CASE obj["ctrl"].ptr # "null"
    <2>0. obj["ctrl"].ptr = "set" /\ Life("ctrl") \in {"none", "raw", "whole"}
      BY <1>0, <1>6, LifeType
    <2>1. Life("ctrl") = "whole" /\ drv["ctrl"].state = "INVALID"
      BY <1>0, <1>1, <1>4, <2>0 DEF ObjectsVisit, Pointers, Invalidated, OwnedAt
    <2> DEFINE null == "null"
               C == {"ctrl"}
    <2>2. DeletePipes(C, null)
      BY <1>6 DEF freeCTRLpipe
    <2>a. C \in SUBSET Pipe /\ \A p \in C : Life(p) = "whole" /\ drv[p].state = "INVALID"
      BY <1>0, <2>1
    <2>b. "ctrl" \in C /\ \A p \in DataPipe : p \in Pipe \ C
      BY DEF DataPipe
    <2> HIDE DEF null, C
    <2>3. /\ Owned' /\ fault' = fault /\ \A p \in C : (Life(p) = "none")' /\ obj'[p].ptr = null
          /\ \A p \in Pipe \ C : obj'[p] = obj[p] /\ drv'[p] = drv[p] /\ task'[p] = task[p] /\ evtq'[p] = evtq[p]
      BY <1>1, <2>2, <2>a, DeleteOwned DEF ObjectsVisit
    <2>4. obj'["ctrl"].life = "none" /\ obj'["ctrl"].ptr = "null"
      BY <2>3, <2>b DEF Life, null
    <2>5. \A p \in DataPipe : obj'[p] = obj[p] /\ drv'[p] = drv[p] /\ task'[p] = task[p] /\ evtq'[p] = evtq[p]
      BY <2>3, <2>b
    <2>6. Pointers' /\ Nested'
      BY <1>1, <1>2, <1>3, <2>4, <2>5 DEF ObjectsVisit, Pointers, Nested, Life, Leaving
    <2> QED BY <1>1, <1>2, <1>3, <2>3, <2>4, <2>5, <2>6 DEF ObjectsVisit, Invalidated, Passes, Life
  <1> QED BY <1>5, <1>6

\* begin makes a data pipe: the object, with its task,
LEMMA NewDataObjects ==
    ASSUME "in" \in DataPipe, TypeOK, PortVisit, ObjectsVisit, PortBlocked, NEW p \in DataPipe, NewPipe(p),
           UNCHANGED <<vport, drv, evtq, port_task>>, Life(p) = "none", vport.state = "ENABLED",
           Life("ctrl") = "whole", p # "in" => Life("in") # "none",
           task'[p] = TaskIn("created"), task["ctrl"].at \notin {"none", "created", "blocked"},
           task'["ctrl"].at \notin {"none", "created", "blocked"},
           \A r \in DataPipe \ {p} : task'[r] = task[r]
    PROVE  ObjectsVisit' /\ fault' = fault /\ (Life(p) = "raw")' /\ evtq'[p] = << >> /\ drv[p] = NoPipeYet
           /\ (\A r \in Pipe \ {p} : obj'[r] = obj[r] /\ evtq'[r] = evtq[r]) /\ obj'[p].ptr = "set"
  <1>0. "ctrl" \in Pipe /\ p \in Pipe /\ p # "ctrl"
    BY HostPipeAssumption DEF DataPipe
  <1>1. \A r \in Pipe \ {p} : task'[r] = task[r] \/ (Life(r) = "whole" /\ KeepsTask(task[r], task'[r]))
    BY DEF DataPipe, KeepsTask
  <1>2. /\ Owned' /\ fault' = fault /\ (Life(p) = "raw")' /\ evtq'[p] = << >> /\ drv[p] = NoPipeYet
        /\ (\A r \in Pipe \ {p} : obj'[r] = obj[r] /\ evtq'[r] = evtq[r]) /\ obj'[p].ptr = "set"
    BY <1>0, <1>1, NewOwned DEF ObjectsVisit
  <1>3. Pointers'
    BY <1>0, <1>2 DEF ObjectsVisit, Pointers, Life
  <1>a. obj'["ctrl"] = obj["ctrl"] /\ (\A r \in DataPipe \ {p} : obj'[r] = obj[r]) /\ obj'[p].life = "raw"
    BY <1>0, <1>2 DEF DataPipe, Life
  <1>b. obj'["in"].life # "none"
    BY <1>a DEF Life
  <1>c. port_task.at \notin {"connected", "alloc_pipe", "get_desc", "set_addr", "recover", "act", "free_ctrl"}
    BY DEF PortBlocked
  <1>4. Nested'
    BY <1>a, <1>b, <1>c DEF ObjectsVisit, Nested, Life
  <1>5. Invalidated'
    BY DEF ObjectsVisit, Invalidated, Leaving
  <1> QED BY <1>2, <1>3, <1>4, <1>5 DEF ObjectsVisit

\* and its driver's part.
LEMMA AllocDataObjects ==
    ASSUME "in" \in DataPipe, TypeOK, PortVisit, ObjectsVisit, PortBlocked, NEW p \in DataPipe, NEW a, AllocPipe(p, a),
           UNCHANGED <<vport, port_task>>, Life(p) = "raw", vport.state = "ENABLED",
           task'[p] = TaskIn("blocked"), task["ctrl"].at \notin {"none", "created", "blocked"},
           task'["ctrl"].at \notin {"none", "created", "blocked"},
           \A r \in DataPipe \ {p} : task'[r] = task[r]
    PROVE  ObjectsVisit' /\ (Life(p) = "whole")'
           /\ drv'[p] = [NoPipeYet EXCEPT !.alloc = TRUE] /\ addr' = [addr EXCEPT ![p] = a]
           /\ (\A r \in Pipe \ {p} : obj'[r] = obj[r] /\ drv'[r] = drv[r])
           /\ obj'[p].ptr = obj[p].ptr /\ evtq' = evtq /\ evtq[p] = << >> /\ task[p] = TaskIn("created")
  <1>0. "ctrl" \in Pipe /\ p \in Pipe /\ p # "ctrl" /\ vport.conn_devc_ena
    BY HostPipeAssumption DEF DataPipe, PortVisit, Hardware
  <1>x. Life("ctrl") = "whole"
    BY DEF ObjectsVisit, Nested
  <1>1. \A r \in Pipe \ {p} : task'[r] = task[r] \/ (Life(r) = "whole" /\ KeepsTask(task[r], task'[r]))
    BY <1>x DEF DataPipe, KeepsTask
  <1>2. /\ Owned' /\ (Life(p) = "whole")'
        /\ drv'[p] = [NoPipeYet EXCEPT !.alloc = TRUE] /\ addr' = [addr EXCEPT ![p] = a]
        /\ (\A r \in Pipe \ {p} : obj'[r] = obj[r] /\ drv'[r] = drv[r])
        /\ obj'[p].ptr = obj[p].ptr /\ evtq' = evtq /\ evtq[p] = << >> /\ task[p] = TaskIn("created")
    BY <1>0, <1>1, AllocOwned DEF ObjectsVisit
  <1>3. Pointers'
    BY <1>0, <1>2 DEF ObjectsVisit, Pointers, Life
  <1>a. obj'["ctrl"] = obj["ctrl"] /\ (\A r \in DataPipe \ {p} : obj'[r] = obj[r]) /\ obj'[p].life = "whole"
    BY <1>0, <1>2 DEF DataPipe, Life
  <1>b. \A r \in DataPipe : obj'[r].life = "none" <=> Life(r) = "none"
    BY <1>a DEF Life
  <1>4. Nested'
    <2>1. \A r \in DataPipe : obj'[r].life # "none" => obj'["ctrl"].life = "whole" /\ obj'["in"].life # "none"
      BY <1>x, <1>a, <1>b DEF ObjectsVisit, Nested, Life
    <2>2. port_task' = port_task /\ obj'["ctrl"].life = obj["ctrl"].life /\ (obj'["in"].life = "none" <=> obj["in"].life = "none")
      BY <1>a, <1>b DEF Life
    <2> QED BY <2>1, <2>2 DEF ObjectsVisit, Nested, Life, Leaving
  <1>c. port_task.at \notin {"class", "act", "free_ctrl"}
    BY DEF PortBlocked
  <1>5. Invalidated'
    <2>1. drv[p].state # "INVALID"
      BY <1>0 DEF ObjectsVisit, Owned, OwnedAt
    <2> QED BY <1>0, <1>2, <1>c, <2>1 DEF ObjectsVisit, Invalidated
  <1> QED BY <1>2, <1>3, <1>4, <1>5 DEF ObjectsVisit

-----------------------------------------------------------------------------
(* The requests of a pipe, in their order                                  *)

Names(done) == [k \in 1 .. Len(done) |-> done[k].irp]

\* What the IRPs that are done are named after.
LEMMA NamesType ==
    ASSUME NEW done \in Seq(IrpDone)
    PROVE  Names(done) \in Seq(Irp) /\ Len(Names(done)) = Len(done)
           /\ \A k \in 1 .. Len(done) : Names(done)[k] = done[k].irp
  <1>1. \A k \in 1 .. Len(done) : done[k].irp \in Irp
    <2> TAKE k \in 1 .. Len(done)
    <2>1. done[k] \in IrpDone
      BY ElementOfSeq
    <2> QED BY <2>1 DEF IrpDone
  <1>2. Len(done) \in Nat
    OBVIOUS
  <1> QED BY <1>1, <1>2 DEF Names

\* The requests of a pipe are requests.
LEMMA RequestsType ==
    ASSUME NEW d \in Driver_t
    PROVE  /\ Requests(d) = Names(d.done) \o d.moving \o d.pending
           /\ Requests(d) = Names(d.done) \o (d.moving \o d.pending)
           /\ Requests(d) \in Seq(Irp) /\ Names(d.done) \in Seq(Irp)
           /\ d.moving \o d.pending \in Seq(Irp)
  <1>1. Names(d.done) \in Seq(Irp) /\ d.moving \in Seq(Irp) /\ d.pending \in Seq(Irp)
    BY DriverFields, NamesType
  <1>2. Requests(d) = Names(d.done) \o d.moving \o d.pending
    BY DEF Requests, Names
  <1>3. Names(d.done) \o (d.moving \o d.pending) = Names(d.done) \o d.moving \o d.pending
    <2> DEFINE a == Names(d.done)
               b == d.moving
               c == d.pending
    <2>1. a \in Seq(Irp) /\ b \in Seq(Irp) /\ c \in Seq(Irp)
      BY <1>1
    <2> HIDE DEF a, b, c
    <2>2. (a \o b) \o c = a \o (b \o c)
      BY <2>1, ConcatAssociative
    <2> QED BY <2>2 DEF a, b, c
  <1>4. d.moving \o d.pending \in Seq(Irp) /\ Names(d.done) \o (d.moving \o d.pending) \in Seq(Irp)
    BY <1>1
  <1> QED BY <1>1, <1>2, <1>3, <1>4

\* An IRP goes to the end of the queue, and one that ends stays where it is.
LEMMA NamesAppend ==
    ASSUME NEW done \in Seq(IrpDone), NEW x \in IrpDone
    PROVE  Names(Append(done, x)) = Append(Names(done), x.irp)
  <1> DEFINE a == Append(done, x)
             n == Names(done)
             m == Names(a)
             i == x.irp
  <1>1. i \in Irp
    BY DEF IrpDone
  <1>2. a \in Seq(IrpDone) /\ Len(a) = Len(done) + 1 /\ Len(done) \in Nat
        /\ (\A k \in 1 .. Len(done) : a[k] = done[k]) /\ a[Len(done) + 1] = x
    BY AppendProperties
  <1>3. n \in Seq(Irp) /\ Len(n) = Len(done) /\ \A k \in 1 .. Len(done) : n[k] = done[k].irp
    BY NamesType
  <1>4. m \in Seq(Irp) /\ Len(m) = Len(a) /\ \A k \in 1 .. Len(a) : m[k] = a[k].irp
    BY <1>2, NamesType
  <1>5. a[Len(done) + 1].irp = i
    BY <1>2
  <1> HIDE DEF a, n, m, i
  <1>6. /\ Append(n, i) \in Seq(Irp) /\ Len(Append(n, i)) = Len(n) + 1
        /\ \A k \in 1 .. Len(n) : Append(n, i)[k] = n[k]
        /\ Append(n, i)[Len(n) + 1] = i
    BY <1>1, <1>3, AppendProperties
  <1>7. ASSUME NEW k \in 1 .. Len(m) PROVE m[k] = Append(n, i)[k]
    <2>1. k \in 1 .. Len(done) \/ k = Len(done) + 1
      BY <1>2, <1>4
    <2> QED BY <1>2, <1>3, <1>4, <1>5, <1>6, <2>1
  <1>8. m = Append(n, i)
    BY <1>2, <1>3, <1>4, <1>6, <1>7, SeqEqual
  <1> QED BY <1>8 DEF m, n, a, i

\* A sequence that moves from one queue to the next is still in the row.
LEMMA NamesConcat ==
    ASSUME NEW done \in Seq(IrpDone), NEW more \in Seq(IrpDone)
    PROVE  Names(done \o more) = Names(done) \o Names(more)
  <1> DEFINE a == done \o more
             n == Names(done)
             r == Names(more)
             m == Names(a)
  <1>2. a \in Seq(IrpDone) /\ Len(a) = Len(done) + Len(more) /\ Len(done) \in Nat /\ Len(more) \in Nat
        /\ \A k \in 1 .. Len(done) + Len(more) : a[k] = IF k <= Len(done) THEN done[k] ELSE more[k - Len(done)]
    BY ConcatProperties
  <1>3. n \in Seq(Irp) /\ Len(n) = Len(done) /\ \A k \in 1 .. Len(done) : n[k] = done[k].irp
    BY NamesType
  <1>b. r \in Seq(Irp) /\ Len(r) = Len(more) /\ \A k \in 1 .. Len(more) : r[k] = more[k].irp
    BY NamesType
  <1>4. m \in Seq(Irp) /\ Len(m) = Len(a) /\ \A k \in 1 .. Len(a) : m[k] = a[k].irp
    BY <1>2, NamesType
  <1> HIDE DEF a, n, m, r
  <1>6. /\ n \o r \in Seq(Irp) /\ Len(n \o r) = Len(n) + Len(r)
        /\ \A k \in 1 .. Len(n) + Len(r) : (n \o r)[k] = IF k <= Len(n) THEN n[k] ELSE r[k - Len(n)]
    BY <1>3, <1>b, ConcatProperties
  <1>7. ASSUME NEW k \in 1 .. Len(m) PROVE m[k] = (n \o r)[k]
    <2>1. CASE k <= Len(done)
      BY <1>2, <1>3, <1>b, <1>4, <1>6, <2>1
    <2>2. CASE ~(k <= Len(done))
      <3>1. k - Len(done) \in 1 .. Len(more)
        BY <1>2, <1>4, <2>2
      <3> QED BY <1>2, <1>3, <1>b, <1>4, <1>6, <2>2, <3>1
    <2> QED BY <2>1, <2>2
  <1>8. m = n \o r
    BY <1>2, <1>3, <1>b, <1>4, <1>6, <1>7, SeqEqual
  <1> QED BY <1>8 DEF m, n, a, r

\* The oldest IRP leaves.
LEMMA NamesTail ==
    ASSUME NEW done \in Seq(IrpDone), done # << >>
    PROVE  Names(Tail(done)) = Tail(Names(done)) /\ Head(Names(done)) = Head(done).irp /\ Names(done) # << >>
           /\ Names(Tail(done)) \in Seq(Irp)
  <1> DEFINE a == Tail(done)
             n == Names(done)
             m == Names(a)
  <1>2. a \in Seq(IrpDone) /\ Len(a) = Len(done) - 1 /\ Len(done) \in Nat \ {0} /\ Head(done) = done[1]
        /\ \A k \in 1 .. Len(a) : a[k] = done[k + 1]
    BY HeadTailProperties
  <1>3. n \in Seq(Irp) /\ Len(n) = Len(done) /\ \A k \in 1 .. Len(done) : n[k] = done[k].irp
    BY NamesType
  <1>4. m \in Seq(Irp) /\ Len(m) = Len(a) /\ \A k \in 1 .. Len(a) : m[k] = a[k].irp
    BY <1>2, NamesType
  <1> HIDE DEF a, n, m
  <1>5. n # << >>
    BY <1>2, <1>3
  <1>6. /\ Tail(n) \in Seq(Irp) /\ Len(Tail(n)) = Len(n) - 1 /\ Head(n) = n[1]
        /\ \A k \in 1 .. Len(Tail(n)) : Tail(n)[k] = n[k + 1]
    BY <1>3, <1>5, HeadTailProperties
  <1>7. ASSUME NEW k \in 1 .. Len(m) PROVE m[k] = Tail(n)[k]
    <2>1. k \in 1 .. Len(a) /\ k + 1 \in 1 .. Len(done) /\ k \in 1 .. Len(Tail(n))
      BY <1>2, <1>3, <1>4, <1>6
    <2> QED BY <1>2, <1>3, <1>4, <1>6, <2>1
  <1>8. m = Tail(n)
    BY <1>2, <1>3, <1>4, <1>6, <1>7, SeqEqual
  <1>9. Head(n) = Head(done).irp
    BY <1>2, <1>3, <1>6
  <1> QED BY <1>4, <1>5, <1>8, <1>9 DEF m, n, a

\* An IRP ends, with any status.
LEMMA NamesEndWith ==
    ASSUME NEW irps \in Seq(Irp), NEW status \in IrpStatus
    PROVE  Names(EndWith(irps, status)) = irps /\ EndWith(irps, status) \in Seq(IrpDone)
  <1> DEFINE e == EndWith(irps, status)
             n == Names(e)
  <1>1. e \in Seq(IrpDone) /\ Len(e) = Len(irps)
        /\ \A k \in 1 .. Len(irps) : e[k] = [irp |-> irps[k], status |-> status]
    BY DEF EndWith, IrpDone, IrpStatus
  <1>2. n \in Seq(Irp) /\ Len(n) = Len(e) /\ \A k \in 1 .. Len(e) : n[k] = e[k].irp
    BY <1>1, NamesType
  <1> HIDE DEF e, n
  <1>3. ASSUME NEW k \in 1 .. Len(irps) PROVE n[k] = irps[k]
    <2>a. e[k] = [irp |-> irps[k], status |-> status]
      BY <1>1
    <2>1. e[k].irp = irps[k]
      BY <2>a
    <2> QED BY <1>1, <1>2, <2>1
  <1>4. n = irps
    BY <1>1, <1>2, <1>3, SeqEqual
  <1> QED BY <1>1, <1>4 DEF n, e

\* A sequence is its head and its tail.
LEMMA HeadTailConcat ==
    ASSUME NEW s \in Seq(Irp), NEW t \in Seq(Irp), s # << >>
    PROVE  Tail(s \o t) = Tail(s) \o t /\ Head(s \o t) = Head(s) /\ s \o t # << >>
           /\ s \o t = <<Head(s)>> \o (Tail(s) \o t)
           /\ <<Head(s)>> \in Seq(Irp)
  <1>1. Tail(s) \in Seq(Irp) /\ Len(s) > 0 /\ Len(s) \in Nat /\ s \o t # << >> /\ Head(s) \in Irp
    OBVIOUS
  <1>2. Tail(s \o t) \in Seq(Irp) /\ Tail(s) \o t \in Seq(Irp) /\ Len(Tail(s \o t)) = Len(Tail(s) \o t)
    BY <1>1
  <1>3. \A k \in 1 .. Len(Tail(s \o t)) : Tail(s \o t)[k] = (Tail(s) \o t)[k]
    BY <1>1
  <1>4. Tail(s \o t) = Tail(s) \o t
    BY <1>2, <1>3, SeqEqual
  <1>5. s \o t = <<Head(s)>> \o (Tail(s) \o t)
    <2>0. s \o t \in Seq(Irp)
      OBVIOUS
    <2> DEFINE u == Tail(s) \o t
    <2>1. <<Head(s)>> \in Seq(Irp) /\ Len(<<Head(s)>>) = 1 /\ <<Head(s)>>[1] = Head(s)
      BY <1>1
    <2>2. Len(u) = Len(s) + Len(t) - 1 /\ u \in Seq(Irp) /\ \A k \in 1 .. Len(u) : u[k] = (s \o t)[k + 1]
      BY <1>1
    <2>3. (s \o t)[1] = Head(s) /\ Len(s \o t) = Len(s) + Len(t)
      BY <1>1
    <2> HIDE DEF u
    <2> DEFINE v == <<Head(s)>> \o u
    <2>4. Len(v) = Len(s) + Len(t) /\ v \in Seq(Irp)
      BY <1>1, <2>1, <2>2
    <2>5. \A k \in 1 .. Len(v) : v[k] = (s \o t)[k]
      <3> TAKE k \in 1 .. Len(v)
      <3>1. k = 1 \/ k - 1 \in 1 .. Len(u)
        BY <1>1, <2>2, <2>4
      <3> QED BY <1>1, <2>1, <2>2, <2>3, <2>4, <3>1, ConcatProperties
    <2> HIDE DEF v
    <2>6. v = s \o t
      BY <2>0, <2>3, <2>4, <2>5, SeqEqual
    <2> QED BY <2>6 DEF v, u
  <1>6. Head(s \o t) = Head(s) /\ <<Head(s)>> \in Seq(Irp)
    BY <1>1
  <1> QED BY <1>1, <1>4, <1>5, <1>6

\* The operations of the driver, on the requests of a pipe.
LEMMA FilledRequests ==
    ASSUME NEW d \in Driver_t
    PROVE  Requests(Filled(d)) = Requests(d) /\ Filled(d) \in Driver_t
  <1>1. CASE d.pending # << >> /\ Len(d.moving) < InBuffers
    <2> DEFINE m == Append(d.moving, Head(d.pending))
               t == Tail(d.pending)
               n == Names(d.done)
    <2>1. d.moving \in Seq(Irp) /\ d.pending \in Seq(Irp) /\ Head(d.pending) \in Irp /\ m \in Seq(Irp) /\ t \in Seq(Irp)
      BY <1>1, DriverFields
    <2>2. Filled(d) = [d EXCEPT !.moving = m, !.pending = t]
      BY <1>1 DEF Filled
    <2>3. m \o t = d.moving \o d.pending
      <3>1. m = d.moving \o <<Head(d.pending)>>
        BY <2>1, AppendIsConcat
      <3> DEFINE h == <<Head(d.pending)>>
                 s == d.moving
      <3>2. h \in Seq(Irp)
        BY <2>1
      <3>3. d.pending \o << >> = d.pending /\ t \o << >> = t /\ << >> \in Seq(Irp)
        BY <2>1
      <3>4. d.pending = h \o t
        <4>1. d.pending \o << >> = h \o (t \o << >>)
          BY <1>1, <2>1, <3>3, HeadTailConcat
        <4> QED BY <4>1, <3>3
      <3> HIDE DEF h, s, t, m
      <3>5. s \in Seq(Irp) /\ m = s \o h
        BY <2>1, <3>1 DEF s, h
      <3>6. (s \o h) \o t = s \o (h \o t)
        BY <2>1, <3>2, <3>5, ConcatAssociative
      <3> QED BY <3>4, <3>5, <3>6 DEF s
    <2> HIDE DEF m, t
    <2>4. Filled(d) \in Driver_t /\ Filled(d).moving = m /\ Filled(d).pending = t /\ Filled(d).done = d.done
      BY <2>1, <2>2 DEF Driver_t
    <2> QED BY <2>3, <2>4, RequestsType
  <1>2. CASE ~(d.pending # << >> /\ Len(d.moving) < InBuffers)
    BY <1>2 DEF Filled
  <1> QED BY <1>1, <1>2

\* An IRP is enqueued: it comes last.
LEMMA EnqueueRequests ==
    ASSUME NEW d \in Driver_t, NEW irp \in Irp
    PROVE  Requests(Enqueue(d, irp)) = Append(Requests(d), irp)
  <1> DEFINE e == [d EXCEPT !.pending = Append(@, irp)]
             x == Append(d.pending, irp)
             i == <<irp>>
  <1>1. x \in Seq(Irp) /\ i \in Seq(Irp) /\ x = d.pending \o i
    BY DriverFields, AppendIsConcat
  <1>2. e = [d EXCEPT !.pending = x]
    OBVIOUS
  <1>3. Enqueue(d, irp) = Filled(e)
    BY DEF Enqueue
  <1>b. Append(Requests(d), irp) = Requests(d) \o i
    BY RequestsType, AppendIsConcat
  <1> HIDE DEF e, x, i
  <1>4. e \in Driver_t /\ e.done = d.done /\ e.moving = d.moving /\ e.pending = x
    BY <1>1, <1>2 DEF Driver_t
  <1> DEFINE a == Names(d.done) \o d.moving
             b == d.pending
  <1>5. a \in Seq(Irp) /\ b \in Seq(Irp)
    <2>1. Names(d.done) \in Seq(Irp) /\ d.moving \in Seq(Irp) /\ d.pending \in Seq(Irp)
      BY RequestsType, DriverFields
    <2> QED BY <2>1
  <1>6. Requests(e) = a \o x /\ Requests(d) = a \o b
    BY <1>4, RequestsType
  <1> HIDE DEF a, b
  <1>7. (a \o b) \o i = a \o (b \o i)
    BY <1>1, <1>5, ConcatAssociative
  <1>8. x = b \o i
    BY <1>1 DEF b
  <1>9. Requests(Filled(e)) = Requests(e)
    BY <1>4, FilledRequests
  <1> QED BY <1>3, <1>6, <1>7, <1>8, <1>9, <1>b

\* All that is pending ends, in its order.
LEMMA FlushRequests ==
    ASSUME NEW d \in Driver_t, NEW status \in IrpStatus
    PROVE  Requests(Flush(d, status)) = Requests(d) /\ Flush(d, status) \in Driver_t
           /\ Flush(d, status).done = d.done \o EndWith(d.moving \o d.pending, status)
           /\ Requests([Flush(d, status) EXCEPT !.state = "ACTIVE"]) = Requests(d)
           /\ Requests([Flush(d, status) EXCEPT !.state = "INVALID"]) = Requests(d)
  <1> DEFINE m == d.moving \o d.pending
             w == EndWith(m, status)
             x == d.done \o w
             f == Flush(d, status)
  <1>1. d.done \in Seq(IrpDone) /\ m \in Seq(Irp)
    BY DriverFields, RequestsType
  <1>2. w \in Seq(IrpDone) /\ Names(w) = m
    BY <1>1, NamesEndWith
  <1>3. x \in Seq(IrpDone) /\ Names(x) = Names(d.done) \o m
    <2> HIDE DEF m, w
    <2> DEFINE q == d.done
    <2>1. q \in Seq(IrpDone)
      BY <1>1
    <2> HIDE DEF q
    <2>2. Names(q \o w) = Names(q) \o Names(w) /\ q \o w \in Seq(IrpDone)
      BY <1>2, <2>1, NamesConcat
    <2> QED BY <1>2, <2>2 DEF q
  <1>4. f = [d EXCEPT !.done = x, !.moving = << >>, !.pending = << >>]
    BY DEF Flush
  <1>5. Requests(d) = Names(d.done) \o m /\ Names(d.done) \in Seq(Irp)
    BY RequestsType
  <1> HIDE DEF m, w, x, f
  <1>6. << >> \in Seq(Irp)
    BY EmptyType
  <1>7. f \in Driver_t /\ f.done = x /\ f.moving = << >> /\ f.pending = << >>
    BY <1>3, <1>4, <1>6 DEF Driver_t
  <1>8. \A g : g.done = x /\ g.moving = << >> /\ g.pending = << >> => Requests(g) = Requests(d)
    <2> DEFINE n == Names(x)
    <2>1. n \in Seq(Irp)
      BY <1>3, NamesType
    <2>2. n \o << >> = n
      BY <2>1, ConcatEmptySeq
    <2>3. n \o << >> \o << >> = n
      BY <2>2
    <2> QED BY <1>3, <1>5, <2>3 DEF Requests, Names
  <1>9. \A s : LET g == [f EXCEPT !.state = s] IN g.done = x /\ g.moving = << >> /\ g.pending = << >>
    BY <1>7 DEF Driver_t
  <1> QED BY <1>7, <1>8, <1>9 DEF f, x, w, m

\* The oldest IRP ends, in its place.
LEMMA OldestRequests ==
    ASSUME NEW d \in Driver_t, NEW status \in IrpStatus, d.moving # << >>
    PROVE  Requests(Oldest(d, status)) = Requests(d) /\ Oldest(d, status) \in Driver_t
           /\ Requests([Oldest(d, status) EXCEPT !.state = "HALTED"]) = Requests(d)
  <1> DEFINE o == Oldest(d, status)
             x == [irp |-> Head(d.moving), status |-> status]
             n == Names(d.done)
             h == Head(d.moving)
             t == Tail(d.moving)
             r == t \o d.pending
  <1>1. d.done \in Seq(IrpDone) /\ d.moving \in Seq(Irp) /\ d.pending \in Seq(Irp) /\ n \in Seq(Irp)
    BY DriverFields, RequestsType
  <1>2. h \in Irp /\ x \in IrpDone /\ x.irp = h /\ t \in Seq(Irp) /\ r \in Seq(Irp)
    BY <1>1 DEF IrpDone, IrpStatus
  <1>3. o \in Driver_t /\ o.moving = t /\ o.pending = d.pending /\ o.done = Append(d.done, x)
    BY OldestType, OldestFields
  <1>4. Names(Append(d.done, x)) = Append(n, h)
    BY <1>1, <1>2, NamesAppend
  <1>5. Append(n, h) = n \o <<h>> /\ <<h>> \in Seq(Irp)
    BY <1>1, <1>2, AppendIsConcat
  <1>6. d.moving \o d.pending = <<h>> \o r
    BY <1>1, HeadTailConcat
  <1>7. Requests(d) = n \o (d.moving \o d.pending)
    BY RequestsType
  <1>8. Requests(o) = Append(n, h) \o r
    BY <1>3, <1>4, RequestsType
  <1>a. Requests([o EXCEPT !.state = "HALTED"]) = Requests(o)
    <2> HIDE DEF o
    <2> QED BY <1>3 DEF Requests, Driver_t
  <1> HIDE DEF o, x, n, h, t, r
  <1> DEFINE i == <<h>>
  <1>b. i \in Seq(Irp)
    BY <1>5
  <1>c. Append(n, h) = n \o i /\ d.moving \o d.pending = i \o r
    BY <1>5, <1>6
  <1> HIDE DEF i
  <1>9. (n \o i) \o r = n \o (i \o r)
    BY <1>1, <1>2, <1>b, ConcatAssociative
  <1>10. Requests(o) = Requests(d)
    BY <1>7, <1>8, <1>c, <1>9
  <1> QED BY <1>3, <1>10, <1>a DEF o

\* The task takes the first.
LEMMA DequeueRequests ==
    ASSUME NEW d \in Driver_t, NEW e \in Driver_t, d.done # << >>, e.done = Tail(d.done), e.moving = d.moving, e.pending = d.pending
    PROVE  Requests(e) = Tail(Requests(d)) /\ Requests(d) # << >> /\ Head(Requests(d)) = Head(d.done).irp
  <1> DEFINE n == Names(d.done)
             m == d.moving \o d.pending
  <1>1. d.done \in Seq(IrpDone)
    BY DriverFields
  <1>2. n \in Seq(Irp) /\ n # << >> /\ Names(e.done) = Tail(n) /\ Head(n) = Head(d.done).irp
    BY <1>1, NamesTail, NamesType
  <1>3. m \in Seq(Irp) /\ Requests(d) = n \o m /\ Requests(e) = Tail(n) \o m
    BY <1>2, RequestsType
  <1> HIDE DEF n, m
  <1>4. Tail(n \o m) = Tail(n) \o m /\ Head(n \o m) = Head(n) /\ n \o m # << >>
    BY <1>2, <1>3, HeadTailConcat
  <1> QED BY <1>2, <1>3, <1>4

\* A new pipe has no requests.
LEMMA NoRequests ==
    Requests(NoPipeYet) = << >> /\ Requests([NoPipeYet EXCEPT !.alloc = TRUE]) = << >>
  <1> DEFINE e == << >>
  <1>1. e \o e = e
    BY EmptyType, ConcatEmptySeq
  <1>2. [k \in 1 .. Len(e) |-> e[k].irp] = e
    OBVIOUS
  <1>3. Requests(NoPipeYet) = e
    BY <1>1, <1>2 DEF Requests, NoPipeYet
  <1>4. Requests([NoPipeYet EXCEPT !.alloc = TRUE]) = e
    BY <1>1, <1>2 DEF Requests, NoPipeYet
  <1> QED BY <1>3, <1>4

-----------------------------------------------------------------------------
(* The control pipe (CtrlVisit)                                            *)

\* A step without the control pipe.
CtrlStill ==
    /\ drv'["ctrl"] = drv["ctrl"] /\ task'["ctrl"] = task["ctrl"] /\ evtq'["ctrl"] = evtq["ctrl"]
    /\ obj'["ctrl"].life = obj["ctrl"].life /\ obj'["in"].life = obj["in"].life

\* The control pipe is where it was.
LEMMA CtrlStands ==
    ASSUME CtrlVisit, CtrlStill, port_task' = port_task, vport'.state = vport.state
    PROVE  CtrlVisit'
  <1> DEFINE r == Requests(drv["ctrl"])
             rn == Requests(drv'["ctrl"])
  <1>1. rn = r
    BY DEF CtrlStill
  <1>2. Carries' = Carries /\ Enumerating' = Enumerating
    BY DEF CtrlStill, Carries, Enumerating, Life, Leaving
  <1> HIDE DEF r, rn
  <1>3. Chain'
    BY <1>1, <1>2 DEF CtrlVisit, Chain, CtrlStill, r, rn
  <1>4. Unchained' /\ (task'["ctrl"].at \in Making => vport'.state = "ENABLED")
    BY <1>1 DEF CtrlVisit, Unchained, CtrlStill, Life, r, rn
  <1> QED BY <1>3, <1>4 DEF CtrlVisit

\* The port task goes on, and the control pipe is where it was.
LEMMA CtrlPasses ==
    ASSUME "in" \in Pipe, TypeOK, PortVisit, ObjectsVisit, CtrlVisit, CtrlStill,
           \/ (port_task' = port_task /\ vport'.state = vport.state)
           \/ (port_task' = port_task /\ task["ctrl"].at \notin Making)
           \/ (port_task' = port_task /\ vport.state \notin {"ENABLED", "RECOVERY"})
           \/ (vport.state = "NOT_POWERED")
           \/ (vport'.state = vport.state /\ port_task.at = "blocked" /\ port_task'.at = "handle")
           \/ (vport.state \in {"DISCONNECTED", "DISABLED"})
           \/ (vport'.state = vport.state /\ Coming /\ Passes("reset", "connected"))
           \/ (vport'.state = vport.state /\ Coming /\ Passes("reset", "act"))
           \/ (vport'.state = vport.state /\ Coming /\ Passes("act", "blocked"))
           \/ (vport'.state = vport.state /\ Leaving /\ Passes("act", "free_ctrl"))
           \/ (vport'.state = vport.state /\ Leaving /\ Passes("handle", "class") /\ Existing = {})
           \/ (vport'.state = vport.state /\ Leaving /\ Passes("invalidate", "class"))
           \/ (vport'.state = vport.state /\ Leaving /\ Passes("class", "act"))
           \/ (vport.state = "RECOVERY" /\ Leaving /\ Passes("recover", "power_on"))
    PROVE  CtrlVisit'
  <1> USE DEF Coming, Leaving, Passes
  <1> DEFINE r == Requests(drv["ctrl"])
             rn == Requests(drv'["ctrl"])
  <1>1. rn = r
    BY DEF CtrlStill
  <1>2. Carries' = Carries
    BY DEF CtrlStill, Carries
  <1> HIDE DEF r, rn
  <1>3. Enumerating' => /\ vport.state \in {"ENABLED", "RECOVERY"} /\ Life("ctrl") = "whole" /\ Life("in") = "none"
                        /\ port_task.at \notin {"connected", "reset", "recover"}
                        /\ ~Passes("act", "free_ctrl") /\ ~(Passes("class", "act") /\ Leaving)
                        /\ Existing # {}
    <2>1. OwnedAt("ctrl")
      BY HostPipeAssumption DEF ObjectsVisit, Owned
    <2> QED BY <2>1, HostPipeAssumption DEF Enumerating, CtrlStill, Life, ObjectsVisit, OwnedAt, Nested, Existing
  <1>4. Chain'
    BY <1>1, <1>2, <1>3 DEF CtrlVisit, Chain, CtrlStill, Enumerating, r, rn
  <1>5. Unchained'
    BY <1>1 DEF CtrlVisit, Unchained, CtrlStill, Life, r, rn
  <1>6. task'["ctrl"].at \in Making => vport'.state = "ENABLED"
    BY DEF CtrlVisit, CtrlStill
  <1> QED BY <1>4, <1>5, <1>6 DEF CtrlVisit

\* A pipe without requests has nothing on the bus.
LEMMA NoneRequested ==
    ASSUME NEW d \in Driver_t, Requests(d) = << >>
    PROVE  d.done = << >> /\ d.moving = << >> /\ d.pending = << >>
  <1> DEFINE n == Names(d.done)
             m == d.moving
             p == d.pending
  <1>1. d.done \in Seq(IrpDone) /\ m \in Seq(Irp) /\ p \in Seq(Irp)
    BY DriverFields
  <1>2. n \in Seq(Irp) /\ Len(n) = Len(d.done) /\ n \o m \o p = << >>
    BY <1>1, NamesType, RequestsType
  <1> HIDE DEF n, m, p
  <1>3. Len(n \o m \o p) = Len(n) + Len(m) + Len(p)
    BY <1>1, <1>2
  <1>4. Len(n) = 0 /\ Len(m) = 0 /\ Len(p) = 0
    BY <1>1, <1>2, <1>3
  <1>5. m = << >> /\ p = << >> /\ d.done = << >>
    <2>1. \A S : \A s \in Seq(S) : Len(s) = 0 => s = << >>
      BY EmptySeq
    <2>2. Len(d.done) = 0
      BY <1>2, <1>4
    <2> QED BY <1>1, <1>4, <2>1, <2>2
  <1> QED BY <1>5 DEF m, p

\* The device is there when the control pipe's task is about to go on with the enumeration.
LEMMA CarriesEnabled ==
    ASSUME "in" \in DataPipe, TypeOK, PortVisit, ObjectsVisit, CtrlVisit, PortBlocked, Enumerating, Carries
    PROVE  vport.state = "ENABLED" /\ Requests(drv["ctrl"]) = << >>
  <1>1. drv["ctrl"] \in Driver_t /\ evtq["ctrl"] \in Seq(Event) /\ "ctrl" \in Pipe
    BY HostPipeAssumption DEF TypeOK
  <1>2. Requests(drv["ctrl"]) = << >>
    BY DEF CtrlVisit, Chain
  <1>3. vport.state \in {"ENABLED", "RECOVERY"}
    BY <1>1 DEF Enumerating, ObjectsVisit, Owned, OwnedAt
  <1>4. CASE port_task.at = "post" /\ Len(evtq[port_task.cur]) = QueueLen
    <2>1. port_task.cur \in Pipe /\ drv[port_task.cur].state = "INVALID"
      BY <1>4 DEF ObjectsVisit, Invalidated
    <2>2. Life(port_task.cur) = "whole"
      BY <2>1 DEF ObjectsVisit, Owned, OwnedAt, NoPipeYet
    <2>3. port_task.cur = "ctrl"
      BY <2>1, <2>2 DEF Enumerating, ObjectsVisit, Nested, DataPipe
    <2>4. Len(evtq["ctrl"]) <= Len(drv["ctrl"].done)
      BY <1>4 DEF CtrlVisit, Chain
    <2>5. drv["ctrl"].done = << >>
      BY <1>1, <1>2, NoneRequested
    <2> QED BY <1>1, <1>4, <2>3, <2>4, <2>5, HostPipeAssumption
  <1>5. CASE port_task.at = "none"
    BY <1>3, <1>5 DEF PortVisit, Hardware
  <1>6. CASE port_task.at = "debounce"
    BY <1>3, <1>6 DEF PortVisit, Handling
  <1>7. CASE port_task.at = "reset"
    BY <1>7 DEF ObjectsVisit, Nested, Enumerating
  <1>8. CASE port_task.at = "blocked" /\ port_evtq = << >>
    <2>1. Calm /\ vport.state \in {"DISCONNECTED", "ENABLED"}
      BY <1>8, OneMessage DEF PortVisit, Waits
    <2> QED BY <1>2, <1>3, <2>1
  <1>9. \/ port_task.at = "none" \/ port_task.at = "debounce" \/ port_task.at = "reset"
        \/ port_task.at = "blocked" /\ port_evtq = << >>
        \/ port_task.at = "post" /\ Len(evtq[port_task.cur]) = QueueLen
    BY DEF PortBlocked
  <1> QED BY <1>4, <1>5, <1>6, <1>7, <1>8, <1>9

\* The rows of requests of the enumeration.
LEMMA ShortSeqs ==
    \A a, b, c : /\ Tail(<<a>>) = << >> /\ Head(<<a>>) = a /\ Tail(<<a, b>>) = <<b>> /\ Head(<<a, b>>) = a
                 /\ Append(<< >>, a) = <<a>> /\ Append(<<a>>, b) = <<a, b>>
                 /\ <<a, b>> # <<c>> /\ <<a>> # << >> /\ <<a, b>> # << >>
                 /\ (<<a>> = <<c>> => a = c)
                 /\ Append(<< >>, a) # << >>
  <1> TAKE a, b, c
  <1> DEFINE S == {a, b, c}
  <1>1. <<a>> \in Seq(S) /\ <<a, b>> \in Seq(S) /\ <<b>> \in Seq(S) /\ <<c>> \in Seq(S) /\ << >> \in Seq(S)
        /\ Len(<<a>>) = 1 /\ Len(<<a, b>>) = 2 /\ Len(<<b>>) = 1 /\ Len(<<c>>) = 1 /\ <<a>>[1] = a /\ <<b>>[1] = b
        /\ <<a, b>>[1] = a /\ <<a, b>>[2] = b /\ <<c>>[1] = c
    OBVIOUS
  <1>2. Tail(<<a, b>>) = <<b>>
    <2>1. Tail(<<a, b>>) \in Seq(S) /\ Len(Tail(<<a, b>>)) = 1 /\ Tail(<<a, b>>)[1] = b
      BY <1>1, HeadTailProperties
    <2> QED BY <1>1, <2>1, SeqEqual
  <1>3. Append(<< >>, a) = <<a>>
    <2>1. Append(<< >>, a) \in Seq(S) /\ Len(Append(<< >>, a)) = 1 /\ Append(<< >>, a)[1] = a
      BY <1>1, AppendProperties
    <2> QED BY <1>1, <2>1, SeqEqual
  <1>4. Append(<<a>>, b) = <<a, b>>
    <2>1. Append(<<a>>, b) \in Seq(S) /\ Len(Append(<<a>>, b)) = 2 /\ Append(<<a>>, b)[1] = a /\ Append(<<a>>, b)[2] = b
      BY <1>1, AppendProperties
    <2>2. \A k \in 1 .. 2 : Append(<<a>>, b)[k] = <<a, b>>[k]
      BY <1>1, <2>1
    <2> QED BY <1>1, <2>1, <2>2, SeqEqual
  <1> QED BY <1>1, <1>2, <1>3, <1>4, OneMessage

\* What a step of the control pipe's task may leave.
LEMMA CtrlAfter ==
    ASSUME CtrlVisit, UNCHANGED <<obj, vport, port_task>>,
           port_task.at \notin {"get_desc", "set_addr", "invalidate", "class"},
           Enumerating =>
              /\ Requests(drv'["ctrl"]) \in {<< >>, <<"DEV_DESC", "SET_ADDR">>, <<"SET_ADDR">>, <<"SET_CFG">>, <<"CFG_DESC">>}
              /\ (Carries => Requests(drv["ctrl"]) = << >>)'
              /\ task'["ctrl"].at \in {"handle", "class"} => task'["ctrl"].irp.irp \in Chained \union {"DEV_DESC"}
              /\ task'["ctrl"].at = "set_config" => task'["ctrl"].irp.irp = "SET_ADDR"
              /\ Len(evtq'["ctrl"]) <= Len(drv'["ctrl"].done),
           Life("in") # "none" =>
              /\ \A k \in DOMAIN Requests(drv'["ctrl"]) : Requests(drv'["ctrl"])[k] \notin Chained
              /\ task'["ctrl"].at \in {"handle", "class"} => task'["ctrl"].irp.irp \notin Chained
              /\ task'["ctrl"].at \notin {"set_config", "begin_in"},
           task'["ctrl"].at \in Making => vport.state = "ENABLED"
    PROVE  CtrlVisit'
  <1> DEFINE rn == Requests(drv'["ctrl"])
  <1>1. Enumerating' = Enumerating
    BY DEF Enumerating, Life, Leaving
  <1>2. Enumerating => rn # <<"DEV_DESC">>
    BY ShortSeqs
  <1> HIDE DEF rn
  <1>3. Chain'
    BY <1>1, <1>2 DEF Chain, rn
  <1>4. Unchained'
    BY DEF Unchained, Life
  <1> QED BY <1>3, <1>4 DEF CtrlVisit

\* The task goes on, and the requests stay.
LEMMA CtrlGoes ==
    ASSUME "in" \in DataPipe, TypeOK, PortVisit, ObjectsVisit, CtrlVisit, PortBlocked, UNCHANGED <<obj, vport, port_task, evtq>>,
           NEW at, task'["ctrl"].at = at, task'["ctrl"].irp = task["ctrl"].irp,
           Requests(drv'["ctrl"]) = Requests(drv["ctrl"]), Len(drv["ctrl"].done) <= Len(drv'["ctrl"].done),
           drv'["ctrl"] \in Driver_t,
           \/ at \in {"set_config", "class"} /\ task["ctrl"].at = "handle"
           \/ at \in {"free", "report_map"}
           \/ at = "begin_in" /\ task["ctrl"].at = "class" /\ task["ctrl"].irp.irp = "CFG_DESC",
           at = "set_config" => task["ctrl"].irp.irp = "SET_ADDR"
    PROVE  CtrlVisit'
  <1> DEFINE r == Requests(drv["ctrl"])
             rn == Requests(drv'["ctrl"])
             e == Len(evtq["ctrl"])
             n == Len(drv["ctrl"].done)
             m == Len(drv'["ctrl"].done)
  <1>1. port_task.at \notin {"get_desc", "set_addr", "invalidate", "class"}
    BY DEF PortBlocked
  <1>2. evtq["ctrl"] \in Seq(Event) /\ drv["ctrl"] \in Driver_t /\ "ctrl" \in Pipe
    BY HostPipeAssumption DEF TypeOK
  <1>3. e \in Nat /\ n \in Nat /\ m \in Nat /\ n <= m
    BY <1>2, DriverFields
  <1>4. rn = r
    OBVIOUS
  <1>5. Enumerating => r # <<"DEV_DESC">> /\ e <= n /\ (Carries' => Carries)
    BY <1>1 DEF CtrlVisit, Chain, Carries, Chained
  <1> HIDE DEF r, rn, e, n, m
  <1>6. Enumerating =>
           /\ rn \in {<< >>, <<"DEV_DESC", "SET_ADDR">>, <<"SET_ADDR">>, <<"SET_CFG">>, <<"CFG_DESC">>}
           /\ Carries' => rn = << >>
    BY <1>4, <1>5 DEF CtrlVisit, Chain, r
  <1>a. Enumerating =>
           /\ task'["ctrl"].at \in {"handle", "class"} => task'["ctrl"].irp.irp \in Chained \union {"DEV_DESC"}
           /\ task'["ctrl"].at = "set_config" => task'["ctrl"].irp.irp = "SET_ADDR"
    BY DEF CtrlVisit, Chain
  <1>b. Enumerating => e <= m
    BY <1>3, <1>5
  <1>7. Life("in") # "none" =>
              /\ \A k \in DOMAIN rn : rn[k] \notin Chained
              /\ task'["ctrl"].at \in {"handle", "class"} => task'["ctrl"].irp.irp \notin Chained
              /\ task'["ctrl"].at \notin {"set_config", "begin_in"}
    BY <1>4 DEF CtrlVisit, Unchained, Chained, r
  <1>8. task'["ctrl"].at \in Making => vport.state = "ENABLED"
    <2>1. task'["ctrl"].at \in Making => at = "begin_in"
      BY DEF Making
    <2>2. at = "begin_in" => Carries /\ Life("in") = "none"
      BY DEF Carries, CtrlVisit, Unchained, Chained
    <2>3. at = "begin_in" => Life("ctrl") = "whole"
      BY <1>2, BusyIsWhole DEF ObjectsVisit
    <2>4. ~(Leaving /\ port_task.at \in {"act", "free_ctrl"})
      BY DEF PortBlocked
    <2> QED BY <2>1, <2>2, <2>3, <2>4, CarriesEnabled DEF Enumerating
  <1>9. e = Len(evtq'["ctrl"])
    BY DEF e
  <1> QED BY <1>1, <1>6, <1>a, <1>b, <1>7, <1>8, <1>9, CtrlAfter DEF rn, e, m

\* With these an IRP may end.
LEMMA StatusesKnown == "COMPLETED" \in IrpStatus /\ "CANCELED" \in IrpStatus /\ "NO_DEVICE" \in IrpStatus
                       /\ Error \subseteq IrpStatus
  BY DEF IrpStatus

\* A reset keeps the requests, with those that it ends.
LEMMA ResetRequests ==
    ASSUME NEW d \in Driver_t
    PROVE  Requests(ResetPipe(d)) = Requests(d) /\ Len(d.done) <= Len(ResetPipe(d).done) /\ ResetPipe(d) \in Driver_t
           /\ ResetPipe(d).done = d.done \o EndWith(d.moving \o d.pending, "CANCELED")
  <1> DEFINE f == Flush(d, "CANCELED")
             w == EndWith(d.moving \o d.pending, "CANCELED")
  <1>1. Requests([f EXCEPT !.state = "ACTIVE"]) = Requests(d) /\ f \in Driver_t /\ f.done = d.done \o w
    BY FlushRequests, StatusesKnown
  <1>2. w \in Seq(IrpDone) /\ d.done \in Seq(IrpDone)
    BY RequestsType, NamesEndWith, StatusesKnown, DriverFields
  <1>3. ResetPipe(d) = [f EXCEPT !.state = "ACTIVE"]
    BY DEF ResetPipe
  <1> HIDE DEF f, w
  <1>4. ResetPipe(d).done = f.done /\ ResetPipe(d) \in Driver_t
    BY <1>1, <1>3 DEF Driver_t
  <1>5. Len(d.done \o w) = Len(d.done) + Len(w) /\ Len(d.done) \in Nat /\ Len(w) \in Nat
    BY <1>2
  <1>6. Len(d.done) <= Len(ResetPipe(d).done)
    BY <1>1, <1>4, <1>5
  <1> QED BY <1>1, <1>3, <1>4, <1>6 DEF w

\* The control pipe's task takes a message.
LEMMA CtrlReceives ==
    ASSUME "in" \in DataPipe, TypeOK, PortVisit, ObjectsVisit, CtrlVisit, PortBlocked,
           UNCHANGED <<vport, port_task>>, Receive("ctrl")
    PROVE  CtrlVisit'
  <1>0. "ctrl" \in Pipe /\ task["ctrl"].at = "blocked" /\ evtq["ctrl"] # << >> /\ obj' = obj
    BY HostPipeAssumption DEF Receive
  <1>1. port_task.at \notin {"get_desc", "set_addr", "invalidate", "class"}
    BY DEF PortBlocked
  <1> DEFINE c == drv["ctrl"]
             d == drv'["ctrl"]
             q == evtq["ctrl"]
             r == Requests(c)
             rn == Requests(d)
             u == task'["ctrl"]
  <1>2. c \in Driver_t /\ d \in Driver_t /\ q \in Seq(Event) /\ evtq'["ctrl"] = Tail(q) /\ Len(Tail(q)) = Len(q) - 1
        /\ Len(q) \in Nat /\ Len(c.done) \in Nat
    <2>1. TypeOK => drv["ctrl"] \in Driver_t
      BY <1>0 DEF TypeOK
    <2>2. c \in Driver_t /\ q \in Seq(Event)
      BY <1>0 DEF TypeOK
    <2>3. evtq'["ctrl"] = Tail(q)
      BY <1>0, ReceiveFields
    <2>4. drv' \in [Pipe -> Driver_t]
      <3>1. PipesType /\ TaskStep("ctrl")
        BY TypeParts DEF TaskStep
      <3>2. PipesType'
        BY <1>0, <3>1, TaskStepType
      <3> QED BY <3>2 DEF PipesType, DrvType
    <2> QED BY <1>0, <2>2, <2>3, <2>4, DriverFields
  <1>3. CASE c.done = << >>
    <2>1. d = c /\ u = task["ctrl"]
      BY <1>0, <1>3, ReceiveFields
    <2>2. Enumerating => Len(q) <= Len(c.done)
      BY <1>1 DEF CtrlVisit, Chain
    <2>3. ~Enumerating
      BY <1>0, <1>2, <1>3, <2>2
    <2> QED BY <1>0, <1>1, <2>1, <2>3, CtrlAfter DEF CtrlVisit, Unchained, Making
  <1>4. CASE c.done # << >>
    <2>1. d.done = Tail(c.done) /\ d.moving = c.moving /\ d.pending = c.pending /\ u.at = "handle" /\ u.irp = Head(c.done)
      <3>1. u = [at |-> "handle", event |-> Head(q), irp |-> Head(c.done)]
            /\ d.done = Tail(c.done) /\ d.moving = c.moving /\ d.pending = c.pending
        BY <1>0, <1>4, ReceiveFields
      <3> QED BY <3>1
    <2>2. rn = Tail(r) /\ r # << >> /\ Head(r) = u.irp.irp
      BY <1>2, <1>4, <2>1, DequeueRequests
    <2>3. r \in Seq(Irp) /\ c.done \in Seq(IrpDone)
      BY <1>2, RequestsType, DriverFields
    <2>a. Len(d.done) = Len(c.done) - 1
      BY <1>4, <2>1, <2>3
    <2> HIDE DEF r, rn, u, c, d, q
    <2>4. ASSUME Enumerating PROVE rn \in {<< >>, <<"SET_ADDR">>} /\ u.irp.irp \in Chained \union {"DEV_DESC"}
                                   /\ (u.irp.irp \in Chained => rn = << >>) /\ Len(Tail(q)) <= Len(d.done)
      <3>1. r \in {<<"DEV_DESC", "SET_ADDR">>, <<"SET_ADDR">>, <<"SET_CFG">>, <<"CFG_DESC">>} /\ Len(q) <= Len(c.done)
        BY <1>1, <2>2, <2>4 DEF CtrlVisit, Chain, r, c, q
      <3>2. /\ r = <<"DEV_DESC", "SET_ADDR">> => rn = <<"SET_ADDR">> /\ u.irp.irp = "DEV_DESC"
            /\ r = <<"SET_ADDR">> => rn = << >> /\ u.irp.irp = "SET_ADDR"
            /\ r = <<"SET_CFG">> => rn = << >> /\ u.irp.irp = "SET_CFG"
            /\ r = <<"CFG_DESC">> => rn = << >> /\ u.irp.irp = "CFG_DESC"
        <4>1. \A a, b : /\ r = <<a, b>> => rn = <<b>> /\ u.irp.irp = a
                        /\ r = <<a>> => rn = << >> /\ u.irp.irp = a
          <5> TAKE a, b
          <5>1. r = <<a, b>> => rn = <<b>> /\ u.irp.irp = a
            <6>1. Tail(<<a, b>>) = <<b>> /\ Head(<<a, b>>) = a
              BY ShortSeqs
            <6> QED BY <2>2, <6>1
          <5>2. r = <<a>> => rn = << >> /\ u.irp.irp = a
            <6>1. Tail(<<a>>) = << >> /\ Head(<<a>>) = a
              BY ShortSeqs
            <6> QED BY <2>2, <6>1
          <5> QED BY <5>1, <5>2
        <4> QED BY <4>1
      <3>3. Len(Tail(q)) <= Len(d.done)
        BY <1>2, <2>a, <3>1
      <3> QED BY <3>1, <3>2, <3>3 DEF Chained
    <2>5. ASSUME Life("in") # "none" PROVE (\A k \in DOMAIN rn : rn[k] \notin Chained) /\ u.irp.irp \notin Chained
      <3>1. \A k \in DOMAIN r : r[k] \notin Chained
        BY <2>5 DEF CtrlVisit, Unchained, r, c
      <3>2. Head(r) = r[1] /\ 1 \in DOMAIN r /\ \A k \in DOMAIN rn : k + 1 \in DOMAIN r /\ rn[k] = r[k + 1]
        BY <2>2, <2>3, HeadTailProperties, LenProperties
      <3> QED BY <2>2, <3>1, <3>2
    <2>6. u.at = "handle" /\ evtq'["ctrl"] = Tail(q)
      BY <1>2, <2>1 DEF u, d, q
    <2>7. (Carries => r = << >>)' <=> (Carries' => rn = << >>)
      BY DEF r, rn, c, d
    <2>8. Carries' => u.irp.irp \in Chained
      BY <2>6 DEF Carries, u
    <2> QED BY <1>0, <1>1, <2>4, <2>5, <2>6, <2>7, <2>8, CtrlAfter DEF rn, u, d, r, c, Making
  <1> QED BY <1>3, <1>4

\* The next request of the enumeration.
LEMMA CtrlSubmits ==
    ASSUME "in" \in DataPipe, TypeOK, PortVisit, ObjectsVisit, CtrlVisit, PortBlocked,
           UNCHANGED <<obj, vport, port_task, evtq>>, NEW req \in {"SET_CFG", "CFG_DESC"}, SubmitIrp("ctrl", req),
           task'["ctrl"].at = "class", task'["ctrl"].irp = task["ctrl"].irp,
           \/ (task["ctrl"].at = "set_config")
           \/ (task["ctrl"].at = "handle" /\ task["ctrl"].irp.irp = "SET_CFG")
    PROVE  CtrlVisit'
  <1>0. "ctrl" \in Pipe /\ req \in Irp
    BY HostPipeAssumption
  <1>1. port_task.at \notin {"get_desc", "set_addr", "invalidate", "class", "act", "free_ctrl"}
    BY DEF PortBlocked
  <1> DEFINE c == drv["ctrl"]
             d == drv'["ctrl"]
             r == Requests(c)
             rn == Requests(d)
  <1>2. c \in Driver_t /\ evtq["ctrl"] \in Seq(Event)
    BY <1>0 DEF TypeOK
  <1>3. Life("ctrl") = "whole"
    BY <1>0, BusyIsWhole DEF ObjectsVisit
  <1>4. Carries /\ Life("in") = "none"
    BY DEF Carries, Chained, CtrlVisit, Unchained
  <1>5. Enumerating
    BY <1>1, <1>3, <1>4 DEF Enumerating
  <1>6. vport.state = "ENABLED" /\ r = << >>
    BY <1>4, <1>5, CarriesEnabled
  <1>7. c.done = << >>
    BY <1>2, <1>6, NoneRequested
  <1>8. d = Enqueue(c, req) \/ d = c
    BY <1>0, <1>3, SubmitFields
  <1>9. rn \in {<< >>, <<"SET_CFG">>, <<"CFG_DESC">>} /\ d.done = c.done
    <2>1. Requests(Enqueue(c, req)) = Append(<< >>, req) /\ Enqueue(c, req).done = c.done
      BY <1>0, <1>2, <1>6, EnqueueRequests, EnqueueKeeps
    <2> HIDE DEF c, d
    <2>2. Append(<< >>, req) = <<req>>
      BY ShortSeqs
    <2> QED BY <1>6, <1>8, <2>1, <2>2
  <1>10. Len(evtq["ctrl"]) <= Len(c.done)
    BY <1>1, <1>5 DEF CtrlVisit, Chain
  <1>11. ~Carries' /\ task["ctrl"].irp.irp \in Chained
    BY <1>5 DEF Carries, CtrlVisit, Chain, Chained
  <1> HIDE DEF c, d, r, rn
  <1> QED BY <1>1, <1>4, <1>9, <1>10, <1>11, CtrlAfter DEF rn, c, d, Making

\* The task of a pipe, on all that a visit is.
LEMMA CtrlStepVisit ==
    ASSUME "in" \in DataPipe, TypeOK, PortVisit, ObjectsVisit, CtrlVisit, PortBlocked,
           UNCHANGED <<vport, port_task>>, TaskStep("ctrl")
    PROVE  CtrlVisit'
  <1>0. "ctrl" \in Pipe /\ drv["ctrl"] \in Driver_t /\ Len(drv["ctrl"].done) \in Nat
    BY HostPipeAssumption, DriverFields DEF TypeOK
  <1>1. ASSUME NEW at, Goto("ctrl", at), UNCHANGED <<obj, evtq>>, drv'["ctrl"] = drv["ctrl"],
               \/ at \in {"set_config", "class"} /\ task["ctrl"].at = "handle"
               \/ at = "free",
               at = "set_config" => task["ctrl"].irp.irp = "SET_ADDR"
        PROVE  CtrlVisit'
    BY <1>0, <1>1, GotoFields, CtrlGoes
  <1>2. CASE Receive("ctrl")
    BY <1>2, CtrlReceives
  <1>3. CASE HandleSetAddr("ctrl")
    BY <1>1, <1>3 DEF HandleSetAddr, HandlesDone, Handles
  <1>4. CASE HandleOther("ctrl")
    BY <1>1, <1>4 DEF HandleOther, Handles
  <1>5. CASE HandleError("ctrl")
    <2> DEFINE d == drv'["ctrl"]
    <2>1. d = ResetPipe(drv["ctrl"]) \/ d = drv["ctrl"]
      BY <1>0, <1>5, ResetFields DEF HandleError
    <2> HIDE DEF d
    <2>2. Requests(d) = Requests(drv["ctrl"]) /\ Len(drv["ctrl"].done) <= Len(d.done) /\ d \in Driver_t
      <3> DEFINE c == drv["ctrl"]
      <3>1. c \in Driver_t /\ Len(c.done) <= Len(c.done) /\ (d = ResetPipe(c) \/ d = c)
        BY <1>0, <2>1
      <3> HIDE DEF c
      <3>2. Requests(ResetPipe(c)) = Requests(c) /\ Len(c.done) <= Len(ResetPipe(c).done) /\ ResetPipe(c) \in Driver_t
        BY <3>1, ResetRequests
      <3>3. Requests(d) = Requests(c) /\ Len(c.done) <= Len(d.done) /\ d \in Driver_t
        BY <3>1, <3>2
      <3> QED BY <3>3 DEF c
    <2>3. Goto("ctrl", "class") /\ UNCHANGED <<obj, evtq>> /\ task["ctrl"].at = "handle"
      BY <1>5 DEF HandleError, Handles
    <2>4. task'["ctrl"].at = "class" /\ task'["ctrl"].irp = task["ctrl"].irp
      BY <1>0, <2>3, GotoFields
    <2> QED BY <2>2, <2>3, <2>4, CtrlGoes DEF d
  <1>6. CASE HandleSetAddrEnd("ctrl")
    BY <1>0, <1>6, GotoFields, CtrlSubmits DEF HandleSetAddrEnd, setConfiguration
  <1>7. CASE HandleSetConfig("ctrl")
    BY <1>0, <1>7, GotoFields, CtrlSubmits DEF HandleSetConfig, getConfigDescriptor, HandlesDone, Handles
  <1>8. CASE FreeIrp("ctrl")
    <2>1. task'["ctrl"] = TaskIn("blocked") /\ UNCHANGED <<drv, obj, evtq>> /\ task["ctrl"].at = "free"
      BY <1>0, <1>8 DEF FreeIrp, TypeOK
    <2>2. port_task.at \notin {"get_desc", "set_addr", "invalidate", "class"} /\ ~Carries'
      BY <2>1 DEF PortBlocked, Carries, TaskIn
    <2> QED BY <2>1, <2>2, CtrlAfter DEF CtrlVisit, Chain, Unchained, Making, TaskIn
  <1> QED BY <1>2, <1>3, <1>4, <1>5, <1>6, <1>7, <1>8 DEF TaskStep

\* The task of any pipe keeps the visit.
LEMMA StepVisit ==
    ASSUME "in" \in DataPipe, TypeOK, Visit, NEW p \in Pipe, PipeTask(p)
    PROVE  Visit' /\ fault' = fault
  <1>1. PortBlocked /\ TaskStep(p) /\ UNCHANGED <<vport, vhw, op, port_evtq, port_task, app, callback, ready, plugs>>
        /\ PortVisit /\ ObjectsVisit /\ CtrlVisit
    BY DEF PipeTask, portVars, Visit
  <1>2. OneMoves(p) /\ fault' = fault
    BY <1>1, StepMoves DEF ObjectsVisit
  <1>3. PortVisit'
    BY <1>1, PortVisitStill
  <1>4. ObjectsVisit'
    BY <1>1, <1>2, OneMovesAll, MoveObjects DEF ObjectsVisit
  <1>5. CASE p = "ctrl"
    BY <1>1, <1>2, <1>3, <1>4, <1>5, CtrlStepVisit DEF Visit
  <1>6. CASE p # "ctrl"
    <2>1. CtrlStill
      BY <1>2, <1>6, HostPipeAssumption DEF OneMoves, CtrlStill
    <2> QED BY <1>1, <1>2, <1>3, <1>4, <2>1, CtrlStands DEF Visit
  <1> QED BY <1>5, <1>6

\* A pipe's step, of the task or of the class driver.
LEMMA MovesVisit ==
    ASSUME "in" \in DataPipe, TypeOK, Visit, NEW p \in Pipe, OneMoves(p),
           UNCHANGED <<vport, vhw, op, port_evtq, port_task, callback>>,
           app' = app \/ {app, app'} \subseteq {"loop", "sending"},
           p = "ctrl" => CtrlVisit'
    PROVE  Visit'
  <1>1. PortVisit /\ ObjectsVisit /\ CtrlVisit /\ Owned
    BY DEF Visit, ObjectsVisit
  <1>3. PortVisit'
    BY <1>1, PortVisitStill
  <1>4. ObjectsVisit'
    BY <1>1, OneMovesAll, MoveObjects
  <1>5. p # "ctrl" => CtrlVisit'
    <2>1. p # "ctrl" => CtrlStill
      BY HostPipeAssumption DEF OneMoves, CtrlStill
    <2> QED BY <1>1, <2>1, CtrlStands
  <1> QED BY <1>3, <1>4, <1>5 DEF Visit

-----------------------------------------------------------------------------
(* The port task, on all that a visit is                                   *)

\* The port goes on, and the objects stay.
LEMMA StaysCtrl ==
    ASSUME Stays
    PROVE  CtrlStill
  BY DEF Stays, CtrlStill

\* A device comes,
LEMMA PlugSession ==
    ASSUME "in" \in DataPipe, TypeOK, Visit, Plug
    PROVE  Visit' /\ Stays /\ fault' = fault /\ port_task' = port_task /\ vport'.state = vport.state
  <1>1. PortVisit /\ ObjectsVisit /\ CtrlVisit /\ "in" \in Pipe /\ ViewType
    BY TypeParts DEF Visit, DataPipe
  <1>2. Stays /\ fault' = fault /\ port_task' = port_task
    BY DEF Plug, PortInterrupt, Connected, Stays
  <1>3. vport'.state = vport.state
    BY <1>1 DEF Plug, PortInterrupt, Connected, RaiseEvent, ViewType
  <1> QED BY <1>1, <1>2, <1>3, PlugVisit, ObjectsStill, CtrlPasses, StaysCtrl DEF Visit

\* is enabled,
LEMMA EnableSession ==
    ASSUME "in" \in DataPipe, TypeOK, Visit, Enable
    PROVE  Visit' /\ Stays /\ fault' = fault /\ port_task' = port_task /\ vport.state = "RESETTING" /\ vport'.state = "ENABLED"
  <1>1. PortVisit /\ ObjectsVisit /\ CtrlVisit /\ "in" \in Pipe /\ ViewType
    BY TypeParts DEF Visit, DataPipe
  <1>2. Stays /\ fault' = fault /\ port_task' = port_task /\ vport.state = "RESETTING"
    BY DEF Enable, PortInterrupt, Enabled, Stays
  <1>3. vport'.state = "ENABLED"
    BY <1>1 DEF Enable, PortInterrupt, Enabled, ViewType
  <1> QED BY <1>1, <1>2, <1>3, EnableVisit, ObjectsStill, CtrlPasses, StaysCtrl DEF Visit

\* and leaves.
LEMMA UnplugSession ==
    ASSUME "in" \in DataPipe, TypeOK, Visit, Unplug, PortBlocked, vport.conn_devc_ena, task["ctrl"].at \notin Making,
           \A p \in DataPipe : obj[p].ptr = "set" => obj[p].life = "whole"
    PROVE  Visit' /\ Stays /\ fault' = fault /\ port_task' = port_task /\ vport.state = "ENABLED" /\ vport'.state = "RECOVERY"
           /\ port_task.at \in {"blocked", "reset"}
  <1>1. PortVisit /\ ObjectsVisit /\ CtrlVisit /\ "in" \in Pipe
    BY DEF Visit, DataPipe
  <1>2. Stays /\ fault' = fault /\ port_task' = port_task
    BY DEF Unplug, PortInterrupt, Disconnected, Stays
  <1>3. PortVisit' /\ vport.state = "ENABLED" /\ vport'.state = "RECOVERY" /\ port_task.at \in {"blocked", "reset"}
    BY <1>1, UnplugVisit
  <1>4. \A p \in Pipe : Life(p) # "raw" /\ drv[p].state # "INVALID"
    BY <1>1, <1>3 DEF ObjectsVisit, Owned, OwnedAt, Pointers, Life, DataPipe
  <1>5. Owned'
    BY <1>1, <1>2, <1>3, <1>4 DEF ObjectsVisit, Owned, OwnedAt, Stays, Life
  <1>6. Pointers' /\ Nested' /\ Invalidated'
    BY <1>1, <1>2, <1>3 DEF ObjectsVisit, Pointers, Nested, Invalidated, Stays, Life, Leaving
  <1>7. CtrlVisit'
    BY <1>1, <1>2, CtrlPasses, StaysCtrl
  <1> QED BY <1>2, <1>3, <1>5, <1>6, <1>7 DEF Visit, ObjectsVisit

\* init.
LEMMA StartSession ==
    ASSUME "in" \in DataPipe, TypeOK, Visit, init \/ initCallback
    PROVE  Visit' /\ Stays /\ fault' = fault
           /\ \/ vport.state = "NOT_POWERED" /\ vport'.state = "DISCONNECTED"
              \/ vport'.state = vport.state /\ port_task' = port_task
  <1>1. PortVisit /\ ObjectsVisit /\ CtrlVisit /\ "in" \in Pipe /\ ViewType /\ PortType
    BY TypeParts DEF Visit, DataPipe
  <1>2. CASE init
    <2>1. Stays /\ fault' = fault /\ vport.state = "NOT_POWERED" /\ vport'.state = "DISCONNECTED" /\ port_task'.at = "blocked"
          /\ app = "boot"
      BY <1>1, <1>2 DEF init, PowerOnPort, CanPowerOn, hostPipeVars, Stays, ViewType, PortType
    <2>2. port_task.at = "none"
      BY <1>1, <2>1 DEF PortVisit, Hardware
    <2> QED BY <1>1, <1>2, <2>1, <2>2, PortStartsVisit, ObjectsPass, CtrlPasses, StaysCtrl DEF Visit
  <1>3. CASE initCallback
    <2>1. Stays /\ fault' = fault /\ vport' = vport /\ port_task' = port_task
      BY <1>3 DEF initCallback, viewVars, hostPipeVars, Stays
    <2> QED BY <1>1, <1>3, <2>1, CallbackVisit, ObjectsStill, CtrlPasses, StaysCtrl DEF Visit
  <1> QED BY <1>2, <1>3

\* The port task takes a message,
LEMMA ReceiveSession ==
    ASSUME "in" \in DataPipe, TypeOK, Visit, PortReceive
    PROVE  Visit' /\ Stays /\ fault' = fault /\ vport' = vport /\ port_task.at = "blocked" /\ port_task'.at = "handle"
  <1>1. PortVisit /\ ObjectsVisit /\ CtrlVisit /\ "in" \in Pipe
    BY DEF Visit, DataPipe
  <1>2. Stays /\ fault' = fault /\ vport' = vport /\ port_task.at = "blocked" /\ port_task'.at = "handle"
    BY DEF PortReceive, viewVars, hostPipeVars, Stays
  <1> QED BY <1>1, <1>2, PortReceiveVisit, ObjectsPass, CtrlPasses, StaysCtrl DEF Visit

\* and handles a connection, up to the end of the delay.
LEMMA ConnSession ==
    ASSUME "in" \in DataPipe, TypeOK, Visit, HandleConn \/ HandleConnEnd
    PROVE  Visit' /\ Stays /\ fault' = fault /\ vport.state = "DISCONNECTED" /\ Coming
           /\ port_task'.at \in {"debounce", "class"}
  <1>1. PortVisit /\ ObjectsVisit /\ CtrlVisit /\ "in" \in Pipe /\ PortType
    BY TypeParts DEF Visit, DataPipe
  <1>2. CASE HandleConn
    <2>1. Stays /\ fault' = fault /\ port_task.at = "handle"
      BY <1>2 DEF HandleConn, HandleConnEvent, hostPipeVars, Stays
    <2>2. PortVisit' /\ Coming /\ vport'.state = vport.state /\ port_task' = [port_task EXCEPT !.at = "debounce"]
      BY <1>1, <1>2, HandleConnVisit
    <2>3. Passes("handle", "debounce")
      BY <1>1, <2>1, <2>2 DEF PortType, Passes
    <2>4. vport.state = "DISCONNECTED"
      BY <1>1, <2>1, <2>2 DEF PortVisit, Handling, Arrived, Coming, Leaving
    <2> QED BY <1>1, <1>2, <2>1, <2>2, <2>3, <2>4, ObjectsPass, CtrlPasses, StaysCtrl DEF Visit, Passes
  <1>3. CASE HandleConnEnd
    <2>1. Stays /\ fault' = fault /\ port_task.at = "debounce"
      BY <1>3 DEF HandleConnEnd, DebounceEnd, hostPipeVars, Stays
    <2>2. /\ PortVisit' /\ Coming /\ vport'.state = "DISABLED" /\ vport.state = "DISCONNECTED"
          /\ port_task'.at = "class" /\ port_task'.event = port_task.event
      BY <1>1, <1>3, ConnEndVisit
    <2> QED BY <1>1, <2>1, <2>2, ObjectsPass, CtrlPasses, StaysCtrl DEF Visit, Passes
  <1> QED BY <1>2, <1>3

\* The class driver resets the port,
LEMMA ConnectSession ==
    ASSUME "in" \in DataPipe, TypeOK, Visit, port_task.at = "class", port_task.event = "CONNECTION", Connect
    PROVE  Visit' /\ Stays /\ fault' = fault /\ vport.state = "DISABLED" /\ vport'.state = "RESETTING" /\ port_task'.at = "reset"
  <1>1. PortVisit /\ ObjectsVisit /\ CtrlVisit /\ "in" \in Pipe /\ Coming
    BY DEF Visit, DataPipe, Coming
  <1>2. /\ PortVisit' /\ vport'.state = "RESETTING" /\ vport.state = "DISABLED"
        /\ port_task'.at = "reset" /\ port_task'.event = port_task.event
        /\ UNCHANGED <<drv, hostPipeVars>>
    BY <1>1, ConnectVisit
  <1>3. Stays /\ fault' = fault
    BY <1>2 DEF Stays, hostPipeVars
  <1> QED BY <1>1, <1>2, <1>3, ObjectsPass, CtrlPasses, StaysCtrl DEF Visit, Passes

\* and the reset ends.
LEMMA ResetSession ==
    ASSUME "in" \in DataPipe, TypeOK, PortInv, Visit, ConnectReset, vport.state # "RESETTING"
    PROVE  Visit' /\ Stays /\ fault' = fault /\ vport' = vport /\ port_task.at = "reset" /\ port_task'.at \in {"connected", "act"}
           /\ Coming /\ Life("ctrl") = "none" /\ UNCHANGED <<addr, ready, app, leaked>> /\ dev_addr' = 0
  <1>1. PortVisit /\ ObjectsVisit /\ CtrlVisit /\ "in" \in Pipe /\ PortType /\ port_task.at = "reset"
    BY TypeParts DEF Visit, DataPipe, ConnectReset
  <1> DEFINE next == IF vport.state = "ENABLED" /\ vport.conn_devc_ena THEN "connected" ELSE "act"
  <1>2. /\ Stays /\ fault' = fault /\ op' = "idle" /\ port_task' = [port_task EXCEPT !.at = next]
        /\ UNCHANGED <<vport, vhw, port_evtq, app, callback, addr, ready, leaked>> /\ dev_addr' = 0
    BY DEF ConnectReset, ResetPortEnd, Stays, PortGoto
  <1>3. port_task'.at = next /\ port_task'.event = port_task.event
    BY <1>1, <1>2 DEF PortType
  <1>4. Coming /\ Life("ctrl") = "none"
    BY <1>1, ComingInReset DEF ObjectsVisit, Nested
  <1>5. vport.state = "ENABLED" => vport.conn_devc_ena
    BY <1>1 DEF PortVisit, Hardware
  <1>6. PortVisit'
    BY <1>1, <1>2, <1>3, <1>4, <1>5, PortGoesVisit DEF Goes
  <1>7. (next = "connected" /\ Passes("reset", "connected")) \/ (next = "act" /\ Passes("reset", "act"))
    BY <1>1, <1>3 DEF Passes
  <1> HIDE DEF next
  <1>8. ObjectsVisit' /\ CtrlVisit'
    BY <1>1, <1>2, <1>4, <1>7, ObjectsPass, CtrlPasses, StaysCtrl
  <1> QED BY <1>1, <1>2, <1>4, <1>6, <1>7, <1>8 DEF Visit, Passes

\* What the port task does itself.
LEMMA ActSession ==
    ASSUME "in" \in DataPipe, TypeOK, PortInv, Visit, ActPowerOff \/ ActNothing \/ suddenDisconnect
    PROVE  Visit' /\ Stays /\ UNCHANGED <<fault, vport, addr, dev_addr, app, leaked>> /\ port_task.at = "act"
           /\ \/ Coming /\ port_task'.at = "blocked" /\ ready' = ready
              \/ Leaving /\ Leaving' /\ port_task'.at = "free_ctrl" /\ ready' = FALSE
  <1>1. PortVisit /\ ObjectsVisit /\ CtrlVisit /\ "in" \in Pipe /\ PortType /\ port_task.at = "act"
    BY TypeParts DEF Visit, DataPipe, ActPowerOff, ActNothing, suddenDisconnect
  <1>2. Coming \/ Leaving
    BY <1>1 DEF PortVisit, Connecting
  <1>3. ~ActPowerOff
    BY <1>2 DEF ActPowerOff, Coming, Leaving
  <1>4. CASE ActNothing
    <2>1. /\ Stays /\ UNCHANGED <<fault, vport, addr, dev_addr, ready, app, leaked, vhw, op, port_evtq, callback>>
          /\ port_task' = [port_task EXCEPT !.at = "blocked"] /\ Coming
      BY <1>2, <1>4 DEF ActNothing, Stays, PortGoto, viewVars, hostPipeVars, Coming, Leaving
    <2>2. port_task'.at = "blocked" /\ port_task'.event = port_task.event
      BY <1>1, <2>1 DEF PortType
    <2>3. PortVisit'
      BY <1>1, <2>1, <2>2, PortGoesVisit DEF Goes
    <2> QED BY <1>1, <2>1, <2>2, <2>3, ObjectsPass, CtrlPasses, StaysCtrl DEF Visit, Passes
  <1>5. CASE suddenDisconnect
    <2>1. /\ Stays /\ UNCHANGED <<fault, vport, addr, dev_addr, app, leaked, vhw, op, port_evtq, callback>> /\ ready' = FALSE
          /\ port_task' = [port_task EXCEPT !.at = "free_ctrl"] /\ Leaving
      BY <1>5 DEF suddenDisconnect, Stays, PortGoto, viewVars, hostPipeVars, Leaving
    <2>2. port_task'.at = "free_ctrl" /\ port_task'.event = port_task.event
      BY <1>1, <2>1 DEF PortType
    <2>3. PortVisit'
      BY <1>1, <2>1, <2>2, PortGoesVisit DEF Goes
    <2> QED BY <1>1, <2>1, <2>2, <2>3, ObjectsPass, CtrlPasses, StaysCtrl DEF Visit, Passes, Leaving
  <1> QED BY <1>3, <1>4, <1>5

\* freeCTRLpipe, recover and powerON.
LEMMA RecoverSession ==
    ASSUME "in" \in DataPipe, TypeOK, PortInv, Visit, freeCTRLpipe \/ recover \/ powerON
    PROVE  Visit' /\ fault' = fault /\ (\A p \in DataPipe : Life(p) = "none")
           /\ (\A p \in DataPipe : obj'[p] = obj[p] /\ drv'[p] = drv[p] /\ task'[p] = task[p] /\ evtq'[p] = evtq[p])
           /\ vport.state # "ENABLED" /\ vport'.state # "ENABLED" /\ UNCHANGED <<app, ready>>
           /\ (Life("ctrl") = "none")' /\ (task["ctrl"].at = "none")'
           /\ port_task.at \in {"free_ctrl", "recover", "power_on"} /\ port_task'.at \in {"recover", "power_on", "blocked"}
  <1>1. PortVisit /\ ObjectsVisit /\ CtrlVisit /\ "in" \in Pipe /\ "ctrl" \in Pipe /\ PortType
    BY TypeParts, HostPipeAssumption DEF Visit, DataPipe
  <1>2. CASE freeCTRLpipe
    <2>1. ObjectsVisit' /\ fault' = fault /\ Passes("free_ctrl", "recover") /\ UNCHANGED <<vport, addr, dev_addr>>
          /\ (\A p \in DataPipe : obj'[p] = obj[p] /\ drv'[p] = drv[p] /\ task'[p] = task[p] /\ evtq'[p] = evtq[p])
          /\ (Life("ctrl") = "none")' /\ \A p \in DataPipe : Life(p) = "none"
      BY <1>1, <1>2, CtrlLostObjects
    <2>2. PortVisit'
      BY <1>1, <1>2, <2>1, PortGoesVisit DEF Goes, Passes, freeCTRLpipe
    <2>3. vport.state = "RECOVERY"
      BY <1>1, <2>1 DEF PortVisit, Recovering, Passes
    <2>4. task'["ctrl"].at = "none"
      BY <1>1, <2>1 DEF ObjectsVisit, Owned, OwnedAt
    <2>5. CtrlVisit'
      BY <2>1, <2>4 DEF CtrlVisit, Chain, Enumerating, Unchained, Making, Life
    <2> QED BY <1>2, <2>1, <2>2, <2>3, <2>4, <2>5 DEF Visit, Passes, freeCTRLpipe
  <1>3. CASE recover \/ powerON
    <2>1. Stays /\ fault' = fault /\ UNCHANGED <<app, ready>>
      BY <1>3 DEF recover, powerON, RecoverPort, PowerOnPort, Stays, viewVars, hostPipeVars
    <2>2. \A p \in Pipe : OwnedAt(p)
      BY <1>1 DEF ObjectsVisit, Owned
    <2>3. \A p \in Pipe : Life(p) = "none" /\ ~drv[p].alloc /\ task[p].at = "none"
      <3>1. CASE port_task.at = "recover"
        <4>1. Life("ctrl") = "none"
          BY <1>1, <3>1 DEF ObjectsVisit, Nested
        <4>2. \A p \in Pipe : Life(p) = "none"
          BY <1>1, <4>1 DEF ObjectsVisit, Nested, DataPipe
        <4> QED BY <2>2, <4>2 DEF OwnedAt
      <3>2. CASE port_task.at = "power_on"
        <4>1. vport.state = "NOT_POWERED"
          BY <1>1, <3>2 DEF PortVisit, Recovering
        <4>2. \A p \in Pipe : Life(p) = "none"
          BY <2>2, <4>1 DEF OwnedAt
        <4> QED BY <2>2, <4>2 DEF OwnedAt
      <3> QED BY <1>3, <3>1, <3>2 DEF recover, powerON
    <2>4. (\A p \in DataPipe : Life(p) = "none")
           /\ (\A p \in DataPipe : obj'[p] = obj[p] /\ drv'[p] = drv[p] /\ task'[p] = task[p] /\ evtq'[p] = evtq[p])
           /\ (Life("ctrl") = "none")' /\ (task["ctrl"].at = "none")'
      BY <1>1, <2>1, <2>3 DEF Stays, Life, DataPipe
    <2>5. CASE recover
      <3>1. Existing = {}
        BY <2>3 DEF Existing
      <3>2. vport.state = "RECOVERY" /\ Leaving /\ port_task.at = "recover"
        BY <1>1, <2>5, ComingInReset DEF PortVisit, Recovering, recover
      <3>3. PortVisit' /\ vport'.state = "NOT_POWERED" /\ port_task'.at = "power_on" /\ port_task'.event = port_task.event
        BY <1>1, <2>5, <3>1, RecoverVisit
      <3> QED BY <1>1, <2>1, <2>4, <3>2, <3>3, ObjectsPass, CtrlPasses, StaysCtrl DEF Visit, Passes
    <2>6. CASE powerON
      <3>1. PortVisit' /\ vport'.state = "DISCONNECTED" /\ vport.state = "NOT_POWERED" /\ port_task'.at = "blocked"
        BY <1>1, <2>6, PowerOnVisit
      <3>2. port_task.at = "power_on"
        BY <2>6 DEF powerON
      <3> QED BY <1>1, <2>1, <2>4, <3>1, <3>2, ObjectsPass, CtrlPasses, StaysCtrl DEF Visit
    <2> QED BY <1>3, <2>5, <2>6
  <1> QED BY <1>2, <1>3

\* Without the first data pipe there are no data pipes.
LEMMA NoPipeAlone ==
    ASSUME "in" \in DataPipe, TypeOK, ObjectsVisit, Life("in") = "none"
    PROVE  /\ \A p \in DataPipe : Life(p) = "none" /\ ~drv[p].alloc
           /\ \A p \in Existing : p = "ctrl"
  <1>1. \A p \in DataPipe : Life(p) = "none" /\ p \in Pipe
    BY DEF ObjectsVisit, Nested, DataPipe
  <1>2. \A p \in DataPipe : ~drv[p].alloc
    BY <1>1 DEF ObjectsVisit, Owned, OwnedAt
  <1> QED BY <1>1, <1>2 DEF Existing, DataPipe

\* The pipe loses its device.
LEMMA LostCtrl ==
    ASSUME TypeOK, CtrlVisit, NEW p \in Existing, Invalidate(p), UNCHANGED <<obj, evtq, task>>,
           vport'.state = vport.state, Leaving, Leaving', port_task'.at = "post",
           port_task.at = "handle" \/ (port_task.at = "invalidate" /\ ~Enumerating)
    PROVE  CtrlVisit'
  <1>0. "ctrl" \in Pipe /\ drv["ctrl"] \in Driver_t /\ p \in Pipe
    BY HostPipeAssumption DEF TypeOK, Existing
  <1> DEFINE c == drv["ctrl"]
             d == drv'["ctrl"]
  <1>1. d = c \/ d = [Flush(c, "NO_DEVICE") EXCEPT !.state = "INVALID"]
    <2>1. CASE p = "ctrl"
      BY <1>0, <2>1 DEF Invalidate, TypeOK
    <2>2. CASE p # "ctrl"
      BY <1>0, <2>2, InvalidateFields
    <2> QED BY <2>1, <2>2
  <1>2. c \in Driver_t
    BY <1>0
  <1> HIDE DEF c, d
  <1>3. Requests(d) = Requests(c) /\ Len(c.done) <= Len(d.done) /\ Len(c.done) \in Nat /\ Len(d.done) \in Nat
    <2>1. Requests([Flush(c, "NO_DEVICE") EXCEPT !.state = "INVALID"]) = Requests(c)
      BY <1>2, FlushRequests, StatusesKnown
    <2>2. c.done \in Seq(IrpDone) /\ c.moving \o c.pending \in Seq(Irp)
      BY <1>2, DriverFields, RequestsType
    <2>3. Flush(c, "NO_DEVICE").done = c.done \o EndWith(c.moving \o c.pending, "NO_DEVICE") /\ Flush(c, "NO_DEVICE") \in Driver_t
      BY <1>2, FlushRequests, StatusesKnown
    <2>4. EndWith(c.moving \o c.pending, "NO_DEVICE") \in Seq(IrpDone)
      BY <2>2, NamesEndWith, StatusesKnown
    <2>5. [Flush(c, "NO_DEVICE") EXCEPT !.state = "INVALID"].done = Flush(c, "NO_DEVICE").done
      BY <2>3 DEF Driver_t
    <2> DEFINE a == c.done
               b == EndWith(c.moving \o c.pending, "NO_DEVICE")
    <2>6. a \in Seq(IrpDone) /\ b \in Seq(IrpDone) /\ (d.done = a \/ d.done = a \o b)
      BY <1>1, <2>2, <2>3, <2>4, <2>5
    <2> HIDE DEF a, b
    <2>7. Len(a) <= Len(d.done) /\ Len(a) \in Nat /\ Len(d.done) \in Nat
      BY <2>6
    <2> QED BY <1>1, <2>1, <2>7 DEF a
  <1>4. Requests(drv'["ctrl"]) = Requests(drv["ctrl"]) /\ Len(drv["ctrl"].done) <= Len(drv'["ctrl"].done)
        /\ Len(drv["ctrl"].done) \in Nat /\ Len(drv'["ctrl"].done) \in Nat /\ Len(evtq["ctrl"]) \in Nat
    BY <1>0, <1>3 DEF c, d, TypeOK
  <1>5. Chain'
    BY <1>4 DEF CtrlVisit, Chain, Enumerating, Life, Carries, Leaving
  <1>6. Unchained'
    BY <1>4 DEF CtrlVisit, Unchained, Life
  <1> QED BY <1>5, <1>6 DEF CtrlVisit

\* The driver handles the loss: the first pipe is invalidated,
LEMMA LostSession ==
    ASSUME "in" \in DataPipe, TypeOK, Visit, HandleLost
    PROVE  Visit' /\ UNCHANGED <<fault, obj, evtq, task, addr, dev_addr, ready, app>> /\ vport.state = "RECOVERY" /\ vport'.state = "RECOVERY"
           /\ Leaving /\ Leaving' /\ port_task.at = "handle" /\ port_task'.at \in {"class", "post"}
           /\ (Stays \/ \E p \in Existing : Invalidate(p))
  <1>1. PortVisit /\ ObjectsVisit /\ CtrlVisit /\ "in" \in Pipe /\ PortType
    BY TypeParts DEF Visit, DataPipe
  <1>2. /\ PortVisit' /\ vport'.state = vport.state /\ Leaving /\ vport.state = "RECOVERY"
    BY <1>1, HandleLostVisit
  <1>3. UNCHANGED <<fault, obj, evtq, task, addr, dev_addr, ready, app>> /\ port_task.at = "handle"
    BY DEF HandleLost, hostPipeVars
  <1>4. CASE HandleLossNoPipe /\ PortGoto("class")
    <2>1. Stays /\ Existing = {}
      BY <1>3, <1>4 DEF HandleLossNoPipe, Stays
    <2>2. Passes("handle", "class")
      BY <1>1, <1>3, <1>4 DEF PortGoto, Passes, PortType
    <2> QED BY <1>1, <1>2, <1>3, <2>1, <2>2, ObjectsPass, CtrlPasses, StaysCtrl DEF Visit, Passes, Leaving
  <1>5. ASSUME NEW p \in Pipe, HandleLoss(p), port_task' = [port_task EXCEPT !.at = "post", !.cur = p]
        PROVE  Visit' /\ p \in Existing /\ Invalidate(p) /\ Leaving' /\ port_task'.at = "post"
    <2>1. p \in Existing /\ Invalidate(p)
      BY <1>5 DEF HandleLoss
    <2>2. port_task'.at = "post" /\ port_task'.event = port_task.event
      BY <1>1, <1>5 DEF PortType
    <2>3. ObjectsVisit'
      BY <1>1, <1>2, <1>3, <1>5, <2>1, LostObjects
    <2>4. CtrlVisit'
      BY <1>1, <1>2, <1>3, <2>1, <2>2, LostCtrl DEF Leaving
    <2> QED BY <1>2, <2>1, <2>2, <2>3, <2>4 DEF Visit, Leaving
  <1> QED BY <1>2, <1>3, <1>4, <1>5 DEF HandleLost

\* or the next one,
LEMMA LostNextSession ==
    ASSUME "in" \in DataPipe, TypeOK, Visit, HandleLostNext
    PROVE  Visit' /\ UNCHANGED <<fault, obj, evtq, task, addr, dev_addr, ready, app, vport>> /\ vport.state = "RECOVERY"
           /\ Leaving /\ Leaving' /\ port_task.at = "invalidate" /\ port_task'.at \in {"class", "post"}
           /\ (Stays \/ \E p \in Existing : Invalidate(p))
  <1>1. PortVisit /\ ObjectsVisit /\ CtrlVisit /\ "in" \in Pipe /\ PortType
    BY TypeParts DEF Visit, DataPipe
  <1>2. UNCHANGED <<fault, obj, evtq, task, addr, dev_addr, ready, app, vport, vhw, port_evtq, callback>> /\ port_task.at = "invalidate"
    BY DEF HandleLostNext, InvalidateEnd, InvalidateNext, hostPipeVars
  <1>3. Leaving /\ vport.state = "RECOVERY"
    BY <1>1, <1>2 DEF PortVisit, Handling
  <1>4. CASE InvalidateEnd /\ PortGoto("class")
    <2>1. Stays /\ op' = "idle" /\ \A p \in Existing : drv[p].state = "INVALID"
      BY <1>2, <1>4 DEF InvalidateEnd, Stays
    <2>2. Passes("invalidate", "class")
      BY <1>1, <1>2, <1>4 DEF PortGoto, Passes, PortType
    <2>3. PortVisit'
      BY <1>1, <1>2, <2>1, <2>2, PortGoesVisit DEF Goes, Passes
    <2> QED BY <1>1, <1>2, <1>3, <2>1, <2>2, <2>3, ObjectsPass, CtrlPasses, StaysCtrl DEF Visit, Passes, Leaving
  <1>5. ASSUME NEW p \in Pipe, InvalidateNext(p), drv[p].state # "INVALID", port_task' = [port_task EXCEPT !.at = "post", !.cur = p]
        PROVE  Visit' /\ p \in Existing /\ Invalidate(p) /\ Leaving' /\ port_task'.at = "post"
    <2>1. p \in Existing /\ Invalidate(p) /\ op' = op
      BY <1>5 DEF InvalidateNext
    <2>2. port_task'.at = "post" /\ port_task'.event = port_task.event
      BY <1>1, <1>5 DEF PortType
    <2>3. ObjectsVisit'
      BY <1>1, <1>2, <1>3, <1>5, <2>1, LostObjects
    <2>4. ~Enumerating
      <3>1. SUFFICES ASSUME Life("in") = "none" PROVE FALSE
        BY DEF Enumerating
      <3>2. port_task.cur \in Pipe /\ drv[port_task.cur].state = "INVALID"
        BY <1>1, <1>2 DEF ObjectsVisit, Invalidated
      <3>3. port_task.cur \in Existing
        BY <1>1, <3>2 DEF ObjectsVisit, Owned, OwnedAt, NoPipeYet, Existing
      <3>4. port_task.cur = "ctrl" /\ p = "ctrl"
        BY <1>1, <2>1, <3>1, <3>3, NoPipeAlone
      <3> QED BY <1>5, <3>2, <3>4
    <2>5. CtrlVisit'
      BY <1>1, <1>2, <1>3, <2>1, <2>2, <2>4, LostCtrl DEF Leaving
    <2>6. PortVisit'
      BY <1>1, <1>2, <2>1, <2>2, PortGoesVisit DEF Goes
    <2> QED BY <1>3, <2>1, <2>2, <2>3, <2>5, <2>6 DEF Visit, Leaving
  <1> QED BY <1>2, <1>3, <1>4, <1>5 DEF HandleLostNext

\* and its task is told.
LEMMA PostSession ==
    ASSUME "in" \in DataPipe, TypeOK, Visit, PostInvalid
    PROVE  Visit' /\ UNCHANGED <<fault, drv, obj, task, vport, addr, dev_addr, leaked, ready, app>>
           /\ Passes("post", "invalidate") /\ vport.state = "RECOVERY"
           /\ \A r \in Pipe : evtq'[r] = IF r = port_task.cur THEN Append(evtq[r], "INVALID") ELSE evtq[r]
  <1>1. PortVisit /\ ObjectsVisit /\ CtrlVisit /\ "in" \in Pipe
    BY DEF Visit, DataPipe
  <1>2. ObjectsVisit' /\ UNCHANGED <<fault, drv, obj, task, vport, addr, dev_addr, leaked>> /\ Passes("post", "invalidate")
           /\ \A r \in Pipe : evtq'[r] = IF r = port_task.cur THEN Append(evtq[r], "INVALID") ELSE evtq[r]
    BY <1>1, PostObjects
  <1>3. UNCHANGED <<vhw, op, port_evtq, callback, app, ready>>
    BY DEF PostInvalid, viewVars
  <1>4. PortVisit' /\ vport.state = "RECOVERY"
    BY <1>1, <1>2, <1>3, PortGoesVisit DEF Goes, Passes, PortVisit, Handling
  <1>5. CtrlVisit'
    BY <1>1, <1>2 DEF CtrlVisit, Chain, Unchained, Enumerating, Life, Carries, Passes, Leaving
  <1> QED BY <1>2, <1>3, <1>4, <1>5 DEF Visit

\* The control pipe is made.
LEMMA NewCtrlSession ==
    ASSUME "in" \in DataPipe, TypeOK, PortInv, Visit, addCTRLpipe
    PROVE  Visit' /\ UNCHANGED <<fault, vport, drv, evtq, addr, dev_addr, leaked, ready, app>> /\ Passes("connected", "alloc_pipe")
           /\ drv["ctrl"] = NoPipeYet /\ task'["ctrl"] = TaskIn("created") /\ evtq'["ctrl"] = << >> /\ (Life("ctrl") = "raw")'
           /\ \A r \in DataPipe : obj'[r] = obj[r] /\ evtq'[r] = evtq[r] /\ task'[r] = task[r]
  <1>1. PortVisit /\ ObjectsVisit /\ CtrlVisit
    BY DEF Visit
  <1>2. ObjectsVisit' /\ fault' = fault /\ Passes("connected", "alloc_pipe")
           /\ UNCHANGED <<vport, drv, evtq, addr, dev_addr, leaked>> /\ drv["ctrl"] = NoPipeYet
           /\ task'["ctrl"] = TaskIn("created") /\ evtq'["ctrl"] = << >> /\ (Life("ctrl") = "raw")'
           /\ \A r \in DataPipe : obj'[r] = obj[r] /\ evtq'[r] = evtq[r] /\ task'[r] = task[r]
    BY <1>1, CtrlObjects
  <1>3. UNCHANGED <<vhw, op, port_evtq, callback, app, ready>>
    BY DEF addCTRLpipe, viewVars
  <1>4. PortVisit'
    BY <1>1, <1>2, <1>3, PortGoesVisit, ComingInReset DEF Goes, Passes
  <1>5. Life("in") = "none" /\ (Life("in") = "none")'
    <2>1. Life("ctrl") = "none"
      BY <1>1, <1>2 DEF Passes, ObjectsVisit, Nested
    <2> QED BY <1>1, <1>2, <2>1 DEF ObjectsVisit, Nested, Life
  <1>6. CtrlVisit'
    BY <1>2, <1>5 DEF CtrlVisit, Chain, Unchained, Enumerating, Making, TaskIn
  <1> QED BY <1>2, <1>3, <1>4, <1>6 DEF Visit

\* Its driver's part.
LEMMA AllocCtrlSession ==
    ASSUME "in" \in DataPipe, TypeOK, PortInv, Visit, addCTRLpipeEnd
    PROVE  Visit' /\ UNCHANGED <<fault, vport, evtq, dev_addr, leaked, ready, app>> /\ Passes("alloc_pipe", "get_desc")
           /\ drv'["ctrl"] = [NoPipeYet EXCEPT !.alloc = TRUE] /\ task'["ctrl"] = TaskIn("blocked") /\ evtq["ctrl"] = << >>
           /\ task["ctrl"] = TaskIn("created")
           /\ (\A r \in DataPipe : task'[r] = task[r])
           /\ addr' = [addr EXCEPT !["ctrl"] = 0] /\ (Life("ctrl") = "whole")' /\ Life("in") = "none"
           /\ \A r \in DataPipe : obj'[r] = obj[r] /\ drv'[r] = drv[r]
  <1>1. PortVisit /\ ObjectsVisit /\ CtrlVisit
    BY DEF Visit
  <1>2. ObjectsVisit' /\ UNCHANGED <<fault, vport, evtq, dev_addr, leaked>> /\ Passes("alloc_pipe", "get_desc")
           /\ drv'["ctrl"] = [NoPipeYet EXCEPT !.alloc = TRUE] /\ task'["ctrl"] = TaskIn("blocked") /\ evtq["ctrl"] = << >>
           /\ task["ctrl"] = TaskIn("created")
           /\ (\A r \in DataPipe : task'[r] = task[r])
           /\ addr' = [addr EXCEPT !["ctrl"] = 0] /\ (Life("ctrl") = "whole")' /\ Life("in") = "none"
           /\ \A r \in DataPipe : obj'[r] = obj[r] /\ drv'[r] = drv[r]
    BY <1>1, CtrlEndObjects
  <1>3. UNCHANGED <<vhw, op, port_evtq, callback, app, ready>>
    BY DEF addCTRLpipeEnd
  <1>4. PortVisit'
    BY <1>1, <1>2, <1>3, PortGoesVisit, ComingInReset DEF Goes, Passes
  <1>5. (Life("in") = "none")' /\ task'["ctrl"] = TaskIn("blocked") /\ evtq'["ctrl"] = << >>
    BY <1>2 DEF Life
  <1>6. Requests(drv'["ctrl"]) = << >> /\ drv'["ctrl"].state = "ACTIVE" /\ drv'["ctrl"].done = << >>
    BY <1>2, NoRequests DEF NoPipeYet
  <1>7. << >> # <<"DEV_DESC">> /\ Len(<< >>) = 0
    BY ShortSeqs
  <1>8. port_task'.at = "get_desc"
    BY <1>2 DEF Passes
  <1>9. CtrlVisit'
    BY <1>5, <1>6, <1>7, <1>8 DEF CtrlVisit, Chain, Unchained, Carries, Making, TaskIn
  <1> QED BY <1>2, <1>3, <1>4, <1>9 DEF Visit

\* The first two requests.
LEMMA RequestSession ==
    ASSUME "in" \in DataPipe, TypeOK, PortInv, Visit, NEW req \in Irp, SubmitIrp("ctrl", req),
           UNCHANGED <<vport, vhw, op, obj, evtq, task, addr, dev_addr, port_evtq, app, callback, ready>>, NEW next,
           port_task' = [port_task EXCEPT !.at = next],
           (port_task.at = "get_desc" /\ next = "set_addr" /\ req = "DEV_DESC")
             \/ (port_task.at = "set_addr" /\ next = "act" /\ req = "SET_ADDR")
    PROVE  Visit' /\ fault' = fault /\ Passes(port_task.at, next) /\ vport.state = "ENABLED" /\ Coming
           /\ drv'["ctrl"] = Enqueue(drv["ctrl"], req) /\ leaked' = leaked /\ Enumerating
           /\ \A r \in DataPipe : drv'[r] = drv[r]
  <1>1. PortVisit /\ ObjectsVisit /\ CtrlVisit /\ "ctrl" \in Pipe /\ drv["ctrl"] \in Driver_t
    BY HostPipeAssumption DEF Visit, TypeOK
  <1>2. ObjectsVisit' /\ fault' = fault /\ Passes(port_task.at, next) /\ Life("ctrl") = "whole" /\ Coming
           /\ vport.state = "ENABLED"
    BY <1>1, RequestObjects
  <1>3. PortVisit'
    BY <1>1, <1>2, PortGoesVisit, ComingInReset DEF Goes, Passes
  <1>4. Enumerating
    BY <1>1, <1>2 DEF Enumerating, ObjectsVisit, Nested, Leaving, Coming
  <1>5. task["ctrl"].at = "blocked" /\ drv["ctrl"].state = "ACTIVE"
        /\ (port_task.at = "get_desc" => Requests(drv["ctrl"]) = << >>)
        /\ (port_task.at = "set_addr" => Requests(drv["ctrl"]) = <<"DEV_DESC">>)
        /\ Len(evtq["ctrl"]) <= Len(drv["ctrl"].done)
    BY <1>1, <1>4 DEF CtrlVisit, Chain
  <1>6. drv["ctrl"].alloc
    BY <1>1, <1>2 DEF ObjectsVisit, Owned, OwnedAt
  <1>7. drv'["ctrl"] = Enqueue(drv["ctrl"], req) /\ leaked' = leaked /\ \A r \in Pipe \ {"ctrl"} : drv'[r] = drv[r]
    BY <1>1, <1>2, <1>5, <1>6, SubmitFields DEF Accepts
  <1>8. Requests(drv'["ctrl"]) = Append(Requests(drv["ctrl"]), req) /\ drv'["ctrl"].done = drv["ctrl"].done /\ drv'["ctrl"].state = "ACTIVE"
    BY <1>1, <1>5, <1>7, EnqueueRequests, EnqueueKeeps
  <1>9. \/ Requests(drv'["ctrl"]) = <<"DEV_DESC">> /\ port_task'.at = "set_addr"
        \/ Requests(drv'["ctrl"]) = <<"DEV_DESC", "SET_ADDR">> /\ port_task'.at = "act" /\ ~Leaving'
    <2> DEFINE r == Requests(drv["ctrl"])
               rn == Requests(drv'["ctrl"])
    <2>1. rn = Append(r, req) /\ (port_task.at = "get_desc" => r = << >>) /\ (port_task.at = "set_addr" => r = <<"DEV_DESC">>)
      BY <1>5, <1>8
    <2> HIDE DEF r, rn
    <2>a. \A a, b : Append(<< >>, a) = <<a>> /\ Append(<<a>>, b) = <<a, b>>
      BY ShortSeqs
    <2>b. (port_task.at = "get_desc" => req = "DEV_DESC") /\ (port_task.at = "set_addr" => req = "SET_ADDR")
      OBVIOUS
    <2>c. Append(<< >>, "DEV_DESC") = <<"DEV_DESC">> /\ Append(<<"DEV_DESC">>, "SET_ADDR") = <<"DEV_DESC", "SET_ADDR">>
      BY <2>a
    <2>2. (port_task.at = "get_desc" => rn = <<"DEV_DESC">>) /\ (port_task.at = "set_addr" => rn = <<"DEV_DESC", "SET_ADDR">>)
      BY ONLY <2>1, <2>b, <2>c
    <2> QED BY <1>2, <2>2 DEF rn, Passes, Coming, Leaving
  <1>10. ~Carries' /\ Life("in")' = "none" /\ task'["ctrl"].at = "blocked" /\ Len(evtq'["ctrl"]) <= Len(drv'["ctrl"].done)
    BY <1>4, <1>5, <1>8 DEF Carries, Enumerating, Life
  <1>11. Chain'
    <2> DEFINE rn == Requests(drv'["ctrl"])
    <2>1. (rn = <<"DEV_DESC">> /\ port_task'.at = "set_addr") \/ (rn = <<"DEV_DESC", "SET_ADDR">> /\ port_task'.at = "act")
      BY <1>9
    <2> HIDE DEF rn
    <2>2. /\ rn \in {<< >>, <<"DEV_DESC">>, <<"DEV_DESC", "SET_ADDR">>, <<"SET_ADDR">>, <<"SET_CFG">>, <<"CFG_DESC">>}
          /\ rn = <<"DEV_DESC">> <=> port_task'.at = "set_addr"
          /\ port_task'.at # "get_desc"
      BY <2>1, ShortSeqs
    <2>3. drv'["ctrl"].state = "ACTIVE"
      BY <1>8
    <2>4. /\ Requests(drv'["ctrl"]) \in {<< >>, <<"DEV_DESC">>, <<"DEV_DESC", "SET_ADDR">>, <<"SET_ADDR">>, <<"SET_CFG">>, <<"CFG_DESC">>}
          /\ Requests(drv'["ctrl"]) = <<"DEV_DESC">> <=> port_task'.at = "set_addr"
          /\ port_task'.at # "get_desc"
      BY <2>2 DEF rn
    <2> QED BY ONLY <1>10, <2>3, <2>4 DEF Chain
  <1>12. CtrlVisit'
    BY <1>10, <1>11 DEF CtrlVisit, Unchained, Making
  <1> QED BY <1>1, <1>2, <1>3, <1>4, <1>7, <1>12 DEF Visit, DataPipe

\* The class driver deletes the data pipes.
LEMMA DataLostSession ==
    ASSUME "in" \in DataPipe, TypeOK, Visit, NEW S \in SUBSET DataPipe, DeletePipes(S, "set"),
           UNCHANGED <<vport, vhw, op, port_evtq, callback, app>>, port_task.at = "class", Leaving, port_task' = [port_task EXCEPT !.at = "act"],
           \A p \in S : obj[p].ptr = "set", \A p \in DataPipe \ S : Life(p) = "none"
    PROVE  Visit' /\ fault' = fault /\ Passes("class", "act") /\ vport.state = "RECOVERY"
           /\ (\A p \in DataPipe : Life(p) = "none")'
           /\ \A p \in Pipe \ S : obj'[p] = obj[p] /\ drv'[p] = drv[p] /\ task'[p] = task[p] /\ evtq'[p] = evtq[p]
  <1>1. PortVisit /\ ObjectsVisit /\ CtrlVisit
    BY DEF Visit
  <1>2. ObjectsVisit' /\ fault' = fault /\ Passes("class", "act")
           /\ (\A p \in DataPipe : Life(p) = "none")'
           /\ \A p \in Pipe \ S : obj'[p] = obj[p] /\ drv'[p] = drv[p] /\ task'[p] = task[p] /\ evtq'[p] = evtq[p]
    BY <1>1, DataLostObjects
  <1>3. PortVisit' /\ vport.state = "RECOVERY"
    BY <1>1, <1>2, PortGoesVisit DEF Goes, Passes, PortVisit, Handling, Coming, Leaving
  <1>4. ~Enumerating' /\ Life("in")' = "none"
    BY <1>2 DEF Enumerating, Passes, Leaving
  <1>5. task'["ctrl"] = task["ctrl"]
    BY <1>2, HostPipeAssumption DEF DataPipe
  <1>6. CtrlVisit'
    BY <1>1, <1>4, <1>5 DEF CtrlVisit, Chain, Unchained
  <1> QED BY <1>2, <1>3, <1>6 DEF Visit

\* A transfer on the control pipe succeeds.
LEMMA DoneLength ==
    ASSUME NEW q \in Seq(Event), NEW event \in Event, NEW done \in Seq(IrpDone), NEW x \in IrpDone,
           NEW qn, qn = IF Len(q) < QueueLen THEN Append(q, event) ELSE q
    PROVE  Len(q) <= Len(done) => Len(qn) <= Len(Append(done, x))
  OBVIOUS

\* A transfer on the control pipe succeeds.
LEMMA TransferCtrl ==
    ASSUME TypeOK, CtrlVisit, TransferDone("ctrl"), UNCHANGED <<vport, port_task>>
    PROVE  CtrlVisit'
  <1>0. "ctrl" \in Pipe /\ drv["ctrl"] \in Driver_t /\ evtq["ctrl"] \in Seq(Event) /\ "IRP_DONE" \in Event
    BY HostPipeAssumption DEF TypeOK, Event
  <1>1. UNCHANGED <<obj, task>> /\ drv["ctrl"].state = "ACTIVE" /\ drv["ctrl"].moving # << >>
    BY DEF TransferDone, ChanDone, OnBus
  <1> DEFINE c == drv["ctrl"]
             d == drv'["ctrl"]
  <1>2. d = Filled(Oldest(c, "COMPLETED")) /\ evtq'["ctrl"] = IF Len(evtq["ctrl"]) < QueueLen THEN Append(evtq["ctrl"], "IRP_DONE") ELSE evtq["ctrl"]
    BY <1>0 DEF TransferDone, ChanDone, Posted, TypeOK
  <1>3. c \in Driver_t /\ c.moving # << >> /\ c.state = "ACTIVE"
    BY <1>0, <1>1
  <1> HIDE DEF c, d
  <1>4. Oldest(c, "COMPLETED") \in Driver_t /\ Requests(Oldest(c, "COMPLETED")) = Requests(c)
    BY <1>3, OldestRequests, StatusesKnown
  <1>5. Requests(d) = Requests(c) /\ d.state = "ACTIVE" /\ d.done = Append(c.done, [irp |-> Head(c.moving), status |-> "COMPLETED"])
    BY <1>2, <1>3, <1>4, FilledRequests, FilledFields, OldestFields
  <1>6. [irp |-> Head(c.moving), status |-> "COMPLETED"] \in IrpDone /\ c.done \in Seq(IrpDone)
    BY <1>3, DriverFields DEF IrpDone
  <1>7. Len(evtq["ctrl"]) <= Len(c.done) => Len(evtq'["ctrl"]) <= Len(d.done)
    BY <1>0, <1>2, <1>5, <1>6, DoneLength
  <1>8. Requests(drv'["ctrl"]) = Requests(drv["ctrl"]) /\ drv'["ctrl"].state = drv["ctrl"].state
        /\ (Len(evtq["ctrl"]) <= Len(drv["ctrl"].done) => Len(evtq'["ctrl"]) <= Len(drv'["ctrl"].done))
    BY <1>3, <1>5, <1>7 DEF c, d
  <1>9. Chain'
    BY <1>1, <1>8 DEF CtrlVisit, Chain, Enumerating, Life, Carries, Leaving
  <1>10. Unchained'
    BY <1>1, <1>8 DEF CtrlVisit, Unchained, Life
  <1> QED BY <1>1, <1>9, <1>10 DEF CtrlVisit

\* Transfers keep the visit.
LEMMA TransferSession ==
    ASSUME "in" \in DataPipe, TypeOK, Visit, NEW p \in Pipe, UNCHANGED <<vport, vhw, op, portVars>>,
           TransferDone(p) \/ (p \in DataPipe /\ \E event \in ErrorEvent : TransferFailed(p, event))
    PROVE  Visit' /\ OneMoves(p) /\ UNCHANGED <<task, fault, leaked, addr>>
  <1>1. PortVisit /\ ObjectsVisit /\ CtrlVisit /\ Owned
    BY DEF Visit, ObjectsVisit
  <1>2. OneMoves(p) /\ UNCHANGED <<task, fault, leaked, addr>>
    BY <1>1, TransferMoves
  <1>3. PortVisit'
    BY <1>1, PortVisitStill DEF portVars
  <1>4. ObjectsVisit'
    BY <1>1, <1>2, OneMovesAll, MoveObjects DEF portVars
  <1>5. CtrlVisit'
    <2>1. CASE p = "ctrl"
      BY <1>1, <2>1, TransferCtrl DEF portVars, DataPipe
    <2>2. CASE p # "ctrl"
      <3>1. CtrlStill
        BY <1>2, <2>2, HostPipeAssumption DEF OneMoves, CtrlStill
      <3> QED BY <1>1, <3>1, CtrlStands DEF portVars
    <2> QED BY <2>1, <2>2
  <1> QED BY <1>2, <1>3, <1>4, <1>5 DEF Visit

\* More requests of the class.
LEMMA AppendUnchained ==
    ASSUME NEW s \in Seq(Irp), NEW req \in Irp \ Chained, \A k \in DOMAIN s : s[k] \notin Chained
    PROVE  Append(s, req) \in Seq(Irp) /\ \A k \in DOMAIN Append(s, req) : Append(s, req)[k] \notin Chained
  OBVIOUS

\* The control pipe with such requests, once the data pipes are there.
LEMMA CtrlMore ==
    ASSUME CtrlVisit, UNCHANGED <<obj, vport>>, Life("in") # "none",
           NEW s, s = Requests(drv'["ctrl"]), \A k \in DOMAIN s : s[k] \notin Chained,
           (task'["ctrl"].at = task["ctrl"].at /\ task'["ctrl"].irp = task["ctrl"].irp) \/ task'["ctrl"].at \in {"free", "report_map"}
    PROVE  CtrlVisit'
  BY DEF CtrlVisit, Chain, Unchained, Enumerating, Life, Making

\* There is no device yet.
LEMMA VisitInit ==
    ASSUME "in" \in DataPipe, Init
    PROVE  Visit
  <1>1. PortVisit
    BY DEF Init, ViewInit, PortVisit, Waits, Handling, Connecting, Recovering, Operates, Hardware, Calm, Coming, Leaving
  <1>2. \A p \in Pipe : obj[p] = [ptr |-> "null", life |-> "none"] /\ task[p] = TaskIn("none") /\ drv[p] = NoPipeYet /\ evtq[p] = << >>
    BY DEF Init, PipesInit, ViewInit
  <1>3. "ctrl" \in Pipe /\ "in" \in Pipe /\ port_task.at = "none" /\ vport.state = "NOT_POWERED"
    BY HostPipeAssumption DEF DataPipe, Init, ViewInit
  <1>4. ObjectsVisit
    BY <1>2, <1>3 DEF ObjectsVisit, Owned, OwnedAt, Life, TaskIn, NoPipeYet, Pointers, Nested, Invalidated, DataPipe
  <1>5. CtrlVisit
    BY <1>2, <1>3 DEF CtrlVisit, Chain, Unchained, Enumerating, Life, TaskIn, Making
  <1> QED BY <1>1, <1>4, <1>5 DEF Visit

=============================================================================
