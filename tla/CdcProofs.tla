------------------------------ MODULE CdcProofs ------------------------------
(***************************************************************************)
(* The CDC class driver on the port of the host layer: every step of it,   *)
(* of the application and of the device keeps PortInv, and with it the     *)
(* port's events and messages are safe (MCCdc!PortSafe); and in a session  *)
(* it keeps the visit (CdcVisit), and with it the pipes are safe           *)
(* (MCCdc!SessionSafe), and what it says to the device (CdcTalk), and with *)
(* it the transfers go to that device (MCCdc!AddressAgrees), the chain of  *)
(* its requests goes on (MCCdc!ChainAlive), and none is refused while the  *)
(* device is there (MCCdc!NoneLostWhileThere).                             *)
(***************************************************************************)
EXTENDS MCCdc, CdcTalk, HostProofs

-----------------------------------------------------------------------------
(* The types of the pipes through the callbacks *)

\* A task goes to another place.
LEMMA PipeGoesType ==
    ASSUME PipesType, NEW p \in Pipe, NEW at \in TaskAt, Goto(p, at),
           UNCHANGED <<drv, obj, evtq, addr, dev_addr, leaked, fault>>
    PROVE  PipesType'
  BY GotoType DEF PipesType, DrvType, LeakedType, QueuesType, ObjectsType

\* begin: a new pipe, and the task that makes it goes on.
LEMMA BeginType ==
    ASSUME PipesType, NEW p \in Pipe, NEW at, NEW next, next[1] \in TaskAt, next[2] \in TaskAt,
           Begin(p, at, next)
    PROVE  PipesType'
  <1> DEFINE s == StartTask(p, task)
             n == IF vport.conn_devc_ena THEN next[1] ELSE next[2]
             t == [s EXCEPT !["ctrl"].at = n]
  <1>1. s \in [Pipe -> Task] /\ n \in TaskAt
    BY StartTaskType
  <1>2. NewPipe(p) /\ task' = t /\ UNCHANGED <<drv, evtq, addr, dev_addr, leaked>>
    BY DEF Begin
  <1> HIDE DEF s, n
  <1>3. t \in [Pipe -> Task]
    BY <1>1, HostPipeAssumption DEF Task
  <1> HIDE DEF t
  <1> QED BY <1>2, <1>3, NewPipeType

\* begin: the driver's part of the pipe.
LEMMA BeginAllocType ==
    ASSUME PipesType, NEW p \in Pipe, NEW at, NEW next \in TaskAt, BeginAlloc(p, at, next)
    PROVE  PipesType'
  <1>1. DrvType' /\ QueuesType' /\ obj' \in [Pipe -> Object] /\ addr' \in [Pipe -> {0, Address}]
    BY AllocPipeType DEF BeginAlloc
  <1> DEFINE s == QueueTask(p, task)
  <1>2. s \in [Pipe -> Task] /\ task' = [s EXCEPT !["ctrl"].at = next]
    BY QueueTaskType DEF BeginAlloc
  <1> HIDE DEF s
  <1>3. task' \in [Pipe -> Task]
    BY <1>2, HostPipeAssumption DEF Task
  <1> QED BY <1>1, <1>3 DEF BeginAlloc, PipesType, LeakedType, ObjectsType

\* usbh_cdc_device_ready.
LEMMA DeviceReadyType ==
    ASSUME PipesType, DeviceReady
    PROVE  PipesType' /\ ready'
  <1>1. {"ctrl", "in"} \subseteq Pipe /\ "LINE" \in Irp /\ Payload \subseteq Irp
    BY HostPipeAssumption, CdcAssumption
  <1>2. /\ ready' /\ Goto("ctrl", "free") /\ "free" \in TaskAt
        /\ UNCHANGED <<obj, evtq, addr, dev_addr>>
    BY DEF DeviceReady, TaskAt
  <1>3. task' \in [Pipe -> Task]
    BY <1>1, <1>2, GotoType DEF PipesType
  <1>4. PICK data \in Payload :
          \/ /\ drv' = [drv EXCEPT !["ctrl"] = IF Accepts("ctrl") THEN Enqueue(Enqueue(@, "LINE"), "LINE") ELSE @,
                                     !["in"] = IF Accepts("in") THEN Enqueue(@, data) ELSE @]
             /\ Leak((IF Accepts("ctrl") THEN 0 ELSE 2) + (IF Accepts("in") THEN 0 ELSE 1))
             /\ UNCHANGED fault
          \/ fault' = "use" /\ UNCHANGED <<drv, leaked>>
    BY DEF DeviceReady
  <1>5. CASE fault' = "use" /\ UNCHANGED <<drv, leaked>>
    BY <1>2, <1>3, <1>5 DEF PipesType, DrvType, LeakedType, QueuesType, ObjectsType
  <1>6. CASE /\ drv' = [drv EXCEPT !["ctrl"] = IF Accepts("ctrl") THEN Enqueue(Enqueue(@, "LINE"), "LINE") ELSE @,
                                    !["in"] = IF Accepts("in") THEN Enqueue(@, data) ELSE @]
             /\ Leak((IF Accepts("ctrl") THEN 0 ELSE 2) + (IF Accepts("in") THEN 0 ELSE 1))
             /\ UNCHANGED fault
    <2> DEFINE c == IF Accepts("ctrl") THEN Enqueue(Enqueue(drv["ctrl"], "LINE"), "LINE") ELSE drv["ctrl"]
               i == IF Accepts("in") THEN Enqueue(drv["in"], data) ELSE drv["in"]
               n == (IF Accepts("ctrl") THEN 0 ELSE 2) + (IF Accepts("in") THEN 0 ELSE 1)
    <2>1. drv["ctrl"] \in Driver_t /\ drv["in"] \in Driver_t
      BY <1>1 DEF PipesType, DrvType
    <2>2. c \in Driver_t /\ i \in Driver_t
      BY <1>1, <2>1, EnqueueType
    <2>3. drv' = [[drv EXCEPT !["ctrl"] = c] EXCEPT !["in"] = i]
      BY <1>6
    <2>4. DrvType'
      <3> HIDE DEF c, i
      <3> QED BY <1>1, <2>2, <2>3 DEF PipesType, DrvType
    <2>5. n \in Nat /\ Leak(n)
      BY <1>6
    <2>6. LeakedType'
      <3> HIDE DEF n
      <3> QED BY <2>5, LeakType DEF PipesType
    <2> QED BY <1>2, <1>3, <1>6, <2>4, <2>6 DEF PipesType, QueuesType, ObjectsType
  <1> QED BY <1>2, <1>4, <1>5, <1>6

\* in_pipe_cb and out_pipe_cb.
LEMMA DataCbType ==
    ASSUME PipesType, InCb \/ OutCb
    PROVE  PipesType'
  <1>1. {"in", "out"} \subseteq Pipe /\ Payload \subseteq Irp /\ "free" \in TaskAt
    BY CdcAssumption DEF TaskAt
  <1>2. ASSUME NEW p \in {"in", "out"} PROVE ClassReset(p) \in Driver_t
    <2>1. drv[p] \in Driver_t
      BY <1>1, <1>2 DEF PipesType, DrvType
    <2> QED BY <2>1, DriverTypes DEF ClassReset
  <1>3. CASE InCb
    <2> DEFINE d == ClassReset("in")
    <2>1. task' \in [Pipe -> Task] /\ UNCHANGED <<obj, evtq, addr, dev_addr, fault>>
      BY <1>1, <1>3, GotoType DEF InCb, PipesType
    <2>2. PICK data \in Payload :
            \/ drv' = [drv EXCEPT !["in"] = Enqueue(d, data)] /\ UNCHANGED leaked
            \/ drv' = [drv EXCEPT !["in"] = d] /\ Leak(1)
      BY <1>3 DEF InCb
    <2>3. d \in Driver_t
      BY <1>2
    <2> HIDE DEF d
    <2>4. Enqueue(d, data) \in Driver_t
      BY <1>1, <2>3, EnqueueType
    <2>5. DrvType'
      BY <1>1, <2>2, <2>3, <2>4, OneDriver DEF PipesType
    <2>6. LeakedType'
      <3>1. Leak(1) \/ UNCHANGED leaked
        BY <2>2
      <3> QED BY <3>1, LeakType DEF PipesType, LeakedType
    <2> QED BY <2>1, <2>5, <2>6 DEF PipesType, QueuesType, ObjectsType
  <1>4. CASE OutCb
    <2> DEFINE d == ClassReset("out")
    <2>1. /\ task' \in [Pipe -> Task] /\ UNCHANGED <<obj, evtq, addr, dev_addr, leaked, fault>>
          /\ drv' = [drv EXCEPT !["out"] = d]
      BY <1>1, <1>4, GotoType DEF OutCb, PipesType
    <2>2. d \in Driver_t
      BY <1>2
    <2> HIDE DEF d
    <2>3. DrvType'
      BY <1>1, <2>1, <2>2, OneDriver DEF PipesType
    <2> QED BY <2>1, <2>3 DEF PipesType, LeakedType, QueuesType, ObjectsType
  <1> QED BY <1>3, <1>4

-----------------------------------------------------------------------------
(* The steps *)

\* The class driver's callback of the port.
LEMMA PortCbKeeps ==
    ASSUME TypeOK, PortRest, PortCb
    PROVE  TypeOK' /\ PortRest'
  <1>1. CASE PortCbNone
    BY <1>1, PortPassesKeeps DEF PortCbNone
  <1>2. CASE PortCbConnection
    BY <1>2, PortResetsKeeps DEF PortCbConnection
  <1>3. CASE PortCbDeviceDesc
    BY <1>3, PortRequestsKeeps, HostPipeAssumption DEF PortCbDeviceDesc, getDeviceDescriptor
  <1>4. CASE PortCbSetAddr
    BY <1>4, PortRequestsKeeps, HostPipeAssumption DEF PortCbSetAddr, setDeviceAddress
  <1>5. CASE PortCbLost
    <2>1. {p \in DataPipe : obj[p].ptr = "set"} \in SUBSET Pipe
      BY DEF DataPipe
    <2> QED BY <1>5, <2>1, PortDeletesKeeps DEF PortCbLost
  <1> QED BY <1>1, <1>2, <1>3, <1>4, <1>5 DEF PortCb

\* The class driver's callbacks of the pipes.
LEMMA PipeCbKeeps ==
    ASSUME TypeOK, PortRest, PipeCb
    PROVE  TypeOK' /\ PortRest'
  <1>1. PipesType /\ PortType
    BY TypeParts
  <1>2. "ctrl" \in Pipe /\ "in" \in Pipe /\ "out" \in Pipe
    BY HostPipeAssumption, CdcAssumption
  <1>3. ASSUME CtrlCb PROVE PipesType'
    <2>1. PICK at \in {"begin_in", "free"} : Goto("ctrl", at)
      BY <1>3 DEF CtrlCb
    <2> QED BY <1>1, <1>2, <1>3, <2>1, PipeGoesType DEF CtrlCb, TaskAt
  <1>4. ASSUME begin PROVE PipesType'
    <2>1. CASE Begin("in", "begin_in", <<"begin_in_alloc", "begin_out">>)
      BY <1>1, <1>2, <2>1, BeginType DEF TaskAt
    <2>2. CASE BeginAlloc("in", "begin_in_alloc", "begin_out")
      BY <1>1, <1>2, <2>2, BeginAllocType DEF TaskAt
    <2>3. CASE Begin("out", "begin_out", <<"begin_out_alloc", "ready">>)
      BY <1>1, <1>2, <2>3, BeginType DEF TaskAt
    <2>4. CASE BeginAlloc("out", "begin_out_alloc", "ready")
      BY <1>1, <1>2, <2>4, BeginAllocType DEF TaskAt
    <2> QED BY <1>4, <2>1, <2>2, <2>3, <2>4 DEF begin
  <1>5. PipesType' /\ ready' \in BOOLEAN
    BY <1>1, <1>3, <1>4, DataCbType, DeviceReadyType DEF PipeCb, PortType
  <1> QED BY <1>1, <1>5, PipesMoveKeeps DEF PipeCb, PortType

\* The application.
LEMMA AppKeeps ==
    ASSUME TypeOK, PortRest, App
    PROVE  TypeOK' /\ PortRest'
  <1>1. PipesType /\ PortType
    BY TypeParts
  <1>2. "ctrl" \in Pipe /\ "out" \in Pipe /\ {"LINE", "STRING"} \union Payload \subseteq Irp
    BY HostPipeAssumption, CdcAssumption
  <1>3. CASE sendData
    <2>1. PipesType'
      BY <1>1, <1>3 DEF sendData, PipesType, DrvType, LeakedType, QueuesType, ObjectsType, viewVars, hostPipeVars
    <2> QED BY <1>1, <1>3, <2>1, PipesMoveKeeps DEF sendData, PortType, viewVars
  <1>4. CASE sendDataEnd
    <2>1. PICK data \in Payload : SubmitIrp("out", data)
      BY <1>4 DEF sendDataEnd, outData
    <2>2. DrvType' /\ LeakedType' /\ fault' \in {fault, "use"}
      BY <1>1, <1>2, <2>1, SubmitType
    <2>3. PipesType'
      BY <1>1, <1>4, <2>2 DEF sendDataEnd, PipesType, QueuesType, ObjectsType
    <2> QED BY <1>1, <1>4, <2>3, PipesMoveKeeps DEF sendDataEnd, PortType
  <1>5. ASSUME NEW req \in {"LINE", "STRING"}, CtrlRequest(req) PROVE TypeOK' /\ PortRest'
    <2>1. DrvType' /\ LeakedType' /\ fault' \in {fault, "use"}
      BY <1>1, <1>2, <1>5, SubmitType DEF CtrlRequest
    <2>2. PipesType'
      BY <1>1, <1>5, <2>1 DEF CtrlRequest, PipesType, QueuesType, ObjectsType
    <2> QED BY <1>1, <1>5, <2>2, PipesMoveKeeps DEF CtrlRequest, PortType, portVars
  <1> QED BY <1>3, <1>4, <1>5 DEF App, setLineCoding, getSerialString

\* Every step.
LEMMA PortInvNext == PortInv /\ [Next]_vars => PortInv'
  <1> SUFFICES ASSUME TypeOK, PortRest, [Next]_vars PROVE TypeOK' /\ PortRest'
    BY DEF PortInv, PortRest
  <1>1. CASE Tasks \/ Delay
    <2>1. CASE init \/ initCallback
      BY <2>1, PortPowersKeeps, CallbackSetKeeps
    <2>2. CASE PortTask \/ Delay \/ PortCb
      BY <2>2, PortTaskKeeps, PortCbKeeps
    <2>3. CASE \E p \in Pipe : PipeTask(p)
      BY <2>3, PipeTasksKeep
    <2> QED BY <1>1, <2>1, <2>2, <2>3, PipeCbKeeps DEF Tasks
  <1>2. CASE App
    BY <1>2, AppKeeps
  <1>3. CASE Interrupt
    <2>1. CASE Transfer \/ TransferError(ErrorEvent)
      BY <2>1, PipeTasksKeep
    <2>2. CASE TimeSlice
      BY <2>2, TimeSliceKeeps
    <2> QED BY <1>3, <2>1, <2>2, PortInterruptsKeep DEF Interrupt
  <1>4. CASE UNCHANGED vars
    <2>1. TypeOK'
      BY <1>4 DEF TypeOK, vars, viewVars, hostPipeVars, portVars
    <2> QED BY <1>4, <2>1, PortStill DEF vars, viewVars, portVars
  <1> QED BY <1>1, <1>2, <1>3, <1>4 DEF Next

\* What the run checks is part of it.
LEMMA PortInvSafe == PortInv => PortSafe
  <1> SUFFICES ASSUME PortInv PROVE PortSafe
    OBVIOUS
  <1>1. EventHasMessage
    BY DEF PortInv, MessageComes, EventHasMessage
  <1>2. ResetRefused
    <2> SUFFICES ASSUME port_task.at = "act", port_task.event = "SUDDEN_DISCONN" PROVE ~CanReset
      BY DEF ResetRefused
    <2>1. LossInHand
      BY DEF LossInHand
    <2> QED BY <2>1 DEF PortInv, LossStays, CanReset
  <1> QED BY <1>1, <1>2 DEF PortInv, PortSafe

-----------------------------------------------------------------------------

\* Whatever the device does - it comes and goes at any time, the port fails and
\* overloads, transfers fail - and whatever the application asks for: no event of the
\* driver is forgotten (hcd_port_handle_event is called for it), though the driver
\* keeps one and the queue a few messages, and the reset with which suddenDisconnect
\* begins is refused.
THEOREM PortIsSafe == Spec => []PortSafe
  <1>1. Spec => []PortInv
    BY PortInvInit, PortInvNext, PTL DEF Spec
  <1> QED BY <1>1, PortInvSafe, PTL

\* The specification of the port's run is one of these.
THEOREM AnyPortIsSafe == AnyPort => []PortSafe
  <1>1. [PortNext]_vars => [Next]_vars
    BY DEF PortNext, Next, Interrupt
  <1>2. AnyPort => Spec
    BY <1>1, PTL DEF AnyPort, Spec
  <1> QED BY <1>2, PortIsSafe, PTL

-----------------------------------------------------------------------------
(* The visit of a CDC device: the errors of its pipes                      *)

CdcPipes == "in" \in DataPipe /\ "out" \in DataPipe /\ "ctrl" \in Pipe /\ "in" \in Pipe /\ "out" \in Pipe

\* They are there, by the assumption.
LEMMA CdcPipesKnown == CdcPipes
  BY CdcAssumption, HostPipeAssumption DEF CdcPipes, DataPipe

\* A pipe that stays as it is.
LEMMA ErrorsStill ==
    ASSUME NEW p, ErrorsAt(p), drv'[p] = drv[p], task'[p] = task[p], evtq'[p] = evtq[p],
           drv[p].alloc /\ vport'.conn_devc_ena => vport.conn_devc_ena
    PROVE  ErrorsAt(p)'
  BY DEF ErrorsAt, Waiting, OnBus

\* A new message is none of a known error.
LEMMA WaitingAppend ==
    ASSUME NEW q \in Seq(Event), NEW event, event \notin Known, NEW k \in DOMAIN Append(q, event), Append(q, event)[k] \in Known
    PROVE  k \in DOMAIN q /\ Append(q, event)[k] = q[k]
  OBVIOUS

\* A message that is not taken was one further back.
LEMMA WaitingTail ==
    ASSUME NEW q \in Seq(Event), q # << >>, NEW k \in DOMAIN Tail(q)
    PROVE  k + 1 \in DOMAIN q /\ Tail(q)[k] = q[k + 1] /\ k \in Nat \ {0} /\ Head(q) = q[1] /\ 1 \in DOMAIN q
  OBVIOUS

\* The task takes a message.
LEMMA ErrorsReceive ==
    ASSUME TypeOK, NEW p \in Pipe, ErrorsAt(p), Receive(p), vport' = vport
    PROVE  ErrorsAt(p)'
  <1>1. evtq[p] \in Seq(Event) /\ evtq[p] # << >> /\ task[p].at = "blocked"
    BY DEF Receive, TypeOK
  <1>2. evtq'[p] = Tail(evtq[p]) /\ drv'[p].state = drv[p].state
        /\ (task'[p] = task[p] \/ (task'[p].at = "handle" /\ task'[p].event = Head(evtq[p])))
    <2>1. evtq'[p] = Tail(evtq[p])
          /\ \/ drv'[p] = drv[p] /\ task'[p] = task[p]
             \/ drv'[p].state = drv[p].state /\ task'[p] = [at |-> "handle", event |-> Head(evtq[p]), irp |-> Head(drv[p].done)]
      BY ReceiveFields
    <2> QED BY <2>1
  <1> DEFINE q == evtq[p]
             w == {k \in DOMAIN q : q[k] \in Known}
             wn == {k \in DOMAIN Tail(q) : Tail(q)[k] \in Known}
  <1>3. Waiting(p) = w /\ Waiting(p)' = wn
    BY <1>2 DEF Waiting
  <1>4. q \in Seq(Event) /\ q # << >>
    BY <1>1
  <1> HIDE DEF q
  <1>5. \A k \in wn : k + 1 \in w /\ k \in Nat \ {0}
    BY <1>4, WaitingTail
  <1>6. Head(q) \in Known => 1 \in w
    BY <1>4
  <1> HIDE DEF w, wn
  <1>7. \A j, k \in w : j = k
    BY <1>3 DEF ErrorsAt
  <1>8. (\A j, k \in wn : j = k) /\ (w = {} => wn = {}) /\ (Head(q) \in Known => wn = {} /\ w # {})
    <2>1. ASSUME NEW j \in wn, NEW k \in wn PROVE j = k
      <3>1. j + 1 = k + 1 /\ j \in Nat /\ k \in Nat
        BY <1>5, <1>7
      <3> QED BY <3>1
    <2>2. ASSUME Head(q) \in Known, NEW k \in wn PROVE FALSE
      <3>1. k + 1 = 1 /\ k \in Nat \ {0}
        BY <1>5, <1>6, <1>7, <2>2
      <3> QED BY <3>1
    <2> QED BY <1>5, <1>6, <2>1, <2>2
  <1> QED BY <1>1, <1>2, <1>3, <1>8 DEF ErrorsAt, q

\* The task goes on with a message that it has.
LEMMA ErrorsGo ==
    ASSUME TypeOK, NEW p \in Pipe, ErrorsAt(p), evtq'[p] = evtq[p], vport' = vport,
           NEW at, task'[p].at = at, task'[p].event = task[p].event,
           at \notin {"handle", "set_config"} \/ (at = "set_config" /\ task[p].event = "IRP_DONE"),
           at = "class" => task[p].event \notin Known,
           drv'[p].state = "ACTIVE" => drv[p].state = "ACTIVE" \/ Waiting(p) = {}
    PROVE  ErrorsAt(p)'
  BY DEF ErrorsAt, Waiting

\* The pipe is reset for the error.
LEMMA ErrorsHandled ==
    ASSUME TypeOK, NEW p \in Pipe, ErrorsAt(p), HandleError(p), vport' = vport
    PROVE  ErrorsAt(p)'
  <1>1. drv[p] \in Driver_t /\ task[p].at = "handle" /\ task[p].event \in Known /\ evtq'[p] = evtq[p] /\ Goto(p, "class") /\ reset(p)
    BY DEF HandleError, Handles, Known, TypeOK
  <1>2. task'[p].at = "class" /\ task'[p].event = task[p].event
    BY <1>1, GotoFields
  <1>3. drv'[p] = IF CanCommand(p) THEN ResetPipe(drv[p]) ELSE drv[p]
    BY <1>1, ResetFields
  <1>4. CanCommand(p) => drv'[p].moving = << >>
    BY <1>1, <1>3, ResetKeeps DEF CanCommand
  <1>5. ~OnBus(p)'
    BY <1>1, <1>3, <1>4 DEF CanCommand, OnBus
  <1> QED BY <1>1, <1>2, <1>5 DEF ErrorsAt, Waiting

\* A request does not change the state of the pipe.
LEMMA ErrorsSubmit ==
    ASSUME TypeOK, NEW p \in Pipe, Life(p) = "whole", NEW req \in Irp, SubmitIrp(p, req)
    PROVE  drv'[p].state = drv[p].state
  <1>1. drv[p] \in Driver_t
    BY DEF TypeOK
  <1> QED BY <1>1, SubmitFields, EnqueueKeeps

\* The task of a pipe.
LEMMA ErrorsStep ==
    ASSUME TypeOK, Owned, NEW p \in Pipe, CdcErrors, TaskStep(p), vport' = vport
    PROVE  CdcErrors'
  <1>1. OneMoves(p)
    BY StepMoves
  <1>2. \A r \in Pipe \ {p} : ErrorsAt(r)'
    BY <1>1, ErrorsStill DEF CdcErrors, OneMoves
  <1>0. ErrorsAt(p) /\ Life(p) = "whole"
    BY <1>1 DEF CdcErrors, OneMoves
  <1>3. ErrorsAt(p)'
    <2>1. CASE Receive(p)
      BY <1>0, <2>1, ErrorsReceive
    <2>2. CASE HandleSetAddr(p)
      BY <1>0, <2>2, GotoFields, ErrorsGo DEF HandleSetAddr, HandlesDone, Handles
    <2>3. CASE HandleSetAddrEnd(p)
      BY <1>0, <2>3, GotoFields, ErrorsGo, ErrorsSubmit, HostPipeAssumption DEF HandleSetAddrEnd, setConfiguration, ErrorsAt, Known
    <2>4. CASE HandleSetConfig(p)
      BY <1>0, <2>4, GotoFields, ErrorsGo, ErrorsSubmit, HostPipeAssumption DEF HandleSetConfig, getConfigDescriptor, HandlesDone, Handles, Known
    <2>5. CASE HandleError(p)
      BY <1>0, <2>5, ErrorsHandled
    <2>6. CASE HandleOther(p)
      BY <1>0, <2>6, GotoFields, ErrorsGo DEF HandleOther, Handles, Known
    <2>7. CASE FreeIrp(p)
      <3>1. task'[p] = TaskIn("blocked") /\ UNCHANGED <<drv, evtq>>
        BY <2>7 DEF FreeIrp, TypeOK
      <3> QED BY <1>0, <3>1 DEF ErrorsAt, Waiting, TaskIn
    <2> QED BY <2>1, <2>2, <2>3, <2>4, <2>5, <2>6, <2>7 DEF TaskStep
  <1> QED BY <1>2, <1>3 DEF CdcErrors

\* A transfer ends.
LEMMA ErrorsTransfer ==
    ASSUME TypeOK, Owned, NEW p \in Pipe, CdcErrors, TransferDone(p) \/ \E event \in ErrorEvent : TransferFailed(p, event), vport' = vport
    PROVE  CdcErrors'
  <1>1. OneMoves(p) /\ UNCHANGED task
    BY TransferMoves
  <1>2. \A r \in Pipe \ {p} : ErrorsAt(r)'
    BY <1>1, ErrorsStill DEF CdcErrors, OneMoves
  <1>3. ErrorsAt(p) /\ OnBus(p) /\ drv[p].state = "ACTIVE" /\ drv[p].moving # << >> /\ drv[p] \in Driver_t /\ evtq[p] \in Seq(Event)
    BY DEF CdcErrors, TransferDone, TransferFailed, ChanDone, ChanFailed, OnBus, TypeOK
  <1>4. /\ Waiting(p) = {} /\ (task[p].at \in {"handle", "class"} => task[p].event \notin Known)
        /\ (task[p].at = "set_config" => task[p].event = "IRP_DONE")
    BY <1>3 DEF ErrorsAt
  <1> DEFINE q == evtq[p]
  <1>5. q \in Seq(Event) /\ \A k \in DOMAIN q : q[k] \notin Known
    BY <1>3, <1>4 DEF Waiting
  <1>6. ASSUME TransferDone(p) PROVE ErrorsAt(p)'
    <2>1. drv'[p] = Filled(Oldest(drv[p], "COMPLETED")) /\ evtq'[p] = IF Len(q) < QueueLen THEN Append(q, "IRP_DONE") ELSE q
      BY <1>6 DEF TransferDone, ChanDone, Posted, TypeOK
    <2>3. Waiting(p)' = {}
      <3>1. \A k \in DOMAIN evtq'[p] : evtq'[p][k] \notin Known
        <4> HIDE DEF q
        <4>1. \A k \in DOMAIN Append(q, "IRP_DONE") : Append(q, "IRP_DONE")[k] \notin Known
          BY <1>5, WaitingAppend DEF Known
        <4> QED BY <1>5, <2>1, <4>1
      <3> QED BY <3>1 DEF Waiting
    <2> QED BY <1>1, <1>4, <2>3 DEF ErrorsAt
  <1>7. ASSUME NEW event \in ErrorEvent, TransferFailed(p, event) PROVE ErrorsAt(p)'
    <2>1. drv'[p].state = "HALTED" /\ evtq'[p] = IF Len(q) < QueueLen THEN Append(q, event) ELSE q
      <3>1. drv' = [drv EXCEPT ![p] = [Oldest(@, StatusOf[event]) EXCEPT !.state = "HALTED"]] /\ DOMAIN drv = Pipe
        BY <1>7 DEF TransferFailed, ChanFailed, TypeOK
      <3>2. drv'[p] = [Oldest(drv[p], StatusOf[event]) EXCEPT !.state = "HALTED"]
        BY <3>1
      <3>3. drv'[p].state = "HALTED"
        BY <1>3, <3>2 DEF Oldest, Driver_t
      <3> QED BY <1>7, <3>3 DEF TransferFailed, Posted, TypeOK
    <2>2. \A j, k \in Waiting(p)' : j = k
      <3> HIDE DEF q
      <3>1. ASSUME NEW k \in DOMAIN Append(q, event), Append(q, event)[k] \in Known PROVE k = Len(q) + 1
        BY <1>5, <3>1
      <3> QED BY <1>5, <2>1, <3>1 DEF Waiting
    <2> QED BY <1>1, <1>4, <2>1, <2>2 DEF ErrorsAt
  <1>8. ErrorsAt(p)'
    BY <1>6, <1>7
  <1> QED BY <1>2, <1>8 DEF CdcErrors

-----------------------------------------------------------------------------
(* The steps of the port, on all that the visit of a CDC device is         *)

Opening == {"begin_in_alloc", "begin_out", "begin_out_alloc", "ready"}

Cdc == Visit /\ Beginning /\ Begun /\ CdcErrors

\* The objects of the class driver stay.
BegunStays ==
    /\ \A p \in DataPipe : obj'[p] = obj[p]
    /\ task'["ctrl"].at \notin Opening \/ (task'["ctrl"].at = task["ctrl"].at
          /\ \A p \in DataPipe : drv'[p] = drv[p] /\ evtq'[p] = evtq[p] /\ task'[p] = task[p])
    /\ task["ctrl"].at \notin Opening \/ task'["ctrl"].at = task["ctrl"].at
    /\ app' = app \/ app' # "sending"
    /\ ready' = ready \/ (~ready' /\ app # "sending")
    /\ app = "sending" => vport'.state = "ENABLED"
    /\ ready' /\ Leaving /\ port_task.at = "act" => port_task' = port_task

\* Then the class driver has begun what it had begun.
LEMMA BegunStill ==
    ASSUME Beginning, Begun, BegunStays
    PROVE  Beginning' /\ Begun'
  <1>0. CdcPipes
    BY CdcPipesKnown
  <1>1. Life("in")' = Life("in") /\ Life("out")' = Life("out")
    BY <1>0 DEF BegunStays, Life, CdcPipes
  <1>2. Beginning'
    <2>1. CASE task'["ctrl"].at \notin Opening
      BY <1>1, <2>1 DEF Beginning, BegunStays, Opening
    <2>2. CASE task'["ctrl"].at \in Opening
      <3>1. task'["ctrl"].at = task["ctrl"].at /\ \A p \in DataPipe : drv'[p] = drv[p] /\ evtq'[p] = evtq[p] /\ task'[p] = task[p]
        BY <2>2 DEF BegunStays
      <3>2. Unused("in")' = Unused("in") /\ Unused("out")' = Unused("out")
        BY <1>0, <1>1, <3>1 DEF Unused, CdcPipes
      <3>3. ready' => ready
        BY DEF BegunStays
      <3> QED BY <1>1, <3>1, <3>2, <3>3 DEF Beginning
    <2> QED BY <2>1, <2>2
  <1>3. Begun'
    <2>1. \A p \in DataPipe \ {"in", "out"} : Life(p)' = "none" /\ obj'[p].ptr = "null"
      BY DEF Begun, BegunStays, Life
    <2>2. task'["ctrl"].at \notin {"begin_in_alloc", "begin_out", "begin_out_alloc"}
             => task["ctrl"].at \notin {"begin_in_alloc", "begin_out", "begin_out_alloc"}
      BY DEF BegunStays, Opening
    <2>3. ready' => ready /\ (Life("out") = "whole" \/ (Leaving /\ port_task.at = "act" /\ port_task' = port_task))
      BY DEF Begun, BegunStays
    <2>4. app' = "sending" => ready' /\ vport'.state = "ENABLED"
      BY DEF Begun, BegunStays
    <2>5. Life("in") = "whole" /\ task'["ctrl"].at \notin {"begin_in_alloc", "begin_out", "begin_out_alloc"} => Life("out") = "whole"
      BY <2>2 DEF Begun
    <2> QED BY <1>1, <2>1, <2>3, <2>4, <2>5 DEF Begun, Leaving
  <1> QED BY <1>2, <1>3

\* The port goes on.
LEMMA PortStays ==
    ASSUME TypeOK, Cdc, Visit', Stays,
           app' = app \/ app' # "sending",
           ready' = ready \/ (~ready' /\ app # "sending"),
           app = "sending" => vport'.state = "ENABLED",
           vport.state = "RECOVERY" => vport'.state # "ENABLED",
           ready' /\ Leaving /\ port_task.at = "act" => port_task' = port_task
    PROVE  Cdc'
  <1>1. BegunStays
    BY DEF BegunStays, Stays
  <1>2. \A p \in Pipe : drv[p].alloc /\ vport'.conn_devc_ena => vport.conn_devc_ena
    BY DEF Cdc, Visit, PortVisit, Hardware, ObjectsVisit, Owned, OwnedAt
  <1>3. CdcErrors'
    BY <1>2, ErrorsStill DEF Cdc, CdcErrors, Stays
  <1> QED BY <1>1, <1>3, BegunStill DEF Cdc

\* A device comes, and is enabled;
LEMMA CdcPlug == ASSUME TypeOK, Cdc, Plug \/ Enable PROVE Cdc' /\ fault' = fault
  <1>1. ready' = ready /\ app' = app
    BY DEF Plug, Enable, PortInterrupt
  <1>2. CdcPipes /\ Visit /\ (app = "sending" => vport.state = "ENABLED")
    BY CdcPipesKnown DEF Cdc, Begun
  <1> QED BY <1>1, <1>2, PlugSession, EnableSession, PortStays DEF CdcPipes

\* it leaves when no pipe is being made.
LEMMA CdcUnplug == ASSUME TypeOK, Cdc, Unplug, NotMakingPipes, NoneDangles PROVE Cdc' /\ fault' = fault
  <1>1. ready' = ready /\ app' = app /\ app = "loop" /\ PortBlocked /\ vport.conn_devc_ena /\ task["ctrl"].at \notin Making
    BY DEF Unplug, PortInterrupt, NotMakingPipes, Making
  <1>2. CdcPipes /\ Visit /\ \A p \in DataPipe : obj[p].ptr = "set" => obj[p].life = "whole"
    BY CdcPipesKnown DEF Cdc, NoneDangles
  <1>3. Visit' /\ Stays /\ fault' = fault /\ port_task' = port_task /\ vport.state = "ENABLED"
    BY <1>1, <1>2, UnplugSession DEF CdcPipes
  <1> QED BY <1>1, <1>3, PortStays

\* init.
LEMMA CdcStarts == ASSUME TypeOK, Cdc, init \/ initCallback PROVE Cdc' /\ fault' = fault
  <1>1. ready' = ready /\ app' \in {"init", "loop"} /\ app \in {"boot", "init"}
    BY DEF init, initCallback
  <1>2. CdcPipes /\ Visit
    BY CdcPipesKnown DEF Cdc
  <1>3. Visit' /\ Stays /\ fault' = fault
           /\ \/ vport.state = "NOT_POWERED" /\ vport'.state = "DISCONNECTED"
              \/ vport'.state = vport.state /\ port_task' = port_task
    BY <1>2, StartSession DEF CdcPipes
  <1>4. Leaving /\ port_task.at = "act" => vport.state # "NOT_POWERED"
    BY <1>2 DEF Visit, PortVisit, Connecting, Coming, Leaving, Gone
  <1> QED BY <1>1, <1>3, <1>4, PortStays

\* The port task takes a message, and handles a connection.
LEMMA CdcReceives == ASSUME TypeOK, Cdc, PortReceive \/ HandleConn \/ HandleConnEnd PROVE Cdc' /\ fault' = fault
  <1>1. ready' = ready /\ app' = app
    BY DEF PortReceive, HandleConn, HandleConnEnd
  <1>2. CdcPipes /\ Visit /\ (app = "sending" => vport.state = "ENABLED")
    BY CdcPipesKnown DEF Cdc, Begun
  <1>3. CASE PortReceive
    BY <1>1, <1>2, <1>3, ReceiveSession, PortStays DEF CdcPipes
  <1>4. CASE HandleConn \/ HandleConnEnd
    BY <1>1, <1>2, <1>4, ConnSession, PortStays DEF CdcPipes, Coming, Leaving
  <1> QED BY <1>3, <1>4

\* The class driver resets the port,
LEMMA CdcConnects == ASSUME TypeOK, Cdc, PortCbConnection PROVE Cdc' /\ fault' = fault
  <1>1. ready' = ready /\ app' = app /\ port_task.at = "class" /\ port_task.event = "CONNECTION" /\ Connect
    BY DEF PortCbConnection, Connect
  <1>2. CdcPipes /\ Visit /\ (app = "sending" => vport.state = "ENABLED")
    BY CdcPipesKnown DEF Cdc, Begun
  <1> QED BY <1>1, <1>2, ConnectSession, PortStays DEF CdcPipes

\* and the device has answered.
LEMMA CdcResets == ASSUME TypeOK, PortInv, Cdc, ConnectReset, vport.state # "RESETTING" PROVE Cdc' /\ fault' = fault
  <1>2. CdcPipes /\ Visit /\ (app = "sending" => vport.state = "ENABLED")
    BY CdcPipesKnown DEF Cdc, Begun
  <1> QED BY <1>2, ResetSession, PortStays DEF CdcPipes

\* What the port task does itself.
LEMMA CdcActs == ASSUME TypeOK, PortInv, Cdc, ActPowerOff \/ ActNothing \/ suddenDisconnect PROVE Cdc' /\ fault' = fault
  <1>1. CdcPipes /\ Visit /\ (app = "sending" => vport.state = "ENABLED")
    BY CdcPipesKnown DEF Cdc, Begun
  <1>2. Visit' /\ Stays /\ UNCHANGED <<fault, vport, app>> /\ port_task.at = "act"
           /\ \/ Coming /\ ready' = ready
              \/ Leaving /\ ready' = FALSE
    BY <1>1, ActSession DEF CdcPipes
  <1>3. Leaving => vport.state # "ENABLED" /\ ~Coming
    BY <1>1, <1>2 DEF Visit, PortVisit, Connecting, Coming, Leaving, Gone
  <1> QED BY <1>1, <1>2, <1>3, PortStays DEF Coming, Leaving

\* A pipe without a task has no message.
LEMMA ErrorsNone ==
    ASSUME NEW p \in Pipe, task'[p].at \in {"none", "created", "blocked"}, evtq'[p] = << >>
    PROVE  ErrorsAt(p)'
  BY DEF ErrorsAt, Waiting

\* Nor has an object that is gone.
LEMMA GoneErrors ==
    ASSUME ObjectsVisit', NEW p \in Pipe, Life(p)' = "none"
    PROVE  ErrorsAt(p)'
  BY ErrorsNone DEF ObjectsVisit, Owned, OwnedAt

\* The application sends only to a device that is there.
LEMMA NotSending ==
    ASSUME Cdc, vport.state # "ENABLED"
    PROVE  app # "sending"
  BY DEF Cdc, Begun

\* Nothing is begun where the device is gone.
LEMMA NotOpening ==
    ASSUME Cdc, vport.state # "ENABLED"
    PROVE  task["ctrl"].at \notin Opening
  BY DEF Cdc, Visit, CtrlVisit, Making, Opening

\* The way back from the loss.
LEMMA CdcRecovers == ASSUME TypeOK, PortInv, Cdc, freeCTRLpipe \/ recover \/ powerON PROVE Cdc' /\ fault' = fault
  <1>1. CdcPipes /\ Visit
    BY CdcPipesKnown DEF Cdc
  <1>2. Visit' /\ fault' = fault /\ (\A p \in DataPipe : Life(p) = "none")
           /\ (\A p \in DataPipe : obj'[p] = obj[p] /\ drv'[p] = drv[p] /\ task'[p] = task[p] /\ evtq'[p] = evtq[p])
           /\ vport.state # "ENABLED" /\ vport'.state # "ENABLED" /\ UNCHANGED <<app, ready>>
           /\ (Life("ctrl") = "none")' /\ (task["ctrl"].at = "none")'
           /\ port_task.at \in {"free_ctrl", "recover", "power_on"}
    BY <1>1, RecoverSession DEF CdcPipes
  <1>3. BegunStays
    BY <1>2, NotSending, NotOpening DEF BegunStays, Opening
  <1>4. ErrorsAt("ctrl")'
    BY <1>1, <1>2, GoneErrors DEF CdcPipes, Visit
  <1>5. \A p \in DataPipe : ErrorsAt(p)'
    <2>1. vport'.state # "ENABLED" => ~vport'.conn_devc_ena
      BY <1>2 DEF Visit, PortVisit, Hardware
    <2> QED BY <1>2, <2>1, ErrorsStill DEF Cdc, CdcErrors, DataPipe
  <1> QED BY <1>2, <1>3, <1>4, <1>5, BegunStill DEF Cdc, CdcErrors, DataPipe

\* The driver tells of the pipes that it invalidates.
LEMMA CdcLoses == ASSUME TypeOK, Cdc, HandleLost \/ HandleLostNext PROVE Cdc' /\ fault' = fault
  <1>1. CdcPipes /\ Visit
    BY CdcPipesKnown DEF Cdc
  <1>2. Visit' /\ UNCHANGED <<fault, obj, evtq, task, addr, dev_addr, ready, app>> /\ vport.state = "RECOVERY" /\ vport'.state = "RECOVERY"
           /\ port_task.at \in {"handle", "invalidate"}
           /\ (Stays \/ \E p \in Existing : Invalidate(p))
    BY <1>1, LostSession, LostNextSession DEF CdcPipes
  <1>3. BegunStays
    BY <1>2, NotSending, NotOpening DEF BegunStays
  <1>4. CASE Stays
    BY <1>2, <1>4, NotSending, PortStays
  <1>5. ASSUME NEW p \in Existing, Invalidate(p) PROVE CdcErrors'
    <2>1. p \in Pipe /\ drv'[p].state = "INVALID" /\ \A r \in Pipe \ {p} : drv'[r] = drv[r]
      BY <1>5, InvalidateFields DEF Existing
    <2>2. ~vport'.conn_devc_ena
      BY <1>2 DEF Visit, PortVisit, Hardware
    <2>3. \A r \in Pipe \ {p} : ErrorsAt(r)'
      BY <1>2, <2>1, <2>2, ErrorsStill DEF Cdc, CdcErrors
    <2>4. ErrorsAt(p)'
      BY <1>2, <2>1 DEF Cdc, CdcErrors, ErrorsAt, Waiting, OnBus
    <2> QED BY <2>3, <2>4 DEF CdcErrors
  <1> QED BY <1>2, <1>3, <1>4, <1>5, BegunStill DEF Cdc

\* and of each of them it tells the pipe's task.
LEMMA CdcPosts == ASSUME TypeOK, Cdc, PostInvalid PROVE Cdc' /\ fault' = fault
  <1>1. CdcPipes /\ Visit
    BY CdcPipesKnown DEF Cdc
  <1>2. Visit' /\ UNCHANGED <<fault, drv, obj, task, vport, addr, dev_addr, leaked, ready, app>>
           /\ Passes("post", "invalidate") /\ vport.state = "RECOVERY"
           /\ \A r \in Pipe : evtq'[r] = IF r = port_task.cur THEN Append(evtq[r], "INVALID") ELSE evtq[r]
    BY <1>1, PostSession DEF CdcPipes
  <1>3. BegunStays
    BY <1>2, NotSending, NotOpening DEF BegunStays, Passes
  <1>4. ASSUME NEW r \in Pipe PROVE ErrorsAt(r)'
    <2> DEFINE q == evtq[r]
    <2>1. q \in Seq(Event) /\ (evtq'[r] = q \/ evtq'[r] = Append(q, "INVALID"))
      BY <1>2 DEF TypeOK
    <2>2. Waiting(r)' \subseteq Waiting(r)
      <3>1. ASSUME NEW k \in DOMAIN evtq'[r], evtq'[r][k] \in Known PROVE k \in DOMAIN q /\ evtq'[r][k] = q[k]
        <4> HIDE DEF q
        <4> QED BY <2>1, <3>1, WaitingAppend DEF Known
      <3> QED BY <3>1 DEF Waiting
    <2> QED BY <1>2, <2>2 DEF Cdc, CdcErrors, ErrorsAt, OnBus
  <1> QED BY <1>2, <1>3, <1>4, BegunStill DEF Cdc, CdcErrors

\* The control pipe.
LEMMA CdcMakesCtrl == ASSUME TypeOK, PortInv, Cdc, addCTRLpipe \/ addCTRLpipeEnd PROVE Cdc' /\ fault' = fault
  <1>1. CdcPipes /\ Visit /\ \A p \in Pipe : ErrorsAt(p)
    BY CdcPipesKnown DEF Cdc, CdcErrors
  <1>2. CASE addCTRLpipe
    <2>1. Visit' /\ UNCHANGED <<fault, vport, drv, addr, dev_addr, leaked, ready, app>> /\ Passes("connected", "alloc_pipe")
           /\ task'["ctrl"] = TaskIn("created") /\ evtq'["ctrl"] = << >>
           /\ \A r \in DataPipe : obj'[r] = obj[r] /\ evtq'[r] = evtq[r] /\ task'[r] = task[r]
      BY <1>1, <1>2, NewCtrlSession DEF CdcPipes
    <2>2. vport.state = "ENABLED" /\ Life("ctrl") = "none" /\ task["ctrl"].at = "none"
      BY <1>1, <2>1 DEF Visit, PortVisit, Connecting, ObjectsVisit, Nested, Passes, Owned, OwnedAt, CdcPipes
    <2>3. task'["ctrl"].at = "created"
      BY <2>1 DEF TaskIn
    <2>4. BegunStays
      BY <2>1, <2>2, <2>3 DEF BegunStays, Opening, Passes
    <2>5. ErrorsAt("ctrl")' /\ \A p \in DataPipe : ErrorsAt(p)'
      BY <1>1, <2>1, <2>3, ErrorsNone, ErrorsStill DEF CdcPipes, DataPipe
    <2> QED BY <2>1, <2>4, <2>5, BegunStill DEF Cdc, CdcErrors, DataPipe
  <1>3. CASE addCTRLpipeEnd
    <2>1. Visit' /\ UNCHANGED <<fault, vport, evtq, dev_addr, leaked, ready, app>> /\ Passes("alloc_pipe", "get_desc")
           /\ task'["ctrl"] = TaskIn("blocked") /\ evtq["ctrl"] = << >> /\ task["ctrl"] = TaskIn("created")
           /\ (\A r \in DataPipe : task'[r] = task[r])
           /\ \A r \in DataPipe : obj'[r] = obj[r] /\ drv'[r] = drv[r]
      BY <1>1, <1>3, AllocCtrlSession DEF CdcPipes
    <2>2. vport.state = "ENABLED"
      BY <1>1, <2>1 DEF Visit, PortVisit, Connecting, Passes
    <2>3. task'["ctrl"].at = "blocked" /\ task["ctrl"].at = "created"
      BY <2>1 DEF TaskIn
    <2>4. BegunStays
      BY <2>1, <2>2, <2>3 DEF BegunStays, Opening, Passes
    <2>5. ErrorsAt("ctrl")' /\ \A p \in DataPipe : ErrorsAt(p)'
      BY <1>1, <2>1, <2>3, ErrorsNone, ErrorsStill DEF CdcPipes, DataPipe
    <2> QED BY <2>1, <2>4, <2>5, BegunStill DEF Cdc, CdcErrors, DataPipe
  <1> QED BY <1>2, <1>3

\* Its first two requests.
LEMMA CdcRequests == ASSUME TypeOK, PortInv, Cdc, PortCbDeviceDesc \/ PortCbSetAddr PROVE Cdc' /\ fault' = fault
  <1>1. CdcPipes /\ Visit /\ (\A p \in Pipe : ErrorsAt(p)) /\ {"DEV_DESC", "SET_ADDR"} \subseteq Irp
    BY CdcPipesKnown, HostPipeAssumption DEF Cdc, CdcErrors
  <1>2. UNCHANGED <<vport, vhw, op, obj, evtq, task, addr, dev_addr, port_evtq, app, callback, ready>>
        /\ \/ SubmitIrp("ctrl", "DEV_DESC") /\ port_task' = [port_task EXCEPT !.at = "set_addr"] /\ port_task.at = "get_desc"
           \/ SubmitIrp("ctrl", "SET_ADDR") /\ port_task' = [port_task EXCEPT !.at = "act"] /\ port_task.at = "set_addr"
    BY DEF PortCbDeviceDesc, PortCbSetAddr, getDeviceDescriptor, setDeviceAddress, PortGoto
  <1>3. PICK req \in {"DEV_DESC", "SET_ADDR"} :
           Visit' /\ fault' = fault /\ vport.state = "ENABLED"
           /\ drv'["ctrl"] = Enqueue(drv["ctrl"], req) /\ Enumerating
           /\ \A r \in DataPipe : drv'[r] = drv[r]
    BY <1>1, <1>2, RequestSession DEF CdcPipes
  <1>4. task["ctrl"].at = "blocked"
    BY <1>1, <1>2, <1>3 DEF Visit, CtrlVisit, Chain
  <1>5. drv'["ctrl"].state = drv["ctrl"].state
    BY <1>1, EnqueueKeeps, <1>3, HostPipeAssumption DEF TypeOK
  <1>6. ErrorsAt("ctrl")' /\ \A p \in DataPipe : ErrorsAt(p)'
    <2>1. ErrorsAt("ctrl")'
      BY <1>1, <1>2, <1>4, <1>5 DEF ErrorsAt, Waiting, CdcPipes
    <2> QED BY <1>1, <1>2, <1>3, <2>1, ErrorsStill DEF DataPipe
  <1>7. BegunStays
    BY <1>2, <1>3, <1>4 DEF BegunStays, Opening
  <1> QED BY <1>3, <1>6, <1>7, BegunStill DEF Cdc, CdcErrors, DataPipe

\* The data pipes are deleted.
LEMMA CdcDeletes == ASSUME TypeOK, Cdc, PortCbLost PROVE Cdc' /\ fault' = fault
  <1>1. CdcPipes /\ Visit /\ (\A p \in Pipe : ErrorsAt(p)) /\ Begun /\ Beginning
    BY CdcPipesKnown DEF Cdc, CdcErrors
  <1> DEFINE S == {p \in DataPipe : obj[p].ptr = "set"}
  <1>2. /\ DeletePipes(S, "set") /\ UNCHANGED <<vport, vhw, op, port_evtq, callback, app, ready>> /\ port_task.at = "class"
        /\ Leaving /\ port_task' = [port_task EXCEPT !.at = "act"] /\ S \in SUBSET DataPipe
    BY DEF PortCbLost, Leaving, PortGoto
  <1>3. (\A p \in S : obj[p].ptr = "set") /\ (\A p \in DataPipe \ S : Life(p) = "none" /\ p \in Pipe)
    BY <1>1 DEF Visit, ObjectsVisit, Owned, OwnedAt, DataPipe
  <1> HIDE DEF S
  <1>4. Visit' /\ fault' = fault /\ Passes("class", "act") /\ vport.state = "RECOVERY"
           /\ (\A p \in DataPipe : Life(p) = "none")'
           /\ \A p \in Pipe \ S : obj'[p] = obj[p] /\ drv'[p] = drv[p] /\ task'[p] = task[p] /\ evtq'[p] = evtq[p]
    BY <1>1, <1>2, <1>3, DataLostSession DEF CdcPipes
  <1>5. task["ctrl"].at \notin Opening /\ task'["ctrl"] = task["ctrl"] /\ "ctrl" \in Pipe \ S /\ app # "sending"
    BY <1>1, <1>2, <1>4, NotOpening, NotSending DEF CdcPipes, DataPipe
  <1>6. \A p \in DataPipe : Life(p)' = "none"
    BY <1>4
  <1>7. Beginning'
    BY <1>1, <1>5, <1>6 DEF Beginning, Opening, CdcPipes
  <1>8. Begun'
    <2>1. \A p \in DataPipe \ {"in", "out"} : obj'[p].ptr = "null"
      BY <1>1, <1>4 DEF Begun, S, DataPipe
    <2> QED BY <1>1, <1>2, <1>4, <1>5, <1>6, <2>1 DEF Begun, CdcPipes, Passes, Leaving
  <1>9. ErrorsAt("ctrl")' /\ \A p \in DataPipe : ErrorsAt(p)'
    <2>1. \A p \in DataPipe : ErrorsAt(p)'
      BY <1>4, <1>6, GoneErrors DEF Visit, DataPipe
    <2>2. ErrorsAt("ctrl") /\ drv'["ctrl"] = drv["ctrl"] /\ evtq'["ctrl"] = evtq["ctrl"] /\ vport' = vport
      BY <1>1, <1>2, <1>4, <1>5 DEF CdcPipes
    <2> QED BY <1>5, <2>1, <2>2, ErrorsStill
  <1> QED BY <1>4, <1>7, <1>8, <1>9 DEF Cdc, CdcErrors, DataPipe

-----------------------------------------------------------------------------
(* The steps of the pipes                                                  *)

\* What is not yet begun does nothing.
LEMMA BusyIsBegun ==
    ASSUME Cdc, NEW p \in DataPipe, Life(p) = "whole",
           task[p].at # "blocked" \/ evtq[p] # << >> \/ drv[p].moving # << >> \/ ready
    PROVE  task["ctrl"].at \notin Opening /\ p \in {"in", "out"}
  <1>1. p \in {"in", "out"}
    BY DEF Cdc, Begun
  <1>2. SUFFICES ASSUME task["ctrl"].at \in Opening PROVE FALSE
    BY <1>1
  <1>3. Unused(p) /\ ~ready
    BY <1>1, <1>2 DEF Cdc, Beginning, Opening
  <1>4. task[p].at = "blocked" /\ evtq[p] = << >> /\ drv[p].moving = << >>
    BY <1>3 DEF Unused, TaskIn, NoPipeYet
  <1> QED BY <1>3, <1>4

\* A data pipe that is whole works on: begin is over.
LEMMA DataMoves ==
    ASSUME TypeOK, Cdc, NEW p \in DataPipe, OneMoves(p), vport' = vport, port_task' = port_task, app' = app \/ app' # "sending", ready' = ready,
           task[p].at # "blocked" \/ evtq[p] # << >> \/ drv[p].moving # << >> \/ ready
    PROVE  Beginning' /\ Begun'
  <1>1. task["ctrl"].at \notin Opening
    BY BusyIsBegun DEF OneMoves
  <1>2. task'["ctrl"] = task["ctrl"] /\ obj' = obj
    BY HostPipeAssumption DEF OneMoves, DataPipe
  <1>3. BegunStays
    BY <1>1, <1>2 DEF BegunStays, Cdc, Begun
  <1> QED BY <1>3, BegunStill DEF Cdc

\* The control pipe works on.
LEMMA CtrlMoves ==
    ASSUME TypeOK, Cdc, OneMoves("ctrl"), vport' = vport, port_task' = port_task, app' = app \/ app' # "sending", ready' = ready,
           task'["ctrl"].at = task["ctrl"].at \/ {task["ctrl"].at, task'["ctrl"].at} \intersect Opening = {}
    PROVE  Beginning' /\ Begun'
  <1>1. obj' = obj /\ \A p \in DataPipe : drv'[p] = drv[p] /\ evtq'[p] = evtq[p] /\ task'[p] = task[p]
    BY HostPipeAssumption DEF OneMoves, DataPipe
  <1>2. BegunStays
    BY <1>1 DEF BegunStays, Cdc, Begun
  <1> QED BY <1>2, BegunStill DEF Cdc

\* Transfers succeed, and stall on the data pipes.
LEMMA CdcTransfers ==
    ASSUME TypeOK, Cdc, NEW p \in Pipe, UNCHANGED <<vport, vhw, op, portVars>>,
           TransferDone(p) \/ (p \in DataPipe /\ TransferFailed(p, "ERROR_STALL"))
    PROVE  Cdc' /\ fault' = fault
  <1>1. CdcPipes /\ Visit /\ CdcErrors /\ Owned /\ "ERROR_STALL" \in ErrorEvent
    BY CdcPipesKnown DEF Cdc, Visit, ObjectsVisit, ErrorEvent
  <1>2. Visit' /\ OneMoves(p) /\ UNCHANGED <<task, fault, leaked, addr>>
    BY <1>1, TransferSession DEF CdcPipes
  <1>3. CdcErrors'
    BY <1>1, ErrorsTransfer
  <1>4. drv[p].moving # << >>
    BY DEF TransferDone, TransferFailed, ChanDone, ChanFailed, OnBus
  <1>5. UNCHANGED <<port_task, app, ready, vport>>
    BY DEF portVars
  <1>6. Beginning' /\ Begun'
    <2>1. CASE p = "ctrl"
      BY <1>2, <1>5, <2>1, CtrlMoves
    <2>2. CASE p # "ctrl"
      BY <1>2, <1>4, <1>5, <2>2, DataMoves DEF DataPipe
    <2> QED BY <2>1, <2>2
  <1> QED BY <1>2, <1>3, <1>6 DEF Cdc

\* The tasks of the pipes.
LEMMA CdcSteps ==
    ASSUME TypeOK, Cdc, NEW p \in Pipe, PipeTask(p)
    PROVE  Cdc' /\ fault' = fault
  <1>1. CdcPipes /\ Visit /\ CdcErrors /\ Owned
    BY CdcPipesKnown DEF Cdc, Visit, ObjectsVisit
  <1>2. TaskStep(p) /\ UNCHANGED <<vport, port_task, app, ready>>
    BY DEF PipeTask, portVars
  <1>3. Visit' /\ fault' = fault /\ OneMoves(p) /\ CdcErrors'
    BY <1>1, <1>2, StepVisit, StepMoves, ErrorsStep DEF CdcPipes
  <1>4. task[p].at # "blocked" \/ evtq[p] # << >>
    BY <1>2 DEF TaskStep, Receive, HandleSetAddr, HandleSetAddrEnd, HandleSetConfig, HandleError, HandleOther, FreeIrp, HandlesDone, Handles
  <1>5. task[p].at \notin Opening /\ task'[p].at \notin Opening
    <2>1. ASSUME NEW at, Goto(p, at), at \notin Opening PROVE task'[p].at \notin Opening
      BY <2>1, GotoFields
    <2>2. CASE Receive(p)
      <3>1. task[p].at = "blocked"
        BY <2>2 DEF Receive
      <3>2. task'[p] = task[p] \/ task'[p] = [at |-> "handle", event |-> Head(evtq[p]), irp |-> Head(drv[p].done)]
        BY <2>2, ReceiveFields
      <3> QED BY <3>1, <3>2 DEF Opening
    <2>3. CASE FreeIrp(p)
      <3>1. task'[p] = TaskIn("blocked")
        BY <2>3 DEF FreeIrp, TypeOK
      <3> QED BY <2>3, <3>1 DEF FreeIrp, TaskIn, Opening
    <2>4. CASE HandleSetAddr(p) \/ HandleSetAddrEnd(p) \/ HandleSetConfig(p) \/ HandleError(p) \/ HandleOther(p)
      BY <2>1, <2>4 DEF HandleSetAddr, HandleSetAddrEnd, HandleSetConfig, HandleError, HandleOther, HandlesDone, Handles, Opening
    <2> QED BY <1>2, <2>2, <2>3, <2>4 DEF TaskStep
  <1>6. Beginning' /\ Begun'
    <2>1. CASE p = "ctrl"
      BY <1>2, <1>3, <1>5, <2>1, CtrlMoves
    <2>2. CASE p # "ctrl"
      BY <1>2, <1>3, <1>4, <2>2, DataMoves DEF DataPipe
    <2> QED BY <2>1, <2>2
  <1> QED BY <1>3, <1>6 DEF Cdc

\* ctrl_pipe_cb
LEMMA CdcCtrlCb ==
    ASSUME TypeOK, Cdc, PortBlocked, CtrlCb, UNCHANGED <<vport, vhw, op, port_evtq, port_task, app, callback, ready>>
    PROVE  Cdc' /\ fault' = fault
  <1>1. CdcPipes /\ Visit /\ PortVisit /\ ObjectsVisit /\ CtrlVisit /\ CdcErrors /\ Owned /\ drv["ctrl"] \in Driver_t
    BY CdcPipesKnown DEF Cdc, Visit, ObjectsVisit, TypeOK, CdcPipes
  <1> DEFINE at == IF BringsConfig THEN "begin_in" ELSE "free"
  <1>2. task["ctrl"].at = "class" /\ Goto("ctrl", at) /\ UNCHANGED <<drv, obj, evtq, addr, dev_addr, leaked, fault>>
    BY DEF CtrlCb
  <1>3. /\ task'["ctrl"].at = at /\ task'["ctrl"].event = task["ctrl"].event /\ task'["ctrl"].irp = task["ctrl"].irp
        /\ \A r \in Pipe \ {"ctrl"} : task'[r] = task[r]
    BY <1>1, <1>2, GotoFields DEF CdcPipes
  <1>4. at = "begin_in" => task["ctrl"].irp.irp = "CFG_DESC"
    BY DEF BringsConfig
  <1>5. at \in {"begin_in", "free"}
    OBVIOUS
  <1> HIDE DEF at
  <1>6. Len(drv["ctrl"].done) <= Len(drv'["ctrl"].done)
    BY <1>1, <1>2, DriverFields
  <1>7. CtrlVisit'
    BY <1>1, <1>2, <1>3, <1>4, <1>5, <1>6, CtrlGoes DEF CdcPipes
  <1>8. OneMoves("ctrl")
    <2>1. Life("ctrl") = "whole"
      BY <1>1, <1>2, BusyIsWhole DEF CdcPipes
    <2> QED BY <1>2, <1>3, <1>5, <2>1 DEF OneMoves, Keeps, KeepsTask
  <1>9. Visit'
    BY <1>1, <1>7, <1>8, MovesVisit DEF CdcPipes
  <1>10. Beginning' /\ Begun'
    BY <1>2, <1>3, <1>5, <1>8, CtrlMoves DEF Opening
  <1>11. CdcErrors'
    <2>1. ErrorsAt("ctrl")'
      BY <1>1, <1>2, <1>3, <1>5, ErrorsGo DEF CdcPipes, CdcErrors
    <2>2. \A r \in Pipe \ {"ctrl"} : ErrorsAt(r)'
      BY <1>1, <1>2, <1>3, ErrorsStill DEF CdcErrors
    <2> QED BY <2>1, <2>2 DEF CdcErrors
  <1> QED BY <1>2, <1>9, <1>10, <1>11 DEF Cdc

\* The class driver resets a pipe for the known errors only.
LEMMA ClassResetFields ==
    ASSUME TypeOK, NEW p \in Pipe
    PROVE  /\ ClassReset(p) \in Driver_t /\ Keeps(drv[p], ClassReset(p))
           /\ ClassReset(p).state = drv[p].state \/ task[p].event \in Known
  <1>1. drv[p] \in Driver_t
    BY DEF TypeOK
  <1>2. CASE task[p].event \in {"ERROR_XFER", "ERROR_STALL"} /\ CanCommand(p)
    BY <1>1, <1>2, ResetKeeps, ResetRequests DEF ClassReset, CanCommand, Known
  <1>3. CASE ~(task[p].event \in {"ERROR_XFER", "ERROR_STALL"} /\ CanCommand(p))
    BY <1>1, <1>3 DEF ClassReset, Keeps
  <1> QED BY <1>2, <1>3

\* in_pipe_cb and out_pipe_cb
LEMMA CdcDataCb ==
    ASSUME TypeOK, Cdc, PortBlocked, InCb \/ OutCb, UNCHANGED <<vport, vhw, op, port_evtq, port_task, app, callback, ready>>
    PROVE  Cdc' /\ fault' = fault
  <1>1. CdcPipes /\ Visit /\ CdcErrors /\ Owned /\ Payload \subseteq Irp
    BY CdcPipesKnown, CdcAssumption DEF Cdc, Visit, ObjectsVisit
  <1>2. PICK p \in {"in", "out"} :
          /\ task[p].at = "class" /\ Goto(p, "free") /\ UNCHANGED <<obj, evtq, fault>>
          /\ \E d : /\ drv' = [drv EXCEPT ![p] = d]
                    /\ d = ClassReset(p) \/ \E data \in Payload : d = Enqueue(ClassReset(p), data) /\ ClassReset(p).state = "ACTIVE"
    BY DEF InCb, OutCb
  <1>3. p \in DataPipe /\ p \in Pipe /\ drv[p] \in Driver_t /\ DOMAIN drv = Pipe
    BY <1>1, <1>2 DEF CdcPipes, TypeOK
  <1>4. drv'[p] = ClassReset(p) \/ \E data \in Payload : drv'[p] = Enqueue(ClassReset(p), data) /\ ClassReset(p).state = "ACTIVE"
    BY <1>2, <1>3
  <1> DEFINE d == ClassReset(p)
  <1>5. d \in Driver_t /\ Keeps(drv[p], d) /\ (d.state = drv[p].state \/ task[p].event \in Known)
    BY <1>3, ClassResetFields
  <1>6. Keeps(drv[p], drv'[p]) /\ drv'[p].state = d.state
    <2> HIDE DEF d
    <2>1. ASSUME NEW data \in Payload, d.state = "ACTIVE" PROVE Keeps(d, Enqueue(d, data)) /\ Enqueue(d, data).state = d.state
      BY <1>1, <1>5, <2>1, EnqueueKeeps
    <2>2. drv'[p] = d \/ \E data \in Payload : drv'[p] = Enqueue(d, data) /\ d.state = "ACTIVE"
      BY <1>4 DEF d
    <2>3. drv'[p] = d \/ (Keeps(d, drv'[p]) /\ drv'[p].state = d.state)
      BY <2>1, <2>2
    <2> QED BY <1>5, <2>3 DEF Keeps
  <1>7. task'[p].at = "free" /\ task'[p].event = task[p].event /\ \A r \in Pipe \ {p} : task'[r] = task[r]
    BY <1>2, <1>3, GotoFields
  <1>8. OneMoves(p)
    <2>1. Life(p) = "whole"
      BY <1>1, <1>2, <1>3, BusyIsWhole
    <2>2. \A r \in Pipe \ {p} : drv'[r] = drv[r]
      BY <1>2, <1>3
    <2> QED BY <1>2, <1>6, <1>7, <2>1, <2>2 DEF OneMoves, KeepsTask
  <1>9. Visit'
    BY <1>1, <1>3, <1>8, MovesVisit DEF CdcPipes, DataPipe
  <1>10. Beginning' /\ Begun'
    BY <1>2, <1>3, <1>8, DataMoves
  <1>11. CdcErrors'
    <2>1. ErrorsAt(p)'
      <3>1. task[p].event \in Known => Waiting(p) = {}
        BY <1>1, <1>2, <1>3 DEF CdcErrors, ErrorsAt
      <3> QED BY <1>1, <1>2, <1>3, <1>5, <1>6, <1>7, <3>1, ErrorsGo DEF CdcErrors
    <2>2. \A r \in Pipe \ {p} : ErrorsAt(r)'
      BY <1>1, <1>2, <1>8, ErrorsStill DEF CdcErrors, OneMoves
    <2> QED BY <2>1, <2>2 DEF CdcErrors
  <1> QED BY <1>2, <1>9, <1>10, <1>11 DEF Cdc

\* usbh_cdc_device_ready: two requests at once.
LEMMA EnqueueTwo ==
    ASSUME NEW d \in Driver_t, NEW req \in Irp, d.state # "INVALID"
    PROVE  LET e == Enqueue(Enqueue(d, req), req) IN
           e.state = d.state /\ Keeps(d, e) /\ Requests(e) = Append(Append(Requests(d), req), req)
           /\ e.done = d.done
  <1>1. Enqueue(d, req) \in Driver_t /\ Requests(Enqueue(d, req)) = Append(Requests(d), req)
        /\ Keeps(d, Enqueue(d, req)) /\ Enqueue(d, req).state = d.state /\ Enqueue(d, req).done = d.done
    BY EnqueueType, EnqueueRequests, EnqueueKeeps
  <1> DEFINE c == Enqueue(d, req)
  <1>2. c \in Driver_t /\ c.state # "INVALID"
    BY <1>1
  <1> HIDE DEF c
  <1>3. Enqueue(c, req).state = c.state /\ Keeps(c, Enqueue(c, req)) /\ Requests(Enqueue(c, req)) = Append(Requests(c), req)
        /\ Enqueue(c, req).done = c.done
    BY <1>2, EnqueueRequests, EnqueueKeeps
  <1>4. Keeps(d, Enqueue(c, req))
    BY <1>1, <1>3 DEF Keeps, c
  <1> QED BY <1>1, <1>3, <1>4 DEF c

\* DeviceReady: the two pipes have their first requests.
LEMMA CdcReady ==
    ASSUME TypeOK, Cdc, PortBlocked, DeviceReady, UNCHANGED <<vport, vhw, op, port_evtq, port_task, app, callback>>
    PROVE  Cdc' /\ fault' = fault
  <1>1. CdcPipes /\ Visit /\ PortVisit /\ ObjectsVisit /\ CtrlVisit /\ CdcErrors /\ Owned /\ drv["ctrl"] \in Driver_t /\ drv["in"] \in Driver_t
    BY CdcPipesKnown DEF Cdc, Visit, ObjectsVisit, TypeOK, CdcPipes
  <1>a. {"LINE"} \union Payload \subseteq Irp /\ "LINE" \notin Chained
    BY CdcAssumption DEF Chained
  <1>2. task["ctrl"].at = "ready" /\ Goto("ctrl", "free") /\ UNCHANGED <<obj, evtq, addr, dev_addr>> /\ ready'
    BY DEF DeviceReady
  <1>3. /\ Life("in") = "whole" /\ Life("out") = "whole" /\ Life("ctrl") = "whole"
        /\ Unused("in") /\ Unused("out") /\ ~ready
    <2>1. Life("ctrl") = "whole"
      BY <1>1, <1>2, BusyIsWhole DEF CdcPipes
    <2>2. Life("in") \in {"none", "raw", "whole"} /\ Life("out") \in {"none", "raw", "whole"}
      BY <1>1, LifeType DEF CdcPipes
    <2> QED BY <1>2, <2>1, <2>2 DEF Cdc, Beginning
  <1>4. PICK data \in Payload :
          /\ UNCHANGED fault
          /\ drv' = [drv EXCEPT !["ctrl"] = IF Accepts("ctrl") THEN Enqueue(Enqueue(@, "LINE"), "LINE") ELSE @,
                                !["in"] = IF Accepts("in") THEN Enqueue(@, data) ELSE @]
    BY <1>3 DEF DeviceReady, Life
  <1>5. /\ drv'["ctrl"] = IF Accepts("ctrl") THEN Enqueue(Enqueue(drv["ctrl"], "LINE"), "LINE") ELSE drv["ctrl"]
        /\ drv'["in"] = IF Accepts("in") THEN Enqueue(drv["in"], data) ELSE drv["in"]
        /\ \A r \in Pipe \ {"ctrl", "in"} : drv'[r] = drv[r]
    <2>1. DOMAIN drv = Pipe /\ "ctrl" # "in"
      BY DEF TypeOK
    <2> DEFINE x == IF Accepts("ctrl") THEN Enqueue(Enqueue(drv["ctrl"], "LINE"), "LINE") ELSE drv["ctrl"]
               y == IF Accepts("in") THEN Enqueue(drv["in"], data) ELSE drv["in"]
    <2>2. drv' = [drv EXCEPT !["ctrl"] = x, !["in"] = y]
      BY <1>1, <1>4, <2>1 DEF CdcPipes
    <2> HIDE DEF x, y
    <2>3. drv'["ctrl"] = x /\ drv'["in"] = y /\ \A r \in Pipe \ {"ctrl", "in"} : drv'[r] = drv[r]
      BY <1>1, <2>1, <2>2 DEF CdcPipes
    <2> QED BY <2>3 DEF x, y
  <1>6. Accepts("ctrl") => drv["ctrl"].state # "INVALID"
    BY DEF Accepts
  <1>7. Keeps(drv["ctrl"], drv'["ctrl"]) /\ drv'["ctrl"].state = drv["ctrl"].state
        /\ \/ Requests(drv'["ctrl"]) = Requests(drv["ctrl"])
           \/ Requests(drv'["ctrl"]) = Append(Append(Requests(drv["ctrl"]), "LINE"), "LINE")
    <2>1. CASE Accepts("ctrl")
      BY <1>1, <1>a, <1>5, <1>6, <2>1, EnqueueTwo
    <2>2. CASE ~Accepts("ctrl")
      BY <1>5, <2>2 DEF Keeps
    <2> QED BY <2>1, <2>2
  <1>8. Keeps(drv["in"], drv'["in"]) /\ drv'["in"].state = drv["in"].state
    <2>1. CASE Accepts("in")
      BY <1>1, <1>a, <1>5, <2>1, EnqueueKeeps DEF Accepts
    <2>2. CASE ~Accepts("in")
      BY <1>5, <2>2 DEF Keeps
    <2> QED BY <2>1, <2>2
  <1>9. task'["ctrl"].at = "free" /\ task'["ctrl"].event = task["ctrl"].event /\ \A r \in Pipe \ {"ctrl"} : task'[r] = task[r]
    BY <1>1, <1>2, GotoFields DEF CdcPipes
  <1>10. PipesMove
    <2>1. ASSUME NEW r \in Pipe PROVE Keeps(drv[r], drv'[r]) /\ KeepsTask(task[r], task'[r])
      <3>1. Keeps(drv[r], drv'[r])
        BY <1>5, <1>7, <1>8 DEF Keeps
      <3>2. KeepsTask(task[r], task'[r])
        BY <1>1, <1>2, <1>9 DEF KeepsTask, Owned, OwnedAt
      <3> QED BY <3>1, <3>2
    <2>2. ASSUME NEW r \in Pipe, Life(r) # "whole" PROVE drv'[r] = drv[r] /\ task'[r] = task[r] /\ evtq'[r] = evtq[r]
      BY <1>2, <1>3, <1>5, <1>9, <2>2
    <2> QED BY <1>2, <2>1, <2>2 DEF PipesMove
  <1>11. PortVisit' /\ ObjectsVisit'
    BY <1>1, <1>10, PortVisitStill, MoveObjects
  <1>12. CtrlVisit'
    <2> DEFINE s == Requests(drv["ctrl"])
               t == Requests(drv'["ctrl"])
    <2>1. s \in Seq(Irp) /\ (\A k \in DOMAIN s : s[k] \notin Chained) /\ (t = s \/ t = Append(Append(s, "LINE"), "LINE"))
      BY <1>1, <1>3, <1>7, RequestsType DEF CtrlVisit, Unchained
    <2> HIDE DEF s, t
    <2>2. \A k \in DOMAIN t : t[k] \notin Chained
      BY <1>a, <2>1, AppendUnchained
    <2>3. t = Requests(drv'["ctrl"])
      BY DEF t
    <2> QED BY <1>1, <1>2, <1>3, <1>9, <2>2, <2>3, CtrlMore
  <1>13. CdcErrors'
    <2>1. ErrorsAt("ctrl")'
      BY <1>1, <1>2, <1>7, <1>9, ErrorsGo DEF CdcPipes, CdcErrors
    <2>2. ErrorsAt("in")'
      BY <1>1, <1>2, <1>3, <1>9, ErrorsNone DEF Unused, TaskIn, CdcPipes
    <2>3. \A r \in Pipe \ {"ctrl", "in"} : ErrorsAt(r)'
      BY <1>1, <1>2, <1>5, <1>9, ErrorsStill DEF CdcErrors
    <2> QED BY <2>1, <2>2, <2>3 DEF CdcErrors
  <1>14. Beginning' /\ Begun'
    <2>1. Life("in")' = "whole" /\ Life("out")' = "whole" /\ app # "sending"
      BY <1>2, <1>3 DEF Life, Cdc, Begun
    <2> QED BY <1>2, <1>9, <2>1 DEF Beginning, Begun, Cdc, Life
  <1> QED BY <1>4, <1>11, <1>12, <1>13, <1>14 DEF Cdc, Visit

-----------------------------------------------------------------------------
(* begin, and the application                                              *)

\* begin, of a new pipe.
LEMMA BeginFields ==
    ASSUME TypeOK, NEW p \in DataPipe, NEW at, NEW next, Begin(p, at, next), vport.conn_devc_ena
    PROVE  /\ task["ctrl"].at = at /\ task'[p] = TaskIn("created") /\ task'["ctrl"].at = next[1]
           /\ task'["ctrl"].irp = task["ctrl"].irp
           /\ (\A r \in DataPipe \ {p} : task'[r] = task[r]) /\ NewPipe(p) /\ UNCHANGED <<drv, evtq, addr, dev_addr, leaked>>
  <1>1. task \in [Pipe -> Task] /\ "ctrl" \in Pipe /\ p \in Pipe /\ p # "ctrl" /\ task["ctrl"] \in Task
    BY HostPipeAssumption DEF TypeOK, DataPipe
  <1> DEFINE s == [task EXCEPT ![p] = TaskIn("created")]
  <1>2. s["ctrl"] = task["ctrl"] /\ s[p] = TaskIn("created") /\ DOMAIN s = Pipe /\ \A r \in Pipe \ {p} : s[r] = task[r]
    BY <1>1
  <1>3. task' = [s EXCEPT !["ctrl"].at = next[1]]
    BY DEF Begin, StartTask
  <1> HIDE DEF s
  <1>4. task'["ctrl"] = [task["ctrl"] EXCEPT !.at = next[1]] /\ task'[p] = s[p] /\ \A r \in Pipe \ {"ctrl"} : task'[r] = s[r]
    BY <1>1, <1>2, <1>3
  <1>5. task'["ctrl"].at = next[1] /\ task'["ctrl"].irp = task["ctrl"].irp
    BY <1>1, <1>4 DEF Task
  <1> QED BY <1>2, <1>4, <1>5 DEF Begin, DataPipe

\* begin, of its queue and its driver's part.
LEMMA BeginAllocFields ==
    ASSUME TypeOK, NEW p \in DataPipe, NEW at, NEW next, BeginAlloc(p, at, next)
    PROVE  /\ task["ctrl"].at = at /\ task'[p] = TaskIn("blocked") /\ task'["ctrl"].at = next
           /\ task'["ctrl"].irp = task["ctrl"].irp /\ (\A r \in DataPipe \ {p} : task'[r] = task[r])
           /\ AllocPipe(p, Address) /\ UNCHANGED <<dev_addr, leaked, fault>>
  <1>1. task \in [Pipe -> Task] /\ "ctrl" \in Pipe /\ p \in Pipe /\ p # "ctrl" /\ task["ctrl"] \in Task
    BY HostPipeAssumption DEF TypeOK, DataPipe
  <1> DEFINE s == [task EXCEPT ![p] = TaskIn("blocked")]
  <1>2. s["ctrl"] = task["ctrl"] /\ s[p] = TaskIn("blocked") /\ DOMAIN s = Pipe /\ \A r \in Pipe \ {p} : s[r] = task[r]
    BY <1>1
  <1>3. task' = [s EXCEPT !["ctrl"].at = next]
    BY DEF BeginAlloc, QueueTask
  <1> HIDE DEF s
  <1>4. task'["ctrl"] = [task["ctrl"] EXCEPT !.at = next] /\ task'[p] = s[p] /\ \A r \in Pipe \ {"ctrl"} : task'[r] = s[r]
    BY <1>1, <1>2, <1>3
  <1>5. task'["ctrl"].at = next /\ task'["ctrl"].irp = task["ctrl"].irp
    BY <1>1, <1>4 DEF Task
  <1> QED BY <1>2, <1>4, <1>5 DEF BeginAlloc, DataPipe

\* begin opens a pipe: the object and its task,
LEMMA CdcBegins ==
    ASSUME TypeOK, Cdc, PortBlocked, NEW p \in {"in", "out"}, NEW at, NEW next,
           Begin(p, at, next), UNCHANGED <<vport, vhw, op, port_evtq, port_task, app, callback, ready>>,
           (p = "in" /\ at = "begin_in" /\ next[1] = "begin_in_alloc") \/ (p = "out" /\ at = "begin_out" /\ next[1] = "begin_out_alloc")
    PROVE  Cdc' /\ fault' = fault
  <1>1. CdcPipes /\ PortVisit /\ ObjectsVisit /\ CtrlVisit /\ Owned /\ Beginning /\ Begun /\ (\A r \in Pipe : ErrorsAt(r)) /\ p \in DataPipe
    BY CdcPipesKnown DEF Cdc, Visit, ObjectsVisit, CdcErrors, CdcPipes
  <1>2. task["ctrl"].at = at /\ at \in Making
    BY DEF Begin, Making
  <1>3. vport.state = "ENABLED" /\ vport.conn_devc_ena
    BY <1>1, <1>2 DEF CtrlVisit, PortVisit, Hardware
  <1>4. /\ task'[p] = TaskIn("created") /\ task'["ctrl"].at = next[1] /\ task'["ctrl"].irp = task["ctrl"].irp
        /\ (\A r \in DataPipe \ {p} : task'[r] = task[r]) /\ NewPipe(p) /\ UNCHANGED <<drv, evtq, addr, dev_addr, leaked>>
    BY <1>1, <1>3, BeginFields
  <1>5. Life("ctrl") = "whole" /\ drv["ctrl"] \in Driver_t
    BY <1>1, <1>2, BusyIsWhole DEF Making, CdcPipes, TypeOK
  <1>6. Life(p) = "none" /\ Life("out") = "none" /\ (p # "in" => Life("in") # "none" /\ Unused("in")) /\ ~ready
    <2>1. p = "in" => Life("in") = "none"
      BY <1>1, <1>2 DEF CtrlVisit, Unchained
    <2>2. Life("in") = "none" => Life("out") = "none"
      BY <1>1 DEF ObjectsVisit, Nested, CdcPipes
    <2>3. p = "out" => Life("out") = "none" /\ Life("in") # "none" /\ Unused("in")
      BY <1>1, <1>2 DEF Beginning
    <2>4. ~(Leaving /\ port_task.at = "act")
      BY DEF PortBlocked
    <2> QED BY <1>1, <2>1, <2>2, <2>3, <2>4 DEF Begun
  <1>7. /\ next[1] \in {"begin_in_alloc", "begin_out_alloc"} /\ task["ctrl"].at \notin {"none", "created", "blocked"}
        /\ task'["ctrl"].at \notin {"none", "created", "blocked"}
    BY <1>2, <1>4 DEF Making
  <1>8. ObjectsVisit' /\ fault' = fault /\ (Life(p) = "raw")' /\ evtq'[p] = << >> /\ drv[p] = NoPipeYet
           /\ (\A r \in Pipe \ {p} : obj'[r] = obj[r] /\ evtq'[r] = evtq[r]) /\ obj'[p].ptr = "set"
    BY <1>1, <1>3, <1>4, <1>5, <1>6, <1>7, NewDataObjects DEF CdcPipes
  <1>9. PortVisit'
    BY <1>1, PortVisitStill
  <1>10. CtrlVisit'
    <2>1. Life("in")' # "none"
      BY <1>1, <1>6, <1>8 DEF CdcPipes, Life
    <2> DEFINE s == Requests(drv["ctrl"])
    <2>2. \A k \in DOMAIN s : s[k] \notin Chained
      <3>1. CASE p = "in"
        <4>1. Enumerating /\ Carries
          BY <1>2, <1>5, <1>6, <3>1 DEF Enumerating, Carries, PortBlocked
        <4>2. s = << >>
          BY <1>1, <4>1 DEF CtrlVisit, Chain
        <4> HIDE DEF s
        <4> QED BY <4>2
      <3>2. CASE p # "in"
        BY <1>1, <1>6, <3>2 DEF CtrlVisit, Unchained
      <3> QED BY <3>1, <3>2
    <2>3. s = Requests(drv'["ctrl"])
      BY <1>4
    <2> HIDE DEF s
    <2> QED BY <1>1, <1>3, <1>4, <1>7, <2>1, <2>2, <2>3 DEF CtrlVisit, Chain, Unchained, Enumerating
  <1>11. Beginning'
    <2>1. CASE p = "in"
      <3>1. Life("in")' = "raw" /\ Life("out")' = "none" /\ task'["ctrl"].at = "begin_in_alloc"
        BY <1>1, <1>4, <1>6, <1>8, <2>1 DEF CdcPipes, Life
      <3>2. Unused("in")'
        BY <1>4, <1>8, <2>1, <3>1 DEF Unused
      <3> QED BY <1>6, <3>1, <3>2 DEF Beginning
    <2>2. CASE p = "out"
      <3>1. Life("in")' = Life("in") /\ Life("out")' = "raw" /\ task'["ctrl"].at = "begin_out_alloc"
        BY <1>1, <1>4, <1>6, <1>8, <2>2 DEF CdcPipes, Life
      <3>2. Unused("in")' /\ Unused("out")'
        BY <1>1, <1>4, <1>6, <1>8, <2>2, <3>1 DEF Unused, CdcPipes
      <3>3. Life("in") # "raw"
        BY <1>1, <1>2, <2>2 DEF Beginning
      <3> QED BY <1>6, <2>2, <3>1, <3>2, <3>3 DEF Beginning
    <2> QED BY <2>1, <2>2
  <1>12. Begun'
    <2>1. \A r \in DataPipe \ {"in", "out"} : Life(r)' = "none" /\ obj'[r].ptr = "null"
      BY <1>1, <1>8 DEF Begun, Life, DataPipe
    <2> QED BY <1>1, <1>4, <1>6, <1>7, <2>1 DEF Begun
  <1>13. \A r \in Pipe : ErrorsAt(r)'
    <2>1. ErrorsAt(p)'
      BY <1>1, <1>4, <1>8, ErrorsNone DEF TaskIn, DataPipe
    <2>2. ErrorsAt("ctrl")'
      BY <1>1, <1>4, <1>7, <1>8 DEF ErrorsAt, Waiting, CdcPipes, DataPipe
    <2>3. \A r \in DataPipe \ {p} : ErrorsAt(r)'
      BY <1>1, <1>4, <1>8, ErrorsStill DEF DataPipe
    <2> QED BY <2>1, <2>2, <2>3 DEF DataPipe
  <1> QED BY <1>8, <1>9, <1>10, <1>11, <1>12, <1>13 DEF Cdc, Visit, CdcErrors

\* and the driver's part.
LEMMA CdcAllocs ==
    ASSUME TypeOK, Cdc, PortBlocked, NEW p \in {"in", "out"}, NEW at, NEW next,
           BeginAlloc(p, at, next), UNCHANGED <<vport, vhw, op, port_evtq, port_task, app, callback, ready>>,
           (p = "in" /\ at = "begin_in_alloc" /\ next = "begin_out") \/ (p = "out" /\ at = "begin_out_alloc" /\ next = "ready")
    PROVE  Cdc' /\ fault' = fault /\ addr' = [addr EXCEPT ![p] = Address]
  <1>1. CdcPipes /\ PortVisit /\ ObjectsVisit /\ CtrlVisit /\ Owned /\ Beginning /\ Begun /\ (\A r \in Pipe : ErrorsAt(r)) /\ p \in DataPipe
    BY CdcPipesKnown DEF Cdc, Visit, ObjectsVisit, CdcErrors, CdcPipes
  <1>2. task["ctrl"].at = at /\ at \in Making /\ AllocPipe(p, Address) /\ UNCHANGED <<dev_addr, leaked, fault>>
    BY DEF BeginAlloc, Making
  <1>3. vport.state = "ENABLED" /\ vport.conn_devc_ena
    BY <1>1, <1>2 DEF CtrlVisit, PortVisit, Hardware
  <1>4. /\ task'["ctrl"].at = next /\ task'["ctrl"].irp = task["ctrl"].irp
        /\ task'[p] = TaskIn("blocked") /\ \A r \in DataPipe \ {p} : task'[r] = task[r]
    BY <1>1, BeginAllocFields
  <1>5. /\ Life(p) = "raw" /\ Life("in") # "none" /\ Unused("in") /\ ~ready
        /\ p = "in" => Life("out") = "none"
        /\ p = "out" => Unused("out") /\ Life("in") # "raw"
    BY <1>1, <1>2 DEF Beginning
  <1>6. ObjectsVisit' /\ (Life(p) = "whole")'
           /\ drv'[p] = [NoPipeYet EXCEPT !.alloc = TRUE] /\ addr' = [addr EXCEPT ![p] = Address]
           /\ (\A r \in Pipe \ {p} : obj'[r] = obj[r] /\ drv'[r] = drv[r])
           /\ obj'[p].ptr = obj[p].ptr /\ evtq' = evtq /\ evtq[p] = << >> /\ task[p] = TaskIn("created")
    BY <1>1, <1>2, <1>3, <1>4, <1>5, AllocDataObjects DEF CdcPipes
  <1>7. PortVisit'
    BY <1>1, PortVisitStill
  <1>8. CtrlVisit'
    <2>1. Life("in")' # "none"
      BY <1>1, <1>5, <1>6 DEF CdcPipes, Life
    <2> DEFINE s == Requests(drv["ctrl"])
    <2>2. \A k \in DOMAIN s : s[k] \notin Chained
      BY <1>1, <1>5 DEF CtrlVisit, Unchained
    <2>3. s = Requests(drv'["ctrl"])
      BY <1>1, <1>6 DEF CdcPipes, DataPipe
    <2> HIDE DEF s
    <2> QED BY <1>1, <1>3, <1>4, <2>1, <2>2, <2>3 DEF CtrlVisit, Chain, Unchained, Enumerating
  <1>9. Beginning'
    <2>1. CASE p = "in"
      <3>1. Life("in")' = "whole" /\ Life("out")' = "none" /\ task'["ctrl"].at = "begin_out"
        BY <1>1, <1>4, <1>5, <1>6, <2>1 DEF CdcPipes, Life
      <3>2. Unused("in")'
        BY <1>1, <1>2, <1>4, <1>6, <2>1, <3>1 DEF Unused
      <3> QED BY <1>5, <3>1, <3>2 DEF Beginning
    <2>2. CASE p = "out"
      <3>1. Life("in")' = Life("in") /\ Life("out")' = "whole" /\ task'["ctrl"].at = "ready"
        BY <1>1, <1>4, <1>5, <1>6, <2>2 DEF CdcPipes, Life
      <3>2. Unused("in")' /\ Unused("out")'
        BY <1>1, <1>2, <1>4, <1>5, <1>6, <2>2, <3>1 DEF Unused, CdcPipes
      <3> QED BY <1>5, <2>2, <3>1, <3>2 DEF Beginning
    <2> QED BY <2>1, <2>2
  <1>10. Begun'
    <2>1. \A r \in DataPipe \ {"in", "out"} : Life(r)' = "none" /\ obj'[r].ptr = "null"
      BY <1>1, <1>6 DEF Begun, Life, DataPipe
    <2>2. p = "out" => Life("out")' = "whole"
      BY <1>6
    <2> QED BY <1>1, <1>4, <1>5, <2>1, <2>2 DEF Begun
  <1>11. \A r \in Pipe : ErrorsAt(r)'
    <2>1. ErrorsAt(p)'
      BY <1>1, <1>2, <1>4, <1>6, ErrorsNone DEF TaskIn, DataPipe
    <2>2. ErrorsAt("ctrl")'
      BY <1>1, <1>2, <1>4, <1>6 DEF ErrorsAt, Waiting, CdcPipes, DataPipe
    <2>3. \A r \in DataPipe \ {p} : ErrorsAt(r)'
      BY <1>1, <1>2, <1>4, <1>6, ErrorsStill DEF DataPipe
    <2> QED BY <2>1, <2>2, <2>3 DEF DataPipe
  <1> QED BY <1>2, <1>6, <1>7, <1>8, <1>9, <1>10, <1>11 DEF Cdc, Visit, CdcErrors

\* The application runs when the tasks are blocked.
LEMMA AppIsReady ==
    ASSUME TypeOK, Cdc, AppRuns, ready, app \in {"loop", "sending"}
    PROVE  /\ vport.state = "ENABLED" /\ Life("in") = "whole" /\ Life("out") = "whole" /\ Life("ctrl") = "whole"
           /\ \A p \in Pipe : task[p].at \in {"none", "blocked"} /\ evtq[p] = << >>
  <1>1. CdcPipes /\ PortVisit /\ ObjectsVisit /\ CtrlVisit /\ Owned /\ Begun /\ Beginning
    BY CdcPipesKnown DEF Cdc, Visit, ObjectsVisit
  <1>2. \A p \in Pipe : task[p].at \in {"none", "blocked"} /\ evtq[p] = << >>
    BY <1>1 DEF AppRuns, PipesBlocked, Runnable, Owned, OwnedAt
  <1>3. \/ port_task.at \in {"none", "debounce", "reset"}
        \/ port_task.at = "blocked" /\ port_evtq = << >>
    <2>1. ASSUME port_task.at = "post" PROVE Len(evtq[port_task.cur]) # QueueLen
      <3>1. port_task.cur \in Pipe
        BY <1>1, <2>1 DEF ObjectsVisit, Invalidated
      <3>2. evtq[port_task.cur] = << >>
        BY <1>2, <3>1
      <3> QED BY <3>2, HostPipeAssumption
    <2> QED BY <2>1 DEF AppRuns, PortBlocked
  <1>4. Life("out") = "whole"
    BY <1>1, <1>3 DEF Begun
  <1>5. vport.state \in {"ENABLED", "RECOVERY"} /\ Life("ctrl") = "whole" /\ Life("in") # "none"
    BY <1>1, <1>4 DEF Owned, OwnedAt, ObjectsVisit, Nested, CdcPipes
  <1>6. port_task.at = "blocked" /\ Calm
    BY <1>1, <1>3, <1>5 DEF PortVisit, Hardware, Handling, Waits, ObjectsVisit, Nested, Calm, Gone
  <1>7. vport.state = "ENABLED"
    BY <1>1, <1>5, <1>6 DEF PortVisit, Waits, Calm
  <1>8. Life("in") = "whole"
    BY <1>1, <1>2, <1>5, LifeType DEF Beginning, CdcPipes
  <1> QED BY <1>2, <1>4, <1>5, <1>7, <1>8

\* The application makes a request.
LEMMA AppMoves ==
    ASSUME TypeOK, Cdc, AppRuns, ready, app \in {"loop", "sending"}, app' \in {"loop", "sending"}, app' = "sending" => app = "sending",
           NEW p \in {"ctrl", "out"}, NEW req \in Irp, p = "ctrl" => req \notin Chained, SubmitIrp(p, req),
           UNCHANGED <<vport, vhw, op, obj, evtq, task, addr, dev_addr, port_evtq, port_task, callback, ready>>
    PROVE  Cdc' /\ fault' = fault
  <1>1. CdcPipes /\ Visit /\ CtrlVisit /\ Owned /\ (\A r \in Pipe : ErrorsAt(r)) /\ p \in Pipe /\ drv[p] \in Driver_t
    BY CdcPipesKnown DEF Cdc, Visit, ObjectsVisit, CdcErrors, CdcPipes, TypeOK
  <1>2. /\ vport.state = "ENABLED" /\ Life("in") = "whole" /\ Life(p) = "whole"
        /\ task[p].at \in {"none", "blocked"} /\ evtq[p] = << >>
    BY <1>1, AppIsReady
  <1>3. fault' = fault /\ (\A r \in Pipe \ {p} : drv'[r] = drv[r]) /\ Keeps(drv[p], drv'[p])
        /\ (drv'[p] = Enqueue(drv[p], req) \/ drv'[p] = drv[p])
    BY <1>1, <1>2, SubmitFields
  <1>4. OneMoves(p)
    BY <1>1, <1>2, <1>3 DEF OneMoves, KeepsTask, Owned, OwnedAt
  <1>5. p = "ctrl" => CtrlVisit'
    <2> SUFFICES ASSUME p = "ctrl" PROVE CtrlVisit'
      OBVIOUS
    <2> DEFINE s == Requests(drv["ctrl"])
               t == Requests(drv'["ctrl"])
    <2>1. s \in Seq(Irp) /\ (\A k \in DOMAIN s : s[k] \notin Chained) /\ (t = s \/ t = Append(s, req))
      BY <1>1, <1>2, <1>3, RequestsType, EnqueueRequests DEF CtrlVisit, Unchained
    <2> HIDE DEF s, t
    <2>2. \A k \in DOMAIN t : t[k] \notin Chained
      BY <2>1, AppendUnchained
    <2>3. t = Requests(drv'["ctrl"])
      BY DEF t
    <2> QED BY <1>1, <1>2, <2>2, <2>3, CtrlMore
  <1>6. Visit'
    BY <1>1, <1>4, <1>5, MovesVisit DEF CdcPipes
  <1>7. Beginning' /\ Begun'
    <2>1. CASE p = "ctrl"
      BY <1>4, <2>1, CtrlMoves DEF Cdc, Begun
    <2>2. CASE p = "out"
      BY <1>1, <1>4, <2>2, DataMoves DEF Cdc, Begun, CdcPipes
    <2> QED BY <2>1, <2>2
  <1>8. ErrorsAt(p)' /\ \A r \in Pipe \ {p} : ErrorsAt(r)'
    BY <1>1, <1>2, <1>3, ErrorsNone, ErrorsStill
  <1> QED BY <1>3, <1>6, <1>7, <1>8 DEF Cdc, CdcErrors

-----------------------------------------------------------------------------
(* The session                                                             *)

\* The class driver's callback is known before there is anything to tell it of.
LEMMA PortCbNoneNot ==
    ASSUME PortVisit
    PROVE  ~PortCbNone
  BY DEF PortCbNone, PortVisit, Handling, Hardware, Coming, Leaving

\* The application begins to send.
LEMMA CdcSends ==
    ASSUME TypeOK, Cdc, AppWaits, sendData
    PROVE  Cdc' /\ fault' = fault
  <1>1. /\ ready /\ app = "loop" /\ app' = "sending" /\ AppRuns /\ Stays
        /\ UNCHANGED <<vport, vhw, op, port_evtq, port_task, callback, ready, fault, addr, dev_addr, leaked>>
    BY DEF AppWaits, sendData, Stays, viewVars, hostPipeVars
  <1>2. CdcPipes /\ PortVisit /\ ObjectsVisit /\ CtrlVisit /\ Beginning /\ Begun /\ CdcErrors /\ vport.state = "ENABLED"
    BY <1>1, CdcPipesKnown, AppIsReady DEF Cdc, Visit
  <1>3. PortVisit' /\ ObjectsVisit' /\ CtrlVisit'
    BY <1>1, <1>2, PortVisitStill, ObjectsStill, CtrlStands DEF Stays, CtrlStill
  <1>4. Beginning'
    BY <1>1, <1>2 DEF Stays, Beginning, Unused, Life
  <1>5. Begun'
    BY <1>1, <1>2 DEF Stays, Begun, Life, Leaving
  <1>6. CdcErrors'
    BY <1>1, <1>2, ErrorsStill DEF CdcErrors, Stays
  <1> QED BY <1>1, <1>3, <1>4, <1>5, <1>6 DEF Cdc, Visit

\* The application sends, and makes requests.
LEMMA CdcApp ==
    ASSUME TypeOK, Cdc, AppWaits, App
    PROVE  Cdc' /\ fault' = fault
  <1>1. CASE sendData
    BY <1>1, CdcSends
  <1>2. CASE sendDataEnd
    <2>1. ready
      BY <1>2 DEF sendDataEnd, Cdc, Begun
    <2>2. PICK data \in Payload : SubmitIrp("out", data)
      BY <1>2 DEF sendDataEnd, outData
    <2>3. data \in Irp
      BY CdcAssumption
    <2> QED BY <1>2, <2>1, <2>2, <2>3, AppMoves DEF sendDataEnd
  <1>3. ASSUME NEW req \in {"LINE", "STRING"}, CtrlRequest(req) PROVE Cdc' /\ fault' = fault
    <2>1. req \in Irp /\ req \notin Chained
      BY CdcAssumption DEF Chained
    <2> QED BY <1>3, <2>1, AppMoves DEF AppWaits, CtrlRequest, portVars
  <1> QED BY <1>1, <1>2, <1>3 DEF App, setLineCoding, getSerialString

\* The port task, and the class driver's callback of it.
LEMMA CdcPortTask ==
    ASSUME TypeOK, PortInv, Cdc, PortTask \/ PortCb
    PROVE  Cdc' /\ fault' = fault
  <1>1. ~HandleNothing /\ ~PortCbNone
    BY HandleNothingNot, PortCbNoneNot DEF Cdc, Visit
  <1> QED
    BY <1>1, CdcReceives, CdcLoses, CdcPosts, CdcActs, CdcRecovers, CdcMakesCtrl, CdcConnects, CdcRequests, CdcDeletes
       DEF PortTask, PortCb

\* The class driver's callbacks of the pipes.
LEMMA CdcPipeCb ==
    ASSUME TypeOK, Cdc, PipeCb
    PROVE  Cdc' /\ fault' = fault
  <1>1. PortBlocked /\ UNCHANGED <<vport, vhw, op, port_evtq, port_task, app, callback>>
    BY DEF PipeCb
  <1>2. CASE DeviceReady
    BY <1>1, <1>2, CdcReady
  <1>3. ASSUME CtrlCb, ready' = ready PROVE Cdc' /\ fault' = fault
    BY <1>1, <1>3, CdcCtrlCb
  <1>4. ASSUME InCb \/ OutCb, ready' = ready PROVE Cdc' /\ fault' = fault
    BY <1>1, <1>4, CdcDataCb
  <1>5. ASSUME begin, ready' = ready PROVE Cdc' /\ fault' = fault
    <2>1. CASE Begin("in", "begin_in", <<"begin_in_alloc", "begin_out">>)
      BY <1>1, <1>5, <2>1, CdcBegins
    <2>2. CASE Begin("out", "begin_out", <<"begin_out_alloc", "ready">>)
      BY <1>1, <1>5, <2>2, CdcBegins
    <2>3. CASE BeginAlloc("in", "begin_in_alloc", "begin_out")
      BY <1>1, <1>5, <2>3, CdcAllocs
    <2>4. CASE BeginAlloc("out", "begin_out_alloc", "ready")
      BY <1>1, <1>5, <2>4, CdcAllocs
    <2> QED BY <1>5, <2>1, <2>2, <2>3, <2>4 DEF begin
  <1> QED BY <1>2, <1>3, <1>4, <1>5 DEF PipeCb

\* Every step of a session.
LEMMA SessionStep ==
    ASSUME TypeOK, PortInv, Cdc, SessionNext
    PROVE  Cdc' /\ fault' = fault
  <1>1. CASE Tasks
    <2>1. CASE init \/ initCallback
      BY <2>1, CdcStarts
    <2>2. CASE PortTask \/ PortCb
      BY <2>2, CdcPortTask
    <2>3. CASE \E p \in Pipe : PipeTask(p)
      BY <2>3, CdcSteps
    <2>4. CASE PipeCb
      BY <2>4, CdcPipeCb
    <2> QED BY <1>1, <2>1, <2>2, <2>3, <2>4 DEF Tasks
  <1>2. CASE Answered /\ Delay
    <2>1. ASSUME ConnectReset PROVE vport.state # "RESETTING"
      BY <1>2 DEF Answered, Cdc, Visit, PortVisit, Hardware
    <2> QED BY <1>2, <2>1, CdcResets, CdcReceives DEF Delay
  <1>3. CASE Plug \/ Enable
    BY <1>3, CdcPlug
  <1>4. CASE \/ Transfer
             \/ (\E p \in DataPipe : TransferFailed(p, "ERROR_STALL")) /\ UNCHANGED <<vport, vhw, op, portVars>>
    <2>1. UNCHANGED <<vport, vhw, op, portVars>>
      BY <1>4 DEF Transfer
    <2>2. PICK p \in Pipe : TransferDone(p) \/ (p \in DataPipe /\ TransferFailed(p, "ERROR_STALL"))
      BY <1>4 DEF Transfer, DataPipe
    <2> QED BY <2>1, <2>2, CdcTransfers
  <1>5. CASE AppWaits /\ App
    BY <1>5, CdcApp
  <1>6. CASE NotMakingPipes /\ NoneDangles /\ Unplug
    BY <1>6, CdcUnplug
  <1> QED BY <1>1, <1>2, <1>3, <1>4, <1>5, <1>6 DEF SessionNext, Steps

\* The invariant holds at the start,
LEMMA SessionInit == Init => CdcVisiting
  <1> SUFFICES ASSUME Init PROVE CdcVisiting
    OBVIOUS
  <1>1. CdcPipes /\ Visit
    BY CdcPipesKnown, VisitInit DEF CdcPipes
  <1>2. /\ \A p \in Pipe : Life(p) = "none" /\ obj[p].ptr = "null" /\ task[p] = TaskIn("none") /\ evtq[p] = << >>
        /\ ~ready /\ app = "boot" /\ fault = "none"
    BY DEF Init, PipesInit, Life
  <1>3. \A p \in Pipe : task[p].at = "none"
    BY <1>2 DEF TaskIn
  <1>4. Beginning /\ Begun
    BY <1>1, <1>2, <1>3 DEF Beginning, Begun, CdcPipes, DataPipe
  <1>5. CdcErrors
    BY <1>2, <1>3 DEF CdcErrors, ErrorsAt, Waiting
  <1> QED BY <1>1, <1>2, <1>4, <1>5 DEF CdcVisiting

\* and every step of the session keeps it,
LEMMA SessionKeeps == PortInv /\ CdcVisiting /\ [SessionNext]_vars => CdcVisiting'
  <1> SUFFICES ASSUME TypeOK, PortInv, Cdc, fault = "none", [SessionNext]_vars
               PROVE  Cdc' /\ fault' = "none"
    BY DEF CdcVisiting, Cdc, PortInv
  <1>1. CASE SessionNext
    BY <1>1, SessionStep
  <1>2. CASE UNCHANGED vars
    <2>1. Stays /\ UNCHANGED <<vport, vhw, op, port_evtq, port_task, app, callback, ready, fault>>
      BY <1>2 DEF vars, viewVars, hostPipeVars, portVars, Stays
    <2>2. PortVisit' /\ ObjectsVisit' /\ CtrlVisit'
      BY <2>1, PortVisitStill, ObjectsStill, CtrlStands DEF Stays, CtrlStill, Cdc, Visit
    <2>3. Beginning' /\ Begun'
      BY <2>1 DEF Cdc, Stays, Beginning, Begun, Unused, Life, Leaving
    <2>4. CdcErrors'
      BY <2>1, ErrorsStill DEF Cdc, CdcErrors, Stays
    <2> QED BY <2>1, <2>2, <2>3, <2>4 DEF Cdc, Visit
  <1> QED BY <1>1, <1>2

\* and what the run checks is part of it.
LEMMA VisitingIsSafe == PortInv /\ CdcVisiting => SessionSafe
  <1> SUFFICES ASSUME TypeOK, CdcVisiting PROVE SessionSafe
    BY DEF PortInv
  <1>1. PortVisit /\ Owned /\ CdcErrors /\ fault = "none"
    BY DEF CdcVisiting, Visit, ObjectsVisit
  <1>2. UsesWholePipes /\ DeletesWholePipes
    BY <1>1 DEF UsesWholePipes, DeletesWholePipes
  <1>3. NoOrphan
    BY <1>1 DEF NoOrphan, Owned, OwnedAt, Life
  <1>4. ResetStopped
    BY <1>1 DEF ResetStopped, CdcErrors, ErrorsAt, Known, OnBus
  <1>5. Recovered
    BY <1>1 DEF Recovered, PortVisit, Waits
  <1> QED BY <1>2, <1>3, <1>4, <1>5 DEF SessionSafe

\* A step of a session is a step of the specification.
LEMMA SessionSteps == [SessionNext]_vars => [Next]_vars
  <1>1. ASSUME \E p \in DataPipe : TransferFailed(p, "ERROR_STALL"), UNCHANGED <<vport, vhw, op, portVars>>
        PROVE  TransferError(ErrorEvent)
    BY <1>1 DEF TransferError, ErrorEvent, DataPipe
  <1> QED BY <1>1 DEF SessionNext, Next, Steps, Interrupt

\* As long as the device leaves only between the makings of its pipes, and stalls
\* only transfers of data, nobody uses or deletes a pipe that is not there, none is
\* lost, no reset waits for a transfer, and the port comes back.  For an application
\* that asks only after usbh_cdc_device_ready and before the loss (AppWaits), which
\* sendData does not see to, and with no tick between a task and its queue
\* (pipe.cpp:153, 154): MCCdc!Eager and MCCdc!Sliced are what happens without.
THEOREM SessionIsSafe == Session => []SessionSafe
  <1>1. [SessionNext]_vars => [Next]_vars
    BY SessionSteps
  <1>2. Session => Init /\ [][SessionNext]_vars
    BY PTL DEF Session
  <1>3. PortInv /\ [SessionNext]_vars => PortInv'
    BY <1>1, PortInvNext
  <1>4. Init /\ [][SessionNext]_vars => [](PortInv /\ CdcVisiting)
    BY <1>3, PortInvInit, SessionInit, SessionKeeps, PTL
  <1>5. [](PortInv /\ CdcVisiting) => []SessionSafe
    BY VisitingIsSafe, PTL
  <1> QED BY <1>2, <1>4, <1>5

-----------------------------------------------------------------------------
(* While the device is there                                               *)

\* What may happen while the device is there, or as it is enabled.
ThereStep ==
    \/ Enable
    \/ Unplug
    \/ ConnectReset /\ vport' = vport /\ Life("ctrl") = "none" /\ There
    \/ ActNothing
    \/ addCTRLpipe \/ addCTRLpipeEnd \/ PortCbDeviceDesc \/ PortCbSetAddr
    \/ \E p \in Pipe : PipeTask(p)
    \/ PipeCb
    \/ AppWaits /\ App
    \/ Transfer
    \/ (\E p \in DataPipe : TransferFailed(p, "ERROR_STALL")) /\ UNCHANGED <<vport, vhw, op, portVars>>

\* The driver's task of the port has no other step.
LEMMA ThereTask ==
    ASSUME TypeOK, PortInv, Cdc, PortTask \/ PortCb, There \/ There'
    PROVE  ThereStep
  <1>1. CdcPipes /\ Visit /\ ~HandleNothing /\ ~PortCbNone
    BY CdcPipesKnown, HandleNothingNot, PortCbNoneNot DEF Cdc, Visit
  <1>2. ~PortReceive
    <2>1. ASSUME PortReceive PROVE vport' = vport /\ There
      BY <2>1 DEF PortReceive, viewVars, There
    <2> QED BY <1>1, <2>1 DEF PortReceive, There, Visit, PortVisit, Waits, Calm, Arrived, Gone
  <1>3. ~HandleConn
    <2>1. ASSUME HandleConn PROVE FALSE
      <3>1. vport'.state = vport.state /\ vport.state = "DISCONNECTED"
        BY <1>1, <2>1, HandleConnVisit, ConnSession DEF Visit, CdcPipes
      <3> QED BY <3>1 DEF There
    <2> QED BY <2>1
  <1>4. ~HandleLost /\ ~HandleLostNext /\ ~PostInvalid
    BY <1>1, LostSession, LostNextSession, PostSession DEF There, CdcPipes
  <1>5. ~ActPowerOff /\ ~suddenDisconnect
    <2>1. ~ActPowerOff
      BY <1>1 DEF ActPowerOff, Visit, PortVisit, Connecting, Coming, Leaving
    <2>2. ASSUME suddenDisconnect PROVE FALSE
      <3>1. vport' = vport
        BY <2>2 DEF suddenDisconnect, viewVars
      <3> QED BY <1>1, <2>2, <3>1 DEF suddenDisconnect, Visit, PortVisit, Connecting, Coming, Leaving, There, Calm, Gone
    <2> QED BY <2>1, <2>2
  <1>6. ~freeCTRLpipe /\ ~recover /\ ~powerON
    BY <1>1, RecoverSession DEF There, CdcPipes
  <1>7. ~PortCbConnection
    BY <1>1, ConnectSession DEF PortCbConnection, There, CdcPipes
  <1>8. ~PortCbLost
    BY <1>1 DEF PortCbLost, Visit, PortVisit, Handling, Leaving, Coming, There
  <1> QED BY <1>1, <1>2, <1>3, <1>4, <1>5, <1>6, <1>7, <1>8 DEF PortTask, PortCb, ThereStep

\* While the device is there a session has no other step.
LEMMA SessionThere ==
    ASSUME TypeOK, PortInv, Cdc, SessionNext, There \/ There'
    PROVE  ThereStep
  <1>1. CdcPipes /\ Visit /\ PortVisit
    BY CdcPipesKnown DEF Cdc, Visit
  <1>2. CASE Tasks
    <2>1. CASE init
      <3>1. vport.state = "NOT_POWERED" /\ vport'.state = "DISCONNECTED"
        BY <2>1, TypeParts DEF init, PowerOnPort, CanPowerOn, ViewType
      <3> QED BY <3>1 DEF There
    <2>2. CASE initCallback
      <3>1. vport' = vport /\ app = "init"
        BY <2>2 DEF initCallback, viewVars
      <3> QED BY <1>1, <3>1 DEF PortVisit, Hardware, There
    <2>3. CASE PortTask \/ PortCb
      BY <2>3, ThereTask
    <2>4. CASE (\E p \in Pipe : PipeTask(p)) \/ PipeCb
      BY <2>4 DEF ThereStep
    <2> QED BY <1>2, <2>1, <2>2, <2>3, <2>4 DEF Tasks
  <1>3. CASE Answered /\ Delay
    <2>1. ASSUME HandleConnEnd PROVE FALSE
      BY <1>1, <2>1, ConnEndVisit DEF There
    <2>2. ASSUME ConnectReset PROVE vport.state # "RESETTING"
      BY <1>1, <1>3 DEF Answered, PortVisit, Hardware
    <2>3. ASSUME ConnectReset PROVE vport' = vport /\ Life("ctrl") = "none" /\ There
      <3>1. vport' = vport /\ Life("ctrl") = "none"
        BY <1>1, <2>2, <2>3, ResetSession DEF CdcPipes
      <3> QED BY <3>1 DEF There
    <2> QED BY <1>3, <2>1, <2>3 DEF Delay, ThereStep
  <1>4. ~Plug
    <2>1. ASSUME Plug PROVE FALSE
      <3>1. vport'.state = vport.state /\ ~vhw.connected
        BY <1>1, <2>1, PlugSession DEF CdcPipes, Plug, PortInterrupt, Connected
      <3> QED BY <1>1, <3>1 DEF PortVisit, Hardware, There
    <2> QED BY <2>1
  <1>5. CASE \/ Enable \/ Transfer \/ (AppWaits /\ App) \/ Unplug
             \/ (\E p \in DataPipe : TransferFailed(p, "ERROR_STALL")) /\ UNCHANGED <<vport, vhw, op, portVars>>
    BY <1>5 DEF ThereStep
  <1> QED BY <1>2, <1>3, <1>4, <1>5 DEF SessionNext, Steps

\* The device has come: there is no pipe yet.
LEMMA NotThereBefore ==
    ASSUME TypeOK, Cdc, Enable
    PROVE  (\A p \in Pipe : Life(p)' = "none") /\ port_task'.at = "reset" /\ ~ready' /\ leaked' = leaked
  <1>1. CdcPipes /\ Visit /\ Owned
    BY CdcPipesKnown DEF Cdc, Visit, ObjectsVisit
  <1>2. Stays /\ port_task' = port_task /\ vport.state = "RESETTING" /\ op = "reset" /\ ready' = ready /\ leaked' = leaked
    BY <1>1, EnableSession DEF CdcPipes, Enable, PortInterrupt, Enabled
  <1>3. \A p \in Pipe : Life(p) = "none"
    BY <1>1, <1>2, LifeType DEF Owned, OwnedAt
  <1>4. port_task.at = "reset"
    BY <1>1, <1>2 DEF Visit, PortVisit, Operates
  <1>5. ~ready
    BY <1>1, <1>3, <1>4 DEF Cdc, Begun, CdcPipes
  <1> QED BY <1>2, <1>3, <1>4, <1>5 DEF Stays, Life

\* The IRPs that are done are the first of the requests.
LEMMA DoneIsRequested ==
    ASSUME NEW d \in Driver_t, NEW k \in DOMAIN d.done
    PROVE  k \in DOMAIN Requests(d) /\ Requests(d)[k] = d.done[k].irp
  <1> DEFINE n == Names(d.done)
             m == d.moving \o d.pending
  <1>1. Requests(d) = n \o m /\ n \in Seq(Irp) /\ m \in Seq(Irp) /\ d.done \in Seq(IrpDone)
    BY RequestsType, DriverFields
  <1>2. Len(n) = Len(d.done) /\ \A j \in 1 .. Len(d.done) : n[j] = d.done[j].irp
    BY <1>1, NamesType
  <1>3. k \in 1 .. Len(n) /\ n[k] = d.done[k].irp
    BY <1>1, <1>2
  <1> HIDE DEF n, m
  <1>4. k \in DOMAIN (n \o m) /\ (n \o m)[k] = n[k]
    BY ONLY <1>1, <1>3
  <1> QED BY <1>1, <1>3, <1>4

\* The control pipe goes on answering.
LEMMA AnswersKept ==
    ASSUME CtrlAnswers, There, Life("ctrl")' = Life("ctrl"),
           drv'["ctrl"].state = drv["ctrl"].state, evtq'["ctrl"] = evtq["ctrl"],
           task'["ctrl"].at = "handle" => task'["ctrl"] = task["ctrl"]
    PROVE  CtrlAnswers'
  BY DEF CtrlAnswers

\* A step that sets no address, and asks for nothing that comes after it.
LEMMA AddressKept ==
    ASSUME CtrlAddress, There, Life("ctrl")' = Life("ctrl"), addr'["ctrl"] = addr["ctrl"], dev_addr' = dev_addr,
           port_task'.at \in {"connected", "alloc_pipe"} => port_task'.at = port_task.at,
           Turning' <=> Turning,
           Turning => drv'["ctrl"].moving = drv["ctrl"].moving /\ drv'["ctrl"].pending = drv["ctrl"].pending,
           Addressed' => Addressed
    PROVE  CtrlAddress'
  BY DEF CtrlAddress, There

\* A data pipe keeps its address.
LEMMA DataKept ==
    ASSUME NEW p, DataAddressAt(p), There, Life(p)' = Life(p), addr'[p] = addr[p],
           NEW s, s = Requests(drv[p]), s \in Seq(Irp), NEW t, t = Requests(drv'[p]),
           t = s \/ \E req \in Irp \ {"SET_ADDR"} : t = Append(s, req),
           task'[p].at = "handle" => task'[p] = task[p]
    PROVE  DataAddressAt(p)'
  <1>1. (\A k \in DOMAIN s : s[k] # "SET_ADDR") => \A k \in DOMAIN t : t[k] # "SET_ADDR"
    <2>1. ASSUME NEW req \in Irp \ {"SET_ADDR"}, t = Append(s, req), \A k \in DOMAIN s : s[k] # "SET_ADDR",
                 NEW k \in DOMAIN t
          PROVE  t[k] # "SET_ADDR"
      BY ONLY <2>1, s \in Seq(Irp)
    <2> QED BY <2>1
  <1> QED BY <1>1 DEF DataAddressAt, There

\* A data pipe that stays as it is.
LEMMA DataStays ==
    ASSUME TypeOK, NEW p \in Pipe, DataAddressAt(p), There, Life(p)' = Life(p), addr'[p] = addr[p], drv'[p] = drv[p],
           task'[p].at = "handle" => task'[p] = task[p]
    PROVE  DataAddressAt(p)'
  BY DEF DataAddressAt, There

\* Nothing of the control pipe is changed.
LEMMA CtrlStays ==
    ASSUME CtrlAnswers, CtrlAddress, There, Life("ctrl")' = Life("ctrl"), addr'["ctrl"] = addr["ctrl"], dev_addr' = dev_addr,
           drv'["ctrl"] = drv["ctrl"], evtq'["ctrl"] = evtq["ctrl"], task'["ctrl"] = task["ctrl"],
           port_task'.at \in {"connected", "alloc_pipe"} => port_task'.at = port_task.at,
           Life("in")' # "none" => Life("in") # "none"
    PROVE  CtrlAnswers' /\ CtrlAddress'
  <1>1. Turning' <=> Turning
    BY DEF Turning
  <1>2. Addressed' => Addressed
    BY DEF Addressed
  <1> QED BY <1>1, <1>2, AnswersKept, AddressKept

\* Where nothing is asked for that the control pipe's task waits for, it waits for no address.
LEMMA NotTurning ==
    ASSUME TypeOK, "ctrl" \in Pipe, \A k \in DOMAIN Requests(drv["ctrl"]) : Requests(drv["ctrl"])[k] # "SET_ADDR",
           task["ctrl"].at = "handle" => task["ctrl"].irp.irp # "SET_ADDR"
    PROVE  ~Turning
  <1>1. drv["ctrl"] \in Driver_t
    BY LifeType
  <1> QED BY <1>1, DoneIsRequested DEF Turning

\* A new request on the control pipe.
LEMMA CtrlAsks ==
    ASSUME TypeOK, "ctrl" \in Pipe, CtrlAnswers, CtrlAddress, There, There', Life("ctrl") = "whole", ~Turning, UNCHANGED <<obj, evtq, addr, dev_addr>>,
           task'["ctrl"].at = "handle" => task'["ctrl"] = task["ctrl"],
           task'["ctrl"].at \in {"set_config", "begin_in", "class"} => Addressed,
           port_task'.at \notin {"connected", "alloc_pipe"},
           NEW req \in Irp, drv'["ctrl"] = Enqueue(drv["ctrl"], req) \/ drv'["ctrl"] = drv["ctrl"],
           req \notin {"SET_CFG", "CFG_DESC"} \/ Addressed
    PROVE  CtrlAnswers' /\ CtrlAddress' /\ ~Turning'
  <1>1. drv["ctrl"] \in Driver_t
    BY LifeType
  <1>2. drv'["ctrl"].state = drv["ctrl"].state /\ drv'["ctrl"].done = drv["ctrl"].done
    BY <1>1, EnqueueKeeps
  <1>3. ~Turning'
    BY <1>2 DEF Turning
  <1>4. Addressed' => Addressed
    <2> DEFINE s == Requests(drv["ctrl"])
               t == Requests(drv'["ctrl"])
    <2>1. s \in Seq(Irp) /\ (t = s \/ t = Append(s, req))
      BY <1>1, RequestsType, EnqueueRequests
    <2> HIDE DEF s, t
    <2>2. ASSUME NEW k \in DOMAIN t, t[k] \in {"SET_CFG", "CFG_DESC"}
          PROVE  req \in {"SET_CFG", "CFG_DESC"} \/ \E j \in DOMAIN s : s[j] \in {"SET_CFG", "CFG_DESC"}
      BY ONLY <2>1, <2>2
    <2>3. ASSUME \E k \in DOMAIN t : t[k] \in {"SET_CFG", "CFG_DESC"} PROVE Addressed
      <3>1. (\E j \in DOMAIN s : s[j] \in {"SET_CFG", "CFG_DESC"}) => Addressed
        BY DEF s, Addressed
      <3> QED BY <2>2, <2>3, <3>1
    <2>4. Life("in")' # "none" => Addressed
      BY DEF Addressed, Life
    <2>5. Addressed' => \/ task'["ctrl"].at \in {"set_config", "begin_in"}
                        \/ task'["ctrl"].at \in {"handle", "class"} /\ task'["ctrl"].irp.irp \in {"SET_CFG", "CFG_DESC"}
                        \/ \E k \in DOMAIN t : t[k] \in {"SET_CFG", "CFG_DESC"}
                        \/ Life("in")' # "none"
      BY DEF Addressed, t
    <2>6. task["ctrl"].at = "handle" /\ task["ctrl"].irp.irp \in {"SET_CFG", "CFG_DESC"} => Addressed
      BY DEF Addressed
    <2> QED BY <2>3, <2>4, <2>5, <2>6
  <1>5. Life("ctrl")' = Life("ctrl")
    BY DEF Life
  <1> QED BY <1>2, <1>3, <1>4, <1>5, AnswersKept, AddressKept

-----------------------------------------------------------------------------
(* The addresses                                                           *)

\* The pipes of a visit that are not there say nothing.
LEMMA NoneThere ==
    ASSUME \A p \in Pipe : Life(p)' # "whole", "ctrl" \in Pipe,
           There' /\ port_task'.at \in {"connected", "alloc_pipe"} => dev_addr' = 0
    PROVE  Addresses'
  BY DEF Addresses, CtrlAnswers, CtrlAddress, DataAddress, DataAddressAt, There, DataPipe

\* The port task goes from one place to the next, with the device there.
LEMMA AddressPort ==
    ASSUME TypeOK, PortInv, Cdc, Cdc', Addresses, There',
           \/ Enable \/ Unplug \/ (ConnectReset /\ vport' = vport /\ Life("ctrl") = "none" /\ There) \/ ActNothing
           \/ addCTRLpipe \/ addCTRLpipeEnd
    PROVE  Addresses'
  <1>1. CdcPipes /\ Visit /\ PortVisit /\ ObjectsVisit /\ Owned /\ PortInv
    BY CdcPipesKnown DEF Cdc, Visit, ObjectsVisit
  <1>2. CASE Enable
    BY <1>1, <1>2, NotThereBefore, NoneThere DEF CdcPipes
  <1>3. CASE Unplug
    <2>1. vport'.state # "ENABLED" \/ vport' = vport \/ vport'.state = vport.state
      BY <1>3, TypeParts DEF Unplug, PortInterrupt, Disconnected, RaiseEvent, ViewType
    <2>2. There /\ port_task' = port_task /\ Stays /\ UNCHANGED <<addr, dev_addr>>
      BY <1>3, <2>1 DEF There, Unplug, PortInterrupt, Disconnected, Stays
    <2>3. CtrlAnswers' /\ CtrlAddress'
      BY <2>2, CtrlStays DEF Stays, Addresses, Life
    <2>4. DataAddress'
      BY <2>2, DataStays DEF Stays, Addresses, DataAddress, Life, DataPipe
    <2> QED BY <2>3, <2>4 DEF Addresses
  <1>4. CASE ConnectReset /\ vport' = vport /\ Life("ctrl") = "none" /\ There
    <2>1. Stays /\ dev_addr' = 0
      BY <1>4 DEF ConnectReset, ResetPortEnd, Stays
    <2>2. \A p \in Pipe : Life(p) = "none"
      BY <1>1, <1>4 DEF ObjectsVisit, Nested, CdcPipes, DataPipe
    <2>3. \A p \in Pipe : Life(p)' # "whole"
      BY <2>1, <2>2 DEF Stays, Life
    <2> QED BY <1>1, <2>1, <2>3, NoneThere DEF CdcPipes
  <1>5. CASE ActNothing
    <2>1. Stays /\ UNCHANGED <<addr, dev_addr, vport>> /\ There
      BY <1>5 DEF ActNothing, Stays, viewVars, hostPipeVars, There
    <2>2. port_task'.at = "blocked"
      BY <1>5, TypeParts DEF ActNothing, PortGoto, PortType
    <2>3. CtrlAnswers' /\ CtrlAddress'
      BY <2>1, <2>2, CtrlStays DEF Stays, Addresses, Life
    <2>4. DataAddress'
      BY <2>1, DataStays DEF Stays, Addresses, DataAddress, Life, DataPipe
    <2> QED BY <2>3, <2>4 DEF Addresses
  <1>6. CASE addCTRLpipe
    <2>1. UNCHANGED <<vport, dev_addr>> /\ Passes("connected", "alloc_pipe") /\ (Life("ctrl") = "raw")'
      BY <1>1, <1>6, NewCtrlSession DEF CdcPipes
    <2>2. dev_addr' = 0
      BY <2>1 DEF Addresses, CtrlAddress, There, Passes
    <2>3. \A p \in DataPipe : Life(p)' = "none"
      BY <2>1 DEF Cdc, Visit, ObjectsVisit, Nested
    <2> QED BY <1>1, <2>1, <2>2, <2>3, NoneThere DEF CdcPipes, DataPipe
  <1>7. CASE addCTRLpipeEnd
    <2>1. /\ UNCHANGED <<vport, evtq, dev_addr>> /\ Passes("alloc_pipe", "get_desc")
          /\ drv'["ctrl"] = [NoPipeYet EXCEPT !.alloc = TRUE] /\ task'["ctrl"] = TaskIn("blocked") /\ evtq["ctrl"] = << >>
          /\ addr' = [addr EXCEPT !["ctrl"] = 0] /\ Life("in") = "none"
          /\ \A r \in DataPipe : obj'[r] = obj[r] /\ drv'[r] = drv[r]
      BY <1>1, <1>7, AllocCtrlSession DEF CdcPipes
    <2>2. There /\ dev_addr' = 0 /\ addr'["ctrl"] = 0
      BY <1>1, <2>1, LifeType DEF Addresses, CtrlAddress, There, Passes, CdcPipes
    <2>3. drv'["ctrl"].state = "ACTIVE" /\ drv'["ctrl"].done = << >> /\ Requests(drv'["ctrl"]) = << >>
      BY <2>1, NoRequests DEF NoPipeYet
    <2>4. task'["ctrl"].at = "blocked" /\ evtq'["ctrl"] = << >> /\ port_task'.at = "get_desc"
      BY <2>1 DEF TaskIn, Passes
    <2>5. ~Turning'
      BY <2>3, <2>4 DEF Turning
    <2>6. Life("in")' = "none"
      BY <1>1, <2>1 DEF Life, CdcPipes
    <2>7. ~Addressed'
      BY <2>3, <2>4, <2>6 DEF Addressed
    <2>8. CtrlAnswers' /\ CtrlAddress'
      BY <2>2, <2>3, <2>4, <2>5, <2>7 DEF CtrlAnswers, CtrlAddress
    <2>9. \A p \in DataPipe : Life(p)' = "none"
      BY <1>1, <2>1, NoPipeAlone DEF CdcPipes, Life
    <2> QED BY <2>8, <2>9 DEF Addresses, DataAddress, DataAddressAt
  <1> QED BY <1>2, <1>3, <1>4, <1>5, <1>6, <1>7

\* The first two requests.
LEMMA AddressRequests ==
    ASSUME TypeOK, PortInv, Cdc, Addresses, PortCbDeviceDesc \/ PortCbSetAddr
    PROVE  Addresses'
  <1>1. CdcPipes /\ Visit /\ ObjectsVisit /\ CtrlVisit
    BY CdcPipesKnown DEF Cdc, Visit
  <1> DEFINE r == Requests(drv["ctrl"])
  <1>2. ASSUME NEW req \in Irp, NEW next, PortGoto(next), SubmitIrp("ctrl", req),
               UNCHANGED <<vport, vhw, op, obj, evtq, task, addr, dev_addr, port_evtq, app, callback, ready>>,
               (port_task.at = "get_desc" /\ next = "set_addr" /\ req = "DEV_DESC")
                 \/ (port_task.at = "set_addr" /\ next = "act" /\ req = "SET_ADDR")
        PROVE  Addresses'
    <2>1. /\ Passes(port_task.at, next) /\ vport.state = "ENABLED" /\ drv'["ctrl"] = Enqueue(drv["ctrl"], req)
          /\ Enumerating /\ \A p \in DataPipe : drv'[p] = drv[p]
      BY <1>1, <1>2, RequestSession DEF PortGoto, CdcPipes
    <2>2. There /\ There' /\ Life("ctrl") = "whole" /\ task["ctrl"].at = "blocked" /\ task' = task /\ (r = << >> \/ r = <<"DEV_DESC">>)
      BY <1>1, <1>2, <2>1 DEF CtrlVisit, Chain, Enumerating, There
    <2>3. \A k \in DOMAIN r : r[k] # "SET_ADDR"
      <3> HIDE DEF r
      <3> QED BY <2>2
    <2>4. ~Turning
      BY <1>1, <2>2, <2>3, NotTurning DEF CdcPipes
    <2>5. port_task'.at \notin {"connected", "alloc_pipe"}
      BY <1>2, <2>1 DEF Passes
    <2>6. CtrlAnswers' /\ CtrlAddress'
      BY <1>1, <1>2, <2>1, <2>2, <2>4, <2>5, CtrlAsks DEF CdcPipes, Addresses
    <2>7. DataAddress'
      BY <1>2, <2>1, <2>2, DataStays DEF Addresses, DataAddress, DataPipe, Life
    <2> QED BY <2>6, <2>7 DEF Addresses
  <1>3. "DEV_DESC" \in Irp /\ "SET_ADDR" \in Irp
    BY HostPipeAssumption
  <1> QED BY <1>2, <1>3 DEF PortCbDeviceDesc, PortCbSetAddr, getDeviceDescriptor, setDeviceAddress

\* Of the requests of the enumeration, the one that sets the address comes last.
LEMMA LastMoving ==
    ASSUME NEW n \in Seq(Irp), NEW m \in Seq(Irp), NEW q \in Seq(Irp), m # << >>, Head(m) = "SET_ADDR",
           n \o (m \o q) \in {<< >>, <<"DEV_DESC">>, <<"DEV_DESC", "SET_ADDR">>, <<"SET_ADDR">>, <<"SET_CFG">>, <<"CFG_DESC">>}
    PROVE  Tail(m) = << >> /\ q = << >>
  <1> DEFINE s == n \o (m \o q)
             t == m \o q
  <1>1. Len(m) \in Nat \ {0} /\ Len(n) \in Nat /\ Len(q) \in Nat /\ m[1] = "SET_ADDR"
    OBVIOUS
  <1>2. t \in Seq(Irp) /\ Len(t) = Len(m) + Len(q) /\ t[1] = "SET_ADDR"
    BY <1>1
  <1>3. s = n \o t
    OBVIOUS
  <1>4. s \in {<< >>, <<"DEV_DESC">>, <<"DEV_DESC", "SET_ADDR">>, <<"SET_ADDR">>, <<"SET_CFG">>, <<"CFG_DESC">>}
    OBVIOUS
  <1> HIDE DEF t
  <1>5. Len(s) = Len(n) + Len(t) /\ s[Len(n) + 1] = "SET_ADDR"
    BY ONLY n \in Seq(Irp), <1>1, <1>2, <1>3
  <1> HIDE DEF s
  <1>6. Len(s) = Len(n) + 1
    <2>1. Len(n) + 1 <= Len(s)
      BY ONLY <1>1, <1>2, <1>5
    <2>2. CASE s = << >>
      BY ONLY <2>1, <2>2, <1>1
    <2>3. CASE s = <<"DEV_DESC">>
      BY ONLY <2>1, <2>3, <1>1, <1>5
    <2>4. CASE s = <<"DEV_DESC", "SET_ADDR">>
      <3>1. Len(s) = 2 /\ s[1] = "DEV_DESC" /\ s[2] = "SET_ADDR"
        BY ONLY <2>4
      <3>2. Len(n) + 1 # 1
        BY ONLY <3>1, <1>5
      <3> QED BY ONLY <2>1, <3>1, <3>2, <1>1
    <2>5. CASE s = <<"SET_ADDR">>
      BY ONLY <2>1, <2>5, <1>1
    <2>6. CASE s = <<"SET_CFG">>
      BY ONLY <2>1, <2>6, <1>1, <1>5
    <2>7. CASE s = <<"CFG_DESC">>
      BY ONLY <2>1, <2>7, <1>1, <1>5
    <2> QED BY ONLY <1>4, <2>2, <2>3, <2>4, <2>5, <2>6, <2>7
  <1>7. Len(m) = 1 /\ Len(q) = 0
    <2>1. \A a, b, c \in Nat : b # 0 /\ a + (b + c) = a + 1 => b = 1 /\ c = 0
      OBVIOUS
    <2>2. Len(n) + (Len(m) + Len(q)) = Len(n) + 1
      BY ONLY <1>2, <1>5, <1>6
    <2> QED BY ONLY <1>1, <2>1, <2>2
  <1>8. m = <<m[1]>>
    BY ONLY m \in Seq(Irp), <1>7
  <1>9. Tail(m) = << >>
    BY ONLY <1>8, OneMessage
  <1>10. q = << >>
    BY <1>7
  <1> QED BY <1>9, <1>10

\* A transfer on the control pipe: the device takes its address.
LEMMA AddressTransferCtrl ==
    ASSUME TypeOK, Cdc, Addresses, TransferDone("ctrl"), UNCHANGED <<vport, vhw, op, portVars>>
    PROVE  Addresses'
  <1>1. CdcPipes /\ Visit /\ ObjectsVisit /\ CtrlVisit /\ PortVisit /\ Owned
    BY CdcPipesKnown DEF Cdc, Visit, ObjectsVisit
  <1> DEFINE d == drv["ctrl"]
             x == [irp |-> Head(d.moving), status |-> "COMPLETED"]
             o == Oldest(d, "COMPLETED")
             e == Filled(o)
  <1>2. /\ drv["ctrl"].alloc /\ vport.conn_devc_ena /\ d.state = "ACTIVE" /\ d.moving # << >>
        /\ drv' = [drv EXCEPT !["ctrl"] = e] /\ UNCHANGED <<obj, task, addr>> /\ Posted("ctrl", "IRP_DONE")
        /\ dev_addr' = IF Head(d.moving) = "SET_ADDR" THEN Address ELSE dev_addr
    BY DEF TransferDone, ChanDone, OnBus
  <1>3. There /\ There' /\ Life("ctrl") = "whole" /\ d \in Driver_t /\ UNCHANGED port_task
    BY <1>1, <1>2, LifeType DEF PortVisit, Hardware, There, Owned, OwnedAt, CdcPipes, portVars
  <1>4. drv'["ctrl"] = e /\ \A r \in Pipe \ {"ctrl"} : drv'[r] = drv[r]
    BY <1>1, <1>2, LifeType DEF CdcPipes
  <1>5. /\ o \in Driver_t /\ Requests(e) = Requests(d) /\ e.state = "ACTIVE" /\ e.done = Append(d.done, x)
        /\ o.moving = Tail(d.moving) /\ o.pending = d.pending
    <2>1. o \in Driver_t /\ Requests(o) = Requests(d) /\ o.state = d.state /\ o.done = Append(d.done, x)
          /\ o.moving = Tail(d.moving) /\ o.pending = d.pending
      BY <1>2, <1>3, StatusesKnown, OldestRequests, OldestFields
    <2> HIDE DEF o
    <2> QED BY <1>2, <2>1, FilledFields, FilledRequests
  <1>6. d.done \in Seq(IrpDone) /\ x \in IrpDone
    <2>1. d.done \in Seq(IrpDone) /\ Head(d.moving) \in Irp
      BY <1>2, <1>3, DriverFields
    <2> QED BY <2>1 DEF IrpDone
  <1>7. ~Turning
    BY <1>2, <1>3 DEF Addresses, CtrlAddress
  <1>8. CtrlAnswers'
    <2> DEFINE q == evtq["ctrl"]
               qn == evtq'["ctrl"]
    <2>1. q \in Seq(Event) /\ (qn = q \/ qn = Append(q, "IRP_DONE")) /\ \A k \in DOMAIN q : q[k] = "IRP_DONE"
      BY <1>1, <1>2, <1>3, LifeType DEF Posted, CdcPipes, Addresses, CtrlAnswers
    <2>2. \A k \in DOMAIN qn : qn[k] = "IRP_DONE"
      <3> HIDE DEF q, qn
      <3> QED BY <2>1
    <2> QED BY <1>2, <1>3, <1>4, <1>5, <2>2 DEF Addresses, CtrlAnswers
  <1>9. Addressed' <=> Addressed
    BY <1>2, <1>4, <1>5 DEF Addressed, Life
  <1>10. CtrlAddress'
    <2>1. CASE Head(d.moving) # "SET_ADDR"
      <3>1. ~Turning'
        <4> DEFINE f == d.done
                   g == drv'["ctrl"].done
        <4>1. f \in Seq(IrpDone) /\ g = Append(f, x) /\ (\A k \in DOMAIN f : f[k].irp # "SET_ADDR") /\ x.irp # "SET_ADDR"
          BY <1>4, <1>5, <1>6, <1>7, <2>1 DEF Turning
        <4> HIDE DEF f, g, x
        <4>2. \A k \in DOMAIN g : g[k].irp # "SET_ADDR"
          BY <4>1
        <4> QED BY <1>2, <1>7, <4>2 DEF Turning, g
      <3> QED BY <1>2, <1>3, <1>7, <1>9, <2>1, <3>1 DEF Addresses, CtrlAddress, Life, There
    <2>2. CASE Head(d.moving) = "SET_ADDR"
      <3> DEFINE n == Names(d.done)
                 m == d.moving
                 q == d.pending
      <3>1. Requests(d) = n \o (m \o q) /\ n \in Seq(Irp) /\ m \in Seq(Irp) /\ q \in Seq(Irp)
        BY <1>3, RequestsType, DriverFields
      <3>2. "in" \in Pipe => Life("in") = "none"
        <4>1. \E k \in DOMAIN Requests(d) : Requests(d)[k] = "SET_ADDR"
          <5>1. (n \o (m \o q))[Len(n) + 1] = "SET_ADDR" /\ Len(n) + 1 \in DOMAIN (n \o (m \o q))
            <6> HIDE DEF n, m, q
            <6>1. m # << >> /\ Head(m) = "SET_ADDR"
              BY <1>2, <2>2 DEF m
            <6> QED BY <3>1, <6>1
          <5> QED BY <3>1, <5>1
        <4> QED BY <1>1, <4>1 DEF CtrlVisit, Unchained, Chained
      <3>3. Requests(d) \in {<< >>, <<"DEV_DESC">>, <<"DEV_DESC", "SET_ADDR">>, <<"SET_ADDR">>, <<"SET_CFG">>, <<"CFG_DESC">>}
        <4>1. ~(Leaving /\ port_task.at \in {"act", "free_ctrl"})
          BY <1>1, <1>3 DEF PortVisit, Connecting, Recovering, There, Coming, Leaving, Calm, Gone
        <4> QED BY <1>1, <1>3, <3>2, <4>1 DEF CtrlVisit, Chain, Enumerating, CdcPipes
      <3>4. o.moving = << >> /\ o.pending = << >>
        <4> HIDE DEF n, m, q
        <4>1. Tail(m) = << >> /\ q = << >>
          BY <1>2, <2>2, <3>1, <3>3, LastMoving DEF m
        <4> QED BY <1>5, <4>1 DEF m, q
      <3>5. e.moving = << >> /\ e.pending = << >>
        <4> HIDE DEF o
        <4> QED BY <3>4 DEF Filled
      <3>6. Turning'
        <4> DEFINE f == d.done
                   g == drv'["ctrl"].done
        <4>1. f \in Seq(IrpDone) /\ g = Append(f, x) /\ x.irp = "SET_ADDR"
          BY <1>4, <1>5, <1>6, <2>2
        <4> HIDE DEF f, g, x
        <4>2. Len(f) + 1 \in DOMAIN g /\ g[Len(f) + 1].irp = "SET_ADDR"
          BY <4>1
        <4> QED BY <4>2 DEF Turning, g
      <3>7. port_task'.at \notin {"connected", "alloc_pipe"}
        BY <1>1, <1>3 DEF ObjectsVisit, Nested, Pointers
      <3> QED BY <1>2, <1>3, <1>4, <2>2, <3>5, <3>6, <3>7 DEF CtrlAddress
    <2> QED BY <2>1, <2>2
  <1>11. DataAddress'
    BY <1>2, <1>3, <1>4, DataStays DEF Addresses, DataAddress, DataPipe, Life
  <1> QED BY <1>8, <1>10, <1>11 DEF Addresses

\* Transfers on a data pipe.
LEMMA AddressTransferData ==
    ASSUME TypeOK, Cdc, Addresses, NEW p \in DataPipe, UNCHANGED <<vport, vhw, op, portVars>>,
           TransferDone(p) \/ \E event \in ErrorEvent : TransferFailed(p, event)
    PROVE  Addresses'
  <1>1. CdcPipes /\ Visit /\ ObjectsVisit /\ PortVisit /\ Owned /\ p \in Pipe /\ p # "ctrl" /\ drv[p] \in Driver_t
    BY CdcPipesKnown, LifeType DEF Cdc, Visit, ObjectsVisit, DataPipe
  <1>2. OnBus(p) /\ UNCHANGED <<obj, task, addr>> /\ dev_addr' = dev_addr
    <2>1. CASE TransferDone(p)
      BY <1>1, <2>1 DEF TransferDone, ChanDone
    <2>2. ASSUME NEW event \in ErrorEvent, TransferFailed(p, event)
          PROVE  OnBus(p) /\ UNCHANGED <<obj, task, addr>> /\ dev_addr' = dev_addr
      BY <2>2 DEF TransferFailed, ChanFailed
    <2> QED BY <2>1, <2>2
  <1>3. There /\ drv[p].moving # << >> /\ port_task' = port_task
    BY <1>1, <1>2 DEF OnBus, PortVisit, Hardware, There, portVars
  <1>4. (\A r \in Pipe \ {p} : drv'[r] = drv[r] /\ evtq'[r] = evtq[r]) /\ Requests(drv'[p]) = Requests(drv[p])
    <2>1. \A r \in Pipe \ {p} : drv'[r] = drv[r] /\ evtq'[r] = evtq[r]
      BY <1>1, TransferMoves DEF OneMoves
    <2>2. CASE TransferDone(p)
      <3>1. drv'[p] = Filled(Oldest(drv[p], "COMPLETED"))
        BY <1>1, <2>2, LifeType DEF TransferDone, ChanDone
      <3>2. Oldest(drv[p], "COMPLETED") \in Driver_t /\ Requests(Oldest(drv[p], "COMPLETED")) = Requests(drv[p])
        BY <1>1, <1>3, StatusesKnown, OldestRequests
      <3> QED BY <3>1, <3>2, FilledRequests, <2>1
    <2>3. ASSUME NEW event \in ErrorEvent, TransferFailed(p, event) PROVE Requests(drv'[p]) = Requests(drv[p])
      <3>1. StatusOf[event] \in Error
        BY DEF ErrorEvent, StatusOf, Error
      <3>2. DOMAIN drv = Pipe /\ drv' = [drv EXCEPT ![p] = [Oldest(@, StatusOf[event]) EXCEPT !.state = "HALTED"]]
        BY <2>3 DEF TransferFailed, ChanFailed, TypeOK
      <3>3. drv'[p] = [Oldest(drv[p], StatusOf[event]) EXCEPT !.state = "HALTED"]
        BY <1>1, <3>2
      <3> QED BY <1>1, <1>3, <3>1, <3>3, StatusesKnown, OldestRequests
    <2> QED BY <2>1, <2>2, <2>3
  <1>5. CtrlAnswers' /\ CtrlAddress'
    BY <1>1, <1>2, <1>3, <1>4, CtrlStays DEF Addresses, CdcPipes, Life
  <1>6. DataAddressAt(p)'
    BY <1>1, <1>2, <1>3, <1>4 DEF Addresses, DataAddress, DataAddressAt, Life, There
  <1>7. \A r \in DataPipe \ {p} : DataAddressAt(r)'
    BY <1>1, <1>2, <1>3, <1>4, DataStays DEF Addresses, DataAddress, Life, DataPipe
  <1> QED BY <1>5, <1>6, <1>7 DEF Addresses, DataAddress

\* What is dequeued was asked for first.
LEMMA DequeuesFirst ==
    ASSUME NEW d \in Driver_t, d.done # << >>, NEW e, e = [d EXCEPT !.done = Tail(@)]
    PROVE  /\ e \in Driver_t /\ Requests(e) = Tail(Requests(d)) /\ Requests(d) # << >>
           /\ 1 \in DOMAIN d.done /\ d.done[1] = Head(d.done)
           /\ 1 \in DOMAIN Requests(d) /\ Requests(d)[1] = Head(d.done).irp
  <1> DEFINE f == d.done
  <1>1. f \in Seq(IrpDone) /\ f # << >>
    BY DriverFields
  <1>2. 1 \in DOMAIN f /\ f[1] = Head(f) /\ Tail(f) \in Seq(IrpDone)
    <2> HIDE DEF f
    <2> QED BY <1>1
  <1>3. e \in Driver_t /\ e.done = Tail(d.done) /\ e.moving = d.moving /\ e.pending = d.pending
    BY <1>2 DEF Driver_t
  <1> QED BY <1>1, <1>2, <1>3, DequeueRequests, DoneIsRequested

\* The control pipe's task takes an answer.
LEMMA AddressReceive ==
    ASSUME TypeOK, Cdc, Addresses, There, There', PipeTask("ctrl"), Receive("ctrl")
    PROVE  CtrlAnswers' /\ CtrlAddress'
  <1>1. CdcPipes /\ Owned /\ UNCHANGED <<vport, port_task, obj, addr, dev_addr>>
    BY CdcPipesKnown DEF Cdc, Visit, ObjectsVisit, PipeTask, portVars, Receive
  <1> DEFINE d == drv["ctrl"]
             e == drv'["ctrl"]
             q == evtq["ctrl"]
             t == task'["ctrl"]
  <1>2. task["ctrl"].at = "blocked" /\ q # << >> /\ evtq'["ctrl"] = Tail(q) /\ d \in Driver_t /\ q \in Seq(Event)
    BY <1>1, ReceiveFields, LifeType DEF Receive, CdcPipes
  <1>3. Life("ctrl") = "whole" /\ Life("ctrl")' = Life("ctrl") /\ Life("in")' = Life("in")
    BY <1>1, <1>2, BusyIsWhole DEF CdcPipes, Life
  <1>4. \/ e = d /\ t = task["ctrl"]
        \/ /\ d.done # << >> /\ t = [at |-> "handle", event |-> Head(q), irp |-> Head(d.done)]
           /\ e.done = Tail(d.done) /\ e.state = d.state /\ e.moving = d.moving /\ e.pending = d.pending
           /\ e = [d EXCEPT !.done = Tail(@)]
    <2>1. CASE d.done = << >>
      BY <1>1, <2>1, ReceiveFields DEF CdcPipes
    <2>2. CASE d.done # << >>
      <3>1. e = [d EXCEPT !.done = Tail(@)]
        BY <1>1, <2>2, LifeType DEF Receive, IrpDequeue, CdcPipes
      <3> QED BY <1>1, <2>2, <3>1, ReceiveFields DEF CdcPipes
    <2> QED BY <2>1, <2>2
  <1>5. (\A k \in DOMAIN q : q[k] = "IRP_DONE") /\ d.state = "ACTIVE"
    BY <1>3 DEF Addresses, CtrlAnswers
  <1>6. Head(q) = "IRP_DONE" /\ \A k \in DOMAIN Tail(q) : Tail(q)[k] = "IRP_DONE"
    <2> HIDE DEF q
    <2> QED BY <1>2, <1>5
  <1>7. e.state = "ACTIVE" /\ (t.at = "handle" => t.event = "IRP_DONE")
    <2> HIDE DEF d, e, t
    <2>1. CASE e = d /\ t = task["ctrl"]
      BY <1>2, <1>5, <2>1
    <2> QED BY <1>4, <1>5, <1>6, <2>1
  <1>8. CtrlAnswers'
    BY <1>2, <1>3, <1>6, <1>7 DEF CtrlAnswers
  <1>9. (Turning' <=> Turning) /\ (Addressed' => Addressed) /\ e.moving = d.moving /\ e.pending = d.pending
    <2>1. CASE e = d /\ t = task["ctrl"]
      BY <1>3, <2>1 DEF Turning, Addressed
    <2>2. CASE d.done # << >> /\ e = [d EXCEPT !.done = Tail(@)] /\ t = [at |-> "handle", event |-> Head(q), irp |-> Head(d.done)]
               /\ e.done = Tail(d.done) /\ e.moving = d.moving /\ e.pending = d.pending
      <3> DEFINE f == d.done
                 s == Requests(d)
                 u == Requests(e)
      <3>1. f \in Seq(IrpDone) /\ s \in Seq(Irp) /\ f # << >> /\ u = Tail(s) /\ s # << >> /\ s[1] = Head(f).irp
        <4>1. f \in Seq(IrpDone) /\ s \in Seq(Irp)
          BY <1>2, DriverFields, RequestsType
        <4> QED BY <1>2, <2>2, <4>1, DequeuesFirst
      <3>2. (\E k \in DOMAIN Tail(f) : Tail(f)[k].irp = "SET_ADDR") \/ Head(f).irp = "SET_ADDR"
              <=> \E k \in DOMAIN f : f[k].irp = "SET_ADDR"
        <4> HIDE DEF f, s, u
        <4>1. ASSUME NEW k \in DOMAIN Tail(f) PROVE k + 1 \in DOMAIN f /\ Tail(f)[k] = f[k + 1]
          BY <3>1, <4>1
        <4>2. ASSUME NEW k \in DOMAIN f PROVE k = 1 \/ (k - 1 \in DOMAIN Tail(f) /\ Tail(f)[k - 1] = f[k])
          BY <3>1, <4>2
        <4>3. Head(f) = f[1] /\ 1 \in DOMAIN f
          BY <3>1
        <4> QED BY <4>1, <4>2, <4>3
      <3>3. ASSUME NEW k \in DOMAIN u PROVE k + 1 \in DOMAIN s /\ u[k] = s[k + 1]
        <4> HIDE DEF s, u
        <4> QED BY <3>1, <3>3
      <3>4. 1 \in DOMAIN s
        <4> HIDE DEF s, u
        <4> QED BY <3>1
      <3>5. Turning' <=> Turning
        BY <1>2, <2>2, <3>2 DEF Turning
      <3>6. Addressed' => Addressed
        <4>1. (\E k \in DOMAIN s : s[k] \in {"SET_CFG", "CFG_DESC"}) \/ Life("in") # "none" => Addressed
          BY DEF Addressed
        <4>2. Addressed' => (\E k \in DOMAIN u : u[k] \in {"SET_CFG", "CFG_DESC"}) \/ Life("in")' # "none"
                              \/ Head(f).irp \in {"SET_CFG", "CFG_DESC"}
          BY <2>2 DEF Addressed
        <4> HIDE DEF s, u, f
        <4> QED BY <1>3, <3>1, <3>3, <3>4, <4>1, <4>2
      <3> QED BY <2>2, <3>5, <3>6
    <2> QED BY <1>4, <2>1, <2>2
  <1>10. CtrlAddress'
    BY <1>1, <1>3, <1>9, AddressKept DEF Addresses
  <1> QED BY <1>8, <1>10

\* Where the enumeration goes on, nothing is asked for.
LEMMA CarriesNothing ==
    ASSUME TypeOK, Cdc, There, PortBlocked, Carries, Life("ctrl") = "whole"
    PROVE  Requests(drv["ctrl"]) = << >> /\ drv["ctrl"].done = << >> /\ drv["ctrl"].moving = << >> /\ drv["ctrl"].pending = << >>
  <1>1. CdcPipes /\ PortVisit /\ ObjectsVisit /\ CtrlVisit
    BY CdcPipesKnown DEF Cdc, Visit
  <1>2. Life("in") = "none"
    BY <1>1 DEF Carries, Chained, CtrlVisit, Unchained
  <1>3. Enumerating
    BY <1>2 DEF Enumerating, PortBlocked
  <1>4. Requests(drv["ctrl"]) = << >>
    BY <1>1, <1>3 DEF CtrlVisit, Chain
  <1>5. drv["ctrl"] \in Driver_t
    BY <1>1, LifeType DEF CdcPipes
  <1> QED BY <1>4, <1>5, NoneRequested

\* The other steps of the control pipe's task.
LEMMA AddressCtrlTask ==
    ASSUME TypeOK, Cdc, Addresses, There, There', PipeTask("ctrl")
    PROVE  CtrlAnswers' /\ CtrlAddress'
  <1>1. /\ CdcPipes /\ Owned /\ PortBlocked /\ UNCHANGED <<vport, port_task>> /\ TaskStep("ctrl")
        /\ {"SET_CFG", "CFG_DESC"} \subseteq Irp
    BY CdcPipesKnown, HostPipeAssumption DEF Cdc, Visit, ObjectsVisit, PipeTask, portVars
  <1>2. Receive("ctrl") \/ Life("ctrl") = "whole"
    BY <1>1, BusyIsWhole DEF TaskStep, HandleSetAddr, HandleSetAddrEnd, HandleSetConfig, HandleError, HandleOther, FreeIrp,
                            HandlesDone, Handles, CdcPipes
  <1>3. port_task'.at \notin {"connected", "alloc_pipe"}
    BY <1>1 DEF PortBlocked
  <1>4. CASE Receive("ctrl")
    BY <1>4, AddressReceive
  <1>5. CASE HandleSetAddr("ctrl") /\ Life("ctrl") = "whole"
    <2>1. /\ task["ctrl"].at = "handle" /\ task["ctrl"].irp.irp = "SET_ADDR" /\ Goto("ctrl", "set_config")
          /\ UNCHANGED <<drv, obj, evtq, dev_addr>> /\ updateAddress("ctrl", Address)
      BY <1>5 DEF HandleSetAddr, HandlesDone, Handles
    <2>2. Turning /\ Carries
      BY <2>1 DEF Turning, Carries, Chained
    <2>3. drv["ctrl"].done = << >> /\ drv["ctrl"].pending = << >> /\ drv["ctrl"].state = "ACTIVE" /\ dev_addr = Address
      BY <1>1, <1>5, <2>2, CarriesNothing DEF Addresses, CtrlAnswers, CtrlAddress
    <2>4. addr'["ctrl"] = Address
      BY <1>1, <2>1, <2>3, LifeType DEF updateAddress, CanUpdateAddress, CdcPipes
    <2>5. task'["ctrl"].at = "set_config"
      BY <1>1, <2>1, GotoFields DEF CdcPipes
    <2>6. ~Turning'
      BY <2>1, <2>3, <2>5 DEF Turning
    <2>7. CtrlAnswers'
      BY <2>1, <2>5, AnswersKept DEF Addresses, Life
    <2>8. CtrlAddress'
      BY <1>3, <2>1, <2>3, <2>4, <2>6 DEF CtrlAddress
    <2> QED BY <2>7, <2>8
  <1>6. CASE HandleSetAddrEnd("ctrl") /\ Life("ctrl") = "whole"
    <2>1. /\ task["ctrl"].at = "set_config" /\ Goto("ctrl", "class") /\ SubmitIrp("ctrl", "SET_CFG")
          /\ UNCHANGED <<obj, evtq, addr, dev_addr>>
      BY <1>6 DEF HandleSetAddrEnd, setConfiguration
    <2>2. Carries /\ Addressed
      BY <2>1 DEF Carries, Addressed
    <2>3. ~Turning
      BY <1>1, <1>6, <2>1, <2>2, CarriesNothing DEF Turning
    <2>4. task'["ctrl"].at = "class" /\ (drv'["ctrl"] = Enqueue(drv["ctrl"], "SET_CFG") \/ drv'["ctrl"] = drv["ctrl"])
      BY <1>1, <1>6, <2>1, GotoFields, SubmitFields DEF CdcPipes
    <2> QED BY <1>1, <1>3, <1>6, <2>1, <2>2, <2>3, <2>4, CtrlAsks DEF CdcPipes, Addresses
  <1>7. CASE HandleSetConfig("ctrl") /\ Life("ctrl") = "whole"
    <2>1. /\ task["ctrl"].at = "handle" /\ task["ctrl"].irp.irp = "SET_CFG" /\ Goto("ctrl", "class") /\ SubmitIrp("ctrl", "CFG_DESC")
          /\ UNCHANGED <<obj, evtq, addr, dev_addr>>
      BY <1>7 DEF HandleSetConfig, HandlesDone, Handles, getConfigDescriptor
    <2>2. Carries /\ Addressed
      BY <2>1 DEF Carries, Addressed, Chained
    <2>3. ~Turning
      BY <1>1, <1>7, <2>1, <2>2, CarriesNothing DEF Turning
    <2>4. task'["ctrl"].at = "class" /\ (drv'["ctrl"] = Enqueue(drv["ctrl"], "CFG_DESC") \/ drv'["ctrl"] = drv["ctrl"])
      BY <1>1, <1>7, <2>1, GotoFields, SubmitFields DEF CdcPipes
    <2> QED BY <1>1, <1>3, <1>7, <2>1, <2>2, <2>3, <2>4, CtrlAsks DEF CdcPipes, Addresses
  <1>8. ~(HandleError("ctrl") /\ Life("ctrl") = "whole")
    BY DEF HandleError, Handles, Addresses, CtrlAnswers
  <1>9. CASE HandleOther("ctrl") /\ Life("ctrl") = "whole"
    <2>1. /\ task["ctrl"].at = "handle" /\ Goto("ctrl", "class") /\ UNCHANGED <<drv, obj, evtq, addr, dev_addr>>
          /\ task["ctrl"].irp.irp \notin {"SET_ADDR", "SET_CFG"}
      BY <1>9 DEF HandleOther, Handles, Addresses, CtrlAnswers
    <2>2. task'["ctrl"].at = "class" /\ task'["ctrl"].irp = task["ctrl"].irp
      BY <1>1, <2>1, GotoFields DEF CdcPipes
    <2>3. (Turning' <=> Turning) /\ (Addressed' => Addressed)
      BY <2>1, <2>2 DEF Turning, Addressed, Life
    <2>4. CtrlAnswers' /\ CtrlAddress'
      BY <1>1, <2>1, <2>2, <2>3, AnswersKept, AddressKept DEF Addresses, Life
    <2> QED BY <2>4
  <1>10. CASE FreeIrp("ctrl") /\ Life("ctrl") = "whole"
    <2>1. task["ctrl"].at = "free" /\ UNCHANGED <<drv, obj, evtq, addr, dev_addr>> /\ task'["ctrl"].at = "blocked"
      BY <1>1, <1>10, LifeType DEF FreeIrp, TaskIn, CdcPipes
    <2>2. (Turning' <=> Turning) /\ (Addressed' => Addressed)
      BY <2>1 DEF Turning, Addressed, Life
    <2>3. CtrlAnswers' /\ CtrlAddress'
      BY <1>1, <2>1, <2>2, AnswersKept, AddressKept DEF Addresses, Life
    <2> QED BY <2>3
  <1> QED BY <1>1, <1>2, <1>4, <1>5, <1>6, <1>7, <1>8, <1>9, <1>10 DEF TaskStep

\* The task of a data pipe.
LEMMA AddressDataTask ==
    ASSUME TypeOK, Cdc, Addresses, There, There', NEW p \in DataPipe, PipeTask(p)
    PROVE  DataAddressAt(p)'
  <1>1. /\ CdcPipes /\ Owned /\ UNCHANGED <<vport, port_task, obj>> /\ TaskStep(p) /\ p \in Pipe
        /\ {"SET_CFG", "CFG_DESC"} \subseteq Irp
    BY CdcPipesKnown, HostPipeAssumption, StepMoves DEF Cdc, Visit, ObjectsVisit, PipeTask, portVars, DataPipe, OneMoves
  <1>2. Receive(p) \/ Life(p) = "whole"
    BY <1>1, BusyIsWhole DEF TaskStep, HandleSetAddr, HandleSetAddrEnd, HandleSetConfig, HandleError, HandleOther, FreeIrp,
                            HandlesDone, Handles
  <1>3. DataAddressAt(p) /\ drv[p] \in Driver_t /\ Life(p)' = Life(p)
    BY <1>1, LifeType DEF Addresses, DataAddress, Life
  <1> DEFINE s == Requests(drv[p])
             t == Requests(drv'[p])
  <1>4. s \in Seq(Irp)
    BY <1>3, RequestsType
  <1>5. CASE Receive(p)
    <2>1. task[p].at = "blocked" /\ addr' = addr /\ evtq[p] # << >>
      BY <1>5 DEF Receive
    <2>2. Life(p) = "whole"
      BY <1>1, <2>1, BusyIsWhole
    <2>3. CASE drv[p].done = << >>
      <3>1. drv'[p] = drv[p] /\ task'[p] = task[p]
        BY <1>1, <1>5, <2>3, ReceiveFields
      <3> QED BY <1>1, <1>3, <2>1, <3>1, DataStays
    <2>4. CASE drv[p].done # << >>
      <3> DEFINE f == drv[p].done
      <3>1. drv'[p] = [drv[p] EXCEPT !.done = Tail(@)] /\ task'[p].irp = Head(f)
        <4>1. drv'[p] = [drv[p] EXCEPT !.done = Tail(@)]
          BY <1>1, <1>5, <2>4, LifeType DEF Receive, IrpDequeue
        <4>2. task'[p] = [at |-> "handle", event |-> Head(evtq[p]), irp |-> Head(f)]
          BY <1>1, <1>5, <2>4, ReceiveFields
        <4>3. task'[p].irp = Head(f)
          BY <4>2
        <4> QED BY <4>1, <4>3
      <3>3. t = Tail(s) /\ 1 \in DOMAIN s /\ s[1] = Head(f).irp
        BY <1>3, <2>4, <3>1, DequeuesFirst
      <3>4. \A k \in DOMAIN s : s[k] # "SET_ADDR"
        BY <1>3, <2>2 DEF DataAddressAt
      <3>5. \A k \in DOMAIN t : t[k] # "SET_ADDR"
        <4> HIDE DEF s, t
        <4>1. ASSUME NEW k \in DOMAIN t PROVE k + 1 \in DOMAIN s /\ t[k] = s[k + 1]
          BY <1>4, <3>3, <4>1
        <4> QED BY <3>4, <4>1
      <3> QED BY <1>3, <2>1, <2>2, <3>1, <3>3, <3>4, <3>5 DEF DataAddressAt
    <2> QED BY <2>3, <2>4
  <1>6. CASE ~Receive(p)
    <2>1. Life(p) = "whole" /\ (task[p].at = "handle" => task[p].irp.irp # "SET_ADDR")
      BY <1>2, <1>3, <1>6 DEF DataAddressAt
    <2>2. task'[p].at # "handle" /\ addr' = addr
      <3>1. \A at \in TaskAt : Goto(p, at) => task'[p].at = at
        BY <1>1, GotoFields
      <3>2. FreeIrp(p) => task'[p].at = "blocked"
        BY <1>1, LifeType DEF FreeIrp, TaskIn
      <3>3. ~HandleSetAddr(p)
        BY <2>1 DEF HandleSetAddr, HandlesDone, Handles
      <3>4. HandleSetAddrEnd(p) \/ HandleSetConfig(p) \/ HandleError(p) \/ HandleOther(p) => Goto(p, "class") /\ addr' = addr
        BY DEF HandleSetAddrEnd, HandleSetConfig, HandleError, HandleOther
      <3> QED BY <1>1, <1>6, <3>1, <3>2, <3>3, <3>4 DEF TaskStep, FreeIrp, TaskAt
    <2>3. t = s \/ \E req \in Irp \ {"SET_ADDR"} : t = Append(s, req)
      <3>1. ASSUME NEW req \in {"SET_CFG", "CFG_DESC"}, SubmitIrp(p, req)
            PROVE  t = s \/ t = Append(s, req)
        BY <1>1, <1>3, <2>1, <3>1, SubmitFields, EnqueueRequests
      <3>2. reset(p) => t = s
        BY <1>1, <1>3, ResetFields, ResetRequests
      <3>3. drv' = drv => t = s
        OBVIOUS
      <3> HIDE DEF s, t
      <3> QED BY <1>1, <1>6, <2>1, <3>1, <3>2, <3>3 DEF TaskStep, HandleSetAddr, HandlesDone, Handles,
                HandleSetAddrEnd, HandleSetConfig, HandleError, HandleOther, FreeIrp, setConfiguration, getConfigDescriptor
    <2> HIDE DEF s, t
    <2>4. s = Requests(drv[p]) /\ t = Requests(drv'[p])
      BY DEF s, t
    <2> QED BY <1>3, <1>4, <2>2, <2>3, <2>4, DataKept
  <1> QED BY <1>5, <1>6

\* A pipe's task at work.
LEMMA AddressTask ==
    ASSUME TypeOK, Cdc, Addresses, There, There', NEW p \in Pipe, PipeTask(p)
    PROVE  Addresses'
  <1>1. /\ CdcPipes /\ Owned /\ OneMoves(p) /\ UNCHANGED <<vport, port_task>>
        /\ PortBlocked
    BY CdcPipesKnown, StepMoves DEF Cdc, Visit, ObjectsVisit, PipeTask, portVars
  <1>2. obj' = obj /\ dev_addr' = dev_addr /\ \A r \in Pipe \ {p} : addr'[r] = addr[r] /\ drv'[r] = drv[r] /\ evtq'[r] = evtq[r] /\ task'[r] = task[r]
    <2>1. dev_addr' = dev_addr
      BY DEF PipeTask, TaskStep, Receive, HandleSetAddr, HandleSetAddrEnd, HandleSetConfig, HandleError, HandleOther, FreeIrp
    <2>2. addr' = addr \/ \E a : updateAddress(p, a)
      BY DEF PipeTask, TaskStep, Receive, HandleSetAddr, HandleSetAddrEnd, HandleSetConfig, HandleError, HandleOther, FreeIrp
    <2>3. \A r \in Pipe \ {p} : addr'[r] = addr[r]
      BY <2>2, LifeType DEF updateAddress
    <2> QED BY <1>1, <2>1, <2>3 DEF OneMoves
  <1>3. CASE p = "ctrl"
    <2>1. \A r \in DataPipe : DataAddressAt(r)'
      BY <1>2, <1>3, DataStays DEF Addresses, DataAddress, DataPipe, Life
    <2> QED BY <1>3, <2>1, AddressCtrlTask DEF Addresses, DataAddress
  <1>4. CASE p # "ctrl"
    <2>1. CtrlAnswers' /\ CtrlAddress'
      BY <1>1, <1>2, <1>4, CtrlStays DEF Addresses, CdcPipes, Life
    <2>2. DataAddressAt(p)'
      BY <1>4, AddressDataTask DEF DataPipe
    <2>3. \A r \in DataPipe \ {p} : DataAddressAt(r)'
      BY <1>2, DataStays DEF Addresses, DataAddress, DataPipe, Life
    <2> QED BY <2>1, <2>2, <2>3 DEF Addresses, DataAddress
  <1> QED BY <1>3, <1>4

\* With the data pipes there, the control pipe has requests that set no address.
LEMMA CtrlAfterwards ==
    ASSUME TypeOK, Cdc, CtrlAnswers, CtrlAddress, There, Life("ctrl") = "whole", Life("in") # "none",
           task["ctrl"].at # "handle", task'["ctrl"].at # "handle",
           UNCHANGED <<obj, evtq, addr, dev_addr>>, port_task'.at \notin {"connected", "alloc_pipe"},
           drv'["ctrl"].state = drv["ctrl"].state, drv'["ctrl"].done = drv["ctrl"].done
    PROVE  CtrlAnswers' /\ CtrlAddress'
  <1>1. CdcPipes /\ CtrlVisit
    BY CdcPipesKnown DEF Cdc, Visit
  <1>2. ~Turning
    BY <1>1, NotTurning DEF CtrlVisit, Unchained, Chained, CdcPipes
  <1>3. ~Turning' /\ Addressed
    BY <1>2 DEF Turning, Addressed
  <1>4. CtrlAnswers'
    BY AnswersKept DEF Life
  <1> QED BY <1>2, <1>3, <1>4 DEF CtrlAddress, Life

\* begin opens a data pipe.
LEMMA AddressBegins ==
    ASSUME TypeOK, Cdc, Addresses, There, There', PortBlocked, NEW p \in {"in", "out"}, NEW at, NEW next,
           Begin(p, at, next), UNCHANGED <<vport, port_task>>,
           (p = "in" /\ at = "begin_in" /\ next[1] = "begin_in_alloc") \/ (p = "out" /\ at = "begin_out" /\ next[1] = "begin_out_alloc")
    PROVE  Addresses'
  <1>1. CdcPipes /\ PortVisit /\ Beginning /\ p \in DataPipe /\ Owned
    BY CdcPipesKnown DEF Cdc, Visit, ObjectsVisit, CdcPipes
  <1>2. vport.conn_devc_ena
    BY <1>1 DEF PortVisit, Hardware, There
  <1>3. /\ task["ctrl"].at = at /\ task'["ctrl"].at = next[1]
        /\ (\A r \in DataPipe \ {p} : task'[r] = task[r]) /\ NewPipe(p) /\ UNCHANGED <<drv, evtq, addr, dev_addr, leaked>>
    BY <1>1, <1>2, BeginFields
  <1>4. Life(p)' = "raw" /\ \A r \in Pipe \ {p} : Life(r)' = Life(r) /\ evtq'[r] = evtq[r]
    BY <1>1, <1>3, LifeType DEF NewPipe, Life, DataPipe
  <1>5. Life("ctrl")' = Life("ctrl") /\ evtq'["ctrl"] = evtq["ctrl"]
    BY <1>1, <1>4 DEF DataPipe, CdcPipes
  <1>6. Addressed
    BY <1>1, <1>3 DEF Addressed, Beginning
  <1>7. Turning' <=> Turning
    BY <1>3 DEF Turning
  <1>8. CtrlAnswers' /\ CtrlAddress'
    BY <1>3, <1>5, <1>6, <1>7, AnswersKept, AddressKept DEF Addresses
  <1>9. \A r \in DataPipe : DataAddressAt(r)'
    <2>1. DataAddressAt(p)'
      BY <1>4 DEF DataAddressAt
    <2>2. \A r \in DataPipe \ {p} : DataAddressAt(r)'
      BY <1>3, <1>4, DataStays DEF Addresses, DataAddress, DataPipe
    <2> QED BY <2>1, <2>2
  <1> QED BY <1>8, <1>9 DEF Addresses, DataAddress

\* The pipe gets the address of the device.
LEMMA AddressAllocs ==
    ASSUME TypeOK, Cdc, Addresses, There, There', PortBlocked, NEW p \in {"in", "out"}, NEW at, NEW next,
           BeginAlloc(p, at, next), UNCHANGED <<vport, port_task>>,
           (p = "in" /\ at = "begin_in_alloc" /\ next = "begin_out") \/ (p = "out" /\ at = "begin_out_alloc" /\ next = "ready")
    PROVE  Addresses'
  <1>1. CdcPipes /\ PortVisit /\ Beginning /\ p \in DataPipe /\ Owned
    BY CdcPipesKnown DEF Cdc, Visit, ObjectsVisit, CdcPipes
  <1>2. vport.conn_devc_ena
    BY <1>1 DEF PortVisit, Hardware, There
  <1>3. /\ task["ctrl"].at = at /\ task'["ctrl"].at = next /\ task'[p] = TaskIn("blocked")
        /\ (\A r \in DataPipe \ {p} : task'[r] = task[r]) /\ AllocPipe(p, Address) /\ UNCHANGED dev_addr
    BY <1>1, BeginAllocFields
  <1>4. evtq'[p] = << >> /\ (\A r \in Pipe \ {p} : evtq'[r] = evtq[r]) /\ evtq'["ctrl"] = evtq["ctrl"]
    BY <1>1, <1>3 DEF AllocPipe, TypeOK, DataPipe, CdcPipes
  <1>5. /\ Life(p)' = "whole" /\ drv'[p] = [NoPipeYet EXCEPT !.alloc = TRUE] /\ addr'[p] = Address
        /\ \A r \in Pipe \ {p} : Life(r)' = Life(r) /\ drv'[r] = drv[r] /\ addr'[r] = addr[r]
    <2>1. /\ drv' = [drv EXCEPT ![p] = [NoPipeYet EXCEPT !.alloc = TRUE]]
          /\ obj' = [obj EXCEPT ![p].life = "whole"] /\ addr' = [addr EXCEPT ![p] = Address]
      BY <1>2, <1>3 DEF AllocPipe, HcdPipeAlloc
    <2>2. DOMAIN drv = Pipe /\ DOMAIN obj = Pipe /\ DOMAIN addr = Pipe /\ p \in Pipe /\ obj \in [Pipe -> Object]
      BY <1>1 DEF TypeOK, DataPipe
    <2>3. drv'[p] = [NoPipeYet EXCEPT !.alloc = TRUE] /\ addr'[p] = Address
          /\ \A r \in Pipe \ {p} : drv'[r] = drv[r] /\ addr'[r] = addr[r]
      BY <2>1, <2>2
    <2>4. obj'[p].life = "whole" /\ \A r \in Pipe \ {p} : obj'[r] = obj[r]
      BY <2>1, <2>2 DEF Object
    <2> QED BY <2>3, <2>4 DEF Life
  <1>6. Life("ctrl")' = Life("ctrl") /\ drv'["ctrl"] = drv["ctrl"] /\ addr'["ctrl"] = addr["ctrl"]
    BY <1>1, <1>5 DEF DataPipe, CdcPipes
  <1>7. Addressed /\ task'[p].at = "blocked"
    BY <1>1, <1>3 DEF Addressed, Beginning, TaskIn
  <1>8. Turning' <=> Turning
    BY <1>3, <1>4, <1>6 DEF Turning
  <1>9. CtrlAnswers' /\ CtrlAddress'
    BY <1>3, <1>4, <1>6, <1>7, <1>8, AnswersKept, AddressKept DEF Addresses
  <1>10. \A r \in DataPipe : DataAddressAt(r)'
    <2>1. DataAddressAt(p)'
      <3>1. Requests(drv'[p]) = << >>
        BY <1>5, NoRequests
      <3> QED BY <1>1, <1>4, <1>5, <1>7, <3>1 DEF DataAddressAt
    <2>2. \A r \in DataPipe \ {p} : DataAddressAt(r)'
      BY <1>3, <1>4, <1>5, DataStays DEF Addresses, DataAddress, DataPipe
    <2> QED BY <2>1, <2>2
  <1> QED BY <1>9, <1>10 DEF Addresses, DataAddress

\* The application is told, and asks for the first data.
LEMMA AddressReady ==
    ASSUME TypeOK, Cdc, Addresses, There, There', PortBlocked, DeviceReady, UNCHANGED <<vport, port_task>>, "SET_ADDR" \notin Payload
    PROVE  Addresses'
  <1>1. CdcPipes /\ PortVisit /\ Beginning /\ Owned /\ drv["ctrl"] \in Driver_t /\ drv["in"] \in Driver_t
        /\ {"LINE"} \union Payload \subseteq Irp
    BY CdcPipesKnown, CdcAssumption, LifeType DEF Cdc, Visit, ObjectsVisit, CdcPipes
  <1>2. task["ctrl"].at = "ready" /\ Goto("ctrl", "free") /\ UNCHANGED <<obj, evtq, addr, dev_addr>>
    BY DEF DeviceReady
  <1>3. Life("ctrl") = "whole" /\ Life("in") = "whole"
    <2>1. Life("ctrl") = "whole"
      BY <1>1, <1>2, BusyIsWhole DEF CdcPipes
    <2>2. Life("in") \in {"none", "raw", "whole"}
      BY <1>1, LifeType DEF CdcPipes
    <2> QED BY <1>1, <1>2, <2>1, <2>2 DEF Beginning
  <1>4. PICK data \in Payload :
          drv' = [drv EXCEPT !["ctrl"] = IF Accepts("ctrl") THEN Enqueue(Enqueue(@, "LINE"), "LINE") ELSE @,
                             !["in"] = IF Accepts("in") THEN Enqueue(@, data) ELSE @]
    BY <1>3 DEF DeviceReady, Life
  <1>5. /\ drv'["ctrl"] = IF Accepts("ctrl") THEN Enqueue(Enqueue(drv["ctrl"], "LINE"), "LINE") ELSE drv["ctrl"]
        /\ drv'["in"] = IF Accepts("in") THEN Enqueue(drv["in"], data) ELSE drv["in"]
        /\ \A r \in Pipe \ {"ctrl", "in"} : drv'[r] = drv[r]
    <2>1. DOMAIN drv = Pipe /\ "ctrl" # "in"
      BY DEF TypeOK
    <2> DEFINE x == IF Accepts("ctrl") THEN Enqueue(Enqueue(drv["ctrl"], "LINE"), "LINE") ELSE drv["ctrl"]
               y == IF Accepts("in") THEN Enqueue(drv["in"], data) ELSE drv["in"]
    <2>2. drv' = [drv EXCEPT !["ctrl"] = x, !["in"] = y]
      BY <1>1, <1>4, <2>1 DEF CdcPipes
    <2> HIDE DEF x, y
    <2>3. drv'["ctrl"] = x /\ drv'["in"] = y /\ \A r \in Pipe \ {"ctrl", "in"} : drv'[r] = drv[r]
      BY <1>1, <2>1, <2>2 DEF CdcPipes
    <2> QED BY <2>3 DEF x, y
  <1>6. drv'["ctrl"].state = drv["ctrl"].state /\ drv'["ctrl"].done = drv["ctrl"].done
    <2>1. CASE Accepts("ctrl")
      BY <1>1, <1>5, <2>1, EnqueueTwo DEF Accepts
    <2> QED BY <1>5, <2>1
  <1>7. task'["ctrl"].at = "free" /\ \A r \in DataPipe : task'[r] = task[r]
    BY <1>1, <1>2, GotoFields DEF CdcPipes, DataPipe
  <1>8. port_task'.at \notin {"connected", "alloc_pipe"}
    BY DEF PortBlocked
  <1>9. CtrlAnswers' /\ CtrlAddress'
    BY <1>2, <1>3, <1>6, <1>7, <1>8, CtrlAfterwards DEF Addresses
  <1>10. DataAddressAt("in")'
    <2> DEFINE s == Requests(drv["in"])
               t == Requests(drv'["in"])
    <2>1. s \in Seq(Irp) /\ (t = s \/ t = Append(s, data)) /\ data \in Irp \ {"SET_ADDR"}
      BY <1>1, <1>5, RequestsType, EnqueueRequests
    <2>2. s = Requests(drv["in"]) /\ t = Requests(drv'["in"]) /\ task'["in"] = task["in"] /\ Life("in")' = Life("in")
          /\ DataAddressAt("in") /\ addr'["in"] = addr["in"]
      BY <1>1, <1>2, <1>7 DEF CdcPipes, Life, Addresses, DataAddress
    <2> HIDE DEF s, t
    <2> QED BY <2>1, <2>2, DataKept
  <1>11. \A r \in DataPipe \ {"in"} : DataAddressAt(r)'
    BY <1>2, <1>5, <1>7, DataStays DEF Addresses, DataAddress, DataPipe, Life
  <1> QED BY <1>9, <1>10, <1>11 DEF Addresses, DataAddress

\* The callbacks of the class driver.
LEMMA AddressCb ==
    ASSUME TypeOK, Cdc, Addresses, There, There', PipeCb, "SET_ADDR" \notin Payload
    PROVE  Addresses'
  <1>1. CdcPipes /\ Owned /\ PortBlocked /\ UNCHANGED <<vport, port_task>> /\ Payload \subseteq Irp
    BY CdcPipesKnown, CdcAssumption DEF Cdc, Visit, ObjectsVisit, PipeCb
  <1>2. CASE CtrlCb
    <2>1. task["ctrl"].at = "class" /\ UNCHANGED <<drv, obj, evtq, addr, dev_addr>>
      BY <1>2 DEF CtrlCb
    <2>2. /\ task'["ctrl"].at = IF BringsConfig THEN "begin_in" ELSE "free"
          /\ \A r \in DataPipe : task'[r] = task[r]
      BY <1>1, <1>2, GotoFields DEF CtrlCb, CdcPipes, DataPipe
    <2>3. (Turning' <=> Turning) /\ (Addressed' => Addressed)
      BY <2>1, <2>2 DEF Turning, Addressed, Life, BringsConfig
    <2>4. CtrlAnswers' /\ CtrlAddress'
      BY <1>1, <2>1, <2>2, <2>3, AnswersKept, AddressKept DEF Addresses, Life
    <2>5. DataAddress'
      BY <2>1, <2>2, DataStays DEF Addresses, DataAddress, DataPipe, Life
    <2> QED BY <2>4, <2>5 DEF Addresses
  <1>3. CASE begin
    BY <1>1, <1>3, AddressBegins, AddressAllocs DEF begin
  <1>4. ASSUME NEW p \in {"in", "out"}, task["ctrl"] = task["ctrl"], Goto(p, "free"), UNCHANGED <<obj, evtq, addr, dev_addr>>,
               \/ drv' = [drv EXCEPT ![p] = ClassReset(p)]
               \/ \E data \in Payload : drv' = [drv EXCEPT ![p] = Enqueue(ClassReset(p), data)]
        PROVE  Addresses'
    <2>1. p \in DataPipe /\ p \in Pipe /\ drv[p] \in Driver_t /\ p # "ctrl"
      BY <1>1, LifeType DEF CdcPipes, DataPipe
    <2>2. task'[p].at = "free" /\ \A r \in Pipe \ {p} : task'[r] = task[r] /\ drv'[r] = drv[r]
      <3>1. task'[p].at = "free" /\ \A r \in Pipe \ {p} : task'[r] = task[r]
        BY <1>4, <2>1, GotoFields
      <3> QED BY <1>4, <2>1, <3>1, LifeType
    <2> DEFINE c == ClassReset(p)
               s == Requests(drv[p])
               t == Requests(drv'[p])
    <2>3. c \in Driver_t /\ Requests(c) = s
      BY <2>1, ClassResetFields, ResetRequests DEF ClassReset
    <2>4. drv'[p] = c \/ \E data \in Payload : drv'[p] = Enqueue(c, data)
      BY <1>4, <2>1, LifeType
    <2>5. s \in Seq(Irp) /\ (t = s \/ \E req \in Irp \ {"SET_ADDR"} : t = Append(s, req))
      <3> HIDE DEF c
      <3>1. ASSUME NEW data \in Payload, drv'[p] = Enqueue(c, data) PROVE t = Append(s, data) /\ data \in Irp \ {"SET_ADDR"}
        BY <1>1, <2>3, <3>1, EnqueueRequests
      <3>2. drv'[p] = c => t = s
        BY <2>3
      <3>3. s \in Seq(Irp)
        BY <2>1, RequestsType
      <3> HIDE DEF s, t
      <3> QED BY <2>4, <3>1, <3>2, <3>3
    <2>6. s = Requests(drv[p]) /\ t = Requests(drv'[p]) /\ DataAddressAt(p) /\ Life(p)' = Life(p) /\ addr'[p] = addr[p]
      BY <1>4, <2>1 DEF Addresses, DataAddress, Life
    <2> HIDE DEF s, t
    <2>7. DataAddressAt(p)'
      BY <2>2, <2>5, <2>6, DataKept
    <2>8. \A r \in DataPipe \ {p} : DataAddressAt(r)'
      BY <1>4, <2>2, DataStays DEF Addresses, DataAddress, DataPipe, Life
    <2>9. CtrlAnswers' /\ CtrlAddress'
      BY <1>1, <1>4, <2>1, <2>2, CtrlStays DEF Addresses, CdcPipes, Life
    <2> QED BY <2>7, <2>8, <2>9 DEF Addresses, DataAddress
  <1>5. CASE InCb
    <2>1. Goto("in", "free") /\ UNCHANGED <<obj, evtq, addr, dev_addr>>
      BY <1>5 DEF InCb
    <2>2. \/ drv' = [drv EXCEPT !["in"] = ClassReset("in")]
          \/ \E data \in Payload : drv' = [drv EXCEPT !["in"] = Enqueue(ClassReset("in"), data)]
      BY <1>5 DEF InCb
    <2> QED BY <1>4, <2>1, <2>2
  <1>6. CASE OutCb
    BY <1>4, <1>6 DEF OutCb
  <1>7. CASE DeviceReady
    BY <1>1, <1>7, AddressReady
  <1> QED BY <1>2, <1>3, <1>5, <1>6, <1>7 DEF PipeCb

\* The application.
LEMMA AddressApp ==
    ASSUME TypeOK, Cdc, Addresses, There, There', AppWaits, App, "SET_ADDR" \notin Payload
    PROVE  Addresses'
  <1>1. CdcPipes /\ Owned /\ {"LINE", "STRING"} \union Payload \subseteq Irp
    BY CdcPipesKnown, CdcAssumption DEF Cdc, Visit, ObjectsVisit
  <1>2. CASE sendData
    <2>1. UNCHANGED <<vport, drv, obj, evtq, task, addr, dev_addr, port_task>>
      BY <1>2 DEF sendData, viewVars, hostPipeVars
    <2> QED BY <2>1 DEF Addresses, CtrlAnswers, CtrlAddress, DataAddress, DataAddressAt, There, Life, Turning, Addressed, Requests
  <1>3. ASSUME ready, app = "sending", AppRuns, NEW data \in Payload, SubmitIrp("out", data),
               UNCHANGED <<obj, evtq, task, addr, dev_addr, port_task>>
        PROVE  Addresses'
    <2>1. Life("out") = "whole" /\ drv["out"] \in Driver_t /\ data \in Irp \ {"SET_ADDR"} /\ "out" # "ctrl"
      BY <1>1, <1>3, AppIsReady, LifeType DEF CdcPipes
    <2>2. (\A r \in Pipe \ {"out"} : drv'[r] = drv[r]) /\ (drv'["out"] = drv["out"] \/ drv'["out"] = Enqueue(drv["out"], data))
      BY <1>1, <1>3, <2>1, SubmitFields DEF CdcPipes
    <2> DEFINE s == Requests(drv["out"])
               t == Requests(drv'["out"])
    <2>3. s \in Seq(Irp) /\ (t = s \/ t = Append(s, data))
      BY <2>1, <2>2, RequestsType, EnqueueRequests
    <2>4. s = Requests(drv["out"]) /\ t = Requests(drv'["out"]) /\ DataAddressAt("out") /\ Life("out")' = Life("out")
      BY <1>1, <1>3 DEF Addresses, DataAddress, Life, CdcPipes
    <2> HIDE DEF s, t
    <2>5. DataAddressAt("out")'
      BY <1>3, <2>1, <2>3, <2>4, DataKept
    <2>6. \A r \in DataPipe \ {"out"} : DataAddressAt(r)'
      BY <1>3, <2>2, DataStays DEF Addresses, DataAddress, DataPipe, Life
    <2>7. CtrlAnswers' /\ CtrlAddress'
      BY <1>1, <1>3, <2>2, CtrlStays DEF Addresses, CdcPipes, Life
    <2> QED BY <2>5, <2>6, <2>7 DEF Addresses, DataAddress
  <1>4. ASSUME ready, app = "loop", AppRuns, NEW req \in {"LINE", "STRING"}, SubmitIrp("ctrl", req),
               UNCHANGED <<obj, evtq, task, addr, dev_addr, port_task>>
        PROVE  Addresses'
    <2>1. /\ Life("ctrl") = "whole" /\ Life("in") = "whole" /\ task["ctrl"].at \in {"none", "blocked"}
          /\ drv["ctrl"] \in Driver_t /\ req \in Irp
      BY <1>1, <1>4, AppIsReady, LifeType DEF CdcPipes
    <2>2. (\A r \in Pipe \ {"ctrl"} : drv'[r] = drv[r]) /\ (drv'["ctrl"] = drv["ctrl"] \/ drv'["ctrl"] = Enqueue(drv["ctrl"], req))
      BY <1>1, <1>4, <2>1, SubmitFields DEF CdcPipes
    <2>3. drv'["ctrl"].state = drv["ctrl"].state /\ drv'["ctrl"].done = drv["ctrl"].done
      BY <2>1, <2>2, EnqueueKeeps
    <2>4. port_task.at \notin {"connected", "alloc_pipe"}
      BY <1>4 DEF AppRuns, PortBlocked
    <2>5. CtrlAnswers' /\ CtrlAddress'
      BY <1>4, <2>1, <2>3, <2>4, CtrlAfterwards DEF Addresses
    <2>6. \A r \in DataPipe : DataAddressAt(r)'
      BY <1>4, <2>2, DataStays DEF Addresses, DataAddress, DataPipe, Life
    <2> QED BY <2>5, <2>6 DEF Addresses, DataAddress
  <1>5. CASE sendDataEnd
    <2>1. ready
      BY <1>5 DEF sendDataEnd, Cdc, Begun
    <2> QED BY <1>3, <1>5, <2>1 DEF sendDataEnd, outData
  <1>6. ASSUME NEW req \in {"LINE", "STRING"}, CtrlRequest(req) PROVE Addresses'
    BY <1>4, <1>6 DEF AppWaits, CtrlRequest, portVars
  <1> QED BY <1>2, <1>5, <1>6 DEF App, setLineCoding, getSerialString

\* Every step of a session keeps the addresses,
LEMMA AddressStep ==
    ASSUME TypeOK, PortInv, Cdc, Cdc', Addresses, SessionNext, "SET_ADDR" \notin Payload
    PROVE  Addresses'
  <1>1. CASE ~There'
    BY <1>1 DEF Addresses, CtrlAnswers, CtrlAddress, DataAddress, DataAddressAt
  <1>2. CASE There'
    <2>1. ThereStep
      BY <1>2, SessionThere
    <2>2. CASE \/ Enable \/ Unplug \/ (ConnectReset /\ vport' = vport /\ Life("ctrl") = "none" /\ There) \/ ActNothing
               \/ addCTRLpipe \/ addCTRLpipeEnd
      BY <1>2, <2>2, AddressPort
    <2>3. CASE PortCbDeviceDesc \/ PortCbSetAddr
      BY <2>3, AddressRequests
    <2>4. ASSUME vport' = vport PROVE There
      BY <1>2, <2>4 DEF There
    <2>5. CASE \E p \in Pipe : PipeTask(p)
      BY <1>2, <2>4, <2>5, AddressTask DEF PipeTask
    <2>6. CASE PipeCb
      BY <1>2, <2>4, <2>6, AddressCb DEF PipeCb
    <2>7. CASE AppWaits /\ App
      <3>1. vport' = vport
        BY <2>7 DEF App, sendData, sendDataEnd, setLineCoding, getSerialString, CtrlRequest, viewVars
      <3> QED BY <1>2, <2>4, <2>7, <3>1, AddressApp
    <2>8. CASE Transfer
      <3>1. PICK p \in Pipe : TransferDone(p) /\ UNCHANGED <<vport, vhw, op, portVars>>
        BY <2>8 DEF Transfer
      <3> QED BY <3>1, AddressTransferCtrl, AddressTransferData DEF DataPipe
    <2>9. ASSUME NEW p \in DataPipe, TransferFailed(p, "ERROR_STALL"), UNCHANGED <<vport, vhw, op, portVars>>
          PROVE  Addresses'
      <3>1. "ERROR_STALL" \in ErrorEvent
        BY DEF ErrorEvent
      <3> QED BY <2>9, <3>1, AddressTransferData
    <2> QED BY <2>1, <2>2, <2>3, <2>5, <2>6, <2>7, <2>8, <2>9 DEF ThereStep
  <1> QED BY <1>1, <1>2

\* which there are none of at the beginning,
LEMMA AddressInit == Init => Addresses
  <1> SUFFICES ASSUME Init PROVE Addresses
    OBVIOUS
  <1>1. ~There
    BY DEF Init, There, ViewInit
  <1> QED BY <1>1 DEF Addresses, CtrlAnswers, CtrlAddress, DataAddress, DataAddressAt

\* and so does a session,
LEMMA AddressKeeps ==
    ASSUME "SET_ADDR" \notin Payload
    PROVE  PortInv /\ CdcVisiting /\ CdcVisiting' /\ Addresses /\ [SessionNext]_vars => Addresses'
  <1> SUFFICES ASSUME PortInv, CdcVisiting, CdcVisiting', Addresses, [SessionNext]_vars PROVE Addresses'
    OBVIOUS
  <1>1. TypeOK /\ Cdc /\ Cdc'
    BY DEF CdcVisiting, Cdc, PortInv
  <1>2. CASE SessionNext
    BY <1>1, <1>2, AddressStep
  <1>3. CASE UNCHANGED vars
    BY <1>3 DEF vars, viewVars, hostPipeVars, portVars, Addresses, CtrlAnswers, CtrlAddress, DataAddress, DataAddressAt, There,
                Life, Turning, Addressed, Requests
  <1> QED BY <1>2, <1>3

\* and a pipe with a transfer on the bus has the address of the device.
LEMMA AddressesAgree == PortInv /\ CdcVisiting /\ Addresses => AddressAgrees
  <1> SUFFICES ASSUME PortInv, CdcVisiting, Addresses, NEW p \in Pipe, OnBus(p) PROVE addr[p] = dev_addr
    BY DEF AddressAgrees
  <1>1. CdcPipes /\ TypeOK /\ PortVisit /\ Owned /\ CtrlVisit /\ ObjectsVisit
    BY CdcPipesKnown DEF CdcVisiting, Visit, ObjectsVisit, PortInv
  <1>2. There /\ Life(p) = "whole" /\ drv[p].moving # << >>
    BY <1>1 DEF OnBus, PortVisit, Hardware, There, Owned, OwnedAt
  <1>3. CASE p = "ctrl"
    BY <1>2, <1>3 DEF Addresses, CtrlAddress
  <1>4. CASE p # "ctrl"
    <2>1. Life("in") # "none" /\ Life("ctrl") = "whole"
      BY <1>1, <1>2, <1>4 DEF ObjectsVisit, Nested, DataPipe
    <2>2. dev_addr = Address
      BY <1>2, <2>1 DEF Addresses, CtrlAddress, Addressed
    <2> QED BY <1>2, <1>4, <2>2 DEF Addresses, DataAddress, DataAddressAt, DataPipe
  <1> QED BY <1>3, <1>4

\* As long as no data read like a SET_ADDRESS, a transfer goes to the device that is
\* there: its pipe has the address that the device answers to.  The application has
\* waited for the device (AppWaits), so that nothing of its stands behind the
\* SET_ADDRESS; a request that does goes to the old address (MCCdc!Eager).
THEOREM DeviceIsAddressed ==
    ASSUME "SET_ADDR" \notin Payload
    PROVE  Session => []AddressAgrees
  <1>1. [SessionNext]_vars => [Next]_vars
    BY SessionSteps
  <1>2. Session => Init /\ [][SessionNext]_vars
    BY PTL DEF Session
  <1>3. PortInv /\ [SessionNext]_vars => PortInv'
    BY <1>1, PortInvNext
  <1>4. PortInv /\ CdcVisiting /\ CdcVisiting' /\ Addresses /\ [SessionNext]_vars => Addresses'
    BY AddressKeeps
  <1>5. Init /\ [][SessionNext]_vars => [](PortInv /\ CdcVisiting /\ Addresses)
    BY <1>3, <1>4, PortInvInit, SessionInit, SessionKeeps, AddressInit, PTL
  <1>6. [](PortInv /\ CdcVisiting /\ Addresses) => []AddressAgrees
    BY AddressesAgree, PTL
  <1> QED BY <1>2, <1>5, <1>6

-----------------------------------------------------------------------------
(* How many IRPs a pipe holds                                              *)

\* How many IRPs a pipe holds, and how many of them are done.
LEMMA HoldsRequests ==
    ASSUME NEW d \in Driver_t
    PROVE  /\ Holds(d) = Len(Requests(d)) /\ Holds(d) \in Nat /\ Len(d.done) \in Nat /\ Len(d.done) <= Holds(d)
           /\ Len(d.done) = Holds(d) <=> d.moving = << >> /\ d.pending = << >>
           /\ Len(d.done) = 0 <=> d.done = << >>
  <1> DEFINE n == Names(d.done)
             m == d.moving
             q == d.pending
  <1>1. n \in Seq(Irp) /\ m \in Seq(Irp) /\ q \in Seq(Irp) /\ d.done \in Seq(IrpDone) /\ Len(n) = Len(d.done)
        /\ Requests(d) = n \o m \o q
    BY RequestsType, DriverFields, NamesType
  <1>2. Holds(d) = Len(m) + Len(q) + Len(d.done)
    BY DEF Holds
  <1>0. \A S : \A s \in Seq(S) : (Len(s) = 0) <=> (s = << >>)
    <2>1. ASSUME NEW S, NEW s \in Seq(S), Len(s) = 0 PROVE s = << >>
      BY <2>1, EmptySeq
    <2>2. Len(<< >>) = 0
      OBVIOUS
    <2> QED BY <2>1, <2>2
  <1>3. (Len(d.done) = 0) <=> (d.done = << >>)
    BY <1>0, <1>1
  <1> HIDE DEF n, m, q
  <1>4. Len(n \o m \o q) = Len(n) + Len(m) + Len(q) /\ Len(n) \in Nat /\ Len(m) \in Nat /\ Len(q) \in Nat
    <2>1. n \in Seq(Irp) /\ m \in Seq(Irp) /\ q \in Seq(Irp)
      BY <1>1
    <2>2. \A S : \A a, b, c \in Seq(S) : /\ Len((a \o b) \o c) = Len(a) + Len(b) + Len(c)
                                         /\ Len(a) \in Nat /\ Len(b) \in Nat /\ Len(c) \in Nat
      OBVIOUS
    <2> QED BY ONLY <2>1, <2>2
  <1>5. ((Len(m) = 0) <=> (m = << >>)) /\ ((Len(q) = 0) <=> (q = << >>))
    BY <1>0, <1>1
  <1>6. Holds(d) = Len(Requests(d)) /\ Holds(d) \in Nat /\ Len(d.done) \in Nat /\ Len(d.done) <= Holds(d)
        /\ (Len(d.done) = Holds(d) <=> Len(m) = 0 /\ Len(q) = 0)
    <2>1. \A a, b, c \in Nat : a + b + c \in Nat /\ b + c + a = a + b + c /\ a <= a + b + c
                               /\ (a = a + b + c <=> b = 0 /\ c = 0)
      OBVIOUS
    <2>2. Len(d.done) = Len(n) /\ Requests(d) = n \o m \o q
      BY <1>1
    <2>3. Len(n) + Len(m) + Len(q) = Holds(d)
      BY ONLY <1>2, <1>4, <2>1, <2>2
    <2> QED BY ONLY <1>4, <2>1, <2>2, <2>3
  <1> QED BY <1>3, <1>5, <1>6 DEF m, q

\* A request more, that is not done.
LEMMA EnqueueHolds ==
    ASSUME NEW d \in Driver_t, NEW irp \in Irp
    PROVE  /\ Holds(Enqueue(d, irp)) = Holds(d) + 1 /\ Len(Enqueue(d, irp).done) = Len(d.done)
           /\ Enqueue(d, irp).state = d.state /\ Enqueue(d, irp) \in Driver_t
  <1>1. Enqueue(d, irp) \in Driver_t /\ Enqueue(d, irp).state = d.state /\ Enqueue(d, irp).done = d.done
    BY EnqueueKeeps, EnqueueType
  <1>2. Requests(Enqueue(d, irp)) = Append(Requests(d), irp) /\ Requests(d) \in Seq(Irp)
    BY EnqueueRequests, RequestsType
  <1>3. Len(Append(Requests(d), irp)) = Len(Requests(d)) + 1
    BY <1>2
  <1> QED BY <1>1, <1>2, <1>3, HoldsRequests

\* What is reset is done.
LEMMA ResetHolds ==
    ASSUME NEW d \in Driver_t, d.state # "INVALID"
    PROVE  /\ Holds(ResetPipe(d)) = Holds(d) /\ Len(d.done) <= Len(ResetPipe(d).done)
           /\ ResetPipe(d).state = "ACTIVE" /\ ResetPipe(d) \in Driver_t
  BY ResetRequests, ResetKeeps, HoldsRequests

\* One more is done.
LEMMA OldestHolds ==
    ASSUME NEW d \in Driver_t, d.moving # << >>, NEW status \in IrpStatus, NEW e,
           e = Filled(Oldest(d, status)) \/ e = [Oldest(d, status) EXCEPT !.state = "HALTED"]
    PROVE  /\ Holds(e) = Holds(d) /\ Len(e.done) = Len(d.done) + 1 /\ e \in Driver_t /\ Len(d.done) < Holds(d)
           /\ e.state = IF e = Filled(Oldest(d, status)) THEN d.state ELSE "HALTED"
  <1> DEFINE o == Oldest(d, status)
             x == [irp |-> Head(d.moving), status |-> status]
  <1>1. o \in Driver_t /\ Requests(o) = Requests(d) /\ o.state = d.state /\ o.done = Append(d.done, x)
    BY OldestRequests, OldestFields
  <1>2. Len(Append(d.done, x)) = Len(d.done) + 1
    BY DriverFields
  <1> HIDE DEF o
  <1>3. CASE e = Filled(o)
    <2>1. e \in Driver_t /\ Requests(e) = Requests(o) /\ e.done = o.done /\ e.state = o.state
      BY <1>1, <1>3, FilledType, FilledFields, FilledRequests
    <2> QED BY <1>1, <1>2, <1>3, <2>1, HoldsRequests DEF o
  <1>4. CASE e = [o EXCEPT !.state = "HALTED"] /\ e # Filled(o)
    <2>1. e \in Driver_t /\ e.done = o.done /\ e.state = "HALTED"
      BY <1>1, <1>4 DEF Driver_t
    <2>2. Requests(e) = Requests(d)
      BY <1>4, OldestRequests DEF o
    <2> QED BY <1>1, <1>2, <1>4, <2>1, <2>2, HoldsRequests DEF o
  <1> QED BY <1>3, <1>4 DEF o

\* One is dequeued.
LEMMA DequeueHolds ==
    ASSUME NEW d \in Driver_t, d.done # << >>, NEW e, e = [d EXCEPT !.done = Tail(@)]
    PROVE  /\ Holds(e) = Holds(d) - 1 /\ Len(e.done) = Len(d.done) - 1 /\ e \in Driver_t /\ e.state = d.state
  <1>1. e \in Driver_t /\ Requests(e) = Tail(Requests(d)) /\ Requests(d) # << >> /\ Requests(d) \in Seq(Irp)
        /\ d.done \in Seq(IrpDone)
    BY DequeuesFirst, RequestsType, DriverFields
  <1>2. e.done = Tail(d.done) /\ e.state = d.state
    BY DEF Driver_t
  <1> DEFINE s == Requests(d)
             f == d.done
  <1>3. s \in Seq(Irp) /\ s # << >> /\ f \in Seq(IrpDone) /\ f # << >>
    BY <1>1
  <1> HIDE DEF s, f
  <1>4. Len(Tail(s)) = Len(s) - 1 /\ Len(Tail(f)) = Len(f) - 1
    BY <1>3
  <1> QED BY <1>1, <1>2, <1>4, HoldsRequests DEF s, f

-----------------------------------------------------------------------------
(* The steps of a data pipe, while the device is there                     *)

\* What a step of a session may do to a data pipe of a device that is there: the pipe
\* stays as it is,
Still(p) == drv'[p] = drv[p] /\ evtq'[p] = evtq[p] /\ task'[p] = task[p] /\ Life(p)' = Life(p)

\* is new,
Fresh(p) == Life(p) # "whole" /\ Unused(p)'

\* its task skips a message,
Skips(p) ==
    /\ task[p].at = "blocked" /\ evtq[p] # << >> /\ drv[p].done = << >>
    /\ evtq'[p] = Tail(evtq[p]) /\ drv'[p] = drv[p] /\ task'[p] = task[p]

\* takes one,
Takes(p) ==
    /\ task[p].at = "blocked" /\ evtq[p] # << >> /\ drv[p].done # << >>
    /\ evtq'[p] = Tail(evtq[p]) /\ drv'[p] = [drv[p] EXCEPT !.done = Tail(@)]
    /\ task'[p] = [at |-> "handle", event |-> Head(evtq[p]), irp |-> Head(drv[p].done)]

\* handles it,
Cleared(p) == IF task[p].event \in Known THEN ResetPipe(drv[p]) ELSE drv[p]

HandsOn(p) ==
    /\ task[p].at = "handle" /\ task'[p].at = "class" /\ task'[p].event = task[p].event
    /\ evtq'[p] = evtq[p] /\ drv'[p] = Cleared(p)

\* hands it to the class driver,
CallsBack(p) ==
    /\ task[p].at = "class" /\ task'[p].at = "free" /\ evtq'[p] = evtq[p]
    /\ IF p = "in" /\ Cleared(p).state = "ACTIVE"
       THEN \E data \in Payload : drv'[p] = Enqueue(Cleared(p), data)
       ELSE drv'[p] = Cleared(p)

\* and waits for the next,
Frees(p) ==
    /\ task[p].at = "free" /\ task'[p].at = "blocked"
    /\ evtq'[p] = evtq[p] /\ drv'[p] = drv[p]

\* a transfer ends, or stalls,
Tells(p, event) == evtq'[p] = IF Len(evtq[p]) < QueueLen THEN Append(evtq[p], event) ELSE evtq[p]

Ends(p) ==
    /\ drv[p].state = "ACTIVE" /\ drv[p].moving # << >> /\ task'[p] = task[p]
    /\ \/ drv'[p] = Filled(Oldest(drv[p], "COMPLETED")) /\ Tells(p, "IRP_DONE")
       \/ drv'[p] = [Oldest(drv[p], "STALL") EXCEPT !.state = "HALTED"] /\ Tells(p, "ERROR_STALL")

\* or the application asks for one.
Asks(p) ==
    /\ task'[p] = task[p] /\ evtq'[p] = evtq[p]
    /\ \E data \in Payload : drv'[p] = Enqueue(drv[p], data)
    /\ IF p = "in" THEN ~ready /\ ready' /\ Unused(p) ELSE app = "sending" /\ app' = "loop"

Works(p) ==
    /\ Life(p) = "whole" /\ Life(p)' = "whole"
    /\ Skips(p) \/ Takes(p) \/ HandsOn(p) \/ CallsBack(p) \/ Frees(p) \/ Ends(p) \/ Asks(p)

DataStep(p) ==
    /\ Life(p)' # "whole" \/ Fresh(p) \/ Still(p) \/ Works(p)
    /\ p = "in" /\ ready' # ready => Works(p) /\ Asks(p)
    /\ p = "out" /\ app' = "sending" => app = "sending" \/ (Still(p) /\ Holds(drv[p]) < MaxOut)

\* A pipe that another step leaves alone.
LEMMA StillStep ==
    ASSUME NEW p \in {"in", "out"}, Still(p) \/ Life(p)' # "whole", ready' = ready, app' = "sending" => app = "sending"
    PROVE  DataStep(p)
  BY DEF DataStep

\* The port task, with the device there.
LEMMA PortDataStep ==
    ASSUME TypeOK, Cdc, Cdc', There', NEW p \in {"in", "out"},
           \/ Enable \/ Unplug \/ (ConnectReset /\ vport' = vport /\ Life("ctrl") = "none" /\ There) \/ ActNothing
           \/ addCTRLpipe \/ addCTRLpipeEnd \/ PortCbDeviceDesc \/ PortCbSetAddr
    PROVE  DataStep(p)
  <1>1. CdcPipes /\ ObjectsVisit /\ ObjectsVisit' /\ p \in Pipe /\ p \in DataPipe
    BY CdcPipesKnown DEF Cdc, Visit, CdcPipes, DataPipe
  <1>2. ready' = ready /\ app' = app
    BY DEF Enable, Unplug, ConnectReset, ActNothing, addCTRLpipe, addCTRLpipeEnd, PortCbDeviceDesc, PortCbSetAddr, PortInterrupt, portVars
  <1>3. CASE Enable
    <2>1. Life(p)' = "none"
      BY <1>1, <1>3, NotThereBefore
    <2> QED BY <1>2, <2>1, StillStep
  <1>4. CASE Unplug \/ ConnectReset \/ ActNothing
    <2>1. drv' = drv /\ evtq' = evtq /\ task' = task /\ obj' = obj
      BY <1>4 DEF Unplug, PortInterrupt, Disconnected, ConnectReset, ResetPortEnd, ActNothing, viewVars, hostPipeVars
    <2> QED BY <1>2, <2>1, StillStep DEF Still, Life
  <1>5. CASE addCTRLpipe \/ addCTRLpipeEnd \/ PortCbDeviceDesc \/ PortCbSetAddr
    <2>1. Life("in")' = "none"
      <3>1. CASE addCTRLpipe \/ addCTRLpipeEnd
        <4>1. port_task'.at \in {"alloc_pipe", "get_desc"}
          <5>1. DOMAIN port_task = {"at", "event", "cur"}
          BY TypeParts DEF PortType
        <5>2. \A at : PortGoto(at) => port_task'.at = at
          BY <5>1 DEF PortGoto
        <5>3. addCTRLpipe => vport.state = "ENABLED"
          BY DEF addCTRLpipe, viewVars, There
        <5> QED BY <3>1, <5>2, <5>3 DEF addCTRLpipe, addCTRLpipeEnd
        <4> QED BY <1>1, <4>1 DEF ObjectsVisit, Nested
      <3>2. CASE PortCbDeviceDesc \/ PortCbSetAddr
        BY <1>1, <3>2 DEF PortCbDeviceDesc, PortCbSetAddr, ObjectsVisit, Nested, Life
      <3> QED BY <1>5, <3>1, <3>2
    <2>2. Life(p)' # "whole"
      BY <1>1, <2>1 DEF ObjectsVisit, Nested
    <2> QED BY <1>2, <2>2, StillStep
  <1> QED BY <1>3, <1>4, <1>5

\* A pipe of a device that is there takes commands.
LEMMA TakesCommands ==
    ASSUME TypeOK, Cdc, There, NEW p \in Pipe
    PROVE  /\ CanCommand(p) /\ drv[p].state # "INVALID" /\ ClassReset(p) = Cleared(p)
           /\ Life(p) = "whole" => drv[p].alloc /\ (Accepts(p) <=> drv[p].state = "ACTIVE")
  <1>1. PortVisit /\ OwnedAt(p)
    BY DEF Cdc, Visit, ObjectsVisit, Owned
  <1>2. vport.conn_devc_ena /\ drv[p].state # "INVALID" /\ (Life(p) = "whole" => drv[p].alloc)
    BY <1>1 DEF PortVisit, Hardware, There, OwnedAt
  <1> QED BY <1>2 DEF CanCommand, ClassReset, Cleared, Known, Accepts, There

\* The tasks of the pipes.
LEMMA TaskDataStep ==
    ASSUME TypeOK, Cdc, There, Plain, NEW p \in {"in", "out"}, NEW r \in Pipe, PipeTask(r)
    PROVE  DataStep(p)
  <1>1. CdcPipes /\ Owned /\ p \in Pipe /\ p \in DataPipe /\ TaskStep(r) /\ UNCHANGED <<ready, app>>
    BY CdcPipesKnown DEF Cdc, Visit, ObjectsVisit, CdcPipes, DataPipe, PipeTask, portVars
  <1>2. OneMoves(r)
    BY <1>1, StepMoves
  <1>3. CASE r # p
    <2>1. Still(p)
      BY <1>1, <1>2, <1>3 DEF OneMoves, Still, Life
    <2> QED BY <1>1, <2>1, StillStep
  <1>4. CASE r = p
    <2>1. Life(p) = "whole" /\ Life(p)' = "whole" /\ PlainAt(p)
      BY <1>1, <1>2, <1>4 DEF OneMoves, Life, Plain
    <2>2. ~HandleSetAddr(p) /\ ~HandleSetAddrEnd(p) /\ ~HandleSetConfig(p)
      BY <2>1 DEF PlainAt, HandleSetAddr, HandleSetAddrEnd, HandleSetConfig, HandlesDone, Handles
    <2>3. ASSUME Receive(p) PROVE Skips(p) \/ Takes(p)
      <3>1. task[p].at = "blocked" /\ evtq[p] # << >>
        BY <2>3 DEF Receive
      <3>2. CASE drv[p].done = << >>
        BY <1>1, <2>3, <3>1, <3>2, ReceiveFields DEF Skips
      <3>3. CASE drv[p].done # << >>
        <4>1. drv'[p] = [drv[p] EXCEPT !.done = Tail(@)]
          BY <1>1, <2>3, <3>3, LifeType DEF Receive, IrpDequeue
        <4>2. evtq'[p] = Tail(evtq[p])
              /\ task'[p] = [at |-> "handle", event |-> Head(evtq[p]), irp |-> Head(drv[p].done)]
          BY <1>1, <2>3, <3>3, ReceiveFields
        <4> QED BY <3>1, <3>3, <4>1, <4>2 DEF Takes
      <3> QED BY <3>2, <3>3
    <2>4. ASSUME HandleError(p) PROVE HandsOn(p)
      <3>1. task[p].at = "handle" /\ task[p].event \in Known /\ Goto(p, "class") /\ evtq' = evtq /\ reset(p)
        BY <2>4 DEF HandleError, Handles, Known
      <3>2. task'[p].at = "class" /\ task'[p].event = task[p].event
        BY <1>1, <3>1, GotoFields
      <3>3. drv'[p] = ResetPipe(drv[p])
        BY <1>1, <3>1, ResetFields, TakesCommands
      <3> QED BY <3>1, <3>2, <3>3 DEF HandsOn, Cleared
    <2>5. ASSUME HandleOther(p) PROVE HandsOn(p)
      <3>1. task[p].at = "handle" /\ task[p].event \notin Known /\ Goto(p, "class") /\ evtq' = evtq /\ drv' = drv
        BY <2>5 DEF HandleOther, Handles, Known
      <3>2. task'[p].at = "class" /\ task'[p].event = task[p].event
        BY <1>1, <3>1, GotoFields
      <3> QED BY <3>1, <3>2 DEF HandsOn, Cleared
    <2>6. ASSUME FreeIrp(p) PROVE Frees(p)
      <3>1. task'[p] = TaskIn("blocked")
        BY <1>1, <2>6, LifeType DEF FreeIrp
      <3> QED BY <2>6, <3>1 DEF FreeIrp, Frees, TaskIn
    <2>7. Works(p)
      BY <1>1, <1>4, <2>1, <2>2, <2>3, <2>4, <2>5, <2>6 DEF TaskStep, Works
    <2> QED BY <1>1, <2>7 DEF DataStep
  <1> QED BY <1>3, <1>4

\* Transfers.
LEMMA TransferDataStep ==
    ASSUME TypeOK, Cdc, There, NEW p \in {"in", "out"}, NEW r \in Pipe, UNCHANGED <<vport, vhw, op, portVars>>,
           TransferDone(r) \/ (r \in DataPipe /\ TransferFailed(r, "ERROR_STALL"))
    PROVE  DataStep(p)
  <1>1. CdcPipes /\ Owned /\ p \in Pipe /\ UNCHANGED <<ready, app>> /\ "ERROR_STALL" \in ErrorEvent
    BY CdcPipesKnown DEF Cdc, Visit, ObjectsVisit, CdcPipes, portVars, ErrorEvent
  <1>2. OneMoves(r) /\ task' = task
    BY <1>1, TransferMoves
  <1>3. CASE r # p
    <2>1. Still(p)
      BY <1>1, <1>2, <1>3 DEF OneMoves, Still, Life
    <2> QED BY <1>1, <2>1, StillStep
  <1>4. CASE r = p
    <2>1. Life(p) = "whole" /\ Life(p)' = "whole" /\ DOMAIN drv = Pipe /\ DOMAIN evtq = Pipe
      BY <1>2, <1>4 DEF OneMoves, Life, TypeOK
    <2>2. drv[p].state = "ACTIVE" /\ drv[p].moving # << >>
      BY <1>4 DEF TransferDone, TransferFailed, ChanDone, ChanFailed, OnBus
    <2>3. CASE TransferDone(p)
      <3>1. drv' = [drv EXCEPT ![p] = Filled(Oldest(@, "COMPLETED"))] /\ Posted(p, "IRP_DONE")
        BY <2>3 DEF TransferDone, ChanDone
      <3>2. drv'[p] = Filled(Oldest(drv[p], "COMPLETED"))
        BY <1>1, <2>1, <3>1
      <3>3. Tells(p, "IRP_DONE")
        BY <1>1, <2>1, <3>1 DEF Posted, Tells
      <3> QED BY <1>1, <1>2, <2>1, <2>2, <3>2, <3>3 DEF DataStep, Works, Ends
    <2>4. CASE TransferFailed(p, "ERROR_STALL")
      <3>1. drv' = [drv EXCEPT ![p] = [Oldest(@, "STALL") EXCEPT !.state = "HALTED"]] /\ Posted(p, "ERROR_STALL")
        <4>1. StatusOf["ERROR_STALL"] = "STALL"
          BY DEF StatusOf
        <4> QED BY <2>4, <4>1 DEF TransferFailed, ChanFailed
      <3>2. drv'[p] = [Oldest(drv[p], "STALL") EXCEPT !.state = "HALTED"]
        BY <1>1, <2>1, <3>1
      <3>3. Tells(p, "ERROR_STALL")
        BY <1>1, <2>1, <3>1 DEF Posted, Tells
      <3> QED BY <1>1, <1>2, <2>1, <2>2, <3>2, <3>3 DEF DataStep, Works, Ends
    <2> QED BY <1>4, <2>3, <2>4
  <1> QED BY <1>3, <1>4

\* begin opens a data pipe,
LEMMA BeginDataStep ==
    ASSUME TypeOK, Cdc, There, NEW p \in {"in", "out"}, NEW r \in {"in", "out"}, NEW at, NEW next,
           Begin(r, at, next), UNCHANGED <<ready, app>>
    PROVE  DataStep(p)
  <1>1. CdcPipes /\ PortVisit /\ p \in Pipe /\ p \in DataPipe /\ r \in DataPipe /\ r \in Pipe
    BY CdcPipesKnown DEF Cdc, Visit, CdcPipes, DataPipe
  <1>2. vport.conn_devc_ena
    BY <1>1 DEF PortVisit, Hardware, There
  <1>3. (\A q \in DataPipe \ {r} : task'[q] = task[q]) /\ NewPipe(r) /\ UNCHANGED <<drv, evtq>>
    BY <1>1, <1>2, BeginFields
  <1>4. Life(r)' = "raw" /\ \A q \in Pipe \ {r} : Life(q)' = Life(q) /\ evtq'[q] = evtq[q]
    BY <1>1, <1>3, LifeType DEF NewPipe, Life
  <1>5. Life(p)' # "whole" \/ Still(p)
    BY <1>1, <1>3, <1>4 DEF Still
  <1> QED BY <1>5, StillStep

\* in two halves.
LEMMA AllocDataStep ==
    ASSUME TypeOK, Cdc, There, NEW p \in {"in", "out"}, NEW r \in {"in", "out"}, NEW at, NEW next,
           BeginAlloc(r, at, next), UNCHANGED <<ready, app>>, at = IF r = "in" THEN "begin_in_alloc" ELSE "begin_out_alloc"
    PROVE  DataStep(p)
  <1>1. CdcPipes /\ PortVisit /\ Beginning /\ Owned /\ p \in Pipe /\ p \in DataPipe /\ r \in DataPipe /\ r \in Pipe
    BY CdcPipesKnown DEF Cdc, Visit, ObjectsVisit, CdcPipes, DataPipe
  <1>2. vport.conn_devc_ena
    BY <1>1 DEF PortVisit, Hardware, There
  <1>3. task'[r] = TaskIn("blocked") /\ (\A q \in DataPipe \ {r} : task'[q] = task[q]) /\ AllocPipe(r, Address)
    BY <1>1, BeginAllocFields
  <1>4. evtq'[r] = << >> /\ \A q \in Pipe \ {r} : evtq'[q] = evtq[q]
    BY <1>1, <1>3 DEF AllocPipe, TypeOK
  <1>5. /\ Life(r)' = "whole" /\ drv'[r] = [NoPipeYet EXCEPT !.alloc = TRUE]
        /\ \A q \in Pipe \ {r} : Life(q)' = Life(q) /\ drv'[q] = drv[q]
    <2>1. /\ drv' = [drv EXCEPT ![r] = [NoPipeYet EXCEPT !.alloc = TRUE]]
          /\ obj' = [obj EXCEPT ![r].life = "whole"]
      BY <1>2, <1>3 DEF AllocPipe, HcdPipeAlloc
    <2>2. DOMAIN drv = Pipe /\ DOMAIN obj = Pipe /\ obj \in [Pipe -> Object]
      BY <1>1 DEF TypeOK
    <2>3. drv'[r] = [NoPipeYet EXCEPT !.alloc = TRUE] /\ \A q \in Pipe \ {r} : drv'[q] = drv[q]
      BY <1>1, <2>1, <2>2
    <2>4. obj'[r].life = "whole" /\ \A q \in Pipe \ {r} : obj'[q] = obj[q]
      BY <1>1, <2>1, <2>2 DEF Object
    <2> QED BY <2>3, <2>4 DEF Life
  <1>6. Life(r) = "raw"
    BY <1>1 DEF BeginAlloc, Beginning
  <1>7. CASE p = r
    <2>1. Fresh(p)
      BY <1>1, <1>3, <1>4, <1>5, <1>6, <1>7 DEF Fresh, Unused
    <2> QED BY <2>1 DEF DataStep
  <1>8. CASE p # r
    <2>1. Still(p)
      BY <1>1, <1>3, <1>4, <1>5, <1>8 DEF Still
    <2> QED BY <2>1, StillStep
  <1> QED BY <1>7, <1>8

\* The application is told, and asks for the first data.
LEMMA ReadyFields ==
    ASSUME TypeOK, Cdc, There, CtrlAnswers, DeviceReady
    PROVE  /\ Life("in") = "whole" /\ Life("ctrl") = "whole" /\ ~ready /\ ready' /\ Unused("in") /\ task["ctrl"].at = "ready"
           /\ leaked' = leaked /\ UNCHANGED <<obj, evtq>>
           /\ \E data \in Payload : drv'["in"] = Enqueue(drv["in"], data)
           /\ \A r \in DataPipe : task'[r] = task[r] /\ (r # "in" => drv'[r] = drv[r])
  <1>1. CdcPipes /\ Beginning /\ Owned /\ "in" # "ctrl" /\ "ctrl" \in Pipe /\ "in" \in Pipe
    BY CdcPipesKnown DEF Cdc, Visit, ObjectsVisit, CdcPipes
  <1>2. task["ctrl"].at = "ready" /\ Goto("ctrl", "free") /\ UNCHANGED <<obj, evtq>> /\ ready'
    BY DEF DeviceReady
  <1>3. Life("ctrl") = "whole" /\ Life("in") = "whole" /\ Unused("in") /\ ~ready
    <2>1. Life("ctrl") = "whole"
      BY <1>1, <1>2, BusyIsWhole
    <2>2. Life("in") \in {"none", "raw", "whole"}
      BY <1>1, LifeType
    <2> QED BY <1>1, <1>2, <2>1, <2>2 DEF Beginning
  <1>4. Accepts("ctrl") /\ Accepts("in")
    <2>1. drv["ctrl"].state = "ACTIVE"
      BY <1>3 DEF CtrlAnswers
    <2>2. drv["in"].state = "ACTIVE"
      BY <1>3 DEF Unused, NoPipeYet
    <2> QED BY <1>1, <1>3, <2>1, <2>2, TakesCommands
  <1>5. PICK data \in Payload :
          /\ drv' = [drv EXCEPT !["ctrl"] = IF Accepts("ctrl") THEN Enqueue(Enqueue(@, "LINE"), "LINE") ELSE @,
                                !["in"] = IF Accepts("in") THEN Enqueue(@, data) ELSE @]
          /\ Leak((IF Accepts("ctrl") THEN 0 ELSE 2) + (IF Accepts("in") THEN 0 ELSE 1))
    BY <1>3 DEF DeviceReady, Life
  <1>6. drv'["in"] = Enqueue(drv["in"], data) /\ \A r \in Pipe \ {"ctrl", "in"} : drv'[r] = drv[r]
    <2>1. DOMAIN drv = Pipe
      BY DEF TypeOK
    <2> DEFINE x == IF Accepts("ctrl") THEN Enqueue(Enqueue(drv["ctrl"], "LINE"), "LINE") ELSE drv["ctrl"]
               y == IF Accepts("in") THEN Enqueue(drv["in"], data) ELSE drv["in"]
    <2>2. drv' = [drv EXCEPT !["ctrl"] = x, !["in"] = y]
      BY <1>1, <1>5, <2>1
    <2>3. y = Enqueue(drv["in"], data)
      BY <1>4
    <2> HIDE DEF x, y
    <2> QED BY <1>1, <2>1, <2>2, <2>3
  <1>7. leaked' = leaked
    <2>1. Leak(0)
      BY <1>4, <1>5
    <2>2. leaked \in Nat /\ leaked <= MaxLeak /\ MaxLeak \in Nat
      BY HostPipeAssumption DEF TypeOK
    <2> QED BY <2>1, <2>2 DEF Leak
  <1>8. \A r \in DataPipe : task'[r] = task[r]
    BY <1>1, <1>2, GotoFields DEF DataPipe
  <1> QED BY <1>2, <1>3, <1>6, <1>7, <1>8 DEF DataPipe

\* The callbacks of the class driver.
LEMMA CbDataStep ==
    ASSUME TypeOK, Cdc, There, CtrlAnswers, NEW p \in {"in", "out"}, PipeCb
    PROVE  DataStep(p)
  <1>1. CdcPipes /\ Owned /\ p \in Pipe /\ p \in DataPipe /\ app' = app /\ vport' = vport
    BY CdcPipesKnown DEF Cdc, Visit, ObjectsVisit, CdcPipes, DataPipe, PipeCb
  <1>2. CASE CtrlCb /\ ready' = ready
    <2>1. Still(p)
      BY <1>1, <1>2, GotoFields DEF CtrlCb, Still, Life, CdcPipes, DataPipe
    <2> QED BY <1>1, <1>2, <2>1, StillStep
  <1>3. CASE begin /\ ready' = ready
    <2>1. CASE Begin("in", "begin_in", <<"begin_in_alloc", "begin_out">>)
      <3> DEFINE next == <<"begin_in_alloc", "begin_out">>
      <3>1. Begin("in", "begin_in", next)
        BY <2>1
      <3> HIDE DEF next
      <3> QED BY <1>1, <1>3, <3>1, BeginDataStep
    <2>2. CASE Begin("out", "begin_out", <<"begin_out_alloc", "ready">>)
      <3> DEFINE next == <<"begin_out_alloc", "ready">>
      <3>1. Begin("out", "begin_out", next)
        BY <2>2
      <3> HIDE DEF next
      <3> QED BY <1>1, <1>3, <3>1, BeginDataStep
    <2>3. CASE BeginAlloc("in", "begin_in_alloc", "begin_out")
      BY <1>1, <1>3, <2>3, AllocDataStep
    <2>4. CASE BeginAlloc("out", "begin_out_alloc", "ready")
      BY <1>1, <1>3, <2>4, AllocDataStep
    <2> QED BY <1>3, <2>1, <2>2, <2>3, <2>4 DEF begin
  <1>4. CASE InCb /\ ready' = ready
    <2>1. task["in"].at = "class" /\ Goto("in", "free") /\ UNCHANGED <<obj, evtq>>
      BY <1>4 DEF InCb
    <2>2. task'["in"].at = "free" /\ \A r \in Pipe \ {"in"} : task'[r] = task[r]
      BY <1>1, <2>1, GotoFields DEF CdcPipes
    <2>3. Life("in") = "whole"
      BY <1>1, <2>1, BusyIsWhole DEF CdcPipes
    <2>4. PICK data \in Payload :
            drv' = [drv EXCEPT !["in"] = IF Cleared("in").state = "ACTIVE" THEN Enqueue(Cleared("in"), data) ELSE Cleared("in")]
      <3>1. ClassReset("in") = Cleared("in")
        BY <1>1, TakesCommands DEF CdcPipes
      <3> HIDE DEF Cleared, ClassReset
      <3> QED BY <1>4, <3>1 DEF InCb, There
    <2>5. (\A r \in Pipe \ {"in"} : drv'[r] = drv[r])
          /\ drv'["in"] = IF Cleared("in").state = "ACTIVE" THEN Enqueue(Cleared("in"), data) ELSE Cleared("in")
      BY <1>1, <2>4, LifeType DEF CdcPipes
    <2>6. CASE p = "in"
      <3>1. Works(p)
        BY <2>1, <2>2, <2>3, <2>5, <2>6 DEF Works, CallsBack, Life
      <3> QED BY <1>1, <1>4, <2>6, <3>1 DEF DataStep
    <2>7. CASE p # "in"
      <3>1. Still(p)
        BY <1>1, <2>1, <2>2, <2>5, <2>7 DEF Still, Life
      <3> QED BY <1>1, <1>4, <3>1, StillStep
    <2> QED BY <2>6, <2>7
  <1>5. CASE OutCb /\ ready' = ready
    <2>1. task["out"].at = "class" /\ Goto("out", "free") /\ UNCHANGED <<obj, evtq>>
      BY <1>5 DEF OutCb
    <2>2. task'["out"].at = "free" /\ \A r \in Pipe \ {"out"} : task'[r] = task[r]
      BY <1>1, <2>1, GotoFields DEF CdcPipes
    <2>3. Life("out") = "whole"
      BY <1>1, <2>1, BusyIsWhole DEF CdcPipes
    <2>4. (\A r \in Pipe \ {"out"} : drv'[r] = drv[r]) /\ drv'["out"] = Cleared("out")
      BY <1>1, <1>5, TakesCommands, LifeType DEF OutCb, CdcPipes
    <2>5. CASE p = "out"
      <3>1. Works(p)
        BY <2>1, <2>2, <2>3, <2>4, <2>5 DEF Works, CallsBack, Life
      <3> QED BY <1>1, <1>5, <2>5, <3>1 DEF DataStep
    <2>6. CASE p # "out"
      <3>1. Still(p)
        BY <1>1, <2>1, <2>2, <2>4, <2>6 DEF Still, Life
      <3> QED BY <1>1, <1>5, <3>1, StillStep
    <2> QED BY <2>5, <2>6
  <1>6. CASE DeviceReady
    <2>1. CASE p = "in"
      <3>1. Asks("in") /\ Life("in") = "whole" /\ Life("in")' = "whole"
        BY <1>1, <1>6, <2>1, ReadyFields DEF Asks, Life
      <3> QED BY <2>1, <3>1 DEF DataStep, Works
    <2>2. CASE p = "out"
      <3>1. Still(p)
        BY <1>1, <1>6, <2>2, ReadyFields DEF Still, Life
      <3> QED BY <1>1, <2>2, <3>1 DEF DataStep
    <2> QED BY <2>1, <2>2
  <1> QED BY <1>2, <1>3, <1>4, <1>5, <1>6 DEF PipeCb

\* The application.
LEMMA AppDataStep ==
    ASSUME TypeOK, Cdc, There, NEW p \in {"in", "out"}, AppWaits, App
    PROVE  DataStep(p)
  <1>1. CdcPipes /\ Owned /\ p \in Pipe /\ p \in DataPipe /\ {"LINE", "STRING"} \subseteq Irp /\ Payload \subseteq Irp
        /\ Begun
    BY CdcPipesKnown, CdcAssumption DEF Cdc, Visit, ObjectsVisit, CdcPipes, DataPipe
  <1>2. CASE sendData
    <2>1. Still(p) /\ ready' = ready /\ Holds(drv["out"]) < MaxOut
      BY <1>2 DEF sendData, Still, Life, viewVars, hostPipeVars
    <2> QED BY <2>1 DEF DataStep
  <1>3. CASE sendDataEnd
    <2>1. app = "sending" /\ AppRuns /\ app' = "loop" /\ UNCHANGED <<obj, evtq, task, ready>> /\ ready
      BY <1>1, <1>3 DEF sendDataEnd, Begun
    <2>2. Life("out") = "whole" /\ "out" \in Pipe
      BY <1>1, <2>1, AppIsReady DEF CdcPipes
    <2>3. PICK data \in Payload : SubmitIrp("out", data)
      BY <1>3 DEF sendDataEnd, outData
    <2>4. (\A r \in Pipe \ {"out"} : drv'[r] = drv[r]) /\ (drv'["out"] = Enqueue(drv["out"], data) \/ drv'["out"] = drv["out"])
      BY <1>1, <2>2, <2>3, SubmitFields
    <2>5. Still(p) \/ (p = "out" /\ Asks("out") /\ Life(p) = "whole" /\ Life(p)' = "whole")
      BY <1>1, <2>1, <2>2, <2>4 DEF Still, Asks, Life
    <2> QED BY <2>1, <2>5 DEF DataStep, Works
  <1>4. ASSUME NEW req \in {"LINE", "STRING"}, CtrlRequest(req) PROVE DataStep(p)
    <2>1. app = "loop" /\ AppRuns /\ SubmitIrp("ctrl", req) /\ UNCHANGED <<obj, evtq, task, ready, app>>
      BY <1>4 DEF CtrlRequest, portVars
    <2>2. Life("ctrl") = "whole" /\ "ctrl" \in Pipe /\ p # "ctrl" /\ req \in Irp
      BY <1>1, <2>1, AppIsReady DEF AppWaits, CdcPipes
    <2>3. drv'[p] = drv[p]
      BY <1>1, <2>1, <2>2, SubmitFields
    <2> QED BY <2>1, <2>3, StillStep DEF Still, Life
  <1> QED BY <1>2, <1>3, <1>4 DEF App, setLineCoding, getSerialString

\* Every step of a session.
LEMMA SessionDataStep ==
    ASSUME TypeOK, PortInv, Cdc, Cdc', CtrlAnswers, Plain, There', SessionNext, NEW p \in {"in", "out"}
    PROVE  DataStep(p)
  <1>1. ThereStep
    BY SessionThere
  <1>2. ASSUME vport' = vport PROVE There
    BY <1>2 DEF There
  <1>3. CASE \/ Enable \/ Unplug \/ (ConnectReset /\ vport' = vport /\ Life("ctrl") = "none" /\ There) \/ ActNothing
             \/ addCTRLpipe \/ addCTRLpipeEnd \/ PortCbDeviceDesc \/ PortCbSetAddr
    BY <1>3, PortDataStep
  <1>4. CASE \E r \in Pipe : PipeTask(r)
    BY <1>2, <1>4, TaskDataStep DEF PipeTask
  <1>5. CASE PipeCb
    BY <1>2, <1>5, CbDataStep DEF PipeCb
  <1>6. CASE AppWaits /\ App
    <2>1. vport' = vport
      BY <1>6 DEF App, sendData, sendDataEnd, setLineCoding, getSerialString, CtrlRequest, viewVars
    <2> QED BY <1>2, <1>6, <2>1, AppDataStep
  <1>7. CASE Transfer
    <2>1. PICK r \in Pipe : TransferDone(r) /\ UNCHANGED <<vport, vhw, op, portVars>>
      BY <1>7 DEF Transfer
    <2> QED BY <1>2, <2>1, TransferDataStep
  <1>8. ASSUME NEW r \in DataPipe, TransferFailed(r, "ERROR_STALL"), UNCHANGED <<vport, vhw, op, portVars>>
        PROVE  DataStep(p)
    BY <1>2, <1>8, TransferDataStep DEF DataPipe
  <1> QED BY <1>1, <1>3, <1>4, <1>5, <1>6, <1>7, <1>8 DEF ThereStep

-----------------------------------------------------------------------------
(* What goes through the data pipes                                        *)

\* The state of a pipe that its task resets, and how many IRPs it holds.
LEMMA ClearedHolds ==
    ASSUME TypeOK, Cdc, There, NEW p \in Pipe
    PROVE  /\ Cleared(p) \in Driver_t /\ Requests(Cleared(p)) = Requests(drv[p]) /\ Holds(Cleared(p)) = Holds(drv[p])
           /\ Len(drv[p].done) <= Len(Cleared(p).done)
           /\ Cleared(p).state = IF task[p].event \in Known THEN "ACTIVE" ELSE drv[p].state
  <1>1. drv[p] \in Driver_t /\ drv[p].state # "INVALID"
    BY LifeType, TakesCommands
  <1>2. CASE task[p].event \in Known
    BY <1>1, <1>2, ResetHolds, ResetRequests DEF Cleared
  <1>3. CASE task[p].event \notin Known
    <2>1. Len(drv[p].done) \in Nat
      BY <1>1, HoldsRequests
    <2> QED BY <1>1, <1>3, <2>1 DEF Cleared
  <1> QED BY <1>2, <1>3

\* The requests of a pipe after any of its steps.
LEMMA PlainKept ==
    ASSUME NEW p, PlainAt(p), There, Life(p) = "whole",
           NEW s, s = Requests(drv[p]), s \in Seq(Irp), NEW t, t = Requests(drv'[p]),
           t = s \/ \E req \in Irp \ {"SET_ADDR", "SET_CFG"} : t = Append(s, req),
           task'[p].at = "handle" => task'[p] = task[p], task'[p].at # "set_config" \/ task'[p] = task[p]
    PROVE  PlainAt(p)'
  <1>1. (\A k \in DOMAIN s : s[k] \notin {"SET_ADDR", "SET_CFG"}) => \A k \in DOMAIN t : t[k] \notin {"SET_ADDR", "SET_CFG"}
    <2>1. ASSUME NEW req \in Irp \ {"SET_ADDR", "SET_CFG"}, t = Append(s, req), NEW k \in DOMAIN t,
                 \A j \in DOMAIN s : s[j] \notin {"SET_ADDR", "SET_CFG"}
          PROVE  t[k] \notin {"SET_ADDR", "SET_CFG"}
      BY ONLY <2>1, s \in Seq(Irp)
    <2> QED BY <2>1
  <1> QED BY <1>1 DEF PlainAt

\* The data that the application asks for are data.
LEMMA PlainStep ==
    ASSUME TypeOK, Cdc, There, NEW p \in {"in", "out"}, PlainAt(p), DataStep(p),
           Payload \intersect {"SET_ADDR", "SET_CFG"} = {}
    PROVE  PlainAt(p)'
  <1> DEFINE s == Requests(drv[p])
             t == Requests(drv'[p])
  <1>1. p \in Pipe /\ drv[p] \in Driver_t /\ Payload \subseteq Irp /\ s \in Seq(Irp)
    <2>1. p \in Pipe /\ drv[p] \in Driver_t /\ Payload \subseteq Irp
      BY CdcPipesKnown, CdcAssumption, LifeType DEF CdcPipes
    <2> QED BY <2>1, RequestsType
  <1>2. CASE Life(p)' # "whole"
    BY <1>2 DEF PlainAt
  <1>3. CASE Fresh(p) /\ Life(p)' = "whole"
    <2>1. drv'[p] = [NoPipeYet EXCEPT !.alloc = TRUE] /\ task'[p] = TaskIn("blocked")
      BY <1>3 DEF Fresh, Unused
    <2>2. t = << >> /\ task'[p].at = "blocked"
      BY <2>1, NoRequests DEF TaskIn
    <2> QED BY <2>2 DEF PlainAt
  <1>4. CASE Still(p)
    BY <1>4 DEF Still, PlainAt, There
  <1>5. CASE Works(p)
    <2>1. Life(p) = "whole" /\ Life(p)' = "whole"
      BY <1>5 DEF Works
    <2>2. ASSUME t = s \/ \E req \in Irp \ {"SET_ADDR", "SET_CFG"} : t = Append(s, req),
                 task'[p].at = "handle" => task'[p] = task[p], task'[p].at # "set_config" \/ task'[p] = task[p]
          PROVE  PlainAt(p)'
      <3> DEFINE a == s
                 b == t
      <3>1. a = Requests(drv[p]) /\ b = Requests(drv'[p]) /\ a \in Seq(Irp)
            /\ (b = a \/ \E req \in Irp \ {"SET_ADDR", "SET_CFG"} : b = Append(a, req))
        BY <1>1, <2>2
      <3> HIDE DEF a, b
      <3> QED BY <2>1, <2>2, <3>1, PlainKept
    <2> HIDE DEF t
    <2>3. CASE Skips(p)
      BY <2>2, <2>3 DEF Skips, t
    <2>4. CASE Takes(p)
      <3> DEFINE f == drv[p].done
                 u == task'[p]
      <3>1. t = Tail(s) /\ 1 \in DOMAIN s /\ s[1] = Head(f).irp
        BY <1>1, <2>4, DequeuesFirst DEF Takes, t
      <3>2. u.irp = Head(f) /\ u.at = "handle"
        BY <2>4 DEF Takes
      <3>3. \A k \in DOMAIN s : s[k] \notin {"SET_ADDR", "SET_CFG"}
        BY <2>1 DEF PlainAt
      <3>4. \A k \in DOMAIN t : t[k] \notin {"SET_ADDR", "SET_CFG"}
        <4> DEFINE z == s
        <4>1. z \in Seq(Irp) /\ t = Tail(z) /\ 1 \in DOMAIN z /\ \A k \in DOMAIN z : z[k] \notin {"SET_ADDR", "SET_CFG"}
          BY <1>1, <3>1, <3>3
        <4> HIDE DEF z
        <4>2. ASSUME NEW k \in DOMAIN t PROVE k + 1 \in DOMAIN z /\ t[k] = z[k + 1]
          BY ONLY <4>1, <4>2
        <4> QED BY <4>1, <4>2
      <3> QED BY <3>1, <3>2, <3>3, <3>4 DEF PlainAt, t
    <2>5. CASE HandsOn(p)
      BY <1>1, <2>2, <2>5, ClearedHolds DEF HandsOn, t
    <2>6. CASE CallsBack(p) \/ Asks(p)
      <3>1. \A d \in Driver_t : \A data \in Payload : Requests(Enqueue(d, data)) = Append(Requests(d), data)
        BY <1>1, EnqueueRequests
      <3>2. Cleared(p) \in Driver_t /\ Requests(Cleared(p)) = s
        BY <1>1, ClearedHolds
      <3>3. t = s \/ \E data \in Payload : t = Append(s, data)
        <4>1. drv'[p] = Cleared(p) \/ (\E data \in Payload : drv'[p] = Enqueue(Cleared(p), data))
                \/ \E data \in Payload : drv'[p] = Enqueue(drv[p], data)
          BY <2>6 DEF CallsBack, Asks
        <4> QED BY <1>1, <3>1, <3>2, <4>1 DEF t
      <3>4. (task'[p].at # "handle" /\ task'[p].at # "set_config") \/ task'[p] = task[p]
        BY <2>6 DEF CallsBack, Asks
      <3> HIDE DEF s
      <3> QED BY <1>1, <2>2, <3>3, <3>4
    <2>7. CASE Frees(p)
      BY <2>2, <2>7 DEF Frees, t
    <2>8. CASE Ends(p)
      <3>1. drv[p].moving # << >> /\ task'[p] = task[p]
        BY <2>8 DEF Ends
      <3>2. CASE drv'[p] = Filled(Oldest(drv[p], "COMPLETED"))
        <4> DEFINE o == Oldest(drv[p], "COMPLETED")
        <4>1. o \in Driver_t /\ Requests(o) = s
          BY <1>1, <3>1, StatusesKnown, OldestRequests
        <4> HIDE DEF o
        <4>2. t = s
          BY <3>2, <4>1, FilledRequests DEF o, t
        <4> QED BY <2>2, <3>1, <4>2
      <3>3. CASE drv'[p] = [Oldest(drv[p], "STALL") EXCEPT !.state = "HALTED"]
        <4>1. "STALL" \in Error
          BY DEF Error
        <4>2. t = s
          BY <1>1, <3>1, <3>3, <4>1, StatusesKnown, OldestRequests DEF t
        <4> QED BY <2>2, <3>1, <4>2
      <3> QED BY <2>8, <3>2, <3>3 DEF Ends
    <2> QED BY <1>5, <2>3, <2>4, <2>5, <2>6, <2>7, <2>8 DEF Works
  <1> QED BY <1>2, <1>3, <1>4, <1>5 DEF DataStep

\* A transfer that ends: the pipe's task is told of one IRP more.
LEMMA EndsHolds ==
    ASSUME TypeOK, NEW p \in Pipe, Ends(p)
    PROVE  /\ Holds(drv'[p]) = Holds(drv[p]) /\ Done(p)' = Done(p) + 1 /\ Done(p) < Holds(drv[p])
           /\ \E event \in Event : Tells(p, event) /\ Matches(p, event)'
  <1>1. drv[p] \in Driver_t /\ drv[p].moving # << >> /\ drv[p].state = "ACTIVE"
    BY LifeType DEF Ends
  <1>2. CASE drv'[p] = Filled(Oldest(drv[p], "COMPLETED")) /\ Tells(p, "IRP_DONE")
    <2> DEFINE e == drv'[p]
    <2>1. Holds(e) = Holds(drv[p]) /\ Len(e.done) = Len(drv[p].done) + 1 /\ Len(drv[p].done) < Holds(drv[p]) /\ e.state = "ACTIVE"
      <3> HIDE DEF e
      <3>1. e = Filled(Oldest(drv[p], "COMPLETED"))
        BY <1>2 DEF e
      <3> QED BY <1>1, <3>1, StatusesKnown, OldestHolds
    <2>2. Matches(p, "IRP_DONE")' /\ "IRP_DONE" \in Event
      BY <2>1 DEF Matches, Event
    <2> QED BY <1>2, <2>1, <2>2 DEF Done
  <1>3. CASE drv'[p] = [Oldest(drv[p], "STALL") EXCEPT !.state = "HALTED"] /\ Tells(p, "ERROR_STALL")
    <2>1. "STALL" \in IrpStatus
      BY StatusesKnown DEF Error
    <2>2. drv'[p].state = "HALTED"
      <3>1. Oldest(drv[p], "STALL") \in Driver_t
        BY <1>1, <2>1, OldestRequests
      <3> QED BY <1>3, <3>1 DEF Driver_t
    <2>3. Holds(drv'[p]) = Holds(drv[p]) /\ Len(drv'[p].done) = Len(drv[p].done) + 1 /\ Len(drv[p].done) < Holds(drv[p])
      <3> DEFINE d == drv[p]
                 e == drv'[p]
      <3>1. d \in Driver_t /\ d.moving # << >> /\ e = [Oldest(d, "STALL") EXCEPT !.state = "HALTED"]
        BY <1>1, <1>3
      <3> HIDE DEF d, e
      <3>2. Holds(e) = Holds(d) /\ Len(e.done) = Len(d.done) + 1 /\ Len(d.done) < Holds(d)
        BY <2>1, <3>1, OldestHolds
      <3> QED BY <3>2 DEF d, e
    <2>4. Matches(p, "ERROR_STALL")' /\ "ERROR_STALL" \in Event
      BY <2>2 DEF Matches, Event, ErrorEvent, Known
    <2> QED BY <1>3, <2>3, <2>4 DEF Done
  <1> QED BY <1>2, <1>3 DEF Ends

\* A new message comes last.
LEMMA OneTold ==
    ASSUME NEW event, Len(<< >>) < QueueLen
    PROVE  Append(<< >>, event) = <<event>> /\ Len(<<event>>) = 1 /\ <<event>>[1] = event
  OBVIOUS

\* An unused pipe holds nothing.
LEMMA UnusedHolds ==
    ASSUME NEW p, Life(p) = "whole", Unused(p)
    PROVE  /\ Holds(drv[p]) = 0 /\ Done(p) = 0 /\ drv[p].state = "ACTIVE" /\ drv[p].moving = << >>
           /\ evtq[p] = << >> /\ task[p].at = "blocked"
  <1>1. drv[p] = [NoPipeYet EXCEPT !.alloc = TRUE] /\ evtq[p] = << >> /\ task[p] = TaskIn("blocked")
    BY DEF Unused
  <1>2. drv[p].moving = << >> /\ drv[p].pending = << >> /\ drv[p].done = << >> /\ drv[p].state = "ACTIVE"
    BY <1>1 DEF NoPipeYet
  <1>3. Len(drv[p].moving) = 0 /\ Len(drv[p].pending) = 0 /\ Len(drv[p].done) = 0
    BY <1>2
  <1>4. task[p].at = "blocked"
    BY <1>1 DEF TaskIn
  <1>5. Holds(drv[p]) = 0 + 0 + 0 /\ Done(p) = 0
    BY <1>3 DEF Holds, Done
  <1>6. Holds(drv[p]) = 0
    BY ONLY <1>5
  <1> QED BY <1>1, <1>2, <1>4, <1>5, <1>6

\* The application knows only of a device whose pipes are there.
LEMMA ReadyIsWhole ==
    ASSUME TypeOK, Cdc, There, ready
    PROVE  Life("in") = "whole" /\ Life("out") = "whole"
  <1>1. CdcPipes /\ PortVisit /\ ObjectsVisit /\ Begun /\ Beginning
    BY CdcPipesKnown DEF Cdc, Visit
  <1>2. Life("out") = "whole"
    BY <1>1 DEF Begun, PortVisit, Connecting, Coming, Leaving, Gone, There
  <1>3. Life("in") \in {"raw", "whole"}
    <2>1. Life("in") \in {"none", "raw", "whole"}
      BY <1>1, LifeType DEF CdcPipes
    <2> QED BY <1>1, <1>2, <2>1 DEF ObjectsVisit, Nested, CdcPipes
  <1>4. Life("in") # "raw"
    BY <1>1 DEF Beginning
  <1> QED BY <1>2, <1>3, <1>4

\* The chain of requests goes on.
LEMMA ChainStep ==
    ASSUME TypeOK, Cdc, There, OneRequest, DataStep("in")
    PROVE  OneRequest'
  <1> DEFINE d == drv["in"]
             e == drv'["in"]
  <1>1. "in" \in Pipe /\ d \in Driver_t /\ evtq["in"] \in Seq(Event) /\ Payload \subseteq Irp /\ QueueLen \in Nat \ {0}
    BY CdcPipesKnown, CdcAssumption, HostPipeAssumption, LifeType DEF CdcPipes, TypeOK
  <1>2. Holds(d) \in Nat /\ Done("in") \in Nat /\ Done("in") <= Holds(d)
    BY <1>1, HoldsRequests DEF Done
  <1>3. CASE Life("in")' # "whole"
    BY <1>3 DEF OneRequest
  <1>4. CASE ready' # ready
    <2>1. Life("in") = "whole" /\ Asks("in") /\ Unused("in") /\ ready'
      BY <1>4 DEF DataStep, Works, Asks
    <2>2. PICK data \in Payload : e = Enqueue(d, data)
      BY <2>1 DEF Asks
    <2>3. Holds(e) = 1 /\ Done("in")' = 0 /\ e.state = "ACTIVE" /\ evtq'["in"] = << >> /\ task'["in"].at = "blocked"
      <3>1. Holds(d) = 0 /\ Done("in") = 0 /\ d.state = "ACTIVE" /\ evtq["in"] = << >> /\ task["in"].at = "blocked"
        BY <2>1, UnusedHolds
      <3>2. Holds(e) = Holds(d) + 1 /\ Len(e.done) = Len(d.done) /\ e.state = d.state
        BY <1>1, <2>2, EnqueueHolds
      <3> QED BY <2>1, <3>1, <3>2 DEF Asks, Done
    <2> QED BY <2>1, <2>3 DEF OneRequest
  <1>5. CASE ~ready /\ ready' = ready /\ Life("in")' = "whole"
    <2>1. CASE Fresh("in")
      BY <1>5, <2>1 DEF Fresh, OneRequest
    <2>2. CASE Still("in") /\ ~Fresh("in")
      BY <1>5, <2>2 DEF Still, OneRequest, Unused, Life
    <2>3. CASE Works("in")
      <3>1. Life("in") = "whole" /\ evtq["in"] = << >> /\ task["in"].at = "blocked" /\ d.moving = << >>
        BY <1>5, <2>3, UnusedHolds DEF Works, OneRequest
      <3> QED BY <1>5, <2>3, <3>1 DEF Works, Skips, Takes, HandsOn, CallsBack, Frees, Ends, Asks
    <2> QED BY <1>5, <2>1, <2>2, <2>3 DEF DataStep
  <1>6. CASE ready /\ ready' = ready /\ Life("in")' = "whole"
    <2>1. Life("in") = "whole"
      BY <1>6, ReadyIsWhole
    <2> DEFINE One == Holds(d) = 1 /\ Done("in") = 0 /\ d.state = "ACTIVE" /\ evtq["in"] = << >> /\ task["in"].at \in {"blocked", "free"}
               Two == Holds(d) = 1 /\ Done("in") = 1
                      /\ Len(evtq["in"]) = 1 /\ Matches("in", evtq["in"][1]) /\ task["in"].at \in {"blocked", "free"}
               Three == Holds(d) = 0 /\ evtq["in"] = << >> /\ task["in"].at = "handle" /\ Matches("in", task["in"].event)
               Four == Holds(d) = 0 /\ evtq["in"] = << >> /\ task["in"].at = "class" /\ d.state = "ACTIVE"
    <2>2. One \/ Two \/ Three \/ Four
      BY <1>6, <2>1 DEF OneRequest
    <2>3. ASSUME One' \/ Two' \/ Three' \/ Four' PROVE OneRequest'
      BY <1>6, <2>3 DEF OneRequest
    <2>4. CASE Still("in")
      BY <1>6, <2>1, <2>4 DEF Still, OneRequest, Matches, Done
    <2>5. CASE Works("in")
      <3>1. ~Skips("in")
        <4>1. CASE Skips("in") /\ Two
          BY <1>1, <4>1, HoldsRequests DEF Skips, Done
        <4> QED BY <2>2, <4>1 DEF Skips
      <3>2. CASE Takes("in")
        <4>1. Two
          BY <2>2, <3>2 DEF Takes
        <4>2. Holds(e) = 0 /\ e.state = d.state
          <5>1. Holds(e) = Holds(d) - 1 /\ e.state = d.state
            BY <1>1, <3>2, DequeueHolds DEF Takes
          <5> QED BY <4>1, <5>1
        <4>3. evtq'["in"] = << >> /\ Head(evtq["in"]) = evtq["in"][1]
          <5> DEFINE q == evtq["in"]
          <5>1. q \in Seq(Event) /\ Len(q) = 1 /\ evtq'["in"] = Tail(q)
            BY <1>1, <3>2, <4>1 DEF Takes
          <5> HIDE DEF q
          <5>2. Tail(q) = << >> /\ Head(q) = q[1]
            <6>1. q = <<q[1]>>
              BY <5>1
            <6> QED BY ONLY <6>1, OneMessage
          <5> QED BY <5>1, <5>2 DEF q
        <4>4. task'["in"].at = "handle" /\ task'["in"].event = evtq["in"][1]
          <5>1. task'["in"] = [at |-> "handle", event |-> Head(evtq["in"]), irp |-> Head(drv["in"].done)]
            BY <3>2 DEF Takes
          <5> QED BY <4>3, <5>1
        <4>5. Matches("in", task["in"].event)'
          BY <4>1, <4>2, <4>4 DEF Matches
        <4>6. Three'
          BY <4>2, <4>3, <4>4, <4>5
        <4> QED BY <2>3, <4>6
      <3>3. CASE HandsOn("in")
        <4>1. Three /\ e = Cleared("in") /\ evtq'["in"] = << >> /\ task'["in"].at = "class"
          BY <2>2, <3>3 DEF HandsOn
        <4>2. Holds(e) = 0 /\ e.state = "ACTIVE"
          BY <1>1, <4>1, ClearedHolds DEF Matches, Known
        <4> QED BY <2>3, <4>1, <4>2
      <3>4. CASE CallsBack("in")
        <4>1. Four /\ evtq'["in"] = << >> /\ task'["in"].at = "free"
          BY <2>2, <3>4 DEF CallsBack
        <4>2. Cleared("in").state = "ACTIVE" /\ Holds(Cleared("in")) = 0 /\ Cleared("in") \in Driver_t
          BY <1>1, <4>1, ClearedHolds
        <4>3. PICK data \in Payload : e = Enqueue(Cleared("in"), data)
          BY <3>4, <4>2 DEF CallsBack
        <4>4. Holds(e) = 1 /\ Done("in")' = 0 /\ e.state = "ACTIVE"
          <5> DEFINE c == Cleared("in")
          <5>1. c \in Driver_t /\ c.state = "ACTIVE" /\ Holds(c) = 0 /\ e = Enqueue(c, data) /\ data \in Irp
            BY <1>1, <4>2, <4>3
          <5> HIDE DEF c
          <5>2. Len(c.done) \in Nat /\ Len(c.done) <= Holds(c)
            BY <5>1, HoldsRequests
          <5>3. Holds(e) = Holds(c) + 1 /\ Len(e.done) = Len(c.done) /\ e.state = c.state
            BY <5>1, EnqueueHolds
          <5> QED BY <5>1, <5>2, <5>3 DEF Done
        <4> QED BY <2>3, <4>1, <4>4
      <3>5. CASE Frees("in")
        <4>1. (One \/ Two) /\ e = d /\ evtq'["in"] = evtq["in"] /\ task'["in"].at = "blocked"
          BY <2>2, <3>5 DEF Frees
        <4>2. One' \/ Two'
          BY <4>1 DEF Matches, Done
        <4> QED BY <2>3, <4>2
      <3>6. CASE Ends("in")
        <4>1. /\ Holds(e) = Holds(d) /\ Done("in")' = Done("in") + 1 /\ Done("in") < Holds(d)
              /\ \E event \in Event : Tells("in", event) /\ Matches("in", event)'
          BY <1>1, <3>6, EndsHolds
        <4>2. One /\ task'["in"] = task["in"]
          BY <1>2, <2>2, <3>6, <4>1 DEF Ends
        <4>3. PICK event \in Event : Tells("in", event) /\ Matches("in", event)'
          BY <4>1
        <4>4. evtq'["in"] = <<event>> /\ Len(evtq'["in"]) = 1 /\ evtq'["in"][1] = event
          BY <1>1, <4>2, <4>3, OneTold DEF Tells
        <4>6. Two'
          BY <4>1, <4>2, <4>3, <4>4
        <4> QED BY <2>3, <4>6
      <3>7. ~Asks("in")
        BY <1>6 DEF Asks
      <3> QED BY <2>5, <3>1, <3>2, <3>3, <3>4, <3>5, <3>6, <3>7 DEF Works
    <2>6. ~Fresh("in")
      BY <2>1 DEF Fresh
    <2> QED BY <1>6, <2>4, <2>5, <2>6 DEF DataStep
  <1> QED BY <1>3, <1>4, <1>5, <1>6

\* What waits is in the hands of the task, or moves up.
LEMMA MovesUp ==
    ASSUME NEW S, NEW q \in Seq(S), q # << >>, NEW k \in DOMAIN q
    PROVE  /\ Len(Tail(q)) = Len(q) - 1 /\ Len(q) \in Nat /\ Len(q) > 0
           /\ q[k] = Head(q) \/ \E j \in DOMAIN Tail(q) : Tail(q)[j] = q[k]
  <1>1. Len(Tail(q)) = Len(q) - 1 /\ Len(q) \in Nat /\ Len(q) > 0 /\ Head(q) = q[1] /\ DOMAIN q = 1 .. Len(q)
    OBVIOUS
  <1>2. CASE k # 1
    <2>1. k - 1 \in 1 .. Len(Tail(q)) /\ k - 1 \in DOMAIN Tail(q) /\ Tail(q)[k - 1] = q[k]
      BY <1>1, <1>2
    <2> QED BY <1>1, <2>1
  <1> QED BY <1>1, <1>2

\* A message that is appended waits after the others.
LEMMA WaitsLast ==
    ASSUME NEW S, NEW q \in Seq(S), NEW event \in S
    PROVE  LET a == Append(q, event) IN
           /\ Len(a) = Len(q) + 1 /\ Len(q) \in Nat /\ \E j \in DOMAIN a : a[j] = event
           /\ \A k \in DOMAIN q : k \in DOMAIN a /\ a[k] = q[k]
  <1>1. Append(q, event)[Len(q) + 1] = event /\ Len(q) + 1 \in DOMAIN Append(q, event)
    OBVIOUS
  <1> QED BY <1>1

\* The OUT pipe's messages are not dropped.
LEMMA OutStep ==
    ASSUME TypeOK, Cdc, Cdc', There, OutMessages, DataStep("out"), MaxOut \in 0 .. QueueLen
    PROVE  OutMessages'
  <1> DEFINE d == drv["out"]
             e == drv'["out"]
             q == evtq["out"]
             r == evtq'["out"]
             Warned == Waiting("out") # {} \/ (task["out"].at = "handle" /\ task["out"].event \in Known)
  <1>1. "out" \in Pipe /\ d \in Driver_t /\ q \in Seq(Event) /\ Payload \subseteq Irp /\ QueueLen \in Nat \ {0}
    BY CdcPipesKnown, CdcAssumption, HostPipeAssumption, LifeType DEF CdcPipes, TypeOK
  <1>2. Holds(d) \in Nat /\ Done("out") \in Nat /\ Done("out") <= Holds(d) /\ Len(q) \in Nat /\ MaxOut \in Nat /\ MaxOut <= QueueLen
    <2>1. Len(q) \in Nat
      BY <1>1
    <2> QED BY <1>1, <2>1, HoldsRequests DEF Done
  <1>3. CASE Life("out")' # "whole"
    BY <1>3 DEF OutMessages
  <1>4. CASE Life("out")' = "whole" /\ Fresh("out")
    <2>1. app' # "sending"
      <3>1. CASE app' = "sending"
        <4>1. app = "sending" \/ Still("out")
          BY <3>1 DEF DataStep
        <4>2. app = "sending"
          BY <1>4, <4>1 DEF Fresh, Still
        <4>3. ready
          BY <4>2 DEF Cdc, Begun
        <4> QED BY <1>4, <4>3, ReadyIsWhole DEF Fresh
      <3> QED BY <3>1
    <2>2. e = [NoPipeYet EXCEPT !.alloc = TRUE] /\ r = << >>
      BY <1>4 DEF Fresh, Unused
    <2>3. e.moving = << >> /\ e.pending = << >> /\ e.done = << >> /\ e.state = "ACTIVE"
      BY <2>2 DEF NoPipeYet
    <2>4. Holds(e) = 0 + 0 + 0 /\ Len(e.done) = 0 /\ Len(r) = 0
      BY <2>2, <2>3 DEF Holds
    <2>5. Holds(e) = 0
      BY ONLY <2>4
    <2> QED BY <1>2, <2>1, <2>3, <2>4, <2>5 DEF OutMessages, Done
  <1>5. CASE Life("out") = "whole" /\ Life("out")' = "whole" /\ Still("out")
    <2>1. Waiting("out")' = Waiting("out") /\ Done("out")' = Done("out") /\ e = d /\ r = q /\ task'["out"] = task["out"]
      BY <1>5 DEF Still, Waiting, Done
    <2>2. app' = "sending" => Holds(d) < MaxOut
      BY <1>5 DEF DataStep, OutMessages
    <2> QED BY <1>5, <2>1, <2>2 DEF OutMessages
  <1>6. CASE Works("out") /\ ~Still("out")
    <2>1. /\ Life("out") = "whole" /\ Life("out")' = "whole"
          /\ Holds(d) <= MaxOut /\ Len(q) <= Done("out") /\ (d.state = "HALTED" => Warned)
          /\ (app = "sending" => Holds(d) < MaxOut) /\ (app' = "sending" => app = "sending")
      BY <1>6 DEF Works, OutMessages, DataStep
    <2>2. ASSUME Holds(e) \in Nat, Holds(e) <= Holds(d), Len(r) <= Done("out")', e.state = "HALTED" => Warned'
          PROVE  OutMessages'
      <3>1. Holds(e) <= MaxOut /\ (app' = "sending" => Holds(e) < MaxOut)
        BY <1>2, <2>1, <2>2
      <3> QED BY <2>2, <3>1 DEF OutMessages
    <2>3. ~Skips("out")
      <3>1. ASSUME Skips("out") PROVE FALSE
        <4>1. q # << >> /\ Len(d.done) = 0
          BY <3>1 DEF Skips
        <4>2. Len(q) > 0
          BY <1>1, <4>1
        <4> QED BY <2>1, <4>1, <4>2 DEF Done
      <3> QED BY <3>1
    <2>4. CASE Takes("out")
      <3>1. Holds(e) = Holds(d) - 1 /\ Done("out")' = Done("out") - 1 /\ e.state = d.state /\ e \in Driver_t
        BY <1>1, <2>4, DequeueHolds DEF Takes, Done
      <3>2. q # << >> /\ r = Tail(q) /\ task["out"].at = "blocked"
            /\ task'["out"] = [at |-> "handle", event |-> Head(q), irp |-> Head(d.done)]
        BY <2>4 DEF Takes
      <3>3. Len(r) = Len(q) - 1
        BY <1>1, <3>2
      <3>4. ASSUME Warned PROVE Warned'
        <4>1. PICK k \in DOMAIN q : q[k] \in Known
          BY <3>2, <3>4 DEF Waiting
        <4>2. q[k] = Head(q) \/ \E j \in DOMAIN r : r[j] = q[k]
          <5> HIDE DEF q, r
          <5> QED BY <1>1, <3>2, MovesUp
        <4>3. task'["out"].at = "handle" /\ task'["out"].event = Head(q)
          BY <3>2
        <4> QED BY <4>1, <4>2, <4>3 DEF Waiting
      <3>5. Holds(e) \in Nat
        BY <3>1, HoldsRequests
      <3> QED BY <1>2, <2>1, <2>2, <3>1, <3>3, <3>4, <3>5
    <2>5. CASE HandsOn("out") \/ CallsBack("out")
      <3>1. e = Cleared("out") /\ r = q
        BY <2>5 DEF HandsOn, CallsBack
      <3>2. Holds(e) = Holds(d) /\ Len(d.done) <= Len(e.done) /\ e \in Driver_t
            /\ e.state = IF task["out"].event \in Known THEN "ACTIVE" ELSE d.state
        BY <1>1, <3>1, ClearedHolds
      <3>3. ASSUME e.state = "HALTED" PROVE Warned'
        <4>1. d.state = "HALTED" /\ task["out"].event \notin Known
          BY <3>2, <3>3
        <4> QED BY <2>1, <3>1, <4>1 DEF Waiting
      <3>4. Len(e.done) \in Nat /\ Len(r) <= Len(e.done)
        BY <1>2, <2>1, <3>1, <3>2, HoldsRequests DEF Done
      <3> QED BY <1>2, <2>2, <3>2, <3>3, <3>4 DEF Done
    <2>6. CASE Frees("out")
      <3>1. e = d /\ r = q /\ task["out"].at = "free"
        BY <2>6 DEF Frees
      <3>2. d.state = "HALTED" => Warned'
        BY <2>1, <3>1 DEF Waiting
      <3> QED BY <1>2, <2>1, <2>2, <3>1, <3>2 DEF Done
    <2>7. CASE Ends("out")
      <3>1. /\ Holds(e) = Holds(d) /\ Done("out")' = Done("out") + 1 /\ Done("out") < Holds(d)
            /\ \E event \in Event : Tells("out", event) /\ Matches("out", event)'
        BY <1>1, <2>7, EndsHolds
      <3>2. PICK event \in Event : Tells("out", event) /\ Matches("out", event)'
        BY <3>1
      <3>3. Len(q) < QueueLen
        BY <1>1, <1>2, <2>1, <3>1
      <3>4. r = Append(q, event)
        BY <3>2, <3>3 DEF Tells
      <3>5. Len(r) = Len(q) + 1 /\ \E j \in DOMAIN r : r[j] = event
        <4> HIDE DEF q, r
        <4> QED BY <1>1, <3>4, WaitsLast
      <3>6. e.state = "HALTED" => Warned'
        BY <3>2, <3>5 DEF Matches, Waiting
      <3> QED BY <1>2, <2>1, <2>2, <3>1, <3>5, <3>6
    <2>8. CASE Asks("out")
      <3>1. app = "sending" /\ app' = "loop" /\ r = q /\ task'["out"] = task["out"]
        BY <2>8 DEF Asks
      <3>2. PICK data \in Payload : e = Enqueue(d, data)
        BY <2>8 DEF Asks
      <3>3. Holds(e) = Holds(d) + 1 /\ Done("out")' = Done("out") /\ e.state = d.state
        BY <1>1, <3>2, EnqueueHolds DEF Done
      <3>4. Warned => Warned'
        BY <3>1 DEF Waiting
      <3>5. Holds(e) <= MaxOut /\ Len(r) <= Done("out")'
        BY <1>2, <2>1, <3>1, <3>3
      <3> QED BY <2>1, <3>1, <3>3, <3>4, <3>5 DEF OutMessages
    <2> QED BY <1>6, <2>3, <2>4, <2>5, <2>6, <2>7, <2>8 DEF Works
  <1>7. Life("out") = "whole" \/ Fresh("out") \/ Life("out")' # "whole" \/ Still("out")
    BY DEF DataStep, Works
  <1>8. CASE Life("out") # "whole" /\ Life("out")' = "whole" /\ ~Fresh("out")
    BY <1>7, <1>8 DEF Still
  <1> QED BY <1>3, <1>4, <1>5, <1>6, <1>8 DEF DataStep, Works

-----------------------------------------------------------------------------
(* The session                                                             *)

\* A device that has just answered the reset has no pipes.
LEMMA NoPipesYet ==
    ASSUME TypeOK, PortInv, Cdc, SessionNext, There', ~There
    PROVE  \A p \in Pipe : Life(p)' = "none"
  <1>1. ThereStep
    BY SessionThere
  <1>2. vport' # vport
    BY DEF There
  <1>3. CASE Enable
    BY <1>3, NotThereBefore
  <1>4. ~Unplug
    <2>1. ASSUME Unplug, vport' # vport, There' PROVE FALSE
      <3>1. vport.conn_devc_ena => vport'.state = "RECOVERY"
        BY <2>1, TypeParts DEF Unplug, PortInterrupt, Disconnected, RaiseEvent, ViewType
      <3>2. ~vport.conn_devc_ena => vport'.state = vport.state
        BY <2>1, TypeParts DEF Unplug, PortInterrupt, Disconnected, RaiseEvent, ViewType
      <3> QED BY <2>1, <3>1, <3>2 DEF There
    <2> QED BY <1>2, <2>1
  <1>5. ~(ActNothing \/ addCTRLpipe \/ addCTRLpipeEnd \/ PortCbDeviceDesc \/ PortCbSetAddr)
    BY <1>2 DEF ActNothing, addCTRLpipe, addCTRLpipeEnd, PortCbDeviceDesc, PortCbSetAddr, viewVars
  <1>6. ~(\E p \in Pipe : PipeTask(p)) /\ ~PipeCb /\ ~Transfer
    BY <1>2 DEF PipeTask, PipeCb, Transfer
  <1>7. ~App
    BY <1>2 DEF App, sendData, sendDataEnd, setLineCoding, getSerialString, CtrlRequest, viewVars
  <1> QED BY <1>1, <1>2, <1>3, <1>4, <1>5, <1>6, <1>7 DEF ThereStep

\* While the device is there, the data are data, and the chain goes on.
LEMMA ChainFlowsStep ==
    ASSUME TypeOK, PortInv, Cdc, Cdc', Addresses, ChainFlows, SessionNext, Payload \intersect {"SET_ADDR", "SET_CFG"} = {}
    PROVE  ChainFlows'
  <1>0. CdcPipes /\ {"in", "out"} \subseteq DataPipe
    BY CdcPipesKnown DEF CdcPipes, DataPipe
  <1>1. CASE ~There'
    BY <1>1 DEF ChainFlows, Plain, PlainAt, OneRequest
  <1>2. CASE There' /\ ~There
    <2>1. \A p \in Pipe : Life(p)' = "none"
      BY <1>2, NoPipesYet
    <2> QED BY <1>0, <2>1 DEF ChainFlows, Plain, PlainAt, OneRequest, CdcPipes, DataPipe
  <1>3. CASE There' /\ There
    <2>1. DataStep("in") /\ DataStep("out")
      BY <1>3, SessionDataStep DEF Addresses, ChainFlows
    <2>2. PlainAt("in")' /\ PlainAt("out")'
      BY <1>0, <1>3, <2>1, PlainStep DEF ChainFlows, Plain
    <2>3. OneRequest'
      BY <1>3, <2>1, ChainStep DEF ChainFlows
    <2>4. \A p \in DataPipe \ {"in", "out"} : PlainAt(p)'
      BY DEF Cdc, Begun, PlainAt
    <2> QED BY <2>2, <2>3, <2>4 DEF ChainFlows, Plain, DataPipe
  <1> QED BY <1>1, <1>2, <1>3

\* The same with the OUT pipe.
LEMMA FlowStep ==
    ASSUME TypeOK, PortInv, Cdc, Cdc', Addresses, Flow, SessionNext, Payload \intersect {"SET_ADDR", "SET_CFG"} = {},
           MaxOut \in 0 .. QueueLen
    PROVE  Flow'
  <1>1. ChainFlows'
    BY ChainFlowsStep DEF ChainFlows, Flow
  <1>2. CASE ~There'
    BY <1>1, <1>2 DEF Flow, ChainFlows, OutMessages
  <1>3. CASE There' /\ ~There
    <2>1. Life("out")' = "none"
      BY <1>3, NoPipesYet, CdcPipesKnown DEF CdcPipes
    <2> QED BY <1>1, <2>1 DEF Flow, ChainFlows, OutMessages
  <1>4. CASE There' /\ There
    <2>1. DataStep("out")
      BY <1>4, SessionDataStep DEF Addresses, Flow, ChainFlows
    <2> QED BY <1>1, <1>4, <2>1, OutStep DEF Flow, ChainFlows
  <1> QED BY <1>2, <1>3, <1>4

\* The chain is not there in the beginning.
LEMMA FlowInit == Init => Flow
  <1> SUFFICES ASSUME Init PROVE Flow
    OBVIOUS
  <1>1. ~There
    BY DEF Init, There, ViewInit
  <1> QED BY <1>1 DEF Flow, ChainFlows, Plain, PlainAt, OneRequest, OutMessages

\* Nothing of it changes without a step.
LEMMA FlowStutters ==
    ASSUME UNCHANGED vars
    PROVE  (ChainFlows => ChainFlows') /\ (Flow => Flow')
  <1>1. There' = There /\ ready' = ready /\ app' = app /\ drv' = drv /\ evtq' = evtq /\ task' = task /\ obj' = obj
    BY DEF vars, viewVars, hostPipeVars, portVars, There
  <1>2. (Plain => Plain')
    BY <1>1 DEF Plain, PlainAt, Life, Requests
  <1>3. OneRequest => OneRequest'
    BY <1>1 DEF OneRequest, Life, Done, Matches, Unused
  <1>4. OutMessages => OutMessages'
    BY <1>1 DEF OutMessages, Life, Done, Waiting
  <1> QED BY <1>2, <1>3, <1>4 DEF ChainFlows, Flow

\* The request is under way, its answer coming or in hand.
LEMMA ChainIsAlive == PortInv /\ CdcVisiting /\ ChainFlows => ChainAlive
  <1> SUFFICES ASSUME PortInv, CdcVisiting, ChainFlows, ready, There PROVE ChainAlive
    BY DEF ChainAlive, There
  <1> DEFINE d == drv["in"]
  <1>1. TypeOK /\ Cdc /\ "in" \in Pipe
    BY CdcPipesKnown DEF CdcVisiting, Cdc, PortInv, CdcPipes
  <1>2. Life("in") = "whole" /\ d \in Driver_t
    BY <1>1, ReadyIsWhole, LifeType
  <1>3. \/ Holds(d) = 1 /\ Done("in") = 0
        \/ Holds(d) = 1 /\ Done("in") = 1 /\ Len(evtq["in"]) = 1
        \/ task["in"].at \in {"handle", "class"}
    BY <1>2 DEF ChainFlows, OneRequest
  <1>4. CASE Holds(d) = 1 /\ Done("in") = 0
    <2>1. d.moving # << >> \/ d.pending # << >>
      BY <1>2, <1>4, HoldsRequests DEF Done
    <2> QED BY <2>1 DEF ChainAlive
  <1>5. CASE Done("in") = 1 /\ Len(evtq["in"]) = 1
    <2>1. Len(<< >>) # 1
      OBVIOUS
    <2>2. Len(d.done) = 1
      BY <1>5 DEF Done
    <2>3. d.done # << >> /\ evtq["in"] # << >>
      BY <1>5, <2>1, <2>2
    <2> QED BY <2>3 DEF ChainAlive
  <1> QED BY <1>3, <1>4, <1>5 DEF ChainAlive

-----------------------------------------------------------------------------
(* No request is given up                                                  *)

\* No step of the device's port, of a pipe's task or of a transfer gives up a request,
LEMMA TaskKeepsAll ==
    ASSUME TypeOK, Cdc, There, Plain, CtrlAnswers, NEW p \in Pipe, PipeTask(p)
    PROVE  leaked' = leaked
  <1>1. CdcPipes /\ Owned /\ TaskStep(p) /\ ObjectsVisit /\ "ctrl" \in Pipe
        /\ {"SET_CFG", "CFG_DESC"} \subseteq Irp
    BY CdcPipesKnown, HostPipeAssumption DEF Cdc, Visit, ObjectsVisit, CdcPipes, PipeTask
  <1>2. CASE Receive(p) \/ HandleSetAddr(p) \/ HandleError(p) \/ HandleOther(p) \/ FreeIrp(p)
    BY <1>2 DEF Receive, HandleSetAddr, HandleError, HandleOther, FreeIrp
  <1>3. CASE HandleSetAddrEnd(p) \/ HandleSetConfig(p)
    <2>1. Life(p) = "whole"
      <3>1. OneMoves(p)
        BY <1>1, StepMoves
      <3> QED BY <3>1 DEF OneMoves, Life
    <2>2. p = "ctrl"
      <3>1. CASE p # "ctrl"
        <4>1. PlainAt(p)
          BY <3>1 DEF Plain, DataPipe
        <4> QED BY <1>3, <2>1, <4>1 DEF PlainAt, HandleSetAddrEnd, HandleSetConfig, HandlesDone, Handles
      <3> QED BY <3>1
    <2>3. Accepts("ctrl")
      BY <1>1, <2>1, <2>2, TakesCommands DEF CtrlAnswers
    <2>4. SubmitIrp("ctrl", "SET_CFG") \/ SubmitIrp("ctrl", "CFG_DESC")
      BY <1>3, <2>2 DEF HandleSetAddrEnd, HandleSetConfig, setConfiguration, getConfigDescriptor
    <2> QED BY <1>1, <2>1, <2>2, <2>3, <2>4, SubmitFields
  <1> QED BY <1>1, <1>2, <1>3 DEF TaskStep

\* nor does a callback,
LEMMA CbKeepsAll ==
    ASSUME TypeOK, Cdc, There, CtrlAnswers, OneRequest, PipeCb
    PROVE  leaked' = leaked
  <1>1. CdcPipes /\ Owned /\ "in" \in Pipe
    BY CdcPipesKnown DEF Cdc, Visit, ObjectsVisit, CdcPipes
  <1>2. CASE CtrlCb \/ begin \/ OutCb
    BY <1>2 DEF CtrlCb, begin, Begin, BeginAlloc, OutCb
  <1>3. CASE InCb
    <2>1. task["in"].at = "class" /\ Life("in") = "whole"
      <3>1. task["in"].at = "class"
        BY <1>3 DEF InCb
      <3> QED BY <1>1, <3>1, BusyIsWhole
    <2>2. drv["in"].state = "ACTIVE"
      <3>1. CASE ~ready
        <4>1. Unused("in")
          BY <2>1, <3>1 DEF OneRequest
        <4> QED BY <2>1, <4>1, UnusedHolds
      <3>2. CASE ready
        BY <2>1, <3>2 DEF OneRequest
      <3> QED BY <3>1, <3>2
    <2>3. ClassReset("in").state = "ACTIVE"
      <3>1. Cleared("in").state = "ACTIVE" /\ ClassReset("in") = Cleared("in")
        BY <1>1, <2>2, ClearedHolds, TakesCommands
      <3> QED BY <3>1
    <2> HIDE DEF ClassReset
    <2> QED BY <1>3, <2>3 DEF InCb, There
  <1>4. CASE DeviceReady
    BY <1>4, ReadyFields
  <1> QED BY <1>2, <1>3, <1>4 DEF PipeCb

\* nor the application.
LEMMA AppKeepsAll ==
    ASSUME TypeOK, Cdc, There, CtrlAnswers, OutMessages, AppWaits, App
    PROVE  leaked' = leaked
  <1>1. CdcPipes /\ Owned /\ Begun /\ {"LINE", "STRING"} \subseteq Irp /\ Payload \subseteq Irp /\ "out" \in Pipe /\ "ctrl" \in Pipe
    BY CdcPipesKnown, CdcAssumption DEF Cdc, Visit, ObjectsVisit, CdcPipes
  <1>2. CASE sendData
    BY <1>2 DEF sendData, hostPipeVars
  <1>3. CASE sendDataEnd
    <2>1. app = "sending" /\ AppRuns /\ ready
      BY <1>1, <1>3 DEF sendDataEnd, Begun
    <2>2. Life("out") = "whole" /\ task["out"].at \in {"none", "blocked"} /\ evtq["out"] = << >>
      BY <1>1, <2>1, AppIsReady
    <2>3. Waiting("out") = {}
      <3>1. DOMAIN << >> = {}
        OBVIOUS
      <3> QED BY <2>2, <3>1 DEF Waiting
    <2>4. drv["out"].state # "HALTED"
      BY <2>2, <2>3 DEF OutMessages
    <2>5. Accepts("out")
      <3>1. drv["out"].state \in {"INVALID", "ACTIVE", "HALTED"}
        BY <1>1, LifeType DEF Driver_t
      <3> QED BY <1>1, <2>2, <2>4, <3>1, TakesCommands
    <2>6. PICK data \in Payload : SubmitIrp("out", data)
      BY <1>3 DEF sendDataEnd, outData
    <2> QED BY <1>1, <2>2, <2>5, <2>6, SubmitFields
  <1>4. ASSUME NEW req \in {"LINE", "STRING"}, CtrlRequest(req) PROVE leaked' = leaked
    <2>1. app = "loop" /\ AppRuns /\ SubmitIrp("ctrl", req)
      BY <1>4 DEF CtrlRequest
    <2>2. Life("ctrl") = "whole" /\ req \in Irp
      BY <1>1, <2>1, AppIsReady DEF AppWaits
    <2>3. Accepts("ctrl")
      BY <1>1, <2>2, TakesCommands DEF CtrlAnswers
    <2> QED BY <1>1, <2>1, <2>2, <2>3, SubmitFields
  <1> QED BY <1>2, <1>3, <1>4 DEF App, setLineCoding, getSerialString

\* No request is lost while the device is there.
LEMMA NoneGivenUp ==
    ASSUME TypeOK, PortInv, Cdc, Addresses, Flow, SessionNext, There
    PROVE  leaked' = leaked
  <1>1. ThereStep /\ CdcPipes /\ Visit /\ Owned
    BY SessionThere, CdcPipesKnown DEF Cdc, Visit, ObjectsVisit
  <1>2. CASE \/ Enable \/ Unplug \/ (ConnectReset /\ vport' = vport /\ Life("ctrl") = "none" /\ There) \/ ActNothing
             \/ addCTRLpipe \/ addCTRLpipeEnd
    BY <1>2 DEF Enable, Unplug, PortInterrupt, ConnectReset, ActNothing, hostPipeVars, addCTRLpipe, addCTRLpipeEnd
  <1>3. CASE PortCbDeviceDesc \/ PortCbSetAddr
    <2>1. "ctrl" \in Pipe /\ "in" \in DataPipe /\ {"DEV_DESC", "SET_ADDR"} \subseteq Irp
      BY <1>1, HostPipeAssumption DEF CdcPipes, DataPipe
    <2>2. CASE PortCbDeviceDesc
      BY <1>1, <2>1, <2>2, RequestSession DEF PortCbDeviceDesc, getDeviceDescriptor, PortGoto
    <2>3. CASE PortCbSetAddr
      BY <1>1, <2>1, <2>3, RequestSession DEF PortCbSetAddr, setDeviceAddress, PortGoto
    <2> QED BY <1>3, <2>2, <2>3
  <1>4. CASE \E p \in Pipe : PipeTask(p)
    BY <1>4, TaskKeepsAll DEF Addresses, Flow, ChainFlows
  <1>5. CASE PipeCb
    BY <1>5, CbKeepsAll DEF Addresses, Flow, ChainFlows
  <1>6. CASE AppWaits /\ App
    BY <1>6, AppKeepsAll DEF Addresses, Flow
  <1>7. CASE Transfer
    BY <1>7 DEF Transfer, TransferDone
  <1>8. CASE \E p \in DataPipe : TransferFailed(p, "ERROR_STALL")
    BY <1>8 DEF TransferFailed
  <1> QED BY <1>1, <1>2, <1>3, <1>4, <1>5, <1>6, <1>7, <1>8 DEF ThereStep

\* The chain stays, in every step of a session,
LEMMA ChainFlowsKeeps ==
    ASSUME Payload \intersect {"SET_ADDR", "SET_CFG"} = {}
    PROVE  PortInv /\ CdcVisiting /\ CdcVisiting' /\ Addresses /\ ChainFlows /\ [SessionNext]_vars => ChainFlows'
  <1> SUFFICES ASSUME PortInv, CdcVisiting, CdcVisiting', Addresses, ChainFlows, [SessionNext]_vars PROVE ChainFlows'
    OBVIOUS
  <1>1. TypeOK /\ Cdc /\ Cdc'
    BY DEF CdcVisiting, Cdc, PortInv
  <1> QED BY <1>1, ChainFlowsStep, FlowStutters

\* and the OUT pipe with it.
LEMMA FlowKeeps ==
    ASSUME Payload \intersect {"SET_ADDR", "SET_CFG"} = {}, MaxOut \in 0 .. QueueLen
    PROVE  PortInv /\ CdcVisiting /\ CdcVisiting' /\ Addresses /\ Flow /\ [SessionNext]_vars => Flow'
  <1> SUFFICES ASSUME PortInv, CdcVisiting, CdcVisiting', Addresses, Flow, [SessionNext]_vars PROVE Flow'
    OBVIOUS
  <1>1. TypeOK /\ Cdc /\ Cdc'
    BY DEF CdcVisiting, Cdc, PortInv
  <1> QED BY <1>1, FlowStep, FlowStutters

\* As long as the device is there, the chain of requests on the IN pipe goes on,
\* also after a stall (InCb, reset): whatever the sizes and the device do, there is a
\* request under way, or an answer coming or in hand to which the next one is sent.
THEOREM ChainGoesOn ==
    ASSUME Payload \intersect {"SET_ADDR", "SET_CFG"} = {}
    PROVE  Session => []ChainAlive
  <1>1. [SessionNext]_vars => [Next]_vars
    BY SessionSteps
  <1>2. Session => Init /\ [][SessionNext]_vars
    BY PTL DEF Session
  <1>3. PortInv /\ [SessionNext]_vars => PortInv'
    BY <1>1, PortInvNext
  <1>4. PortInv /\ CdcVisiting /\ CdcVisiting' /\ Addresses /\ [SessionNext]_vars => Addresses'
    BY AddressKeeps
  <1>5. PortInv /\ CdcVisiting /\ CdcVisiting' /\ Addresses /\ ChainFlows /\ [SessionNext]_vars => ChainFlows'
    BY ChainFlowsKeeps
  <1>6. Init => ChainFlows
    BY FlowInit DEF Flow
  <1>7. Init /\ [][SessionNext]_vars => [](PortInv /\ CdcVisiting /\ ChainFlows)
    BY <1>3, <1>4, <1>5, <1>6, PortInvInit, SessionInit, SessionKeeps, AddressInit, PTL
  <1>8. [](PortInv /\ CdcVisiting /\ ChainFlows) => []ChainAlive
    BY ChainIsAlive, PTL
  <1> QED BY <1>2, <1>7, <1>8

\* With no more IRPs of the application than the queue of the pipe's task has places
\* for messages, no request of the enumeration, of the application or of the chain is
\* refused while the device is there (allocateIRP, hcd_irp_enqueue: a refused IRP is
\* not freed).
THEOREM NoRequestIsLost ==
    ASSUME Payload \intersect {"SET_ADDR", "SET_CFG"} = {}, MaxOut \in 0 .. QueueLen
    PROVE  Session => NoneLostWhileThere
  <1>1. Session => Init /\ [][SessionNext]_vars
    BY PTL DEF Session
  <1>2. PortInv /\ [SessionNext]_vars => PortInv'
    BY SessionSteps, PortInvNext
  <1>3. PortInv /\ CdcVisiting /\ CdcVisiting' /\ Addresses /\ [SessionNext]_vars => Addresses'
    BY AddressKeeps
  <1>4. PortInv /\ CdcVisiting /\ CdcVisiting' /\ Addresses /\ Flow /\ [SessionNext]_vars => Flow'
    BY FlowKeeps
  <1>5. Init /\ [][SessionNext]_vars => [](PortInv /\ CdcVisiting /\ Addresses /\ Flow)
    BY <1>2, <1>3, <1>4, PortInvInit, SessionInit, SessionKeeps, AddressInit, FlowInit, PTL
  <1>6. PortInv /\ CdcVisiting /\ Addresses /\ Flow /\ [SessionNext]_vars
           => [leaked' > leaked => vport.state # "ENABLED"]_vars
    <2> SUFFICES ASSUME PortInv, CdcVisiting, Addresses, Flow, SessionNext, leaked' > leaked, There PROVE FALSE
      BY DEF There
    <2>1. TypeOK /\ Cdc /\ leaked \in 0 .. MaxLeak /\ MaxLeak \in Nat
      BY HostPipeAssumption DEF CdcVisiting, Cdc, PortInv, TypeOK
    <2>2. leaked' = leaked
      BY <2>1, NoneGivenUp
    <2> QED BY <2>1, <2>2
  <1> QED BY <1>1, <1>5, <1>6, PTL DEF NoneLostWhileThere

=============================================================================
