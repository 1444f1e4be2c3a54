----------------------------- MODULE MouseProofs -----------------------------
(***************************************************************************)
(* The mouse class driver on the port of the host layer: every step keeps  *)
(* PortInv; in a session it keeps the visit (MouseVisit), and with it the  *)
(* pipes are safe (MCMouse!MouseSafe); and there is one request for a      *)
(* report, so that the reports go on (MCMouse!ReportsGoOn).                *)
(***************************************************************************)
EXTENDS MCMouse, MouseVisit, HostProofs

-----------------------------------------------------------------------------
(* The types of the pipes through the callbacks *)

MousePipes == "in" \in DataPipe /\ "ctrl" \in Pipe /\ "in" \in Pipe

\* They are there, by the assumption.
LEMMA MousePipesKnown == MousePipes
  BY MouseAssumption, HostPipeAssumption DEF MousePipes, DataPipe

\* The task of the control pipe goes to another place, and may make a request.
LEMMA MouseCtrlType ==
    ASSUME PipesType, NEW at \in TaskAt, Goto("ctrl", at), UNCHANGED <<obj, evtq, addr, dev_addr>>,
           \/ UNCHANGED <<drv, leaked, fault>>
           \/ \E p \in Pipe, req \in Irp : SubmitIrp(p, req)
    PROVE  PipesType'
  <1>1. task' \in [Pipe -> Task]
    BY MousePipesKnown, GotoType DEF PipesType, MousePipes
  <1>2. DrvType' /\ LeakedType' /\ fault' \in {fault, "use"}
    BY SubmitType DEF PipesType, DrvType, LeakedType
  <1> QED BY <1>1, <1>2 DEF PipesType, QueuesType, ObjectsType

\* begin: a new pipe, and the task that makes it goes on,
LEMMA MouseBeginType ==
    ASSUME PipesType, MouseBegin
    PROVE  PipesType'
  <1> DEFINE s == StartTask("in", task)
             n == IF vport.conn_devc_ena THEN "begin_in_alloc" ELSE "ready"
             t == [s EXCEPT !["ctrl"].at = n]
  <1>1. MousePipes /\ s \in [Pipe -> Task] /\ n \in TaskAt
    BY MousePipesKnown, StartTaskType DEF MousePipes, TaskAt
  <1>2. NewPipe("in") /\ task' = t /\ UNCHANGED <<drv, evtq, addr, dev_addr, leaked>>
    BY DEF MouseBegin
  <1> HIDE DEF s, n
  <1>3. t \in [Pipe -> Task]
    BY <1>1 DEF Task, MousePipes
  <1> HIDE DEF t
  <1> QED BY <1>1, <1>2, <1>3, NewPipeType DEF MousePipes

\* then the driver's part of it.
LEMMA MouseBeginAllocType ==
    ASSUME PipesType, MouseBeginAlloc
    PROVE  PipesType'
  <1>1. DrvType' /\ QueuesType' /\ obj' \in [Pipe -> Object] /\ addr' \in [Pipe -> {0, Address}]
    BY MousePipesKnown, AllocPipeType DEF MouseBeginAlloc, MousePipes
  <1> DEFINE s == QueueTask("in", task)
  <1>2. s \in [Pipe -> Task] /\ task' = [s EXCEPT !["ctrl"].at = "ready"]
    BY MousePipesKnown, QueueTaskType DEF MouseBeginAlloc, MousePipes
  <1> HIDE DEF s
  <1>3. task' \in [Pipe -> Task]
    BY <1>2, MousePipesKnown DEF Task, TaskAt, MousePipes
  <1> QED BY <1>1, <1>3 DEF MouseBeginAlloc, PipesType, LeakedType, ObjectsType

\* What in_pipe_cb makes of the pipe.
MouseReset ==
    IF task["in"].event \in MouseErrors /\ CanCommand("in") THEN ResetPipe(drv["in"]) ELSE drv["in"]

\* in_pipe_cb resets, and asks for the next report.
LEMMA MouseInFields ==
    ASSUME MouseIn
    PROVE  /\ task["in"].at = "class" /\ Goto("in", "free")
           /\ UNCHANGED <<obj, evtq, addr, dev_addr, fault, ready>>
           /\ \/ /\ vport.state = "ENABLED" /\ MouseReset.state = "ACTIVE"
                 /\ drv' = [drv EXCEPT !["in"] = Enqueue(MouseReset, "DATA")] /\ UNCHANGED leaked
              \/ /\ ~(vport.state = "ENABLED" /\ MouseReset.state = "ACTIVE")
                 /\ drv' = [drv EXCEPT !["in"] = MouseReset] /\ Leak(1)
  BY DEF MouseIn, MouseReset, MouseErrors

\* in_pipe_cb.
LEMMA MouseInType ==
    ASSUME PipesType, MouseIn
    PROVE  PipesType'
  <1>1. MousePipes /\ "DATA" \in Irp /\ "free" \in TaskAt
    BY MousePipesKnown, MouseAssumption DEF TaskAt
  <1>2. MouseReset \in Driver_t
    <2>1. drv["in"] \in Driver_t
      BY <1>1 DEF PipesType, DrvType, MousePipes
    <2> QED BY <2>1, DriverTypes DEF MouseReset
  <1>3. Enqueue(MouseReset, "DATA") \in Driver_t
    BY <1>1, <1>2, EnqueueType
  <1>4. task' \in [Pipe -> Task]
    BY <1>1, MouseInFields, GotoType DEF PipesType, MousePipes
  <1>5. DrvType'
    BY <1>1, <1>2, <1>3, MouseInFields, OneDriver DEF PipesType, MousePipes
  <1>6. LeakedType'
    <2>1. Leak(1) \/ UNCHANGED leaked
      BY MouseInFields
    <2> QED BY <2>1, LeakType DEF PipesType, LeakedType
  <1> QED BY <1>4, <1>5, <1>6, MouseInFields DEF PipesType, QueuesType, ObjectsType

-----------------------------------------------------------------------------
(* The steps *)

\* The class driver's callback of the port.
LEMMA MousePortCbKeeps ==
    ASSUME TypeOK, PortRest, MousePortCb
    PROVE  TypeOK' /\ PortRest'
  <1>1. CASE MousePortNone
    BY <1>1, PortPassesKeeps DEF MousePortNone
  <1>2. CASE MousePortConnection
    BY <1>2, PortResetsKeeps DEF MousePortConnection
  <1>3. CASE MouseDeviceDesc
    BY <1>3, PortRequestsKeeps, HostPipeAssumption DEF MouseDeviceDesc, getDeviceDescriptor
  <1>4. CASE MouseSetAddr
    BY <1>4, PortRequestsKeeps, HostPipeAssumption DEF MouseSetAddr, setDeviceAddress
  <1>5. CASE MousePortLost
    <2>1. {p \in {"in"} : obj[p].ptr = "set"} \in SUBSET Pipe
      BY MouseAssumption
    <2> QED BY <1>5, <2>1, PortDeletesKeeps DEF MousePortLost
  <1> QED BY <1>1, <1>2, <1>3, <1>4, <1>5 DEF MousePortCb

\* The class driver's callbacks of the pipes.
LEMMA MousePipeCbKeeps ==
    ASSUME TypeOK, PortRest, NEW p \in Pipe, MousePipeCb(p)
    PROVE  TypeOK' /\ PortRest'
  <1>1. PipesType /\ PortType
    BY TypeParts
  <1>2. MousePipes /\ {"IDLE", "REPORT_MAP", "DATA"} \subseteq Irp /\ {"free", "report_map"} \subseteq TaskAt
    BY MousePipesKnown, MouseAssumption DEF TaskAt
  <1>3. ASSUME MouseCtrlOther \/ setIdle \/ getHidReportMap \/ FirstReport PROVE PipesType'
    <2>1. CASE MouseCtrlOther
      BY <1>1, <1>2, <2>1, MouseCtrlType DEF MouseCtrlOther
    <2>2. CASE setIdle
      BY <1>1, <1>2, <2>2, MouseCtrlType DEF setIdle, MousePipes
    <2>3. CASE getHidReportMap
      BY <1>1, <1>2, <2>3, MouseCtrlType DEF getHidReportMap, MousePipes
    <2>4. CASE FirstReport
      BY <1>1, <1>2, <2>4, MouseCtrlType DEF FirstReport, inData, MousePipes
    <2> QED BY <1>3, <2>1, <2>2, <2>3, <2>4
  <1>4. PipesType' /\ ready' \in BOOLEAN
    <2>1. PipesType'
      BY <1>1, <1>3, MouseBeginType, MouseBeginAllocType, MouseInType DEF MousePipeCb
    <2>2. ready' = ready \/ ready' = TRUE
      BY DEF MousePipeCb, MouseCtrlOther, MouseBegin, MouseBeginAlloc, setIdle, getHidReportMap, FirstReport, MouseIn
    <2> QED BY <1>1, <2>1, <2>2 DEF PortType
  <1> QED BY <1>1, <1>4, PipesMoveKeeps DEF MousePipeCb, PortType

\* Every step.
LEMMA MousePortNext == PortInv /\ [MouseNext]_vars => PortInv'
  <1> SUFFICES ASSUME TypeOK, PortRest, [MouseNext]_vars PROVE TypeOK' /\ PortRest'
    BY DEF PortInv, PortRest
  <1>1. CASE MouseTasks \/ Delay
    <2>1. CASE init \/ initCallback
      BY <2>1, PortPowersKeeps, CallbackSetKeeps
    <2>2. CASE PortTask \/ Delay \/ MousePortCb
      BY <2>2, PortTaskKeeps, MousePortCbKeeps
    <2>3. CASE \E p \in Pipe : PipeTask(p)
      BY <2>3, PipeTasksKeep
    <2>4. CASE \E p \in Pipe : MousePipeCb(p)
      BY <2>4, MousePipeCbKeeps
    <2> QED BY <1>1, <2>1, <2>2, <2>3, <2>4 DEF MouseTasks
  <1>2. CASE Transfer \/ TransferError(ErrorEvent)
    BY <1>2, PipeTasksKeep
  <1>3. CASE Plug \/ Unplug \/ Enable \/ Fault \/ Overload \/ TimeSlice
    BY <1>3, PortInterruptsKeep, TimeSliceKeeps
  <1>4. CASE UNCHANGED vars
    <2>1. TypeOK'
      BY <1>4 DEF TypeOK, vars, viewVars, hostPipeVars, portVars
    <2> QED BY <1>4, <2>1, PortStill DEF vars, viewVars, portVars
  <1> QED BY <1>1, <1>2, <1>3, <1>4 DEF MouseNext

-----------------------------------------------------------------------------
(* The steps of the port, on the visit of a mouse                          *)

Mouse == Visit /\ MouseOpened

MouseStages == {"begin_in_alloc", "begin_in", "begin_out", "begin_out_alloc", "ready", "report_map"}

\* The objects of the class driver stay.
LEMMA OpenedStill ==
    ASSUME MouseOpened, \A p \in DataPipe : obj'[p] = obj[p],
           \/ task'["ctrl"].at = task["ctrl"].at /\ (LossHandled => LossHandled')
           \/ task'["ctrl"].at \notin MouseStages /\ task["ctrl"].at # "begin_in_alloc"
    PROVE  MouseOpened'
  <1>1. Life("in")' = Life("in") /\ \A p \in DataPipe \ {"in"} : Life(p)' = Life(p)
    BY MousePipesKnown DEF MousePipes, Life
  <1> QED BY <1>1 DEF MouseOpened, MouseStages

\* The port task has handled the loss in these places only.
LEMMA LossPlaces ==
    ASSUME Visit, LossHandled
    PROVE  vport.state = "RECOVERY" /\ port_task.at \in {"act", "free_ctrl"} /\ Leaving /\ ~Coming /\ ~PortBlocked
  BY DEF Visit, PortVisit, Connecting, Recovering, LossHandled, Coming, Leaving, Gone, PortBlocked

\* A device comes, and is enabled;
LEMMA MousePlugs == ASSUME TypeOK, Mouse, Plug \/ Enable PROVE Mouse' /\ fault' = fault
  <1>1. MousePipes /\ Visit
    BY MousePipesKnown DEF Mouse
  <1>2. Visit' /\ Stays /\ fault' = fault /\ port_task' = port_task
    BY <1>1, PlugSession, EnableSession DEF MousePipes
  <1> QED BY <1>2, OpenedStill DEF Mouse, Stays, LossHandled, Leaving

\* it leaves when no pipe is being made.
LEMMA MouseLeaves == ASSUME TypeOK, Mouse, MouseMayLeave, Unplug PROVE Mouse' /\ fault' = fault
  <1>1. MousePipes /\ Visit /\ PortBlocked /\ vport.conn_devc_ena
    BY MousePipesKnown DEF Mouse, MouseMayLeave
  <1>2. task["ctrl"].at \notin Making
    BY DEF Mouse, MouseOpened, MouseMayLeave, Making
  <1>3. \A p \in DataPipe : obj[p].ptr = "set" => obj[p].life = "whole"
    BY DEF Mouse, MouseOpened, MouseMayLeave
  <1>4. Visit' /\ Stays /\ fault' = fault /\ port_task' = port_task
    BY <1>1, <1>2, <1>3, UnplugSession DEF MousePipes
  <1> QED BY <1>4, OpenedStill DEF Mouse, Stays, LossHandled, Leaving

\* The port task works, and the objects stay.
LEMMA MouseStays ==
    ASSUME TypeOK, Mouse, Visit', Stays, LossHandled => LossHandled'
    PROVE  Mouse'
  BY OpenedStill DEF Mouse, Stays

\* init.
LEMMA MouseStarts == ASSUME TypeOK, Mouse, init \/ initCallback PROVE Mouse' /\ fault' = fault
  <1>1. MousePipes /\ Visit
    BY MousePipesKnown DEF Mouse
  <1>2. Visit' /\ Stays /\ fault' = fault
           /\ \/ vport.state = "NOT_POWERED"
              \/ port_task' = port_task
    BY <1>1, StartSession DEF MousePipes
  <1>3. LossHandled => LossHandled'
    BY <1>1, <1>2, LossPlaces DEF LossHandled, Leaving
  <1> QED BY <1>2, <1>3, MouseStays

\* The port task takes a message, and handles a connection.
LEMMA MouseReceives == ASSUME TypeOK, Mouse, PortReceive \/ HandleConn \/ HandleConnEnd PROVE Mouse' /\ fault' = fault
  <1>1. MousePipes /\ Visit
    BY MousePipesKnown DEF Mouse
  <1>2. Visit' /\ Stays /\ fault' = fault
    BY <1>1, ReceiveSession, ConnSession DEF MousePipes
  <1>3. ~LossHandled
    BY DEF LossHandled, PortReceive, HandleConn, HandleConnEnd
  <1> QED BY <1>2, <1>3, MouseStays

\* The class driver resets the port,
LEMMA MouseConnects == ASSUME TypeOK, Mouse, MousePortConnection PROVE Mouse' /\ fault' = fault
  <1>1. MousePipes /\ Visit /\ ~LossHandled
    BY MousePipesKnown DEF Mouse, MousePortConnection, LossHandled
  <1> QED BY <1>1, ConnectSession, MouseStays DEF MousePipes, MousePortConnection

\* and the device has answered.
LEMMA MouseResets == ASSUME TypeOK, PortInv, Mouse, ConnectReset, vport.state # "RESETTING" PROVE Mouse' /\ fault' = fault
  <1>1. MousePipes /\ Visit /\ ~LossHandled
    BY MousePipesKnown DEF Mouse, ConnectReset, LossHandled
  <1> QED BY <1>1, ResetSession, MouseStays DEF MousePipes

\* What the port task does itself.
LEMMA MouseActs == ASSUME TypeOK, PortInv, Mouse, ActPowerOff \/ ActNothing \/ suddenDisconnect PROVE Mouse' /\ fault' = fault
  <1>1. MousePipes /\ Visit
    BY MousePipesKnown DEF Mouse
  <1>2. Visit' /\ Stays /\ fault' = fault
           /\ \/ Coming
              \/ Leaving' /\ port_task'.at = "free_ctrl"
    BY <1>1, ActSession DEF MousePipes
  <1>3. LossHandled => LossHandled'
    BY <1>1, <1>2, LossPlaces DEF LossHandled
  <1> QED BY <1>2, <1>3, MouseStays

\* The way back from the loss.
LEMMA MouseRecovers == ASSUME TypeOK, PortInv, Mouse, freeCTRLpipe \/ recover \/ powerON PROVE Mouse' /\ fault' = fault
  <1>1. MousePipes /\ Visit
    BY MousePipesKnown DEF Mouse
  <1>2. Visit' /\ fault' = fault /\ (\A p \in DataPipe : Life(p) = "none")
           /\ (\A p \in DataPipe : obj'[p] = obj[p]) /\ (task["ctrl"].at = "none")'
    BY <1>1, RecoverSession DEF MousePipes
  <1>3. task["ctrl"].at # "begin_in_alloc" /\ task'["ctrl"].at \notin MouseStages
    BY <1>1, <1>2 DEF Mouse, MouseOpened, MouseStages, MousePipes
  <1> QED BY <1>2, <1>3, OpenedStill DEF Mouse

\* The driver tells of the pipes that it invalidates,
LEMMA MouseLoses == ASSUME TypeOK, Mouse, HandleLost \/ HandleLostNext \/ PostInvalid PROVE Mouse' /\ fault' = fault
  <1>1. MousePipes /\ Visit
    BY MousePipesKnown DEF Mouse
  <1>2. Visit' /\ UNCHANGED <<fault, obj, task>>
    BY <1>1, LostSession, LostNextSession, PostSession DEF MousePipes
  <1>3. ~LossHandled
    BY DEF LossHandled, HandleLost, HandleLostNext, PostInvalid
  <1> QED BY <1>2, <1>3, OpenedStill DEF Mouse

\* The control pipe.
LEMMA MouseMakesCtrl == ASSUME TypeOK, PortInv, Mouse, addCTRLpipe \/ addCTRLpipeEnd PROVE Mouse' /\ fault' = fault
  <1>1. MousePipes /\ Visit /\ ~LossHandled
    BY MousePipesKnown DEF Mouse, LossHandled, addCTRLpipe, addCTRLpipeEnd
  <1>2. CASE addCTRLpipe
    <2>1. Visit' /\ fault' = fault /\ task'["ctrl"] = TaskIn("created") /\ (\A r \in DataPipe : obj'[r] = obj[r])
          /\ Passes("connected", "alloc_pipe")
      BY <1>1, <1>2, NewCtrlSession DEF MousePipes
    <2>2. vport.state = "ENABLED" /\ Life("ctrl") = "none" /\ task["ctrl"].at = "none"
      BY <1>1, <2>1 DEF Visit, PortVisit, Connecting, ObjectsVisit, Nested, Passes, Owned, OwnedAt, MousePipes
    <2>3. task'["ctrl"].at = "created"
      BY <2>1 DEF TaskIn
    <2> QED BY <1>1, <2>1, <2>2, <2>3, OpenedStill DEF Mouse, MouseStages
  <1>3. CASE addCTRLpipeEnd
    <2>1. /\ Visit' /\ fault' = fault /\ task["ctrl"] = TaskIn("created") /\ task'["ctrl"] = TaskIn("blocked")
          /\ \A r \in DataPipe : obj'[r] = obj[r]
      BY <1>1, <1>3, AllocCtrlSession DEF MousePipes
    <2>2. task["ctrl"].at = "created" /\ task'["ctrl"].at = "blocked"
      BY <2>1 DEF TaskIn
    <2> QED BY <1>1, <2>1, <2>2, OpenedStill DEF Mouse, MouseStages
  <1> QED BY <1>2, <1>3

\* Its first two requests.
LEMMA MouseRequests == ASSUME TypeOK, PortInv, Mouse, MouseDeviceDesc \/ MouseSetAddr PROVE Mouse' /\ fault' = fault
  <1>1. MousePipes /\ Visit /\ {"DEV_DESC", "SET_ADDR"} \subseteq Irp /\ ~LossHandled
    BY MousePipesKnown, HostPipeAssumption DEF Mouse, MouseDeviceDesc, MouseSetAddr, LossHandled
  <1>2. UNCHANGED <<vport, vhw, op, obj, evtq, task, addr, dev_addr, port_evtq, app, callback, ready>>
        /\ \/ SubmitIrp("ctrl", "DEV_DESC") /\ port_task' = [port_task EXCEPT !.at = "set_addr"] /\ port_task.at = "get_desc"
           \/ SubmitIrp("ctrl", "SET_ADDR") /\ port_task' = [port_task EXCEPT !.at = "act"] /\ port_task.at = "set_addr"
    BY DEF MouseDeviceDesc, MouseSetAddr, getDeviceDescriptor, setDeviceAddress, PortGoto
  <1>3. Visit' /\ fault' = fault
    BY <1>1, <1>2, RequestSession DEF MousePipes
  <1> QED BY <1>1, <1>2, <1>3, OpenedStill DEF Mouse

\* Nothing is begun where the device is gone.
LEMMA MouseBegunHere ==
    ASSUME Mouse, vport.state # "ENABLED"
    PROVE  task["ctrl"].at \notin {"begin_in_alloc", "ready"}
  BY DEF Mouse, Visit, CtrlVisit, Making

\* The IN pipe is deleted.
LEMMA MouseDeletes == ASSUME TypeOK, Mouse, MousePortLost PROVE Mouse' /\ fault' = fault
  <1>1. MousePipes /\ Visit /\ MouseOpened
    BY MousePipesKnown DEF Mouse
  <1> DEFINE S == {p \in {"in"} : obj[p].ptr = "set"}
  <1>2. /\ DeletePipes(S, "set") /\ UNCHANGED <<vport, vhw, op, port_evtq, callback, app, ready>> /\ port_task.at = "class"
        /\ Leaving /\ port_task' = [port_task EXCEPT !.at = "act"] /\ S \in SUBSET DataPipe
    BY <1>1 DEF MousePortLost, Leaving, PortGoto, MousePipes
  <1>3. (\A p \in S : obj[p].ptr = "set") /\ (\A p \in DataPipe \ S : Life(p) = "none") /\ S \subseteq {"in"}
    BY <1>1 DEF Visit, ObjectsVisit, Owned, OwnedAt, MouseOpened, MousePipes
  <1> HIDE DEF S
  <1>4. Visit' /\ fault' = fault /\ Passes("class", "act") /\ vport.state = "RECOVERY"
           /\ (\A p \in DataPipe : Life(p) = "none")'
           /\ \A p \in Pipe \ S : obj'[p] = obj[p] /\ drv'[p] = drv[p] /\ task'[p] = task[p] /\ evtq'[p] = evtq[p]
    BY <1>1, <1>2, <1>3, DataLostSession DEF MousePipes
  <1>5. task'["ctrl"] = task["ctrl"] /\ task["ctrl"].at \notin {"begin_in_alloc", "ready"}
    BY <1>1, <1>3, <1>4, MouseBegunHere DEF MousePipes, DataPipe, Mouse
  <1>6. LossHandled'
    BY <1>2, <1>4 DEF LossHandled, Passes, Leaving
  <1>7. \A p \in DataPipe \ {"in"} : obj'[p] = obj[p]
    BY <1>3, <1>4 DEF DataPipe
  <1>8. \A p \in DataPipe : Life(p)' = "none"
    BY <1>4
  <1>9. MouseOpened'
    BY <1>1, <1>5, <1>6, <1>7, <1>8 DEF MouseOpened, MousePipes
  <1> QED BY <1>4, <1>9 DEF Mouse

-----------------------------------------------------------------------------
(* The steps of the pipes                                                  *)

\* Transfers succeed, and fail on the IN pipe.
LEMMA MouseTransfers ==
    ASSUME TypeOK, Mouse, NEW p \in Pipe, UNCHANGED <<vport, vhw, op, portVars>>,
           TransferDone(p) \/ (p = "in" /\ \E event \in MouseErrors : TransferFailed(p, event))
    PROVE  Mouse' /\ fault' = fault
  <1>1. MousePipes /\ Visit /\ MouseErrors \subseteq ErrorEvent
    BY MousePipesKnown DEF Mouse, ErrorEvent, MouseErrors
  <1>2. TransferDone(p) \/ (p \in DataPipe /\ \E event \in ErrorEvent : TransferFailed(p, event))
    BY <1>1 DEF MousePipes
  <1>3. Visit' /\ OneMoves(p) /\ UNCHANGED <<task, fault>>
    BY <1>1, <1>2, TransferSession DEF MousePipes
  <1> QED BY <1>3, OpenedStill DEF Mouse, OneMoves, LossHandled, Leaving, portVars

\* The task of the control pipe goes between the places that all class drivers have.
LEMMA StepPlaces ==
    ASSUME TypeOK, NEW p \in Pipe, TaskStep(p)
    PROVE  task[p].at \notin MouseStages /\ task'[p].at \notin MouseStages
  <1>1. ASSUME NEW at, Goto(p, at), at \notin MouseStages PROVE task'[p].at \notin MouseStages
    BY <1>1, GotoFields
  <1>2. CASE Receive(p)
    <2>1. task[p].at = "blocked"
      BY <1>2 DEF Receive
    <2>2. task'[p] = task[p] \/ task'[p] = [at |-> "handle", event |-> Head(evtq[p]), irp |-> Head(drv[p].done)]
      BY <1>2, ReceiveFields
    <2> QED BY <2>1, <2>2 DEF MouseStages
  <1>3. CASE FreeIrp(p)
    <2>1. task'[p] = TaskIn("blocked")
      BY <1>3 DEF FreeIrp, TypeOK
    <2> QED BY <1>3, <2>1 DEF FreeIrp, TaskIn, MouseStages
  <1>4. CASE HandleSetAddr(p) \/ HandleSetAddrEnd(p) \/ HandleSetConfig(p) \/ HandleError(p) \/ HandleOther(p)
    BY <1>1, <1>4 DEF HandleSetAddr, HandleSetAddrEnd, HandleSetConfig, HandleError, HandleOther, HandlesDone, Handles, MouseStages
  <1> QED BY <1>2, <1>3, <1>4 DEF TaskStep

\* The tasks of the pipes.
LEMMA MouseSteps ==
    ASSUME TypeOK, Mouse, NEW p \in Pipe, PipeTask(p)
    PROVE  Mouse' /\ fault' = fault
  <1>1. MousePipes /\ Visit /\ Owned
    BY MousePipesKnown DEF Mouse, Visit, ObjectsVisit
  <1>2. TaskStep(p) /\ port_task' = port_task
    BY DEF PipeTask, portVars
  <1>3. Visit' /\ fault' = fault /\ OneMoves(p)
    BY <1>1, <1>2, StepVisit, StepMoves DEF MousePipes
  <1>4. CASE p = "ctrl"
    BY <1>2, <1>3, <1>4, StepPlaces, OpenedStill DEF Mouse, OneMoves, MouseStages
  <1>5. CASE p # "ctrl"
    BY <1>1, <1>2, <1>3, <1>5, OpenedStill DEF Mouse, OneMoves, LossHandled, Leaving, MousePipes
  <1> QED BY <1>4, <1>5

-----------------------------------------------------------------------------
(* The callbacks of the pipes                                              *)

MouseRest == UNCHANGED <<vport, vhw, op, port_evtq, port_task, app, callback, plugs>>

\* A pipe exists whose task does anything.
LEMMA CtrlIsWhole ==
    ASSUME TypeOK, Mouse, PortBlocked, task["ctrl"].at \notin {"none", "created", "blocked"}
    PROVE  /\ MousePipes /\ PortVisit /\ ObjectsVisit /\ CtrlVisit /\ Owned /\ MouseOpened
           /\ Life("ctrl") = "whole" /\ drv["ctrl"] \in Driver_t /\ drv["in"] \in Driver_t /\ ~LossHandled
  <1>1. MousePipes /\ PortVisit /\ ObjectsVisit /\ CtrlVisit /\ Owned /\ MouseOpened
    BY MousePipesKnown DEF Mouse, Visit, ObjectsVisit
  <1>2. Life("ctrl") = "whole"
    BY <1>1, BusyIsWhole DEF MousePipes
  <1> QED BY <1>1, <1>2, LossPlaces DEF Mouse, TypeOK, MousePipes

\* ctrl_pipe_cb of anything else
LEMMA MouseOther ==
    ASSUME TypeOK, Mouse, PortBlocked, MouseRest, MouseCtrlOther
    PROVE  Mouse' /\ fault' = fault
  <1>1. task["ctrl"].at = "class" /\ Goto("ctrl", "free") /\ UNCHANGED <<drv, obj, evtq, fault, vport, vhw, op, port_evtq, port_task, app, callback>>
    BY DEF MouseCtrlOther, MouseRest
  <1>2. MousePipes /\ PortVisit /\ ObjectsVisit /\ CtrlVisit /\ Life("ctrl") = "whole" /\ drv["ctrl"] \in Driver_t
    BY <1>1, CtrlIsWhole
  <1>3. /\ task'["ctrl"].at = "free" /\ task'["ctrl"].irp = task["ctrl"].irp
        /\ \A r \in Pipe \ {"ctrl"} : task'[r] = task[r]
    BY <1>1, <1>2, GotoFields DEF MousePipes
  <1>4. Len(drv["ctrl"].done) <= Len(drv'["ctrl"].done)
    BY <1>1, <1>2, DriverFields
  <1>5. CtrlVisit'
    BY <1>1, <1>2, <1>3, <1>4, CtrlGoes DEF MousePipes
  <1>6. OneMoves("ctrl")
    BY <1>1, <1>2, <1>3 DEF OneMoves, Keeps, KeepsTask
  <1>7. Visit'
    BY <1>1, <1>2, <1>5, <1>6, MovesVisit DEF MousePipes, Mouse
  <1> QED BY <1>1, <1>3, <1>7, OpenedStill DEF Mouse, MouseStages

\* begin, of the new pipe.
LEMMA MouseBeginFields ==
    ASSUME TypeOK, MouseBegin, vport.conn_devc_ena
    PROVE  /\ task["ctrl"].at = "class" /\ task["ctrl"].irp.irp = "CFG_DESC"
           /\ task'["in"] = TaskIn("created") /\ task'["ctrl"].at = "begin_in_alloc"
           /\ task'["ctrl"].irp = task["ctrl"].irp /\ (\A r \in DataPipe \ {"in"} : task'[r] = task[r])
           /\ NewPipe("in") /\ UNCHANGED <<drv, evtq, addr, dev_addr, leaked, ready>>
  <1>1. task \in [Pipe -> Task] /\ "ctrl" \in Pipe /\ "in" \in Pipe /\ task["ctrl"] \in Task
    BY MousePipesKnown DEF TypeOK, MousePipes
  <1> DEFINE s == [task EXCEPT !["in"] = TaskIn("created")]
  <1>2. s["ctrl"] = task["ctrl"] /\ s["in"] = TaskIn("created") /\ DOMAIN s = Pipe /\ \A r \in Pipe \ {"in"} : s[r] = task[r]
    BY <1>1
  <1>3. task' = [s EXCEPT !["ctrl"].at = "begin_in_alloc"]
    BY DEF MouseBegin, StartTask
  <1> HIDE DEF s
  <1>4. task'["ctrl"] = [task["ctrl"] EXCEPT !.at = "begin_in_alloc"] /\ task'["in"] = s["in"] /\ \A r \in Pipe \ {"ctrl"} : task'[r] = s[r]
    BY <1>1, <1>2, <1>3
  <1>5. task'["ctrl"].at = "begin_in_alloc" /\ task'["ctrl"].irp = task["ctrl"].irp
    BY <1>1, <1>4 DEF Task
  <1> QED BY <1>2, <1>4, <1>5 DEF MouseBegin, MouseBringsConfig, DataPipe

\* begin, of its queue and its driver's part.
LEMMA MouseAllocFields ==
    ASSUME TypeOK, MouseBeginAlloc
    PROVE  /\ task["ctrl"].at = "begin_in_alloc" /\ task'["in"] = TaskIn("blocked") /\ task'["ctrl"].at = "ready"
           /\ task'["ctrl"].irp = task["ctrl"].irp /\ (\A r \in DataPipe \ {"in"} : task'[r] = task[r])
           /\ AllocPipe("in", Address) /\ UNCHANGED fault
  <1>1. task \in [Pipe -> Task] /\ "ctrl" \in Pipe /\ "in" \in Pipe /\ task["ctrl"] \in Task
    BY MousePipesKnown DEF TypeOK, MousePipes
  <1> DEFINE s == [task EXCEPT !["in"] = TaskIn("blocked")]
  <1>2. s["ctrl"] = task["ctrl"] /\ s["in"] = TaskIn("blocked") /\ DOMAIN s = Pipe /\ \A r \in Pipe \ {"in"} : s[r] = task[r]
    BY <1>1
  <1>3. task' = [s EXCEPT !["ctrl"].at = "ready"]
    BY DEF MouseBeginAlloc, QueueTask
  <1> HIDE DEF s
  <1>4. task'["ctrl"] = [task["ctrl"] EXCEPT !.at = "ready"] /\ task'["in"] = s["in"] /\ \A r \in Pipe \ {"ctrl"} : task'[r] = s[r]
    BY <1>1, <1>2, <1>3
  <1>5. task'["ctrl"].at = "ready" /\ task'["ctrl"].irp = task["ctrl"].irp
    BY <1>1, <1>4 DEF Task
  <1> QED BY <1>2, <1>4, <1>5 DEF MouseBeginAlloc, DataPipe

\* begin opens the IN pipe: the object and its task,
LEMMA MouseBegins ==
    ASSUME TypeOK, Mouse, PortBlocked, MouseRest, MouseBegin
    PROVE  Mouse' /\ fault' = fault /\ vport.state = "ENABLED" /\ Requests(drv["ctrl"]) = << >> /\ vport.conn_devc_ena
           /\ Life("in") = "none" /\ evtq'["in"] = << >> /\ drv["in"] = NoPipeYet /\ evtq'["ctrl"] = evtq["ctrl"]
  <1>1. task["ctrl"].at = "class" /\ task["ctrl"].irp.irp = "CFG_DESC" /\ UNCHANGED <<vport, vhw, op, port_evtq, port_task, app, callback>>
    BY DEF MouseBegin, MouseBringsConfig, MouseRest
  <1>2. /\ MousePipes /\ PortVisit /\ ObjectsVisit /\ CtrlVisit /\ MouseOpened
        /\ Life("ctrl") = "whole" /\ drv["ctrl"] \in Driver_t /\ ~LossHandled
    BY <1>1, CtrlIsWhole
  <1>3. Life("in") = "none"
    BY <1>1, <1>2 DEF CtrlVisit, Unchained, Chained
  <1>4. Enumerating /\ Carries
    BY <1>1, <1>2, <1>3 DEF Enumerating, Carries, LossHandled
  <1>5. vport.state = "ENABLED" /\ Requests(drv["ctrl"]) = << >> /\ vport.conn_devc_ena
    BY <1>2, <1>4, CarriesEnabled DEF MousePipes, PortVisit, Hardware
  <1>6. /\ task'["in"] = TaskIn("created") /\ task'["ctrl"].at = "begin_in_alloc" /\ task'["ctrl"].irp = task["ctrl"].irp
        /\ (\A r \in DataPipe \ {"in"} : task'[r] = task[r]) /\ NewPipe("in") /\ UNCHANGED <<drv, evtq, addr, dev_addr, leaked>>
    BY <1>5, MouseBeginFields
  <1>7. ObjectsVisit' /\ fault' = fault /\ (Life("in") = "raw")' /\ evtq'["in"] = << >> /\ drv["in"] = NoPipeYet
           /\ (\A r \in Pipe \ {"in"} : obj'[r] = obj[r] /\ evtq'[r] = evtq[r])
    BY <1>1, <1>2, <1>3, <1>5, <1>6, NewDataObjects DEF MousePipes
  <1>8. PortVisit'
    BY <1>1, <1>2, PortVisitStill
  <1>9. CtrlVisit'
    <2>1. Life("in")' # "none"
      BY <1>7
    <2> DEFINE s == Requests(drv'["ctrl"])
    <2>2. s = << >>
      BY <1>5, <1>6
    <2> HIDE DEF s
    <2>3. \A k \in DOMAIN s : s[k] \notin Chained
      BY <2>2
    <2>4. \A k \in DOMAIN Requests(drv'["ctrl"]) : Requests(drv'["ctrl"])[k] \notin Chained
      BY <2>3 DEF s
    <2> QED BY <1>1, <1>5, <1>6, <2>1, <2>4 DEF CtrlVisit, Chain, Unchained, Enumerating
  <1>10. MouseOpened'
    <2>1. \A r \in DataPipe \ {"in"} : Life(r)' = "none" /\ obj'[r].ptr = "null"
      BY <1>2, <1>7 DEF MouseOpened, Life, DataPipe
    <2> QED BY <1>6, <1>7, <2>1 DEF MouseOpened
  <1> QED BY <1>2, <1>3, <1>5, <1>7, <1>8, <1>9, <1>10 DEF Mouse, Visit, MousePipes

\* and the driver's part.
LEMMA MouseAllocs ==
    ASSUME TypeOK, Mouse, PortBlocked, MouseRest, MouseBeginAlloc
    PROVE  Mouse' /\ fault' = fault /\ Life("in") = "raw" /\ drv'["in"] = [NoPipeYet EXCEPT !.alloc = TRUE]
           /\ drv'["ctrl"] = drv["ctrl"] /\ task'["in"] = TaskIn("blocked") /\ evtq["in"] = << >> /\ evtq' = evtq
  <1>1. /\ task["ctrl"].at = "begin_in_alloc" /\ AllocPipe("in", Address) /\ task'["ctrl"].at = "ready"
        /\ UNCHANGED <<fault, vport, vhw, op, port_evtq, port_task, app, callback>>
    BY MouseAllocFields DEF MouseRest
  <1>2. /\ MousePipes /\ PortVisit /\ ObjectsVisit /\ CtrlVisit /\ MouseOpened
        /\ Life("ctrl") = "whole" /\ drv["ctrl"] \in Driver_t
    BY <1>1, CtrlIsWhole
  <1>3. vport.state = "ENABLED" /\ Life("in") = "raw"
    BY <1>1, <1>2 DEF CtrlVisit, Making, MouseOpened
  <1>4. /\ task'["in"] = TaskIn("blocked") /\ task'["ctrl"].at = "ready" /\ task'["ctrl"].irp = task["ctrl"].irp
        /\ \A r \in DataPipe \ {"in"} : task'[r] = task[r]
    BY MouseAllocFields
  <1>5. ObjectsVisit' /\ (Life("in") = "whole")' /\ drv'["in"] = [NoPipeYet EXCEPT !.alloc = TRUE]
           /\ (\A r \in Pipe \ {"in"} : obj'[r] = obj[r] /\ drv'[r] = drv[r])
           /\ evtq' = evtq /\ evtq["in"] = << >>
    BY <1>1, <1>2, <1>3, <1>4, AllocDataObjects DEF MousePipes
  <1>6. PortVisit'
    BY <1>1, <1>2, PortVisitStill
  <1>7. drv'["ctrl"] = drv["ctrl"]
    BY <1>2, <1>5 DEF MousePipes
  <1>8. CtrlVisit'
    <2>1. Life("in") # "none" /\ Life("in")' # "none"
      BY <1>3, <1>5
    <2> DEFINE s == Requests(drv["ctrl"])
    <2>2. \A k \in DOMAIN s : s[k] \notin Chained
      BY <1>2, <2>1 DEF CtrlVisit, Unchained
    <2>3. s = Requests(drv'["ctrl"])
      BY <1>7
    <2> HIDE DEF s
    <2> QED BY <1>1, <1>3, <1>4, <2>1, <2>2, <2>3 DEF CtrlVisit, Chain, Unchained, Enumerating
  <1>9. MouseOpened'
    <2>1. \A r \in DataPipe \ {"in"} : Life(r)' = "none" /\ obj'[r].ptr = "null"
      BY <1>2, <1>5 DEF MouseOpened, Life, DataPipe
    <2> QED BY <1>4, <1>5, <2>1 DEF MouseOpened
  <1> QED BY <1>1, <1>3, <1>4, <1>5, <1>6, <1>7, <1>8, <1>9 DEF Mouse, Visit

\* A request of the class on the control pipe, once the IN pipe is there.
LEMMA MouseAsks ==
    ASSUME TypeOK, Mouse, PortBlocked, MouseRest, NEW req \in {"IDLE", "REPORT_MAP"}, NEW at \in {"free", "report_map"},
           task["ctrl"].at \in {"ready", "report_map"}, SubmitIrp("ctrl", req), Goto("ctrl", at),
           UNCHANGED <<obj, evtq>>, at = "report_map" => task["ctrl"].at = "ready"
    PROVE  Mouse' /\ fault' = fault /\ Life("in") = "whole" /\ (\A r \in Pipe \ {"ctrl"} : drv'[r] = drv[r])
           /\ (Requests(drv'["ctrl"]) = Requests(drv["ctrl"]) \/ Requests(drv'["ctrl"]) = Append(Requests(drv["ctrl"]), req))
  <1>1. /\ MousePipes /\ PortVisit /\ ObjectsVisit /\ CtrlVisit /\ Owned /\ MouseOpened
        /\ Life("ctrl") = "whole" /\ drv["ctrl"] \in Driver_t /\ ~LossHandled
    BY CtrlIsWhole
  <1>2. Life("in") = "whole" /\ req \in Irp /\ req \notin Chained
    BY <1>1, MouseAssumption DEF MouseOpened, Chained
  <1>3. fault' = fault /\ (\A r \in Pipe \ {"ctrl"} : drv'[r] = drv[r]) /\ Keeps(drv["ctrl"], drv'["ctrl"])
        /\ (drv'["ctrl"] = Enqueue(drv["ctrl"], req) \/ drv'["ctrl"] = drv["ctrl"])
    BY <1>1, <1>2, SubmitFields DEF MousePipes
  <1>4. task'["ctrl"].at = at /\ \A r \in Pipe \ {"ctrl"} : task'[r] = task[r]
    BY <1>1, GotoFields DEF MousePipes
  <1>5. OneMoves("ctrl")
    BY <1>1, <1>3, <1>4 DEF OneMoves, KeepsTask
  <1> DEFINE s == Requests(drv["ctrl"])
             t == Requests(drv'["ctrl"])
  <1>6. s \in Seq(Irp) /\ (\A k \in DOMAIN s : s[k] \notin Chained) /\ (t = s \/ t = Append(s, req))
    BY <1>1, <1>2, <1>3, RequestsType, EnqueueRequests DEF CtrlVisit, Unchained
  <1> HIDE DEF s, t
  <1>7. \A k \in DOMAIN t : t[k] \notin Chained
    BY <1>2, <1>6, AppendUnchained
  <1>8. t = Requests(drv'["ctrl"])
    BY DEF t
  <1>9. CtrlVisit'
    BY <1>1, <1>2, <1>4, <1>7, <1>8, CtrlMore DEF MouseRest
  <1>10. Visit'
    BY <1>1, <1>5, <1>9, MovesVisit DEF MousePipes, MouseRest, Mouse
  <1>11. MouseOpened'
    <2>1. Life("in")' = "whole" /\ \A p \in DataPipe \ {"in"} : Life(p)' = Life(p)
      BY <1>2 DEF Life
    <2> QED BY <1>1, <1>4, <2>1 DEF MouseOpened
  <1> QED BY <1>2, <1>3, <1>6, <1>10, <1>11 DEF Mouse, s, t

\* ctrl_pipe_cb of the example finds the IN pipe whole.
LEMMA ReportMapComes ==
    ASSUME TypeOK, Mouse, PortBlocked, FirstReport
    PROVE  Life("in") = "whole"
  <1>1. task["ctrl"].at = "class" /\ task["ctrl"].irp.irp = "REPORT_MAP"
    BY DEF FirstReport, MouseBringsReportMap
  <1>2. MousePipes /\ CtrlVisit /\ MouseOpened /\ Life("ctrl") = "whole" /\ ~LossHandled
    BY <1>1, CtrlIsWhole
  <1>3. ~Enumerating
    BY <1>1, <1>2 DEF CtrlVisit, Chain, Chained
  <1>4. Life("in") # "none"
    BY <1>2, <1>3 DEF Enumerating, LossHandled
  <1>5. Life("in") # "raw"
    BY <1>1, <1>2 DEF MouseOpened
  <1> QED BY <1>2, <1>4, <1>5, LifeType DEF MousePipes

\* The first report.
LEMMA MouseFirst ==
    ASSUME TypeOK, Mouse, PortBlocked, MouseRest, FirstReport
    PROVE  Mouse' /\ fault' = fault
  <1>1. /\ task["ctrl"].at = "class" /\ SubmitIrp("in", "DATA") /\ Goto("ctrl", "free")
        /\ UNCHANGED <<obj, evtq, vport, vhw, op, port_evtq, port_task, app, callback>>
    BY DEF FirstReport, inData, MouseRest
  <1>2. /\ MousePipes /\ PortVisit /\ ObjectsVisit /\ CtrlVisit /\ Owned /\ MouseOpened
        /\ Life("ctrl") = "whole" /\ Life("in") = "whole" /\ drv["ctrl"] \in Driver_t /\ "DATA" \in Irp
    BY <1>1, CtrlIsWhole, ReportMapComes, MouseAssumption
  <1>3. fault' = fault /\ (\A r \in Pipe \ {"in"} : drv'[r] = drv[r]) /\ Keeps(drv["in"], drv'["in"])
    BY <1>1, <1>2, SubmitFields DEF MousePipes
  <1>4. task'["ctrl"].at = "free" /\ task'["ctrl"].irp = task["ctrl"].irp /\ \A r \in Pipe \ {"ctrl"} : task'[r] = task[r]
    BY <1>1, <1>2, GotoFields DEF MousePipes
  <1>5. PipesMove
    <2>1. ASSUME NEW r \in Pipe PROVE Keeps(drv[r], drv'[r]) /\ KeepsTask(task[r], task'[r])
      <3>1. Keeps(drv[r], drv'[r])
        BY <1>3 DEF Keeps
      <3>2. KeepsTask(task[r], task'[r])
        BY <1>1, <1>2, <1>4 DEF KeepsTask, Owned, OwnedAt
      <3> QED BY <3>1, <3>2
    <2>2. ASSUME NEW r \in Pipe, Life(r) # "whole" PROVE drv'[r] = drv[r] /\ task'[r] = task[r] /\ evtq'[r] = evtq[r]
      BY <1>1, <1>2, <1>3, <1>4, <2>2
    <2> QED BY <1>1, <2>1, <2>2 DEF PipesMove
  <1>6. PortVisit' /\ ObjectsVisit'
    BY <1>1, <1>2, <1>5, PortVisitStill, MoveObjects
  <1>7. drv'["ctrl"] = drv["ctrl"] /\ Len(drv["ctrl"].done) <= Len(drv'["ctrl"].done)
    BY <1>2, <1>3, DriverFields DEF MousePipes
  <1>8. CtrlVisit'
    BY <1>1, <1>2, <1>4, <1>7, CtrlGoes DEF MousePipes
  <1> QED BY <1>1, <1>3, <1>4, <1>6, <1>8, OpenedStill DEF Mouse, Visit, MouseStages

\* in_pipe_cb
LEMMA MouseGoesOn ==
    ASSUME TypeOK, Mouse, PortBlocked, MouseRest, MouseIn
    PROVE  Mouse' /\ fault' = fault
  <1>1. MousePipes /\ Visit /\ Owned /\ "DATA" \in Irp
    BY MousePipesKnown, MouseAssumption DEF Mouse, Visit, ObjectsVisit
  <1>2. drv["in"] \in Driver_t /\ DOMAIN drv = Pipe
    BY <1>1 DEF TypeOK, MousePipes
  <1>3. MouseReset \in Driver_t /\ Keeps(drv["in"], MouseReset)
    <2>1. CASE task["in"].event \in MouseErrors /\ CanCommand("in")
      BY <1>2, <2>1, ResetKeeps, DriverTypes DEF MouseReset, CanCommand
    <2>2. CASE ~(task["in"].event \in MouseErrors /\ CanCommand("in"))
      BY <1>2, <2>2 DEF MouseReset, Keeps
    <2> QED BY <2>1, <2>2
  <1>4. MouseReset.state = "ACTIVE" => Keeps(MouseReset, Enqueue(MouseReset, "DATA"))
    BY <1>1, <1>3, EnqueueKeeps
  <1>5. Keeps(drv["in"], drv'["in"]) /\ \A r \in Pipe \ {"in"} : drv'[r] = drv[r]
    BY <1>1, <1>2, <1>3, <1>4, MouseInFields DEF Keeps, MousePipes
  <1>6. task["in"].at = "class" /\ UNCHANGED <<obj, evtq, fault>> /\ task'["in"].at = "free" /\ \A r \in Pipe \ {"in"} : task'[r] = task[r]
    BY <1>1, MouseInFields, GotoFields DEF MousePipes
  <1>7. Life("in") = "whole"
    BY <1>1, <1>6, BusyIsWhole DEF MousePipes
  <1>8. OneMoves("in")
    BY <1>5, <1>6, <1>7 DEF OneMoves, KeepsTask
  <1>9. Visit'
    BY <1>1, <1>8, MovesVisit DEF MousePipes, MouseRest
  <1> QED BY <1>1, <1>6, <1>9, OpenedStill DEF Mouse, MouseRest, LossHandled, Leaving, MousePipes

\* The callbacks of the pipes.
LEMMA MousePipeCbs ==
    ASSUME TypeOK, Mouse, NEW p \in Pipe, MousePipeCb(p)
    PROVE  Mouse' /\ fault' = fault
  <1>1. PortBlocked /\ MouseRest
    BY DEF MousePipeCb, MouseRest
  <1>2. CASE setIdle
    BY <1>1, <1>2, MouseAsks DEF setIdle
  <1>3. CASE getHidReportMap
    BY <1>1, <1>3, MouseAsks DEF getHidReportMap
  <1> QED BY <1>1, <1>2, <1>3, MouseOther, MouseBegins, MouseAllocs, MouseFirst, MouseGoesOn DEF MousePipeCb

-----------------------------------------------------------------------------
(* The session                                                             *)

\* The class driver's callback is known before there is anything to tell it of.
LEMMA MousePortNoneNot ==
    ASSUME PortVisit
    PROVE  ~MousePortNone
  BY DEF MousePortNone, PortVisit, Handling, Hardware, Coming, Leaving

\* The port task, and the class driver's callback of it.
LEMMA MousePortTask ==
    ASSUME TypeOK, PortInv, Mouse, PortTask \/ MousePortCb
    PROVE  Mouse' /\ fault' = fault
  <1>1. ~HandleNothing /\ ~MousePortNone
    BY HandleNothingNot, MousePortNoneNot DEF Mouse, Visit
  <1> QED
    BY <1>1, MouseReceives, MouseLoses, MouseActs, MouseRecovers, MouseMakesCtrl, MouseConnects, MouseRequests, MouseDeletes
       DEF PortTask, MousePortCb

\* Every step of a session.
LEMMA MouseSessionStep ==
    ASSUME TypeOK, PortInv, Mouse, MouseSessionNext
    PROVE  Mouse' /\ fault' = fault
  <1>1. CASE MouseTasks
    <2>1. CASE init \/ initCallback
      BY <2>1, MouseStarts
    <2>2. CASE PortTask \/ MousePortCb
      BY <2>2, MousePortTask
    <2>3. CASE \E p \in Pipe : PipeTask(p) \/ MousePipeCb(p)
      BY <2>3, MouseSteps, MousePipeCbs
    <2> QED BY <1>1, <2>1, <2>2, <2>3 DEF MouseTasks
  <1>2. CASE MouseAnswered /\ Delay
    <2>1. ASSUME ConnectReset PROVE vport.state # "RESETTING"
      BY <1>2 DEF MouseAnswered, Mouse, Visit, PortVisit, Hardware
    <2> QED BY <1>2, <2>1, MouseResets, MouseReceives DEF Delay
  <1>3. CASE Plug \/ Enable
    BY <1>3, MousePlugs
  <1>4. CASE \/ Transfer
             \/ /\ \E event \in {"ERROR_XFER", "ERROR_STALL"} : TransferFailed("in", event)
                /\ UNCHANGED <<vport, vhw, op, portVars>>
    <2>1. UNCHANGED <<vport, vhw, op, portVars>> /\ "in" \in Pipe
      BY <1>4, MouseAssumption DEF Transfer
    <2>2. CASE Transfer
      BY <2>1, <2>2, MouseTransfers DEF Transfer
    <2>3. CASE \E event \in {"ERROR_XFER", "ERROR_STALL"} : TransferFailed("in", event)
      BY <2>1, <2>3, MouseTransfers DEF MouseErrors
    <2> QED BY <1>4, <2>2, <2>3
  <1>5. CASE MouseMayLeave /\ Unplug
    BY <1>5, MouseLeaves
  <1> QED BY <1>1, <1>2, <1>3, <1>4, <1>5 DEF MouseSessionNext

\* The invariant holds at the start,
LEMMA MouseSessionInit == Init => MouseVisiting
  <1> SUFFICES ASSUME Init PROVE MouseVisiting
    OBVIOUS
  <1>1. MousePipes /\ Visit
    BY MousePipesKnown, VisitInit DEF MousePipes
  <1>2. /\ \A p \in Pipe : Life(p) = "none" /\ obj[p].ptr = "null" /\ task[p] = TaskIn("none")
        /\ fault = "none"
    BY DEF Init, PipesInit, Life
  <1>3. \A p \in Pipe : task[p].at = "none"
    BY <1>2 DEF TaskIn
  <1> QED BY <1>1, <1>2, <1>3 DEF MouseVisiting, MouseOpened, MousePipes, DataPipe

\* and every step of the session keeps it,
LEMMA MouseSessionKeeps == PortInv /\ MouseVisiting /\ [MouseSessionNext]_vars => MouseVisiting'
  <1> SUFFICES ASSUME TypeOK, PortInv, Mouse, fault = "none", [MouseSessionNext]_vars
               PROVE  Mouse' /\ fault' = "none"
    BY DEF MouseVisiting, Mouse, PortInv
  <1>1. CASE MouseSessionNext
    BY <1>1, MouseSessionStep
  <1>2. CASE UNCHANGED vars
    <2>1. Stays /\ UNCHANGED <<vport, vhw, op, port_evtq, port_task, app, callback, fault>>
      BY <1>2 DEF vars, viewVars, hostPipeVars, portVars, Stays
    <2>2. PortVisit' /\ ObjectsVisit' /\ CtrlVisit'
      BY <2>1, PortVisitStill, ObjectsStill, CtrlStands DEF Stays, CtrlStill, Mouse, Visit
    <2>3. MouseOpened'
      BY <2>1, OpenedStill DEF Mouse, Stays, LossHandled, Leaving
    <2> QED BY <2>1, <2>2, <2>3 DEF Mouse, Visit
  <1> QED BY <1>1, <1>2

\* and what the run checks is part of it.
LEMMA MouseVisitIsSafe == PortInv /\ MouseVisiting => MouseSafe
  <1> SUFFICES ASSUME TypeOK, MouseVisiting PROVE MouseSafe
    BY DEF PortInv
  <1>1. PortVisit /\ fault = "none"
    BY DEF MouseVisiting, Visit
  <1>2. MouseUsesWhole /\ MouseDeletesWhole
    BY <1>1 DEF MouseUsesWhole, MouseDeletesWhole
  <1>3. MouseRecovered
    BY <1>1 DEF MouseRecovered, PortVisit, Waits
  <1> QED BY <1>2, <1>3 DEF MouseSafe

\* A step of a session is a step of the specification.
LEMMA MouseSessionSteps == [MouseSessionNext]_vars => [MouseNext]_vars
  <1>1. ASSUME \E event \in {"ERROR_XFER", "ERROR_STALL"} : TransferFailed("in", event), UNCHANGED <<vport, vhw, op, portVars>>
        PROVE  TransferError(ErrorEvent)
    BY <1>1, MouseAssumption DEF TransferError, ErrorEvent
  <1> QED BY <1>1 DEF MouseSessionNext, MouseNext

\* As long as the mouse leaves only when it is enumerated and no pipe is being made,
\* and only its reports fail, nobody uses or deletes a pipe that is not whole, and
\* the port comes back: the request for the first report, too, which the callback of
\* the example makes on an event number, finds the IN pipe that begin made.  (With no
\* tick between the making of a pipe's task and of its queue: MCCdc!Sliced.)
THEOREM MouseIsSafe == MouseSession => []MouseSafe
  <1>1. [MouseSessionNext]_vars => [MouseNext]_vars
    BY MouseSessionSteps
  <1>2. MouseSession => Init /\ [][MouseSessionNext]_vars
    BY PTL DEF MouseSession
  <1>3. PortInv /\ [MouseSessionNext]_vars => PortInv'
    BY <1>1, MousePortNext
  <1>4. Init /\ [][MouseSessionNext]_vars => [](PortInv /\ MouseVisiting)
    BY <1>3, PortInvInit, MouseSessionInit, MouseSessionKeeps, PTL
  <1>5. [](PortInv /\ MouseVisiting) => []MouseSafe
    BY MouseVisitIsSafe, PTL
  <1> QED BY <1>2, <1>4, <1>5

-----------------------------------------------------------------------------
(* The report map is asked for once                                        *)

\* What is dequeued was asked for first.
LEMMA ReceivesFirst ==
    ASSUME NEW d \in Driver_t, d.done # << >>, NEW e, e = [d EXCEPT !.done = Tail(@)]
    PROVE  /\ e \in Driver_t /\ Requests(e) = Tail(Requests(d)) /\ Requests(d) # << >>
           /\ Head(Requests(d)) = Head(d.done).irp /\ Head(d.done) \in IrpDone
  <1>1. e \in Driver_t /\ e.done = Tail(d.done) /\ e.moving = d.moving /\ e.pending = d.pending
    BY DriverTypes DEF Driver_t
  <1> QED BY <1>1, DequeueRequests, DriverFields

\* The mouse is there.
MouseThere == vport.state = "ENABLED"

\* A step that asks for no map, and brings none.
LEMMA MapKept ==
    ASSUME OneMap, MouseThere, Life("in")' # "none" => Life("in") # "none",
           Requests(drv'["ctrl"]) = Requests(drv["ctrl"]), MapToAsk' => MapToAsk, MapInHand' => MapInHand
    PROVE  OneMap' /\ (MapComing' => MapComing)
  <1>1. MapAsked' = MapAsked
    BY DEF MapAsked
  <1> QED BY <1>1 DEF OneMap, MapComing, MouseThere

\* The control pipe is left alone.
LEMMA MapStays ==
    ASSUME OneMap, MouseThere, Life("in")' # "none" => Life("in") # "none",
           drv'["ctrl"] = drv["ctrl"], task'["ctrl"] = task["ctrl"]
    PROVE  OneMap' /\ (MapComing' => MapComing)
  BY MapKept DEF MapToAsk, MapInHand

\* Of a sequence with one map at most there is none behind it,
LEMMA MapTaken ==
    ASSUME NEW s \in Seq(Irp), s # << >>, NEW t, t = Tail(s),
           \A j, k \in DOMAIN s : s[j] = "REPORT_MAP" /\ s[k] = "REPORT_MAP" => j = k
    PROVE  /\ \A j, k \in DOMAIN t : t[j] = "REPORT_MAP" /\ t[k] = "REPORT_MAP" => j = k
           /\ Head(s) = "REPORT_MAP" => \A k \in DOMAIN t : t[k] # "REPORT_MAP"
           /\ \A k \in DOMAIN t : k + 1 \in DOMAIN s /\ t[k] = s[k + 1]
  <1>1. DOMAIN t = 1 .. Len(s) - 1 /\ DOMAIN s = 1 .. Len(s) /\ Len(s) \in Nat \ {0} /\ Head(s) = s[1]
    OBVIOUS
  <1>2. \A k \in DOMAIN t : k \in Nat \ {0} /\ k + 1 \in DOMAIN s /\ t[k] = s[k + 1]
    BY <1>1
  <1>3. 1 \in DOMAIN s
    BY <1>1
  <1>4. ASSUME NEW j \in DOMAIN t, NEW k \in DOMAIN t, t[j] = "REPORT_MAP", t[k] = "REPORT_MAP" PROVE j = k
    <2>1. j + 1 = k + 1
      BY <1>2, <1>4
    <2> QED BY <1>2, <2>1
  <1>5. ASSUME Head(s) = "REPORT_MAP", NEW k \in DOMAIN t, t[k] = "REPORT_MAP" PROVE FALSE
    <2>1. k + 1 = 1
      BY <1>1, <1>2, <1>3, <1>5
    <2> QED BY <1>2, <2>1
  <1> QED BY <1>2, <1>4, <1>5

\* and none where another request is added.
LEMMA MapAdded ==
    ASSUME NEW s \in Seq(Irp), NEW req \in Irp, NEW t, t = s \/ t = Append(s, req), \A k \in DOMAIN s : s[k] # "REPORT_MAP"
    PROVE  /\ \A j, k \in DOMAIN t : t[j] = "REPORT_MAP" /\ t[k] = "REPORT_MAP" => j = k
           /\ req # "REPORT_MAP" => \A k \in DOMAIN t : t[k] # "REPORT_MAP"
  <1>1. CASE t = s
    BY <1>1
  <1>2. CASE t = Append(s, req)
    <2>1. DOMAIN t = 1 .. Len(s) + 1 /\ DOMAIN s = 1 .. Len(s) /\ Len(s) \in Nat
          /\ \A k \in 1 .. Len(s) : t[k] = s[k]
      BY <1>2
    <2>2. t[Len(s) + 1] = req
      BY <1>2
    <2>3. \A k \in DOMAIN t : k = Len(s) + 1 \/ t[k] # "REPORT_MAP"
      BY <2>1
    <2> QED BY <2>2, <2>3
  <1> QED BY <1>1, <1>2

\* The control pipe's task takes an answer.
LEMMA MapReceived ==
    ASSUME TypeOK, OneMap, MouseThere, Life("in") # "none", UNCHANGED obj, Receive("ctrl")
    PROVE  OneMap' /\ (MapComing' => MapComing)
  <1>1. MousePipes /\ drv["ctrl"] \in Driver_t /\ task["ctrl"].at = "blocked"
    BY MousePipesKnown, LifeType DEF MousePipes, Receive
  <1>2. CASE drv["ctrl"].done = << >>
    BY <1>1, <1>2, ReceiveFields, MapStays DEF MousePipes, Life
  <1>3. CASE drv["ctrl"].done # << >>
    <2> DEFINE s == Requests(drv["ctrl"])
               t == Requests(drv'["ctrl"])
    <2>1. /\ drv'["ctrl"] = [drv["ctrl"] EXCEPT !.done = Tail(@)]
          /\ task'["ctrl"] = [at |-> "handle", event |-> Head(evtq["ctrl"]), irp |-> Head(drv["ctrl"].done)]
      BY <1>1, <1>3, LifeType, ReceiveFields DEF Receive, IrpDequeue, MousePipes
    <2>2. s \in Seq(Irp) /\ s # << >> /\ t = Tail(s) /\ Head(s) = Head(drv["ctrl"].done).irp
      <3>1. \A e : e = [drv["ctrl"] EXCEPT !.done = Tail(@)] => Requests(e) = Tail(s)
        BY <1>1, <1>3, ReceivesFirst
      <3> QED BY <1>1, <1>3, <2>1, <3>1, ReceivesFirst, RequestsType
    <2>3. MapAsked = {k \in DOMAIN s : s[k] = "REPORT_MAP"} /\ MapAsked' = {k \in DOMAIN t : t[k] = "REPORT_MAP"}
      BY DEF MapAsked
    <2>4. MapInHand' <=> Head(s) = "REPORT_MAP"
      BY <2>1, <2>2 DEF MapInHand
    <2>5. ~MapToAsk /\ ~MapToAsk'
      BY <1>1, <2>1 DEF MapToAsk
    <2>6. Head(s) = s[1] /\ 1 \in DOMAIN s
      <3> HIDE DEF s
      <3> QED BY <2>2
    <2> HIDE DEF s, t
    <2>7. \A j, k \in DOMAIN s : s[j] = "REPORT_MAP" /\ s[k] = "REPORT_MAP" => j = k
      BY <2>3 DEF OneMap, MouseThere
    <2>8. /\ \A j, k \in DOMAIN t : t[j] = "REPORT_MAP" /\ t[k] = "REPORT_MAP" => j = k
          /\ Head(s) = "REPORT_MAP" => \A k \in DOMAIN t : t[k] # "REPORT_MAP"
          /\ \A k \in DOMAIN t : k + 1 \in DOMAIN s /\ t[k] = s[k + 1]
      BY <2>2, <2>7, MapTaken
    <2>9. OneMap'
      BY <2>3, <2>4, <2>5, <2>8 DEF OneMap
    <2>10. MapComing' => MapComing
      BY <2>3, <2>4, <2>5, <2>6, <2>8 DEF MapComing
    <2> QED BY <2>9, <2>10
  <1> QED BY <1>2, <1>3

\* Its other steps.
LEMMA MapTask ==
    ASSUME TypeOK, Mouse, OneMap, MouseThere, PipeTask("ctrl")
    PROVE  OneMap' /\ (Life("in") # "none" /\ MapComing' => MapComing)
  <1>1. MousePipes /\ CtrlVisit /\ Owned /\ TaskStep("ctrl") /\ "ctrl" \in Pipe
    BY MousePipesKnown DEF Mouse, Visit, ObjectsVisit, PipeTask, MousePipes
  <1>2. OneMoves("ctrl")
    BY <1>1, StepMoves
  <1>3. CASE Life("in") = "none"
    BY <1>2, <1>3 DEF OneMoves, OneMap, Life
  <1>4. CASE Life("in") # "none"
    <2>1. ~HandleSetAddr("ctrl") /\ ~HandleSetAddrEnd("ctrl") /\ ~HandleSetConfig("ctrl")
      BY <1>1, <1>4 DEF CtrlVisit, Unchained, Chained, HandleSetAddr, HandleSetAddrEnd, HandleSetConfig, HandlesDone, Handles
    <2>2. CASE Receive("ctrl")
      BY <1>2, <1>4, <2>2, MapReceived DEF OneMoves
    <2>3. CASE HandleError("ctrl") \/ HandleOther("ctrl")
      <3>1. task["ctrl"].at = "handle" /\ Goto("ctrl", "class") /\ (reset("ctrl") \/ drv' = drv)
        BY <2>3 DEF HandleError, HandleOther, Handles
      <3>2. task'["ctrl"].at = "class" /\ task'["ctrl"].irp = task["ctrl"].irp
        BY <1>1, <3>1, GotoFields
      <3>3. Requests(drv'["ctrl"]) = Requests(drv["ctrl"])
        BY <1>1, <3>1, LifeType, ResetFields, ResetRequests
      <3> QED BY <1>4, <3>1, <3>2, <3>3, MapKept DEF MapToAsk, MapInHand
    <2>4. CASE FreeIrp("ctrl")
      <3>1. task'["ctrl"] = TaskIn("blocked") /\ drv' = drv
        BY <1>1, <2>4, LifeType DEF FreeIrp
      <3>2. task'["ctrl"].at = "blocked"
        BY <3>1 DEF TaskIn
      <3> QED BY <1>4, <3>1, <3>2, MapKept DEF MapToAsk, MapInHand
    <2> QED BY <1>1, <2>1, <2>2, <2>3, <2>4 DEF TaskStep
  <1> QED BY <1>3, <1>4

-----------------------------------------------------------------------------
(* The one request on the IN pipe                                          *)

\* Pipes with the same fields are the same.
LEMMA SamePipe ==
    ASSUME NEW d \in Driver_t, NEW e \in Driver_t, d.alloc = e.alloc, d.state = e.state,
           d.moving = e.moving, d.pending = e.pending, d.done = e.done
    PROVE  d = e
  BY DEF Driver_t

\* A pipe with another state,
LEMMA StateSet ==
    ASSUME NEW d \in Driver_t, NEW state \in {"ACTIVE", "HALTED", "INVALID"}, NEW e, e = [d EXCEPT !.state = state]
    PROVE  e \in Driver_t /\ e.alloc = d.alloc /\ e.moving = d.moving /\ e.pending = d.pending
           /\ e.state = state /\ e.done = d.done
  BY DEF Driver_t

\* with other IRPs that have ended,
LEMMA DoneSet ==
    ASSUME NEW d \in Driver_t, NEW done \in Seq(IrpDone), NEW e, e = [d EXCEPT !.done = done]
    PROVE  e \in Driver_t /\ e.alloc = d.alloc /\ e.moving = d.moving /\ e.pending = d.pending
           /\ e.state = d.state /\ e.done = done
  BY DEF Driver_t

\* and with others that wait.
LEMMA PendingSet ==
    ASSUME NEW d \in Driver_t, NEW pending \in Seq(Irp), NEW e, e = [d EXCEPT !.pending = pending]
    PROVE  e \in Driver_t /\ e.alloc = d.alloc /\ e.moving = d.moving /\ e.pending = pending
           /\ e.state = d.state /\ e.done = d.done
  BY DEF Driver_t

\* The pipe as begin makes it, and halted.
LEMMA InFields ==
    ASSUME NEW event
    PROVE  /\ NewIn \in Driver_t /\ InAfter(event) \in Driver_t /\ NewIn.alloc /\ NewIn.state = "ACTIVE"
           /\ NewIn.moving = << >> /\ NewIn.pending = << >> /\ NewIn.done = << >>
           /\ InAfter(event).alloc = NewIn.alloc /\ InAfter(event).state = IF event \in MouseErrors THEN "HALTED" ELSE "ACTIVE"
           /\ InAfter(event).moving = << >> /\ InAfter(event).pending = << >> /\ InAfter(event).done = << >>
  <1> DEFINE s == IF event \in MouseErrors THEN "HALTED" ELSE "ACTIVE"
  <1>1. /\ NewIn \in Driver_t /\ NewIn.alloc /\ NewIn.state = "ACTIVE"
        /\ NewIn.moving = << >> /\ NewIn.pending = << >> /\ NewIn.done = << >>
    <2>1. NewIn.alloc /\ NewIn.state = "ACTIVE" /\ NewIn.moving = << >> /\ NewIn.pending = << >> /\ NewIn.done = << >>
      BY DEF NewIn, NoPipeYet
    <2>2. \A d \in Driver_t : NewIn \in Driver_t
      BY DriverTypes DEF NewIn
    <2>3. NoPipeYet \in Driver_t
      BY DEF NoPipeYet, Driver_t
    <2> QED BY <2>1, <2>2, <2>3
  <1>2. s \in {"ACTIVE", "HALTED", "INVALID"} /\ InAfter(event) = [NewIn EXCEPT !.state = s]
    BY DEF InAfter
  <1> DEFINE n == NewIn
             a == InAfter(event)
  <1>3. n \in Driver_t /\ n.moving = << >> /\ n.pending = << >> /\ n.done = << >> /\ a = [n EXCEPT !.state = s]
    BY <1>1, <1>2
  <1> HIDE DEF n, a, s
  <1>4. a \in Driver_t /\ a.alloc = n.alloc /\ a.moving = << >> /\ a.pending = << >> /\ a.state = s /\ a.done = << >>
    BY <1>2, <1>3, StateSet
  <1> QED BY <1>1, <1>4 DEF n, a, s

\* With a request it has nothing else.
LEMMA InAsked ==
    ASSUME NEW w, w = Enqueue(NewIn, "DATA")
    PROVE  /\ w \in Driver_t /\ w.state = "ACTIVE" /\ w.alloc = NewIn.alloc /\ w.done = << >>
           /\ w.moving = << >> => w.pending # << >>
           /\ w.moving # << >> => w.moving = <<"DATA">> /\ w.pending = << >>
  <1> DEFINE d == [NewIn EXCEPT !.pending = Append(@, "DATA")]
  <1>1. Append(<< >>, "DATA") = <<"DATA">> /\ Head(<<"DATA">>) = "DATA" /\ Tail(<<"DATA">>) = << >> /\ <<"DATA">> # << >>
        /\ <<"DATA">> \in Seq(Irp)
    BY MouseAssumption
  <1>2. d = [NewIn EXCEPT !.pending = <<"DATA">>] /\ w = Filled(d)
    <2>1. Append(NewIn.pending, "DATA") = <<"DATA">>
      BY <1>1, InFields
    <2> QED BY <2>1 DEF Enqueue
  <1> HIDE DEF d
  <1>3. d \in Driver_t /\ d.alloc = NewIn.alloc /\ d.moving = << >> /\ d.pending = <<"DATA">> /\ d.state = "ACTIVE" /\ d.done = << >>
    <2> DEFINE n == NewIn
    <2>1. n \in Driver_t /\ n.moving = << >> /\ n.state = "ACTIVE" /\ n.done = << >>
      BY InFields
    <2> DEFINE q == <<"DATA">>
    <2>2. d = [n EXCEPT !.pending = q] /\ q \in Seq(Irp)
      BY <1>1, <1>2
    <2> HIDE DEF n, q
    <2>3. d \in Driver_t /\ d.alloc = n.alloc /\ d.moving = << >> /\ d.pending = q /\ d.state = "ACTIVE" /\ d.done = << >>
      BY <2>1, <2>2, PendingSet
    <2> QED BY <2>3 DEF n, q
  <1>4. CASE w = d
    BY <1>1, <1>3, <1>4
  <1>5. CASE w = [d EXCEPT !.moving = Append(@, Head(d.pending)), !.pending = Tail(@)]
    <2>1. w.moving = Append(d.moving, Head(d.pending)) /\ w.pending = Tail(d.pending) /\ w.alloc = d.alloc /\ w.state = d.state
          /\ w.done = d.done /\ w \in Driver_t
      BY <1>2, <1>3, <1>5, FilledRequests DEF Driver_t
    <2> QED BY <1>1, <1>3, <2>1
  <1> QED BY <1>2, <1>4, <1>5 DEF Filled

\* When the request has ended it is all there is.
LEMMA InEnds ==
    ASSUME NEW status \in IrpStatus, NEW w, w = Enqueue(NewIn, "DATA"), w.moving # << >>
    PROVE  \E x \in IrpDone :
              /\ x.irp = "DATA"
              /\ Filled(Oldest(w, status)) = InEnded("IRP_DONE", x)
              /\ \A error \in MouseErrors : [Oldest(w, status) EXCEPT !.state = "HALTED"] = InEnded(error, x)
  <1> DEFINE x == [irp |-> "DATA", status |-> status]
             o == Oldest(w, status)
  <1>1. w \in Driver_t /\ w.state = "ACTIVE" /\ w.alloc = NewIn.alloc /\ w.done = << >> /\ w.moving = <<"DATA">> /\ w.pending = << >>
    BY InAsked
  <1>2. Head(<<"DATA">>) = "DATA" /\ Tail(<<"DATA">>) = << >> /\ Append(<< >>, x) = <<x>>
    OBVIOUS
  <1>3. x \in IrpDone /\ x.irp = "DATA"
    BY MouseAssumption DEF IrpDone, IrpStatus
  <1>4. o \in Driver_t /\ o.alloc = NewIn.alloc /\ o.state = "ACTIVE" /\ o.moving = << >> /\ o.pending = << >> /\ o.done = <<x>>
    <2>1. o = [w EXCEPT !.done = Append(@, [irp |-> Head(w.moving), status |-> status]), !.moving = Tail(@)] /\ o \in Driver_t
      BY <1>1, OldestType DEF Oldest
    <2>2. [irp |-> Head(w.moving), status |-> status] = x
      BY <1>1, <1>2
    <2> HIDE DEF x, o
    <2>3. o.alloc = w.alloc /\ o.state = w.state /\ o.moving = Tail(w.moving) /\ o.pending = w.pending /\ o.done = Append(w.done, x)
      BY <1>1, <2>1, <2>2 DEF Driver_t
    <2> QED BY <1>1, <1>2, <2>1, <2>3
  <1>5. <<x>> \in Seq(IrpDone)
    BY <1>3
  <1>6. Filled(Oldest(w, status)) = o /\ [Oldest(w, status) EXCEPT !.state = "HALTED"] = [o EXCEPT !.state = "HALTED"]
    <2> HIDE DEF x
    <2> QED BY <1>4 DEF Filled
  <1> HIDE DEF x, o
  <1>7. o = InEnded("IRP_DONE", x)
    <2> DEFINE b == InAfter("IRP_DONE")
               a == [b EXCEPT !.done = <<x>>]
    <2>1. b \in Driver_t /\ b.state = "ACTIVE" /\ b.alloc = NewIn.alloc /\ b.moving = << >> /\ b.pending = << >> /\ b.done = << >>
      BY InFields DEF MouseErrors
    <2> HIDE DEF a
    <2> DEFINE q == <<x>>
    <2>a. a = [b EXCEPT !.done = q] /\ q \in Seq(IrpDone)
      BY <1>5 DEF a
    <2> HIDE DEF b, q
    <2>2. a \in Driver_t /\ a.alloc = NewIn.alloc /\ a.state = "ACTIVE" /\ a.moving = << >> /\ a.pending = << >> /\ a.done = q
      BY <2>1, <2>a, DoneSet
    <2> QED BY <1>4, <2>2, SamePipe DEF a, b, q, InEnded
  <1>8. ASSUME NEW error \in MouseErrors PROVE [o EXCEPT !.state = "HALTED"] = InEnded(error, x)
    <2> DEFINE b == InAfter(error)
               a == [b EXCEPT !.done = <<x>>]
               h == [o EXCEPT !.state = "HALTED"]
    <2>1. b \in Driver_t /\ b.state = "HALTED" /\ b.alloc = NewIn.alloc /\ b.moving = << >> /\ b.pending = << >> /\ b.done = << >>
      BY InFields
    <2> HIDE DEF a, h
    <2> DEFINE q == <<x>>
    <2>a. a = [b EXCEPT !.done = q] /\ q \in Seq(IrpDone)
      BY <1>5 DEF a
    <2> HIDE DEF b, q
    <2>2. a \in Driver_t /\ a.alloc = NewIn.alloc /\ a.state = "HALTED" /\ a.moving = << >> /\ a.pending = << >> /\ a.done = q
      BY <2>1, <2>a, DoneSet
    <2>3. h \in Driver_t /\ h.alloc = NewIn.alloc /\ h.state = "HALTED" /\ h.moving = << >> /\ h.pending = << >> /\ h.done = <<x>>
      BY <1>4, StateSet DEF h
    <2> QED BY <2>2, <2>3, SamePipe DEF a, b, h, q, InEnded
  <1> QED BY <1>3, <1>6, <1>7, <1>8

\* The reset of a pipe with nothing on it.
LEMMA InReset ==
    ASSUME NEW event
    PROVE  ResetPipe(InAfter(event)) = NewIn
  <1> DEFINE d == InAfter(event)
             f == Flush(d, "CANCELED")
             r == ResetPipe(d)
  <1>1. /\ d \in Driver_t /\ d.alloc = NewIn.alloc /\ d.moving = << >> /\ d.pending = << >> /\ d.done = << >>
        /\ d.state # "INVALID"
    BY InFields
  <1>2. r \in Driver_t /\ r.state = "ACTIVE" /\ r.moving = << >> /\ r.pending = << >>
        /\ r.done = d.done \o EndWith(d.moving \o d.pending, "CANCELED")
    BY <1>1, ResetKeeps, ResetRequests
  <1>3. << >> \o EndWith(<< >> \o << >>, "CANCELED") = << >>
    BY DEF EndWith
  <1>4. r.alloc = d.alloc
    <2>1. f.alloc = d.alloc /\ r = [f EXCEPT !.state = "ACTIVE"] /\ f \in [alloc : BOOLEAN, state : {"ACTIVE", "HALTED", "INVALID"},
                                    moving : {<< >>}, pending : {<< >>}, done : {f.done}]
      BY <1>1, FlushFields DEF ResetPipe
    <2> HIDE DEF d, f, r
    <2> QED BY <2>1
  <1> HIDE DEF d, f
  <1> QED BY <1>1, <1>2, <1>3, <1>4, InFields, SamePipe DEF d

\* Where there is no IN pipe there is no report to wait for,
LEMMA NotReporting ==
    ASSUME TypeOK, Mouse, Life("in") # "whole"
    PROVE  ~Reporting /\ drv["in"] = NoPipeYet /\ evtq["in"] = << >>
  <1>1. MousePipes /\ Owned /\ Life("in") \in {"none", "raw"}
    BY MousePipesKnown, LifeType DEF Mouse, Visit, ObjectsVisit, MousePipes
  <1>2. drv["in"] = NoPipeYet /\ evtq["in"] = << >> /\ task["in"].at \in {"none", "created"}
    BY <1>1 DEF Owned, OwnedAt, TaskIn, MousePipes
  <1>3. drv["in"].moving = << >> /\ drv["in"].pending = << >> /\ drv["in"].done = << >>
    BY <1>2 DEF NoPipeYet
  <1> QED BY <1>2, <1>3 DEF Reporting

\* and where a report goes it is one.
LEMMA GoesReports == ReportGoes => Reporting
  <1> SUFFICES ASSUME ReportGoes PROVE Reporting
    OBVIOUS
  <1>1. CASE OnItsWay
    <2>1. drv["in"].moving # << >> \/ drv["in"].pending # << >>
      BY <1>1, InAsked DEF OnItsWay
    <2> QED BY <2>1 DEF Reporting
  <1>2. CASE Reported
    <2>1. PICK event \in {"IRP_DONE"} \union MouseErrors, x \in IrpDone : drv["in"] = InEnded(event, x) /\ evtq["in"] = <<event>>
      BY <1>2 DEF Reported
    <2> DEFINE q == <<x>>
               a == InAfter(event)
    <2>2. a \in Driver_t /\ q \in Seq(IrpDone) /\ drv["in"] = [a EXCEPT !.done = q]
      BY <2>1, InFields DEF InEnded
    <2> HIDE DEF a, q
    <2>3. drv["in"].done = q
      BY <2>2, DoneSet
    <2>4. <<x>> # << >> /\ <<event>> # << >>
      OBVIOUS
    <2> QED BY <2>1, <2>3, <2>4 DEF Reporting, q
  <1>3. CASE InHand \/ ToAskAgain
    BY <1>3 DEF InHand, ToAskAgain, Reporting
  <1> QED BY <1>1, <1>2, <1>3 DEF ReportGoes

\* What a step of a session does where the mouse is there.
ReportsKept == MouseReports' /\ (Reporting => Reporting')

\* There is no IN pipe,
LEMMA NoInPipe ==
    ASSUME TypeOK, Mouse, Life("in") # "whole", Life("in")' = "none"
    PROVE  ReportsKept
  BY NotReporting DEF ReportsKept, MouseReports, OneMap, OneReport

\* the IN pipe is left alone, and no other map is asked for,
LEMMA InStays ==
    ASSUME MouseReports, MouseThere, OneMap', Life("in") = "whole", MapComing' => MapComing,
           drv'["in"] = drv["in"], evtq'["in"] = evtq["in"], task'["in"] = task["in"]
    PROVE  ReportsKept
  <1>1. (Unasked' <=> Unasked) /\ (OnItsWay' <=> OnItsWay) /\ (Reported' <=> Reported) /\ (InHand' <=> InHand)
        /\ (ToAskAgain' <=> ToAskAgain) /\ (Reporting' <=> Reporting)
    BY DEF Unasked, OnItsWay, Reported, InHand, ToAskAgain, Reporting
  <1>2. Unasked \/ (~MapComing /\ ReportGoes)
    BY DEF MouseReports, OneReport, MouseThere
  <1> QED BY <1>1, <1>2 DEF ReportsKept, MouseReports, OneReport, ReportGoes

\* or the request goes on, and the control pipe is left alone.
LEMMA InGoes ==
    ASSUME TypeOK, Mouse, MouseReports, MouseThere, Life("in") = "whole", Life("in")' = Life("in"), ~Unasked,
           drv'["ctrl"] = drv["ctrl"], task'["ctrl"] = task["ctrl"], ReportGoes => ReportGoes'
    PROVE  ReportsKept
  <1>1. ~MapComing /\ ReportGoes
    BY DEF MouseReports, OneReport, MouseThere
  <1>2. OneMap' /\ ~MapComing'
    BY <1>1, MapStays DEF MouseReports
  <1>3. Reporting'
    BY <1>1, GoesReports, PTL
  <1> QED BY <1>1, <1>2, <1>3 DEF ReportsKept, MouseReports, OneReport

-----------------------------------------------------------------------------
(* Where the mouse is there, the port task leaves the pipes alone          *)

\* The pipes stay, or there is none yet.
PortQuiet ==
    \/ MouseThere /\ Stays
    \/ Life("in") # "whole" /\ Life("in")' = "none"

\* The port task, and the class driver's callback of it.
LEMMA QuietTask ==
    ASSUME TypeOK, PortInv, Mouse, PortTask \/ MousePortCb, MouseThere'
    PROVE  PortQuiet
  <1>1. MousePipes /\ Visit /\ PortVisit /\ Nested /\ ~HandleNothing /\ ~MousePortNone
    BY MousePipesKnown, HandleNothingNot, MousePortNoneNot DEF Mouse, Visit, ObjectsVisit
  <1>2. CASE PortReceive
    BY <1>1, <1>2, ReceiveSession DEF MousePipes, MouseThere, PortQuiet
  <1>3. CASE HandleConn
    BY <1>1, <1>3, HandleConnVisit, ConnSession DEF MousePipes, MouseThere
  <1>4. CASE HandleLost \/ HandleLostNext \/ PostInvalid
    BY <1>1, <1>4, LostSession, LostNextSession, PostSession DEF MousePipes, MouseThere
  <1>5. CASE ActPowerOff \/ ActNothing \/ suddenDisconnect
    BY <1>1, <1>5, ActSession DEF MousePipes, MouseThere, PortQuiet
  <1>6. CASE freeCTRLpipe \/ recover \/ powerON
    BY <1>1, <1>6, RecoverSession DEF MousePipes, MouseThere
  <1>7. CASE addCTRLpipe
    <2>1. obj'["in"] = obj["in"] /\ port_task.at = "connected"
      BY <1>1, <1>7, NewCtrlSession DEF MousePipes, Passes
    <2>2. Life("ctrl") = "none"
      BY <1>1, <2>1 DEF Nested
    <2>3. Life("in") = "none"
      BY <1>1, <2>2 DEF Nested, MousePipes
    <2> QED BY <2>1, <2>3 DEF PortQuiet, Life
  <1>8. CASE addCTRLpipeEnd
    <2>1. obj'["in"] = obj["in"] /\ Life("in") = "none"
      BY <1>1, <1>8, AllocCtrlSession DEF MousePipes
    <2> QED BY <2>1 DEF PortQuiet, Life
  <1>9. CASE MousePortConnection
    BY <1>1, <1>9, ConnectSession DEF MousePipes, MousePortConnection, MouseThere
  <1>10. CASE MouseDeviceDesc \/ MouseSetAddr
    <2>1. (port_task.at = "get_desc" \/ port_task.at = "set_addr") /\ UNCHANGED obj
      BY <1>10 DEF MouseDeviceDesc, MouseSetAddr
    <2>2. Life("in") = "none"
      BY <1>1, <2>1 DEF Nested
    <2> QED BY <2>1, <2>2 DEF PortQuiet, Life
  <1>11. CASE MousePortLost
    BY <1>1, <1>11 DEF MousePortLost, MouseThere, PortVisit, Handling, Leaving, Coming
  <1> QED BY <1>1, <1>2, <1>3, <1>4, <1>5, <1>6, <1>7, <1>8, <1>9, <1>10, <1>11 DEF PortTask, MousePortCb

\* The other steps that are not the pipes'.
LEMMA QuietPort ==
    ASSUME TypeOK, PortInv, Mouse, MouseThere',
           \/ init \/ initCallback \/ Plug \/ Enable
           \/ MouseAnswered /\ Delay
           \/ MouseMayLeave /\ Unplug
           \/ UNCHANGED vars
    PROVE  PortQuiet
  <1>1. MousePipes /\ Visit /\ PortVisit /\ Nested /\ Owned
    BY MousePipesKnown DEF Mouse, Visit, ObjectsVisit
  <1>2. CASE init \/ initCallback
    BY <1>1, <1>2, StartSession DEF MousePipes, MouseThere, PortQuiet
  <1>3. CASE Plug
    BY <1>1, <1>3, PlugSession DEF MousePipes, MouseThere, PortQuiet
  <1>4. CASE Enable
    <2>1. Stays /\ vport.state = "RESETTING"
      BY <1>1, <1>4, EnableSession DEF MousePipes
    <2>2. Life("in") = "none"
      BY <1>1, <2>1 DEF Owned, OwnedAt, MousePipes
    <2> QED BY <2>1, <2>2 DEF PortQuiet, Life, Stays
  <1>5. CASE MouseAnswered /\ HandleConnEnd
    BY <1>1, <1>5, ConnEndVisit DEF MouseThere
  <1>6. CASE MouseAnswered /\ ConnectReset
    <2>1. vport.state # "RESETTING"
      BY <1>1, <1>6 DEF MouseAnswered, PortVisit, Hardware
    <2>2. Stays /\ Life("ctrl") = "none"
      BY <1>1, <1>6, <2>1, ResetSession DEF MousePipes
    <2>3. Life("in") = "none"
      BY <1>1, <2>2 DEF Nested, MousePipes
    <2> QED BY <2>2, <2>3 DEF PortQuiet, Life, Stays
  <1>7. CASE MouseMayLeave /\ Unplug
    <2>1. \A p \in DataPipe : obj[p].ptr = "set" => obj[p].life = "whole"
      BY <1>7 DEF Mouse, MouseOpened, MouseMayLeave
    <2>2. task["ctrl"].at \notin Making
      BY <1>7 DEF Mouse, MouseOpened, MouseMayLeave, Making
    <2> QED BY <1>1, <1>7, <2>1, <2>2, UnplugSession DEF MousePipes, MouseMayLeave, MouseThere
  <1>8. CASE UNCHANGED vars
    BY <1>8 DEF vars, viewVars, hostPipeVars, MouseThere, PortQuiet, Stays
  <1> QED BY <1>2, <1>3, <1>4, <1>5, <1>6, <1>7, <1>8 DEF Delay

\* So what there is of the reports stays.
LEMMA QuietGoesOn ==
    ASSUME TypeOK, Mouse, MouseReports, PortQuiet
    PROVE  ReportsKept
  <1>1. CASE Life("in") # "whole" /\ Life("in")' = "none"
    BY <1>1, NoInPipe
  <1>2. CASE MouseThere /\ Stays
    <2>1. OneMap' /\ (MapComing' => MapComing) /\ Life("in")' = Life("in")
      BY <1>2, MapStays DEF MouseReports, Stays, Life
    <2>2. CASE Life("in") = "whole"
      BY <1>2, <2>1, <2>2, InStays DEF Stays
    <2>3. CASE Life("in") # "whole"
      BY <2>1, <2>3, NotReporting DEF ReportsKept, MouseReports, OneReport
    <2> QED BY <2>2, <2>3
  <1> QED BY <1>1, <1>2 DEF PortQuiet

-----------------------------------------------------------------------------
(* The steps of the pipes, where the mouse is there                        *)

\* An IN pipe without errors is as begin made it.
LEMMA InDone == InAfter("IRP_DONE") = NewIn
  <1> DEFINE n == NewIn
             a == InAfter("IRP_DONE")
  <1>1. a \in Driver_t /\ n \in Driver_t /\ a.alloc = n.alloc /\ n.state = "ACTIVE" /\ a.state = "ACTIVE"
        /\ a.moving = << >> /\ a.pending = << >> /\ a.done = << >>
        /\ n.moving = << >> /\ n.pending = << >> /\ n.done = << >>
    BY InFields DEF MouseErrors
  <1> HIDE DEF n, a
  <1> QED BY <1>1, SamePipe DEF n, a

\* Transfers.
LEMMA ReportTransfers ==
    ASSUME TypeOK, Mouse, MouseReports, MouseThere, NEW p \in Pipe, UNCHANGED <<vport, vhw, op, portVars>>,
           TransferDone(p) \/ (p = "in" /\ \E event \in MouseErrors : TransferFailed(p, event))
    PROVE  ReportsKept
  <1>1. MousePipes /\ Visit /\ MouseErrors \subseteq ErrorEvent /\ Owned /\ MouseOpened
    BY MousePipesKnown DEF Mouse, Visit, ObjectsVisit, ErrorEvent, MouseErrors
  <1>2. TransferDone(p) \/ (p \in DataPipe /\ \E event \in ErrorEvent : TransferFailed(p, event))
    BY <1>1 DEF MousePipes
  <1>3. OneMoves(p) /\ task' = task
    BY <1>1, <1>2, TransferSession DEF MousePipes
  <1>4. Life("in")' = Life("in") /\ OnBus(p) /\ Life(p) = "whole" /\ drv[p] \in Driver_t
    BY <1>3, LifeType DEF OneMoves, Life, TransferDone, TransferFailed, ChanDone, ChanFailed
  <1>5. CASE Life("in") # "whole"
    <2>1. p = "ctrl"
      BY <1>1, <1>4, <1>5 DEF MouseOpened, DataPipe
    <2>2. TransferDone("ctrl") /\ drv["ctrl"].moving # << >> /\ drv["ctrl"] \in Driver_t /\ DOMAIN drv = Pipe
      BY <1>1, <1>4, <2>1, LifeType DEF OnBus, MousePipes
    <2>3. Requests(drv'["ctrl"]) = Requests(drv["ctrl"])
      BY <1>1, <2>2, OldestRequests, FilledRequests DEF TransferDone, ChanDone, MousePipes, IrpStatus
    <2>4. OneMap'
      BY <1>3, <1>4, <2>3, MapKept DEF MouseReports, MapToAsk, MapInHand
    <2> QED BY <1>4, <1>5, <2>4, NotReporting DEF ReportsKept, MouseReports, OneReport
  <1>6. CASE Life("in") = "whole" /\ p = "ctrl"
    <2>2. TransferDone("ctrl") /\ drv["ctrl"].moving # << >> /\ drv["ctrl"] \in Driver_t /\ DOMAIN drv = Pipe
      BY <1>1, <1>4, <1>6, LifeType DEF OnBus, MousePipes
    <2>3. Requests(drv'["ctrl"]) = Requests(drv["ctrl"])
      BY <1>1, <2>2, OldestRequests, FilledRequests DEF TransferDone, ChanDone, MousePipes, IrpStatus
    <2>4. OneMap' /\ (MapComing' => MapComing)
      BY <1>3, <1>4, <2>3, MapKept DEF MouseReports, MapToAsk, MapInHand
    <2>5. drv'["in"] = drv["in"] /\ task'["in"] = task["in"] /\ evtq'["in"] = evtq["in"]
      BY <1>1, <1>3, <1>6 DEF OneMoves, MousePipes, DataPipe
    <2> QED BY <1>6, <2>4, <2>5, InStays
  <1>7. CASE Life("in") = "whole" /\ p = "in"
    <2> DEFINE w == Enqueue(NewIn, "DATA")
    <2>1. drv["in"].moving # << >>
      BY <1>4, <1>7 DEF OnBus
    <2>2. ~Unasked
      BY <2>1, InFields DEF Unasked
    <2>3. ReportGoes => OnItsWay
      <3>1. ASSUME Reported PROVE FALSE
        <4>1. PICK event \in {"IRP_DONE"} \union MouseErrors, x \in IrpDone : drv["in"] = InEnded(event, x)
          BY <3>1 DEF Reported
        <4> DEFINE q == <<x>>
                   a == InAfter(event)
        <4>2. a \in Driver_t /\ a.moving = << >> /\ q \in Seq(IrpDone) /\ drv["in"] = [a EXCEPT !.done = q]
          BY <4>1, InFields DEF InEnded
        <4> HIDE DEF a, q
        <4> QED BY <2>1, <4>2, DoneSet
      <3>2. ASSUME InHand \/ ToAskAgain PROVE FALSE
        BY <2>1, <3>2, InFields DEF InHand, ToAskAgain
      <3> QED BY <3>1, <3>2 DEF ReportGoes
    <2>4. ASSUME OnItsWay PROVE Reported'
      <3>1. drv["in"] = w /\ w.moving # << >> /\ evtq["in"] = << >> /\ DOMAIN drv = Pipe /\ DOMAIN evtq = Pipe
        BY <1>1, <2>1, <2>4, LifeType DEF OnItsWay, MousePipes
      <3>2. ASSUME NEW event, Posted("in", event) PROVE evtq'["in"] = <<event>>
        <4>1. Len(<< >>) < QueueLen
          BY HostPipeAssumption
        <4>2. evtq'["in"] = Append(<< >>, event)
          BY <1>1, <3>1, <3>2, <4>1 DEF Posted, MousePipes
        <4> QED BY <4>2
      <3>3. task'["in"].at \in {"blocked", "free"}
        BY <1>3, <2>4 DEF OnItsWay
      <3>4. CASE TransferDone("in")
        <4>1. drv'["in"] = Filled(Oldest(w, "COMPLETED")) /\ evtq'["in"] = <<"IRP_DONE">>
          BY <1>1, <3>1, <3>2, <3>4 DEF TransferDone, ChanDone, MousePipes
        <4>2. \E x \in IrpDone : x.irp = "DATA" /\ Filled(Oldest(w, "COMPLETED")) = InEnded("IRP_DONE", x)
          BY <3>1, InEnds DEF IrpStatus
        <4> HIDE DEF w
        <4> QED BY <3>3, <4>1, <4>2 DEF Reported
      <3>5. CASE \E event \in MouseErrors : TransferFailed("in", event)
        <4>1. PICK event \in MouseErrors : TransferFailed("in", event)
          BY <3>5
        <4>2. StatusOf[event] \in IrpStatus
          BY DEF MouseErrors, StatusOf, IrpStatus, Error
        <4> DEFINE s == StatusOf[event]
        <4>3. drv'["in"] = [Oldest(w, s) EXCEPT !.state = "HALTED"] /\ evtq'["in"] = <<event>>
          BY <1>1, <3>1, <3>2, <4>1 DEF TransferFailed, ChanFailed, MousePipes
        <4>4. \E x \in IrpDone : x.irp = "DATA" /\ [Oldest(w, s) EXCEPT !.state = "HALTED"] = InEnded(event, x)
          BY <3>1, <4>2, InEnds
        <4> HIDE DEF w, s
        <4> QED BY <3>3, <4>3, <4>4 DEF Reported
      <3> QED BY <1>7, <3>4, <3>5
    <2>5. drv'["ctrl"] = drv["ctrl"] /\ task'["ctrl"] = task["ctrl"]
      BY <1>1, <1>3, <1>7 DEF OneMoves, MousePipes, DataPipe
    <2>6. ReportGoes => ReportGoes'
      BY <2>3, <2>4 DEF ReportGoes
    <2> QED BY <1>4, <1>7, <2>2, <2>5, <2>6, InGoes
  <1>8. CASE p \notin {"in", "ctrl"}
    BY <1>1, <1>4, <1>8 DEF MouseOpened, DataPipe
  <1> QED BY <1>5, <1>6, <1>7, <1>8

\* The task of the IN pipe.
LEMMA ReportTask ==
    ASSUME TypeOK, Mouse, MouseReports, MouseThere, PipeTask("in")
    PROVE  ReportsKept
  <1>1. MousePipes /\ Owned /\ TaskStep("in") /\ "in" \in Pipe /\ vport.conn_devc_ena /\ task["in"].at # "none"
    BY MousePipesKnown DEF Mouse, Visit, PortVisit, Hardware, ObjectsVisit, PipeTask, MousePipes, MouseThere, TaskStep,
       Receive, HandleSetAddr, HandleSetAddrEnd, HandleSetConfig, HandleError, HandleOther, FreeIrp, HandlesDone, Handles
  <1>2. OneMoves("in") /\ Life("in") = "whole" /\ Life("in")' = Life("in")
    BY <1>1, StepMoves DEF OneMoves, Life
  <1>3. drv'["ctrl"] = drv["ctrl"] /\ task'["ctrl"] = task["ctrl"] /\ DOMAIN drv = Pipe /\ drv["in"] \in Driver_t
    BY <1>1, <1>2, LifeType DEF OneMoves, MousePipes, DataPipe
  <1>4. ~Unasked
    BY <1>1 DEF Unasked, TaskStep, Receive, HandleSetAddr, HandleSetAddrEnd, HandleSetConfig, HandleError, HandleOther, FreeIrp, HandlesDone, Handles
  <1>5. ASSUME ReportGoes PROVE ReportGoes'
    <2>1. CASE Receive("in")
      <3>1. Reported /\ task["in"].at = "blocked"
        BY <1>5, <2>1 DEF ReportGoes, OnItsWay, InHand, ToAskAgain, Receive
      <3>2. PICK event \in {"IRP_DONE"} \union MouseErrors, x \in IrpDone :
               x.irp = "DATA" /\ drv["in"] = InEnded(event, x) /\ evtq["in"] = <<event>>
        BY <3>1 DEF Reported
      <3>3. <<x>> # << >> /\ Head(<<x>>) = x /\ Tail(<<x>>) = << >> /\ Head(<<event>>) = event /\ Tail(<<event>>) = << >>
            /\ <<x>> \in Seq(IrpDone)
        <4>1. <<x>> # << >> /\ Head(<<x>>) = x /\ Tail(<<x>>) = << >> /\ <<x>> \in Seq(IrpDone)
          OBVIOUS
        <4>2. Head(<<event>>) = event /\ Tail(<<event>>) = << >>
          OBVIOUS
        <4> QED BY <4>1, <4>2
      <3> DEFINE q == <<x>>
                 a == InAfter(event)
      <3>4. a \in Driver_t /\ a.moving = << >> /\ a.pending = << >> /\ a.done = << >> /\ q \in Seq(IrpDone) /\ drv["in"] = [a EXCEPT !.done = q]
        BY <3>2, <3>3, InFields DEF InEnded
      <3> HIDE DEF a
      <3>5. drv["in"].done = q /\ drv["in"].alloc = a.alloc /\ drv["in"].state = a.state /\ drv["in"].moving = << >> /\ drv["in"].pending = << >>
        <4> HIDE DEF q
        <4> QED BY <3>4, DoneSet
      <3>6. /\ drv'["in"] = [drv["in"] EXCEPT !.done = Tail(@)]
            /\ task'["in"] = [at |-> "handle", event |-> event, irp |-> x] /\ evtq'["in"] = << >>
        <4>1. drv["in"].done # << >> /\ Head(drv["in"].done) = x
          BY <3>3, <3>5
        <4>2. Head(evtq["in"]) = event /\ Tail(evtq["in"]) = << >>
          BY <3>2, <3>3
        <4>3. drv'["in"] = [drv["in"] EXCEPT !.done = Tail(@)]
          BY <1>1, <1>3, <2>1, <4>1 DEF Receive, IrpDequeue
        <4> QED BY <1>1, <2>1, <4>1, <4>2, <4>3, ReceiveFields
      <3>7. drv'["in"] = a
        <4> DEFINE d == drv["in"]
                   e == drv'["in"]
                   n == << >>
        <4>1. e = [d EXCEPT !.done = n] /\ n \in Seq(IrpDone)
          BY <3>3, <3>5, <3>6
        <4> HIDE DEF d, e, n
        <4>2. d \in Driver_t
          BY <1>3 DEF d
        <4>3. e \in Driver_t /\ e.alloc = d.alloc /\ e.moving = d.moving /\ e.pending = d.pending /\ e.state = d.state /\ e.done = n
          BY <4>1, <4>2, DoneSet
        <4> QED BY <3>4, <3>5, <4>3, SamePipe DEF d, e, n
      <3>8. InHand'
        BY <3>2, <3>6, <3>7 DEF InHand, a
      <3> QED BY <3>8 DEF ReportGoes
    <2>2. CASE FreeIrp("in")
      <3>1. task'["in"] = TaskIn("blocked") /\ drv' = drv /\ evtq' = evtq /\ task["in"].at = "free"
        BY <1>1, <2>2, LifeType DEF FreeIrp
      <3>2. task'["in"].at = "blocked"
        BY <3>1 DEF TaskIn
      <3>3. OnItsWay \/ Reported
        BY <1>5, <3>1 DEF ReportGoes, InHand, ToAskAgain
      <3> QED BY <3>1, <3>2, <3>3 DEF ReportGoes, OnItsWay, Reported
    <2>3. CASE HandleError("in") \/ HandleOther("in")
      <3>1. InHand /\ Goto("in", "class") /\ UNCHANGED evtq
        BY <1>5, <2>3 DEF ReportGoes, OnItsWay, Reported, ToAskAgain, HandleError, HandleOther, Handles
      <3>2. task'["in"].at = "class"
        BY <1>1, <3>1, GotoFields
      <3>3. drv'["in"] = NewIn
        <4>1. CASE HandleError("in")
          <5>1. reset("in") /\ drv["in"] = InAfter(task["in"].event)
            BY <3>1, <4>1 DEF HandleError, InHand
          <5>2. CanCommand("in")
            BY <1>1, <5>1, InFields DEF CanCommand
          <5> QED BY <1>1, <5>1, <5>2, ResetFields, InReset
        <4>2. CASE HandleOther("in")
          <5>1. drv' = drv /\ task["in"].event = "IRP_DONE"
            BY <3>1, <4>2 DEF HandleOther, Handles, InHand, MouseErrors
          <5> QED BY <3>1, <5>1, InDone DEF InHand
        <4> QED BY <2>3, <4>1, <4>2
      <3>4. ToAskAgain'
        BY <3>1, <3>2, <3>3 DEF ToAskAgain, InHand
      <3> QED BY <3>4 DEF ReportGoes
    <2>4. CASE HandleSetAddr("in") \/ HandleSetAddrEnd("in") \/ HandleSetConfig("in")
      <3>1. \/ task["in"].at = "handle" /\ task["in"].irp.irp \in {"SET_ADDR", "SET_CFG"}
            \/ task["in"].at = "set_config"
        BY <2>4 DEF HandleSetAddr, HandleSetAddrEnd, HandleSetConfig, HandlesDone, Handles
      <3> QED BY <1>5, <3>1 DEF ReportGoes, OnItsWay, Reported, InHand, ToAskAgain
    <2> QED BY <1>1, <2>1, <2>2, <2>3, <2>4 DEF TaskStep
  <1> QED BY <1>2, <1>3, <1>4, <1>5, InGoes

\* The tasks of the pipes.
LEMMA ReportTasks ==
    ASSUME TypeOK, Mouse, MouseReports, MouseThere, NEW p \in Pipe, PipeTask(p)
    PROVE  ReportsKept
  <1>1. MousePipes /\ Owned /\ TaskStep(p) /\ MouseOpened
    BY MousePipesKnown DEF Mouse, Visit, ObjectsVisit, PipeTask
  <1>2. OneMoves(p) /\ Life(p) = "whole" /\ Life("in")' = Life("in")
    BY <1>1, StepMoves DEF OneMoves, Life
  <1>3. p \in {"in", "ctrl"}
    BY <1>1, <1>2 DEF MouseOpened, DataPipe
  <1>4. CASE p = "ctrl"
    <2>1. OneMap' /\ (Life("in") # "none" /\ MapComing' => MapComing)
      BY <1>4, MapTask DEF MouseReports
    <2>2. drv'["in"] = drv["in"] /\ task'["in"] = task["in"] /\ evtq'["in"] = evtq["in"]
      BY <1>1, <1>2, <1>4 DEF OneMoves, MousePipes, DataPipe
    <2>3. CASE Life("in") = "whole"
      BY <2>1, <2>2, <2>3, InStays
    <2>4. CASE Life("in") # "whole"
      BY <1>2, <2>1, <2>4, NotReporting DEF ReportsKept, MouseReports, OneReport
    <2> QED BY <2>3, <2>4
  <1> QED BY <1>3, <1>4, ReportTask

-----------------------------------------------------------------------------
(* The callbacks, where the mouse is there                                 *)

\* ctrl_pipe_cb of anything else,
LEMMA ReportOther ==
    ASSUME TypeOK, Mouse, MouseReports, MouseThere, MouseRest, MouseCtrlOther
    PROVE  ReportsKept
  <1>1. MousePipes /\ UNCHANGED <<drv, obj, evtq>> /\ Goto("ctrl", "free") /\ Life("in")' = Life("in")
    BY MousePipesKnown DEF MouseCtrlOther, Life
  <1>2. task'["ctrl"].at = "free" /\ task'["in"] = task["in"]
    BY <1>1, GotoFields DEF MousePipes, DataPipe
  <1>3. OneMap' /\ (MapComing' => MapComing)
    BY <1>1, <1>2, MapKept DEF MouseReports, MapToAsk, MapInHand
  <1>4. CASE Life("in") = "whole"
    BY <1>1, <1>2, <1>3, <1>4, InStays
  <1>5. CASE Life("in") # "whole"
    BY <1>1, <1>3, <1>5, NotReporting DEF ReportsKept, MouseReports, OneReport
  <1> QED BY <1>4, <1>5

\* begin of the pipe,
LEMMA ReportBegins ==
    ASSUME TypeOK, Mouse, Mouse', MouseReports, MouseThere, PortBlocked, MouseRest, MouseBegin
    PROVE  ReportsKept
  <1>1. Requests(drv["ctrl"]) = << >> /\ drv' = drv /\ Life("in") = "none" /\ vport.conn_devc_ena
    BY MouseBegins DEF MouseBegin
  <1>2. task'["ctrl"].at = "begin_in_alloc"
    BY <1>1, MouseBeginFields
  <1>3. Life("in")' = "raw"
    BY <1>2 DEF Mouse, MouseOpened
  <1> DEFINE s == Requests(drv["ctrl"])
  <1>4. MapAsked' = {k \in DOMAIN s : s[k] = "REPORT_MAP"} /\ s = << >>
    BY <1>1 DEF MapAsked
  <1> HIDE DEF s
  <1>5. MapAsked' = {}
    BY <1>4
  <1> QED BY <1>1, <1>3, <1>5, NotReporting DEF ReportsKept, MouseReports, OneMap, OneReport

\* which then is as it should be,
LEMMA ReportAllocs ==
    ASSUME TypeOK, Mouse, MouseReports, MouseThere, PortBlocked, MouseRest, MouseBeginAlloc
    PROVE  ReportsKept
  <1>1. MousePipes /\ Life("in") = "raw" /\ drv'["in"] = NewIn /\ drv'["ctrl"] = drv["ctrl"]
        /\ task'["in"] = TaskIn("blocked") /\ evtq["in"] = << >> /\ evtq' = evtq
    BY MousePipesKnown, MouseAllocs DEF NewIn
  <1>2. task["ctrl"].at = "begin_in_alloc" /\ task'["ctrl"].at = "ready"
    BY MouseAllocFields
  <1>4. OneMap'
    BY <1>1, <1>2, MapKept DEF MouseReports, MapToAsk, MapInHand
  <1>5. Unasked'
    BY <1>1 DEF Unasked, TaskIn
  <1> QED BY <1>1, <1>4, <1>5, NotReporting DEF ReportsKept, MouseReports, OneReport

\* what the application asks for when the device is ready,
LEMMA ReportAsks ==
    ASSUME TypeOK, Mouse, MouseReports, MouseThere, PortBlocked, MouseRest, setIdle \/ getHidReportMap
    PROVE  ReportsKept
  <1> DEFINE req == IF setIdle THEN "IDLE" ELSE "REPORT_MAP"
             at == IF setIdle THEN "report_map" ELSE "free"
             s == Requests(drv["ctrl"])
             t == Requests(drv'["ctrl"])
  <1>1. /\ req \in {"IDLE", "REPORT_MAP"} /\ at \in {"free", "report_map"} /\ task["ctrl"].at \in {"ready", "report_map"}
        /\ SubmitIrp("ctrl", req) /\ Goto("ctrl", at) /\ UNCHANGED <<obj, evtq>>
        /\ at = "report_map" => task["ctrl"].at = "ready" /\ req = "IDLE"
    BY DEF setIdle, getHidReportMap
  <1> HIDE DEF req, at
  <1>2. /\ MousePipes /\ Life("in") = "whole" /\ (\A r \in Pipe \ {"ctrl"} : drv'[r] = drv[r])
        /\ (t = s \/ t = Append(s, req))
    BY <1>1, MousePipesKnown, MouseAsks
  <1>3. task'["ctrl"].at = at /\ task'["in"] = task["in"] /\ drv'["in"] = drv["in"] /\ drv["ctrl"] \in Driver_t
    BY <1>1, <1>2, GotoFields, LifeType DEF MousePipes, DataPipe
  <1>4. MapToAsk /\ MapAsked = {}
    BY <1>1, <1>2 DEF MapToAsk, MouseReports, OneMap, MouseThere
  <1>5. s \in Seq(Irp) /\ req \in Irp /\ MapAsked = {k \in DOMAIN s : s[k] = "REPORT_MAP"} /\ MapAsked' = {k \in DOMAIN t : t[k] = "REPORT_MAP"}
    BY <1>1, <1>3, RequestsType, MouseAssumption DEF MapAsked
  <1> HIDE DEF s, t
  <1>6. /\ \A j, k \in DOMAIN t : t[j] = "REPORT_MAP" /\ t[k] = "REPORT_MAP" => j = k
        /\ req # "REPORT_MAP" => \A k \in DOMAIN t : t[k] # "REPORT_MAP"
    BY <1>2, <1>4, <1>5, MapAdded
  <1>7. OneMap'
    <2>1. ~MapInHand' /\ (MapToAsk' => req # "REPORT_MAP")
      BY <1>1, <1>3 DEF MapInHand, MapToAsk
    <2> QED BY <1>5, <1>6, <2>1 DEF OneMap
  <1>8. evtq'["in"] = evtq["in"] /\ MapComing
    BY <1>1, <1>4 DEF MapComing
  <1> QED BY <1>2, <1>3, <1>7, <1>8, InStays

\* the first report, for which the pipe is free,
LEMMA ReportFirst ==
    ASSUME TypeOK, Mouse, MouseReports, MouseThere, PortBlocked, MouseRest, FirstReport
    PROVE  ReportsKept
  <1>1. MousePipes /\ task["ctrl"].at = "class" /\ task["ctrl"].irp.irp = "REPORT_MAP" /\ SubmitIrp("in", "DATA")
        /\ Goto("ctrl", "free") /\ UNCHANGED <<obj, evtq, vport>>
    BY MousePipesKnown DEF FirstReport, MouseBringsReportMap, inData, MouseRest
  <1>2. Life("in") = "whole" /\ Life("in")' = Life("in") /\ "DATA" \in Irp
    BY <1>1, ReportMapComes, MouseAssumption DEF Life
  <1>3. MapInHand /\ ~MapToAsk /\ MapAsked = {}
    BY <1>1, <1>2 DEF MapInHand, MapToAsk, MouseReports, OneMap, MouseThere
  <1>4. Unasked
    BY <1>2, <1>3 DEF MouseReports, OneReport, MapComing, MouseThere
  <1>5. drv["in"].alloc /\ drv["in"].state = "ACTIVE"
    BY <1>4, InFields DEF Unasked
  <1>6. drv'["in"] = Enqueue(NewIn, "DATA") /\ drv'["ctrl"] = drv["ctrl"]
    <2>1. Accepts("in")
      BY <1>5 DEF Accepts, MouseThere
    <2> QED BY <1>1, <1>2, <1>4, <2>1, SubmitFields DEF MousePipes, DataPipe, Unasked
  <1>7. task'["ctrl"].at = "free" /\ task'["in"] = task["in"]
    BY <1>1, GotoFields DEF MousePipes, DataPipe
  <1>8. ~MapToAsk' /\ ~MapInHand' /\ MapAsked' = {}
    BY <1>3, <1>6, <1>7 DEF MapToAsk, MapInHand, MapAsked
  <1>9. ReportGoes'
    BY <1>1, <1>4, <1>6, <1>7 DEF ReportGoes, OnItsWay, Unasked
  <1>10. Reporting'
    BY <1>9, GoesReports, PTL
  <1> QED BY <1>8, <1>9, <1>10 DEF ReportsKept, MouseReports, OneMap, OneReport, MapComing

\* and in_pipe_cb: the next.
LEMMA ReportNext ==
    ASSUME TypeOK, Mouse, MouseReports, MouseThere, MouseRest, MouseIn
    PROVE  ReportsKept
  <1>1. MousePipes /\ Owned /\ task["in"].at = "class" /\ Goto("in", "free") /\ UNCHANGED <<obj, evtq>>
    BY MousePipesKnown, MouseInFields DEF Mouse, Visit, ObjectsVisit
  <1>2. Life("in") = "whole" /\ Life("in")' = Life("in") /\ DOMAIN drv = Pipe
    BY <1>1, BusyIsWhole, LifeType DEF MousePipes, Life
  <1>3. ~Unasked
    BY <1>1 DEF Unasked
  <1>4. ToAskAgain
    BY <1>1, <1>2, <1>3 DEF MouseReports, OneReport, MouseThere, ReportGoes, OnItsWay, Reported, InHand
  <1>5. MouseReset = NewIn
    <2>1. ResetPipe(NewIn) = NewIn
      BY InReset, InDone
    <2> QED BY <1>4, <2>1 DEF MouseReset, ToAskAgain
  <1>6. MouseReset.state = "ACTIVE" /\ vport.state = "ENABLED"
    BY <1>5, InFields DEF MouseThere
  <1>7. drv' = [drv EXCEPT !["in"] = Enqueue(MouseReset, "DATA")]
    BY <1>6, MouseInFields
  <1>8. drv'["in"] = Enqueue(NewIn, "DATA") /\ drv'["ctrl"] = drv["ctrl"]
    BY <1>1, <1>2, <1>5, <1>7 DEF MousePipes, DataPipe
  <1>9. task'["in"].at = "free" /\ task'["ctrl"] = task["ctrl"]
    BY <1>1, GotoFields DEF MousePipes, DataPipe
  <1>10. ReportGoes'
    BY <1>1, <1>4, <1>8, <1>9 DEF ReportGoes, OnItsWay, ToAskAgain
  <1> QED BY <1>2, <1>3, <1>8, <1>9, <1>10, InGoes

-----------------------------------------------------------------------------
(* The session                                                             *)

\* Every step of a session, where the mouse is there after it.
LEMMA ReportStep ==
    ASSUME PortInv, MouseVisiting, MouseVisiting', MouseReports, MouseThere', [MouseSessionNext]_vars
    PROVE  ReportsKept
  <1>1. TypeOK /\ Mouse /\ Mouse'
    BY DEF PortInv, MouseVisiting, Mouse
  <1>2. CASE PortQuiet
    BY <1>1, <1>2, QuietGoesOn
  <1>3. ASSUME NEW p \in Pipe, PipeTask(p) PROVE ReportsKept
    BY <1>1, <1>3, ReportTasks DEF PipeTask, MouseThere
  <1>4. ASSUME NEW p \in Pipe, MousePipeCb(p) PROVE ReportsKept
    <2>1. PortBlocked /\ MouseRest /\ MouseThere
      BY <1>4 DEF MousePipeCb, MouseRest, MouseThere
    <2> QED BY <1>1, <1>4, <2>1, ReportOther, ReportBegins, ReportAllocs, ReportAsks, ReportFirst, ReportNext DEF MousePipeCb
  <1>5. CASE \/ Transfer
             \/ /\ \E event \in {"ERROR_XFER", "ERROR_STALL"} : TransferFailed("in", event)
                /\ UNCHANGED <<vport, vhw, op, portVars>>
    <2>1. UNCHANGED <<vport, vhw, op, portVars>> /\ "in" \in Pipe
      BY <1>5, MouseAssumption DEF Transfer
    <2>2. MouseThere
      BY <2>1 DEF MouseThere
    <2> QED BY <1>1, <1>5, <2>1, <2>2, ReportTransfers DEF Transfer, MouseErrors
  <1> QED BY <1>1, <1>2, <1>3, <1>4, <1>5, QuietTask, QuietPort DEF MouseSessionNext, MouseTasks

\* The invariant holds at the start,
LEMMA ReportsInit == Init => MouseReports
  BY DEF Init, ViewInit, MouseReports, OneMap, OneReport

\* and every step of the session keeps it.
LEMMA ReportsKeep == PortInv /\ MouseVisiting /\ MouseVisiting' /\ MouseReports /\ [MouseSessionNext]_vars => MouseReports'
  <1> SUFFICES ASSUME PortInv, MouseVisiting, MouseVisiting', MouseReports, [MouseSessionNext]_vars PROVE MouseReports'
    OBVIOUS
  <1>1. CASE MouseThere'
    BY <1>1, ReportStep DEF ReportsKept
  <1>2. CASE ~MouseThere'
    BY <1>2 DEF MouseThere, MouseReports, OneMap, OneReport
  <1> QED BY <1>1, <1>2

\* Once the reports have begun they go on until the mouse is gone: through transaction
\* errors and stalls, after which the task of the pipe resets it and in_pipe_cb resets it
\* again, there always is one request on the way, or its answer, and it is one only.  (Not
\* through an overflow: nothing resets the pipe then, and MouseSession leaves it out.)
THEOREM ReportsContinue == MouseSession => ReportsGoOn
  <1>1. [MouseSessionNext]_vars => [MouseNext]_vars
    BY MouseSessionSteps
  <1>2. MouseSession => Init /\ [][MouseSessionNext]_vars
    BY PTL DEF MouseSession
  <1>3. PortInv /\ [MouseSessionNext]_vars => PortInv'
    BY <1>1, MousePortNext
  <1>4. Init /\ [][MouseSessionNext]_vars => [](PortInv /\ MouseVisiting /\ MouseReports)
    BY <1>3, PortInvInit, MouseSessionInit, MouseSessionKeeps, ReportsInit, ReportsKeep, PTL
  <1>5. PortInv /\ MouseVisiting /\ MouseVisiting' /\ MouseReports /\ [MouseSessionNext]_vars
           => [Reporting /\ vport'.state = "ENABLED" => Reporting']_vars
    BY ReportStep DEF MouseThere, ReportsKept
  <1> QED BY <1>2, <1>4, <1>5, PTL DEF ReportsGoOn

=============================================================================
