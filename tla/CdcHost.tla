------------------------------ MODULE CdcHost ------------------------------
(***************************************************************************)
(* The CDC class driver (cdchost.cpp) on the host layer: its callbacks of  *)
(* the port and of the three pipes, the requests of the application, and   *)
(* an application that does what examples/cdc does.                        *)
(***************************************************************************)
EXTENDS HostPort

CONSTANTS
    Payload,    \* what the first bytes of data read like: DATA, or a request
    MaxOut      \* bound: IRPs of the application on the OUT pipe

ASSUME CdcAssumption ==
    {"in", "out"} \subseteq Pipe /\ {"LINE", "STRING"} \union Payload \subseteq Irp

-----------------------------------------------------------------------------
(* port_cb *)

\* A task whose callback is not set skips it.
PortCbNone ==
    /\ port_task.at = "class"
    /\ ~callback \/ port_task.event \notin {"CONNECTION", "SUDDEN_DISCONN"}
    /\ PortGoto("act")
    /\ UNCHANGED <<viewVars, hostPipeVars, port_evtq, app, callback, ready, plugs>>

PortCbConnection ==
    /\ port_task.at = "class" /\ callback /\ port_task.event = "CONNECTION"
    /\ Connect

\* The first two requests of the enumeration.
PortCbDeviceDesc ==
    /\ port_task.at = "get_desc"
    /\ getDeviceDescriptor("ctrl")
    /\ PortGoto("set_addr")
    /\ UNCHANGED <<vport, vhw, op, obj, evtq, task, addr, dev_addr, port_evtq, app, callback, ready, plugs>>

PortCbSetAddr ==
    /\ port_task.at = "set_addr"
    /\ setDeviceAddress("ctrl")
    /\ PortGoto("act")
    /\ UNCHANGED <<vport, vhw, op, obj, evtq, task, addr, dev_addr, port_evtq, app, callback, ready, plugs>>

\* The data pipes are deleted, and the pointers stay.
PortCbLost ==
    /\ port_task.at = "class" /\ callback /\ port_task.event = "SUDDEN_DISCONN"
    /\ DeletePipes({p \in DataPipe : obj[p].ptr = "set"}, "set")
    /\ PortGoto("act")
    /\ UNCHANGED <<vport, vhw, op, addr, dev_addr, port_evtq, app, callback, ready, plugs>>

PortCb == PortCbNone \/ PortCbConnection \/ PortCbDeviceDesc \/ PortCbSetAddr \/ PortCbLost

-----------------------------------------------------------------------------
(* ctrl_pipe_cb and begin *)

\* Only the descriptor of the configuration, read with some bytes, has an effect;
\* of an IRP that did not complete no bytes are reported.
BringsConfig ==
    /\ task["ctrl"].event = "IRP_DONE"
    /\ task["ctrl"].irp = [irp |-> "CFG_DESC", status |-> "COMPLETED"]

CtrlCb ==
    /\ task["ctrl"].at = "class"
    /\ Goto("ctrl", IF BringsConfig THEN "begin_in" ELSE "free")
    /\ UNCHANGED <<drv, obj, evtq, addr, dev_addr, leaked, fault>>

\* begin opens the IN pipe and then the OUT pipe, each with an init in two halves.
Begin(p, at, next) ==
    /\ task["ctrl"].at = at
    /\ NewPipe(p)
    /\ task' = [StartTask(p, task) EXCEPT !["ctrl"].at = IF vport.conn_devc_ena THEN next[1] ELSE next[2]]
    /\ UNCHANGED <<drv, evtq, addr, dev_addr, leaked>>

BeginAlloc(p, at, next) ==
    /\ task["ctrl"].at = at
    /\ AllocPipe(p, Address)
    /\ task' = [QueueTask(p, task) EXCEPT !["ctrl"].at = next]
    /\ UNCHANGED <<dev_addr, leaked, fault>>

begin ==
    \/ Begin("in", "begin_in", <<"begin_in_alloc", "begin_out">>)
    \/ BeginAlloc("in", "begin_in_alloc", "begin_out")
    \/ Begin("out", "begin_out", <<"begin_out_alloc", "ready">>)
    \/ BeginAlloc("out", "begin_out_alloc", "ready")

\* usbh_cdc_device_ready of the example: setControlLine, setLineCoding, and the first
\* IN request.
DeviceReady ==
    /\ task["ctrl"].at = "ready"
    /\ \E data \in Payload :
          IF obj["in"].life = "whole" /\ obj["ctrl"].life = "whole"
          THEN LET line == Accepts("ctrl")
                   in == Accepts("in")
               IN  /\ drv' = [drv EXCEPT !["ctrl"] = IF line THEN Enqueue(Enqueue(@, "LINE"), "LINE")
                                                     ELSE @,
                                         !["in"] = IF in THEN Enqueue(@, data) ELSE @]
                   /\ Leak((IF line THEN 0 ELSE 2) + (IF in THEN 0 ELSE 1))
                   /\ UNCHANGED fault
          ELSE fault' = "use" /\ UNCHANGED <<drv, leaked>>
    /\ ready' = TRUE
    /\ Goto("ctrl", "free")
    /\ UNCHANGED <<obj, evtq, addr, dev_addr>>

-----------------------------------------------------------------------------
(* in_pipe_cb and out_pipe_cb *)

\* An error that the class driver knows resets the pipe, which pipe_event_task
\* has done before.
ClassReset(p) ==
    IF task[p].event \in {"ERROR_XFER", "ERROR_STALL"} /\ CanCommand(p)
    THEN ResetPipe(drv[p]) ELSE drv[p]

\* As InCb, with no request after an error.
InCbDoneOnly ==
    /\ task["in"].at = "class"
    /\ IF task["in"].event = "IRP_DONE"
       THEN \E data \in Payload : inData("in", data)
       ELSE UNCHANGED <<drv, leaked, fault>>
    /\ Goto("in", "free")
    /\ UNCHANGED <<obj, evtq, addr, dev_addr>>

\* Whatever has come of the last request, the next one is sent.
InCb ==
    /\ task["in"].at = "class"
    /\ LET d == ClassReset("in") IN
       \E data \in Payload :
          IF vport.state = "ENABLED" /\ d.state = "ACTIVE"
          THEN drv' = [drv EXCEPT !["in"] = Enqueue(d, data)] /\ UNCHANGED leaked
          ELSE drv' = [drv EXCEPT !["in"] = d] /\ Leak(1)
    /\ Goto("in", "free")
    /\ UNCHANGED <<obj, evtq, addr, dev_addr, fault>>

OutCb ==
    /\ task["out"].at = "class"
    /\ drv' = [drv EXCEPT !["out"] = ClassReset("out")]
    /\ Goto("out", "free")
    /\ UNCHANGED <<obj, evtq, addr, dev_addr, leaked, fault>>

-----------------------------------------------------------------------------
(* The application *)

AppRuns == PortBlocked /\ PipesBlocked

\* sendData: allocateIRP, then the enqueueing; the port task may come between.
\* Neither it nor the example looks at whether there is a pipe, or ever was one.
sendData ==
    /\ app = "loop" /\ AppRuns
    /\ Holds(drv["out"]) < MaxOut
    /\ app' = "sending"
    /\ UNCHANGED <<viewVars, hostPipeVars, port_evtq, port_task, callback, ready, plugs>>

sendDataEnd ==
    /\ app = "sending" /\ AppRuns
    /\ \E data \in Payload : outData("out", data)
    /\ app' = "loop"
    /\ UNCHANGED <<vport, vhw, op, obj, evtq, task, addr, dev_addr, port_evtq, port_task, callback, ready, plugs>>

\* setLineCoding, getSerialString and the like, whose IRP is enqueued in one go
\* here; their effect on the device is not modelled.
CtrlRequest(req) ==
    /\ app = "loop" /\ AppRuns
    /\ Holds(drv["ctrl"]) < MaxOut
    /\ SubmitIrp("ctrl", req)
    /\ UNCHANGED <<vport, vhw, op, obj, evtq, task, addr, dev_addr, portVars>>

\* The class driver tests its pointer,
setLineCoding == obj["ctrl"].ptr = "set" /\ CtrlRequest("LINE")

\* the port does not.
getSerialString == CtrlRequest("STRING")

-----------------------------------------------------------------------------

PipeCb ==
    /\ PortBlocked
    /\ \/ (CtrlCb \/ begin \/ InCb \/ OutCb) /\ UNCHANGED ready
       \/ DeviceReady
    /\ UNCHANGED <<vport, vhw, op, port_evtq, port_task, app, callback, plugs>>

Tasks ==
    \/ init \/ initCallback
    \/ PortTask \/ PortCb
    \/ \E p \in Pipe : PipeTask(p)
    \/ PipeCb

App == sendData \/ sendDataEnd \/ setLineCoding \/ getSerialString

Interrupt ==
    \/ Plug \/ Unplug \/ Enable \/ Fault \/ Overload
    \/ Transfer \/ TransferError(ErrorEvent) \/ TimeSlice

Next == fault = "none" /\ (Tasks \/ Delay \/ App \/ Interrupt)

Spec == Init /\ [][Next]_vars

=============================================================================
