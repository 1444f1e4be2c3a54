----------------------------- MODULE MouseHost -----------------------------
(***************************************************************************)
(* The mouse class driver (mousepipe.cpp) on the host layer, with an       *)
(* application that does what examples/mouse does: it asks for the report  *)
(* map when the device is ready, and for the first report when the map has *)
(* come.                                                                   *)
(***************************************************************************)
EXTENDS HostPort

\* There are the IN pipe, the requests that the example makes and that for a report.
ASSUME MouseAssumption == "in" \in Pipe /\ {"IDLE", "REPORT_MAP", "DATA"} \subseteq Irp

-----------------------------------------------------------------------------
(* port_cb *)

MousePortNone ==
    /\ port_task.at = "class"
    /\ ~callback \/ port_task.event \notin {"CONNECTION", "SUDDEN_DISCONN"}
    /\ PortGoto("act")
    /\ UNCHANGED <<viewVars, hostPipeVars, port_evtq, app, callback, ready, plugs>>

MousePortConnection ==
    /\ port_task.at = "class" /\ callback /\ port_task.event = "CONNECTION"
    /\ Connect

MouseDeviceDesc ==
    /\ port_task.at = "get_desc"
    /\ getDeviceDescriptor("ctrl")
    /\ PortGoto("set_addr")
    /\ UNCHANGED <<vport, vhw, op, obj, evtq, task, addr, dev_addr, port_evtq, app, callback, ready, plugs>>

MouseSetAddr ==
    /\ port_task.at = "set_addr"
    /\ setDeviceAddress("ctrl")
    /\ PortGoto("act")
    /\ UNCHANGED <<vport, vhw, op, obj, evtq, task, addr, dev_addr, port_evtq, app, callback, ready, plugs>>

\* As MousePortLost, with a pipe that stays.
MousePortLostKept ==
    /\ port_task.at = "class" /\ callback /\ port_task.event = "SUDDEN_DISCONN"
    /\ PortGoto("act")
    /\ UNCHANGED <<viewVars, hostPipeVars, port_evtq, app, callback, ready, plugs>>

\* The IN pipe is deleted, and its pointer stays.
MousePortLost ==
    /\ port_task.at = "class" /\ callback /\ port_task.event = "SUDDEN_DISCONN"
    /\ DeletePipes({p \in {"in"} : obj[p].ptr = "set"}, "set")
    /\ PortGoto("act")
    /\ UNCHANGED <<vport, vhw, op, addr, dev_addr, port_evtq, app, callback, ready, plugs>>

-----------------------------------------------------------------------------
(* ctrl_pipe_cb, begin, and what the application asks for *)

MouseBringsConfig ==
    /\ task["ctrl"].event = "IRP_DONE"
    /\ task["ctrl"].irp = [irp |-> "CFG_DESC", status |-> "COMPLETED"]

\* The event that the application waits for says nothing of the IRP's status.
MouseBringsReportMap ==
    task["ctrl"].event = "IRP_DONE" /\ task["ctrl"].irp.irp = "REPORT_MAP"

MouseCtrlOther ==
    /\ task["ctrl"].at = "class" /\ ~MouseBringsConfig /\ ~MouseBringsReportMap
    /\ Goto("ctrl", "free")
    /\ UNCHANGED <<drv, obj, evtq, addr, dev_addr, leaked, fault, ready>>

\* begin, up to the task of the new pipe
MouseBegin ==
    /\ task["ctrl"].at = "class" /\ MouseBringsConfig
    /\ NewPipe("in")
    /\ task' = [StartTask("in", task) EXCEPT !["ctrl"].at =
                   IF vport.conn_devc_ena THEN "begin_in_alloc" ELSE "ready"]
    /\ UNCHANGED <<drv, evtq, addr, dev_addr, leaked, ready>>

MouseBeginAlloc ==
    /\ task["ctrl"].at = "begin_in_alloc"
    /\ AllocPipe("in", Address)
    /\ task' = [QueueTask("in", task) EXCEPT !["ctrl"].at = "ready"]
    /\ UNCHANGED <<dev_addr, leaked, fault, ready>>

\* usbh_mouse_device_ready of the example
setIdle ==
    /\ task["ctrl"].at = "ready"
    /\ SubmitIrp("ctrl", "IDLE")
    /\ Goto("ctrl", "report_map")
    /\ ready' = TRUE
    /\ UNCHANGED <<obj, evtq, addr, dev_addr>>

\* As getHidReportMap, not called.
getHidReportMapNot ==
    /\ task["ctrl"].at = "report_map"
    /\ Goto("ctrl", "free")
    /\ UNCHANGED <<drv, obj, evtq, addr, dev_addr, leaked, fault, ready>>

getHidReportMap ==
    /\ task["ctrl"].at = "report_map"
    /\ SubmitIrp("ctrl", "REPORT_MAP")
    /\ Goto("ctrl", "free")
    /\ UNCHANGED <<obj, evtq, addr, dev_addr, ready>>

\* ctrl_pipe_cb of the example starts the reports.
FirstReport ==
    /\ task["ctrl"].at = "class" /\ MouseBringsReportMap
    /\ inData("in", "DATA")
    /\ Goto("ctrl", "free")
    /\ UNCHANGED <<obj, evtq, addr, dev_addr, ready>>

-----------------------------------------------------------------------------
(* in_pipe_cb *)

\* As MouseIn, with the request sent before the pipe is reset.
MouseInBeforeReset ==
    /\ task["in"].at = "class"
    /\ LET d == IF vport.state = "ENABLED" /\ drv["in"].state = "ACTIVE"
                THEN Enqueue(drv["in"], "DATA") ELSE drv["in"]
       IN  drv' = [drv EXCEPT !["in"] =
                      IF task["in"].event \in {"ERROR_XFER", "ERROR_STALL"} /\ CanCommand("in")
                      THEN ResetPipe(d) ELSE d]
    /\ Goto("in", "free")
    /\ UNCHANGED <<obj, evtq, addr, dev_addr, leaked, fault, ready>>

\* A known error resets the pipe once more; the next request is sent after every one.
MouseIn ==
    /\ task["in"].at = "class"
    /\ LET d == IF task["in"].event \in {"ERROR_XFER", "ERROR_STALL"} /\ CanCommand("in")
                THEN ResetPipe(drv["in"]) ELSE drv["in"]
       IN  IF vport.state = "ENABLED" /\ d.state = "ACTIVE"
           THEN drv' = [drv EXCEPT !["in"] = Enqueue(d, "DATA")] /\ UNCHANGED leaked
           ELSE drv' = [drv EXCEPT !["in"] = d] /\ Leak(1)
    /\ Goto("in", "free")
    /\ UNCHANGED <<obj, evtq, addr, dev_addr, fault, ready>>

-----------------------------------------------------------------------------

MousePortCb ==
    MousePortNone \/ MousePortConnection \/ MouseDeviceDesc \/ MouseSetAddr \/ MousePortLost

MousePipeCb(p) ==
    /\ PortBlocked
    /\ \/ p = "ctrl" /\ \/ MouseCtrlOther \/ MouseBegin \/ MouseBeginAlloc
                        \/ setIdle \/ getHidReportMap \/ FirstReport
       \/ p = "in" /\ MouseIn
    /\ UNCHANGED <<vport, vhw, op, port_evtq, port_task, app, callback, plugs>>

MouseTasks ==
    \/ init \/ initCallback
    \/ PortTask \/ MousePortCb
    \/ \E p \in Pipe : PipeTask(p) \/ MousePipeCb(p)

MouseNext ==
    /\ fault = "none"
    /\ \/ MouseTasks \/ Delay
       \/ Plug \/ Unplug \/ Enable \/ Fault \/ Overload
       \/ Transfer \/ TransferError(ErrorEvent) \/ TimeSlice

MouseSpec == Init /\ [][MouseNext]_vars

=============================================================================
