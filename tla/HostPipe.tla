------------------------------ MODULE HostPipe ------------------------------
(***************************************************************************)
(* The pipes of the host layer (pipe.cpp): the USBHostPipe objects, the    *)
(* queue of events and the task of each, and the standard requests.        *)
(*                                                                         *)
(* The callback of the driver puts a message into the pipe's queue; the    *)
(* task takes it, dequeues an IRP, acts on both, lets the class driver act *)
(* and frees the IRP.  Who may run when is for HostPort to say: a step of  *)
(* this module is what a task does between two calls of the driver.        *)
(*                                                                         *)
(* An IRP is named after the request in its buffer.  The task reads the    *)
(* first bytes of every buffer as a control request, of data as well.      *)
(***************************************************************************)
EXTENDS HcdView

CONSTANTS
    QueueLen,   \* messages an event queue holds: 5
    Address,    \* the address given to the device
    MaxLeak     \* bound: IRPs counted as leaked

\* There is a control pipe, and a standard request for each step of the enumeration.
ASSUME HostPipeAssumption ==
    /\ IsFiniteSet(Pipe) /\ "ctrl" \in Pipe
    /\ {"DEV_DESC", "SET_ADDR", "SET_CFG", "CFG_DESC"} \subseteq Irp
    /\ QueueLen \in Nat \ {0} /\ MaxLeak \in Nat

VARIABLES
    obj,        \* the objects and the class driver's pointers to them
    evtq,       \* pipeEvtQueue, per pipe
    task,       \* the pipe tasks
    addr,       \* the device address in the pipe's ep_char
    dev_addr,   \* the address the device answers to
    leaked,     \* IRPs that nothing refers to any more
    fault       \* what went wrong with an object: it was used or deleted when it was
                \* not whole (which is undefined), or lost

hostPipeVars == <<obj, evtq, task, addr, dev_addr, leaked, fault>>

ErrorEvent == {"ERROR_XFER", "ERROR_STALL", "ERROR_OVERFLOW"}

StatusOf == [ERROR_XFER |-> "ERROR", ERROR_STALL |-> "STALL", ERROR_OVERFLOW |-> "OVERFLOW"]

Event == {"IRP_DONE", "INVALID"} \union ErrorEvent

NoIrp == [irp |-> "NONE", status |-> "NONE"]

\* life: "raw" is an object whose init has not come to its end, and has left
\* garbage in its handle.
Object == [ptr : {"null", "set"}, life : {"none", "raw", "whole"}]

\* "created": the task has been made, and its queue has not.
TaskAt == {"none", "created", "blocked", "handle", "set_config", "class", "begin_in", "begin_in_alloc",
           "begin_out", "begin_out_alloc", "ready", "report_map", "free"}

Task == [at : TaskAt, event : Event \union {"NONE"}, irp : IrpDone \union {NoIrp}]

TaskIn(at) == [at |-> at, event |-> "NONE", irp |-> NoIrp]

PipesInit ==
    /\ obj = [p \in Pipe |-> [ptr |-> "null", life |-> "none"]]
    /\ evtq = [p \in Pipe |-> << >>]
    /\ task = [p \in Pipe |-> TaskIn("none")]
    /\ addr = [p \in Pipe |-> 0]
    /\ dev_addr = 0
    /\ leaked = 0
    /\ fault = "none"

Leak(n) == leaked' = IF leaked + n > MaxLeak THEN MaxLeak ELSE leaked + n

Goto(p, at) == task' = [task EXCEPT ![p].at = at]

Runnable(p) == task[p].at # "none" /\ ~(task[p].at = "blocked" /\ evtq[p] = << >>)

-----------------------------------------------------------------------------
(* Transfers, and the callback of the driver *)

\* pipeCallback, from the interrupt: a message for a full queue is dropped.
Posted(p, event) ==
    evtq' = [evtq EXCEPT ![p] = IF Len(@) < QueueLen THEN Append(@, event) ELSE @]

\* The device answers at its address only; a SET_ADDRESS gives it another one.
TransferDone(p) ==
    /\ ChanDone(p)
    /\ addr[p] = dev_addr
    /\ dev_addr' = IF p = "ctrl" /\ Head(drv[p].moving) = "SET_ADDR" THEN Address ELSE dev_addr
    /\ Posted(p, "IRP_DONE")
    /\ UNCHANGED <<obj, task, addr, leaked, fault>>

TransferFailed(p, event) ==
    /\ ChanFailed(p, StatusOf[event])
    /\ Posted(p, event)
    /\ UNCHANGED <<obj, task, addr, dev_addr, leaked, fault>>

-----------------------------------------------------------------------------
(* Requests *)

\* allocateIRP and hcd_irp_enqueue: an IRP that the driver refuses is not freed.
SubmitIrp(p, req) ==
    IF obj[p].life # "whole"
    THEN fault' = "use" /\ UNCHANGED <<drv, leaked>>
    ELSE IF Accepts(p)
    THEN drv' = [drv EXCEPT ![p] = Enqueue(@, req)] /\ UNCHANGED <<leaked, fault>>
    ELSE Leak(1) /\ UNCHANGED <<drv, fault>>

getDeviceDescriptor(p) == SubmitIrp(p, "DEV_DESC")

setDeviceAddress(p) == SubmitIrp(p, "SET_ADDR")

setConfiguration(p) == SubmitIrp(p, "SET_CFG")

getConfigDescriptor(p) == SubmitIrp(p, "CFG_DESC")

getString(p) == SubmitIrp(p, "STRING")

inData(p, data) == SubmitIrp(p, data)

outData(p, data) == SubmitIrp(p, data)

CanUpdateAddress(p) == drv[p].state # "INVALID" /\ drv[p].pending = << >> /\ drv[p].done = << >>

\* As updateAddress, refused.
updateAddressNot(p, a) == addr' = addr

\* hcd_pipe_update_dev_addr; the caller does not look at its result.
updateAddress(p, a) ==
    addr' = [addr EXCEPT ![p] = IF CanUpdateAddress(p) THEN a ELSE @]

\* USBHostPipe::reset
reset(p) ==
    drv' = IF CanCommand(p) THEN [drv EXCEPT ![p] = ResetPipe(@)] ELSE drv

-----------------------------------------------------------------------------
(* pipe_event_task *)

\* A message that finds no IRP is skipped.
Receive(p) ==
    /\ task[p].at = "blocked" /\ evtq[p] # << >>
    /\ evtq' = [evtq EXCEPT ![p] = Tail(@)]
    /\ IF drv[p].done = << >>
       THEN UNCHANGED <<drv, task>>
       ELSE /\ IrpDequeue(p)
            /\ task' = [task EXCEPT ![p] = [at |-> "handle", event |-> Head(evtq[p]),
                                            irp |-> Head(drv[p].done)]]
    /\ UNCHANGED <<obj, addr, dev_addr, leaked, fault>>

Handles(p, event) == task[p].at = "handle" /\ task[p].event = event

HandlesDone(p, req) == Handles(p, "IRP_DONE") /\ task[p].irp.irp = req

\* Data that reads like the request has any address in it.
HandleSetAddr(p) ==
    /\ HandlesDone(p, "SET_ADDR")
    /\ \E a \in IF p = "ctrl" THEN {Address} ELSE {0, Address} : updateAddress(p, a)
    /\ Goto(p, "set_config")
    /\ UNCHANGED <<drv, obj, evtq, dev_addr, leaked, fault>>

HandleSetAddrEnd(p) ==
    /\ task[p].at = "set_config"
    /\ setConfiguration(p)
    /\ Goto(p, "class")
    /\ UNCHANGED <<obj, evtq, addr, dev_addr>>

HandleSetConfig(p) ==
    /\ HandlesDone(p, "SET_CFG")
    /\ getConfigDescriptor(p)
    /\ Goto(p, "class")
    /\ UNCHANGED <<obj, evtq, addr, dev_addr>>

\* Errors that the task knows reset the pipe.
HandleError(p) ==
    /\ Handles(p, "ERROR_XFER") \/ Handles(p, "ERROR_STALL")
    /\ reset(p)
    /\ Goto(p, "class")
    /\ UNCHANGED <<obj, evtq, addr, dev_addr, leaked, fault>>

\* The rest changes nothing here: descriptors are kept or handed to the
\* application, other events are logged.
HandleOther(p) ==
    /\ \/ \E event \in {"INVALID", "ERROR_OVERFLOW"} : Handles(p, event)
       \/ Handles(p, "IRP_DONE") /\ task[p].irp.irp \notin {"SET_ADDR", "SET_CFG"}
    /\ Goto(p, "class")
    /\ UNCHANGED <<drv, obj, evtq, addr, dev_addr, leaked, fault>>

FreeIrp(p) ==
    /\ task[p].at = "free"
    /\ task' = [task EXCEPT ![p] = TaskIn("blocked")]
    /\ UNCHANGED <<drv, obj, evtq, addr, dev_addr, leaked, fault>>

TaskStep(p) ==
    \/ Receive(p)
    \/ HandleSetAddr(p) \/ HandleSetAddrEnd(p) \/ HandleSetConfig(p)
    \/ HandleError(p) \/ HandleOther(p)
    \/ FreeIrp(p)

-----------------------------------------------------------------------------
(* Objects *)

\* new USBHostPipe and the first half of init, up to the task: without an enabled
\* device init returns, and nobody is told.  An object that was there before is
\* lost, with its pipe and its task.
NewPipe(p) ==
    /\ obj' = [obj EXCEPT ![p] = [ptr |-> "set", life |-> "raw"]]
    /\ fault' = IF obj[p].life = "none" THEN fault ELSE "lost"

StartTask(p, t) == IF vport.conn_devc_ena THEN [t EXCEPT ![p] = TaskIn("created")] ELSE t

\* A task that takes the core before there is a queue receives from the garbage in
\* pipeEvtQueue.
StartsEarly(p) ==
    /\ task[p].at = "created"
    /\ fault' = "use"
    /\ UNCHANGED <<drv, obj, evtq, task, addr, dev_addr, leaked>>

\* As AllocPipe, with the address that init has by default.
AllocPipeDefault(p, a) ==
    /\ evtq' = [evtq EXCEPT ![p] = << >>]
    /\ HcdPipeAlloc(p)
    /\ obj' = [obj EXCEPT ![p].life = "whole"]
    /\ addr' = [addr EXCEPT ![p] = 0]

\* The second half: the queue, and hcd_pipe_alloc, which, too, may fail with only a
\* message.
AllocPipe(p, a) ==
    /\ evtq' = [evtq EXCEPT ![p] = << >>]
    /\ IF vport.conn_devc_ena
       THEN /\ HcdPipeAlloc(p)
            /\ obj' = [obj EXCEPT ![p].life = "whole"]
            /\ addr' = [addr EXCEPT ![p] = a]
       ELSE UNCHANGED <<drv, obj, addr>>

\* From then on the task has a queue to wait for.
QueueTask(p, t) == [t EXCEPT ![p] = TaskIn("blocked")]

\* As Emptied, with IRPs that stay in the driver.
NotEmptied(d) == d

\* freePipe dequeues what is done.
Emptied(d) == [d EXCEPT !.done = << >>]

\* delete of the objects of S, from the port task, which leaves ptr in the
\* pointers: the driver's pipe goes if it is empty, the task is killed wherever
\* it is, with the IRP in its hands.
DeletePipes(S, ptr) ==
    IF \E p \in S : obj[p].life # "whole"
    THEN fault' = "delete" /\ UNCHANGED <<drv, obj, evtq, task, leaked>>
    ELSE /\ drv' = [p \in Pipe |->
                       IF p \notin S THEN drv[p]
                       ELSE IF CanFree(Emptied(drv[p])) THEN NoPipeYet ELSE Emptied(drv[p])]
         /\ obj' = [p \in Pipe |-> IF p \in S THEN [ptr |-> ptr, life |-> "none"] ELSE obj[p]]
         /\ evtq' = [p \in Pipe |-> IF p \in S THEN << >> ELSE evtq[p]]
         /\ task' = [p \in Pipe |-> IF p \in S THEN TaskIn("none") ELSE task[p]]
         /\ Leak(Cardinality({p \in S : task[p].irp # NoIrp}))
         /\ UNCHANGED fault

=============================================================================
