------------------------------ MODULE HostPort ------------------------------
(***************************************************************************)
(* The port of the host layer (port.cpp): its queue of events, its task,   *)
(* the connection of a device and the way back from its sudden loss; and   *)
(* the schedule of all the tasks.                                          *)
(*                                                                         *)
(* The ESP32-S2 has one core: the port task (priority 16) goes before the  *)
(* pipe tasks (15), and these before the application (1).  A task runs     *)
(* while those above it are blocked; an interrupt comes at any time.  The  *)
(* driver's delays are times in which the port task is blocked.            *)
(*                                                                         *)
(* CdcHost and MouseHost add the callbacks of their class.                 *)
(***************************************************************************)
EXTENDS HostPipe

CONSTANT MaxPlugs   \* bound: connections of a device

ASSUME PlugsAssumption == MaxPlugs \in Nat

VARIABLES
    port_evtq,  \* port_evt_queue
    port_task,  \* port_event_task
    app,        \* the application
    callback,   \* USBHostPort::callback is set
    ready,      \* the application has been told of the device, and not of its loss
    plugs       \* connections so far

portVars == <<port_evtq, port_task, app, callback, ready, plugs>>

vars == <<viewVars, hostPipeVars, portVars>>

PortEvent == {"CONNECTION", "DISCONNECTION", "ERROR", "OVERCURRENT", "SUDDEN_DISCONN"}

PortTaskAt ==
    {"none", "blocked", "handle", "debounce", "post", "invalidate", "class",
     "reset", "connected", "alloc_pipe", "get_desc", "set_addr",
     "act", "free_ctrl", "recover", "power_on"}

NoPipe == "NONE"

DataPipe == Pipe \ {"ctrl"}

Init ==
    /\ ViewInit
    /\ PipesInit
    /\ port_evtq = << >>
    /\ port_task = [at |-> "none", event |-> "NONE", cur |-> NoPipe]
    /\ app = "boot"
    /\ callback = FALSE
    /\ ready = FALSE
    /\ plugs = 0

TypeOK ==
    /\ vport \in [state : {"NOT_POWERED", "DISCONNECTED", "DISABLED", "RESETTING", "ENABLED", "RECOVERY"},
                  last_event : PortEvent \union {"NONE"},
                  event_pending : BOOLEAN, conn_devc_ena : BOOLEAN]
    /\ vhw \in [powered : BOOLEAN, connected : BOOLEAN, debouncing : BOOLEAN]
    /\ op \in {"idle", "reset", "debounce", "invalidate"}
    /\ drv \in [Pipe -> Driver_t]
    /\ obj \in [Pipe -> Object]
    /\ evtq \in [Pipe -> Seq(Event)] /\ \A p \in Pipe : Len(evtq[p]) <= QueueLen
    /\ task \in [Pipe -> Task]
    /\ addr \in [Pipe -> {0, Address}] /\ dev_addr \in {0, Address}
    /\ leaked \in 0 .. MaxLeak
    /\ fault \in {"none", "use", "delete", "lost"}
    /\ port_evtq \in Seq(PortEvent) /\ Len(port_evtq) <= QueueLen
    /\ port_task \in [at : PortTaskAt, event : PortEvent \union {"NONE"}, cur : Pipe \union {NoPipe}]
    /\ app \in {"boot", "init", "loop", "sending"}
    /\ callback \in BOOLEAN /\ ready \in BOOLEAN
    /\ plugs \in 0 .. MaxPlugs

-----------------------------------------------------------------------------
(* The schedule *)

PortBlocked ==
    \/ port_task.at \in {"none", "debounce", "reset"}
    \/ port_task.at = "blocked" /\ port_evtq = << >>
    \/ port_task.at = "post" /\ Len(evtq[port_task.cur]) = QueueLen

PipesBlocked == \A p \in Pipe : ~Runnable(p)

-----------------------------------------------------------------------------
(* The port interrupt: port_callback sends what is raised to the port task. *)

\* As PortCallback, without messages during an operation of the port.
PortCallbackIdle ==
    port_evtq' = IF vport'.event_pending /\ ~vport.event_pending /\ op = "idle"
                 THEN Append(port_evtq, vport'.last_event) ELSE port_evtq

PortCallback ==
    port_evtq' = IF vport'.event_pending /\ (~vport.event_pending \/ vport'.last_event # vport.last_event)
                     /\ Len(port_evtq) < QueueLen
                 THEN Append(port_evtq, vport'.last_event) ELSE port_evtq

PortInterrupt(interrupt) ==
    /\ interrupt
    /\ PortCallback
    /\ UNCHANGED <<obj, evtq, task, addr, leaked, fault, port_task, app, callback, ready>>

\* A device that is plugged in answers at address 0.
Plug ==
    /\ plugs < MaxPlugs
    /\ plugs' = plugs + 1
    /\ dev_addr' = 0
    /\ PortInterrupt(Connected)

Unplug == PortInterrupt(Disconnected) /\ UNCHANGED <<dev_addr, plugs>>

Enable == PortInterrupt(Enabled) /\ UNCHANGED <<dev_addr, plugs>>

Fault == PortInterrupt(PortFault) /\ UNCHANGED <<dev_addr, plugs>>

Overload == PortInterrupt(Overcurrent) /\ UNCHANGED <<dev_addr, plugs>>

-----------------------------------------------------------------------------
(* port_event_task *)

PortGoto(at) == port_task' = [port_task EXCEPT !.at = at]

PortReceive ==
    /\ port_task.at = "blocked" /\ port_evtq # << >>
    /\ port_task' = [at |-> "handle", event |-> Head(port_evtq), cur |-> NoPipe]
    /\ port_evtq' = Tail(port_evtq)
    /\ UNCHANGED <<viewVars, hostPipeVars, app, callback, ready, plugs>>

\* The event that the driver handles is its last one, the message's or not.
HandleNothing ==
    /\ port_task.at = "handle" /\ ~vport.event_pending
    /\ PortGoto("class")
    /\ UNCHANGED <<viewVars, hostPipeVars, port_evtq, app, callback, ready, plugs>>

HandleConn ==
    /\ port_task.at = "handle"
    /\ HandleConnEvent
    /\ PortGoto(IF op' = "idle" THEN "class" ELSE "debounce")
    /\ UNCHANGED <<hostPipeVars, port_evtq, app, callback, ready, plugs>>

\* The delay is long enough for the application to get through init.
HandleConnEnd ==
    /\ port_task.at = "debounce" /\ app # "init"
    /\ DebounceEnd
    /\ PortGoto("class")
    /\ UNCHANGED <<hostPipeVars, port_evtq, app, callback, ready, plugs>>

HandleLost ==
    /\ port_task.at = "handle"
    /\ \/ /\ HandleLossNoPipe
          /\ PortGoto("class")
       \/ \E p \in Pipe : /\ HandleLoss(p)
                          /\ port_task' = [port_task EXCEPT !.at = "post", !.cur = p]
    /\ UNCHANGED <<hostPipeVars, port_evtq, app, callback, ready, plugs>>

\* pipeCallback, from a task: waits for a place in the queue.
PostInvalid ==
    /\ port_task.at = "post"
    /\ Len(evtq[port_task.cur]) < QueueLen
    /\ evtq' = [evtq EXCEPT ![port_task.cur] = Append(@, "INVALID")]
    /\ PortGoto("invalidate")
    /\ UNCHANGED <<viewVars, obj, task, addr, dev_addr, leaked, fault, port_evtq, app, callback, ready, plugs>>

HandleLostNext ==
    /\ port_task.at = "invalidate"
    /\ \/ /\ InvalidateEnd
          /\ PortGoto("class")
       \/ \E p \in Pipe : /\ drv[p].state # "INVALID"
                          /\ InvalidateNext(p)
                          /\ port_task' = [port_task EXCEPT !.at = "post", !.cur = p]
    /\ UNCHANGED <<hostPipeVars, port_evtq, app, callback, ready, plugs>>

\* The user's callback, which comes last, and what the task does itself.
ActPowerOff ==
    /\ port_task.at = "act" /\ port_task.event = "DISCONNECTION"
    /\ \/ PowerOffPort
       \/ ~CanPowerOff /\ UNCHANGED viewVars
    /\ PortGoto("blocked")
    /\ UNCHANGED <<hostPipeVars, port_evtq, app, callback, ready, plugs>>

ActNothing ==
    /\ port_task.at = "act" /\ port_task.event \in {"CONNECTION", "ERROR", "OVERCURRENT"}
    /\ PortGoto("blocked")
    /\ UNCHANGED <<viewVars, hostPipeVars, port_evtq, app, callback, ready, plugs>>

-----------------------------------------------------------------------------
(* suddenDisconnect: reset, freeCTRLpipe, recover, powerON *)

\* The reset is always refused (MCCdc!ResetRefused), and changes nothing.
suddenDisconnect ==
    /\ port_task.at = "act" /\ port_task.event = "SUDDEN_DISCONN"
    /\ ~CanReset
    /\ ready' = FALSE
    /\ PortGoto("free_ctrl")
    /\ UNCHANGED <<viewVars, hostPipeVars, port_evtq, app, callback, plugs>>

\* As freeCTRLpipe, which forgets the pipe and does not delete it.
freeCTRLpipeKept ==
    /\ port_task.at = "free_ctrl"
    /\ obj' = [obj EXCEPT !["ctrl"].ptr = "null"]
    /\ PortGoto("recover")
    /\ UNCHANGED <<viewVars, evtq, task, leaked, fault, addr, dev_addr, port_evtq, app, callback, ready, plugs>>

freeCTRLpipe ==
    /\ port_task.at = "free_ctrl"
    /\ IF obj["ctrl"].ptr = "null"
       THEN UNCHANGED <<drv, obj, evtq, task, leaked, fault>>
       ELSE DeletePipes({"ctrl"}, "null")
    /\ PortGoto("recover")
    /\ UNCHANGED <<vport, vhw, op, addr, dev_addr, port_evtq, app, callback, ready, plugs>>

recover ==
    /\ port_task.at = "recover"
    /\ \/ RecoverPort
       \/ ~CanRecover /\ UNCHANGED viewVars
    /\ PortGoto("power_on")
    /\ UNCHANGED <<hostPipeVars, port_evtq, app, callback, ready, plugs>>

powerON ==
    /\ port_task.at = "power_on"
    /\ \/ PowerOnPort
       \/ ~CanPowerOn /\ UNCHANGED viewVars
    /\ PortGoto("blocked")
    /\ UNCHANGED <<hostPipeVars, port_evtq, app, callback, ready, plugs>>

-----------------------------------------------------------------------------
(* connect, called by the callback of a class driver *)

Connect ==
    /\ \/ /\ ResetPort
          /\ PortGoto("reset")
       \/ /\ ~CanReset
          /\ PortGoto("act")
          /\ UNCHANGED viewVars
    /\ UNCHANGED <<hostPipeVars, port_evtq, app, callback, ready, plugs>>

\* The driver's reset has succeeded if the port is enabled at its end.
ConnectReset ==
    /\ port_task.at = "reset"
    /\ ResetPortEnd
    /\ PortGoto(IF vport.state = "ENABLED" /\ vport.conn_devc_ena THEN "connected" ELSE "act")
    /\ dev_addr' = 0
    /\ UNCHANGED <<obj, evtq, task, addr, leaked, fault, port_evtq, app, callback, ready, plugs>>

\* getState, and addCTRLpipe of a new pipe up to the speed of the port
addCTRLpipe ==
    /\ port_task.at = "connected"
    /\ IF vport.state # "ENABLED"
       THEN PortGoto("act") /\ UNCHANGED <<obj, task, fault>>
       ELSE /\ NewPipe("ctrl")
            /\ task' = StartTask("ctrl", task)
            /\ PortGoto(IF vport.conn_devc_ena THEN "alloc_pipe" ELSE "get_desc")
    /\ UNCHANGED <<viewVars, evtq, addr, dev_addr, leaked, port_evtq, app, callback, ready, plugs>>

addCTRLpipeEnd ==
    /\ port_task.at = "alloc_pipe"
    /\ AllocPipe("ctrl", 0)
    /\ task' = QueueTask("ctrl", task)
    /\ PortGoto("get_desc")
    /\ UNCHANGED <<vport, vhw, op, dev_addr, leaked, fault, port_evtq, app, callback, ready, plugs>>

-----------------------------------------------------------------------------
(* init: the driver is installed and powered, then the task starts, and only *)
(* then is the class driver's callback known.                                *)

init ==
    /\ app = "boot"
    /\ PowerOnPort
    /\ port_task' = [port_task EXCEPT !.at = "blocked"]
    /\ app' = "init"
    /\ UNCHANGED <<hostPipeVars, port_evtq, callback, ready, plugs>>

initCallback ==
    /\ app = "init" /\ PortBlocked /\ PipesBlocked
    /\ callback' = TRUE
    /\ app' = "loop"
    /\ UNCHANGED <<viewVars, hostPipeVars, port_evtq, port_task, ready, plugs>>

-----------------------------------------------------------------------------

PortTask ==
    \/ PortReceive
    \/ HandleNothing \/ HandleConn \/ HandleLost \/ PostInvalid \/ HandleLostNext
    \/ ActPowerOff \/ ActNothing
    \/ suddenDisconnect \/ freeCTRLpipe \/ recover \/ powerON
    \/ addCTRLpipe \/ addCTRLpipeEnd

\* The delays of the driver end.
Delay == HandleConnEnd \/ ConnectReset

Transfer ==
    /\ \E p \in Pipe : TransferDone(p)
    /\ UNCHANGED <<vport, vhw, op, portVars>>

TransferError(events) ==
    /\ \E p \in Pipe, event \in events : TransferFailed(p, event)
    /\ UNCHANGED <<vport, vhw, op, portVars>>

\* The tick switches between tasks of equal priority, the one that makes a pipe and
\* the new pipe's.  The control pipe's maker is the port task, which goes before.
TimeSlice ==
    /\ PortBlocked
    /\ \E p \in Pipe : StartsEarly(p)
    /\ UNCHANGED <<vport, vhw, op, portVars>>

PipeTask(p) == PortBlocked /\ TaskStep(p) /\ UNCHANGED <<vport, vhw, op, portVars>>

-----------------------------------------------------------------------------
(* What holds of the port, its one event, its lock and the messages *)

\* An event that is not handled has a message, or the task is about to handle it.
MessageComes == vport.event_pending => port_evtq # << >> \/ port_task.at = "handle"

\* A connection or a disconnection keeps the debounce lock on until its delay is over.
DebounceWaits == vport.event_pending /\ Debounced

LockHeld ==
    /\ DebounceWaits => vhw.debouncing
    /\ op = "debounce" => vhw.debouncing /\ ~DebounceWaits

\* What the task is at follows from the message that it took.
PlaceOfEvent ==
    /\ port_task.at \in {"free_ctrl", "recover", "power_on"} => port_task.event = "SUDDEN_DISCONN"
    /\ port_task.at \in {"reset", "connected", "alloc_pipe", "get_desc", "set_addr"}
           => port_task.event = "CONNECTION"

\* Before init the port is off.
Boots ==
    app = "boot" =>
        /\ port_task.at = "none" /\ port_evtq = << >>
        /\ ~vhw.powered /\ ~vhw.connected /\ ~vport.conn_devc_ena

Told == {k \in DOMAIN port_evtq : port_evtq[k] = "SUDDEN_DISCONN"}

LossInHand == port_task.event = "SUDDEN_DISCONN" /\ port_task.at \notin {"none", "blocked"}

\* There is one message of a sudden disconnection at most, in the queue or in hand.
OneLoss == \A k \in Told : ~LossInHand /\ Told = {k}

\* From the message until the port is powered again it stays down, and nothing but
\* recover takes the lock off.
LossStays ==
    LossInHand \/ Told # {} =>
        /\ vport.state \in {"RECOVERY", "NOT_POWERED"} /\ ~vport.conn_devc_ena
        /\ port_task.at # "power_on" => vhw.debouncing /\ ~DebounceWaits /\ op # "debounce"

PortInv ==
    TypeOK /\ MessageComes /\ LockHeld /\ PlaceOfEvent /\ Boots /\ OneLoss /\ LossStays

=============================================================================
