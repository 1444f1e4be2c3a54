---------------------------- MODULE HcdLifecycle ----------------------------
(***************************************************************************)
(* What the driver allocates and frees: hcd_install and hcd_uninstall, the *)
(* initialisation of the port, its FIFO sizes, and the allocation and      *)
(* freeing of pipes, by several tasks, with every allocation failing at    *)
(* will.                                                                   *)
(*                                                                         *)
(* These calls leave hcd_lock between their checks and their effects; an   *)
(* action is one stretch under the lock, a group of allocations that are   *)
(* checked together, that check, or an error path.  live counts the        *)
(* objects of each kind on the heap; own says which of them the driver, a  *)
(* pipe or a call in progress points to.                                   *)
(*                                                                         *)
(* The port is HcdPort's, reduced to what these calls read: IRPs, events   *)
(* and commands are in HcdPort.  The callers keep a port handle only while *)
(* the driver is installed, and do not uninstall it under another task     *)
(* that is in a call on the port.                                          *)
(***************************************************************************)
EXTENDS EpChar, FiniteSets

CONSTANTS
    Task,       \* tasks that call the driver
    Pipe,       \* pipe handles
    Endpoint,   \* the endpoints of the device
    NumChan     \* channels of the controller

ASSUME LifecycleAssumption ==
    IsFiniteSet(Task) /\ IsFiniteSet(Pipe) /\ NumChan \in Nat

ASSUME EndpointAssumption ==
    Endpoint \subseteq [type : TransferType, is_in : BOOLEAN, mps : Nat, bInterval : Nat,
                        is_default : BOOLEAN]

VARIABLES
    s_hcd_obj,  \* what the installed driver owns; nothing while it is NULL
    intr_ena,   \* the interrupt is enabled
    port,       \* the port object
    pipe,       \* the pipe objects
    task,       \* where each task is
    live        \* how many objects of each kind are allocated

vars == <<s_hcd_obj, intr_ena, port, pipe, task, live>>

\* The four parts of a port object, and what a driver needs.
PortKind == {"port", "hal", "frame_list", "port_mux"}
DriverKind == PortKind \union {"hcd", "intr"}

\* A pipe: its object, the channel object, two buffers (NUM_BUFFERS) of a block and a
\* descriptor list each, and a channel of the controller.
ObjKind == {"pipe", "chan_obj"}
BufferKind(i) == IF i = 0 THEN {"block_0", "list_0"} ELSE {"block_1", "list_1"}
BlockKind(i) == IF i = 0 THEN "block_0" ELSE "block_1"
PipeKind == ObjKind \union BufferKind(0) \union BufferKind(1) \union {"chan"}
Kind == DriverKind \union PipeKind

\* hcd_port_state_t; a suspended or resuming port is an enabled one here.
PortState == {"NOT_POWERED", "DISCONNECTED", "DISABLED", "RESETTING", "ENABLED", "RECOVERY"}

NoEndpoint == [type |-> "CTRL", is_in |-> FALSE, mps |-> 0, bInterval |-> 0, is_default |-> TRUE]

\* own is what a call has allocated or is about to free; i is its buffer, and bias
\* what it has read of the port, in hcd_pipe_alloc.
Idle == [at |-> "idle", own |-> {}, i |-> 0, pipe |-> NoEndpoint, bias |-> "BALANCED"]

NoPipe == [own |-> {}, ep |-> NoEndpoint, mps |-> 0, listed |-> FALSE, valid |-> FALSE]

NewPort == [initialized |-> FALSE, state |-> "NOT_POWERED", conn_devc_ena |-> FALSE,
            event_pending |-> FALSE, fifo_bias |-> "BALANCED"]

Init ==
    /\ s_hcd_obj = {}
    /\ intr_ena = FALSE
    /\ port = NewPort
    /\ pipe = [p \in Pipe |-> NoPipe]
    /\ task = [t \in Task |-> Idle]
    /\ live = [k \in Kind |-> 0]

Installed == s_hcd_obj # {}

Listed == {p \in Pipe : pipe[p].listed}

Goes(t, at) == task' = [task EXCEPT ![t].at = at]

Returns(t) == task' = [task EXCEPT ![t] = Idle]

Gets(t, at, kinds) ==
    task' = [task EXCEPT ![t].at = at, ![t].own = task[t].own \union kinds]

Drops(t, at, kinds) ==
    task' = [task EXCEPT ![t].at = at, ![t].own = task[t].own \ kinds]

Allocate(kinds) == live' = [k \in Kind |-> IF k \in kinds THEN live[k] + 1 ELSE live[k]]

Release(kinds) == live' = [k \in Kind |-> IF k \in kinds THEN live[k] - 1 ELSE live[k]]

\* hcd_pipe_alloc, up to its second critical section.
AllocPlace == {"pipe_alloc", "buffer_alloc", "buffer_check", "pipe_publish"}

\* A call in progress on the port.
CallPlace == AllocPlace \union {"pipe_err", "pipe_free", "reset_hold", "reset_recovery"}

OnPort(t) == task[t].at \in CallPlace

-----------------------------------------------------------------------------
(* hcd_install and hcd_uninstall *)

Install(t) ==
    /\ task[t].at = "idle"
    /\ ~Installed
    /\ Goes(t, "install_alloc")
    /\ UNCHANGED <<s_hcd_obj, intr_ena, port, pipe, live>>

InstallAlloc(t) ==
    /\ task[t].at = "install_alloc"
    /\ \/ Returns(t) /\ UNCHANGED live
       \/ Gets(t, "port_alloc", {"hcd"}) /\ Allocate({"hcd"})
    /\ UNCHANGED <<s_hcd_obj, intr_ena, port, pipe>>

\* The four allocations of port_obj_alloc: each is made, whatever became of the others.
PortObjAlloc(t) ==
    /\ task[t].at = "port_alloc"
    /\ \E got \in SUBSET PortKind : Gets(t, "port_check", got) /\ Allocate(got)
    /\ UNCHANGED <<s_hcd_obj, intr_ena, port, pipe>>

\* As PortObjCheck, with a mutex that is not deleted.
PortObjCheckLeaky(t) ==
    /\ task[t].at = "port_check"
    /\ IF PortKind \subseteq task[t].own
       THEN Goes(t, "intr_alloc") /\ UNCHANGED live
       ELSE /\ Drops(t, "intr_alloc", PortKind)
            /\ Release(task[t].own \intersect {"port", "hal", "frame_list"})
    /\ UNCHANGED <<s_hcd_obj, intr_ena, port, pipe>>

\* If one has failed, the others are freed, and there is no port.
PortObjCheck(t) ==
    /\ task[t].at = "port_check"
    /\ IF PortKind \subseteq task[t].own
       THEN Goes(t, "intr_alloc") /\ UNCHANGED live
       ELSE Drops(t, "intr_alloc", PortKind) /\ Release(task[t].own \intersect PortKind)
    /\ UNCHANGED <<s_hcd_obj, intr_ena, port, pipe>>

\* Without a port the call goes on, as long as it has its interrupt.
InstallIntr(t) ==
    /\ task[t].at = "intr_alloc"
    /\ \/ Gets(t, "install_publish", {"intr"}) /\ Allocate({"intr"})
       \/ Goes(t, "install_err") /\ UNCHANGED live
    /\ UNCHANGED <<s_hcd_obj, intr_ena, port, pipe>>

\* The first of two tasks wins.
InstallPublish(t) ==
    /\ task[t].at = "install_publish"
    /\ IF Installed
       THEN Goes(t, "install_err") /\ UNCHANGED <<s_hcd_obj, port>>
       ELSE s_hcd_obj' = task[t].own /\ port' = NewPort /\ Returns(t)
    /\ UNCHANGED <<intr_ena, pipe, live>>

\* port_obj_free of a port that may be NULL: its four parts, or nothing.
PortObjFree(own) == IF "port" \in own THEN PortKind ELSE {}

InstallErr(t) ==
    /\ task[t].at = "install_err"
    /\ Release((task[t].own \intersect {"intr"}) \union PortObjFree(task[t].own) \union {"hcd"})
    /\ Returns(t)
    /\ UNCHANGED <<s_hcd_obj, intr_ena, port, pipe>>

\* A driver without a port has no calls but this one: port_obj->initialized would
\* be read through NULL.
HasPort == Installed /\ PortKind \subseteq s_hcd_obj

Uninstall(t) ==
    /\ task[t].at = "idle"
    /\ HasPort /\ ~port.initialized
    /\ \A u \in Task : ~OnPort(u)
    /\ task' = [task EXCEPT ![t].at = "uninstall_free", ![t].own = s_hcd_obj]
    /\ s_hcd_obj' = {}
    /\ UNCHANGED <<intr_ena, port, pipe, live>>

UninstallFree(t) ==
    /\ task[t].at = "uninstall_free"
    /\ Release(PortObjFree(task[t].own) \union {"intr", "hcd"})
    /\ Returns(t)
    /\ UNCHANGED <<s_hcd_obj, intr_ena, port, pipe>>

-----------------------------------------------------------------------------
(* The port *)

PortInit(t) ==
    /\ task[t].at = "idle"
    /\ HasPort /\ ~port.initialized
    /\ port' = [port EXCEPT !.initialized = TRUE, !.state = "NOT_POWERED"]
    /\ intr_ena' = TRUE
    /\ UNCHANGED <<s_hcd_obj, pipe, task, live>>

\* The flags of the port say that a command is running, and it holds port_mux.
NoCommand == \A u \in Task : task[u].at \notin {"reset_hold", "reset_recovery"}

\* As PortDeinit, with no look at the pipes.
PortDeinitWithPipes(t) ==
    /\ task[t].at = "idle" /\ NoCommand
    /\ HasPort /\ port.initialized
    /\ port.state \in {"NOT_POWERED", "RECOVERY"}
    /\ ~port.conn_devc_ena /\ ~port.event_pending
    /\ port' = [port EXCEPT !.initialized = FALSE]
    /\ intr_ena' = FALSE
    /\ UNCHANGED <<s_hcd_obj, pipe, task, live>>

\* As PortDeinit, with an interrupt that stays enabled.
PortDeinitIntrOn(t) ==
    /\ task[t].at = "idle" /\ NoCommand
    /\ HasPort /\ port.initialized
    /\ Listed = {}
    /\ port.state \in {"NOT_POWERED", "RECOVERY"}
    /\ ~port.conn_devc_ena /\ ~port.event_pending
    /\ port' = [port EXCEPT !.initialized = FALSE]
    /\ UNCHANGED <<s_hcd_obj, intr_ena, pipe, task, live>>

\* flags.val = 0: no event, no device, no command.  (port_mux is not taken.)
PortDeinit(t) ==
    /\ task[t].at = "idle" /\ NoCommand
    /\ HasPort /\ port.initialized
    /\ Listed = {}
    /\ port.state \in {"NOT_POWERED", "RECOVERY"}
    /\ ~port.conn_devc_ena /\ ~port.event_pending
    /\ port' = [port EXCEPT !.initialized = FALSE]
    /\ intr_ena' = FALSE
    /\ UNCHANGED <<s_hcd_obj, pipe, task, live>>

\* hcd_port_command does nothing before the last event was handled.
CommandAllowed(t) ==
    /\ task[t].at = "idle" /\ NoCommand
    /\ HasPort /\ port.initialized /\ ~port.event_pending

PowerOn(t) ==
    /\ CommandAllowed(t)
    /\ port.state = "NOT_POWERED"
    /\ port' = [port EXCEPT !.state = "DISCONNECTED"]
    /\ UNCHANGED <<s_hcd_obj, intr_ena, pipe, task, live>>

PowerOff(t) ==
    /\ CommandAllowed(t)
    /\ port.state # "NOT_POWERED"
    /\ port' = [port EXCEPT !.state = "NOT_POWERED"]
    /\ UNCHANGED <<s_hcd_obj, intr_ena, pipe, task, live>>

\* The bus reset of a new device, or of one that is enabled.
Reset(t) ==
    /\ CommandAllowed(t)
    /\ port.state \in {"DISABLED", "ENABLED"}
    /\ port' = [port EXCEPT !.state = "RESETTING", !.conn_devc_ena = FALSE]
    /\ Goes(t, "reset_hold")
    /\ UNCHANGED <<s_hcd_obj, intr_ena, pipe, live>>

\* The interrupt of an enabled device, in the recovery delay; a device that has
\* gone gives none.
ResetEnabled(t) ==
    /\ task[t].at = "reset_hold"
    /\ \/ port' = [port EXCEPT !.state = "ENABLED", !.conn_devc_ena = TRUE]
       \/ UNCHANGED port
    /\ Goes(t, "reset_recovery")
    /\ UNCHANGED <<s_hcd_obj, intr_ena, pipe, live>>

\* The FIFO sizes are set back after the device is enabled.
ResetEnd(t) ==
    /\ task[t].at = "reset_recovery"
    /\ port' = IF port.state = "ENABLED" /\ port.conn_devc_ena
               THEN [port EXCEPT !.fifo_bias = "BALANCED"] ELSE port
    /\ Returns(t)
    /\ UNCHANGED <<s_hcd_obj, intr_ena, pipe, live>>

\* A device is connected, and the event is handled: the port is debounced.
DeviceConnected ==
    /\ intr_ena /\ NoCommand /\ ~port.event_pending
    /\ port.state = "DISCONNECTED"
    /\ port' = [port EXCEPT !.state = "DISABLED"]
    /\ UNCHANGED <<s_hcd_obj, intr_ena, pipe, task, live>>

\* The device is unplugged, the port has an error, or draws too much current.
DeviceLost ==
    /\ intr_ena /\ port.conn_devc_ena
    /\ \E state \in {"RECOVERY", "DISABLED", "NOT_POWERED"} :
          port' = [port EXCEPT !.state = state, !.conn_devc_ena = FALSE, !.event_pending = TRUE]
    /\ UNCHANGED <<s_hcd_obj, intr_ena, pipe, task, live>>

\* Of a lost device: the pipes become invalid.
HandleEvent ==
    /\ port.initialized /\ port.event_pending /\ NoCommand
    /\ port' = [port EXCEPT !.event_pending = FALSE]
    /\ pipe' = [p \in Pipe |-> [pipe[p] EXCEPT !.valid = FALSE]]
    /\ UNCHANGED <<s_hcd_obj, intr_ena, task, live>>

Recover ==
    /\ NoCommand
    /\ port.initialized /\ port.state = "RECOVERY"
    /\ ~port.event_pending /\ ~port.conn_devc_ena
    /\ Listed = {}
    /\ port' = [port EXCEPT !.state = "NOT_POWERED"]
    /\ UNCHANGED <<s_hcd_obj, intr_ena, pipe, task, live>>

\* As SetFifoBias, with no look at the pipes.
SetFifoBiasWithPipes(t, bias) ==
    /\ CommandAllowed(t)
    /\ port' = [port EXCEPT !.fifo_bias = bias]
    /\ UNCHANGED <<s_hcd_obj, intr_ena, pipe, task, live>>

SetFifoBias(t, bias) ==
    /\ CommandAllowed(t)
    /\ Listed = {}
    /\ port' = [port EXCEPT !.fifo_bias = bias]
    /\ UNCHANGED <<s_hcd_obj, intr_ena, pipe, task, live>>

-----------------------------------------------------------------------------
(* Pipes *)

\* The first critical section, and the checks that need no lock.
PipeAlloc(t, ep) ==
    /\ task[t].at = "idle"
    /\ HasPort /\ port.initialized /\ port.conn_devc_ena
    /\ PipeAllocCheckArgs(ep, "FULL", "FULL", port.fifo_bias)
    /\ task' = [task EXCEPT ![t].at = "pipe_alloc", ![t].i = 0, ![t].pipe = ep,
                            ![t].bias = port.fifo_bias]
    /\ UNCHANGED <<s_hcd_obj, intr_ena, port, pipe, live>>

PipeObjAlloc(t) ==
    /\ task[t].at = "pipe_alloc"
    /\ \E got \in SUBSET ObjKind :
          /\ Gets(t, IF got = ObjKind THEN "buffer_alloc" ELSE "pipe_err", got)
          /\ Allocate(got)
    /\ UNCHANGED <<s_hcd_obj, intr_ena, port, pipe>>

\* buffer_block_alloc: the block and its list, and then the look at both.
BufferAlloc(t) ==
    /\ task[t].at = "buffer_alloc"
    /\ \E got \in SUBSET BufferKind(task[t].i) : Gets(t, "buffer_check", got) /\ Allocate(got)
    /\ UNCHANGED <<s_hcd_obj, intr_ena, port, pipe>>

BufferCheck(t) ==
    LET buffer == BufferKind(task[t].i) IN
    /\ task[t].at = "buffer_check"
    /\ IF buffer \subseteq task[t].own
       THEN /\ task' = [task EXCEPT ![t].i = @ + 1,
                                    ![t].at = IF task[t].i = 0 THEN "buffer_alloc" ELSE "pipe_publish"]
            /\ UNCHANGED live
       ELSE Drops(t, "pipe_err", buffer) /\ Release(task[t].own \intersect buffer)
    /\ UNCHANGED <<s_hcd_obj, intr_ena, port, pipe>>

\* The second critical section looks at the port again -- but not at its FIFO.
PipePublish(t, p) ==
    /\ task[t].at = "pipe_publish"
    /\ pipe[p] = NoPipe
    /\ IF port.initialized /\ port.conn_devc_ena /\ Cardinality(Listed) < NumChan
       THEN /\ pipe' = [pipe EXCEPT ![p] = [own |-> task[t].own \union {"chan"}, ep |-> task[t].pipe,
                                            mps |-> task[t].pipe.mps, listed |-> TRUE, valid |-> TRUE]]
            /\ Allocate({"chan"})
            /\ Returns(t)
       ELSE Goes(t, "pipe_err") /\ UNCHANGED <<pipe, live>>
    /\ UNCHANGED <<s_hcd_obj, intr_ena, port>>

\* Of a pipe that holds no IRP: out of the list and its channel free under the
\* lock, the rest after it.
PipeFree(t, p) ==
    /\ task[t].at = "idle"
    /\ pipe[p].listed
    /\ task' = [task EXCEPT ![t].at = "pipe_free", ![t].own = pipe[p].own \ {"chan"}]
    /\ pipe' = [pipe EXCEPT ![p] = NoPipe]
    /\ Release({"chan"})
    /\ UNCHANGED <<s_hcd_obj, intr_ena, port>>

\* buffer_block_free of a buffer that may be NULL.
BufferFree(own, i) == IF BlockKind(i) \in own THEN BufferKind(i) ELSE {}

\* The end of hcd_pipe_free, and the error path of hcd_pipe_alloc, on which the objects
\* may be NULL.
PipeRelease(t) ==
    LET own == task[t].own IN
    /\ task[t].at \in {"pipe_free", "pipe_err"}
    /\ Release(BufferFree(own, 0) \union BufferFree(own, 1) \union (own \intersect ObjKind))
    /\ Returns(t)
    /\ UNCHANGED <<s_hcd_obj, intr_ena, port, pipe>>

\* The new packet size is not compared with the FIFO either; the caller is the
\* enumeration of the device, on a default pipe (hcd.h).
PipeUpdateMps(p, mps) ==
    /\ pipe[p].listed /\ pipe[p].valid /\ pipe[p].ep.is_default
    /\ pipe' = [pipe EXCEPT ![p].mps = mps]
    /\ UNCHANGED <<s_hcd_obj, intr_ena, port, task, live>>

-----------------------------------------------------------------------------

DriverNext(t) ==
    \/ Install(t) \/ InstallAlloc(t) \/ PortObjAlloc(t) \/ PortObjCheck(t)
    \/ InstallIntr(t) \/ InstallPublish(t) \/ InstallErr(t)
    \/ Uninstall(t) \/ UninstallFree(t)
    \/ PortInit(t) \/ PortDeinit(t)

PipeNext(t) ==
    \/ \E ep \in Endpoint : PipeAlloc(t, ep)
    \/ PipeObjAlloc(t) \/ BufferAlloc(t) \/ BufferCheck(t)
    \/ \E p \in Pipe : PipePublish(t, p) \/ PipeFree(t, p)
    \/ PipeRelease(t)

PortNext == DeviceConnected \/ DeviceLost \/ HandleEvent \/ Recover

UpdateNext == \E p \in Pipe, mps \in {8, 64} : PipeUpdateMps(p, mps)

Next ==
    \/ \E t \in Task :
          \/ DriverNext(t) \/ PipeNext(t)
          \/ PowerOn(t) \/ PowerOff(t)
          \/ Reset(t) \/ ResetEnabled(t) \/ ResetEnd(t)
          \/ \E bias \in FifoBias : SetFifoBias(t, bias)
    \/ PortNext \/ UpdateNext

Spec == Init /\ [][Next]_vars

\* The FIFOs are not set under an allocation, and no reset ends with a pipe there;
\* what comes of that otherwise is PipesFitFifo under Spec.
FifosSettled ==
    /\ port'.fifo_bias # port.fifo_bias =>
          \A t \in Task : task[t].at \notin AllocPlace
    /\ \A t \in Task : task[t].at = "reset_recovery" /\ task'[t].at = "idle" => Listed = {}

SettledSpec == Init /\ [][Next /\ FifosSettled]_vars

-----------------------------------------------------------------------------
(* Properties *)

Has(own, k) == IF k \in own THEN 1 ELSE 0

\* How many of S have an object of kind k, when f says what each has.
Count(S, f, k) == Cardinality({y \in S : k \in f[y].own})

Places == {"idle", "install_alloc", "port_alloc", "port_check", "intr_alloc", "install_publish",
           "install_err", "uninstall_free", "reset_hold", "reset_recovery", "pipe_alloc",
           "buffer_alloc", "buffer_check", "pipe_publish", "pipe_err", "pipe_free"}

AnyEndpoint == Endpoint \union {NoEndpoint}

Port_t ==
    [initialized : BOOLEAN, state : PortState, conn_devc_ena : BOOLEAN,
     event_pending : BOOLEAN, fifo_bias : FifoBias]

Pipe_t ==
    [own : SUBSET PipeKind, ep : AnyEndpoint, mps : {ep.mps : ep \in AnyEndpoint} \union {8, 64},
     listed : BOOLEAN, valid : BOOLEAN]

Task_t == [at : Places, own : SUBSET Kind, i : 0..2, pipe : AnyEndpoint, bias : FifoBias]

\* The state has its types.
TypeOK ==
    /\ s_hcd_obj \in SUBSET DriverKind
    /\ intr_ena \in BOOLEAN
    /\ port \in Port_t
    /\ pipe \in [Pipe -> Pipe_t]
    /\ task \in [Task -> Task_t]
    /\ live \in [Kind -> Int]

\* Whatever fails, and wherever two calls meet, every object on the heap, the
\* interrupt and every channel belongs to the installed driver, to a pipe or to a
\* call in progress, and to one of them only: nothing leaks, nothing is freed twice.
NothingLeaks ==
    \A k \in Kind :
        live[k] = Has(s_hcd_obj, k) + Count(Pipe, pipe, k) + Count(Task, task, k)

\* A pipe that a client can use has all its parts.
PipesAreWhole == \A p \in Listed : pipe[p].own = PipeKind

\* "The interrupt must be disabled until the port is initialized" (hcd_install):
\* while it is enabled, its handler has the port of the installed driver.
InterruptHasPort == intr_ena => HasPort /\ port.initialized

\* "All ports must be uninitialized, all pipes freed" (hcd.h): a pipe has a driver
\* and an initialized port under it as long as it exists, and never more pipes
\* than channels.
PipesHavePort ==
    /\ Listed # {} => HasPort /\ port.initialized
    /\ Cardinality(Listed) <= NumChan

\* A packet and its two lines of status, in the receive FIFO; a packet, in a transmit
\* FIFO.
FitsLines(ep, mps, lines) ==
    (mps + 3) \div 4 <= IF ep.is_in THEN lines.rx - 2
                        ELSE IF Periodic(ep.type) THEN lines.ptx ELSE lines.nptx

\* The packets of every pipe fit into the FIFOs as they are configured now, by the
\* limits of the driver and by what the FIFOs hold; and the three FIFOs fit into the
\* 200 usable lines (USBH_HAL_FIFO_TOTAL_USABLE_LINES).
PipesFitFifo ==
    LET lines == FifoLines(port.fifo_bias) IN
    /\ lines.rx + lines.nptx + lines.ptx = 200
    /\ \A p \in Listed :
          ~pipe[p].ep.is_default =>
              /\ pipe[p].mps <= MpsLimit(pipe[p].ep, port.fifo_bias)
              /\ FitsLines(pipe[p].ep, pipe[p].mps, lines)

-----------------------------------------------------------------------------
(* The inductive invariants *)

\* All of kinds, or none of them.
AllOrNone(own, kinds) == kinds \subseteq own \/ kinds \intersect own = {}

\* What hcd_pipe_alloc has after its i-th buffer.
Built(i) == ObjKind \union (IF i > 0 THEN BufferKind(0) ELSE {}) \union (IF i > 1 THEN BufferKind(1) ELSE {})

\* What a call has in its hands follows from where it is.
OwnFits(r) ==
    /\ r.at \in {"idle", "install_alloc", "pipe_alloc", "reset_hold", "reset_recovery"} => r.own = {}
    /\ r.at = "port_alloc" => r.own = {"hcd"}
    /\ r.at = "port_check" => "hcd" \in r.own /\ r.own \subseteq {"hcd"} \union PortKind
    /\ r.at = "intr_alloc" => r.own \in {{"hcd"}, {"hcd"} \union PortKind}
    /\ r.at = "install_publish" => r.own \in {{"hcd", "intr"}, DriverKind}
    /\ r.at = "install_err" =>
          "hcd" \in r.own /\ r.own \subseteq DriverKind /\ AllOrNone(r.own, PortKind)
    /\ r.at = "uninstall_free" => r.own = DriverKind
    /\ r.at = "pipe_alloc" => r.i = 0
    /\ r.at = "buffer_alloc" => r.i \in 0..1 /\ r.own = Built(r.i)
    /\ r.at = "buffer_check" =>
          r.i \in 0..1 /\ Built(r.i) \subseteq r.own /\ r.own \subseteq Built(r.i + 1)
    /\ r.at \in {"pipe_publish", "pipe_free"} => r.own = Built(2)
    /\ r.at = "pipe_err" =>
          r.own \subseteq Built(2) /\ \A i \in 0..1 : AllOrNone(r.own, BufferKind(i))

OwnByPlace == \A t \in Task : OwnFits(task[t])

\* The installed driver has its interrupt, and a whole port or none.
DriverParts == s_hcd_obj \in {{}, {"hcd", "intr"}, DriverKind}

\* A pipe is in a list with all its parts, or is not there at all.
PipesAllOrNothing == \A p \in Pipe : pipe[p].own = IF pipe[p].listed THEN PipeKind ELSE {}

\* The driver is not uninstalled under a call on its port.
CallsHavePort == \A t \in Task : OnPort(t) => HasPort

\* Nobody but its owner has an object, wherever the calls are; so a call that fails
\* knows what it has to free.  NothingLeaks alone is not inductive: it rests on what
\* each place of a call implies.
IInv ==
    /\ TypeOK
    /\ OwnByPlace
    /\ DriverParts
    /\ PipesAllOrNothing
    /\ CallsHavePort
    /\ InterruptHasPort
    /\ PipesHavePort
    /\ NothingLeaks

\* An allocation still has the bias that it has checked its endpoint against.
BiasStillRead ==
    \A t \in Task :
        task[t].at \in AllocPlace =>
            /\ task[t].bias = port.fifo_bias
            /\ task[t].pipe.is_default \/ task[t].pipe.mps <= MpsLimit(task[t].pipe, task[t].bias)

FifoInv == BiasStillRead /\ PipesFitFifo

=============================================================================
