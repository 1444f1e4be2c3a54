------------------------------ MODULE HcdView ------------------------------
(***************************************************************************)
(* The host controller driver as the host layer (port.cpp, pipe.cpp, the   *)
(* class drivers) sees it: a port with an event, and pipes that hold IRPs. *)
(* There is no ring of buffers, no channel, no critical section: only the  *)
(* IRPs that are in a buffer are told from those that wait, for            *)
(* hcd_pipe_update_dev_addr counts the latter alone.                       *)
(*                                                                         *)
(* HcdPort implements this module, as long as its client does what the     *)
(* host layer does: see HcdHostUse!ViewHolds.  HostPipe and HostPort build *)
(* the host layer on it.                                                   *)
(***************************************************************************)
EXTENDS Integers, Sequences, FiniteSets

CONSTANTS
    Irp,        \* the IRPs, or what tells them apart
    Pipe,       \* the pipes
    InBuffers   \* how many IRPs of a pipe are in its buffers at most

VARIABLES
    vport,      \* the port object
    vhw,        \* the port's hardware
    op,         \* the port operation under way, which holds port_mux
    drv         \* the pipes

viewVars == <<vport, vhw, op, drv>>

Error == {"ERROR", "STALL", "OVERFLOW"}

IrpDone == [irp : Irp, status : {"COMPLETED", "CANCELED", "NO_DEVICE"} \union Error]

Driver_t ==
    [alloc   : BOOLEAN,
     state   : {"ACTIVE", "HALTED", "INVALID"},
     moving  : Seq(Irp),        \* in the buffers, oldest first
     pending : Seq(Irp),
     done    : Seq(IrpDone)]

NoPipeYet ==
    [alloc |-> FALSE, state |-> "ACTIVE", moving |-> << >>, pending |-> << >>, done |-> << >>]

ViewInit ==
    /\ vport = [state |-> "NOT_POWERED", last_event |-> "NONE",
                event_pending |-> FALSE, conn_devc_ena |-> FALSE]
    /\ vhw = [powered |-> FALSE, connected |-> FALSE, debouncing |-> FALSE]
    /\ op = "idle"
    /\ drv = [p \in Pipe |-> NoPipeYet]

-----------------------------------------------------------------------------
(* Pipes *)

Holds(d) == Len(d.moving) + Len(d.pending) + Len(d.done)

\* At most one IRP goes into a buffer at a time.
Filled(d) ==
    IF d.pending # << >> /\ Len(d.moving) < InBuffers
    THEN [d EXCEPT !.moving = Append(@, Head(d.pending)), !.pending = Tail(@)]
    ELSE d

EndWith(irps, status) == [k \in 1 .. Len(irps) |-> [irp |-> irps[k], status |-> status]]

\* Every IRP of the pipe ends.
Flush(d, status) ==
    [d EXCEPT !.done = @ \o EndWith(d.moving \o d.pending, status),
              !.moving = << >>, !.pending = << >>]

HcdPipeAlloc(p) ==
    /\ vport.conn_devc_ena
    /\ drv' = [drv EXCEPT ![p] = [NoPipeYet EXCEPT !.alloc = TRUE]]

CanFree(d) == d.moving = << >> /\ d.pending = << >> /\ d.done = << >>

HcdPipeFree(p) ==
    /\ drv[p].alloc /\ CanFree(drv[p])
    /\ drv' = [drv EXCEPT ![p] = NoPipeYet]

Accepts(p) == drv[p].alloc /\ vport.state = "ENABLED" /\ drv[p].state = "ACTIVE"

Enqueue(d, irp) == Filled([d EXCEPT !.pending = Append(@, irp)])

IrpEnqueue(p, irp) ==
    /\ Accepts(p)
    /\ drv' = [drv EXCEPT ![p] = Enqueue(@, irp)]

IrpDequeue(p) ==
    /\ drv[p].alloc /\ drv[p].done # << >>
    /\ drv' = [drv EXCEPT ![p].done = Tail(@)]

CanCommand(p) == vport.conn_devc_ena /\ drv[p].state # "INVALID"

\* As ResetPipe, of a pipe that stays halted.
ResetPipeStays(d) == Flush(d, "CANCELED")

\* HCD_PIPE_CMD_RESET of a pipe with nothing on the bus.
ResetPipe(d) == [Flush(d, "CANCELED") EXCEPT !.state = "ACTIVE"]

PipeReset(p) ==
    /\ drv[p].alloc /\ CanCommand(p)
    /\ drv' = [drv EXCEPT ![p] = ResetPipe(@)]

OnBus(p) == drv[p].alloc /\ vport.conn_devc_ena /\ drv[p].state = "ACTIVE" /\ drv[p].moving # << >>

Oldest(d, status) ==
    [d EXCEPT !.done = Append(@, [irp |-> Head(d.moving), status |-> status]),
              !.moving = Tail(@)]

ChanDone(p) ==
    /\ OnBus(p)
    /\ drv' = [drv EXCEPT ![p] = Filled(Oldest(@, "COMPLETED"))]

ChanFailed(p, error) ==
    /\ OnBus(p)
    /\ drv' = [drv EXCEPT ![p] = [Oldest(@, error) EXCEPT !.state = "HALTED"]]

-----------------------------------------------------------------------------
(* The port interrupt *)

RaiseEvent(event) == [vport EXCEPT !.last_event = event, !.event_pending = TRUE]

Connected ==
    /\ vhw.powered /\ ~vhw.connected
    /\ vhw' = [vhw EXCEPT !.connected = TRUE, !.debouncing = TRUE]
    /\ vport' = IF vhw.debouncing THEN vport ELSE RaiseEvent("CONNECTION")
    /\ UNCHANGED <<op, drv>>

Disconnected ==
    /\ vhw.connected
    /\ vhw' = [vhw EXCEPT !.connected = FALSE, !.debouncing = TRUE]
    /\ vport' = IF vhw.debouncing THEN vport
                ELSE IF vport.conn_devc_ena
                THEN [RaiseEvent("SUDDEN_DISCONN") EXCEPT !.state = "RECOVERY",
                                                          !.conn_devc_ena = FALSE]
                ELSE RaiseEvent("DISCONNECTION")
    /\ UNCHANGED <<op, drv>>

\* The device answers the reset.
Enabled ==
    /\ op = "reset" /\ vport.state = "RESETTING" /\ vhw.connected
    /\ vport' = [vport EXCEPT !.state = "ENABLED", !.conn_devc_ena = TRUE]
    /\ UNCHANGED <<vhw, op, drv>>

PortFault ==
    /\ vport.conn_devc_ena
    /\ vport' = [IF vport.state = "RESETTING" THEN vport
                 ELSE [RaiseEvent("ERROR") EXCEPT !.state = "DISABLED"]
                     EXCEPT !.conn_devc_ena = FALSE]
    /\ UNCHANGED <<vhw, op, drv>>

Overcurrent ==
    /\ vhw.powered
    /\ IF vport.state # "NOT_POWERED"
       THEN /\ vport' = [RaiseEvent("OVERCURRENT") EXCEPT !.state = "NOT_POWERED",
                                                          !.conn_devc_ena = FALSE]
            /\ vhw' = [vhw EXCEPT !.powered = FALSE]
       ELSE /\ vport' = [vport EXCEPT !.conn_devc_ena = FALSE]
            /\ UNCHANGED vhw
    /\ UNCHANGED <<op, drv>>

-----------------------------------------------------------------------------
(* Port operations *)

CanCommandPort == op = "idle" /\ ~vport.event_pending

CanPowerOn == CanCommandPort /\ vport.state = "NOT_POWERED"

PowerOnPort ==
    /\ CanPowerOn
    /\ vport' = [vport EXCEPT !.state = "DISCONNECTED"]
    /\ vhw' = [vhw EXCEPT !.powered = TRUE]
    /\ UNCHANGED <<op, drv>>

CanPowerOff == CanCommandPort /\ vport.state # "NOT_POWERED"

PowerOffPort ==
    /\ CanPowerOff
    /\ vport' = [vport EXCEPT !.state = "NOT_POWERED"]
    /\ vhw' = [vhw EXCEPT !.powered = FALSE]
    /\ UNCHANGED <<op, drv>>

CanReset == CanCommandPort /\ vport.state \in {"ENABLED", "DISABLED"}

ResetPort ==
    /\ CanReset
    /\ vport' = [vport EXCEPT !.state = "RESETTING"]
    /\ op' = "reset"
    /\ UNCHANGED <<vhw, drv>>

ResetPortEnd ==
    /\ op = "reset"
    /\ op' = "idle"
    /\ UNCHANGED <<vport, vhw, drv>>

Debounced == vport.last_event \in {"CONNECTION", "DISCONNECTION"}

\* hcd_port_handle_event of a connection or a disconnection, up to the delay.
HandleConnEvent ==
    /\ op = "idle" /\ vport.event_pending /\ Debounced
    /\ vport' = [vport EXCEPT !.event_pending = FALSE,
                              !.state = IF @ = "NOT_POWERED" /\ vport.last_event = "DISCONNECTION"
                                        THEN "DISCONNECTED" ELSE @]
    /\ op' = IF vport.state = "NOT_POWERED" THEN "idle" ELSE "debounce"
    /\ UNCHANGED <<vhw, drv>>

DebounceEnd ==
    /\ op = "debounce"
    /\ op' = "idle"
    /\ vport' = [vport EXCEPT !.state = IF vhw.connected THEN "DISABLED" ELSE "DISCONNECTED"]
    /\ vhw' = [vhw EXCEPT !.debouncing = FALSE]
    /\ UNCHANGED drv

Existing == {p \in Pipe : drv[p].alloc}

Invalidate(p) == drv' = [drv EXCEPT ![p] = [Flush(@, "NO_DEVICE") EXCEPT !.state = "INVALID"]]

\* hcd_port_handle_event of the loss of the device, up to the callback of the
\* first pipe that becomes invalid; then pipe by pipe.
HandleLoss(p) ==
    /\ op = "idle" /\ vport.event_pending /\ ~Debounced
    /\ vport' = [vport EXCEPT !.event_pending = FALSE]
    /\ p \in Existing
    /\ op' = "invalidate"
    /\ Invalidate(p)
    /\ UNCHANGED vhw

HandleLossNoPipe ==
    /\ op = "idle" /\ vport.event_pending /\ ~Debounced
    /\ vport' = [vport EXCEPT !.event_pending = FALSE]
    /\ Existing = {}
    /\ UNCHANGED <<vhw, op, drv>>

InvalidateNext(p) ==
    /\ op = "invalidate"
    /\ p \in Existing
    /\ Invalidate(p)
    /\ UNCHANGED <<vport, vhw, op>>

InvalidateEnd ==
    /\ op = "invalidate"
    /\ \A p \in Existing : drv[p].state = "INVALID"
    /\ op' = "idle"
    /\ UNCHANGED <<vport, vhw, drv>>

CanRecover ==
    /\ op = "idle" /\ vport.state = "RECOVERY"
    /\ Existing = {}
    /\ ~vport.event_pending /\ ~vport.conn_devc_ena

RecoverPort ==
    /\ CanRecover
    /\ vport' = [vport EXCEPT !.state = "NOT_POWERED", !.last_event = "NONE"]
    /\ vhw' = [powered |-> FALSE, connected |-> FALSE, debouncing |-> FALSE]
    /\ UNCHANGED <<op, drv>>

-----------------------------------------------------------------------------
(* All that may happen *)

PipeStep(p) ==
    \/ HcdPipeAlloc(p) \/ HcdPipeFree(p)
    \/ \E irp \in Irp : IrpEnqueue(p, irp)
    \/ IrpDequeue(p)
    \/ PipeReset(p)
    \/ ChanDone(p)
    \/ \E error \in Error : ChanFailed(p, error)

ViewNext ==
    \/ \E p \in Pipe : PipeStep(p) /\ UNCHANGED <<vport, vhw, op>>
    \/ Connected \/ Disconnected \/ Enabled \/ PortFault \/ Overcurrent
    \/ PowerOnPort \/ PowerOffPort \/ ResetPort \/ ResetPortEnd
    \/ HandleConnEvent \/ DebounceEnd
    \/ \E p \in Pipe : HandleLoss(p) \/ InvalidateNext(p)
    \/ HandleLossNoPipe \/ InvalidateEnd
    \/ RecoverPort

ViewSpec == ViewInit /\ [][ViewNext]_viewVars

=============================================================================
