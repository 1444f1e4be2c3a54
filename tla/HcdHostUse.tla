----------------------------- MODULE HcdHostUse -----------------------------
(***************************************************************************)
(* The driver as the host layer uses it, which gives no pipe command but   *)
(* RESET and does not pause the port: what its pipes are then when the     *)
(* device is lost, and the driver of HcdView, which it implements.         *)
(***************************************************************************)
EXTENDS HcdInvariant

\* The host layer knows one pipe command, RESET, and gives it only to a pipe with
\* nothing in flight; the port task, which has the highest priority, makes the
\* pipes invalid undisturbed.
HostPipeStep(p) ==
    /\ port_op.at \notin {"invalidate_active", "invalidate_idle"}
    /\ \/ PipeAlloc(p)
       \/ PipeFree(p) /\ port_op.at = "idle"
       \/ \E irp \in Irp : IrpEnqueue(p, irp)
       \/ IrpDequeue(p)
       \/ ~pipes[p].executing /\ PipeCommand(p, "RESET")

HostNext ==
    \/ \E p \in Pipe : (HostPipeStep(p) \/ ChanTransfer(p) \/ ChanIgnored(p)) /\ UNCHANGED <<port_op, hw>>
    \/ PortInterrupt
    \/ PowerOn \/ PowerOff \/ Reset
    \/ PortOpStep \/ HandleEvent \/ Recover

HostUse == Init /\ [][HostNext]_vars

-----------------------------------------------------------------------------
(* The driver of HcdView in the state of this one: what a client can tell *)

ViewPort == [state |-> port.state, last_event |-> port.last_event,
             event_pending |-> port.event_pending, conn_devc_ena |-> port.conn_devc_ena]

ViewHw == [powered |-> hw.powered, connected |-> hw.connected, debouncing |-> hw.debouncing]

ViewOp ==
    CASE port_op.at \in {"reset_hold", "reset_recovery"} -> "reset"
      [] port_op.at \in {"invalidate_active", "invalidate_idle"} -> "invalidate"
      [] OTHER -> port_op.at

\* A pipe, with the IRPs of its buffers and without the buffers.
Seen(pipe, allocated) ==
    [alloc |-> allocated, state |-> pipe.state,
     moving |-> InFlight(pipe), pending |-> pipe.pending, done |-> pipe.done]

ViewPipes == [p \in Pipe |-> Seen(pipes[p], Allocated(p))]

View == INSTANCE HcdView WITH
    InBuffers <- NumBuffers, vport <- ViewPort, vhw <- ViewHw, op <- ViewOp, drv <- ViewPipes

\* What HcdView leaves out: the error for which the driver aborts the program.
NoneFatal == Fatal = {}

\* To its client, the host layer, the driver with its rings, channels and critical
\* sections is the driver of HcdView, as long as NoneFatal.
ViewHolds == View!ViewSpec

-----------------------------------------------------------------------------
(* What the driver is then, beyond IInv and LossSeen *)

\* Nobody waits for a pipe, and none is paused.
NothingWaits ==
    /\ \A p \in Pipe :
          /\ pipe_cmd[p] = "NONE"
          /\ ~pipes[p].waiting_xfer_done /\ ~pipes[p].pipe_cmd_processing /\ ~pipes[p].paused
    /\ ~port.waiting_all_pipes_pause /\ ~port.disable_requested
    /\ port.state \notin {"SUSPENDED", "RESUMING"}
    /\ port_op.at \in {"idle", "debounce"} \/ InReset \/ Invalidating

\* Only an active pipe has a transfer in flight: a halted one is not resumed.
HaltedStops == \A p \in Pipe : pipes[p].executing => pipes[p].state = "ACTIVE"

\* The enable bit is set for a device that the driver knows, or by a reset.
EnableKnown ==
    /\ hw.enabled \/ hw.change # "NONE" =>
           /\ hw.connected /\ port.state # "NOT_POWERED"
           /\ port.conn_devc_ena \/ (port.state = "RESETTING" /\ InReset)
    /\ hw.change = "ENABLED" => port.state = "RESETTING"
    /\ hw.enabled => port.conn_devc_ena \/ hw.change = "ENABLED"

\* The loop over the list q that is at the pipe c has reached the pipe p.
Reached(q, p, c) == \E k, l \in 1 .. Len(q) : k <= l /\ q[k] = p /\ q[l] = c

\* What the two loops of the invalidation have reached is invalid, and no client
\* moves the pipe under them to the other list.
LoopsReach ==
    /\ port_op.at = "invalidate_active" =>
           /\ InQueue(active_tailq, port_op.cur)
           /\ \A p \in Pipe : Reached(active_tailq, p, port_op.cur) => pipes[p].state = "INVALID"
    /\ port_op.at = "invalidate_idle" =>
           /\ \A p \in Pipe : InQueue(active_tailq, p) => pipes[p].state = "INVALID"
           /\ \A p \in Pipe : Reached(idle_tailq, p, port_op.cur) => pipes[p].state = "INVALID"

HostInv == NothingWaits /\ HaltedStops /\ EnableKnown /\ LoopsReach /\ LossSeen /\ LostInvalid

=============================================================================
