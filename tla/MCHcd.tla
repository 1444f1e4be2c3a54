------------------------------- MODULE MCHcd -------------------------------
(***************************************************************************)
(* Model checking of the driver on small instances.  Spec, of HcdPort,     *)
(* starts at the unpowered port and lets everything happen; it is checked  *)
(* with one pipe.  The specifications below restrict it, and each is a     *)
(* part of the behaviours of Spec: they start once a device is enabled and *)
(* its pipes are allocated, and they say which port events and commands    *)
(* may follow.                                                             *)
(***************************************************************************)
EXTENDS HcdSession, HcdHostUse, TLC

Symmetry == Permutations(Irp)

PipeSymmetry == Permutations(Irp) \union Permutations(Pipe)

-----------------------------------------------------------------------------
(* Fairness *)

\* The scheduler runs a task that is not blocked; a transfer that is in flight
\* on an enabled port ends, one way or the other; an interrupt that was caused
\* by the driver comes; the client handles the events of the port and takes
\* back what is done.
Fairness ==
    /\ \A p \in Pipe :
          /\ WF_vars(PipeCommandReturn(p) /\ UNCHANGED <<port_op, hw>>)
          /\ WF_vars(IrpDequeue(p) /\ UNCHANGED <<port_op, hw>>)
          /\ WF_vars(ChanTransfer(p) /\ port.state = "ENABLED" /\ UNCHANGED <<port_op, hw>>)
    /\ WF_vars(PortOpStep)
    /\ WF_vars(HandleEvent)
    /\ WF_vars(DisableDone)
    /\ WF_vars(Resume)

\* The device is lost at most once, before the port is asked for anything.
LossNext ==
    \/ \E p \in Pipe : ClientStep(p)
    \/ (DeviceLost \/ PortFault) /\ ~port.event_pending
    \/ PortOpStep \/ HandleEvent

Loss == SessionInit /\ [][LossNext]_vars /\ Fairness

\* The device stays; the port is suspended, resumed and disabled.
PauseNext ==
    \/ \E p \in Pipe : ClientStep(p)
    \/ DisableDone
    \/ PauseCommand \/ PortOpStep

Pause == SessionInit /\ [][PauseNext]_vars /\ Fairness

\* The same, with a device that may be lost.
PauseAndLoss == SessionInit /\ [][SessionNext]_vars /\ Fairness

-----------------------------------------------------------------------------
(* Liveness and what goes with it *)

\* A pipe command that waits for the transfer in flight returns: "Some pipe
\* commands will block until the pipe's current in-flight IRP is complete"
\* (hcd.h).
CommandReturns == \A p \in Pipe : pipe_cmd[p] # "NONE" ~> pipe_cmd[p] = "NONE"

\* An IRP that was enqueued is over, sooner or later, unless its pipe halts and
\* leaves the next step to the client.
IrpEnds ==
    \A p \in Pipe, irp \in Irp :
        pipes[p].irp_state[irp] \in {"PENDING", "INFLIGHT"} ~>
            \/ pipes[p].irp_state[irp] \in {"DONE", "IDLE"}
            \/ pipes[p].state = "HALTED"

\* A port operation returns and gives port_mux back.
PortOpReturns == port_op.at # "idle" ~> port_op.at = "idle"

-----------------------------------------------------------------------------
(* What the comments say, and the code does not do *)

\* "HCD_PIPE_EVENT_ERROR_IRP_NOT_AVAIL should never occur" (_buffer_parse_error,
\* before its abort()); pipe_decode_error_event makes that event of a channel's
\* BNA error, and nothing between the two looks at it.
NeverAborts ==
    \A p \in Pipe : \A k \in 1 .. Len(pipes[p].done) : pipes[p].done[k].status \notin ErrorEvent

\* "All pipes are guaranteed paused at this point" (_port_bus_suspend)
NoTransferWhileSuspended ==
    port.state = "SUSPENDED" => \A p \in Pipe : ~pipes[p].executing

\* "A port error has been detected. Port is now HCD_PORT_STATE_RECOVERY" and
\* "Overcurrent detected on the port. Port is now HCD_PORT_STATE_RECOVERY" (hcd.h)
FaultMeansRecovery ==
    port.event_pending /\ port.last_event \in {"ERROR", "OVERCURRENT"}
        => port.state = "RECOVERY"

\* "IRPs will no longer be executed" (HCD_PIPE_STATE_HALTED)
HaltedStartsNothing ==
    [][\A p \in Pipe : pipes[p].state = "HALTED" /\ pipes'[p].state = "HALTED"
                           /\ ~pipes[p].executing => ~pipes'[p].executing]_vars

=============================================================================
