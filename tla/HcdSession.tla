----------------------------- MODULE HcdSession -----------------------------
(***************************************************************************)
(* A session of the driver: from the allocation of the pipes on an enabled *)
(* device on, with everything that the clients, the channels and the       *)
(* commands that pause the port do, until the device is lost.  It is a     *)
(* part of the behaviours of HcdPort's Spec, which starts at the unpowered *)
(* port: a reset ends a session, and another one follows.                  *)
(***************************************************************************)
EXTENDS HcdInvariant

SessionInit ==
    /\ pipes = [p \in Pipe |-> NewPipe(p \in CtrlPipe)]
    /\ idle_tailq \in {q \in [1 .. Cardinality(Pipe) -> Pipe] : \A p \in Pipe : InQueue(q, p)}
    /\ active_tailq = << >>
    /\ pipe_cmd = [p \in Pipe |-> "NONE"]
    /\ pipe_notified = [p \in Pipe |-> FALSE]
    /\ port = [state |-> "ENABLED", last_event |-> "CONNECTION", event_pending |-> FALSE,
               conn_devc_ena |-> TRUE, disable_requested |-> FALSE,
               waiting_all_pipes_pause |-> FALSE, num_pipes_waiting_pause |-> 0,
               notified |-> FALSE]
    /\ port_op = Idle
    /\ hw = [powered |-> TRUE, connected |-> TRUE, enabled |-> TRUE,
             debouncing |-> FALSE, change |-> "NONE"]

\* The clients and the channels; no pipe is allocated, freed or polled.
ClientStep(p) ==
    /\ \/ \E irp \in Irp : IrpEnqueue(p, irp) \/ IrpAbort(p, irp)
       \/ IrpDequeue(p)
       \/ \E cmd \in PipeCmd : PipeCommand(p, cmd)
       \/ PipeCommandReturn(p)
       \/ ChanTransfer(p)
       \/ ChanIgnored(p)
    /\ UNCHANGED <<port_op, hw>>

DeviceLost == IntrDisconn /\ port.conn_devc_ena

PortFault == IntrDisabled /\ hw.change = "NONE"

\* What is asked for completes: the interrupts of a disable command.
DisableDone == IntrDisabled /\ hw.change = "DISABLED"

SessionNext ==
    \/ \E p \in Pipe : ClientStep(p)
    \/ DeviceLost \/ PortFault \/ DisableDone
    \/ PauseCommand \/ PortOpStep \/ HandleEvent

Session == SessionInit /\ [][SessionNext]_vars

-----------------------------------------------------------------------------
(* The pause of the port *)

\* The port wakes from its wait for the pipes when the last of them has stopped
\* and not before, as long as no pipe has a command of its own.
PauseCounted ==
    port.waiting_all_pipes_pause /\ port.conn_devc_ena /\ (\A p \in Pipe : pipe_cmd[p] = "NONE")
        => port.num_pipes_waiting_pause = Cardinality({p \in Pipe : pipes[p].waiting_xfer_done})

\* The pipes whose flag waiting_xfer_done is set, and those of them that may owe it
\* to a command of their own.
Flagged == {p \in Pipe : pipes[p].waiting_xfer_done}

Owed == {p \in Pipe : pipe_cmd[p] # "NONE" /\ ~pipe_notified[p]}

\* A transfer in flight has the channel, and a flag has a transfer whose end will
\* clear it.
FlagServed(pipe) ==
    /\ pipe.state # "INVALID"
    /\ pipe.executing => pipe.chan_busy
    /\ pipe.waiting_xfer_done => pipe.executing

\* The one flag serves two waiters, so the port may wait for fewer pipes than have
\* it set, but for no more; and what it does not wait for, commands do.
FlagsCounted ==
    LET n == IF port.waiting_all_pipes_pause THEN port.num_pipes_waiting_pause ELSE 0
    IN  /\ n <= Cardinality(Flagged)
        /\ Cardinality(Flagged) <= n + Cardinality(Owed)

PauseInv == port.conn_devc_ena => (\A p \in Pipe : FlagServed(pipes[p])) /\ FlagsCounted

=============================================================================
