---------------------------- MODULE HcdInvariant ----------------------------
(***************************************************************************)
(* The inductive invariant of the driver: the safety properties of HcdPort *)
(* with what they rest on.  HcdProofs proves it for every value of the     *)
(* constants; MCHcd checks it on a small instance.                         *)
(***************************************************************************)
EXTENDS HcdPort

\* An event that the port handles by invalidating its pipes.
LostPending ==
    port.event_pending /\ port.last_event \in {"ERROR", "OVERCURRENT", "SUDDEN_DISCONN"}

Invalidating == port_op.at \in {"invalidate_active", "invalidate_idle"}

InReset == port_op.at \in {"reset_hold", "reset_recovery"}

\* An invalid pipe keeps nothing back.
InvalidPipesFlushed == \A p \in Pipe : pipes[p].state = "INVALID" => Flushed(pipes[p])

\* A channel loses its buffer only after the device is lost, and no device is
\* enabled again before the bus reset has stopped the channel.
StraysUnheard ==
    \A p \in Pipe : Stray(pipes[p]) => ~port.conn_devc_ena /\ ~InReset

\* While the pipes are invalidated, or will be, no device is enabled.
NoDeviceToInvalidate ==
    /\ LostPending => ~port.conn_devc_ena
    /\ Invalidating => ~port.conn_devc_ena
    /\ port_op.at = "disable_ack" /\ port.state = "DISABLED" => ~port.conn_devc_ena

\* A device is enabled at the end of a reset, and only if it was not lost since.
EnabledByReset ==
    /\ hw.change = "ENABLED" => port_op.at = "reset_recovery" /\ ~LostPending
    /\ port_op.at = "reset_hold" /\ port.state = "RESETTING" => ~LostPending

\* The port waits for one pipe at least.
WaitCounted == port.waiting_all_pipes_pause => port.num_pipes_waiting_pause > 0

\* The pipe whose callback runs stays in a list of the port.
CursorListed ==
    /\ Invalidating => port_op.cur \in Pipe /\ Allocated(port_op.cur)
    /\ port_op.at = "invalidate_idle" =>
           /\ InQueue(idle_tailq, port_op.cur)
           /\ pipes[port_op.cur].state = "INVALID"

\* Everything above, together: no step of a client, of the port or of the
\* hardware leaves a pipe, an IRP or a list in a state that the next one does
\* not expect, however the device is lost in between.
IInv ==
    /\ TypeOK
    /\ RingConsistent
    /\ IrpConservation
    /\ IrpOwnedOnce
    /\ ListsConsistent
    /\ InvalidPipesFlushed
    /\ StraysUnheard
    /\ NoDeviceToInvalidate
    /\ EnabledByReset
    /\ WaitCounted
    /\ CursorListed

-----------------------------------------------------------------------------
(* What WorkConserving and StoppedWhenWoken rest on, beyond IInv *)

\* A task that waits for its pipe command keeps the pipe allocated and every other
\* command away, and only such a task is notified.
CommandWaits(p) ==
    /\ pipe_cmd[p] # "NONE" => pipes[p].pipe_cmd_processing /\ Allocated(p)
    /\ pipe_notified[p] => pipe_cmd[p] # "NONE"

\* An IRP waits because no buffer is free, or because the transfer that freed one
\* did not go on.
Ahead(pipe) ==
    pipe.pending # << >> => pipe.to_fill = 0 \/ (pipe.to_fill = 1 /\ ~pipe.executing)

WaitInv == \A p \in Pipe : CommandWaits(p) /\ Ahead(pipes[p])

\* A pipe that nobody pauses, halts or commands executes what it has, whatever the
\* state of the port.
Diligent(pipe) ==
    /\ pipe.state = "ACTIVE" /\ ~pipe.paused /\ ~pipe.pipe_cmd_processing
    /\ pipe.pending # << >> \/ pipe.to_exec > 0
    => pipe.executing

WorkInv == WaitInv /\ \A p \in Pipe : Diligent(pipes[p])

\* As long as no command pauses the port.
StopInv ==
    /\ WaitInv
    /\ StoppedWhenWoken
    /\ port_op.at \notin {"suspend_wait", "resume_hold", "resume_recovery"}

-----------------------------------------------------------------------------
(* What LostMeansInvalid rests on, beyond IInv *)

\* An event of the debounce lock, or a delay of debouncing, that waits for its handling.
DebouncePending ==
    \/ port_op.at = "debounce"
    \/ port.event_pending /\ port.last_event \in {"CONNECTION", "DISCONNECTION"}

\* No event takes the place of a sudden disconnection before it is handled, and no
\* other state that of the recovery: the debounce lock stays on and the enable bit
\* off.  The lock is off again only when nothing waits for it.
LossSeen ==
    /\ port.state = "RECOVERY" =>
           /\ hw.debouncing /\ ~hw.enabled /\ hw.change = "NONE" /\ ~port.conn_devc_ena
           /\ port.event_pending => port.last_event = "SUDDEN_DISCONN"
           /\ ~DebouncePending
    /\ DebouncePending => hw.debouncing
    /\ port_op.at = "debounce" /\ port.event_pending
           => port.last_event \notin {"CONNECTION", "DISCONNECTION"}

\* No pipe is left out.
LostInvalid ==
    port.state = "RECOVERY" /\ ~port.event_pending /\ ~Invalidating
        => \A p \in Pipe : Allocated(p) => pipes[p].state = "INVALID"

CursorInvalid == Invalidating => pipes[port_op.cur].state = "INVALID"

LossInv == LossSeen /\ LostInvalid /\ CursorInvalid

=============================================================================
