------------------------------ MODULE HcdPipe ------------------------------
(***************************************************************************)
(* The pipes of the host controller driver: the API calls of hcd.c on a    *)
(* pipe and on an IRP, and the channel interrupt.                          *)
(*                                                                         *)
(* One action is one stretch of code that runs with hcd_lock taken.  A     *)
(* call that leaves the lock in the middle (a pipe command that waits for  *)
(* the transfer in flight) is split there.  An interrupt is one action:    *)
(* the ESP32-S2 has one core, so no task runs before it returns.           *)
(*                                                                         *)
(* HcdPort extends this module with the port, its interrupt and its        *)
(* commands, and states the initial state and the next-state relation.     *)
(***************************************************************************)
EXTENDS PipeBuffers, FiniteSets

CONSTANTS
    Pipe,       \* pipe handles
    CtrlPipe    \* those on a control endpoint

ASSUME PipeAssumption ==
    IsFiniteSet(Pipe) /\ CtrlPipe \subseteq Pipe

VARIABLES
    pipes,          \* the pipe objects
    idle_tailq,     \* port->pipes_idle_tailq; num_pipes_idle is its length
    active_tailq,   \* port->pipes_active_tailq; num_pipes_queued is its length
    pipe_cmd,       \* the command whose task is blocked in _pipe_wait_done, per pipe
    pipe_notified,  \* that task has been given its notification
    port            \* the port object

pipeVars == <<pipes, idle_tailq, active_tailq, pipe_cmd, pipe_notified>>

PipeCmd == {"ABORT", "RESET", "CLEAR", "HALT"}

\* The commands that wait for the transfer in flight, and the absence of one.
WaitingCmd == {"NONE", "ABORT", "RESET", "HALT"}

PortState ==
    {"NOT_POWERED", "DISCONNECTED", "DISABLED", "RESETTING", "SUSPENDED",
     "RESUMING", "ENABLED", "RECOVERY"}

InQueue(q, p) == \E k \in 1 .. Len(q) : q[k] = p

Allocated(p) == InQueue(idle_tailq, p) \/ InQueue(active_tailq, p)

-----------------------------------------------------------------------------
(* Allocating and freeing *)

PipeAlloc(p) ==
    /\ ~Allocated(p)
    /\ port.conn_devc_ena
    /\ pipes' = [pipes EXCEPT ![p] = NewPipe(p \in CtrlPipe)]
    /\ idle_tailq' = Append(idle_tailq, p)
    /\ UNCHANGED <<active_tailq, pipe_cmd, pipe_notified, port>>

HoldsNothing(pipe) ==
    /\ pipe.pending = << >>
    /\ pipe.done = << >>
    /\ pipe.to_exec = 0
    /\ pipe.to_parse = 0

\* Every IRP of the pipe is in its done queue.
Flushed(pipe) == pipe.pending = << >> /\ pipe.to_exec = 0 /\ ~pipe.executing

\* A channel whose buffer was flushed under it, when the device was lost.
Stray(pipe) == pipe.chan_busy /\ ~pipe.executing

\* The client does not free a pipe under a command of its own: the code does
\* not test that (see the README).
PipeFree(p) ==
    /\ Allocated(p) /\ pipe_cmd[p] = "NONE"
    /\ ~pipes[p].executing
    /\ HoldsNothing(pipes[p])
    /\ idle_tailq' = Without(idle_tailq, p)
    /\ pipes' = [pipes EXCEPT ![p] = NewPipe(p \in CtrlPipe)]
    /\ UNCHANGED <<active_tailq, pipe_cmd, pipe_notified, port>>

-----------------------------------------------------------------------------
(* IRPs *)

Enqueued(pipe, irp) ==
    FillAndExec([pipe EXCEPT !.irp_state[irp] = "PENDING",
                             !.pending = Append(@, irp),
                             !.is_active = TRUE])

\* As IrpIsIdle, for a test that looks for a transfer only.
IrpNotInFlight(irp) == \A q \in Pipe : pipes[q].irp_state[irp] # "INFLIGHT"

IrpIsIdle(irp) == \A q \in Pipe : pipes[q].irp_state[irp] = "IDLE"

IrpEnqueue(p, irp) ==
    /\ Allocated(p)
    /\ IrpIsIdle(irp)
    /\ port.state = "ENABLED"
    /\ pipes[p].state = "ACTIVE"
    /\ ~pipes[p].pipe_cmd_processing
    /\ pipes' = [pipes EXCEPT ![p] = Enqueued(@, irp)]
    /\ IF pipes[p].is_active
       THEN UNCHANGED <<idle_tailq, active_tailq>>
       ELSE /\ idle_tailq' = Without(idle_tailq, p)
            /\ active_tailq' = Append(active_tailq, p)
    /\ UNCHANGED <<pipe_cmd, pipe_notified, port>>

\* As Dequeued, with the buffers forgotten.
DequeuedTooIdle(pipe) ==
    LET d == [pipe EXCEPT !.irp_state[Head(pipe.done).irp] = "IDLE", !.done = Tail(@)]
    IN  [d EXCEPT !.is_active = @ /\ (d.pending # << >> \/ d.done # << >>)]

\* A pipe that has given back its last IRP goes to the idle list.
Dequeued(pipe) ==
    LET d == [pipe EXCEPT !.irp_state[Head(pipe.done).irp] = "IDLE", !.done = Tail(@)]
    IN  [d EXCEPT !.is_active = @ /\ ~HoldsNothing(d)]

IrpDequeue(p) ==
    /\ Allocated(p)
    /\ pipes[p].done # << >>
    /\ pipes' = [pipes EXCEPT ![p] = Dequeued(@)]
    /\ IF pipes[p].is_active /\ ~pipes'[p].is_active
       THEN /\ active_tailq' = Without(active_tailq, p)
            /\ idle_tailq' = Append(idle_tailq, p)
       ELSE UNCHANGED <<idle_tailq, active_tailq>>
    /\ UNCHANGED <<pipe_cmd, pipe_notified, port>>

\* As Aborted, with a flag that is not updated.
AbortedStillPending(pipe, irp) ==
    [pipe EXCEPT !.pending = Without(@, irp),
                 !.done = Append(@, [irp |-> irp, status |-> "CANCELED"])]

Aborted(pipe, irp) ==
    [pipe EXCEPT !.pending = Without(@, irp),
                 !.done = Append(@, [irp |-> irp, status |-> "CANCELED"]),
                 !.irp_state[irp] = "DONE"]

\* Only an IRP that no buffer holds yet can be taken back.
IrpAbort(p, irp) ==
    /\ pipes[p].irp_state[irp] = "PENDING"
    /\ pipes' = [pipes EXCEPT ![p] = Aborted(@, irp)]
    /\ UNCHANGED <<idle_tailq, active_tailq, pipe_cmd, pipe_notified, port>>

PipeGetEvent(p) ==
    /\ Allocated(p)
    /\ pipes[p].last_event # "NONE"
    /\ pipes' = [pipes EXCEPT ![p].last_event = "NONE"]
    /\ UNCHANGED <<idle_tailq, active_tailq, pipe_cmd, pipe_notified, port>>

-----------------------------------------------------------------------------
(* Pipe commands *)

\* As FlushAndRetire, in the other order.
RetireAndFlush(pipe) == BufferFlushAll(Retire(pipe, TRUE), TRUE)

FlushAndRetire(pipe) == Retire(BufferFlushAll(pipe, TRUE), TRUE)

\* What a command does once _pipe_wait_done has returned true.
Commanded(pipe, cmd) ==
    CASE cmd = "ABORT" -> FlushAndRetire(pipe)
      [] cmd = "RESET" -> [FlushAndRetire(pipe) EXCEPT !.state = "ACTIVE"]
      [] cmd = "HALT"  -> [pipe EXCEPT !.state = "HALTED"]
      [] cmd = "CLEAR" -> IF pipe.state = "HALTED"
                          THEN FillAndExec([pipe EXCEPT !.state = "ACTIVE"])
                          ELSE pipe

\* A command that finds nothing in flight, and every CLEAR, runs to its end
\* at once; the others block until the channel interrupt notifies their task.
PipeCommand(p, cmd) ==
    /\ Allocated(p)
    /\ ~pipes[p].pipe_cmd_processing
    /\ port.conn_devc_ena
    /\ pipes[p].state # "INVALID"
    /\ IF cmd # "CLEAR" /\ pipes[p].executing
       THEN /\ pipes' = [pipes EXCEPT ![p].pipe_cmd_processing = TRUE,
                                      ![p].waiting_xfer_done = TRUE]
            /\ pipe_cmd' = [pipe_cmd EXCEPT ![p] = cmd]
       ELSE /\ pipes' = [pipes EXCEPT ![p] = Commanded(@, cmd)]
            /\ UNCHANGED pipe_cmd
    /\ UNCHANGED <<idle_tailq, active_tailq, pipe_notified, port>>

\* The blocked task wakes.  On an invalid pipe only ABORT goes on to flush.
\* assert(chan_halted): with a transfer in flight the firmware restarts.
Resumed(pipe, cmd) ==
    LET r == CASE pipe.state # "INVALID" -> Commanded(pipe, cmd)
               [] pipe.state = "INVALID" /\ cmd = "ABORT" ->
                      FlushAndRetire([pipe EXCEPT !.waiting_xfer_done = FALSE])
               [] OTHER -> [pipe EXCEPT !.waiting_xfer_done = FALSE]
    IN  [r EXCEPT !.pipe_cmd_processing = FALSE]

PipeCommandReturn(p) ==
    /\ pipe_cmd[p] # "NONE"
    /\ pipe_notified[p]
    /\ pipes[p].state = "INVALID" \/ ~pipes[p].chan_busy
    /\ pipes' = [pipes EXCEPT ![p] = Resumed(@, pipe_cmd[p])]
    /\ pipe_cmd' = [pipe_cmd EXCEPT ![p] = "NONE"]
    /\ pipe_notified' = [pipe_notified EXCEPT ![p] = FALSE]
    /\ UNCHANGED <<idle_tailq, active_tailq, port>>

-----------------------------------------------------------------------------
(* The channel interrupt *)

\* As Completed, with no regard for who waits.
CompletedRunsOn(pipe) ==
    LET d == [BufferDone(pipe) EXCEPT !.last_event = "IRP_DONE", !.chan_busy = FALSE]
        e == IF CanExec(d) THEN BufferExec(d) ELSE d
        r == BufferParse(e)
    IN  IF r.waiting_xfer_done THEN r ELSE FillIfCan(r)

\* The buffer in flight has completed: start the next one unless someone waits
\* for the pipe to stop, parse the completed one, and refill its place.
Completed(pipe) ==
    LET d == [BufferDone(pipe) EXCEPT !.last_event = "IRP_DONE", !.chan_busy = FALSE]
        e == IF CanExec(d) /\ ~d.waiting_xfer_done THEN BufferExec(d) ELSE d
        r == BufferParse(e)
    IN  IF r.waiting_xfer_done THEN r ELSE FillIfCan(r)

\* As Failed, with the event stored after its use.
FailedEventLater(pipe, error) ==
    LET h == [pipe EXCEPT !.state = "HALTED", !.chan_busy = FALSE]
    IN  [BufferParse(BufferDoneError(h, FALSE)) EXCEPT !.last_event = error]

Failed(pipe, error) ==
    LET h == [pipe EXCEPT !.last_event = error, !.state = "HALTED", !.chan_busy = FALSE]
    IN  BufferParse(BufferDoneError(h, FALSE))

\* As PausedNow, with a flag that is not reset.
PausedStillWaited(pipe) == [pipe EXCEPT !.paused = TRUE]

\* The port has one pipe less to wait for.
PausedNow(pipe) == [pipe EXCEPT !.waiting_xfer_done = FALSE, !.paused = TRUE]

\* The end of _intr_hdlr_chan, after the handling of the transfer left the pipe
\* as r.  One flag, waiting_xfer_done, serves two waiters: while the port waits
\* for all pipes, the interrupt counts for the port only.
WakeWaiter(p, r) ==
    IF ~r.waiting_xfer_done
    THEN /\ pipes' = [pipes EXCEPT ![p] = r]
         /\ UNCHANGED <<pipe_notified, port>>
    ELSE IF port.waiting_all_pipes_pause
    THEN LET last == port.num_pipes_waiting_pause = 1 IN
         /\ pipes' = [pipes EXCEPT ![p] = PausedNow(r)]
         /\ port' = [port EXCEPT !.num_pipes_waiting_pause = @ - 1,
                                 !.waiting_all_pipes_pause = ~last,
                                 !.notified = @ \/ last]
         /\ UNCHANGED pipe_notified
    ELSE /\ pipe_cmd[p] # "NONE"     \* assert(pipe->task_waiting_pipe_notif != NULL)
         /\ pipes' = [pipes EXCEPT ![p] = [r EXCEPT !.waiting_xfer_done = FALSE]]
         /\ pipe_notified' = [pipe_notified EXCEPT ![p] = TRUE]
         /\ UNCHANGED port

ChanInterrupt(p) == pipes[p].chan_busy /\ port.conn_devc_ena

ChanStage(p) ==
    /\ ChanInterrupt(p)
    /\ ~LastStage(pipes[p])
    /\ pipes' = [pipes EXCEPT ![p] = NextStage(@)]
    /\ UNCHANGED <<idle_tailq, active_tailq, pipe_cmd, pipe_notified, port>>

ChanComplete(p) ==
    /\ ChanInterrupt(p)
    /\ LastStage(pipes[p])
    /\ WakeWaiter(p, Completed(pipes[p]))
    /\ UNCHANGED <<idle_tailq, active_tailq, pipe_cmd>>

ChanFail(p, error) ==
    /\ ChanInterrupt(p)
    /\ WakeWaiter(p, Failed(pipes[p], error))
    /\ UNCHANGED <<idle_tailq, active_tailq, pipe_cmd>>

\* Without a connected and enabled device the interrupt is thrown away.
ChanIgnored(p) ==
    /\ pipes[p].chan_busy
    /\ ~port.conn_devc_ena
    /\ pipes' = [pipes EXCEPT ![p].chan_busy = FALSE]
    /\ UNCHANGED <<idle_tailq, active_tailq, pipe_cmd, pipe_notified, port>>

=============================================================================
