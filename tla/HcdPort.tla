------------------------------ MODULE HcdPort ------------------------------
(***************************************************************************)
(* The port of the host controller driver and, with the pipes of HcdPipe,  *)
(* the whole driver: the port interrupt, the port commands, the handling   *)
(* of port events and the recovery of the port.                            *)
(*                                                                         *)
(* hcd_port_command and hcd_port_handle_event hold port_mux from entry to  *)
(* return, so there is one port operation at a time: port_op is where it   *)
(* is (the delay or the wait in which it has left hcd_lock).  The HAL and  *)
(* the hardware under it are not part of the repository: hw is modelled    *)
(* from how hcd.c uses them.                                               *)
(***************************************************************************)
EXTENDS HcdPipe

CONSTANT NoPipe

ASSUME NoPipeAssumption == NoPipe \notin Pipe

VARIABLES
    port_op,    \* the port operation under way
    hw          \* the port's hardware and the state of the HAL

vars == <<pipeVars, port, port_op, hw>>

PortEvent ==
    {"NONE", "CONNECTION", "DISCONNECTION", "ERROR", "OVERCURRENT", "SUDDEN_DISCONN"}

Port_t ==
    [state                   : PortState,
     last_event              : PortEvent,
     event_pending           : BOOLEAN,
     conn_devc_ena           : BOOLEAN,
     disable_requested       : BOOLEAN,
     waiting_all_pipes_pause : BOOLEAN,
     num_pipes_waiting_pause : 0 .. Cardinality(Pipe),
     notified                : BOOLEAN]     \* the waiting task has its notification

PortOpAt ==
    {"idle", "suspend_wait", "disable_wait", "disable_ack", "resume_hold",
     "resume_recovery", "reset_hold", "reset_recovery", "debounce",
     "invalidate_active", "invalidate_idle"}

\* cur is the pipe whose callback runs.
PortOp == [at : PortOpAt, cur : Pipe \union {NoPipe}]

Hw ==
    [powered    : BOOLEAN,
     connected  : BOOLEAN,      \* the port sees a device
     enabled    : BOOLEAN,      \* the port enable bit
     debouncing : BOOLEAN,      \* the debounce lock: CONN and DISCONN are masked
     change     : {"NONE", "ENABLED", "DISABLED"}]  \* of the enable bit, not yet handled

At(place) == [at |-> place, cur |-> NoPipe]

Idle == At("idle")

\* The port after hcd_port_init: no device, no pipe.
Init ==
    /\ pipes = [p \in Pipe |-> NewPipe(p \in CtrlPipe)]
    /\ idle_tailq = << >>
    /\ active_tailq = << >>
    /\ pipe_cmd = [p \in Pipe |-> "NONE"]
    /\ pipe_notified = [p \in Pipe |-> FALSE]
    /\ port = [state |-> "NOT_POWERED", last_event |-> "NONE", event_pending |-> FALSE,
               conn_devc_ena |-> FALSE, disable_requested |-> FALSE,
               waiting_all_pipes_pause |-> FALSE, num_pipes_waiting_pause |-> 0,
               notified |-> FALSE]
    /\ port_op = Idle
    /\ hw = [powered |-> FALSE, connected |-> FALSE, enabled |-> FALSE,
             debouncing |-> FALSE, change |-> "NONE"]

-----------------------------------------------------------------------------
(* The port interrupt.  A device comes and goes at any time; the interrupt  *)
(* follows the change at once, unless the debounce lock masks it.  A change *)
(* of the enable bit that the driver itself caused waits in hw.change until *)
(* the driver has left hcd_lock, and a disconnection takes its place.       *)

Raise(event) == [port EXCEPT !.last_event = event, !.event_pending = TRUE]

IntrConn ==
    /\ hw.powered /\ ~hw.connected
    /\ hw' = [hw EXCEPT !.connected = TRUE, !.debouncing = TRUE]
    /\ port' = IF hw.debouncing THEN port ELSE Raise("CONNECTION")
    /\ UNCHANGED <<pipeVars, port_op>>

\* The device is unplugged, or loses its power.
IntrDisconn ==
    /\ hw.connected
    /\ hw' = [hw EXCEPT !.connected = FALSE, !.enabled = FALSE,
                        !.debouncing = TRUE, !.change = "NONE"]
    /\ port' = IF hw.debouncing THEN port
               ELSE IF port.conn_devc_ena
               THEN [Raise("SUDDEN_DISCONN") EXCEPT !.state = "RECOVERY",
                                                    !.conn_devc_ena = FALSE]
               ELSE Raise("DISCONNECTION")
    /\ UNCHANGED <<pipeVars, port_op>>

IntrEnabled ==
    /\ hw.change = "ENABLED"
    /\ hw' = [hw EXCEPT !.change = "NONE"]
    /\ port' = [port EXCEPT !.state = "ENABLED", !.conn_devc_ena = TRUE]
    /\ UNCHANGED <<pipeVars, port_op>>

\* As PortDisabled, with a flag that is not reset.
PortDisabledStillConnected ==
    IF port.state = "RESETTING" THEN port
    ELSE IF port.disable_requested
    THEN [port EXCEPT !.state = "DISABLED", !.disable_requested = FALSE, !.notified = TRUE]
    ELSE [Raise("ERROR") EXCEPT !.state = "DISABLED"]

\* A disable during a reset is expected; one that was asked for wakes the task
\* that asked; any other is a port error.
PortDisabled ==
    LET pt == IF port.state = "RESETTING" THEN port
              ELSE IF port.disable_requested
              THEN [port EXCEPT !.state = "DISABLED", !.disable_requested = FALSE, !.notified = TRUE]
              ELSE [Raise("ERROR") EXCEPT !.state = "DISABLED"]
    IN  [pt EXCEPT !.conn_devc_ena = FALSE]

\* By the driver, or by an error of the port.
IntrDisabled ==
    /\ hw.change = "DISABLED" \/ hw.enabled
    /\ hw' = [hw EXCEPT !.change = "NONE", !.enabled = FALSE]
    /\ port' = PortDisabled
    /\ UNCHANGED <<pipeVars, port_op>>

\* A device that was connected disconnects soon after.
PoweredOff(h) == [h EXCEPT !.powered = FALSE, !.enabled = FALSE, !.change = "NONE"]

IntrOvercurrent ==
    /\ hw.powered
    /\ IF port.state # "NOT_POWERED"
       THEN /\ port' = [Raise("OVERCURRENT") EXCEPT !.state = "NOT_POWERED",
                                                    !.conn_devc_ena = FALSE]
            /\ hw' = PoweredOff(hw)
       ELSE /\ port' = [port EXCEPT !.conn_devc_ena = FALSE]
            /\ UNCHANGED hw
    /\ UNCHANGED <<pipeVars, port_op>>

\* The driver clears the enable bit: a reset or a disable.
NoLongerEnabled(h) ==
    IF h.enabled THEN [h EXCEPT !.enabled = FALSE, !.change = "DISABLED"] ELSE h

-----------------------------------------------------------------------------
(* Pausing and invalidating the pipes *)

\* The active pipes that have a transfer in flight.
Transferring == {p \in Pipe : InQueue(active_tailq, p) /\ pipes[p].executing}

\* _port_pause_all_pipes: the task goes on if it has nobody to wait for.
PauseAllPipes(ifPaused, at) ==
    /\ pipes' = [p \in Pipe |->
                    IF p \in Transferring
                    THEN [pipes[p] EXCEPT !.waiting_xfer_done = TRUE]
                    ELSE [pipes[p] EXCEPT !.paused = @ \/ Allocated(p)]]
    /\ IF Transferring = {}
       THEN ifPaused
       ELSE /\ port' = [port EXCEPT !.waiting_all_pipes_pause = TRUE,
                                    !.num_pipes_waiting_pause = Cardinality(Transferring)]
            /\ port_op' = At(at)
            /\ UNCHANGED hw
    /\ UNCHANGED <<idle_tailq, active_tailq, pipe_cmd, pipe_notified>>

UnpauseAllPipes ==
    pipes' = [p \in Pipe |->
                 LET r == [pipes[p] EXCEPT !.paused = @ /\ ~Allocated(p)]
                 IN  IF InQueue(active_tailq, p) THEN FillAndExec(r) ELSE r]

\* As Invalidated, with buffers that are not flushed.
InvalidatedUnflushed(pipe) ==
    Retire([pipe EXCEPT !.state = "INVALID", !.last_event = "INVALID"], FALSE)

\* What becomes of an active pipe, and of an idle one, when the device is lost.
Invalidated(pipe) ==
    Retire(BufferFlushAll([pipe EXCEPT !.state = "INVALID", !.last_event = "INVALID"], FALSE),
           FALSE)

InvalidatedIdle(pipe) == [pipe EXCEPT !.state = "INVALID", !.last_event = "INVALID"]

\* As NextInList, from the start of the list.
FirstInList(p) == IF InQueue(active_tailq, p) THEN Head(active_tailq) ELSE Head(idle_tailq)

\* TAILQ_NEXT of p, in whichever list p is now.
NextInList(p) ==
    LET NextIn(q) == LET k == CHOOSE k \in 1 .. Len(q) : q[k] = p
                     IN  IF k < Len(q) THEN q[k + 1] ELSE NoPipe
    IN  IF InQueue(active_tailq, p) THEN NextIn(active_tailq) ELSE NextIn(idle_tailq)

First(q) == IF q = << >> THEN NoPipe ELSE Head(q)

\* As WaiterNotified, with no notification.
WaiterForgotten(p) == pipe_notified

\* _internal_pipe_event_notify, if a command of the pipe waits.
WaiterNotified(p) == [pipe_notified EXCEPT ![p] = @ \/ pipe_cmd[p] # "NONE"]

\* As InvalidateActive, with no loop over the idle pipes.
InvalidateOnlyActive(p) ==
    IF p # NoPipe
    THEN /\ pipes' = [pipes EXCEPT ![p] = Invalidated(@)]
         /\ pipe_notified' = WaiterNotified(p)
         /\ port_op' = [port_op EXCEPT !.at = "invalidate_active", !.cur = p]
    ELSE port_op' = Idle /\ UNCHANGED <<pipes, pipe_notified>>

\* One round of _port_invalidate_all_pipes, up to the callback of the pipe p:
\* p is the next pipe of the first loop, or NoPipe if that loop has ended.
InvalidateActive(p) ==
    IF p # NoPipe
    THEN /\ pipes' = [pipes EXCEPT ![p] = Invalidated(@)]
         /\ pipe_notified' = WaiterNotified(p)
         /\ port_op' = [port_op EXCEPT !.at = "invalidate_active", !.cur = p]
    ELSE LET q == First(idle_tailq) IN
         /\ IF q = NoPipe
            THEN UNCHANGED pipes /\ port_op' = Idle
            ELSE /\ pipes' = [pipes EXCEPT ![q] = InvalidatedIdle(@)]
                 /\ port_op' = [port_op EXCEPT !.at = "invalidate_idle", !.cur = q]
         /\ UNCHANGED pipe_notified

\* The callback of a pipe has returned; the loop goes on from the list the pipe
\* is in now.
InvalidateNextActive ==
    /\ port_op.at = "invalidate_active"
    /\ InvalidateActive(NextInList(port_op.cur))
    /\ UNCHANGED <<idle_tailq, active_tailq, pipe_cmd, port, hw>>

InvalidateNextIdle ==
    /\ port_op.at = "invalidate_idle"
    /\ LET q == NextInList(port_op.cur) IN
       IF q = NoPipe
       THEN UNCHANGED pipes /\ port_op' = Idle
       ELSE /\ pipes' = [pipes EXCEPT ![q] = InvalidatedIdle(@)]
            /\ port_op' = [port_op EXCEPT !.cur = q]
    /\ UNCHANGED <<idle_tailq, active_tailq, pipe_cmd, pipe_notified, port, hw>>

-----------------------------------------------------------------------------
(* hcd_port_command *)

\* As CommandAllowed, with an event that is not handled first.
CommandBeforeEvent == port_op.at = "idle"

CommandAllowed == port_op.at = "idle" /\ ~port.event_pending

PowerOn ==
    /\ CommandAllowed
    /\ port.state = "NOT_POWERED"
    /\ port' = [port EXCEPT !.state = "DISCONNECTED"]
    /\ hw' = [hw EXCEPT !.powered = TRUE]
    /\ UNCHANGED <<pipeVars, port_op>>

PowerOff ==
    /\ CommandAllowed
    /\ port.state # "NOT_POWERED"
    /\ port' = [port EXCEPT !.state = "NOT_POWERED"]
    /\ hw' = PoweredOff(hw)
    /\ UNCHANGED <<pipeVars, port_op>>

\* The bus is held in reset: nothing is transferred any more.
Reset ==
    /\ CommandAllowed
    /\ port.state \in {"ENABLED", "DISABLED"}
    /\ port' = [port EXCEPT !.state = "RESETTING"]
    /\ hw' = NoLongerEnabled(hw)
    /\ pipes' = [p \in Pipe |-> [pipes[p] EXCEPT !.chan_busy = FALSE]]
    /\ port_op' = At("reset_hold")
    /\ UNCHANGED <<idle_tailq, active_tailq, pipe_cmd, pipe_notified>>

ResetRelease ==
    /\ port_op.at = "reset_hold" /\ hw.change = "NONE"
    /\ IF port.state # "RESETTING"
       THEN port_op' = Idle /\ UNCHANGED hw
       ELSE /\ port_op' = At("reset_recovery")
            /\ hw' = IF hw.connected
                     THEN [hw EXCEPT !.enabled = TRUE, !.change = "ENABLED"]
                     ELSE hw
    /\ UNCHANGED <<pipeVars, port>>

\* Success or not, the command returns; the FIFO sizes are not modelled here.
ResetEnd ==
    /\ port_op.at = "reset_recovery" /\ hw.change = "NONE"
    /\ port_op' = Idle
    /\ UNCHANGED <<pipeVars, port, hw>>

Suspend ==
    /\ CommandAllowed
    /\ port.state = "ENABLED"
    /\ PauseAllPipes(/\ port' = [port EXCEPT !.state = "SUSPENDED"]
                     /\ UNCHANGED <<port_op, hw>>,
                     "suspend_wait")

PortStillEnabled == port.state = "ENABLED" /\ port.conn_devc_ena

SuspendWake ==
    /\ port_op.at = "suspend_wait"
    /\ port.notified
    /\ port' = [port EXCEPT !.notified = FALSE,
                            !.state = IF PortStillEnabled THEN "SUSPENDED" ELSE @]
    /\ port_op' = Idle
    /\ UNCHANGED <<pipeVars, hw>>

Resume ==
    /\ CommandAllowed
    /\ port.state = "SUSPENDED"
    /\ port' = [port EXCEPT !.state = "RESUMING"]
    /\ port_op' = At("resume_hold")
    /\ UNCHANGED <<pipeVars, hw>>

StillResuming == port.state = "RESUMING" /\ port.conn_devc_ena

ResumeRelease ==
    /\ port_op.at = "resume_hold"
    /\ port_op' = IF StillResuming THEN At("resume_recovery") ELSE Idle
    /\ UNCHANGED <<pipeVars, port, hw>>

ResumeEnd ==
    /\ port_op.at = "resume_recovery"
    /\ port_op' = Idle
    /\ IF StillResuming
       THEN port' = [port EXCEPT !.state = "ENABLED"] /\ UnpauseAllPipes
       ELSE UNCHANGED <<port, pipes>>
    /\ UNCHANGED <<idle_tailq, active_tailq, pipe_cmd, pipe_notified, hw>>

\* usbh_hal_port_disable, and the wait for its interrupt
RequestDisable(pt) ==
    /\ port' = [pt EXCEPT !.disable_requested = TRUE]
    /\ hw' = NoLongerEnabled(hw)
    /\ port_op' = At("disable_ack")

Disable ==
    /\ CommandAllowed
    /\ \/ /\ port.state = "ENABLED"
          /\ PauseAllPipes(RequestDisable(port), "disable_wait")
       \/ /\ port.state = "SUSPENDED"
          /\ RequestDisable(port)
          /\ UNCHANGED pipeVars

DisableWake ==
    /\ port_op.at = "disable_wait"
    /\ port.notified
    /\ LET awake == [port EXCEPT !.notified = FALSE] IN
       IF PortStillEnabled
       THEN RequestDisable(awake)
       ELSE port' = awake /\ port_op' = Idle /\ UNCHANGED hw
    /\ UNCHANGED pipeVars

DisableEnd ==
    /\ port_op.at = "disable_ack"
    /\ port.notified
    /\ port' = [port EXCEPT !.notified = FALSE]
    /\ IF port.state = "DISABLED"
       THEN InvalidateActive(First(active_tailq))
       ELSE port_op' = Idle /\ UNCHANGED <<pipes, pipe_notified>>
    /\ UNCHANGED <<idle_tailq, active_tailq, pipe_cmd, hw>>

-----------------------------------------------------------------------------
(* hcd_port_handle_event and hcd_port_recover *)

\* An unpowered port is not debounced.
HandleDebounced ==
    /\ port_op.at = "idle" /\ port.event_pending
    /\ port.last_event \in {"CONNECTION", "DISCONNECTION"}
    /\ IF port.state = "NOT_POWERED"
       THEN /\ port' = [port EXCEPT !.event_pending = FALSE,
                                    !.state = IF port.last_event = "DISCONNECTION"
                                              THEN "DISCONNECTED" ELSE @]
            /\ UNCHANGED port_op
       ELSE /\ port' = [port EXCEPT !.event_pending = FALSE]
            /\ port_op' = At("debounce")
    /\ UNCHANGED <<pipeVars, hw>>

\* The end of the debounce delay.  Both events leave the port DISABLED with a
\* device and DISCONNECTED without one.
Debounced ==
    /\ port_op.at = "debounce"
    /\ port' = [port EXCEPT !.state = IF hw.connected
                                      THEN "DISABLED" ELSE "DISCONNECTED"]
    /\ hw' = [hw EXCEPT !.debouncing = FALSE]
    /\ port_op' = Idle
    /\ UNCHANGED pipeVars

HandleDeviceLost ==
    /\ port_op.at = "idle" /\ port.event_pending
    /\ port.last_event \in {"ERROR", "OVERCURRENT", "SUDDEN_DISCONN"}
    /\ port' = [port EXCEPT !.event_pending = FALSE]
    /\ InvalidateActive(First(active_tailq))
    /\ UNCHANGED <<idle_tailq, active_tailq, pipe_cmd, hw>>

\* flags.val = 0: no event, no operation, no wait left behind.
Recover ==
    /\ port_op.at = "idle"
    /\ port.state = "RECOVERY"
    /\ idle_tailq = << >> /\ active_tailq = << >>
    /\ ~port.event_pending /\ ~port.conn_devc_ena /\ ~port.disable_requested
    /\ ~port.waiting_all_pipes_pause /\ port.num_pipes_waiting_pause = 0
    /\ port' = [port EXCEPT !.state = "NOT_POWERED", !.last_event = "NONE"]
    /\ hw' = [powered |-> FALSE, connected |-> FALSE, enabled |-> FALSE,
              debouncing |-> FALSE, change |-> "NONE"]
    /\ UNCHANGED <<pipeVars, port_op>>

-----------------------------------------------------------------------------
(* The driver *)

\* A blocked or delayed port operation goes on.
PortOpStep ==
    \/ ResetRelease \/ ResetEnd
    \/ SuspendWake \/ ResumeRelease \/ ResumeEnd
    \/ DisableWake \/ DisableEnd
    \/ InvalidateNextActive \/ InvalidateNextIdle
    \/ Debounced

HandleEvent == HandleDebounced \/ HandleDeviceLost

PauseCommand == Suspend \/ Resume \/ Disable

PortInterrupt == IntrConn \/ IntrDisconn \/ IntrEnabled \/ IntrDisabled \/ IntrOvercurrent

ChanTransfer(p) ==
    \/ ChanStage(p) \/ ChanComplete(p)
    \/ \E error \in ChanError : ChanFail(p, error)

\* The task that runs the port operations frees the pipes between two of them.
PipeStep(p) ==
    \/ PipeAlloc(p)
    \/ PipeFree(p) /\ port_op.at = "idle"
    \/ \E irp \in Irp : IrpEnqueue(p, irp) \/ IrpAbort(p, irp)
    \/ IrpDequeue(p)
    \/ PipeGetEvent(p)
    \/ \E cmd \in PipeCmd : PipeCommand(p, cmd)
    \/ PipeCommandReturn(p)
    \/ ChanTransfer(p)
    \/ ChanIgnored(p)

PipeNext == (\E p \in Pipe : PipeStep(p)) /\ UNCHANGED <<port_op, hw>>

\* Everything but the commands that pause the pipes.
UnpausedNext ==
    \/ PipeNext
    \/ PortInterrupt
    \/ PowerOn \/ PowerOff \/ Reset
    \/ PortOpStep \/ HandleEvent \/ Recover

Next == UnpausedNext \/ PauseCommand

Spec == Init /\ [][Next]_vars

-----------------------------------------------------------------------------
(* Safety *)

\* The driver's state has its types.  The results of the buffers and the statuses
\* of the IRPs in the done queues are part of them: the only event that leads
\* _buffer_parse_error to abort() is the channel's own ERROR_IRP_NOT_AVAIL, and no
\* order of flushes, losses and commands does.
TypeOK ==
    /\ pipes \in [Pipe -> Pipe_t]
    /\ idle_tailq \in Seq(Pipe)
    /\ active_tailq \in Seq(Pipe)
    /\ pipe_cmd \in [Pipe -> WaitingCmd]
    /\ pipe_notified \in [Pipe -> BOOLEAN]
    /\ port \in Port_t
    /\ port_op \in PortOp
    /\ hw \in Hw

\* The double buffering of every pipe is consistent whenever hcd_lock is free:
\* the counters, the three indexes and the buffers' IRPs agree, whatever mix of
\* completions, errors, commands, pauses and invalidations ran before.
RingConsistent == \A p \in Pipe : RingOK(pipes[p])

\* The flush that the model makes in one step is what the loops over
\* _buffer_done_error and _buffer_parse make, buffer by buffer, on every pipe that
\* is reached, and also between the completion of a buffer and its parsing.
FlushAgrees ==
    \A p \in Pipe, cancelled \in BOOLEAN :
        \A pipe \in {pipes[p]} \union (IF pipes[p].to_exec > 0 THEN {BufferDone(pipes[p])} ELSE {}) :
            BufferFlushAll(pipe, cancelled) = ParseAll(MarkAllDone(pipe, cancelled))

\* No IRP is lost, duplicated, or in a queue that its state flag does not name.
IrpConservation == \A p \in Pipe : IrpsOK(pipes[p])

\* An IRP belongs to one pipe at most, and to an allocated one.
IrpOwnedOnce ==
    \A irp \in Irp, p, q \in Pipe :
        pipes[p].irp_state[irp] # "IDLE" =>
            /\ Allocated(p)
            /\ pipes[q].irp_state[irp] # "IDLE" => p = q

\* A pipe is in one of the port's two lists, once, and it is in the active list
\* exactly while it holds an IRP: the pause and the invalidation of a pipe, and
\* its removal from the idle list when it is freed, rest on that.
ListsConsistent ==
    /\ \A p \in Pipe :
          /\ InQueue(active_tailq, p) <=> pipes[p].is_active
          /\ pipes[p].is_active <=> ~HoldsNothing(pipes[p])
          /\ ~(InQueue(active_tailq, p) /\ InQueue(idle_tailq, p))
    /\ \A k, l \in 1 .. Len(idle_tailq) : idle_tailq[k] = idle_tailq[l] => k = l
    /\ \A k, l \in 1 .. Len(active_tailq) : active_tailq[k] = active_tailq[l] => k = l

\* An interrupt that the driver processes finds a transfer in flight, so the
\* buffer it completes holds an IRP; and a command that waits is the one whose
\* flag is set.
InterruptHasTransfer ==
    \A p \in Pipe : pipes[p].chan_busy /\ port.conn_devc_ena => pipes[p].executing

\* When the task of a pipe command is woken, its pipe has stopped: nothing was
\* started on the channel between the end of the transfer the command waited for
\* and the return of the command (assert(chan_halted) of _pipe_wait_done).
StoppedWhenWoken ==
    \A p \in Pipe :
        pipe_notified[p] /\ pipes[p].state # "INVALID" =>
            ~pipes[p].chan_busy /\ ~pipes[p].executing

\* A pipe that may work does: with an IRP waiting, an active pipe that nobody
\* pauses or commands has a transfer in flight.  The interrupt starts the next
\* buffer before it refills one, so this rests on there being two of them.
WorkConserving ==
    \A p \in Pipe :
        LET pipe == pipes[p] IN
        (/\ pipe.state = "ACTIVE"
         /\ ~pipe.paused /\ ~pipe.pipe_cmd_processing
         /\ port.state = "ENABLED"
         /\ pipe.pending # << >> \/ pipe.to_exec > 0) => pipe.executing

\* "Each pipe will be put into the invalid state" (_port_invalidate_all_pipes): it is
\* when the loss of the device has been handled.  With one pipe that holds whichever
\* list it is in and whatever its client does meanwhile; with more it takes a client
\* that moves no pipe to the other list between two rounds (HcdHostUse).
LostMeansInvalid ==
    port.state = "RECOVERY" /\ ~port.event_pending /\ port_op.at = "idle"
        => \A p \in Pipe : Allocated(p) => pipes[p].state = "INVALID"

-----------------------------------------------------------------------------
(* What every pipe promises *)

\* The IRPs of a pipe in the order in which the client gets them back.
InOrder(pipe) ==
    [k \in 1 .. Len(pipe.done) |-> pipe.done[k].irp] \o InFlight(pipe) \o pipe.pending

Promise(p) == INSTANCE IrpQueue WITH
    queue  <- InOrder(pipes[p]),
    status <- [k \in 1 .. Len(pipes[p].done) |-> pipes[p].done[k].status],
    lost   <- pipes[p].state = "INVALID"

\* The driver implements IrpQueue for every pipe: the ring of buffers, the
\* interrupt, the commands and the invalidation deliver every IRP exactly once
\* and in order, and an invalid pipe accepts nothing more.  (It is the conjunction
\* of Promise(p)!Spec over the pipes, with the quantifier inside the box.)
PipesKeepPromise ==
    /\ \A p \in Pipe : Promise(p)!Init
    /\ [][\A p \in Pipe : [Promise(p)!Next]_(Promise(p)!vars)]_vars

=============================================================================
