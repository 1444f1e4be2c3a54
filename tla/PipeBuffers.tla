---------------------------- MODULE PipeBuffers ----------------------------
(***************************************************************************)
(* The data of one HCD pipe (pipe_t of hcd.c) and the functions that move  *)
(* an IRP through it:                                                      *)
(*                                                                         *)
(*   pending_irp_tailq  -fill->  ring of buffers  -parse->  done_irp_tailq *)
(*                                                                         *)
(* A pipe is a record; each C function is an operator from record to       *)
(* record.  HcdPipe and HcdPort call them from the handlers of the driver. *)
(*                                                                         *)
(* Abstractions: num_irp_pending and num_irp_done are the lengths of their *)
(* queues (the code moves each counter on the line that moves the queue);  *)
(* the transfer descriptors of a buffer are dropped; usb_irp_t.status is   *)
(* kept beside the IRP in the done queue, because every assignment to it   *)
(* is followed by the move to that queue in the same critical section.     *)
(***************************************************************************)
EXTENDS Integers, Sequences

CONSTANTS
    Irp,            \* I/O request packets of the clients
    NoIrp,          \* the NULL of buffer->irp
    NumBuffers,     \* NUM_BUFFERS, 2 in the code
    ChanError,      \* the errors a channel may report, as pipe_decode_error_event names them
    NoDataStage     \* the IRPs that have no data stage on a control pipe (num_bytes = 0)

ASSUME NumBuffersAssumption == NumBuffers \in Nat \ {0}
ASSUME IrpAssumption == NoIrp \notin Irp /\ NoDataStage \subseteq Irp

\* The events pipe_decode_error_event makes of a channel's errors; the last one
\* is that of a descriptor the controller finds not ready (BNA).
ErrorEvent == {"ERROR_XFER", "ERROR_OVERFLOW", "ERROR_STALL", "ERROR_IRP_NOT_AVAIL"}

ASSUME ChanErrorAssumption == ChanError \subseteq ErrorEvent

Idx == 0 .. NumBuffers - 1

\* The one channel error for which _buffer_parse_error aborts.  The model marks the
\* IRP with the error's name (ErrorStatus) and goes on.
Fatal == ChanError \cap {"ERROR_IRP_NOT_AVAIL"}

\* The statuses the HCD gives to an IRP; a buffer with no result yet has "NONE".
Status == {"COMPLETED", "ERROR", "STALL", "OVERFLOW", "CANCELED", "NO_DEVICE"} \union Fatal

PipeState == {"ACTIVE", "HALTED", "INVALID"}

PipeEvent == {"NONE", "IRP_DONE", "INVALID"} \union ChanError

\* The IRP_STATE_* values of reserved_flags.
IrpState == {"IDLE", "PENDING", "INFLIGHT", "DONE"}

DoneIrp == [irp : Irp, status : Status]

Pipe_t ==
    [is_ctrl             : BOOLEAN,             \* ep_char.type is CTRL
     pending             : Seq(Irp),
     done                : Seq(DoneIrp),
     irp_state           : [Irp -> IrpState],   \* for the IRPs whose reserved_ptr is this pipe
     buf                 : [Idx -> Irp \union {NoIrp}],
     result              : [Idx -> Status \union {"NONE"}],
     cur_stg             : [Idx -> 0 .. 2],
     to_fill             : 0 .. NumBuffers,
     to_exec             : 0 .. NumBuffers,
     to_parse            : 0 .. NumBuffers,
     wr_idx              : Idx,
     rd_idx              : Idx,
     fr_idx              : Idx,
     executing           : BOOLEAN,             \* buffer_is_executing
     chan_busy           : BOOLEAN,             \* the channel owns a transfer (HAL)
     state               : PipeState,
     last_event          : PipeEvent,
     waiting_xfer_done   : BOOLEAN,
     paused              : BOOLEAN,
     pipe_cmd_processing : BOOLEAN,
     is_active           : BOOLEAN]

\* A pipe as hcd_pipe_alloc leaves it.
NewPipe(is_ctrl) ==
    [is_ctrl             |-> is_ctrl,
     pending             |-> << >>,
     done                |-> << >>,
     irp_state           |-> [i \in Irp |-> "IDLE"],
     buf                 |-> [j \in Idx |-> NoIrp],
     result              |-> [j \in Idx |-> "NONE"],
     cur_stg             |-> [j \in Idx |-> 0],
     to_fill             |-> NumBuffers,
     to_exec             |-> 0,
     to_parse            |-> 0,
     wr_idx              |-> 0,
     rd_idx              |-> 0,
     fr_idx              |-> 0,
     executing           |-> FALSE,
     chan_busy           |-> FALSE,
     state               |-> "ACTIVE",
     last_event          |-> "NONE",
     waiting_xfer_done   |-> FALSE,
     paused              |-> FALSE,
     pipe_cmd_processing |-> FALSE,
     is_active           |-> FALSE]

-----------------------------------------------------------------------------
(* Index arithmetic.  The 1-bit index fields wrap at NUM_BUFFERS. *)

Inc(i) == IF i = NumBuffers - 1 THEN 0 ELSE i + 1

Plus(i, k) == IF i + k >= NumBuffers THEN i + k - NumBuffers ELSE i + k

\* TAILQ_REMOVE of x, which is in the queue q.
Without(q, x) ==
    LET k == CHOOSE k \in 1 .. Len(q) : q[k] = x
    IN  [l \in 1 .. Len(q) - 1 |-> IF l < k THEN q[l] ELSE q[l + 1]]

\* How many buffers index j lies behind index i.
Dist(i, j) == IF j >= i THEN j - i ELSE j - i + NumBuffers

\* The buffers that hold an IRP: those to parse, then those to execute.
Filled(p) == {j \in Idx : Dist(p.fr_idx, j) < p.to_parse + p.to_exec}

\* The IRPs in the buffers, oldest first.
InFlight(p) == [k \in 1 .. p.to_parse + p.to_exec |-> p.buf[Plus(p.fr_idx, k - 1)]]

-----------------------------------------------------------------------------
(* Fill, execute, complete, parse. *)

\* As CanFill, for a ring that is filled only when it is empty.
CanFillEmptyRing(p) == p.pending # << >> /\ p.to_fill = NumBuffers

CanFill(p) == p.pending # << >> /\ p.to_fill > 0

CanExec(p) == ~p.executing /\ p.to_exec > 0

BufferFill(p) ==
    LET irp == Head(p.pending) IN
    [p EXCEPT !.pending = Tail(@),
              !.buf[p.wr_idx] = irp,
              !.cur_stg[p.wr_idx] = 0,
              !.irp_state[irp] = "INFLIGHT",
              !.wr_idx = Inc(@),
              !.to_fill = @ - 1,
              !.to_exec = @ + 1]

\* Hands the buffer at rd_idx to the channel.
BufferExec(p) == [p EXCEPT !.executing = TRUE, !.chan_busy = TRUE]

\* As FillIfCan, with a dropped test for a free buffer.
FillIfPending(p) == IF p.pending # << >> THEN BufferFill(p) ELSE p

FillIfCan(p) == IF CanFill(p) THEN BufferFill(p) ELSE p

\* The pair of ifs that ends an enqueue, a clear and an unpause.
FillAndExec(p) ==
    LET f == FillIfCan(p) IN IF CanExec(f) THEN BufferExec(f) ELSE f

\* _buffer_check_done: only the last stage of a control transfer completes it.
LastStage(p) == ~p.is_ctrl \/ p.cur_stg[p.rd_idx] = 2

\* Starts the next stage of the control transfer in flight.
NextStage(p) ==
    [p EXCEPT !.cur_stg[p.rd_idx] =
                  IF @ = 1 \/ p.buf[p.rd_idx] \in NoDataStage THEN 2 ELSE 1,
              !.chan_busy = TRUE]

\* As MarkDone, with a flag that is not reset.
MarkDoneStillExecuting(p, result) ==
    [p EXCEPT !.result[p.rd_idx] = result,
              !.rd_idx = Inc(@),
              !.to_exec = @ - 1,
              !.to_parse = @ + 1]

\* What _buffer_done and _buffer_done_error have in common.
MarkDone(p, result) ==
    [p EXCEPT !.result[p.rd_idx] = result,
              !.rd_idx = Inc(@),
              !.to_exec = @ - 1,
              !.to_parse = @ + 1,
              !.executing = FALSE]

BufferDone(p) == MarkDone(p, "COMPLETED")

\* The status _buffer_parse_error gives, from the flags _buffer_done_error stored.
\* The default of its switch, abort(), is the name of the channel error that leads
\* there, and "NONE" for the events that no error is.
ErrorStatus(cancelled, pipe_state, pipe_event) ==
    CASE cancelled -> "CANCELED"
      [] ~cancelled /\ pipe_state = "INVALID" -> "NO_DEVICE"
      [] OTHER -> CASE pipe_event = "ERROR_XFER" -> "ERROR"
                    [] pipe_event = "ERROR_OVERFLOW" -> "OVERFLOW"
                    [] pipe_event = "ERROR_STALL" -> "STALL"
                    [] pipe_event = "IRP_DONE" -> "CANCELED"
                    [] pipe_event = "ERROR_IRP_NOT_AVAIL" -> pipe_event
                    [] OTHER -> "NONE"

BufferDoneError(p, cancelled) == MarkDone(p, ErrorStatus(cancelled, p.state, p.last_event))

BufferParse(p) ==
    LET irp == p.buf[p.fr_idx] IN
    [p EXCEPT !.irp_state[irp] = "DONE",
              !.buf[p.fr_idx] = NoIrp,
              !.result[p.fr_idx] = "NONE",
              !.cur_stg[p.fr_idx] = 0,
              !.done = Append(@, [irp |-> irp, status |-> p.result[p.fr_idx]]),
              !.fr_idx = Inc(@),
              !.to_parse = @ - 1,
              !.to_fill = @ + 1]

-----------------------------------------------------------------------------
(* Flush and retire. *)

\* The two loops of _buffer_flush_all, call by call.
MarkAllDone(p, cancelled) ==
    LET marked[k \in 0 .. p.to_exec] ==
            IF k = 0 THEN p ELSE BufferDoneError(marked[k - 1], cancelled)
    IN  marked[p.to_exec]

ParseAll(p) ==
    LET parsed[k \in 0 .. p.to_parse] == IF k = 0 THEN p ELSE BufferParse(parsed[k - 1])
    IN  parsed[p.to_parse]

\* _buffer_flush_all in closed form: every filled buffer is marked done and
\* parsed, oldest first.  HcdPort!FlushAgrees compares it with the two loops.
BufferFlushAll(p, cancelled) ==
    LET n == p.to_parse + p.to_exec
        st == ErrorStatus(cancelled, p.state, p.last_event)
        StatusAt(k) == IF k <= p.to_parse THEN p.result[Plus(p.fr_idx, k - 1)] ELSE st
    IN  [p EXCEPT
            !.done = @ \o [k \in 1 .. n |-> [irp |-> InFlight(p)[k], status |-> StatusAt(k)]],
            !.irp_state = [i \in Irp |-> IF \E j \in Filled(p) : p.buf[j] = i
                                         THEN "DONE" ELSE p.irp_state[i]],
            !.buf = [j \in Idx |-> IF j \in Filled(p) THEN NoIrp ELSE p.buf[j]],
            !.result = [j \in Idx |-> IF j \in Filled(p) THEN "NONE" ELSE p.result[j]],
            !.cur_stg = [j \in Idx |-> IF j \in Filled(p) THEN 0 ELSE p.cur_stg[j]],
            !.rd_idx = p.wr_idx,
            !.fr_idx = p.wr_idx,
            !.to_fill = @ + n,
            !.to_exec = 0,
            !.to_parse = 0,
            !.executing = IF p.to_exec > 0 THEN FALSE ELSE @]

Retire(p, self_initiated) ==
    LET st == IF self_initiated THEN "CANCELED" ELSE "NO_DEVICE" IN
    [p EXCEPT
        !.done = @ \o [k \in 1 .. Len(p.pending) |-> [irp |-> p.pending[k], status |-> st]],
        !.irp_state = [i \in Irp |-> IF \E k \in 1 .. Len(p.pending) : p.pending[k] = i
                                     THEN "DONE" ELSE p.irp_state[i]],
        !.pending = << >>]

-----------------------------------------------------------------------------
(* What a pipe's data must satisfy whenever the critical section is open. *)

\* The three counters account for every buffer.
Counted(p) == p.to_fill + p.to_exec + p.to_parse = NumBuffers

\* The indexes delimit the windows they name.
Indexed(p) ==
    /\ p.rd_idx = Plus(p.fr_idx, p.to_parse)
    /\ p.wr_idx = Plus(p.rd_idx, p.to_exec)

\* Exactly the buffers of the windows hold an IRP.
Occupied(p) == \A j \in Idx : p.buf[j] # NoIrp <=> j \in Filled(p)

\* Only a buffer that waits to be parsed has a result.
Reported(p) == \A j \in Idx : p.result[j] # "NONE" => Dist(p.fr_idx, j) < p.to_parse

\* The ring, also in the middle of a function; a transfer in flight has a buffer.
RingWindows(p) ==
    /\ Counted(p)
    /\ Indexed(p)
    /\ Occupied(p)
    /\ Reported(p)
    /\ p.executing => p.to_exec > 0

\* Outside of them no buffer is left unparsed.
RingOK(p) == RingWindows(p) /\ p.to_parse = 0

\* Every IRP is in the one place its IRP_STATE flag names, and only once.
PendingOK(p) ==
    /\ \A i \in Irp : p.irp_state[i] = "PENDING" <=> \E k \in 1 .. Len(p.pending) : p.pending[k] = i
    /\ \A k, l \in 1 .. Len(p.pending) : p.pending[k] = p.pending[l] => k = l

InFlightOK(p) ==
    /\ \A i \in Irp : p.irp_state[i] = "INFLIGHT" <=> \E j \in Idx : p.buf[j] = i
    /\ \A j, k \in Idx : p.buf[j] = p.buf[k] /\ p.buf[j] # NoIrp => j = k

DoneOK(p) ==
    /\ \A i \in Irp : p.irp_state[i] = "DONE" <=> \E k \in 1 .. Len(p.done) : p.done[k].irp = i
    /\ \A k, l \in 1 .. Len(p.done) : p.done[k].irp = p.done[l].irp => k = l

IrpsOK(p) == PendingOK(p) /\ InFlightOK(p) /\ DoneOK(p)

=============================================================================
