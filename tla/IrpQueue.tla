----------------------------- MODULE IrpQueue ------------------------------
(***************************************************************************)
(* What a pipe promises its client about IRPs, without buffers, indexes,   *)
(* interrupts or commands: every IRP accepted is given back once, with one *)
(* status, in the order of acceptance, except that an IRP the client       *)
(* aborts in time overtakes those before it.  Once the device is lost      *)
(* every IRP is over and none is accepted.                                 *)
(***************************************************************************)
EXTENDS Integers, Sequences

CONSTANTS Irp, Status

VARIABLES
    queue,      \* the IRPs accepted and not yet given back, in order
    status,     \* the statuses of those that are over, a prefix of queue
    lost        \* the device is lost

vars == <<queue, status, lost>>

NumOver == Len(status)

Rest == Len(queue) - NumOver

TypeOK ==
    /\ queue \in Seq(Irp)
    /\ status \in Seq(Status)
    /\ NumOver <= Len(queue)
    /\ lost \in BOOLEAN

Init == queue = << >> /\ status = << >> /\ lost = FALSE

Accept(irp) ==
    /\ ~lost
    /\ \A k \in 1 .. Len(queue) : queue[k] # irp
    /\ queue' = Append(queue, irp)
    /\ UNCHANGED <<status, lost>>

\* The oldest IRP that is not over ends, well or not.
End(s) ==
    /\ ~lost /\ s # "NO_DEVICE"
    /\ Rest > 0
    /\ status' = Append(status, s)
    /\ UNCHANGED <<queue, lost>>

EndRest(s) == status' = status \o [k \in 1 .. Rest |-> s]

\* A command of the client ends all the IRPs.
CancelAll == ~lost /\ EndRest("CANCELED") /\ UNCHANGED <<queue, lost>>

\* The client takes one IRP back: it is the next to be over.
Cancel(k) ==
    /\ k > NumOver
    /\ LET from == NumOver + 1 IN
       queue' = [l \in 1 .. Len(queue) |->
                    IF l = from THEN queue[k]
                    ELSE IF l > from /\ l <= k THEN queue[l - 1] ELSE queue[l]]
    /\ status' = Append(status, "CANCELED")
    /\ UNCHANGED lost

Lose == lost' = TRUE /\ EndRest("NO_DEVICE") /\ UNCHANGED queue

GiveBack ==
    /\ status # << >>
    /\ queue' = Tail(queue)
    /\ status' = Tail(status)
    /\ UNCHANGED lost

\* The pipe is freed; its next user starts afresh.
Reopen == queue = << >> /\ lost' = FALSE /\ UNCHANGED <<queue, status>>

Next ==
    \/ \E irp \in Irp : Accept(irp)
    \/ \E s \in Status : End(s)
    \/ CancelAll
    \/ \E k \in 1 .. Len(queue) : Cancel(k)
    \/ Lose
    \/ GiveBack
    \/ Reopen

Spec == Init /\ [][Next]_vars

=============================================================================
