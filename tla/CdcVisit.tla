------------------------------ MODULE CdcVisit ------------------------------
(***************************************************************************)
(* The visit of a device that the CDC class driver drives (HostVisit): its *)
(* two data pipes, and the errors of its pipes.                            *)
(***************************************************************************)
EXTENDS CdcHost, HostVisit

-----------------------------------------------------------------------------
(* begin opens the IN pipe and then the OUT pipe, before anyone uses them. *)

Unused(p) ==
    /\ evtq[p] = << >> /\ task[p] = TaskIn(IF Life(p) = "whole" THEN "blocked" ELSE "created")
    /\ drv[p] = IF Life(p) = "whole" THEN [NoPipeYet EXCEPT !.alloc = TRUE] ELSE NoPipeYet

Beginning ==
    LET at == task["ctrl"].at IN
    /\ Life("in") = "raw" <=> at = "begin_in_alloc"
    /\ Life("out") = "raw" <=> at = "begin_out_alloc"
    /\ at \in {"begin_in_alloc", "begin_out", "begin_out_alloc", "ready"} =>
          Life("in") # "none" /\ Unused("in") /\ ~ready
    /\ at \in {"begin_in_alloc", "begin_out"} => Life("out") = "none"
    /\ at \in {"begin_out_alloc", "ready"} => Life("out") # "none" /\ Unused("out")

\* Both pipes are there, or none.
Begun ==
    /\ Life("in") = "whole" /\ task["ctrl"].at \notin {"begin_in_alloc", "begin_out", "begin_out_alloc"}
           => Life("out") = "whole"
    /\ \A p \in DataPipe \ {"in", "out"} : Life(p) = "none" /\ obj[p].ptr = "null"
    /\ ready => Life("out") = "whole" \/ (Leaving /\ port_task.at = "act")
    /\ app = "sending" => ready /\ vport.state = "ENABLED"

-----------------------------------------------------------------------------
(* The errors for which a pipe is reset *)

Known == {"ERROR_XFER", "ERROR_STALL"}

Waiting(p) == {k \in DOMAIN evtq[p] : evtq[p][k] \in Known}

\* There is one at most, in the queue or in hand, and the pipe is halted until its
\* task has reset it.
ErrorsAt(p) ==
    /\ \A j, k \in Waiting(p) : j = k
    /\ drv[p].state = "ACTIVE" => Waiting(p) = {}
    /\ task[p].at = "handle" /\ task[p].event \in Known => Waiting(p) = {} /\ drv[p].state # "ACTIVE"
    /\ task[p].at = "class" /\ task[p].event \in Known => Waiting(p) = {} /\ ~OnBus(p)
    /\ task[p].at = "set_config" => task[p].event = "IRP_DONE"

CdcErrors == \A p \in Pipe : ErrorsAt(p)

CdcVisiting == Visit /\ Beginning /\ Begun /\ CdcErrors /\ fault = "none"

=============================================================================
