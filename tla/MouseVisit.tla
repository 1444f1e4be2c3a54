------------------------------ MODULE MouseVisit ------------------------------
(***************************************************************************)
(* The visit of a mouse (HostVisit): its one data pipe, and the requests   *)
(* from which its reports follow.                                          *)
(***************************************************************************)
EXTENDS MouseHost, HostVisit

-----------------------------------------------------------------------------
(* begin opens the IN pipe, before the application is told of the device.  *)

\* The pipe of a device that is lost is deleted, and the control pipe is next.
LossHandled == Leaving /\ port_task.at \in {"act", "free_ctrl"}

MouseOpened ==
    /\ Life("in") = "raw" <=> task["ctrl"].at = "begin_in_alloc"
    /\ task["ctrl"].at \in {"ready", "report_map"} => Life("in") = "whole" \/ LossHandled
    /\ task["ctrl"].at \notin {"begin_in", "begin_out", "begin_out_alloc"}
    /\ \A p \in DataPipe \ {"in"} : Life(p) = "none" /\ obj[p].ptr = "null"

MouseVisiting == Visit /\ MouseOpened /\ fault = "none"

-----------------------------------------------------------------------------
(* The report map is asked for once.                                       *)

MapToAsk == task["ctrl"].at \in {"begin_in_alloc", "ready", "report_map"}

MapAsked == {k \in DOMAIN Requests(drv["ctrl"]) : Requests(drv["ctrl"])[k] = "REPORT_MAP"}

MapInHand == task["ctrl"].at \in {"handle", "class"} /\ task["ctrl"].irp.irp = "REPORT_MAP"

MapComing == MapToAsk \/ MapInHand \/ MapAsked # {}

OneMap ==
    vport.state = "ENABLED" /\ Life("in") # "none" =>
        /\ MapToAsk \/ MapInHand => MapAsked = {}
        /\ \A j, k \in MapAsked : j = k

-----------------------------------------------------------------------------
(* There is one request on the IN pipe, from the report map on.            *)

\* What the class driver's callback takes for an error.
MouseErrors == {"ERROR_XFER", "ERROR_STALL"}

NewIn == [NoPipeYet EXCEPT !.alloc = TRUE]

\* The IN pipe with nothing on it; an error has halted it.
InAfter(event) == [NewIn EXCEPT !.state = IF event \in MouseErrors THEN "HALTED" ELSE "ACTIVE"]

\* Its request has ended.
InEnded(event, x) == [InAfter(event) EXCEPT !.done = <<x>>]

Unasked == drv["in"] = NewIn /\ evtq["in"] = << >> /\ task["in"].at = "blocked"

\* It is on its way, done and reported, in the hands of the task, or about to be
\* followed by the next.
OnItsWay ==
    /\ drv["in"] = Enqueue(NewIn, "DATA") /\ evtq["in"] = << >>
    /\ task["in"].at \in {"blocked", "free"}

Reported ==
    \E event \in {"IRP_DONE"} \union MouseErrors, x \in IrpDone :
        /\ x.irp = "DATA" /\ drv["in"] = InEnded(event, x)
        /\ evtq["in"] = <<event>> /\ task["in"].at \in {"blocked", "free"}

InHand ==
    /\ task["in"].at = "handle" /\ task["in"].irp.irp = "DATA"
    /\ task["in"].event \in {"IRP_DONE"} \union MouseErrors
    /\ drv["in"] = InAfter(task["in"].event) /\ evtq["in"] = << >>

ToAskAgain == task["in"].at = "class" /\ drv["in"] = NewIn /\ evtq["in"] = << >>

ReportGoes == OnItsWay \/ Reported \/ InHand \/ ToAskAgain

OneReport ==
    vport.state = "ENABLED" /\ Life("in") = "whole" =>
        Unasked \/ (~MapComing /\ ReportGoes)

MouseReports == OneMap /\ OneReport

=============================================================================
