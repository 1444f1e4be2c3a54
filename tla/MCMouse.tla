------------------------------ MODULE MCMouse ------------------------------
(***************************************************************************)
(* Model checking of the host layer with the mouse class driver.           *)
(***************************************************************************)
EXTENDS MouseHost

\* A device that is there answers the reset.
MouseAnswered == vport.state = "RESETTING" => ~vhw.connected

\* The device leaves under the tasks of the pipes, but neither while a pipe is made
\* nor before it is enumerated (the CDC runs show what comes of that).
MouseMayLeave ==
    /\ PortBlocked /\ app = "loop" /\ vport.conn_devc_ena
    /\ task["ctrl"].at \notin {"begin_in_alloc", "ready"}
    /\ obj["in"].ptr = "set" => obj["in"].life = "whole"

\* The IN pipe's transfers end in the two errors that in_pipe_cb answers with a reset,
\* and not in an overflow; requests on the control pipe succeed.  No tick comes between
\* the making of the pipe's task and that of its queue (TimeSlice: MCCdc!Sliced).
MouseSessionNext ==
    /\ fault = "none"
    /\ \/ MouseTasks
       \/ MouseAnswered /\ Delay
       \/ Plug \/ Enable \/ Transfer
       \/ /\ \E event \in {"ERROR_XFER", "ERROR_STALL"} : TransferFailed("in", event)
          /\ UNCHANGED <<vport, vhw, op, portVars>>
       \/ MouseMayLeave /\ Unplug

\* The device answers its reset and the requests on the control pipe; the tasks of
\* equal priority share the core.
MouseSession ==
    /\ Init /\ [][MouseSessionNext]_vars
    /\ WF_vars(init \/ initCallback)
    /\ WF_vars(PortTask \/ MousePortCb) /\ WF_vars(MouseAnswered /\ Delay) /\ WF_vars(Enable)
    /\ \A p \in Pipe : WF_vars(PipeTask(p) \/ MousePipeCb(p))
    /\ WF_vars(TransferDone("ctrl") /\ UNCHANGED <<vport, vhw, op, portVars>>)

-----------------------------------------------------------------------------

\* No pipe is used when it is not whole: FirstReport and in_pipe_cb find the pipe
\* that begin made, though all that the application looks at is an event number.
\* (What a tick between the task and its queue does is not part of a MouseSession.)
MouseUsesWhole == fault # "use"

\* port_cb deletes the IN pipe once, and whole.
MouseDeletesWhole == fault # "delete"

\* A request for a report is under way, or its answer is on its way to the task or
\* in its hands.
Reporting ==
    \/ drv["in"].moving # << >> \/ drv["in"].pending # << >>
    \/ drv["in"].done # << >> /\ evtq["in"] # << >>
    \/ task["in"].at \in {"handle", "class"}

\* Once the reports have begun they go on until the device is gone, through the errors
\* after which in_pipe_cb (mousepipe.cpp:125) resets the pipe: transaction errors and
\* stalls.  After an overflow nothing resets it, and the reports end.
ReportsGoOn == [][Reporting /\ vport'.state = "ENABLED" => Reporting']_vars

\* A mouse that is plugged in comes to report, or leaves; also one that comes after
\* another: the chain of requests from the first descriptor to the report map is
\* not broken.
ReportsBegin == vhw.connected ~> Reporting \/ ~vhw.connected

\* Also without a look at any result the port ends up ready for the next device.
MouseRecovered ==
    port_task.at = "blocked" /\ port_evtq = << >> => vport.state \notin {"RECOVERY", "NOT_POWERED"}

\* The same as for the CDC: no result is looked at, and none is missed.
MouseSafe == TypeOK /\ MouseUsesWhole /\ MouseDeletesWhole /\ MouseRecovered

=============================================================================
