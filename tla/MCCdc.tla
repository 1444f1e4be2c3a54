------------------------------- MODULE MCCdc -------------------------------
(***************************************************************************)
(* Model checking of the host layer with the CDC class driver.  The        *)
(* specifications differ in what the device may do, and when.              *)
(***************************************************************************)
EXTENDS CdcHost

-----------------------------------------------------------------------------
(* What the device may do *)

\* A device that is there answers the reset.
Answered == vport.state = "RESETTING" => ~vhw.connected

Steps == Tasks \/ (Answered /\ Delay) \/ Plug \/ Enable \/ Transfer

\* The class driver has no pointer to a pipe that is not there.
NoneDangles == \A p \in DataPipe : obj[p].ptr = "set" => obj[p].life = "whole"

\* No pipe is being made: the port task is not in a connection, the control pipe's
\* task not in begin.
NotMakingPipes ==
    /\ PortBlocked /\ app = "loop" /\ vport.conn_devc_ena
    /\ task["ctrl"].at \notin {"begin_in", "begin_in_alloc", "begin_out", "begin_out_alloc", "ready"}

\* The application asks for something only between the callbacks that tell it of the
\* device and of its loss.  Neither the library nor the example sees to that (Eager).
AppWaits == ready

\* Transfers on the data pipes may stall, and the device leaves under the pipe tasks.
\* No tick comes between the making of a task and that of its queue (Sliced).
SessionNext ==
    /\ fault = "none"
    /\ \/ Steps \/ (AppWaits /\ App)
       \/ /\ \E p \in DataPipe : TransferFailed(p, "ERROR_STALL")
          /\ UNCHANGED <<vport, vhw, op, portVars>>
       \/ NotMakingPipes /\ NoneDangles /\ Unplug

\* A device that is plugged in answers the reset and every transfer; the tasks of
\* equal priority share the core.
Session ==
    /\ Init /\ [][SessionNext]_vars
    /\ WF_vars(init \/ initCallback)
    /\ WF_vars(PortTask \/ PortCb) /\ WF_vars(Answered /\ Delay) /\ WF_vars(Enable)
    /\ \A p \in Pipe : WF_vars(PipeTask(p)) /\ WF_vars(TransferDone(p) /\ UNCHANGED <<vport, vhw, op, portVars>>)
    /\ WF_vars(PipeCb)

\* The device may leave and come back at any time, the port fail and overload.
PortNext ==
    /\ fault = "none"
    /\ Tasks \/ Delay \/ Plug \/ Enable \/ Transfer \/ Unplug \/ Fault \/ Overload \/ TimeSlice

AnyPort == Init /\ [][PortNext]_vars

\* The device leaves again before it is enumerated.
ReplugNext == fault = "none" /\ (Steps \/ (NotMakingPipes /\ Unplug))

Replug == Init /\ [][ReplugNext]_vars

\* The device leaves at any time.
HastyNext == fault = "none" /\ (Steps \/ Unplug)

Hasty == Init /\ [][HastyNext]_vars

\* The application does not wait for the device.
Eager == Init /\ [][fault = "none" /\ (Steps \/ App)]_vars

\* The tick comes at any time.
Sliced == Init /\ [][SessionNext \/ (fault = "none" /\ TimeSlice)]_vars

\* Transfers fail, and the application asks for what it likes.
ErrorNext ==
    /\ fault = "none"
    /\ Steps \/ setLineCoding \/ getSerialString \/ TransferError(ErrorEvent)

Errors == Init /\ [][ErrorNext]_vars

-----------------------------------------------------------------------------
(* Safety *)

\* The reset with which suddenDisconnect begins is never accepted.
ResetRefused ==
    port_task.at = "act" /\ port_task.event = "SUDDEN_DISCONN" => ~CanReset

\* Every event of the driver that is not handled has a message on its way to the
\* port task, though the driver keeps one event and the queue five messages.
EventHasMessage ==
    vport.event_pending /\ port_task.at = "blocked" => port_evtq # << >>

\* The driver's one event and the task's messages go out of step, and do no harm.
PortSafe == TypeOK /\ EventHasMessage /\ ResetRefused

\* begin, sendData, the requests and the class callbacks use pipes that are whole.
\* Nothing tests for it: in a session they rest on the order of the enumeration, on the
\* priorities of the tasks, on an application that waits and on a tick that does not
\* come between pipe.cpp:153 and 154.
UsesWholePipes == fault # "use"

\* port_cb and freeCTRLpipe delete pipes that are whole, and each once.
DeletesWholePipes == fault # "delete"

\* The driver has no pipe that the host layer has let go of (hcd_pipe_free is
\* refused while the pipe holds IRPs, hcd_port_recover while there is a pipe).
NoOrphan == fault = "lost" \/ \A p \in Pipe : drv[p].alloc => obj[p].life = "whole"

\* A pipe that is reset for an error has nothing on the bus, so the reset does not
\* make the pipe's task wait for a transfer: whichever message brought the error,
\* and though the class driver resets the pipe again.
ResetStopped ==
    \A p \in Pipe :
        task[p].at \in {"handle", "class"} /\ task[p].event \in {"ERROR_XFER", "ERROR_STALL"}
            => ~OnBus(p)

\* When the port task has nothing left to do, the port is powered and waits for a
\* device or has one: the reset, the deletions, recover and powerON of a sudden
\* disconnection have all been accepted, with no look at their results.
Recovered ==
    port_task.at = "blocked" /\ port_evtq = << >> => vport.state \notin {"RECOVERY", "NOT_POWERED"}

\* The tests that the code leaves out are not missed: nobody looks at whether a pipe
\* is there, whether it could be freed, or whether a command was accepted.
SessionSafe == UsesWholePipes /\ DeletesWholePipes /\ NoOrphan /\ ResetStopped /\ Recovered

\* As long as the device is there, the IN pipe has a request under way, or its task
\* has an answer in hand or coming to which it sends the next: "previous IRP
\* dequeued, time to send another request" (in_pipe_cb).
ChainAlive ==
    ready /\ vport.state = "ENABLED" =>
        \/ drv["in"].moving # << >> \/ drv["in"].pending # << >>
        \/ drv["in"].done # << >> /\ evtq["in"] # << >>
        \/ task["in"].at \in {"handle", "class"}

\* The driver talks to the device at the address the device answers to: on the control
\* pipe, whose address is changed while requests come and go, and on the data pipes,
\* which get theirs when they are made.  It takes an application that queues nothing
\* behind the SET_ADDRESS (AppWaits): what is there starts at the old address (Eager).
AddressAgrees == \A p \in Pipe : OnBus(p) => addr[p] = dev_addr

\* No request of the enumeration, of the application or of the chain of the IN pipe
\* is refused and lost as long as the device is there, also after a stall.
NoneLostWhileThere == [][leaked' > leaked => vport.state # "ENABLED"]_vars

-----------------------------------------------------------------------------
(* Liveness *)

\* A device that is plugged in is reported to the application, or leaves; also one
\* that comes after another.
Enumerated == vhw.connected ~> ready \/ ~vhw.connected

\* The loss of a device ends in a port that is ready for the next one.
ComesBack == vport.state = "RECOVERY" ~> vport.state = "DISCONNECTED"

-----------------------------------------------------------------------------
(* What the comments say, and the code does not do *)

\* "Free transfer requests (and their associated objects such as IRPs and data
\* buffers)" (freePipe)
NothingLeaks == leaked = 0

\* "This function should be called on a pipe after a pipe receives a
\* HCD_PIPE_EVENT_IRP_DONE event" (hcd_irp_dequeue): a pipe's finished IRPs never
\* outnumber its messages.
MessagePerIrp == PortBlocked => \A p \in Pipe : Len(drv[p].done) <= Len(evtq[p])

\* "physical disconnection detected" (port_event_task, of DISCONNECTION): the port
\* is powered off when there is no device.
PowersOffGone ==
    [][port_task.at = "act" /\ port_task.event = "DISCONNECTION" /\ vport'.state = "NOT_POWERED"
           => ~vhw.connected]_vars

\* "The pipe has completed an IRP" (HCD_PIPE_EVENT_IRP_DONE)
DoneIsCompleted ==
    \A p \in Pipe :
        task[p].at = "handle" /\ task[p].event = "IRP_DONE" => task[p].irp.status = "COMPLETED"

\* "All IRPs have been dequeued from the pipe" (hcd_pipe_update_dev_addr)
AddressOfIdlePipe ==
    [][\A p \in Pipe : drv[p].alloc /\ addr'[p] # addr[p] => drv[p].moving = << >>]_vars

\* "intended to be called on default pipes during enumeration in order to update the
\* pipe's device address" (hcd_pipe_update_dev_addr): the address of a data pipe
\* stays the one that begin gave it.
DataPipesKeepAddress == \A p \in DataPipe : drv[p].alloc => addr[p] = Address

=============================================================================
