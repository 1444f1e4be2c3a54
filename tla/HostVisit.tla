----------------------------- MODULE HostVisit -----------------------------
(***************************************************************************)
(* The visit of a device, as long as it leaves only when it is enabled and *)
(* no pipe is being made: what the place of the port task says of the      *)
(* port, of the objects and of the control pipe's requests, for any class  *)
(* driver that opens its first data pipe, IN, when it is given the         *)
(* descriptor of the configuration.                                        *)
(***************************************************************************)
EXTENDS HostPort

-----------------------------------------------------------------------------
(* The port *)

Calm == port_evtq = << >> /\ ~vport.event_pending

\* A device has come, and the port task does not know.
Arrived ==
    /\ vport.event_pending /\ vport.last_event = "CONNECTION"
    /\ vport.state = "DISCONNECTED" /\ vhw.connected

\* The device has gone, and the driver does not know.
Gone == vport.event_pending /\ vport.last_event = "SUDDEN_DISCONN" /\ vport.state = "RECOVERY"

Coming == port_task.event = "CONNECTION"

Leaving == port_task.event = "SUDDEN_DISCONN"

\* The port task waits for a message, of which there is one at most.
Waits ==
    port_task.at = "blocked" =>
        \/ Calm /\ vport.state \in {"DISCONNECTED", "ENABLED"}
        \/ port_evtq = <<"CONNECTION">> /\ Arrived
        \/ port_evtq = <<"SUDDEN_DISCONN">> /\ Gone

Handling ==
    /\ port_task.at = "handle" =>
          port_evtq = << >> /\ ((Coming /\ Arrived) \/ (Leaving /\ Gone))
    /\ port_task.at = "debounce" =>
          Coming /\ Calm /\ vport.state = "DISCONNECTED" /\ vhw.connected
    /\ port_task.at \in {"post", "invalidate"} => Leaving /\ Calm /\ vport.state = "RECOVERY"
    /\ port_task.at = "class" =>
          Calm /\ ((Coming /\ vport.state = "DISABLED") \/ (Leaving /\ vport.state = "RECOVERY"))

\* The connection, in which the device may leave again.
Connecting ==
    /\ port_task.at = "reset" =>
          \/ Calm /\ vport.state \in {"RESETTING", "ENABLED"}
          \/ port_evtq = <<"SUDDEN_DISCONN">> /\ Gone
    /\ port_task.at \in {"connected", "alloc_pipe", "get_desc", "set_addr"} =>
          Calm /\ vport.state = "ENABLED"
    /\ port_task.at = "act" =>
          \/ Coming /\ Calm /\ vport.state = "ENABLED"
          \/ Coming /\ port_evtq = <<"SUDDEN_DISCONN">> /\ Gone
          \/ Leaving /\ Calm /\ vport.state = "RECOVERY"

Recovering ==
    /\ port_task.at \in {"free_ctrl", "recover"} => Calm /\ vport.state = "RECOVERY"
    /\ port_task.at = "power_on" => Calm /\ vport.state = "NOT_POWERED"

Operates ==
    op = CASE port_task.at = "debounce" -> "debounce"
           [] port_task.at = "reset" -> "reset"
           [] port_task.at \in {"post", "invalidate"} -> "invalidate"
           [] OTHER -> "idle"

\* The hardware, the driver and the application.
Hardware ==
    /\ vport.conn_devc_ena <=> vport.state = "ENABLED"
    /\ vport.state \in {"DISABLED", "RESETTING", "ENABLED"} => vhw.connected /\ ~vhw.debouncing
    /\ vport.state = "DISCONNECTED" => (vhw.debouncing <=> vhw.connected)
    /\ vport.state = "DISCONNECTED" /\ port_task.at = "blocked" /\ Calm => ~vhw.connected
    /\ vport.state = "RECOVERY" => vhw.debouncing
    /\ vport.state = "NOT_POWERED" => ~vhw.powered /\ ~vhw.connected /\ ~vhw.debouncing
    /\ callback <=> app \in {"loop", "sending"}
    /\ vport.state \in {"DISABLED", "RESETTING", "ENABLED", "RECOVERY"} => callback
    /\ app = "boot" <=> port_task.at = "none"
    /\ app = "boot" => Calm /\ vport.state = "NOT_POWERED"

PortVisit == Waits /\ Handling /\ Connecting /\ Recovering /\ Operates /\ Hardware

-----------------------------------------------------------------------------
(* The objects *)

Life(p) == obj[p].life

\* What the driver, the tasks and the pointers have of an object.
OwnedAt(p) ==
    /\ Life(p) = "whole" <=> drv[p].alloc
    /\ ~drv[p].alloc => drv[p] = NoPipeYet
    /\ Life(p) = "none" <=> task[p].at = "none"
    /\ task[p].at \in {"none", "created", "blocked"} => task[p] = TaskIn(task[p].at)
    /\ Life(p) = "none" => evtq[p] = << >>
    /\ Life(p) # "none" => obj[p].ptr = "set" /\ vport.state \in {"ENABLED", "RECOVERY"}
    /\ Life(p) = "raw" <=> task[p].at = "created"
    /\ Life(p) = "raw" => vport.state = "ENABLED" /\ evtq[p] = << >>
    /\ drv[p].state = "INVALID" =>
          vport.state = "RECOVERY" /\ drv[p].moving = << >> /\ drv[p].pending = << >>

Owned == \A p \in Pipe : OwnedAt(p)

\* Only the control pipe's pointer is kept true.
Pointers ==
    /\ obj["ctrl"].ptr = "set" => Life("ctrl") # "none"
    /\ Life("ctrl") = "raw" <=> port_task.at = "alloc_pipe"
    /\ vport.state = "RECOVERY" /\ ~(Leaving /\ port_task.at \in {"act", "free_ctrl", "recover"})
           => \A p \in DataPipe : obj[p].ptr = "set" => Life(p) = "whole"

\* The data pipes come after the control pipe and go before it.
Nested ==
    /\ \A p \in DataPipe : Life(p) # "none" => Life("ctrl") = "whole" /\ Life("in") # "none"
    /\ port_task.at \in {"connected", "reset", "recover"} => Life("ctrl") = "none"
    /\ port_task.at \in {"alloc_pipe", "get_desc", "set_addr"} => Life("in") = "none"
    /\ port_task.at \in {"get_desc", "set_addr"} => Life("ctrl") = "whole"
    /\ Leaving /\ port_task.at \in {"act", "free_ctrl"} => Life("in") = "none"

\* The driver has told of the pipes that it invalidates.
Invalidated ==
    /\ port_task.at \in {"post", "invalidate"} =>
          port_task.cur \in Pipe /\ drv[port_task.cur].state = "INVALID"
    /\ Leaving /\ port_task.at \in {"class", "act", "free_ctrl"} =>
          \A p \in Pipe : drv[p].alloc => drv[p].state = "INVALID"

ObjectsVisit == Owned /\ Pointers /\ Nested /\ Invalidated

-----------------------------------------------------------------------------
(* The requests on the control pipe *)

Requests(d) == [k \in 1 .. Len(d.done) |-> d.done[k].irp] \o d.moving \o d.pending

\* The requests from which the next one follows, or the data pipes.
Chained == {"SET_ADDR", "SET_CFG", "CFG_DESC"}

\* Neither before the control pipe, nor when the data pipes are gone again.
Enumerating ==
    /\ Life("ctrl") = "whole" /\ Life("in") = "none"
    /\ ~(Leaving /\ port_task.at \in {"act", "free_ctrl"})

\* The task is about to make the next request of the enumeration, or the data pipes.
Carries ==
    \/ task["ctrl"].at \in {"set_config", "begin_in"}
    \/ task["ctrl"].at = "handle" /\ task["ctrl"].irp.irp \in Chained
    \/ task["ctrl"].at = "class" /\ task["ctrl"].irp.irp = "CFG_DESC"

\* One at a time, after the first two.
Chain ==
    Enumerating =>
        /\ Requests(drv["ctrl"]) \in {<< >>, <<"DEV_DESC">>, <<"DEV_DESC", "SET_ADDR">>,
                                      <<"SET_ADDR">>, <<"SET_CFG">>, <<"CFG_DESC">>}
        /\ Carries => Requests(drv["ctrl"]) = << >>
        /\ task["ctrl"].at \in {"handle", "class"} => task["ctrl"].irp.irp \in Chained \union {"DEV_DESC"}
        /\ task["ctrl"].at = "set_config" => task["ctrl"].irp.irp = "SET_ADDR"
        /\ port_task.at \in {"get_desc", "set_addr"} =>
              task["ctrl"].at = "blocked" /\ drv["ctrl"].state = "ACTIVE"
        /\ port_task.at = "get_desc" => Requests(drv["ctrl"]) = << >>
        /\ Requests(drv["ctrl"]) = <<"DEV_DESC">> <=> port_task.at = "set_addr"
        /\ port_task.at \notin {"invalidate", "class"} =>
              Len(evtq["ctrl"]) <= Len(drv["ctrl"].done)

Making == {"begin_in", "begin_in_alloc", "begin_out", "begin_out_alloc", "ready"}

\* There are no such requests once the data pipes are there.
Unchained ==
    Life("in") # "none" =>
        /\ \A k \in DOMAIN Requests(drv["ctrl"]) : Requests(drv["ctrl"])[k] \notin Chained
        /\ task["ctrl"].at \in {"handle", "class"} => task["ctrl"].irp.irp \notin Chained
        /\ task["ctrl"].at \notin {"set_config", "begin_in"}

CtrlVisit ==
    /\ Chain /\ Unchained
    /\ task["ctrl"].at \in Making => vport.state = "ENABLED"

Visit == PortVisit /\ ObjectsVisit /\ CtrlVisit

=============================================================================
