------------------------------- MODULE CdcTalk -------------------------------
(***************************************************************************)
(* What the CDC class driver and its device say to each other while the    *)
(* device is there (CdcVisit): the addresses, the requests on the control  *)
(* pipe, the one request on the IN pipe, and the IRPs of the application   *)
(* on the OUT pipe.                                                        *)
(***************************************************************************)
EXTENDS CdcVisit

There == vport.state = "ENABLED"

-----------------------------------------------------------------------------
(* Nothing goes wrong on the control pipe. *)

CtrlAnswers ==
    There /\ Life("ctrl") = "whole" =>
        /\ drv["ctrl"].state = "ACTIVE"
        /\ \A k \in DOMAIN evtq["ctrl"] : evtq["ctrl"][k] = "IRP_DONE"
        /\ task["ctrl"].at = "handle" => task["ctrl"].event = "IRP_DONE"

-----------------------------------------------------------------------------
(* The addresses *)

\* The device has its address, and the control pipe's task has yet to do what follows.
Turning ==
    \/ \E k \in DOMAIN drv["ctrl"].done : drv["ctrl"].done[k].irp = "SET_ADDR"
    \/ task["ctrl"].at = "handle" /\ task["ctrl"].irp.irp = "SET_ADDR"

\* What comes after the address.
Addressed ==
    \/ task["ctrl"].at \in {"set_config", "begin_in"}
    \/ task["ctrl"].at \in {"handle", "class"} /\ task["ctrl"].irp.irp \in {"SET_CFG", "CFG_DESC"}
    \/ \E k \in DOMAIN Requests(drv["ctrl"]) : Requests(drv["ctrl"])[k] \in {"SET_CFG", "CFG_DESC"}
    \/ Life("in") # "none"

CtrlAddress ==
    There =>
        /\ port_task.at \in {"connected", "alloc_pipe"} => dev_addr = 0
        /\ Life("ctrl") = "whole" =>
              /\ Turning => dev_addr = Address /\ drv["ctrl"].moving = << >> /\ drv["ctrl"].pending = << >>
              /\ ~Turning => addr["ctrl"] = dev_addr
              /\ Addressed => dev_addr = Address

\* The address of a data pipe is the one that begin gave it.
DataAddressAt(p) ==
    There /\ Life(p) = "whole" =>
        /\ addr[p] = Address
        /\ \A k \in DOMAIN Requests(drv[p]) : Requests(drv[p])[k] # "SET_ADDR"
        /\ task[p].at = "handle" => task[p].irp.irp # "SET_ADDR"

DataAddress == \A p \in DataPipe : DataAddressAt(p)

Addresses == CtrlAnswers /\ CtrlAddress /\ DataAddress

-----------------------------------------------------------------------------
(* Data that the pipe's task takes for data *)

\* The data pipes have no request that the pipe's task answers by itself.
PlainAt(p) ==
    There /\ Life(p) = "whole" =>
        /\ \A k \in DOMAIN Requests(drv[p]) : Requests(drv[p])[k] \notin {"SET_ADDR", "SET_CFG"}
        /\ task[p].at = "handle" => task[p].irp.irp \notin {"SET_ADDR", "SET_CFG"}
        /\ task[p].at # "set_config"

Plain == \A p \in DataPipe : PlainAt(p)

-----------------------------------------------------------------------------
(* The chain of requests on the IN pipe *)

Done(p) == Len(drv[p].done)

\* The task's message, and the state that it finds.
Matches(p, event) ==
    \/ event = "IRP_DONE" /\ drv[p].state = "ACTIVE"
    \/ event \in Known /\ drv[p].state = "HALTED"

\* It is on its way, done and reported, in the hands of the task, or about to be
\* followed by the next.
OneRequest ==
    There /\ Life("in") = "whole" =>
        IF ~ready THEN Unused("in")
        ELSE \/ /\ Holds(drv["in"]) = 1 /\ Done("in") = 0
                /\ drv["in"].state = "ACTIVE" /\ evtq["in"] = << >> /\ task["in"].at \in {"blocked", "free"}
             \/ /\ Holds(drv["in"]) = 1 /\ Done("in") = 1
                /\ Len(evtq["in"]) = 1 /\ Matches("in", evtq["in"][1]) /\ task["in"].at \in {"blocked", "free"}
             \/ /\ Holds(drv["in"]) = 0 /\ evtq["in"] = << >>
                /\ task["in"].at = "handle" /\ Matches("in", task["in"].event)
             \/ /\ Holds(drv["in"]) = 0 /\ evtq["in"] = << >>
                /\ task["in"].at = "class" /\ drv["in"].state = "ACTIVE"

-----------------------------------------------------------------------------
(* The OUT pipe *)

\* No message is dropped, so the task of a halted pipe is told.
OutMessages ==
    There /\ Life("out") = "whole" =>
        /\ Holds(drv["out"]) <= MaxOut
        /\ Len(evtq["out"]) <= Done("out")
        /\ drv["out"].state = "HALTED" =>
              Waiting("out") # {} \/ (task["out"].at = "handle" /\ task["out"].event \in Known)
        /\ app = "sending" => Holds(drv["out"]) < MaxOut

ChainFlows == Plain /\ OneRequest

Flow == ChainFlows /\ OutMessages

=============================================================================
