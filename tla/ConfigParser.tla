---------------------------- MODULE ConfigParser ----------------------------
(***************************************************************************)
(* The walk through a configuration descriptor (configparse.cpp), as begin *)
(* of the CDC class driver uses it: the first interface of a class, its IN *)
(* endpoint, its OUT endpoint.                                             *)
(*                                                                         *)
(* A configuration is a sequence of descriptors; a pointer into it is the  *)
(* index of one.  The buffer was cleared before the transfer, so after the *)
(* last descriptor, if it fits, there is one of type 0.                    *)
(***************************************************************************)
EXTENDS Naturals, Sequences

CONSTANTS
    Config,     \* the configurations
    Class       \* the class that is looked for

\* class: bInterfaceClass, of an interface; "none" stands for all that are not of a CDC
\* device.  dir: bit 7 of bEndpointAddress, of an endpoint.  empty: bLength is 0.
Descriptor_t ==
    [type  : {"CONFIG", "DEVICE", "STRING", "INTERFACE", "ENDPOINT", "HID", "CS_INTERFACE", "OTHER"},
     class : {"data", "comm", "none"},
     dir   : {0, 1},
     empty : BOOLEAN]

ASSUME ConfigAssumption == Config \subseteq Seq(Descriptor_t)

VARIABLES
    cfg,    \* the configuration
    next,   \* the descriptor to parse
    stage,  \* what is looked for: the interface, an endpoint
    found   \* what has been found; 0 is NULL

vars == <<cfg, next, stage, found>>

AtStart ==
    /\ next = 1
    /\ stage = "itf"
    /\ found = [itf |-> 0, in |-> 0, out |-> 0]

Init == cfg \in Config /\ AtStart

Type(k) == IF k \in DOMAIN cfg THEN cfg[k].type ELSE "END"

\* As Advance, where a class specific descriptor has no case of its own length.
AdvanceNotClass(k) ==
    IF Type(k) \in {"END", "DEVICE", "CS_INTERFACE"} \/ cfg[k].empty THEN k ELSE k + 1

\* parse_cfg_descriptor: the type 0 and a device descriptor are not stepped over, nor
\* is one that says it has no length.
Advance(k) == IF Type(k) \in {"END", "DEVICE"} \/ cfg[k].empty THEN k ELSE k + 1

\* As IsInterface, for any class.
IsAnyInterface(k) == Type(k) = "INTERFACE"

\* The descriptors that getInterfaceByClass and getEndpointByDirection return.
\* A direction of 0 stands for any.
IsInterface(k) == Type(k) = "INTERFACE" /\ cfg[k].class = Class

IsEndpoint(k, dir) == Type(k) = "ENDPOINT" /\ (dir = 0 \/ cfg[k].dir = dir)

Wanted(k) ==
    CASE stage = "itf" -> IsInterface(k)
      [] stage = "in"  -> IsEndpoint(k, 1)
      [] stage = "out" -> IsEndpoint(k, 0)

Following == [itf |-> "in", in |-> "out", out |-> "done"]

\* One turn of the loop that goes on.
Skip ==
    /\ stage # "done" /\ Type(next) # "END" /\ ~Wanted(next)
    /\ next' = Advance(next)
    /\ UNCHANGED <<cfg, stage, found>>

\* The search ends with a descriptor.  Each endpoint is looked for from the
\* interface on.
Found ==
    /\ stage # "done" /\ Wanted(next)
    /\ found' = [found EXCEPT ![stage] = next]
    /\ stage' = Following[stage]
    /\ next' = found'.itf
    /\ UNCHANGED cfg

\* The search ends with NULL; begin gives up without an interface.
NotFound ==
    /\ stage # "done" /\ Type(next) = "END"
    /\ stage' = IF stage = "itf" THEN "done" ELSE Following[stage]
    /\ next' = IF stage = "itf" THEN next ELSE found.itf
    /\ UNCHANGED <<cfg, found>>

Next == Skip \/ Found \/ NotFound

Spec == Init /\ [][Next]_vars /\ WF_vars(Next)

=============================================================================
