------------------------------- MODULE EpChar -------------------------------
(***************************************************************************)
(* Which endpoints hcd_pipe_alloc accepts, and the endpoint                *)
(* characteristics it gives to the pipe: the FIFO configurations and their *)
(* packet size limits, pipe_alloc_check_args and pipe_set_ep_char.         *)
(*                                                                         *)
(* An endpoint is the part of usb_desc_ep_t that the code reads; is_default *)
(* stands for pipe_config->ep_desc = NULL.                                  *)
(***************************************************************************)
EXTENDS Integers

Speed == {"LOW", "FULL"}

FifoBias == {"BALANCED", "RX", "PTX"}

TransferType == {"CTRL", "ISOCHRONOUS", "BULK", "INTR"}

Periodic(type) == type \in {"INTR", "ISOCHRONOUS"}

\* usbh_hal_fifo_config_t, in lines of four bytes.
FifoLines(bias) ==
    CASE bias = "BALANCED" -> [rx |-> 104, nptx |-> 48, ptx |-> 48]
      [] bias = "RX"       -> [rx |-> 152, nptx |-> 16, ptx |-> 32]
      [] bias = "PTX"      -> [rx |-> 34,  nptx |-> 16, ptx |-> 150]

\* fifo_mps_limits_t.
MpsLimits(bias) ==
    CASE bias = "BALANCED" -> [in |-> 408, nptx |-> 192, ptx |-> 192]
      [] bias = "RX"       -> [in |-> 600, nptx |-> 64,  ptx |-> 128]
      [] bias = "PTX"      -> [in |-> 128, nptx |-> 64,  ptx |-> 600]

\* The limit that applies to an endpoint.
MpsLimit(ep, bias) ==
    IF ep.is_in THEN MpsLimits(bias).in
    ELSE IF Periodic(ep.type) THEN MpsLimits(bias).ptx ELSE MpsLimits(bias).nptx

\* The period of an isochronous endpoint is 2^(bInterval - 1) frames.
IntervalSupported(ep) ==
    /\ ep.type = "INTR" => ep.bInterval <= 32
    /\ ep.type = "ISOCHRONOUS" => ep.bInterval <= 6

PipeAllocCheckArgs(ep, dev_speed, port_speed, bias) ==
    /\ ~(port_speed = "LOW" /\ dev_speed = "FULL")
    /\ dev_speed = "LOW" => ep.type \notin {"BULK", "ISOCHRONOUS"}
    /\ IntervalSupported(ep)
    /\ ep.is_default \/ ep.mps <= MpsLimit(ep, bias)

\* The largest power of two that is not above n, and at most 32; 0 stays 0.
RoundDown(n) ==
    CASE n >= 32 -> 32
      [] n \in 16 .. 31 -> 16
      [] n \in 8 .. 15 -> 8
      [] n \in 4 .. 7 -> 4
      [] n \in 2 .. 3 -> 2
      [] OTHER -> n

\* The period an endpoint asks for, in frames (a bInterval of 0 makes the shift
\* for an isochronous endpoint undefined: no value is given for it).
RequestedInterval(ep) ==
    IF ep.type = "INTR" THEN ep.bInterval ELSE 2 ^ (ep.bInterval - 1)

Interval(ep) == IF Periodic(ep.type) THEN RoundDown(RequestedInterval(ep)) ELSE 0

\* usbh_hal_ep_char_t.  pipe_idx is the number of pipes the port has.
SetEpChar(ep, dev_speed, pipe_idx, xfer_list_len) ==
    [type                |-> ep.type,
     is_in               |-> ep.is_in /\ ~ep.is_default,
     mps                 |-> IF ~ep.is_default THEN ep.mps
                             ELSE IF dev_speed = "FULL" THEN 64 ELSE 8,
     interval            |-> Interval(ep),
     phase_offset_frames |-> IF Periodic(ep.type) THEN pipe_idx % xfer_list_len ELSE 0]

=============================================================================
