----------------------------- MODULE MCTransfer -----------------------------
(***************************************************************************)
(* Model checking of the transfer descriptors: endpoints of every type and *)
(* every period, a few sizes around the packet size, and requests that end *)
(* exactly at, before and after a packet.                                  *)
(***************************************************************************)
EXTENDS TransferDescriptors, TLC

CONSTANTS Types, BInterval, Mps, NumBytes, NumPackets

\* A control pipe, and endpoints of packet size Mps; an endpoint that is not
\* periodic ignores its bInterval.
MCEndpoint ==
    LET Of(types) == [type : types, is_in : BOOLEAN, mps : Mps, bInterval : BInterval,
                      is_default : {FALSE}]
    IN  {ep \in Of(Types \ {"CTRL"}) : Periodic(ep.type) \/ ep.bInterval = 1} \union
        [type : Types \intersect {"CTRL"}, is_in : {FALSE}, mps : {0}, bInterval : {0},
         is_default : {TRUE}]

\* None to two packets more than Mps bytes, and isochronous streams, with no packets
\* or with packets of different sizes.
MCRequest ==
    LET None == [num_bytes |-> 0, data_in |-> FALSE, zero_pack |-> FALSE, packets |-> << >>]
        Of(type, irp) == [type |-> type] @@ irp
    IN  {Of("CTRL", [None EXCEPT !.num_bytes = n, !.data_in = d]) : n \in {0, 2}, d \in BOOLEAN} \union
        {Of("BULK", [None EXCEPT !.num_bytes = n, !.zero_pack = z]) : n \in {0, 3, 4}, z \in BOOLEAN} \union
        {Of("INTR", [None EXCEPT !.num_bytes = n]) : n \in NumBytes} \union
        {Of("ISOCHRONOUS", [None EXCEPT !.packets = [k \in 1 .. n |-> 1 + (k % 2)]]) : n \in NumPackets}

-----------------------------------------------------------------------------

Sum(s) == Total(s)[Len(s)]

FilledBuffers == {b \in Buf : buffers[b].state = "filled" /\ buffers[b].moved = << >>}

\* Those with a request of at least a byte, or a packet, where it takes one.
Requested == {b \in FilledBuffers : ~Empty(buffers[b].irp)}

\* A descriptor, if it is there to be run.
IfActive(desc) == IF desc.active THEN <<desc>> ELSE << >>

\* The packets the channel will find in a buffer, in the order in which it will
\* run them, over all stages of a control transfer.
Described(b) ==
    LET list == buffers[b].list
        flags == buffers[b].flags
    IN  IF ep_char.type = "CTRL"
        THEN IfActive(list[0]) \o IfActive(list[1]) \o IfActive(list[2])
        ELSE LET idx == Packets(list, ExecStart(flags), ExecLen(flags))
             IN  [k \in 1 .. Len(idx) |-> list[idx[k]]]

Contiguous(descs) == \A k \in 2 .. Len(descs) : descs[k].off = descs[k - 1].off + descs[k - 1].len

\* What the channel finds in a buffer is the request of the buffer and nothing
\* else: its bytes, each one once and in order, in packets of the sizes that were
\* asked for, all of the direction of the endpoint -- although a list is never
\* cleared after an error, and holds descriptors of earlier requests.  (The zero
\* length packet of a bulk OUT request is left to ZeroPacketSent, the requests that
\* get no descriptor to ListHalts.)
DescribesRequest ==
    \A b \in Requested :
        LET irp == buffers[b].irp
            descs == Described(b)
            Data == IF ep_char.type = "CTRL" THEN SubSeq(descs, 2, Len(descs) - 1) ELSE descs
        IN  /\ Contiguous(Data)
            /\ IF ep_char.type = "ISOCHRONOUS"
               THEN [k \in DOMAIN Data |-> Data[k].len] = irp.packets
               ELSE Sum([k \in DOMAIN Data |-> Data[k].len]) = irp.num_bytes
            /\ ep_char.type = "CTRL" =>
                  /\ Len(descs) = IF irp.num_bytes = 0 THEN 2 ELSE 3
                  /\ descs[1].setup /\ descs[1].off = 0 /\ descs[1].len = SETUP_SIZE
                  /\ \A k \in DOMAIN Data : Data[k].off = SETUP_SIZE /\ ~Data[k].setup
                  /\ descs[Len(descs)].len = 0 /\ ~descs[Len(descs)].setup
            /\ ep_char.type # "CTRL" =>
                  /\ Data[1].off = 0
                  /\ \A k \in DOMAIN Data : Data[k].in = ep_char.is_in
            /\ ep_char.type = "INTR" =>
                  \A k \in DOMAIN Data : Data[k].len = ep_char.mps \/ k = Len(Data)

\* A stage of a control transfer runs on a channel whose direction and PID fit the
\* descriptor it runs: setup is DATA0 OUT, the data stage goes the way the request
\* says, and the status stage goes the other way.
DirectionsAgree ==
    chan.active /\ ep_char.type = "CTRL" =>
        LET buffer == buffers[rd_idx]
            desc == buffer.list[chan.start]
            irp == buffer.irp
        IN  /\ desc.active
            /\ chan.dir_in = desc.in
            /\ chan.pid = 0 <=> desc.setup
            /\ desc.len = 0 => desc.in = ~(irp.data_in /\ irp.num_bytes > 0)

\* An IRP that completes says how many bytes moved: "Actual number of bytes
\* transmitted/receives in the IRP" (usb.h); an isochronous one says it of every
\* packet, and says which packets were skipped.  (An interrupt IN transfer that
\* ends early is left to ShortPacketReported, and an Empty one to ListHalts.)
EarlyStop == ep_char.type = "INTR" /\ done.irp.num_bytes > ep_char.mps * Len(done.moved)

BytesReported ==
    done.result = "done" /\ ~EarlyStop /\ ~Empty(done.irp) =>
        CASE ep_char.type = "CTRL" -> done.actual_num_bytes = Sum(done.moved) - SETUP_SIZE
          [] ep_char.type = "ISOCHRONOUS" ->
                \A k \in DOMAIN done.moved : k \in done.skipped \/ done.actual[k] = done.moved[k]
          [] OTHER -> done.actual_num_bytes = Sum(done.moved)

\* The packets of an isochronous pipe that wait in its buffers, oldest first.
Waiting ==
    LET InBuffer(b) == IF b \in Requested
                       THEN Packets(buffers[b].list, ExecStart(buffers[b].flags), XFER_LIST_LEN_ISOC)
                       ELSE << >>
    IN  InBuffer(rd_idx) \o InBuffer(1 - rd_idx)

\* Each packet of an isochronous stream is put into a frame in which the pipe is
\* scheduled, one interval after the packet before it -- also the first packet of
\* a buffer, after the last one of the buffer before it.
StreamOnSchedule ==
    ep_char.type = "ISOCHRONOUS" =>
        /\ \A k \in DOMAIN Waiting :
              Waiting[k] % ep_char.interval = ep_char.phase_offset_frames % ep_char.interval
        /\ \A k \in 2 .. Len(Waiting) :
              Behind(Waiting[k - 1], Waiting[k]) = ep_char.interval % XFER_LIST_LEN_ISOC

\* A new stream starts in time: "We want at least a half interval or 2 frames of
\* buffer space", and not a whole interval later than needed.  (A period of 32
\* frames is left to StartsAheadOf32.)
StartsAhead ==
    lead > 0 /\ ep_char.interval < 32 =>
        /\ lead >= 2 /\ 2 * lead >= ep_char.interval
        /\ 2 * lead <= 3 * ep_char.interval + 2

-----------------------------------------------------------------------------
(* What the comments say, and the code does not do *)

\* "Actual number of bytes transmitted/receives in the IRP" (usb.h)
ShortPacketReported ==
    done.result = "done" /\ EarlyStop => done.actual_num_bytes = Sum(done.moved)

\* "We need to add an extra zero length packet, so two descriptors are used"
ZeroPacketSent ==
    \A b \in FilledBuffers :
        ep_char.type = "BULK" /\ ~ep_char.is_in /\ buffers[b].irp.zero_pack
            => Len(Described(b)) = 2

\* "Fill in the last descriptor with HOC flag" and "Last packet, set the the HOC
\* flag": what the channel runs for a request ends with the halt flag.
ListHalts ==
    \A b \in FilledBuffers :
        LET descs == Described(b) IN
        Periodic(ep_char.type) => descs # << >> /\ descs[Len(descs)].hoc

\* "We want at least a half interval or 2 frames of buffer space"
StartsAheadOf32 == lead > 0 => lead >= 2 /\ 2 * lead >= ep_char.interval

\* "Clear the descriptor list"
ListCleared ==
    done.result = "done" =>
        \A b \in Buf : buffers[b].state = "free" => \A i \in DOMAIN buffers[b].list : buffers[b].list[i] = NoDesc

\* "Round down interval to nearest power of 2"
IntervalIsPowerOfTwo == Periodic(ep_char.type) => ep_char.interval \in {1, 2, 4, 8, 16, 32}

=============================================================================
